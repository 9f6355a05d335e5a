SPECIFICATION AgentSpec
CONSTANTS
  reader = reader
  coder = coder
  planner = planner
  doctor = doctor
  p1 = p1
  p2 = p2
  None = None
  Broken = Broken
  Readers <- MCReaders
  Coder = coder
  Planner = planner
  Doctor = doctor
  Profiles <- MCProfiles
  ProfileOf <- MCProfileOf
  Sessions <- MCSessions
  MaxAttempts = 2
  Repairs <- MCRepairs
  MaxEdits = 2
  Definitions = {"add", "sub"}
  Functions = {1, 2, 3}
  MaxPlanSteps = 3
  Specs <- MCSpecs
INVARIANTS
  RequestsBounded
  NativeIsEarned
  WrittenOnceAndReported
  DefinitionsKept
  PlanIsFannedOut
