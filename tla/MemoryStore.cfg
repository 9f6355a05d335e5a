SPECIFICATION MSSpec
CONSTANTS
  Procs = {cli, run}
  Projects = {P}
  Global = Global
  MaxRecords = 3
  MaxSelected = 2
  MaxOps = 6
  None = None
SYMMETRY MCSymmetry
INVARIANTS
  ReplacedIsNotOffered
  BeliefSurvives
CHECK_DEADLOCK FALSE
