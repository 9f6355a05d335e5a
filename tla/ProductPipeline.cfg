CONSTANTS
  c1 = c1
  c2 = c2
  Clients <- MCClients
  PRDDrafts <- MCPRDDrafts
  UXSketches <- MCUXSketches
  ArchSketches <- MCArchSketches
  MaxFailures = 1
  MaxCalls <- MCMaxCalls
  MaxRows = 4
  MaxOfKind <- MCMaxOfKind
  MAX_COMPLETIONS = 1
SYMMETRY Symmetry
SPECIFICATION Spec
INVARIANTS
  ApprovedCoversCritical
  LineageSound
  OneApproved
  ApprovalKept
CHECK_DEADLOCK FALSE
