CONSTANTS
  Agents <- MCAgents
  Grants <- MCGrants
  ReadPatterns <- MCReadPatterns
  WritePatterns <- MCWritePatterns
  ProtectedPatterns <- MCProtectedPatterns
  Raws <- MCRaws
  BranchNames <- MCBranchNames
  AgentPrefixed = {"agent/x"}
  ProtectedBranches = {"main"}
  Files <- MCFiles
  Dirs <- MCDirs
  Present <- MCPresent
  WorktreeDir <- MCWorktreeDir
  WorktreeNames = {"w"}
  Requests <- MCRequests
  Kids = {"k1", "k2"}
  Budgets <- MCBudgets
  MaxCommits = 2
SPECIFICATION Spec
INVARIANTS
  DeniedIsInert
  ScopeRespected
  CommittedWorkKept
PROPERTIES
  CallReturns
  ListedEnd
CHECK_DEADLOCK FALSE
