CONSTANTS
  Dispatch = {d1, d2}
  Operator = {o1}
  NoTool = NoTool
  MaxLevel = 3
  Level <- MCLevel
  Registered <- MCRegistered
  Tool <- MCTool
  Implemented <- MCImplemented
SPECIFICATION Spec
SYMMETRY DispatchSymmetry
INVARIANTS
  OnlyPermittedRuns
  StopObeyed
  GatedRunIsLogged
  ReportedIsAudited
