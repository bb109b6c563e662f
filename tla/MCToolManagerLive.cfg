CONSTANTS
  Dispatch = {d1}
  Operator = {o1, o2}
  NoTool = NoTool
  MaxLevel = 3
  Level <- MCLevel
  Registered <- MCRegistered
  Tool <- MCTool
  Implemented <- MCImplemented
SPECIFICATION Spec
INVARIANTS
  EngageHolds
PROPERTIES
  CallsEnd
  Implements
  FirstAnswerStands
