CONSTANTS
  MaxTurns = 2
  MaxDeltas = 2
SPECIFICATION Spec
INVARIANTS
  ShownIsStored
  ModelSeesConversation
PROPERTY TurnEnds
CHECK_DEADLOCK FALSE
