CONSTANTS
  Provider = {"local", "google", "anthropic"}
  NativeStream = {"local", "anthropic"}
  Model = {"m1", "m2"}
  NoPick = NoPick
  Route <- MCRoute
SPECIFICATION Spec
INVARIANTS
  AuditedFirst
  OneVoice
  GivesUpLast
PROPERTY CallEnds
CHECK_DEADLOCK FALSE
