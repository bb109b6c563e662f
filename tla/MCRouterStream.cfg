CONSTANTS
  Provider = {"local", "google", "anthropic"}
  NativeStream = {"local", "anthropic"}
  Model = {"m1", "m2"}
  NoPick = NoPick
  Route <- MCRoute
SPECIFICATION Spec
INVARIANT ContactIsAudited
CHECK_DEADLOCK FALSE
