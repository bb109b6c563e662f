CONSTANTS
  Request = {r1, r2, r3}
  Earlier = Earlier
  None = None
  Bad = Bad
  k1 = k1
  k2 = k2
  v1 = v1
  v2 = v2
  low = low
  high = high
  Key = {k1, k2}
  Value = {v1, v2}
  Confidence = {low, high}
  Batch <- MCBatch
  Remembered <- MCRemembered
SPECIFICATION Spec
INVARIANTS
  OneProject
  StoredWasThere
  ForgottenStaysForgotten
PROPERTIES
  WholeBatches
  RequestsEnd
CHECK_DEADLOCK FALSE
