CONSTANTS
  Upload = {u1, u2}
  Ask = {a1, a2}
  NoAsk = NoAsk
  Length <- MCLength
  Fact <- MCFact
  Size = 3
  Overlap = 1
  TopK = 2
  MaxInFlight = 2
SPECIFICATION Spec
SYMMETRY MCSymmetry
INVARIANTS
  WholeDocuments
  StoredIsFound
  PageAgrees
CHECK_DEADLOCK FALSE
