------------------------------ MODULE MCMemory ------------------------------
(* Three requests of every kind.  The batches meet each other's keys in    *)
(* opposite orders, differ in one column, repeat a key and end badly.      *)
EXTENDS Memory

MCFact(key, value, confidence) == [key |-> key, value |-> value, confidence |-> confidence]

CONSTANTS k1, k2, v1, v2, low, high

MCBatch == {
  <<MCFact(k1, v1, low), MCFact(k2, v1, low)>>,
  <<MCFact(k2, v2, low), MCFact(k1, v1, high)>>,
  <<MCFact(k1, v2, high), MCFact(k1, v1, high)>>,
  <<MCFact(k1, v2, low), Bad>>
}

MCRemembered == {MCFact(k1, v1, low)}

=============================================================================
