----------------------------- MODULE MCDocuments -----------------------------
(* Two uploads and two questions, two of them at a time.  Chunks of three    *)
(* words overlap by one, so a text of six words has three of them, the last  *)
(* one short.  The fact lies across a border of windows laid side by side.   *)
EXTENDS Documents, TLC

MCLength == {0, 6}

MCFact == {[from |-> 3, to |-> 4]}

MCSymmetry == Permutations(Upload) \cup Permutations(Ask)

=============================================================================
