---------------------------- MODULE MCSlotTable ----------------------------
(* Instance of SlotTable for TLC. *)
EXTENDS SlotTable, TLC

CONSTANTS b1, b2, b3

ThreeBases == {b1, b2, b3}
OneType    == {"STREAM"}

\* The clients are interchangeable.
BaseSymmetry == Permutations(Bases)
============================================================================
