------------------------------ MODULE MCIpcCall ------------------------------
(* Instances of IpcCall for TLC. *)
EXTENDS IpcCall

\* Heap blocks are interchangeable.
BlockSymmetry == Permutations(Blocks)
=============================================================================
