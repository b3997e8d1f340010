--------------------------- MODULE MCSocketCalls ---------------------------
(* Instance of SocketCalls for TLC: two clients that may share a socket,   *)
(* model values for clients and pcbs, which are interchangeable.           *)
EXTENDS SocketCalls, TLC

CONSTANTS b1, b2, p1, p2

Interchangeable == Permutations({b1, b2}) \cup Permutations({p1, p2})

=============================================================================
