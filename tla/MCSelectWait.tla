---------------------------- MODULE MCSelectWait ----------------------------
(* Instances of SelectWait for TLC. *)
EXTENDS SelectWait, TLC

CONSTANTS b1, b2

OneBase  == {b1}
TwoBases == {b1, b2}

\* Both clients share the one socket; b1 has a closed descriptor as well.
SharedFds == [p \in Bases |-> IF p = b1 THEN 0 :> 0 @@ 1 :> -1 ELSE 0 :> 0]

\* Nothing, the shared socket, a descriptor that is closed (b1) or beyond the table (b2).
AnyWatch == {{}, {<<0, "write">>}, {<<1, "write">>}}

\* b1 waits for a signal of its own, b2 can be broken off.
AskedAndBreak == [p \in Bases |-> IF p = b1 THEN {"user"} ELSE {"break"}]
NoBits        == [p \in Bases |-> {}]
=============================================================================
