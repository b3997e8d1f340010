--------------------------- MODULE SocketHandles ---------------------------
(***************************************************************************)
(* What the socket table promises, with no slot table, no reference        *)
(* counter and no owner: programs hold handles on sockets (descriptors,    *)
(* and ids under which a socket is parked), and a socket exists exactly    *)
(* as long as some handle names it.                                        *)
(***************************************************************************)
CONSTANTS Programs, Descriptors, Sockets, ParkNames, Nothing

VARIABLES
    holds,    \* per program: descriptor -> socket, or Nothing
    parked,   \* per socket: the name it is parked under, or Nothing
    exists    \* the sockets that exist

hvars == <<holds, parked, exists>>

Named(h, p) == {s \in Sockets : p[s] # Nothing \/
                  \E q \in Programs, d \in Descriptors : h[q][d] = s}

HInit ==
    /\ holds = [q \in Programs |-> [d \in Descriptors |-> Nothing]]
    /\ parked = [s \in Sockets |-> Nothing]
    /\ exists = {}

\* A new socket is one that did not exist.
Create(q, d, s) ==
    /\ holds[q][d] = Nothing
    /\ s \notin exists
    /\ holds' = [holds EXCEPT ![q][d] = s]
    /\ exists' = exists \cup {s}
    /\ UNCHANGED parked

\* Handles go away, and with them the sockets nothing names any more.
CloseOne(q, d) ==
    /\ holds[q][d] # Nothing
    /\ holds' = [holds EXCEPT ![q][d] = Nothing]
    /\ exists' = Named(holds', parked)
    /\ UNCHANGED parked

CloseAll(Q) ==
    /\ holds' = [q \in Programs |-> IF q \in Q THEN [d \in Descriptors |-> Nothing]
                                               ELSE holds[q]]
    /\ exists' = Named(holds', parked)
    /\ UNCHANGED parked

Duplicate(q, old, new) ==
    /\ holds[q][old] # Nothing
    /\ holds' = [holds EXCEPT ![q][new] = holds[q][old]]
    /\ exists' = Named(holds', parked)
    /\ UNCHANGED parked

\* A socket is parked under one name, and a name stands for one socket.
Park(q, d, n, keep) ==
    /\ holds[q][d] # Nothing
    /\ parked[holds[q][d]] = Nothing
    /\ \A s \in Sockets : parked[s] # n
    /\ parked' = [parked EXCEPT ![holds[q][d]] = n]
    /\ holds' = IF keep THEN holds ELSE [holds EXCEPT ![q][d] = Nothing]
    /\ UNCHANGED exists

Take(q, d, s) ==
    /\ holds[q][d] = Nothing
    /\ parked[s] # Nothing
    /\ holds' = [holds EXCEPT ![q][d] = s]
    /\ parked' = [parked EXCEPT ![s] = Nothing]
    /\ UNCHANGED exists

HNext ==
    \/ \E Q \in SUBSET Programs : CloseAll(Q)
    \/ \E q \in Programs, d \in Descriptors :
         \/ \E s \in Sockets : Create(q, d, s) \/ Take(q, d, s)
         \/ CloseOne(q, d)
         \/ \E new \in Descriptors : Duplicate(q, d, new)
         \/ \E n \in ParkNames, keep \in BOOLEAN : Park(q, d, n, keep)

HSpec == HInit /\ [][HNext]_hvars
============================================================================
