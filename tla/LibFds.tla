------------------------------ MODULE LibFds ------------------------------
(***************************************************************************)
(* What an opener's library base keeps of its descriptors: the table and   *)
(* its size, the C runtime's copy of it (SBTC_FDCALLBACK), and the socket  *)
(* events that GetSocketEvents hands out (src/src/lib/lib_vectors.c,       *)
(* src/src/common/sbtc_dispatch.c).  An IPC call is one step here: it      *)
(* succeeds or it fails; IpcCall has its inside.                           *)
(***************************************************************************)
EXTENDS Integers, FiniteSets

CONSTANTS
    LbMaxFds,   \* TN_MAX_FDS_PER_TASK
    LbMinSize   \* the 4 below which no table shrinks

\* What the constants must satisfy.
LbAssumption == LbMaxFds \in Nat /\ LbMinSize \in 1 .. LbMaxFds

VARIABLES
    lb_size,    \* dtablesize
    lb_open,    \* the descriptors fd_map holds
    lb_mask,    \* the descriptors with an event mask
    lb_events,  \* the descriptors with recorded events
    lb_owed,    \* those among them recorded for the socket that is open now
    lb_last,    \* gse_last_fd
    lb_turn,    \* how many were handed out while this one waited, since a resize
    lb_cb,      \* fd_callback is set
    lb_crt,     \* the runtime's table: "free", "file" or "sock"
    lb_told,    \* history: last changed by a call that failed or with no callback set
    lb_asked,   \* history: the socket open now has set its SO_EVENTMASK
    lb_left     \* history: the socket open now found a mask set before it was opened

lbvars == <<lb_size, lb_open, lb_mask, lb_events, lb_owed, lb_last, lb_turn, lb_cb, lb_crt,
            lb_told, lb_asked, lb_left>>
lbasked == <<lb_asked, lb_left>>
lbevents == <<lb_mask, lb_events, lb_owed, lb_last, lb_turn, lb_asked, lb_left>>
lbmirror == <<lb_cb, lb_crt, lb_told>>

Fds  == 0 .. LbMaxFds - 1
Live == 0 .. lb_size - 1
LowestFd(S) == CHOOSE fd \in S : \A g \in S : fd <= g

----------------------------------------------------------------------------
\* socket, accept and ObtainSocket: the first descriptor the runtime agrees
\* to, or the daemon's choice when it agrees to none; FDCB_ALLOC after it.
Spare == {fd \in Live : fd \notin lb_open}
Agreed == {fd \in Spare : lb_crt[fd] = "free"}
\* The descriptor is a new socket; nothing clears its mask or its events.
NewSocket(fd) ==
    /\ lb_open' = lb_open \cup {fd} /\ lb_owed' = lb_owed \ {fd}
    /\ lb_asked' = lb_asked \ {fd} /\ lb_left' = (lb_left \ {fd}) \cup (lb_mask \cap {fd})
    /\ lb_crt' = IF lb_cb THEN [lb_crt EXCEPT ![fd] = "sock"] ELSE lb_crt
    /\ lb_told' = IF lb_cb THEN lb_told \ {fd} ELSE lb_told \cup {fd}
OpenFd ==
    /\ Spare # {}
    /\ NewSocket(LowestFd(IF lb_cb /\ Agreed # {} THEN Agreed ELSE Spare))
    /\ UNCHANGED <<lb_size, lb_mask, lb_events, lb_last, lb_turn, lb_cb>>

\* CloseSocket and ReleaseSocket: FDCB_FREE comes before the call.
FreedNever(fd) == lb_crt
Freed(fd) == IF lb_cb THEN [lb_crt EXCEPT ![fd] = "free"] ELSE lb_crt
CloseFd(fd, ok) ==
    /\ fd \in lb_open /\ lb_crt' = Freed(fd)
    /\ IF ok
       THEN /\ lb_open' = lb_open \ {fd} /\ lb_owed' = lb_owed \ {fd}
            /\ lb_told' = IF lb_cb THEN lb_told \ {fd} ELSE lb_told \cup {fd}
       ELSE /\ lb_told' = IF lb_cb THEN lb_told \cup {fd} ELSE lb_told
            /\ UNCHANGED <<lb_open, lb_owed>>
    /\ UNCHANGED <<lb_size, lb_mask, lb_events, lb_last, lb_turn, lb_cb, lbasked>>

\* Dup2Socket, to a descriptor named or (-1) to the lowest that fd_map has free:
\* FDCB_FREE of the socket the new one was before the call, FDCB_ALLOC after it.
\* No FDCB_CHECK is asked, so a file of the runtime's may lose its number.
Dup2Fd(old, new, ok) ==
    /\ old \in lb_open /\ new \in Live /\ old # new
    /\ IF ok THEN NewSocket(new)
       ELSE /\ lb_crt' = IF new \in lb_open THEN Freed(new) ELSE lb_crt
            /\ lb_told' = lb_told \cup (IF lb_cb /\ new \in lb_open THEN {new} ELSE {})
            /\ UNCHANGED <<lb_open, lb_owed, lbasked>>
    /\ UNCHANGED <<lb_size, lb_mask, lb_events, lb_last, lb_turn, lb_cb>>

\* The runtime opens or closes a file of its own.
FileUses(fd) ==
    /\ lb_crt[fd] # "sock"
    /\ lb_crt' = [lb_crt EXCEPT ![fd] = IF @ = "free" THEN "file" ELSE "free"]
    /\ UNCHANGED <<lb_size, lb_open, lbevents, lb_cb, lb_told>>

\* The callback is set or taken away at any time; sockets open by then are not
\* announced.
SetFdCallback ==
    /\ lb_cb' = ~lb_cb
    /\ UNCHANGED <<lb_size, lb_open, lbevents, lb_crt, lb_told>>

----------------------------------------------------------------------------
\* A resize that swaps in the cleared array.
ClearedEvents(n) == {}

\* SBTC_DTABLESIZE.  A smaller table is refused while a descriptor above it is
\* open; the three arrays are copied and swapped under Forbid.
CopyEvents(n) == {fd \in lb_events : fd < n}
SetDtableSize(asked) ==
    LET n == IF asked < LbMinSize THEN LbMinSize ELSE IF asked > LbMaxFds THEN LbMaxFds ELSE asked
    IN /\ \A fd \in lb_open : fd < n
       /\ lb_size' = n
       /\ lb_mask' = {fd \in lb_mask : fd < n}
       /\ lb_events' = IF n = lb_size THEN lb_events ELSE CopyEvents(n)
       /\ lb_turn' = IF n = lb_size THEN lb_turn ELSE [fd \in Fds |-> 0]
       /\ UNCHANGED <<lb_open, lb_owed, lb_last, lbmirror, lbasked>>

\* setsockopt(SO_EVENTMASK), which stays in the base.
SetEventMask(fd, on) ==
    /\ fd \in Live
    /\ lb_mask' = IF on THEN lb_mask \cup {fd} ELSE lb_mask \ {fd}
    /\ lb_asked' = IF fd \in lb_open THEN lb_asked \cup {fd} ELSE lb_asked
    /\ lb_left' = lb_left \ {fd}
    /\ UNCHANGED <<lb_size, lb_open, lb_events, lb_owed, lb_last, lb_turn, lbmirror>>

\* The daemon records an event for a descriptor with a mask; two descriptors
\* of one socket are two steps here.
tn_record_socket_event(fd) ==
    /\ fd \in lb_open \cap lb_mask
    /\ lb_events' = lb_events \cup {fd} /\ lb_owed' = lb_owed \cup {fd}
    /\ UNCHANGED <<lb_size, lb_open, lb_mask, lb_last, lb_turn, lbmirror, lbasked>>

\* A scan that always starts at descriptor 0.
ScanFromZero == LowestFd(lb_events)

\* The scan starts after the descriptor it reported last.
NextEvent ==
    LET Distance(fd) == (fd - (lb_last + 1)) % lb_size
    IN CHOOSE fd \in lb_events : \A g \in lb_events : Distance(fd) <= Distance(g)
GetSocketEvents ==
    /\ lb_events # {}
    /\ LET fd == NextEvent IN
       /\ lb_events' = lb_events \ {fd} /\ lb_owed' = lb_owed \ {fd} /\ lb_last' = fd
       /\ lb_turn' = [g \in Fds |-> IF g \in lb_events \ {fd} THEN lb_turn[g] + 1 ELSE 0]
    /\ UNCHANGED <<lb_size, lb_open, lb_mask, lbmirror, lbasked>>

LbInit ==
    /\ lb_size = LbMaxFds /\ lb_open = {} /\ lb_mask = {} /\ lb_events = {} /\ lb_owed = {}
    /\ lb_last = -1 /\ lb_turn = [fd \in Fds |-> 0]
    /\ lb_cb = FALSE /\ lb_crt = [fd \in Fds |-> "free"] /\ lb_told = {}
    /\ lb_asked = {} /\ lb_left = {}

LbNext ==
    \/ OpenFd \/ SetFdCallback \/ GetSocketEvents
    \/ \E fd \in Fds : \/ \E ok \in BOOLEAN : CloseFd(fd, ok)
                       \/ \E new \in Fds, ok \in BOOLEAN : Dup2Fd(fd, new, ok)
                       \/ FileUses(fd) \/ tn_record_socket_event(fd)
                       \/ \E on \in BOOLEAN : SetEventMask(fd, on)
    \/ \E n \in 0 .. LbMaxFds + 1 : SetDtableSize(n)

----------------------------------------------------------------------------
LbTypeOK ==
    /\ lb_size \in LbMinSize .. LbMaxFds /\ lb_open \subseteq Live
    /\ lb_mask \subseteq Live /\ lb_events \subseteq Live /\ lb_owed \subseteq lb_open
    /\ lb_last \in -1 .. LbMaxFds - 1 /\ lb_crt \in [Fds -> {"free", "file", "sock"}]
    /\ lb_told \subseteq Fds /\ lb_cb \in BOOLEAN /\ lb_asked \subseteq Fds /\ lb_left \subseteq Fds

\* No event is lost or starved: what the daemon recorded for an open socket is
\* still there after the table was resized under it, and at most one report of
\* every other descriptor goes before it, also when the cursor stands past the
\* end of a table that has shrunk.
EventsTakeTurns ==
    /\ lb_owed \subseteq lb_events
    /\ \A fd \in lb_events : lb_turn[fd] < lb_size

\* Events are recorded for a socket only if the application set a mask: on that
\* socket, or on the same number before it was opened.  The second is the mask
\* that CloseSocket leaves behind and the next socket finds in force.
EventsAsked == lb_owed \subseteq lb_asked \cup lb_left

\* The runtime's table and fd_map agree on which descriptors are sockets, through
\* any order of opening, closing and copying, of files of the runtime's own and of
\* changes of the callback.  They differ only in a descriptor whose last change
\* was a call that failed after FDCB_FREE, or was made while no callback was set;
\* the next open, close or copy with the callback set mends it.
MirrorAgrees ==
    \A fd \in Fds \ lb_told : fd \in lb_open <=> lb_crt[fd] = "sock"
=============================================================================
