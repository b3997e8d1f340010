------------------------------- MODULE Netcat ------------------------------
(***************************************************************************)
(* The nc command (src/cmds/nc.c): standard input to a connection and the  *)
(* connection to standard output in one loop.  A redirected file is sent   *)
(* block by block with one look at the connection after each, then half    *)
(* closed; a console is looked at between two waits.  send() blocks.  Data *)
(* is counted in blocks of what one Read() takes; a recv() takes up to     *)
(* NcTake of them.  The peer is external: it answers each block it reads   *)
(* with some number of blocks, reads nothing while it cannot write, and    *)
(* may close or reset at any time.                                         *)
(***************************************************************************)
EXTENDS Integers

CONSTANTS NcFile,      \* blocks of standard input
          NcUp, NcDown,\* blocks that fit on the way to and from the peer
          NcTake,      \* BUF_SIZE / IN_BUF
          NcRatios,    \* blocks a peer answers each block with
          NcTimeouts   \* values of TIMEOUT

\* What the constants must satisfy.
NcAssumption == /\ NcFile \in Nat /\ NcRatios \subseteq Nat /\ NcTimeouts \subseteq Nat
                /\ {NcUp, NcDown, NcTake} \subseteq Nat \ {0}

VARIABLES nc_pc,       \* "setup", "top", "send", "select", "keys", "out"
          nc_tty,      \* IsInteractive(Input())
          nc_timeout,
          nc_left,     \* blocks of standard input not read yet
          nc_eof,      \* stdin_eof
          nc_fins,     \* shutdown(fd, 1) calls
          nc_idle,     \* idle, no further than the largest TIMEOUT
          nc_up, nc_down,
          nc_shown,    \* blocks written to standard output
          nc_peer,     \* [ratio, owes, said, open: not closed, reset]
          nc_lost,     \* history: a send failed
          nc_how       \* history: why the loop ended
ncvars == <<nc_pc, nc_tty, nc_timeout, nc_left, nc_eof, nc_fins, nc_idle, nc_up, nc_down,
            nc_shown, nc_peer, nc_lost, nc_how>>

Patience == CHOOSE t \in NcTimeouts \cup {1} : \A u \in NcTimeouts \cup {1} : u <= t
Fewer(a, b) == IF a <= b THEN a ELSE b
Ends(how) == nc_pc' = "out" /\ nc_how' = how
Loops(pc) == nc_pc' = pc /\ UNCHANGED nc_how
fixed == <<nc_tty, nc_timeout>>

----------------------------------------------------------------------------
\* Resolve and connect, or bind, listen and accept; any of them may fail.
NcOpen == /\ nc_pc = "setup" /\ (Loops("top") \/ Ends("failed"))
          /\ UNCHANGED <<fixed, nc_left, nc_eof, nc_fins, nc_idle, nc_up, nc_down, nc_shown,
                         nc_peer, nc_lost>>

NcBreak == /\ nc_pc = "top" /\ Ends("break")
           /\ UNCHANGED <<fixed, nc_left, nc_eof, nc_fins, nc_idle, nc_up, nc_down, nc_shown,
                          nc_peer, nc_lost>>

\* The end of the file is not remembered.
HalfCloseAgain == nc_fins' = nc_fins + 1 /\ UNCHANGED nc_eof

HalfClose == nc_eof' = TRUE /\ nc_fins' = nc_fins + 1

\* The top of the loop: a block of the file, its end, or nothing more to read.
NcRead ==
    /\ nc_pc = "top"
    /\ \/ /\ ~nc_tty /\ ~nc_eof /\ nc_left > 0
          /\ nc_left' = nc_left - 1 /\ nc_idle' = 0 /\ Loops("send") /\ UNCHANGED <<nc_eof, nc_fins>>
       \/ /\ ~nc_tty /\ ~nc_eof /\ nc_left = 0
          /\ HalfClose /\ Loops("select") /\ UNCHANGED <<nc_left, nc_idle>>
       \/ (nc_tty \/ nc_eof) /\ Loops("select") /\ UNCHANGED <<nc_left, nc_idle, nc_eof, nc_fins>>
    /\ UNCHANGED <<fixed, nc_up, nc_down, nc_shown, nc_peer, nc_lost>>

\* The whole file first, then the peer.
SendAllFirst == "top"

AfterSend == IF nc_tty THEN "top" ELSE "select"

\* send() waits for room.  When it fails the file is not read any further; a
\* line typed is lost.
NcSend ==
    /\ nc_pc = "send" /\ Loops(AfterSend)
    /\ \/ ~nc_peer.reset /\ nc_up < NcUp /\ nc_up' = nc_up + 1 /\ UNCHANGED <<nc_lost, nc_eof, nc_fins>>
       \/ /\ nc_peer.reset /\ nc_lost' = TRUE /\ UNCHANGED nc_up
          /\ IF nc_tty THEN UNCHANGED <<nc_eof, nc_fins>> ELSE HalfClose
    /\ UNCHANGED <<fixed, nc_left, nc_idle, nc_down, nc_shown, nc_peer>>

AfterWait == IF nc_tty THEN "keys" ELSE "top"

\* The tail of a closed connection is not read.
LeaveOnClose ==
    /\ nc_pc = "select" /\ ~nc_peer.open /\ Ends("peer")
    /\ UNCHANGED <<fixed, nc_left, nc_eof, nc_fins, nc_idle, nc_up, nc_down, nc_shown, nc_peer, nc_lost>>

NcPeerGone ==
    /\ nc_pc = "select" /\ (nc_peer.reset \/ (~nc_peer.open /\ nc_down = 0)) /\ Ends("peer")
    /\ UNCHANGED <<fixed, nc_left, nc_eof, nc_fins, nc_idle, nc_up, nc_down, nc_shown, nc_peer, nc_lost>>

NcRecv ==
    /\ nc_pc = "select" /\ nc_down > 0 /\ ~nc_peer.reset
    /\ nc_down' = nc_down - Fewer(nc_down, NcTake) /\ nc_shown' = nc_shown + Fewer(nc_down, NcTake)
    /\ nc_idle' = 0 /\ Loops(AfterWait)
    /\ UNCHANGED <<fixed, nc_left, nc_eof, nc_fins, nc_up, nc_peer, nc_lost>>

\* Gives up on a silent peer while there is still input.
IdleAnyway == nc_timeout # 0 /\ nc_idle' >= nc_timeout

\* A console waits TIMEOUT once; a file waits that long after its end only.
NcGivesUp == nc_timeout # 0 /\ (nc_tty \/ (nc_eof /\ nc_idle' >= nc_timeout))

NcIdle ==
    /\ nc_pc = "select" /\ nc_down = 0 /\ nc_peer.open
    /\ nc_idle' = IF nc_tty THEN nc_idle ELSE Fewer(nc_idle + 1, Patience)
    /\ IF NcGivesUp THEN Ends("idle") ELSE Loops(AfterWait)
    /\ UNCHANGED <<fixed, nc_left, nc_eof, nc_fins, nc_up, nc_down, nc_shown, nc_peer, nc_lost>>

\* WaitForChar and FGets: a line if one has been typed.
NcKeys ==
    /\ nc_pc = "keys"
    /\ \/ nc_left > 0 /\ nc_left' = nc_left - 1 /\ Loops("send")
       \/ Loops("top") /\ UNCHANGED nc_left
    /\ UNCHANGED <<fixed, nc_eof, nc_fins, nc_idle, nc_up, nc_down, nc_shown, nc_peer, nc_lost>>

----------------------------------------------------------------------------
(* The peer. *)

PeerMoves == nc_pc \notin {"setup", "out"} /\ nc_peer.open
             /\ UNCHANGED <<nc_pc, fixed, nc_left, nc_eof, nc_fins, nc_idle, nc_shown, nc_lost, nc_how>>

PeerReads  == /\ PeerMoves /\ nc_peer.owes = 0 /\ nc_up > 0 /\ nc_up' = nc_up - 1
              /\ nc_peer' = [nc_peer EXCEPT !.owes = nc_peer.ratio] /\ UNCHANGED nc_down
PeerWrites == /\ PeerMoves /\ nc_peer.owes > 0 /\ nc_down < NcDown /\ nc_down' = nc_down + 1
              /\ nc_peer' = [nc_peer EXCEPT !.owes = @ - 1, !.said = @ + 1] /\ UNCHANGED nc_up
PeerCloses == /\ PeerMoves /\ nc_peer' = [nc_peer EXCEPT !.open = FALSE] /\ UNCHANGED <<nc_up, nc_down>>
PeerResets == /\ PeerMoves /\ nc_up' = 0 /\ nc_down' = 0
              /\ nc_peer' = [nc_peer EXCEPT !.open = FALSE, !.reset = TRUE]

\* lwIP resets a closed connection that data still comes for.
ClosedResets == /\ nc_pc \notin {"setup", "out"} /\ ~nc_peer.open /\ ~nc_peer.reset /\ nc_up > 0
                /\ nc_peer' = [nc_peer EXCEPT !.reset = TRUE] /\ nc_up' = 0 /\ nc_down' = 0
                /\ UNCHANGED <<nc_pc, fixed, nc_left, nc_eof, nc_fins, nc_idle, nc_shown, nc_lost, nc_how>>

NcInit == /\ nc_pc = "setup" /\ nc_tty \in BOOLEAN /\ nc_timeout \in NcTimeouts
          /\ nc_left = NcFile /\ nc_eof = FALSE /\ nc_fins = 0 /\ nc_idle = 0
          /\ nc_up = 0 /\ nc_down = 0 /\ nc_shown = 0 /\ nc_lost = FALSE /\ nc_how = ""
          /\ \E r \in NcRatios :
               nc_peer = [ratio |-> r, owes |-> 0, said |-> 0, open |-> TRUE, reset |-> FALSE]

NcNext == \/ NcOpen \/ NcBreak \/ NcRead \/ NcSend \/ NcPeerGone \/ NcRecv \/ NcIdle \/ NcKeys
          \/ PeerReads \/ PeerWrites \/ PeerCloses \/ PeerResets \/ ClosedResets

----------------------------------------------------------------------------
NcTypeOK ==
    /\ nc_pc \in {"setup", "top", "send", "select", "keys", "out"}
    /\ nc_tty \in BOOLEAN /\ nc_eof \in BOOLEAN /\ nc_lost \in BOOLEAN
    /\ nc_timeout \in NcTimeouts /\ nc_left \in 0 .. NcFile /\ nc_fins \in Nat
    /\ nc_idle \in 0 .. Patience /\ nc_up \in 0 .. NcUp /\ nc_down \in 0 .. NcDown
    /\ nc_shown \in Nat /\ nc_how \in {"", "failed", "break", "peer", "idle"}
    /\ nc_peer \in [ratio : NcRatios, owes : Nat, said : Nat, open : BOOLEAN, reset : BOOLEAN]

\* A clean close has been read to its last block; who gives up on a silent
\* peer has sent its whole file or was told that it cannot, and has half
\* closed exactly once; and nc waits for room while the peer waits for nc to
\* read only if the peer answers a block with more than one recv() takes, for
\* one loop does both and its send() blocks (nc.c, pipe_stream).
RelayExact ==
    /\ nc_how = "peer" /\ ~nc_peer.reset => nc_shown = nc_peer.said
    /\ nc_how = "idle" /\ ~nc_tty => (nc_left = 0 \/ nc_lost) /\ nc_fins = 1
    /\ nc_fins <= 1
    /\ ~(nc_pc = "send" /\ nc_up = NcUp /\ nc_peer.open /\ nc_peer.owes > 0 /\ nc_down = NcDown
         /\ nc_peer.ratio <= Fewer(NcTake, NcDown))
=============================================================================
