------------------------------- MODULE IpcCall -------------------------------
(***************************************************************************)
(* tn_ipc_call: one client, the daemon, and the messages that travel       *)
(* between them.                                                           *)
(*                                                                         *)
(* A message is memory.  It is sent (PutMsg), held by the daemon in its    *)
(* port or parked in a pending bucket, replied (ReplyMsg) and taken off    *)
(* the client's reply port (GetMsg).  With ipc_timeout_ms set, each call   *)
(* uses a heap message; a call broken off by a signal or by the watchdog   *)
(* sends CANCEL and waits for both replies, for a bounded time, and a      *)
(* message the daemon may still hold goes to the orphan chain, which is    *)
(* freed when the library is closed.                                       *)
(*                                                                         *)
(* The reply port's signal bit is modelled: GetMsg does not clear it, only *)
(* Wait() does.  The daemon may be slow without limit (a wedged daemon).   *)
(***************************************************************************)
EXTENDS Integers, Sequences, FiniteSets, SequencesExt

CONSTANTS
    Blocks,     \* the heap blocks AllocVec can hand out for messages
    Embedded,   \* base->ipc_msg
    None,       \* a null message pointer
    Modes,      \* what the program sets ipc_timeout_ms to: TRUE for a positive value
    MaxSpins    \* how many replies a call takes off the port in search of its own (4)

ASSUME Memory == IsFiniteSet(Blocks) /\ Embedded \notin Blocks /\ None \notin Blocks \cup {Embedded}
ASSUME Spins  == MaxSpins \in Nat
ASSUME Watchdog == Modes # {} /\ Modes \subseteq BOOLEAN

VARIABLES
    alloc,       \* heap blocks in use
    body,        \* per message: its command, CANCEL's target, and its result
    inbox,       \* the daemon's port
    parked,      \* messages whose reply the daemon has deferred
    replies,     \* the client's reply port
    reply_sig,   \* the reply port's signal bit
    break_sig,   \* a break (sig_int) pending at the client
    timed,       \* ipc_timeout_ms > 0
    timer_io,    \* timer.device has been opened
    ipc_orphan,  \* the chain of abandoned messages
    ipc_cancel_msg,
    cl,          \* the client: where it is and what it waits for
    base         \* "open", or how CloseLibrary freed it: "closed" once the daemon had
                 \* answered all it was sent, "torn" when the watchdog gave up on CLOSE

dvars == <<body, inbox, parked, replies, reply_sig>>
cvars == <<alloc, timed, timer_io, ipc_orphan, ipc_cancel_msg, base>>
vars  == <<dvars, cvars, break_sig, cl>>

Messages == Blocks \cup {Embedded}

\* Messages the daemon holds or has replied and the client has not taken.
InFlight == ToSet(inbox) \cup parked \cup ToSet(replies)

\* The commands told apart: answered at once; parked in a bucket that CLOSE
\* empties (recv, send, DNS); parked in one it does not (connect, accept).
Quick == "QUICK"
Calls == {Quick, "RECV", "CONNECT"}
tn_cmd_may_park(cmd) == cmd \in {"RECV", "CONNECT"}

\* OK stands for every real answer of the daemon, error numbers included.
Results == {"none", "OK", "EINTR"}

-----------------------------------------------------------------------------
(***************************************************************************)
(* The daemon.                                                             *)
(***************************************************************************)
Answer(ms, result) == [m \in Messages |-> IF m \in ms THEN [body[m] EXCEPT !.result = result]
                                                      ELSE body[m]]

ReplyMsg(ms) == replies' = replies \o ms /\ reply_sig' = (reply_sig \/ ms # <<>>)

\* CANCEL answers its target first, if it is parked, then itself.
tn_ipc_cmd_cancel(m) ==
    LET target == body[m].target IN
    IF target \in parked
    THEN /\ parked' = parked \ {target}
         /\ body' = Answer({target}, "EINTR")
         /\ ReplyMsg(<<target, m>>)
    ELSE ReplyMsg(<<m>>) /\ UNCHANGED <<parked, body>>

\* Mutant of tn_ipc_cmd_close: the recv bucket is not emptied.
CloseLeavesParked(m) ==
    /\ body' = Answer({m}, "OK") /\ ReplyMsg(<<m>>)
    /\ UNCHANGED parked

\* CLOSE answers what it finds in the recv, send and DNS buckets; a pending
\* connect or accept is answered only when its socket goes, and stays when
\* another program shares the socket.
tn_ipc_cmd_close(m) ==
    \E stay \in SUBSET {p \in parked : body[p].cmd = "CONNECT"} :
       /\ parked' = stay
       /\ body' = Answer((parked \ stay) \cup {m}, "OK")
       /\ \E order \in SetToSeqs(parked \ stay) : ReplyMsg(Append(order, m))

\* One turn of the main loop's IPC drain.
tn_handle_ipc ==
    /\ inbox # <<>>
    /\ LET m == Head(inbox) IN
       /\ inbox' = Tail(inbox)
       /\ CASE body[m].cmd = "CANCEL" -> tn_ipc_cmd_cancel(m)
            [] body[m].cmd = "CLOSE"  -> tn_ipc_cmd_close(m)
            [] OTHER ->
                 \/ body' = Answer({m}, "OK") /\ ReplyMsg(<<m>>) /\ UNCHANGED parked
                 \/ /\ tn_cmd_may_park(body[m].cmd)
                    /\ parked' = parked \cup {m}
                    /\ UNCHANGED <<body, replies, reply_sig>>
    /\ UNCHANGED <<cvars, break_sig, cl>>

\* Data, a connection or a name arrives, or a socket timeout strikes.
Complete(m) ==
    /\ m \in parked
    /\ parked' = parked \ {m}
    /\ body' = Answer({m}, "OK")
    /\ ReplyMsg(<<m>>)
    /\ UNCHANGED <<inbox, cvars, break_sig, cl>>

-----------------------------------------------------------------------------
(***************************************************************************)
(* The client.  cl.pc:                                                     *)
(*   idle      outside the library                                         *)
(*   wait      in Wait(), for the reply, the timer or a break              *)
(*   port      at WaitPort, looking for the reply of cl.msg ("collect")    *)
(*             or for the replies of cl.msg and CANCEL ("drain")           *)
(*   portwait  asleep in that WaitPort                                     *)
(*   bounded   in the drain that gives up after ipc_timeout_ms             *)
(*   freeing   CLOSE has returned, the base is about to be freed           *)
(***************************************************************************)
Idle == [pc |-> "idle", msg |-> None, cmd |-> Quick, watch |-> FALSE, why |-> "reply",
         phase |-> "collect", spins |-> 0, got_msg |-> FALSE, got_cancel |-> FALSE]

\* The call returns; CLOSE goes on to free the base, answered or not.
Done(answered) == IF cl.cmd = "CLOSE" THEN [Idle EXCEPT !.pc = "freeing", !.got_msg = answered]
                                      ELSE Idle

InHeap(m) == m # Embedded

\* Mutant of PutMsg: requests overtake one another.
PutMsgFirst(m, cmd, target) ==
    /\ inbox' = <<m>> \o inbox
    /\ body' = [body EXCEPT ![m] = [cmd |-> cmd, target |-> target, result |-> "none"]]

PutMsg(m, cmd, target) ==
    /\ inbox' = Append(inbox, m)
    /\ body' = [body EXCEPT ![m] = [cmd |-> cmd, target |-> target, result |-> "none"]]

\* Replies taken off the port before a timed call: up to the first orphan's.
Drained ==
    IF ipc_orphan = {} THEN replies
    ELSE LET late == {i \in DOMAIN replies : replies[i] \in ipc_orphan}
         IN  IF late = {} THEN <<>>
             ELSE SubSeq(replies, 1 + CHOOSE i \in late : \A j \in late : i <= j, Len(replies))

\* tn_ensure_timer opens timer.device on first use; that may fail.
tn_ensure_timer(ok) == (timer_io => ok) /\ timer_io' = ok

\* The start of a call.  A timed call needs a heap block; the watchdog runs if
\* there is a timer.  Without memory the call fails with ENOBUFS.  To send the
\* embedded message while it is on a list would corrupt Exec's lists; such runs
\* are not followed further (EmbeddedComesBack shows how they arise).
tn_ipc_call(cmd) ==
    /\ cl.pc = "idle" /\ base = "open"
    /\ IF timed
       THEN /\ replies' = Drained
            /\ \/ /\ cl' = IF cmd = "CLOSE" THEN [Idle EXCEPT !.pc = "freeing"] ELSE Idle
                  /\ UNCHANGED <<alloc, body, inbox, timer_io>>
               \/ \E m \in Blocks \ alloc, watch \in BOOLEAN :
                    /\ alloc' = alloc \cup {m}
                    /\ PutMsg(m, cmd, None)
                    /\ tn_ensure_timer(watch)
                    /\ cl' = [Idle EXCEPT !.pc = "wait", !.msg = m, !.cmd = cmd, !.watch = watch]
       ELSE /\ Embedded \notin InFlight
            /\ PutMsg(Embedded, cmd, None)
            /\ cl' = [Idle EXCEPT !.pc = "wait", !.msg = Embedded, !.cmd = cmd]
            /\ UNCHANGED <<replies, alloc, timer_io>>
    /\ UNCHANGED <<parked, reply_sig, break_sig, timed, ipc_orphan, ipc_cancel_msg, base>>

\* The answer is read, a heap message is freed.
Finish(answered) ==
    /\ cl' = Done(answered)
    /\ alloc' = alloc \ {cl.msg}
    /\ UNCHANGED ipc_orphan

\* Mutant of tn_ipc_orphan_heap: the abandoned message is freed.
FreeOrphan(answered) ==
    /\ cl' = Done(answered)
    /\ alloc' = alloc \ {cl.msg}
    /\ UNCHANGED ipc_orphan

\* The message may still be the daemon's: chain it, never free it.
tn_ipc_orphan_heap(answered) ==
    /\ cl' = Done(answered)
    /\ ipc_orphan' = ipc_orphan \cup {cl.msg}
    /\ UNCHANGED alloc

\* Mutant of Dispatch: one look at the port too many.
OneSpinMore(got) ==
    IF got = cl.msg THEN Finish(TRUE)
    ELSE IF cl.spins <= MaxSpins
    THEN /\ cl' = [cl EXCEPT !.pc = "port", !.spins = @ + 1]
         /\ UNCHANGED <<alloc, ipc_orphan>>
    ELSE IF InHeap(cl.msg) THEN tn_ipc_orphan_heap(FALSE) ELSE Finish(FALSE)

\* A message that is not ours is dropped and the port watched again, at most
\* MaxSpins times; then a heap message is abandoned, and the embedded one is
\* read as if it had been replied.
Dispatch(got) ==
    IF got = cl.msg THEN Finish(TRUE)
    ELSE IF cl.spins < MaxSpins
    THEN /\ cl' = [cl EXCEPT !.pc = "port", !.spins = @ + 1]
         /\ UNCHANGED <<alloc, ipc_orphan>>
    ELSE IF InHeap(cl.msg) THEN tn_ipc_orphan_heap(FALSE) ELSE Finish(FALSE)

\* Wait() returns with the reply bit, which it clears; the port may be empty.
WakeReply ==
    /\ cl.pc = "wait" /\ reply_sig
    /\ ~(break_sig /\ tn_cmd_may_park(cl.cmd))
    /\ reply_sig' = FALSE
    /\ IF replies = <<>> THEN Dispatch(None) /\ UNCHANGED replies
       ELSE Dispatch(Head(replies)) /\ replies' = Tail(replies)
    /\ UNCHANGED <<body, inbox, parked, break_sig, timed, timer_io, ipc_cancel_msg, base>>

\* tn_ipc_cancel_inflight: send CANCEL for the message under way.  A heap message
\* is waited for only ipc_timeout_ms longer, or not at all when there is no
\* CANCEL to send; the embedded one must come back.
SendCancel(why) ==
    /\ IF InHeap(cl.msg) THEN \E ok \in BOOLEAN : tn_ensure_timer(ok) ELSE UNCHANGED timer_io
    /\ IF ipc_cancel_msg # None
       THEN /\ PutMsg(ipc_cancel_msg, "CANCEL", cl.msg)
            /\ cl' = [cl EXCEPT !.pc = IF InHeap(cl.msg) /\ timer_io' THEN "bounded" ELSE "port",
                                !.phase = "drain", !.why = why]
            /\ UNCHANGED <<alloc, ipc_orphan>>
       ELSE IF InHeap(cl.msg)
       THEN tn_ipc_orphan_heap(FALSE) /\ UNCHANGED <<body, inbox>>
       ELSE /\ cl' = [cl EXCEPT !.pc = "port", !.phase = "drain", !.why = why, !.got_cancel = TRUE]
            /\ UNCHANGED <<alloc, ipc_orphan, body, inbox>>

\* A break ends the wait; its bit is set again for the program to see.
WakeBreak ==
    /\ cl.pc = "wait" /\ break_sig /\ tn_cmd_may_park(cl.cmd)
    /\ reply_sig' = FALSE
    /\ SendCancel("break")
    /\ UNCHANGED <<parked, replies, break_sig, timed, ipc_cancel_msg, base>>

\* The watchdog, time-verified: no reply bit within ipc_timeout_ms.
WakeTimeout ==
    /\ cl.pc = "wait" /\ cl.watch /\ ~reply_sig
    /\ SendCancel("timeout")
    /\ UNCHANGED <<parked, replies, reply_sig, break_sig, timed, ipc_cancel_msg, base>>

\* exec's WaitPort: sleep while the port is empty.
WaitPortSleeps ==
    /\ cl.pc = "port" /\ replies = <<>>
    /\ cl' = [cl EXCEPT !.pc = "portwait"]
    /\ UNCHANGED <<dvars, cvars, break_sig>>

WaitPortWakes ==
    /\ cl.pc = "portwait" /\ reply_sig
    /\ reply_sig' = FALSE
    /\ cl' = [cl EXCEPT !.pc = "port"]
    /\ UNCHANGED <<body, inbox, parked, replies, cvars, break_sig>>

\* The drain has both replies, or has given up.  A timed-out call leaves its
\* message in the orphan chain even when the reply came.
Cancelled ==
    IF cl.why = "timeout" THEN tn_ipc_orphan_heap(TRUE) ELSE Finish(TRUE)

\* Mutant of Drain: the reply seen before CANCEL's is forgotten.
DrainForgets(got) ==
    IF got = cl.msg /\ cl.got_cancel THEN Cancelled
    ELSE /\ cl' = [cl EXCEPT !.got_cancel = @ \/ got = ipc_cancel_msg]
         /\ UNCHANGED <<alloc, ipc_orphan>>

\* One reply in the drain; what is neither message is dropped.
Drain(got) ==
    LET got_msg    == cl.got_msg \/ got = cl.msg
        got_cancel == cl.got_cancel \/ got = ipc_cancel_msg
    IN  IF got_msg /\ got_cancel THEN Cancelled
        ELSE /\ cl' = [cl EXCEPT !.got_msg = got_msg, !.got_cancel = got_cancel]
             /\ UNCHANGED <<alloc, ipc_orphan>>

GetMsg ==
    /\ cl.pc \in {"port", "bounded"} /\ replies # <<>>
    /\ replies' = Tail(replies)
    /\ IF cl.phase = "collect" THEN Dispatch(Head(replies)) ELSE Drain(Head(replies))
    /\ UNCHANGED <<body, inbox, parked, reply_sig, break_sig, timed, timer_io, ipc_cancel_msg, base>>

\* The bounded drain sleeps in Wait(), which clears the reply bit.
BoundedWait ==
    /\ cl.pc = "bounded" /\ replies = <<>> /\ reply_sig
    /\ reply_sig' = FALSE
    /\ UNCHANGED <<body, inbox, parked, replies, cvars, break_sig, cl>>

\* Mutant of GiveUp: the CANCEL that is still out is kept for the next break.
KeepCancel ==
    /\ cl.pc = "bounded"
    /\ ipc_orphan' = ipc_orphan \cup {cl.msg}
    /\ cl' = Done(FALSE)
    /\ UNCHANGED <<alloc, ipc_cancel_msg, dvars, break_sig, timed, timer_io, base>>

\* ipc_timeout_ms is over once more.  A CANCEL that is still out is abandoned
\* as well, and replaced if there is memory for another.
GiveUp ==
    /\ cl.pc = "bounded"
    /\ LET orphans == (IF cl.got_cancel THEN {} ELSE {ipc_cancel_msg})
                      \cup (IF cl.why = "timeout" \/ ~cl.got_msg THEN {cl.msg} ELSE {})
           kept == alloc \ ({cl.msg} \ orphans)
       IN  /\ ipc_orphan' = ipc_orphan \cup orphans
           /\ cl' = Done(FALSE)
           /\ IF cl.got_cancel THEN alloc' = kept /\ UNCHANGED ipc_cancel_msg
              ELSE \/ \E c \in Blocks \ alloc : alloc' = kept \cup {c} /\ ipc_cancel_msg' = c
                   \/ alloc' = kept /\ ipc_cancel_msg' = None
    /\ UNCHANGED <<dvars, break_sig, timed, timer_io, base>>

\* tn_lib_close, after its CLOSE request, answered or not: everything is freed.
tn_lib_close ==
    /\ cl.pc = "freeing"
    /\ replies' = <<>>
    /\ alloc' = alloc \ (ipc_orphan \cup {ipc_cancel_msg})
    /\ ipc_orphan' = {}
    /\ ipc_cancel_msg' = None
    /\ base' = IF cl.got_msg THEN "closed" ELSE "torn"
    /\ cl' = Idle
    /\ UNCHANGED <<body, inbox, parked, reply_sig, break_sig, timed, timer_io>>

-----------------------------------------------------------------------------
\* The program sets or clears ipc_timeout_ms between calls; a break arrives; the
\* program takes note of it.
SetTimeout ==
    /\ cl.pc = "idle" /\ base = "open"
    /\ timed' \in Modes \ {timed}
    /\ UNCHANGED <<dvars, alloc, timer_io, ipc_orphan, ipc_cancel_msg, base, break_sig, cl>>

Break ==
    /\ ~break_sig /\ base = "open"
    /\ break_sig' = TRUE
    /\ UNCHANGED <<dvars, cvars, cl>>

ClearBreak ==
    /\ break_sig /\ cl.pc = "idle"
    /\ break_sig' = FALSE
    /\ UNCHANGED <<dvars, cvars, cl>>

\* After tn_lib_open: the CANCEL message is allocated up front.
Init ==
    /\ ipc_cancel_msg \in Blocks
    /\ alloc = {ipc_cancel_msg}
    /\ body = [m \in Messages |-> [cmd |-> Quick, target |-> None, result |-> "none"]]
    /\ inbox = <<>> /\ parked = {} /\ replies = <<>>
    /\ reply_sig = FALSE /\ break_sig = FALSE /\ timed \in Modes
    /\ timer_io = FALSE
    /\ ipc_orphan = {}
    /\ cl = Idle
    /\ base = "open"

ClientStep ==
    \/ \E cmd \in Calls \cup {"CLOSE"} : tn_ipc_call(cmd)
    \/ WakeReply \/ WakeBreak \/ WakeTimeout
    \/ WaitPortSleeps \/ WaitPortWakes \/ GetMsg \/ BoundedWait \/ GiveUp
    \/ tn_lib_close

Next ==
    \/ ClientStep
    \/ SetTimeout \/ Break \/ ClearBreak
    \/ tn_handle_ipc
    \/ \E m \in Messages : Complete(m)

Spec == Init /\ [][Next]_vars

\* The client runs and its timer completes; the daemon may be wedged.
ClientFairSpec == Spec /\ WF_vars(ClientStep /\ (cl.pc # "idle"))

-----------------------------------------------------------------------------
(***************************************************************************)
(* Correctness.                                                            *)
(***************************************************************************)
\* Types of memory, message bodies, queues, signals and the client's position.
TypeOK ==
    /\ alloc \subseteq Blocks /\ ipc_orphan \subseteq Blocks
    /\ ipc_cancel_msg \in Blocks \cup {None}
    /\ body \in [Messages -> [cmd : Calls \cup {"CLOSE", "CANCEL"},
                              target : Messages \cup {None}, result : Results]]
    /\ inbox \in Seq(Messages) /\ replies \in Seq(Messages) /\ parked \subseteq Messages
    /\ reply_sig \in BOOLEAN /\ break_sig \in BOOLEAN /\ timed \in BOOLEAN /\ timer_io \in BOOLEAN
    /\ base \in {"open", "closed", "torn"}
    /\ cl \in [pc : {"idle", "wait", "port", "portwait", "bounded", "freeing"},
               msg : Messages \cup {None}, cmd : Calls \cup {"CLOSE"}, watch : BOOLEAN,
               why : {"reply", "break", "timeout"}, phase : {"collect", "drain"},
               spins : 0 .. MaxSpins, got_msg : BOOLEAN, got_cancel : BOOLEAN]

\* Until the library is closed, a heap message that the daemon holds, or that
\* waits on the reply port, is never freed, however its call ended (TNET-150):
\* AllocVec cannot hand the block to a later request while a late reply may
\* still be written into it.
HeldAllocated == base = "open" => InFlight \cap Blocks \subseteq alloc

Copies(m) == Cardinality({i \in DOMAIN inbox : inbox[i] = m})
             + Cardinality({i \in DOMAIN replies : replies[i] = m})
             + (IF m \in parked THEN 1 ELSE 0)

\* A message is on one list at a time: no request and no CANCEL is sent while an
\* earlier use of the same memory is queued, parked, or replied and still on the
\* port.  (Exec links messages through their own nodes.)
OneHome == \A m \in Messages : Copies(m) <= 1

\* A client waiting without a bound waits for something that can still happen:
\* the reply it needs is in the daemon's hands or on its port, and has not been
\* thrown away as a foreign one.
AnswerComing ==
    /\ cl.pc \in {"wait", "port", "portwait", "bounded"} /\ ~cl.got_msg => cl.msg \in InFlight
    /\ cl.pc \in {"port", "portwait", "bounded"} /\ cl.phase = "drain" /\ ~cl.got_cancel
          => ipc_cancel_msg \in InFlight

\* Together: the memory of a message outlives every use of it, on one list at a
\* time, and nobody waits for a message that is on none.
MessagesSound == HeldAllocated /\ OneHome /\ AnswerComing

\* A CANCEL never strikes a later call: one whose message reuses the memory, or
\* that was not broken off, is not answered EINTR because of an earlier break.
NoStrayInterrupt ==
    cl.pc \in {"wait", "port", "portwait"} /\ cl.phase = "collect" => body[cl.msg].result # "EINTR"

\* Once CLOSE is answered the daemon holds no message of the base, so none is freed
\* under it, except a connect or accept on a shared socket that was not cancelled:
\* the CLOSE handler leaves those parked.
CloseReleases ==
    base = "closed" => inbox = <<>> /\ \A m \in parked : body[m].cmd = "CONNECT"

\* The daemon never touches a message after the library freed it: "freed only in
\* tn_lib_close AFTER the CLOSE IPC reply guarantees no further daemon access".
NoAccessAfterFree == base # "open" => inbox = <<>> /\ parked = {}

\* With the watchdog on, a call returns even when the daemon never answers: "a
\* daemon that has not replied within that many milliseconds fails the call with
\* ETIMEDOUT instead of hanging the client process".
WatchdogReturns == (cl.pc = "wait" /\ cl.watch) ~> cl.pc \in {"idle", "freeing"}

\* Between calls the daemon does not hold the embedded message: "embedded message:
\* it must come back before it can be reused".
EmbeddedComesBack == cl.pc = "idle" => Embedded \notin InFlight
=============================================================================
