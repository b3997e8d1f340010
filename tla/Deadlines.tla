----------------------------- MODULE Deadlines -----------------------------
(***************************************************************************)
(* SO_RCVTIMEO and SO_SNDTIMEO: the deadline of a parked request, kept as  *)
(* a tick of the 100 ms main loop that wraps, where 0 means "none".        *)
(* tn_slot_park_recv and tn_slot_check_recv_timeouts in                    *)
(* src/task/slot_table.c, the parked send in src/task/ipc_tcp.c, the       *)
(* re-arming in src/task/ipc_setsockopt.c, and the tick in daemon_main.c.  *)
(***************************************************************************)
EXTENDS Naturals

CONSTANTS TickModulus,   \* 2^32, scaled; even
          MsModulus,     \* 2^32 milliseconds, scaled
          MsPerSecond,   \* 1000, scaled
          MsPerTick,     \* 100, scaled
          TvSecs, TvMs   \* seconds and milliseconds of the timevals set

\* What the constants must satisfy.
DlAssumption ==
    /\ TickModulus \in Nat \ {0} /\ MsModulus \in Nat \ {0}
    /\ MsPerSecond \in Nat \ {0} /\ MsPerTick \in Nat \ {0}
    /\ TvSecs \subseteq Nat /\ TvMs \subseteq Nat
    \* the longest timeout stays below half the range of the tick counter
    /\ MsModulus \div MsPerTick + 1 < TickModulus \div 2

VARIABLES mainloop_ticks,
          timeo,      \* ["recv", "send"] -> the option as <<seconds, ms>>
          dpend,      \* whether a request is parked
          deadline,   \* recv_deadline_tick, send_deadline_tick
          waited,     \* history: ticks since the request was parked or re-armed
          due,        \* history: ticks it was given; 0 without a timeout
          rearmed,    \* history: given by setsockopt while it was parked
          onzero      \* history: it is due on tick 0 of the wrapped counter
dlvars == <<mainloop_ticks, timeo, dpend, deadline, waited, due, rearmed, onzero>>

Ways == {"recv", "send"}
Timevals == TvSecs \X TvMs

\* Rounded up to ticks, and never 0; the milliseconds wrap in 32 bits.
TicksOf(tv) ==
    LET ms == (tv[1] * MsPerSecond + tv[2]) % MsModulus
        ticks == (ms + MsPerTick - 1) \div MsPerTick
    IN IF tv = <<0, 0>> THEN 0 ELSE IF ticks = 0 THEN 1 ELSE ticks

\* A send deadline that may land on 0.
NotNudged(w, d) == d
\* The send path moves a deadline of 0 on by one tick; the recv path does not.
Nudged(w, d) == IF w = "send" /\ d = 0 THEN 1 ELSE d

DeadlineOf(w, tv) ==
    IF tv = <<0, 0>> THEN 0
    ELSE Nudged(w, (mainloop_ticks + TicksOf(tv)) % TickModulus)

Tracked(w, on, tv, again) ==
    /\ rearmed' = [rearmed EXCEPT ![w] = again]
    /\ waited' = [waited EXCEPT ![w] = 0]
    /\ due' = [due EXCEPT ![w] = IF on THEN TicksOf(tv) ELSE 0]
    /\ onzero' = [onzero EXCEPT ![w] =
           on /\ tv # <<0, 0>> /\ (mainloop_ticks + TicksOf(tv)) % TickModulus = 0]

\* A blocking recv with nothing to read, or a send without room.
DlPark(w) ==
    /\ ~dpend[w]
    /\ dpend' = [dpend EXCEPT ![w] = TRUE]
    /\ deadline' = [deadline EXCEPT ![w] = DeadlineOf(w, timeo[w])]
    /\ Tracked(w, TRUE, timeo[w], FALSE)
    /\ UNCHANGED <<mainloop_ticks, timeo>>

\* SO_RCVTIMEO, SO_SNDTIMEO: a request that is already parked gets a new
\* deadline, without the send path's nudge.
DlSet(w, tv) ==
    /\ timeo' = [timeo EXCEPT ![w] = tv]
    /\ IF dpend[w]
       THEN /\ deadline' = [deadline EXCEPT ![w] =
                   IF tv = <<0, 0>> THEN 0 ELSE (mainloop_ticks + TicksOf(tv)) % TickModulus]
            /\ Tracked(w, TRUE, tv, TRUE)
       ELSE UNCHANGED <<deadline, waited, due, rearmed, onzero>>
    /\ UNCHANGED <<mainloop_ticks, dpend>>

\* Data, room, a break, a close.
DlAnswered(w) ==
    /\ dpend[w] /\ dpend' = [dpend EXCEPT ![w] = FALSE]
    /\ deadline' = [deadline EXCEPT ![w] = 0] /\ Tracked(w, FALSE, 0, FALSE)
    /\ UNCHANGED <<mainloop_ticks, timeo>>

\* A comparison without the signed difference.
PastUnsigned(now, d) == now >= d

\* (int32_t)(now - d) >= 0
Past(now, d) == (now + TickModulus - d) % TickModulus < TickModulus \div 2

\* One tick of the main loop, with tn_slot_check_recv_timeouts.  The history
\* stops counting where the answer can no longer be in time.
DlTick ==
    /\ mainloop_ticks' = (mainloop_ticks + 1) % TickModulus
    /\ LET out == {w \in Ways : dpend[w] /\ deadline[w] # 0 /\ Past(mainloop_ticks', deadline[w])} IN
       /\ dpend' = [w \in Ways |-> dpend[w] /\ w \notin out]
       /\ deadline' = [w \in Ways |-> IF w \in out THEN 0 ELSE deadline[w]]
       /\ waited' = [w \in Ways |-> IF dpend[w] /\ due[w] > 0 /\ waited[w] < due[w] + 2
                                    THEN waited[w] + 1 ELSE waited[w]]
       /\ UNCHANGED <<due, timeo, rearmed, onzero>>

DlInit == /\ mainloop_ticks = 0 /\ timeo = [w \in Ways |-> <<0, 0>>]
          /\ dpend = [w \in Ways |-> FALSE] /\ deadline = [w \in Ways |-> 0]
          /\ waited = [w \in Ways |-> 0] /\ due = [w \in Ways |-> 0]
          /\ rearmed = [w \in Ways |-> FALSE] /\ onzero = [w \in Ways |-> FALSE]

DlNext == \/ DlTick
          \/ \E w \in Ways : DlPark(w) \/ DlAnswered(w) \/ \E tv \in Timevals : DlSet(w, tv)

----------------------------------------------------------------------------
DlTypeOK ==
    /\ mainloop_ticks \in 0 .. TickModulus - 1 /\ timeo \in [Ways -> Timevals]
    /\ dpend \in [Ways -> BOOLEAN] /\ deadline \in [Ways -> 0 .. TickModulus - 1]
    /\ \A w \in Ways : waited[w] \in Nat /\ due[w] \in Nat

\* A timeout due on tick 0 of the wrapped counter reads as "no timeout": for a
\* recv (slot_table.c:723) and for a request that setsockopt re-arms
\* (ipc_setsockopt.c:181 and 207), which lack the send path's move to tick 1
\* (ipc_tcp.c:833).
TakenForNone(w) == onzero[w] /\ (w = "recv" \/ rearmed[w])

\* A parked request with a timeout never outlives the ticks it was given, a send
\* due on tick 0 one tick more; the one due on tick 0 that is taken for a request
\* without a timeout has no deadline at all, and that is the only way to lose it.
SleepsNoLonger ==
    \A w \in Ways : dpend[w] /\ due[w] > 0 =>
        IF TakenForNone(w) THEN deadline[w] = 0
        ELSE waited[w] < due[w] + (IF onzero[w] THEN 1 ELSE 0)

\* Wherever the tick counter wraps, a tick that ends a wait finds its ticks
\* used up; no tick ends the wait that is taken for one without a timeout.
NeverEarly ==
    \A w \in Ways : DlTick /\ dpend[w] /\ ~dpend'[w] =>
        waited'[w] >= due[w] /\ ~TakenForNone(w)

\* SO_RCVTIMEO and SO_SNDTIMEO end a wait in time and never early, unless it is
\* due on tick 0: then a recv, or a request re-armed while it is parked, sleeps on.
DeadlinesKept == []SleepsNoLonger /\ [][NeverEarly]_dlvars
----------------------------------------------------------------------------
(* The strengthening of SleepsNoLonger that every step keeps: a deadline is   *)
(* as far ahead of the tick counter, around its end, as the request has ticks *)
(* left, one more for a send whose deadline was moved off 0.                  *)

MostTicks == MsModulus \div MsPerTick + 1
TicksLeft(w, e) == due[w] + e - waited[w]
Running(w, e) ==
    /\ e = 1 => onzero[w]
    /\ TicksLeft(w, e) >= 1 /\ deadline[w] = (mainloop_ticks + TicksLeft(w, e)) % TickModulus
DlSound(w) ==
    /\ ~dpend[w] \/ due[w] = 0 => deadline[w] = 0
    /\ dpend[w] /\ due[w] > 0 => (deadline[w] = 0 <=> TakenForNone(w))
    /\ deadline[w] # 0 => \E e \in {0, 1} : Running(w, e)

DlInv ==
    /\ mainloop_ticks \in 0 .. TickModulus - 1 /\ timeo \in [Ways -> Nat \X Nat]
    /\ dpend \in [Ways -> BOOLEAN] /\ deadline \in [Ways -> 0 .. TickModulus - 1]
    /\ waited \in [Ways -> Nat] /\ due \in [Ways -> 0 .. MostTicks]
    /\ rearmed \in [Ways -> BOOLEAN] /\ onzero \in [Ways -> BOOLEAN]
    /\ \A w \in Ways : DlSound(w)
=============================================================================
