------------------------------- MODULE Clock -------------------------------
(***************************************************************************)
(* timer.device in the daemon (src/task/timers.c): one request for the     *)
(* tick, a second one for questions about the time, and sys_now, lwIP's    *)
(* clock, made of the E-clock.  The second request may be missing: then    *)
(* the tick request answers the questions too, which is safe only while it *)
(* is ours.                                                                *)
(***************************************************************************)
EXTENDS Integers

CONSTANTS ClModulus,    \* 2^32 milliseconds, scaled
          ClPerMs,      \* E-clock ticks in a millisecond, scaled
          ClBoots,      \* E-clock values at the start of the daemon
          ClLast        \* bound: the last E-clock value

\* What the constants must satisfy.
ClAssumption == /\ ClModulus \in Nat \ {0, 1} /\ ClPerMs \in Nat \ {0}
                /\ ClBoots \subseteq Nat /\ ClLast \in Nat

VARIABLES cl_pc,     \* tn_task_real_main: "off", "open", "seeded", "loop"
          cl_held,   \* what is allocated or open
          cl_io,     \* the tick request: "none", "idle" (ours), "device", "done"
          cl_armed,  \* tm->armed
          cl_boot,   \* tm->boot_eclock
          eclock,
          cl_now,    \* what sys_now said last
          cl_at,     \* history: the E-clock then, -1 before the first time
          cl_clash   \* history: a request was sent while the device had it
clvars == <<cl_pc, cl_held, cl_io, cl_armed, cl_boot, eclock, cl_now, cl_at, cl_clash>>

TickParts == {"port", "io", "device"}
TimeParts == {"time_port", "time_io", "time_device"}

----------------------------------------------------------------------------
\* The request for questions about the time, as far as it could be had: a
\* port without a request stays until tn_timer_fini.
TimeChannel == {TimeParts, {"time_port"}, {}}

\* The tick request's port, memory and device are all there or all given back.
tn_timer_init ==
    /\ cl_pc = "off"
    /\ \/ UNCHANGED <<cl_pc, cl_held, cl_io, cl_boot>>
       \/ /\ \E t \in TimeChannel : cl_held' = TickParts \cup t
          /\ cl_io' = "idle" /\ cl_boot' = eclock /\ cl_pc' = "open"
    /\ cl_armed' = FALSE /\ UNCHANGED <<eclock, cl_now, cl_at, cl_clash>>

\* DoIO on a request; the tick request must be ours at that moment.
Asks == IF "time_io" \in cl_held THEN UNCHANGED cl_clash
        ELSE cl_clash' = (cl_clash \/ cl_io # "idle")

\* The seed is taken while the tick is already running.
SeedLate ==
    /\ cl_pc \in {"open", "loop"} /\ cl_pc' = (IF cl_pc = "open" THEN "seeded" ELSE cl_pc)
    /\ Asks /\ UNCHANGED <<cl_held, cl_io, cl_armed, cl_boot, eclock, cl_now, cl_at>>

\* Twice, without and with the station address, before the main loop.
tn_rand_init ==
    /\ cl_pc \in {"open", "seeded"} /\ cl_pc' = "seeded"
    /\ Asks /\ UNCHANGED <<cl_held, cl_io, cl_armed, cl_boot, eclock, cl_now, cl_at>>

\* An arm that does not look at tm->armed.
ArmAlways ==
    /\ cl_pc \in {"seeded", "loop"} /\ cl_pc' = "loop"
    /\ cl_clash' = (cl_clash \/ cl_io # "idle") /\ cl_io' = "device" /\ cl_armed' = TRUE
    /\ UNCHANGED <<cl_held, cl_boot, eclock, cl_now, cl_at>>

\* Called at the start of the loop, after each tick, and on the way back from
\* a shutdown that was refused, where the tick may still be under way.
tn_timer_arm ==
    /\ cl_pc \in {"seeded", "loop"} /\ cl_pc' = "loop"
    /\ IF cl_armed THEN UNCHANGED <<cl_io, cl_armed, cl_clash>>
       ELSE /\ cl_clash' = (cl_clash \/ cl_io # "idle")
            /\ cl_io' = "device" /\ cl_armed' = TRUE
    /\ UNCHANGED <<cl_held, cl_boot, eclock, cl_now, cl_at>>

TimerDone == /\ cl_io = "device" /\ cl_io' = "done"
             /\ UNCHANGED <<cl_pc, cl_held, cl_armed, cl_boot, eclock, cl_now, cl_at, cl_clash>>

\* WaitIO returns when the request is done.
tn_timer_ack ==
    /\ cl_pc = "loop" /\ cl_armed /\ cl_io = "done" /\ cl_io' = "idle" /\ cl_armed' = FALSE
    /\ UNCHANGED <<cl_pc, cl_held, cl_boot, eclock, cl_now, cl_at, cl_clash>>

\* A request under way is aborted and waited for, then everything goes back.
tn_timer_fini ==
    /\ cl_pc # "off" /\ cl_pc' = "off"
    /\ cl_io' = "none" /\ cl_held' = {} /\ cl_armed' = FALSE /\ cl_now' = 0 /\ cl_at' = -1
    /\ UNCHANGED <<cl_boot, eclock, cl_clash>>

----------------------------------------------------------------------------
\* The difference is cut to 32 bits before it is made milliseconds.
CutTicks == ((eclock - cl_boot) % ClModulus) \div ClPerMs

\* The 64 bit difference is made milliseconds and only then cut to 32 bits.
tn_eclock_to_ms ==
    IF eclock < cl_boot THEN 0 ELSE ((eclock - cl_boot) \div ClPerMs) % ClModulus

sys_now == /\ cl_pc # "off" /\ cl_now' = tn_eclock_to_ms /\ cl_at' = eclock
           /\ UNCHANGED <<cl_pc, cl_held, cl_io, cl_armed, cl_boot, eclock, cl_clash>>

\* lwIP asks at least once in half a turn of its clock.
ClTick == /\ eclock < ClLast /\ eclock' = eclock + 1
          /\ cl_at # -1 => eclock - cl_at < (ClModulus * ClPerMs) \div 2
          /\ UNCHANGED <<cl_pc, cl_held, cl_io, cl_armed, cl_boot, cl_now, cl_at, cl_clash>>

ClInit == /\ cl_pc = "off" /\ cl_held = {} /\ cl_io = "none" /\ cl_armed = FALSE
          /\ eclock \in ClBoots /\ cl_boot = 0 /\ cl_now = 0 /\ cl_at = -1 /\ cl_clash = FALSE

ClNext == \/ tn_timer_init \/ tn_rand_init \/ tn_timer_arm \/ TimerDone \/ tn_timer_ack
          \/ tn_timer_fini \/ sys_now \/ ClTick

----------------------------------------------------------------------------
ClTypeOK ==
    /\ cl_pc \in {"off", "open", "seeded", "loop"} /\ cl_held \subseteq TickParts \cup TimeParts
    /\ cl_io \in {"none", "idle", "device", "done"} /\ cl_armed \in BOOLEAN
    /\ cl_boot \in Nat /\ eclock \in Nat /\ cl_now \in 0 .. ClModulus - 1
    /\ cl_at \in -1 .. ClLast /\ cl_clash \in BOOLEAN

\* timer.device never gets a request it already has, whatever became of the
\* second request and however arm, tick, refused shutdown and seed follow one
\* another; `armed' is true exactly while the request is away; and nothing is
\* held once the timer is closed or could not be opened (timers.c).
TimerRequestsOurs ==
    /\ ~cl_clash
    /\ cl_armed <=> cl_io \in {"device", "done"}
    /\ cl_pc = "off" => cl_held = {} /\ cl_io = "none"

\* Between two readings sys_now advances by the time that passed, to the
\* millisecond, also where its 32 bits wrap.
ClockAdvances ==
    cl_at # -1 /\ cl_at' # -1 =>
        ((cl_now' - cl_now) % ClModulus) - ((cl_at' - cl_at) \div ClPerMs) \in {0, 1}
----------------------------------------------------------------------------
(* The strengthening of TimerRequestsOurs that every step keeps: the request  *)
(* is ours until the loop starts, and what sys_now said last is the time of   *)
(* cl_at, less than half a turn of the clock ago.                             *)

ClInv ==
    /\ cl_pc \in {"off", "open", "seeded", "loop"} /\ cl_armed \in BOOLEAN
    /\ cl_boot \in Nat /\ eclock \in Nat /\ cl_now \in Int /\ cl_at \in Nat \cup {-1}
    /\ TimerRequestsOurs
    /\ cl_pc \in {"open", "seeded"} => cl_io = "idle"
    /\ cl_pc # "off" => cl_io \in {"idle", "device", "done"} /\ cl_boot <= eclock
    /\ cl_at # -1 => /\ cl_pc # "off" /\ cl_boot <= cl_at /\ cl_at <= eclock
                     /\ cl_now = ((cl_at - cl_boot) \div ClPerMs) % ClModulus
                     /\ eclock - cl_at <= (ClModulus * ClPerMs) \div 2
=============================================================================
