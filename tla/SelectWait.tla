----------------------------- MODULE SelectWait -----------------------------
(***************************************************************************)
(* WaitSelect: the client's loop in bsdsocket.library and the selector     *)
(* table of the daemon that wakes it.                                      *)
(*                                                                         *)
(* The client arms a selector (SELECT_ARM polls readiness and arms in one  *)
(* handler), sleeps in Wait(), disarms on waking and asks again            *)
(* (WAITSELECT); a wake that finds nothing ready is retried until the      *)
(* time budget is spent.  Between any two of these requests the daemon     *)
(* may handle socket events, requests of other clients and deaths.         *)
(*                                                                         *)
(* A base cannot change its own descriptors while it waits, so FdMap is a  *)
(* constant.  A request and its reply are one step of the daemon, taken    *)
(* any time after the client has sent it; the watchdog of tn_ipc_call,     *)
(* which may give up on a request, belongs to IpcCall.  The fallback to    *)
(* SIGIO when no signal bit could be allocated is not modelled: without a  *)
(* bit the call fails.                                                     *)
(***************************************************************************)
EXTENDS Integers, FiniteSets

CONSTANTS
    Bases,            \* clients of the library
    NoBase,           \* a null base of a free selector
    Slots,            \* the sockets
    FdMap,            \* per base: descriptor -> slot, or -1
    Kinds,            \* readiness modelled, subset of read, write, except
    Bits,             \* per base: the signals it may get, subset of user, break
    Watches,          \* the fd sets programs pass: sets of <<descriptor, kind>>
    SelectorsAtStart, \* TN_MAX_SELECTORS
    SelectorsMax,     \* what RECONFIG may grow the table to
    Budget,           \* the timeout of a timed call, in ticks
    Slack             \* 3 ticks in the code

ASSUME SelectorTable == /\ SelectorsAtStart \in Nat /\ SelectorsMax \in Nat
                        /\ SelectorsAtStart <= SelectorsMax
ASSUME TimeBudget    == Budget \in Nat \ {0} /\ Slack \in Nat
ASSUME Descriptors   == /\ IsFiniteSet(Bases) /\ NoBase \notin Bases
                        /\ \A b \in Bases : FdMap[b] \in [DOMAIN FdMap[b] -> Slots \cup {-1}]
                        /\ Kinds \subseteq {"read", "write", "except"}
                        /\ \A w \in Watches : w \subseteq Int \X Kinds
ASSUME KnownBits     == \A b \in Bases : Bits[b] \subseteq {"user", "break"}

\* Each registered base arms at most one selector and the registry is no
\* larger than the table (TN_CLIENT_BASES_MAX = TN_MAX_SELECTORS).
ASSUME OneSelectorEach == Cardinality(Bases) <= SelectorsAtStart

VARIABLES
    selectors,       \* the selector table
    max_selectors,   \* its size
    selector_count,  \* how many are armed, as the daemon counts
    ready,           \* per slot: the kinds of readiness select would report
    sigs,            \* per base: signal bits pending at its task
    call,            \* per base: the WaitSelect call it is in
    status           \* per base: "closed", "open", or "dead"

vars == <<selectors, max_selectors, selector_count, ready, sigs, call, status>>

-----------------------------------------------------------------------------
(***************************************************************************)
(* The daemon's side.                                                      *)
(***************************************************************************)
Free == [in_use |-> FALSE, base |-> NoBase, watch |-> {}]

Entries  == 0 .. max_selectors - 1
Armed    == {i \in Entries : selectors[i].in_use}
Counted(table) == Cardinality({i \in Entries : table[i].in_use})

tn_selector_base_alive(b) == status[b] # "closed"

\* The watched descriptors of b that are ready now.
Hits(b, watch) ==
    {w \in watch : w[1] \in DOMAIN FdMap[b] /\ FdMap[b][w[1]] # -1
                   /\ w[2] \in ready[FdMap[b][w[1]]]}

BadFd(b, watch) == \E w \in watch : w[1] \in DOMAIN FdMap[b] /\ FdMap[b][w[1]] = -1

\* tn_signal_socket, once slot s has readiness r: the armed selectors that
\* watch s get their signal, unless the counter says that none is armed.
Matches(sel, s, r) ==
    \E w \in sel.watch : w[1] \in DOMAIN FdMap[sel.base]
                         /\ FdMap[sel.base][w[1]] = s /\ w[2] \in r

tn_signal_socket(s, r) ==
    IF selector_count = 0 THEN UNCHANGED <<selectors, selector_count, sigs>>
    ELSE LET stale == {i \in Armed : ~tn_selector_base_alive(selectors[i].base)}
             table == [i \in DOMAIN selectors |-> IF i \in stale THEN Free ELSE selectors[i]]
             woken == {b \in Bases : status[b] = "open" /\ \E i \in Armed \ stale :
                                         selectors[i].base = b /\ Matches(selectors[i], s, r)}
         IN  /\ selectors' = table
             /\ selector_count' = IF stale = {} THEN selector_count ELSE Counted(table)
             /\ sigs' = [b \in Bases |-> IF b \in woken THEN sigs[b] \cup {"select"} ELSE sigs[b]]

\* Mutant of SelectorFor: a re-arm takes another entry.
AlwaysAnotherEntry(b) ==
    LET free == Entries \ Armed IN {i \in free : \A j \in free : i <= j}

\* The entry SELECT_ARM uses: the one b has already, else the first free one.
SelectorFor(b) ==
    LET own  == {i \in Armed : selectors[i].base = b}
        free == Entries \ Armed
    IN  IF own # {} THEN own ELSE {i \in free : \A j \in free : i <= j}

\* The counter is recomputed before the entry is marked in use.
ArmSelector(b, watch, i) ==
    /\ selectors' = [selectors EXCEPT ![i] = [in_use |-> TRUE, base |-> b, watch |-> watch]]
    /\ selector_count' = Counted(selectors)

\* Mutant of tn_ipc_cmd_select_disarm: the counter is forgotten.
DisarmUncounted(b) ==
    /\ selectors' = [i \in DOMAIN selectors |->
                        IF i \in Armed /\ selectors[i].base = b THEN Free ELSE selectors[i]]
    /\ UNCHANGED selector_count

\* SELECT_DISARM recomputes the counter for every entry it frees.
tn_ipc_cmd_select_disarm(b) ==
    LET own   == {i \in Armed : selectors[i].base = b}
        table == [i \in DOMAIN selectors |-> IF i \in own THEN Free ELSE selectors[i]]
    IN  /\ selectors' = table
        /\ selector_count' = IF own = {} THEN selector_count ELSE Counted(table)

\* Mutants of tn_selector_disarm_all_for_base: it is not called; the counter is
\* decremented without looking.
CloseLeavesArmed(b) == UNCHANGED <<selectors, selector_count>>

CountsBelowZero(b) ==
    LET own == {i \in Armed : selectors[i].base = b}
    IN  /\ selectors' = [i \in DOMAIN selectors |-> IF i \in own THEN Free ELSE selectors[i]]
        /\ selector_count' = selector_count - Cardinality(own)

\* CLOSE only counts down.
tn_selector_disarm_all_for_base(b) ==
    LET own == {i \in Armed : selectors[i].base = b}
    IN  /\ selectors' = [i \in DOMAIN selectors |-> IF i \in own THEN Free ELSE selectors[i]]
        /\ selector_count' = IF selector_count > Cardinality(own)
                             THEN selector_count - Cardinality(own) ELSE 0

tn_selector_table_grow ==
    /\ max_selectors < SelectorsMax
    /\ max_selectors' = SelectorsMax
    /\ UNCHANGED <<selectors, selector_count, ready, sigs, call, status>>

-----------------------------------------------------------------------------
(***************************************************************************)
(* The client's side: tn_lvo_waitselect.  call[b].pc names the request     *)
(* under way or the place where the client is:                             *)
(*   idle, arm, start, loop, wait, disarm, query, rearm, and               *)
(*   sleep (nfds = 0 and no timeout).                                      *)
(***************************************************************************)
\* No call, after one that returned "result": ready, timeout, interrupted or error.
NoCall(result) == [pc |-> "idle", watch |-> {}, wait |-> "none",
                   elapsed |-> 0, measured |-> 0, then |-> "none", timed_out |-> result = "timeout"]

\* nfds > 0; the bits set may all lie beyond the descriptor table.
HasFds(b) == call[b].watch # {}

At(b, pc) == status[b] = "open" /\ call[b].pc = pc
Goto(b, pc) == call' = [call EXCEPT ![b].pc = pc]
Query(b) == call' = [call EXCEPT ![b].pc = "query", ![b].measured = call[b].elapsed]
Again(b) == call' = [call EXCEPT ![b].pc = "rearm", ![b].measured = 0]
Return(b, result) == call' = [call EXCEPT ![b] = NoCall(result)]

\* Mutant of DisarmThen: an interrupted call returns at once.
ReturnArmed(b, then) ==
    IF HasFds(b) /\ then # "interrupted"
    THEN call' = [call EXCEPT ![b].pc = "disarm", ![b].then = then]
    ELSE IF then = "query" THEN Query(b) ELSE Return(b, then)

\* Ask for SELECT_DISARM (only a call with descriptors does), then go on with "then".
DisarmThen(b, then) ==
    IF HasFds(b) THEN call' = [call EXCEPT ![b].pc = "disarm", ![b].then = then]
    ELSE IF then = "query" THEN Query(b) ELSE Return(b, then)

Interrupts == {"user", "break"}

\* Signal bits the caller asked for are consumed, a break stays pending.
tn_lvo_waitselect(b, watch, wait) ==
    /\ At(b, "idle")
    /\ IF sigs[b] \cap Interrupts # {}
       THEN Return(b, "interrupted") /\ sigs' = [sigs EXCEPT ![b] = @ \ {"user"}]
       ELSE /\ sigs' = [sigs EXCEPT ![b] = @ \ {"select"}]
            /\ \/ \* nfds = 0 with a zero timeout, or with no timeout and no signals to wait for
                  watch = {} /\ wait \in {"zero", "forever"} /\ Return(b, "timeout")
               \/ /\ watch # {} \/ wait # "zero"
                  /\ call' = [call EXCEPT ![b] = [NoCall("none") EXCEPT
                        !.pc = IF watch # {} THEN "arm"
                               ELSE IF wait = "forever" THEN "sleep" ELSE "start",
                        !.watch = watch, !.wait = wait]]
    /\ UNCHANGED <<selectors, max_selectors, selector_count, ready, status>>

\* nfds = 0 and no timeout: Wait() for the signals, which stay set.
Sleep(b) ==
    /\ At(b, "sleep") /\ sigs[b] \cap Interrupts # {}
    /\ Return(b, "interrupted")
    /\ UNCHANGED <<selectors, max_selectors, selector_count, ready, sigs, status>>

\* SELECT_ARM, first or repeated, and what the client does with the answer.
ArmRefused(b) ==
    /\ IF call[b].pc = "arm" THEN DisarmThen(b, "error")
       ELSE IF call[b].wait = "forever" THEN Return(b, "error")
       ELSE Goto(b, "loop")
    /\ UNCHANGED <<selectors, selector_count>>

tn_ipc_cmd_select_arm(b) ==
    /\ At(b, "arm") \/ At(b, "rearm")
    /\ LET c == call[b] IN
       IF BadFd(b, c.watch) THEN ArmRefused(b)
       ELSE IF Hits(b, c.watch) # {} THEN Return(b, "ready") /\ UNCHANGED <<selectors, selector_count>>
       ELSE IF SelectorFor(b) = {} THEN ArmRefused(b)
       ELSE /\ \E i \in SelectorFor(b) : ArmSelector(b, c.watch, i)
            /\ IF c.pc = "rearm" THEN Goto(b, "loop")
               ELSE IF c.wait = "zero" THEN DisarmThen(b, "timeout")
               ELSE Goto(b, "start")
    /\ UNCHANGED <<max_selectors, ready, sigs, status>>

\* The wake signal and the timer are needed before the first Wait().
StartWaiting(b) ==
    /\ At(b, "start")
    /\ DisarmThen(b, "error") \/ Goto(b, "wait")
    /\ UNCHANGED <<selectors, max_selectors, selector_count, ready, sigs, status>>

Loop(b) ==
    /\ At(b, "loop")
    /\ IF call[b].wait = "timed" /\ call[b].elapsed >= Budget
       THEN DisarmThen(b, "timeout") ELSE Goto(b, "wait")
    /\ UNCHANGED <<selectors, max_selectors, selector_count, ready, sigs, status>>

\* Mutant of Wake: the timer request was not sent.
NoTimer(b) ==
    LET wake == IF HasFds(b) THEN {"select"} ELSE {} IN
    /\ At(b, "wait")
    /\ sigs[b] \cap (Interrupts \cup wake) # {}
    /\ DisarmThen(b, IF sigs[b] \cap Interrupts # {} THEN "interrupted" ELSE "query")
    /\ sigs' = [sigs EXCEPT ![b] = @ \ (wake \cup {"user"})]
    /\ UNCHANGED <<selectors, max_selectors, selector_count, ready, status>>

\* Wait() returns: signals, or the timer, which has been seen to fire early.
Wake(b) ==
    LET wake == IF HasFds(b) THEN {"select"} ELSE {} IN
    /\ At(b, "wait")
    /\ call[b].wait = "timed" \/ sigs[b] \cap (Interrupts \cup wake) # {}
    /\ DisarmThen(b, IF sigs[b] \cap Interrupts # {} THEN "interrupted" ELSE "query")
    /\ sigs' = [sigs EXCEPT ![b] = @ \ (wake \cup {"user"})]
    /\ UNCHANGED <<selectors, max_selectors, selector_count, ready, status>>

Disarm(b) ==
    /\ At(b, "disarm")
    /\ tn_ipc_cmd_select_disarm(b)
    /\ IF call[b].then = "query" THEN Query(b) ELSE Return(b, call[b].then)
    /\ UNCHANGED <<max_selectors, ready, sigs, status>>

\* Mutant of tn_ipc_cmd_waitselect: any wake of a timed call counts as its timeout.
TimerTrusted(b) ==
    /\ At(b, "query")
    /\ IF Hits(b, call[b].watch) # {} THEN Return(b, "ready")
       ELSE IF call[b].wait = "timed" THEN Return(b, "timeout") ELSE Again(b)
    /\ UNCHANGED <<selectors, max_selectors, selector_count, ready, sigs, status>>

\* WAITSELECT: the final answer, or another round.  The time was read before the
\* request was sent.
tn_ipc_cmd_waitselect(b) ==
    /\ At(b, "query")
    /\ IF Hits(b, call[b].watch) # {} THEN Return(b, "ready")
       ELSE IF call[b].wait = "timed" /\ call[b].measured + Slack >= Budget
       THEN Return(b, "timeout")
       ELSE Again(b)
    /\ UNCHANGED <<selectors, max_selectors, selector_count, ready, sigs, status>>

-----------------------------------------------------------------------------
(***************************************************************************)
(* Everything else that happens meanwhile.                                 *)
(***************************************************************************)
\* An lwIP callback makes a socket readable, writable or broken, and signals.
SocketEvent(s, k) ==
    /\ ready' = [ready EXCEPT ![s] = @ \cup {k}]
    /\ tn_signal_socket(s, ready'[s])
    /\ UNCHANGED <<max_selectors, call, status>>

Holds(b, s) == \E f \in DOMAIN FdMap[b] : FdMap[b][f] = s

\* A client that is not in WaitSelect takes what made s ready.
Drain(b, s, k) ==
    /\ At(b, "idle") /\ Holds(b, s) /\ k \in ready[s]
    /\ ready' = [ready EXCEPT ![s] = @ \ {k}]
    /\ UNCHANGED <<selectors, max_selectors, selector_count, sigs, call, status>>

\* shutdown(SHUT_WR) makes a connected socket writable without a signal.
ShutWr(b, s) ==
    /\ At(b, "idle") /\ Holds(b, s) /\ "write" \in Kinds \ ready[s]
    /\ ready' = [ready EXCEPT ![s] = @ \cup {"write"}]
    /\ UNCHANGED <<selectors, max_selectors, selector_count, sigs, call, status>>

ExternalSignal(b, bit) ==
    /\ status[b] = "open" /\ bit \notin sigs[b]
    /\ sigs' = [sigs EXCEPT ![b] = @ \cup {bit}]
    /\ UNCHANGED <<selectors, max_selectors, selector_count, ready, call, status>>

\* Timed calls whose clock runs.
Timed == {b \in Bases : /\ status[b] = "open" /\ call[b].wait = "timed"
                        /\ call[b].pc \in {"loop", "wait", "disarm", "query", "rearm"}
                        /\ call[b].elapsed < Budget}

Tick ==
    /\ Timed # {}
    /\ call' = [b \in Bases |-> IF b \in Timed
                                THEN [call[b] EXCEPT !.elapsed = @ + 1] ELSE call[b]]
    /\ UNCHANGED <<selectors, max_selectors, selector_count, ready, sigs, status>>

Open(b) ==
    /\ status[b] = "closed"
    /\ status' = [status EXCEPT ![b] = "open"]
    /\ UNCHANGED <<selectors, max_selectors, selector_count, ready, sigs, call>>

\* Its selector stays armed until the base is reaped.
TaskDies(b) ==
    /\ status[b] = "open"
    /\ status' = [status EXCEPT ![b] = "dead"]
    /\ call' = [call EXCEPT ![b] = NoCall("none")]
    /\ sigs' = [sigs EXCEPT ![b] = {}]
    /\ UNCHANGED <<selectors, max_selectors, selector_count, ready>>

\* CLOSE, sent by a client that is in no other call, or by the reaper for a dead one.
Close(b) ==
    /\ At(b, "idle") \/ status[b] = "dead"
    /\ tn_selector_disarm_all_for_base(b)
    /\ status' = [status EXCEPT ![b] = "closed"]
    /\ call' = [call EXCEPT ![b] = NoCall("none")]
    /\ sigs' = [sigs EXCEPT ![b] = {}]
    /\ UNCHANGED <<max_selectors, ready>>

-----------------------------------------------------------------------------
Init ==
    /\ selectors = [i \in 0 .. SelectorsMax - 1 |-> Free]
    /\ max_selectors = SelectorsAtStart
    /\ selector_count = 0
    /\ ready = [s \in Slots |-> {}]
    /\ sigs = [b \in Bases |-> {}]
    /\ call = [b \in Bases |-> NoCall("none")]
    /\ status = [b \in Bases |-> "closed"]

\* Steps a client in WaitSelect, the daemon and the clock owe it.
Progress(b) ==
    \/ Sleep(b) \/ tn_ipc_cmd_select_arm(b) \/ StartWaiting(b) \/ Loop(b)
    \/ Wake(b) \/ Disarm(b) \/ tn_ipc_cmd_waitselect(b)

Next ==
    \/ tn_selector_table_grow
    \/ Tick
    \/ \E s \in Slots, k \in Kinds : SocketEvent(s, k)
    \/ \E b \in Bases :
         \/ Progress(b)
         \/ \E watch \in Watches, wait \in {"zero", "timed", "forever"} :
              tn_lvo_waitselect(b, watch, wait)
         \/ \E s \in Slots : ShutWr(b, s) \/ \E k \in Kinds : Drain(b, s, k)
         \/ \E bit \in Bits[b] : ExternalSignal(b, bit)
         \/ Open(b) \/ TaskDies(b) \/ Close(b)

Spec == Init /\ [][Next]_vars

\* The daemon's loop serves every message it finds, a running client goes on,
\* timer.device completes every request, and time passes.
FairSpec == Spec /\ WF_vars(Tick) /\ \A b \in Bases : WF_vars(Progress(b))

-----------------------------------------------------------------------------
(***************************************************************************)
(* Correctness.                                                            *)
(***************************************************************************)
\* Types of the selector table, of the readiness and signal sets and of the calls.
TypeOK ==
    /\ selectors \in [0 .. SelectorsMax - 1 -> [in_use : BOOLEAN, base : Bases \cup {NoBase},
                                                watch : Watches \cup {{}}]]
    /\ max_selectors \in SelectorsAtStart .. SelectorsMax
    /\ selector_count \in Nat
    /\ ready \in [Slots -> SUBSET Kinds]
    /\ sigs \in [Bases -> SUBSET (Interrupts \cup {"select"})]
    /\ status \in [Bases -> {"closed", "open", "dead"}]
    /\ call \in [Bases ->
         [pc : {"idle", "arm", "start", "loop", "wait", "disarm", "query", "rearm", "sleep"},
          watch : Watches \cup {{}}, wait : {"none", "zero", "timed", "forever"},
          elapsed : 0 .. Budget, measured : 0 .. Budget, then : {"none", "query", "interrupted", "timeout", "error"},
          timed_out : BOOLEAN]]

\* No base ever occupies two entries, so the table, which has one entry per
\* registered base, always has one for a SELECT_ARM: the exhaustion error
\* (ENOBUFS) cannot reach a program, however calls are retried or given up.
ArmNeverRefused ==
    /\ \A i, j \in Armed : selectors[i].base = selectors[j].base => i = j
    /\ \A b \in Bases : SelectorFor(b) # {}

\* A selector belongs to a registered base: no death, reap or close leaves an
\* entry whose base is freed memory for tn_signal_socket to dereference (TNET-151).
ArmedRegistered == \A i \in Armed : tn_selector_base_alive(selectors[i].base)

\* Whatever way WaitSelect returned (ready, timeout, interrupted, error, zero
\* timeout), a program outside it has no selector that watches a descriptor, so
\* no later socket event can raise a stray wake (TNET-151).  The entry that
\* remains after a retried nfds = 0 sleep watches nothing.
IdleNotWatching ==
    \A i \in Armed : At(selectors[i].base, "idle") => selectors[i].watch = {}

\* Together: the table holds one entry for each registered base that may need
\* one, and none that could signal a program that is gone or not waiting.
SelectorsSound == ArmNeverRefused /\ ArmedRegistered /\ IdleNotWatching

\* selector_count never runs away from the table: arm, disarm, close, reap and
\* growth leave it right or one short, so tn_signal_socket skips the scan only
\* when at most one selector is armed.
CountWithinOne == selector_count \in {Cardinality(Armed) - 1, Cardinality(Armed)}

\* A timed WaitSelect never reports a timeout before its time (less the slack
\* for measuring), even when the timer fires early or wakes are spurious.
TimeoutHonest ==
    [][\A b \in Bases :
          /\ call[b].pc # "idle" /\ call[b].wait = "timed"
          /\ call'[b].pc = "idle" /\ call'[b].timed_out
          => call[b].elapsed + Slack >= Budget]_vars

\* A timed WaitSelect returns, unless its task dies: lost wakes, early timers and
\* sockets drained by others before the final query can delay it only until the
\* budget is spent.
TimedReturns ==
    \A b \in Bases :
       (call[b].pc # "idle" /\ call[b].wait = "timed") ~> (call[b].pc = "idle" \/ status[b] # "open")

\* A client asleep in Wait() with a watched descriptor ready has its wake
\* signal: "Clearing before the authoritative ARM poll cannot lose a wake".
NoLostWake ==
    \A b \in Bases : At(b, "wait") /\ Hits(b, call[b].watch) # {} => "select" \in sigs[b]
=============================================================================
