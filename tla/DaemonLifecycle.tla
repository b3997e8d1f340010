-------------------------- MODULE DaemonLifecycle --------------------------
(***************************************************************************)
(* The life of the network task: start-up with its unwinding, the main     *)
(* loop, the STOP request, Ctrl-C, the shutdown gate with its return to    *)
(* service, and the library's open, close and expunge entries that race    *)
(* with it.  src/task/daemon_main.c, src/task/timers.c,                    *)
(* src/lib/lib_init.c, tn_lib_open / tn_lib_close / tn_lib_expunge in      *)
(* src/lib/lib_vectors.c and src/common/ipc_client.c.                      *)
(*                                                                         *)
(* A CLIENT is a task that opens bsdsocket.library; a TOOL is a command    *)
(* (tolunnet STOP, STATUS ...) that sends one message and holds nothing.   *)
(* One slot stands for the socket a client may be parked on; it is here    *)
(* only for what a reap does to it (SlotTable has the table itself).       *)
(***************************************************************************)
EXTENDS Naturals, Sequences, FiniteSets

CONSTANTS Clients,   \* tasks that open the library
          Tools,     \* one-shot senders
          MaxBases,  \* TN_CLIENT_BASES_MAX
          Reads,     \* SANA-II read requests that may complete unserved
          LifeActors, \* bound: tasks that use the daemon at one time
          Shared,    \* whether two bases may hold descriptors of the slot
          NoOne      \* NULL

\* What the constants must satisfy.
LifeAssumption ==
    /\ LifeActors \in Nat /\ MaxBases \in Nat \ {0} /\ Reads \in Nat \ {0}
    /\ Shared \in BOOLEAN /\ NoOne \notin Clients \cup Tools
    /\ Clients \cap Tools = {} /\ IsFiniteSet(Clients)

VARIABLES phase,     \* where the daemon task is
          held,      \* start-up steps done and not undone
          public,    \* the IPC port is in Exec's port list
          listed,    \* the library is in Exec's library list
          queue,     \* messages in the IPC port
          pend, got, \* signal bits set at the task; bits the last Wait returned
          running, stopping, stopMsg, bases, openCnt,   \* TnDaemon and lib_OpenCnt
          timer, armed,      \* the timer request and TnTimer.armed
          rx,                \* read requests completed and not polled
          owner, holders, parked,   \* the slot: owner_base, descriptors, pending_recv_msg
          client, tool,      \* where each task is
          discarded          \* history: bits a break threw away, not served since

slotv == <<owner, holders, parked>>
timev == <<timer, armed>>
lifevars  == <<phase, held, public, listed, queue, pend, got, running, stopping,
           stopMsg, bases, openCnt, timev, rx, slotv, client, tool, discarded>>

Signals == {"ipc", "s2", "timer", "ctrlc"}
Phases  == {"off", "start", "wait", "awake", "exit", "gate", "down", "free"}
ClientStates == {"out", "counted", "opening", "refused", "open", "calling",
                 "closing", "leaving", "dead"}
\* "idle" also after an answer of 0 to STATUS and after any -1 (no port,
\* ENETDOWN, EBUSY, EALREADY); "stopped" after the answer of 0 to STOP.
ToolStates == {"idle", "waiting", "stopped"}
Messages == ({"OPEN", "CLOSE", "RECV"} \X Clients) \cup ({"STOP", "STATUS"} \X Tools)

(***************************************************************************)
(* Start-up.  A step that fails jumps to a label; the labels fall through  *)
(* to each other, so a label undoes its own step and every earlier one.    *)
(***************************************************************************)
Steps == <<"selectors", "log", "timer", "s2", "online", "netif", "reads", "port", "lib">>

tn_fail_log   == {"log", "selectors"}
tn_fail_timer == {"timer"} \cup tn_fail_log
tn_fail_s2    == {"s2", "online", "reads"} \cup tn_fail_timer
tn_fail_netif == {"netif"} \cup tn_fail_s2
tn_fail_port  == {"port"} \cup tn_fail_netif

\* A mistaken label: the failed arm of the reads skips the netif removal.
FailLabelSkipsNetif(step) ==
    CASE step \in {"timer", "s2"}                -> tn_fail_timer
      [] step \in {"online", "netif", "reads"}   -> tn_fail_s2
      [] step = "port"                           -> tn_fail_netif
      [] step = "lib"                            -> tn_fail_port
      [] OTHER                                   -> {}

FailLabel(step) ==
    CASE step \in {"timer", "s2"}       -> tn_fail_timer
      [] step \in {"online", "netif"}   -> tn_fail_s2
      [] step \in {"reads", "port"}     -> tn_fail_netif
      [] step = "lib"                   -> tn_fail_port
      [] OTHER                          -> {}

NextStep == Steps[Cardinality(held) + 1]

(***************************************************************************)
(* Answers.  ReplyMsg wakes the sender; a client goes on from where its    *)
(* request left it, and a dead client's message goes nowhere.              *)
(***************************************************************************)
AfterReply == [opening |-> "open", calling |-> "open", closing |-> "leaving",
               dead |-> "dead"]

ReplyClient(c) == client' = [client EXCEPT ![c] = AfterReply[@]]
ReplyTool(t, answer) == tool' = [tool EXCEPT ![t] = answer]

\* Every message left in the port is answered ENETDOWN.
Drained == {queue[i][2] : i \in DOMAIN queue}
DrainPort ==
    /\ queue' = <<>>
    /\ tool' = [t \in Tools |-> IF t \in Drained THEN "idle" ELSE tool[t]]

Start ==
    /\ phase = "off"
    /\ phase' = "start"
    /\ UNCHANGED <<held, public, listed, queue, pend, got, running, stopping, stopMsg,
                   bases, openCnt, timev, rx, slotv, client, tool, discarded>>

StartStep ==
    /\ phase = "start" /\ NextStep # "lib"
    /\ held' = held \cup {NextStep}
    /\ public' = (NextStep = "port")
    /\ UNCHANGED <<phase, listed, queue, pend, got, running, stopping, stopMsg,
                   bases, openCnt, timev, rx, slotv, client, tool, discarded>>

\* The library is made, the tick armed, and the loop entered.  Bits set at
\* the task while it started (a STOP already queued) are still pending.
StartDone ==
    /\ phase = "start" /\ NextStep = "lib"
    /\ held' = held \cup {"lib"} /\ listed' = TRUE /\ openCnt' = 0
    /\ timer' = "flying" /\ armed' = TRUE
    /\ running' = TRUE /\ phase' = "wait"
    /\ UNCHANGED <<public, queue, pend, got, stopping, stopMsg, bases, rx, slotv,
                   client, tool, discarded>>

\* The process exits; its pending bits die with it.
StartFails ==
    /\ phase = "start" /\ NextStep # "log"
    /\ held' = held \ FailLabel(NextStep)
    /\ public' = FALSE
    /\ DrainPort
    /\ pend' = {} /\ phase' = "off"
    /\ UNCHANGED <<listed, got, running, stopping, stopMsg, bases, openCnt, timev, rx,
                   slotv, client, discarded>>

(***************************************************************************)
(* The reap: every registered base whose task is gone is closed, and the   *)
(* pending requests of the slots it OWNS are dropped without an answer.    *)
(***************************************************************************)
Dead == {c \in bases : client[c] = "dead"}
ReapedCnt == openCnt - Cardinality(Dead)
\* The bases entered in the same handler, and where the others stand after it.
ReapAnd(entered, standing) ==
    /\ bases' = (bases \ Dead) \cup entered
    /\ openCnt' = ReapedCnt
    /\ parked' = IF owner \in Dead \/ parked \in Dead THEN NoOne ELSE parked
    /\ holders' = holders \ Dead
    /\ owner' = IF owner \in Dead THEN NoOne ELSE owner
    /\ client' = [c \in Clients |-> IF c \in Dead THEN "out" ELSE standing[c]]
tn_reap_dead_clients == ReapAnd({}, client)

NoReap == UNCHANGED <<bases, openCnt, slotv, client>>

(***************************************************************************)
(* The main loop: Wait, then Ctrl-C, the port, the reads and the tick.     *)
(***************************************************************************)
Wakes ==
    /\ phase = "wait" /\ pend # {}
    /\ phase' = "awake" /\ got' = pend /\ pend' = {}
    /\ UNCHANGED <<held, public, listed, queue, running, stopping, stopMsg, bases,
                   openCnt, timev, rx, slotv, client, tool, discarded>>

\* Ctrl-C: with openers left after a reap the task stays and serves the other
\* bits; otherwise the loop is left at once, and the other bits are lost.
HandleBreak ==
    /\ phase = "awake" /\ "ctrlc" \in got
    /\ IF openCnt > 0 THEN tn_reap_dead_clients ELSE NoReap
    /\ IF openCnt' = 0
       THEN /\ running' = FALSE /\ phase' = "exit" /\ got' = {}
            /\ discarded' = discarded \cup (got \ {"ctrlc", "timer"})
       ELSE /\ got' = got \ {"ctrlc"}
            /\ UNCHANGED <<running, phase, discarded>>
    /\ UNCHANGED <<held, public, listed, queue, pend, stopping, stopMsg, timev, rx, tool>>

Serving(bit, before) == phase = "awake" /\ bit \in got /\ got \cap before = {}

Unchanged_IPC == UNCHANGED <<held, public, listed, pend, got, phase, stopping, timev, rx,
                             discarded>>

\* A STOP that forgets the first one.
StopOverwrites(t) ==
    /\ IF openCnt > 0 THEN tn_reap_dead_clients ELSE NoReap
    /\ IF openCnt' > 0
       THEN ReplyTool(t, "idle") /\ UNCHANGED <<stopMsg, running>>
       ELSE stopMsg' = t /\ running' = FALSE /\ UNCHANGED tool

tn_ipc_cmd_stop(t) ==
    /\ IF openCnt > 0 THEN tn_reap_dead_clients ELSE NoReap
    /\ \/ openCnt' > 0 /\ ReplyTool(t, "idle") /\ UNCHANGED <<stopMsg, running>>
       \/ /\ openCnt' = 0 /\ stopMsg # NoOne
          /\ ReplyTool(t, "idle") /\ UNCHANGED <<stopMsg, running>>
       \/ /\ openCnt' = 0 /\ stopMsg = NoOne
          /\ stopMsg' = t /\ running' = FALSE /\ UNCHANGED tool

\* OPEN registers the base, unless it is known.  When the registry is full the
\* dead are reaped and it is tried once more; still full, the OPEN is refused.
ServeOpen(c) ==
    /\ IF c \in bases \/ Cardinality(bases) < MaxBases
       THEN bases' = bases \cup {c} /\ ReplyClient(c) /\ UNCHANGED <<openCnt, slotv>>
       ELSE IF Cardinality(bases \ Dead) < MaxBases
            THEN ReapAnd({c}, [client EXCEPT ![c] = "open"])
            ELSE ReapAnd({}, [client EXCEPT ![c] = "refused"])
    /\ UNCHANGED <<tool, stopMsg, running>>

\* CLOSE cancels what is parked for the base and drops its descriptors.
ServeClose(c) ==
    /\ bases' = bases \ {c}
    /\ holders' = holders \ {c}
    /\ owner' = IF owner = c THEN NoOne ELSE owner
    /\ parked' = IF parked = c THEN NoOne ELSE parked
    /\ ReplyClient(c)
    /\ UNCHANGED <<openCnt, tool, stopMsg, running>>

\* A receive is parked, or answered at once (data there, or the slot is taken).
ServeRecv(c) ==
    /\ \/ parked = NoOne /\ parked' = c /\ UNCHANGED client
       \/ ReplyClient(c) /\ UNCHANGED parked
    /\ UNCHANGED <<bases, openCnt, owner, holders, tool, stopMsg, running>>

ServeMsg ==
    /\ Serving("ipc", {"ctrlc"}) /\ queue # <<>>
    /\ queue' = Tail(queue)
    /\ LET cmd == Head(queue)[1]  who == Head(queue)[2] IN
       \/ cmd = "STOP" /\ tn_ipc_cmd_stop(who)
       \/ cmd = "STATUS" /\ ReplyTool(who, "idle") /\ NoReap /\ UNCHANGED <<stopMsg, running>>
       \/ cmd = "OPEN" /\ ServeOpen(who)
       \/ cmd = "CLOSE" /\ ServeClose(who)
       \/ cmd = "RECV" /\ ServeRecv(who)
    /\ Unchanged_IPC

PortEmpty ==
    /\ Serving("ipc", {"ctrlc"}) /\ queue = <<>>
    /\ got' = got \ {"ipc"} /\ discarded' = discarded \ {"ipc"}
    /\ UNCHANGED <<phase, held, public, listed, queue, pend, running, stopping, stopMsg,
                   bases, openCnt, timev, rx, slotv, client, tool>>

\* A packet or a timeout may complete the parked receive.
MayComplete ==
    \/ UNCHANGED <<slotv, client>>
    \/ /\ parked # NoOne /\ ReplyClient(parked)
       /\ parked' = NoOne /\ UNCHANGED <<owner, holders>>

ServeRx ==
    /\ Serving("s2", {"ctrlc", "ipc"})
    /\ rx' = 0 /\ got' = got \ {"s2"} /\ discarded' = discarded \ {"s2"}
    /\ MayComplete
    /\ UNCHANGED <<phase, held, public, listed, queue, pend, running, stopping, stopMsg,
                   bases, openCnt, timev, tool>>

\* tn_timer_ack waits for the request (WaitIO) and the tick is armed again.
ServeTick ==
    /\ Serving("timer", {"ctrlc", "ipc", "s2"}) /\ timer = "done"
    /\ timer' = "flying" /\ armed' = TRUE /\ got' = {}
    /\ MayComplete
    /\ UNCHANGED <<phase, held, public, listed, queue, pend, running, stopping, stopMsg,
                   bases, openCnt, rx, tool, discarded>>

LoopCheck ==
    /\ phase = "awake" /\ got = {}
    /\ phase' = IF running THEN "wait" ELSE "exit"
    /\ UNCHANGED <<held, public, listed, queue, pend, got, running, stopping, stopMsg,
                   bases, openCnt, timev, rx, slotv, client, tool, discarded>>

(***************************************************************************)
(* Shutdown: the second reap, the gate under Forbid, and the teardown.     *)
(***************************************************************************)
EnterShutdown ==
    /\ phase = "exit"
    /\ stopping' = TRUE /\ phase' = "gate"
    /\ tn_reap_dead_clients
    /\ UNCHANGED <<held, public, listed, queue, pend, got, running, stopMsg, timev, rx,
                   tool, discarded>>

\* The tick's state after tn_timer_arm, which does nothing while armed.
NotNormalised == IF armed THEN UNCHANGED timev ELSE timer' = "flying" /\ armed' = TRUE

\* The request is aborted or collected, then armed again; its old bit stays.
NormaliseTimer == timer' = "flying" /\ armed' = TRUE

BackToService ==
    /\ phase = "gate" /\ openCnt > 0
    /\ NormaliseTimer
    /\ stopping' = FALSE /\ running' = TRUE /\ phase' = "wait"
    /\ IF stopMsg # NoOne THEN ReplyTool(stopMsg, "idle") ELSE UNCHANGED tool
    /\ stopMsg' = NoOne
    /\ UNCHANGED <<held, public, listed, queue, pend, got, bases, openCnt, rx, slotv,
                   client, discarded>>

\* The gate without its second look at the open count.
GateOpen == phase = "gate"

Gate == phase = "gate" /\ openCnt = 0

PassGate ==
    /\ Gate
    /\ listed' = FALSE /\ public' = FALSE
    /\ DrainPort
    /\ held' = held \ {"lib"}
    /\ phase' = "down" /\ discarded' = {}
    /\ UNCHANGED <<pend, got, running, stopping, stopMsg, bases, openCnt, timev, rx,
                   slotv, client>>

TearDown ==
    /\ phase = "down"
    /\ held' = held \ {"s2", "online", "reads", "netif", "timer"}
    /\ timer' = "idle" /\ armed' = FALSE /\ rx' = 0
    /\ owner' = NoOne /\ holders' = {} /\ parked' = NoOne
    /\ phase' = "free"
    /\ UNCHANGED <<public, listed, queue, pend, got, running, stopping, stopMsg, bases,
                   openCnt, client, tool, discarded>>

\* The STOP is answered, the port deleted, and the process ends.
ShutdownDone ==
    /\ phase = "free"
    /\ IF stopMsg # NoOne THEN ReplyTool(stopMsg, "stopped") ELSE UNCHANGED tool
    /\ stopMsg' = NoOne
    /\ held' = held \ {"port", "selectors", "log"}
    /\ pend' = {} /\ stopping' = FALSE
    /\ phase' = "off"
    /\ UNCHANGED <<public, listed, queue, got, running, bases, openCnt, timev, rx, slotv,
                   client, discarded>>

(***************************************************************************)
(* The clients.                                                            *)
(***************************************************************************)
Client_UNCHANGED == UNCHANGED <<phase, held, public, listed, got, running, stopping,
                                stopMsg, bases, timev, rx, tool, discarded>>

Send(msg) == queue' = Append(queue, msg) /\ pend' = pend \cup {"ipc"}

\* The bound on the tasks that use the daemon at one time.
RoomForOneMore ==
    Cardinality({c \in Clients : client[c] # "out"} \cup {t \in Tools : tool[t] = "waiting"})
        < LifeActors

\* OpenLibrary finds the library and runs tn_lib_open's first lines under one
\* Forbid.
LibOpen(c) ==
    /\ client[c] = "out" /\ listed /\ RoomForOneMore
    /\ openCnt' = openCnt + 1
    /\ client' = [client EXCEPT ![c] = "counted"]
    /\ UNCHANGED <<queue, pend, slotv>> /\ Client_UNCHANGED

\* The base, its port and its tables are allocated, and OPEN is sent.
LibOpenSends(c) ==
    /\ client[c] = "counted"
    /\ Send(<<"OPEN", c>>)
    /\ client' = [client EXCEPT ![c] = "opening"]
    /\ UNCHANGED <<openCnt, slotv>> /\ Client_UNCHANGED

\* An allocation failed, or the daemon refused: one unwind path.
LibOpenFails(c) ==
    /\ client[c] \in {"counted", "refused"}
    /\ openCnt' = openCnt - 1
    /\ client' = [client EXCEPT ![c] = "out"]
    /\ UNCHANGED <<queue, pend, slotv>> /\ Client_UNCHANGED

\* A descriptor for the slot: socket(), or ObtainSocket of a released copy.
TakeSlot(c) ==
    /\ client[c] = "open" /\ c \notin holders
    /\ Shared \/ holders = {}
    /\ holders' = holders \cup {c} /\ owner' = c
    /\ UNCHANGED <<queue, pend, openCnt, parked, client>> /\ Client_UNCHANGED

LibCall(c) ==
    /\ client[c] = "open" /\ c \in holders
    /\ Send(<<"RECV", c>>)
    /\ client' = [client EXCEPT ![c] = "calling"]
    /\ UNCHANGED <<openCnt, slotv>> /\ Client_UNCHANGED

LibClose(c) ==
    /\ client[c] = "open"
    /\ Send(<<"CLOSE", c>>)
    /\ client' = [client EXCEPT ![c] = "closing"]
    /\ UNCHANGED <<openCnt, slotv>> /\ Client_UNCHANGED

LibCloseDone(c) ==
    /\ client[c] = "leaving"
    /\ openCnt' = openCnt - 1
    /\ client' = [client EXCEPT ![c] = "out"]
    /\ UNCHANGED <<queue, pend, slotv>> /\ Client_UNCHANGED

\* A task ends without closing the library: between calls, or while parked.
TaskDies(c) ==
    /\ client[c] = "open" \/ (client[c] = "calling" /\ parked = c)
    /\ client' = [client EXCEPT ![c] = "dead"]
    /\ UNCHANGED <<queue, pend, openCnt, slotv>> /\ Client_UNCHANGED

\* An expunge that forgets that the daemon is in service.
ExpungeAnyTime == listed /\ openCnt = 0

\* Low memory, or RemLibrary by another task: refused while in service.
tn_lib_expunge == listed /\ openCnt = 0 /\ stopping

Expunge ==
    /\ tn_lib_expunge
    /\ listed' = FALSE
    /\ UNCHANGED <<phase, held, public, queue, pend, got, running, stopping, stopMsg,
                   bases, openCnt, timev, rx, slotv, client, tool, discarded>>

(***************************************************************************)
(* The tools, and what reaches the task from outside.                      *)
(***************************************************************************)
\* FindPort and PutMsg under one Forbid.
tn_ipc_oneshot(t) ==
    /\ tool[t] # "waiting" /\ RoomForOneMore
    /\ \/ /\ public
          /\ \E cmd \in {"STOP", "STATUS"} : Send(<<cmd, t>>)
          /\ ReplyTool(t, "waiting")
       \/ /\ ~public
          /\ ReplyTool(t, "idle") /\ UNCHANGED <<queue, pend>>
    /\ UNCHANGED <<phase, held, public, listed, got, running, stopping, stopMsg, bases,
                   openCnt, timev, rx, slotv, client, discarded>>

Raise(bit) == pend' = pend \cup {bit}
Outside_UNCHANGED == UNCHANGED <<phase, held, public, listed, queue, got, running, stopping,
                                 stopMsg, bases, openCnt, armed, slotv, client, tool,
                                 discarded>>

TimerFires ==
    /\ timer = "flying" /\ timer' = "done" /\ Raise("timer")
    /\ UNCHANGED rx /\ Outside_UNCHANGED
PacketArrives ==
    /\ "reads" \in held /\ phase # "start" /\ rx < Reads
    /\ rx' = rx + 1 /\ Raise("s2")
    /\ UNCHANGED timer /\ Outside_UNCHANGED
CtrlC ==
    /\ phase \in {"wait", "awake", "exit", "gate"}
    /\ Raise("ctrlc") /\ UNCHANGED <<timer, rx>> /\ Outside_UNCHANGED

LifeInit ==
    /\ phase = "off" /\ held = {} /\ public = FALSE /\ listed = FALSE
    /\ queue = <<>> /\ pend = {} /\ got = {}
    /\ running = FALSE /\ stopping = FALSE /\ stopMsg = NoOne /\ bases = {} /\ openCnt = 0
    /\ timer = "idle" /\ armed = FALSE /\ rx = 0
    /\ owner = NoOne /\ holders = {} /\ parked = NoOne
    /\ client = [c \in Clients |-> "out"] /\ tool = [t \in Tools |-> "idle"]
    /\ discarded = {}

DaemonNext == \/ StartStep \/ StartDone \/ Wakes \/ HandleBreak \/ ServeMsg \/ PortEmpty
              \/ ServeRx \/ ServeTick \/ LoopCheck \/ EnterShutdown \/ BackToService
              \/ PassGate \/ TearDown \/ ShutdownDone
ClientNext(c) == \/ LibOpen(c) \/ LibOpenSends(c) \/ LibOpenFails(c) \/ TakeSlot(c)
                 \/ LibCall(c) \/ LibClose(c) \/ LibCloseDone(c) \/ TaskDies(c)
LifeNext == \/ Start \/ StartFails \/ DaemonNext
        \/ \E c \in Clients : ClientNext(c)
        \/ \E t \in Tools : tn_ipc_oneshot(t)
        \/ Expunge \/ TimerFires \/ PacketArrives \/ CtrlC

LifeSpec == LifeInit /\ [][LifeNext]_lifevars

----------------------------------------------------------------------------
\* The state of the daemon, the library and their users is well formed.
LifeTypeOK ==
    /\ phase \in Phases /\ held \subseteq {Steps[i] : i \in DOMAIN Steps}
    /\ public \in BOOLEAN /\ listed \in BOOLEAN /\ running \in BOOLEAN /\ stopping \in BOOLEAN
    /\ queue \in Seq(Messages) /\ pend \subseteq Signals /\ got \subseteq Signals
    /\ stopMsg \in Tools \cup {NoOne} /\ bases \subseteq Clients
    /\ openCnt \in 0 .. Cardinality(Clients)
    /\ timer \in {"idle", "flying", "done"} /\ armed \in BOOLEAN /\ rx \in 0 .. Reads
    /\ owner \in Clients \cup {NoOne} /\ parked \in Clients \cup {NoOne}
    /\ holders \subseteq Clients
    /\ client \in [Clients -> ClientStates] /\ tool \in [Tools -> ToolStates]
    /\ discarded \subseteq Signals

\* A task that is inside the library, or still owns a base of it, finds the
\* daemon's port in place: the code its base jumps into is never unloaded
\* under it (TNET-059), whatever Ctrl-C, STOP and expunge race with its open.
OpenersKeepTheDaemon ==
    \A c \in Clients : client[c] # "out" => public /\ "lib" \in held

\* The open count is the number of tasks that have the library, dead ones
\* included: neither the reap nor the unwinding of a failed open miscounts.
OpenCountExact ==
    phase \notin {"off", "start", "down", "free"} =>
        openCnt = Cardinality({c \in Clients : client[c] # "out"})

\* In service the library can be opened: an expunge that slips in while the
\* task decides to stop never leaves a daemon that serves an unlisted library.
ServiceMeansListed == phase \in {"wait", "awake"} => listed /\ public

\* When the process ends, whether by a failed start or by a stop, nothing it
\* took at start-up is left behind.
NothingLeftBehind == phase = "off" => held = {} /\ queue = <<>> /\ stopMsg = NoOne

\* A request in the port, or a packet in a read request, is announced by its
\* signal while the task sleeps, except after a break that threw the bit away
\* and then returned to service.
NoSleepingRequest ==
    phase = "wait" =>
        /\ queue # <<>> => "ipc" \in pend \cup discarded
        /\ rx > 0 => "s2" \in pend \cup discarded

\* The 100 ms tick outlives every return to service: while the task sleeps
\* the request is in flight, or done with its signal pending.
TickAlive ==
    phase = "wait" => armed /\ (timer = "flying" \/ (timer = "done" /\ "timer" \in pend))

\* No request is lost.  A live client inside a call has its message in the
\* port or parked on the slot; a waiting tool has its message in the port, or
\* it is the STOP the daemon keeps, and then the daemon is on its way to the
\* gate, where it is answered whichever way the gate decides.
RequestsHeld ==
    /\ \A c \in Clients : client[c] = "calling" =>
          parked = c \/ \E i \in DOMAIN queue : queue[i] = <<"RECV", c>>
    /\ \A t \in Tools : tool[t] = "waiting" =>
          \/ \E i \in DOMAIN queue : queue[i][2] = t
          \/ stopMsg = t /\ ~running /\ phase \notin {"wait", "off", "start"}

\* A tool is told that the daemon has stopped only once the device, the
\* interface, the timer and the library are released, so a START after it
\* finds them free.
StoppedMeansReleased ==
    \A t \in Tools : tool'[t] = "stopped" /\ tool[t] = "waiting" =>
        held' \cap {"s2", "online", "reads", "netif", "timer", "lib"} = {} /\ ~public'

\* Whoever has the library open has a daemon that serves and can be found.
OpenersServed == OpenersKeepTheDaemon /\ OpenCountExact /\ ServiceMeansListed

\* Whatever the order of breaks, stops, deaths and refusals at the gate: no
\* request is forgotten while the task sleeps or shuts down, and a daemon that
\* has ended, or said so, has released everything.
RequestsRemembered == NoSleepingRequest /\ TickAlive /\ RequestsHeld /\ NothingLeftBehind
NothingForgotten == []RequestsRemembered /\ [][StoppedMeansReleased]_lifevars
----------------------------------------------------------------------------
(* The strengthening of OpenersServed and RequestsRemembered that every step *)
(* keeps.                                                                    *)

InUse == {c \in Clients : client[c] # "out"}
Up == phase \in {"wait", "awake", "exit", "gate"}
StepsTo(k) == {Steps[i] : i \in 1 .. k}

\* What is held, and whether the port is public, at each phase.
HeldSound ==
    /\ phase = "off" => held = {} /\ ~public
    /\ phase = "start" => \E k \in 0 .. 8 : held = StepsTo(k) /\ public = (k = 8)
    /\ Up => "lib" \in held /\ public
    /\ phase = "down" => "lib" \notin held /\ ~public
    /\ phase = "free" => held \subseteq {"port", "selectors", "log"} /\ ~public

\* The library is listed, counted and in use only while the daemon is up.  At
\* the gate an expunge may have unlisted it, and then nobody opens it again.
LibSound ==
    /\ IF Up THEN openCnt = Cardinality(InUse) ELSE InUse = {} /\ ~listed
    /\ phase \notin {"gate", "down", "free"} => ~stopping
    /\ phase \in {"wait", "awake", "exit"} => listed
    /\ phase = "gate" => listed \/ openCnt = 0

\* A client has one message at most, of the call it is in; its receive is in
\* the port or parked, not both; and it has a base from its open to its close.
InCall == [OPEN |-> "opening", CLOSE |-> "closing", RECV |-> "calling"]
CallsSound ==
    /\ \A i \in DOMAIN queue : queue[i][2] \in Clients =>
          client[queue[i][2]] = InCall[queue[i][1]]
    /\ \A i, j \in DOMAIN queue : queue[i][2] \in Clients /\ queue[i][2] = queue[j][2] => i = j
    /\ parked # NoOne => /\ client[parked] \in {"calling", "dead"}
                         /\ \A i \in DOMAIN queue : queue[i][2] # parked
    /\ \A c \in Clients : client[c] \in {"open", "calling", "closing", "dead"} => c \in bases

\* What is in the port or in a read request is announced, by a bit that is
\* pending, being served, or was thrown away by a break.
SignalsSound ==
    /\ phase # "awake" => got = {}
    /\ queue # <<>> => /\ phase \notin {"off", "down", "free"}
                       /\ "ipc" \in pend \cup got \cup discarded
    /\ rx > 0 => /\ phase \notin {"off", "start", "free"}
                 /\ phase = "down" \/ "s2" \in pend \cup got \cup discarded
    /\ phase \in {"wait", "awake"} =>
          armed /\ (timer = "flying" \/ (timer = "done" /\ "timer" \in pend \cup got))

\* The STOP that is kept is that of a daemon on its way to the gate; every
\* other tool that waits has its message in the port.
StopSound ==
    /\ stopMsg # NoOne => ~running /\ phase \in {"awake", "exit", "gate", "down", "free"}
    /\ \A t \in Tools : tool[t] = "waiting" =>
          stopMsg = t \/ \E i \in DOMAIN queue : queue[i][2] = t

\* A slot that one base has is that base's alone, so the reap of its owner drops
\* no receive of a task that lives.
SlotSound ==
    /\ holders \subseteq {owner}
    /\ parked # NoOne => parked \in holders
    /\ \A c \in Clients : client[c] = "calling" =>
          c \in holders /\ (parked = c \/ \E i \in DOMAIN queue : queue[i] = <<"RECV", c>>)

LifeInv ==
    /\ LifeTypeOK /\ HeldSound /\ LibSound /\ CallsSound /\ SignalsSound /\ StopSound
    /\ ~Shared => SlotSound
=============================================================================
