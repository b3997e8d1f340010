--------------------------- MODULE LibraryProofs ---------------------------
(***************************************************************************)
(* Proofs about what a program that opens the libraries meets: the         *)
(* daemon's life with its openers (DaemonLifecycle), a socket's datagrams  *)
(* (Datagrams), descriptors and events (LibFds), errno and names           *)
(* (LibNames), SocketBaseTagList (SbtcTags) and usergroup.library          *)
(* (Usergroup), and the replacement of another stack (StackSwap).  Each    *)
(* has an inductive invariant of its own, in the module's own variables;   *)
(* ServicesProofs draws the theorems about the running system from them.   *)
(***************************************************************************)
EXTENDS DaemonLifecycle, Datagrams, LibFds, LibNames, SbtcTags, Usergroup, StackSwap,
        NaturalsInduction, WellFoundedInduction, FiniteSetTheorems, SequenceTheorems, TLAPS

\* A set of naturals that is not empty has a least member: what the proofs about
\* recursive functions and loops use in place of an induction rule.
LEMMA LeastNat == ASSUME NEW S \in SUBSET Nat, S # {} PROVE \E i \in S : \A j \in S : i <= j
<1>1. PICK i \in S : \A j \in S : ~(<<j, i>> \in OpToRel(<, Nat))
  BY NatLessThanWellFounded, WFMin
<1>2. \A j \in S : ~(j < i) BY <1>1 DEF OpToRel
<1> QED BY <1>2

(***************************************************************************)
(* DaemonLifecycle: LifeInv has one part per concern (what is held, the    *)
(* library, the calls, the signals, the STOP, the slot), and each part is  *)
(* shown kept by every action in a lemma of its own.                       *)
(***************************************************************************)
\* The start-up steps one by one.
LEMMA StepList ==
    /\ Steps[1] = "selectors" /\ Steps[2] = "log" /\ Steps[3] = "timer" /\ Steps[4] = "s2"
    /\ Steps[5] = "online" /\ Steps[6] = "netif" /\ Steps[7] = "reads" /\ Steps[8] = "port"
    /\ Steps[9] = "lib" /\ DOMAIN Steps = 1..9
BY DEF Steps

\* The first k steps, in full.
LEMMA StepSets ==
    /\ StepsTo(0) = {} /\ StepsTo(1) = {"selectors"} /\ StepsTo(2) = {"selectors", "log"}
    /\ StepsTo(3) = {"selectors", "log", "timer"}
    /\ StepsTo(4) = {"selectors", "log", "timer", "s2"}
    /\ StepsTo(5) = {"selectors", "log", "timer", "s2", "online"}
    /\ StepsTo(6) = {"selectors", "log", "timer", "s2", "online", "netif"}
    /\ StepsTo(7) = {"selectors", "log", "timer", "s2", "online", "netif", "reads"}
    /\ StepsTo(8) = {"selectors", "log", "timer", "s2", "online", "netif", "reads", "port"}
<1> USE StepList DEF StepsTo
<1> HIDE DEF Steps
<1>0. StepsTo(0) = {} OBVIOUS
<1>1. StepsTo(1) = {"selectors"} OBVIOUS
<1>2. StepsTo(2) = {"selectors", "log"} OBVIOUS
<1>3. StepsTo(3) = {"selectors", "log", "timer"} OBVIOUS
<1>4. StepsTo(4) = {"selectors", "log", "timer", "s2"} OBVIOUS
<1>5. StepsTo(5) = {"selectors", "log", "timer", "s2", "online"} OBVIOUS
<1>6. StepsTo(6) = {"selectors", "log", "timer", "s2", "online", "netif"} OBVIOUS
<1>7. StepsTo(7) = {"selectors", "log", "timer", "s2", "online", "netif", "reads"} OBVIOUS
<1>8. StepsTo(8) = {"selectors", "log", "timer", "s2", "online", "netif", "reads", "port"}
  OBVIOUS
<1> QED BY <1>0, <1>1, <1>2, <1>3, <1>4, <1>5, <1>6, <1>7, <1>8

\* One more step is one more element, so NextStep counts the steps done.
LEMMA StepCount ==
    ASSUME NEW k \in 0..8
    PROVE  IsFiniteSet(StepsTo(k)) /\ Cardinality(StepsTo(k)) = k
<1> DEFINE C(n) == IsFiniteSet(StepsTo(n)) /\ Cardinality(StepsTo(n)) = n
<1>1. ASSUME NEW n \in Nat, NEW m, m = n + 1, C(n), NEW x, StepsTo(m) = StepsTo(n) \cup {x},
             x \notin StepsTo(n)
      PROVE  C(m)
  BY <1>1, FS_AddElement
<1>2. StepsTo(0) = {} /\ StepsTo(1) = StepsTo(0) \cup {"selectors"} /\ "selectors" \notin StepsTo(0)
      /\ StepsTo(2) = StepsTo(1) \cup {"log"} /\ "log" \notin StepsTo(1)
      /\ StepsTo(3) = StepsTo(2) \cup {"timer"} /\ "timer" \notin StepsTo(2)
      /\ StepsTo(4) = StepsTo(3) \cup {"s2"} /\ "s2" \notin StepsTo(3)
      /\ StepsTo(5) = StepsTo(4) \cup {"online"} /\ "online" \notin StepsTo(4)
      /\ StepsTo(6) = StepsTo(5) \cup {"netif"} /\ "netif" \notin StepsTo(5)
      /\ StepsTo(7) = StepsTo(6) \cup {"reads"} /\ "reads" \notin StepsTo(6)
      /\ StepsTo(8) = StepsTo(7) \cup {"port"} /\ "port" \notin StepsTo(7)
  BY StepSets
<1>3. C(0) BY <1>2, FS_EmptySet
<1> HIDE DEF C
<1>4. C(1) BY <1>1, <1>2, <1>3
<1>5. C(2) BY <1>1, <1>2, <1>4
<1>6. C(3) BY <1>1, <1>2, <1>5
<1>7. C(4) BY <1>1, <1>2, <1>6
<1>8. C(5) BY <1>1, <1>2, <1>7
<1>9. C(6) BY <1>1, <1>2, <1>8
<1>10. C(7) BY <1>1, <1>2, <1>9
<1>11. C(8) BY <1>1, <1>2, <1>10
<1>12. C(k) BY <1>3, <1>4, <1>5, <1>6, <1>7, <1>8, <1>9, <1>10, <1>11
<1> QED BY <1>12 DEF C

\* The step that follows the first k.
LEMMA StepAfter ==
    ASSUME NEW k \in 0..8, held = StepsTo(k)
    PROVE  NextStep = Steps[k + 1]
<1>1. Cardinality(held) = k BY StepCount
<1> QED BY <1>1 DEF NextStep

----------------------------------------------------------------------------
\* The steps of clients, tools and devices, and the daemon's while it serves,
\* change neither its phase nor what it holds.
LEMMA PhaseStays ==
    ASSUME \/ ServeMsg \/ PortEmpty \/ ServeRx \/ ServeTick
           \/ (\E c \in Clients : ClientNext(c)) \/ (\E t \in Tools : tn_ipc_oneshot(t))
           \/ Expunge \/ TimerFires \/ PacketArrives \/ CtrlC
    PROVE  UNCHANGED <<phase, held, public>>
<1>1. CASE ServeMsg BY <1>1 DEF ServeMsg, Unchanged_IPC
<1>2. CASE PortEmpty \/ ServeRx \/ ServeTick BY <1>2 DEF PortEmpty, ServeRx, ServeTick
<1>3. CASE \E c \in Clients : ClientNext(c)
  BY <1>3 DEF ClientNext, LibOpen, LibOpenSends, LibOpenFails, TakeSlot, LibCall, LibClose,
              LibCloseDone, TaskDies, Client_UNCHANGED
<1>4. CASE \E t \in Tools : tn_ipc_oneshot(t) BY <1>4 DEF tn_ipc_oneshot
<1>5. CASE Expunge \/ TimerFires \/ PacketArrives \/ CtrlC
  BY <1>5 DEF Expunge, TimerFires, PacketArrives, CtrlC, Outside_UNCHANGED
<1> QED BY <1>1, <1>2, <1>3, <1>4, <1>5

\* A failed start undoes exactly the steps it has done (the tn_fail labels).
LEMMA UnwindExact ==
    ASSUME NEW k \in 0..8, held = StepsTo(k), NextStep # "log"
    PROVE  held \ FailLabel(NextStep) = {}
<1>1. NextStep = Steps[k + 1] BY StepAfter
<1> USE StepList, StepSets DEF FailLabel, tn_fail_log, tn_fail_timer, tn_fail_s2, tn_fail_netif,
                               tn_fail_port
<1> HIDE DEF Steps, StepsTo
<1>2. CASE k = 0 BY <1>1, <1>2
<1>3. CASE k = 1 BY <1>1, <1>3
<1>4. CASE k = 2 BY <1>1, <1>4
<1>5. CASE k = 3 BY <1>1, <1>5
<1>6. CASE k = 4 BY <1>1, <1>6
<1>7. CASE k = 5 BY <1>1, <1>7
<1>8. CASE k = 6 BY <1>1, <1>8
<1>9. CASE k = 7 BY <1>1, <1>9
<1>10. CASE k = 8 BY <1>1, <1>10
<1> QED BY <1>2, <1>3, <1>4, <1>5, <1>6, <1>7, <1>8, <1>9, <1>10

\* One start-up step goes from the first k steps to the first k + 1, and makes
\* the port public exactly when it is the port's.
LEMMA StepDone ==
    ASSUME NEW k \in 0..8, held = StepsTo(k), NextStep # "lib"
    PROVE  /\ k + 1 \in 0..8 /\ held \cup {NextStep} = StepsTo(k + 1)
           /\ (NextStep = "port") = (k + 1 = 8)
<1>1. NextStep = Steps[k + 1] BY StepAfter
<1> HIDE DEF Steps, StepsTo
<1>2. k # 8 BY <1>1, StepList
<1>3. k + 1 \in 0..8 BY <1>2
<1>4. StepsTo(k + 1) = StepsTo(k) \cup {Steps[k + 1]}
  <2>1. 1..(k + 1) = (1..k) \cup {k + 1} OBVIOUS
  <2> QED BY <2>1 DEF StepsTo
<1>5. (NextStep = "port") = (k + 1 = 8)
  <2>1. k \in {0, 1, 2, 3, 4, 5, 6, 7} BY <1>2
  <2> QED BY <1>1, <2>1, StepList
<1> QED BY <1>1, <1>3, <1>4, <1>5

\* What is held at each phase.
LEMMA HeldKept == ASSUME LifeInv, [LifeNext]_lifevars PROVE HeldSound'
<1> USE DEF HeldSound, Up
<1>0. HeldSound /\ LifeTypeOK BY DEF LifeInv
<1>1. CASE UNCHANGED <<phase, held, public>> BY <1>0, <1>1 DEF StepsTo
<1>2. CASE Start
  <2>1. held' = StepsTo(0) /\ public' = FALSE /\ phase' = "start"
    BY <1>0, <1>2, StepSets DEF Start, LifeTypeOK
  <2>2. StepsTo(0)' = StepsTo(0) BY DEF StepsTo
  <2>3. (0 = 8) = FALSE OBVIOUS
  <2>4. held' = StepsTo(0)' /\ public' = (0 = 8) BY <2>1, <2>2, <2>3, Zenon
  <2>5. \E k \in 0..8 : held' = StepsTo(k)' /\ public' = (k = 8)
    <3>1. 0 \in 0..8 OBVIOUS
    <3> HIDE DEF StepsTo
    <3> QED BY <2>4, <3>1, Zenon
  <2> QED BY <2>1, <2>5
<1>3. CASE StartStep
  <2>1. PICK k \in 0..8 : held = StepsTo(k) BY <1>0, <1>3 DEF StartStep
  <2>2. /\ k + 1 \in 0..8 /\ held \cup {NextStep} = StepsTo(k + 1)
        /\ (NextStep = "port") = (k + 1 = 8)
    BY <1>3, <2>1, StepDone DEF StartStep
  <2>3. held' = StepsTo(k + 1) /\ public' = (k + 1 = 8) /\ phase' = "start"
    BY <1>3, <2>2 DEF StartStep
  <2>4. StepsTo(k + 1)' = StepsTo(k + 1) BY DEF StepsTo
  <2> QED BY <2>2, <2>3, <2>4
<1>4. CASE StartDone
  <2>1. PICK k \in 0..8 : held = StepsTo(k) /\ public = (k = 8) BY <1>0, <1>4 DEF StartDone
  <2>2. NextStep = Steps[k + 1] /\ NextStep = "lib" BY <1>4, <2>1, StepAfter DEF StartDone
  <2>3. k = 8
    <3>1. k + 1 \in {1, 2, 3, 4, 5, 6, 7, 8, 9} OBVIOUS
    <3>2. k + 1 = 9 BY <2>2, <3>1, StepList
    <3> QED BY <3>2
  <2> QED BY <1>4, <2>1, <2>3 DEF StartDone
<1>5. CASE StartFails
  <2>1. PICK k \in 0..8 : held = StepsTo(k) BY <1>0, <1>5 DEF StartFails
  <2>2. held' = {} BY <1>5, <2>1, UnwindExact DEF StartFails
  <2> QED BY <1>5, <2>2 DEF StartFails
<1>6. CASE Wakes \/ HandleBreak \/ LoopCheck \/ EnterShutdown \/ BackToService
  BY <1>0, <1>6 DEF Wakes, HandleBreak, LoopCheck, EnterShutdown, BackToService
<1>7. CASE PassGate BY <1>7 DEF PassGate, Gate
<1>8. CASE TearDown
  <2>1. held' \subseteq {"port", "selectors", "log"}
    <3>1. \A x \in held : \E i \in 1..9 : x = Steps[i] BY <1>0, StepList DEF LifeTypeOK
    <3>2. \A x \in held : x \in {"selectors", "log", "timer", "s2", "online", "netif", "reads",
                                 "port", "lib"}
      BY <3>1, StepList
    <3> QED BY <1>0, <1>8, <3>2 DEF TearDown
  <2> QED BY <1>0, <1>8, <2>1 DEF TearDown
<1>9. CASE ShutdownDone BY <1>0, <1>9 DEF ShutdownDone
<1> QED BY <1>1, <1>2, <1>3, <1>4, <1>5, <1>6, <1>7, <1>8, <1>9, PhaseStays
        DEF LifeNext, DaemonNext, lifevars

----------------------------------------------------------------------------
\* What the constants and the types give.
LEMMA Basics ==
    ASSUME LifeAssumption, LifeInv
    PROVE  /\ client \in [Clients -> ClientStates] /\ openCnt \in Nat /\ bases \subseteq Clients
           /\ IsFiniteSet(Clients) /\ NoOne \notin Clients /\ NoOne \notin Tools
           /\ Clients \cap Tools = {}
           /\ InUse \subseteq Clients /\ IsFiniteSet(InUse) /\ Cardinality(InUse) \in Nat
<1>1. /\ client \in [Clients -> ClientStates] /\ openCnt \in 0..Cardinality(Clients)
      /\ bases \subseteq Clients
  BY DEF LifeInv, LifeTypeOK
<1>2. IsFiniteSet(Clients) /\ NoOne \notin Clients /\ NoOne \notin Tools /\ Clients \cap Tools = {}
  BY DEF LifeAssumption
<1>3. InUse \subseteq Clients BY DEF InUse
<1>4. IsFiniteSet(InUse) BY <1>2, <1>3, FS_Subset
<1>5. Cardinality(InUse) \in Nat /\ Cardinality(Clients) \in Nat
  BY <1>2, <1>4, FS_CardinalityType
<1>6. openCnt \in Nat BY <1>1, <1>5
<1> QED BY <1>1, <1>2, <1>3, <1>4, <1>5, <1>6

\* A task that changes state without leaving the library is still counted.
LEMMA SameUse ==
    ASSUME LifeAssumption, LifeInv, NEW c \in Clients, NEW s \in ClientStates,
           client' = [client EXCEPT ![c] = s], client[c] # "out", s # "out"
    PROVE  InUse' = InUse
BY Basics DEF InUse

\* OpenLibrary counts one more, the end of a failed open or of a close one less.
LEMMA OneMoreOrLess ==
    ASSUME LifeAssumption, LifeInv, NEW c \in Clients, NEW s \in ClientStates,
           client' = [client EXCEPT ![c] = s]
    PROVE  /\ client[c] = "out" /\ s # "out" =>
                Cardinality(InUse)' = Cardinality(InUse) + 1
           /\ client[c] # "out" /\ s = "out" =>
                Cardinality(InUse)' = Cardinality(InUse) - 1
<1>1. ASSUME client[c] = "out", s # "out"
      PROVE  Cardinality(InUse)' = Cardinality(InUse) + 1
  <2>1. InUse' = InUse \cup {c} /\ c \notin InUse BY <1>1, Basics DEF InUse
  <2> QED BY <2>1, Basics, FS_AddElement
<1>2. ASSUME client[c] # "out", s = "out"
      PROVE  Cardinality(InUse)' = Cardinality(InUse) - 1
  <2>1. InUse' = InUse \ {c} /\ c \in InUse BY <1>2, Basics DEF InUse
  <2> QED BY <2>1, Basics, FS_RemoveElement
<1> QED BY <1>1, <1>2

\* The dead are in the library, and counted.
LEMMA DeadCounted ==
    ASSUME LifeAssumption, LifeInv
    PROVE  Cardinality(InUse \ Dead) = Cardinality(InUse) - Cardinality(Dead)
<1>1. Dead \subseteq InUse BY Basics DEF Dead, InUse
<1>2. IsFiniteSet(Dead) /\ Dead \cap InUse = Dead /\ InUse \cap Dead = Dead
  BY <1>1, Basics, FS_Subset
<1>3. IsFiniteSet(InUse) BY Basics
<1>4. Cardinality(InUse \ Dead) = Cardinality(InUse) - Cardinality(InUse \cap Dead)
  BY <1>3, FS_Difference
<1> QED BY <1>2, <1>4

\* The reap takes the dead off the count and out of the library together,
\* whichever answer another task that is in the library gets with it.
LEMMA ReapCounts ==
    ASSUME LifeAssumption, LifeInv, openCnt = Cardinality(InUse), NEW entered, NEW standing,
           ReapAnd(entered, standing),
           \A c \in Clients : standing[c] = "out" <=> client[c] = "out"
    PROVE  openCnt' = Cardinality(InUse)' /\ openCnt' \in Nat /\ InUse' \subseteq InUse
<1>2. InUse' = InUse \ Dead
  <2>1. \A c \in Clients : client'[c] = IF c \in Dead THEN "out" ELSE standing[c]
    BY DEF ReapAnd
  <2> QED BY <2>1 DEF InUse
<1>4. Cardinality(InUse \ Dead) = Cardinality(InUse) - Cardinality(Dead) BY DeadCounted
<1>5. openCnt' = openCnt - Cardinality(Dead) BY DEF ReapAnd, ReapedCnt
<1>6. IsFiniteSet(InUse \ Dead) BY Basics, FS_Difference
<1>7. Cardinality(InUse \ Dead) \in Nat BY <1>6, FS_CardinalityType
<1> QED BY <1>2, <1>4, <1>5, <1>7

\* The reap alone.
LEMMA ReapExact ==
    ASSUME LifeAssumption, LifeInv, tn_reap_dead_clients, openCnt = Cardinality(InUse)
    PROVE  openCnt' = Cardinality(InUse)' /\ openCnt' \in Nat /\ InUse' \subseteq InUse
BY ReapCounts DEF tn_reap_dead_clients

\* An answer leaves the task in the library: a message in the port, or the
\* parked one, is that of a call, and AfterReply says where the call goes on.
LEMMA AnswerStays ==
    ASSUME LifeAssumption, LifeInv, NEW c \in Clients, ReplyClient(c),
           client[c] \in {"opening", "calling", "closing", "dead"}
    PROVE  /\ client' = [client EXCEPT ![c] = AfterReply[client[c]]]
           /\ AfterReply[client[c]] = IF client[c] \in {"opening", "calling"} THEN "open"
                                      ELSE IF client[c] = "closing" THEN "leaving" ELSE "dead"
           /\ client' \in [Clients -> ClientStates] /\ InUse' = InUse
<1>1. client' = [client EXCEPT ![c] = AfterReply[client[c]]] BY Basics DEF ReplyClient
<1>2. AfterReply[client[c]] = IF client[c] \in {"opening", "calling"} THEN "open"
                              ELSE IF client[c] = "closing" THEN "leaving" ELSE "dead"
  BY DEF AfterReply
<1>3. AfterReply[client[c]] \in ClientStates /\ AfterReply[client[c]] # "out"
  BY <1>2 DEF ClientStates
<1>4. client' \in [Clients -> ClientStates] BY <1>1, <1>3, Basics
<1>5. InUse' = InUse BY <1>1, <1>3, SameUse
<1> QED BY <1>1, <1>2, <1>4, <1>5

\* The first message in the port and its sender.
LEMMA FirstMessage ==
    ASSUME LifeAssumption, LifeInv, queue # <<>>
    PROVE  /\ Head(queue) = queue[1] /\ 1 \in DOMAIN queue /\ queue[1] \in Messages
           /\ Tail(queue) \in Seq(Messages) /\ queue \in Seq(Messages)
           /\ queue[1][1] \in {"OPEN", "CLOSE", "RECV"} => queue[1][2] \in Clients
           /\ queue[1][1] \in {"STOP", "STATUS"} => queue[1][2] \in Tools
           /\ queue[1][2] \in Clients =>
                client[queue[1][2]] = IF queue[1][1] = "OPEN" THEN "opening"
                                      ELSE IF queue[1][1] = "CLOSE" THEN "closing" ELSE "calling"
<1>1. queue \in Seq(Messages) BY DEF LifeInv, LifeTypeOK
<1>2. /\ Head(queue) = queue[1] /\ 1 \in DOMAIN queue /\ queue[1] \in Messages
      /\ Tail(queue) \in Seq(Messages)
  BY <1>1
<1>3. \/ queue[1][1] \in {"OPEN", "CLOSE", "RECV"} /\ queue[1][2] \in Clients
      \/ queue[1][1] \in {"STOP", "STATUS"} /\ queue[1][2] \in Tools
  BY <1>2 DEF Messages
<1>4. queue[1][2] \in Clients => client[queue[1][2]] = InCall[queue[1][1]]
  BY <1>2 DEF LifeInv, CallsSound
<1>5. queue[1][2] \in Clients => queue[1][1] \in {"OPEN", "CLOSE", "RECV"} BY <1>3, Basics
<1> QED BY <1>1, <1>2, <1>3, <1>4, <1>5 DEF InCall

\* A packet or the tick answers the parked receive, or nobody.
LEMMA CompletionStays ==
    ASSUME LifeAssumption, LifeInv, MayComplete
    PROVE  client' \in [Clients -> ClientStates] /\ InUse' = InUse
<1>1. CASE UNCHANGED <<slotv, client>> BY <1>1, Basics DEF InUse
<1>2. CASE parked # NoOne /\ ReplyClient(parked)
  <2>1. parked \in Clients /\ client[parked] \in {"calling", "dead"}
    BY <1>2 DEF LifeInv, LifeTypeOK, CallsSound
  <2> QED BY <1>2, <2>1, AnswerStays
<1> QED BY <1>1, <1>2 DEF MayComplete

\* Serving a message keeps the open count exact: STOP may reap, and the other
\* commands leave their senders in the library.
LEMMA ServeCounts ==
    ASSUME LifeAssumption, LifeInv, ServeMsg
    PROVE  /\ phase = "awake" /\ openCnt' = Cardinality(InUse)'
           /\ client' \in [Clients -> ClientStates]
<1> DEFINE who == queue[1][2]
<1>1. phase = "awake" /\ queue # <<>> BY DEF ServeMsg, Serving
<1>2. openCnt = Cardinality(InUse) BY <1>1 DEF LifeInv, LibSound, Up
<1>3. /\ Head(queue) = queue[1]
      /\ queue[1][1] \in {"OPEN", "CLOSE", "RECV"} => who \in Clients
      /\ who \in Clients => client[who] \in {"opening", "closing", "calling"}
      /\ queue[1][1] = "OPEN" => client[who] = "opening"
  BY <1>1, FirstMessage
<1>4. ASSUME tn_reap_dead_clients PROVE client' \in [Clients -> ClientStates]
  BY <1>4, Basics DEF tn_reap_dead_clients, ReapAnd, ClientStates
<1>5. ASSUME UNCHANGED openCnt, InUse' = InUse PROVE openCnt' = Cardinality(InUse)'
  BY <1>2, <1>5
<1>6. CASE queue[1][1] = "STOP" /\ tn_ipc_cmd_stop(who)
  <2>1. CASE tn_reap_dead_clients BY <1>1, <1>2, <1>4, <2>1, ReapExact
  <2>2. CASE NoReap BY <1>1, <1>5, <2>2, Basics DEF NoReap, InUse
  <2> QED BY <1>6, <2>1, <2>2 DEF tn_ipc_cmd_stop
<1>7. CASE NoReap BY <1>1, <1>5, <1>7, Basics DEF NoReap, InUse
<1>8. CASE queue[1][1] = "OPEN" /\ ServeOpen(who)
  <2>1. CASE ReplyClient(who) /\ UNCHANGED openCnt
    BY <1>1, <1>3, <1>5, <1>8, <2>1, AnswerStays
  <2>2. ASSUME NEW s \in {"open", "refused"}, NEW entered,
               ReapAnd(entered, [client EXCEPT ![who] = s])
        PROVE  openCnt' = Cardinality(InUse)' /\ client' \in [Clients -> ClientStates]
    <3>1. PICK standing \in [Clients -> ClientStates] :
            standing = [client EXCEPT ![who] = s] /\ ReapAnd(entered, standing)
      BY <2>2, Basics DEF ClientStates
    <3>2. \A c \in Clients : standing[c] = "out" <=> client[c] = "out"
      BY <1>3, <1>8, <2>2, <3>1, Basics
    <3>3. openCnt' = Cardinality(InUse)' BY <1>2, <3>1, <3>2, ReapCounts
    <3>4. client' \in [Clients -> ClientStates] BY <3>1 DEF ReapAnd, ClientStates
    <3> QED BY <3>3, <3>4
  <2> QED BY <1>1, <1>8, <2>1, <2>2 DEF ServeOpen
<1>9. CASE queue[1][1] = "CLOSE" /\ ServeClose(who)
  BY <1>1, <1>3, <1>5, <1>9, AnswerStays DEF ServeClose
<1>10. CASE queue[1][1] = "RECV" /\ ServeRecv(who)
  <2>1. CASE ReplyClient(who)
    BY <1>1, <1>3, <1>5, <1>10, <2>1, AnswerStays DEF ServeRecv
  <2>2. CASE UNCHANGED client BY <1>1, <1>5, <1>10, <2>2, Basics DEF ServeRecv, InUse
  <2> QED BY <1>10, <2>1, <2>2 DEF ServeRecv
<1> QED BY <1>3, <1>6, <1>7, <1>8, <1>9, <1>10 DEF ServeMsg

\* A client's step counts it when it enters the library and when it leaves.
LEMMA ClientCounts ==
    ASSUME LifeAssumption, LifeInv, NEW c \in Clients, ClientNext(c)
    PROVE  /\ Up /\ openCnt' = Cardinality(InUse)' /\ client' \in [Clients -> ClientStates]
           /\ UNCHANGED <<phase, listed, stopping>>
           /\ openCnt' = openCnt \/ openCnt # 0 \/ listed
<1>1. UNCHANGED <<phase, listed, stopping>>
  BY DEF ClientNext, LibOpen, LibOpenSends, LibOpenFails, TakeSlot, LibCall, LibClose,
         LibCloseDone, TaskDies, Client_UNCHANGED
<1>2. Up
  <2>1. CASE client[c] = "out"
    <3>1. listed BY <2>1 DEF ClientNext, LibOpen, LibOpenSends, LibOpenFails, TakeSlot, LibCall,
                             LibClose, LibCloseDone, TaskDies
    <3> QED BY <3>1 DEF LifeInv, LibSound
  <2>2. CASE client[c] # "out" BY <2>2 DEF LifeInv, LibSound, InUse
  <2> QED BY <2>1, <2>2
<1>3. openCnt = Cardinality(InUse) BY <1>2 DEF LifeInv, LibSound
<1>4. CASE LibOpen(c)
  <2>1. "counted" \in ClientStates BY DEF ClientStates
  <2>2. Cardinality(InUse)' = Cardinality(InUse) + 1 BY <1>4, <2>1, OneMoreOrLess DEF LibOpen
  <2>3. client' \in [Clients -> ClientStates] BY <1>4, <2>1, Basics DEF LibOpen
  <2> QED BY <1>1, <1>2, <1>3, <1>4, <2>2, <2>3 DEF LibOpen
<1>5. CASE LibOpenFails(c) \/ LibCloseDone(c)
  <2>1. "out" \in ClientStates BY DEF ClientStates
  <2>2. /\ client' = [client EXCEPT ![c] = "out"] /\ client[c] # "out"
        /\ openCnt' = openCnt - 1
    BY <1>5 DEF LibOpenFails, LibCloseDone
  <2>3. Cardinality(InUse)' = Cardinality(InUse) - 1 BY <2>1, <2>2, OneMoreOrLess
  <2>4. client' \in [Clients -> ClientStates] BY <2>1, <2>2, Basics
  <2>5. openCnt # 0
    <3>1. c \in InUse BY <2>2 DEF InUse
    <3> QED BY <1>3, <3>1, Basics, FS_EmptySet
  <2> QED BY <1>1, <1>2, <1>3, <2>2, <2>3, <2>4, <2>5
<1>6. CASE LibOpenSends(c) \/ LibCall(c) \/ LibClose(c) \/ TaskDies(c)
  <2>1. PICK s \in ClientStates : client' = [client EXCEPT ![c] = s] /\ s # "out"
    BY <1>6 DEF LibOpenSends, LibCall, LibClose, TaskDies, ClientStates
  <2>2. client[c] # "out" /\ openCnt' = openCnt
    BY <1>6 DEF LibOpenSends, LibCall, LibClose, TaskDies
  <2>3. InUse' = InUse BY <2>1, <2>2, SameUse
  <2>4. client' \in [Clients -> ClientStates] BY <2>1, Basics
  <2> QED BY <1>1, <1>2, <1>3, <2>2, <2>3, <2>4
<1>7. CASE TakeSlot(c)
  BY <1>1, <1>2, <1>3, <1>7, Basics DEF TakeSlot, InUse
<1> QED BY <1>4, <1>5, <1>6, <1>7 DEF ClientNext

\* The library is listed, counted and in use only while the daemon is up.
LEMMA LibKept ==
    ASSUME LifeAssumption, LifeInv, [LifeNext]_lifevars
    PROVE  LibSound' /\ client' \in [Clients -> ClientStates]
<1>0. /\ LibSound /\ client \in [Clients -> ClientStates]
      /\ phase \in Phases /\ openCnt \in Nat
  BY Basics DEF LifeInv, LifeTypeOK
<1> USE DEF LibSound, Up, Phases
<1>1. ASSUME UNCHANGED client PROVE InUse' = InUse /\ client' \in [Clients -> ClientStates]
  BY <1>0, <1>1 DEF InUse
<1>2. CASE UNCHANGED <<phase, client, listed, stopping, openCnt>> BY <1>0, <1>1, <1>2
<1>3. CASE Start \/ StartStep \/ StartFails \/ Wakes \/ PortEmpty \/ LoopCheck
  BY <1>0, <1>1, <1>3 DEF Start, StartStep, StartFails, Wakes, PortEmpty, LoopCheck
<1>4. CASE StartDone
  <2>1. InUse = {} /\ openCnt' = 0 BY <1>0, <1>4 DEF StartDone
  <2> QED BY <1>0, <1>1, <1>4, <2>1, FS_EmptySet DEF StartDone
<1>5. CASE HandleBreak
  <2>1. openCnt' = Cardinality(InUse)' /\ client' \in [Clients -> ClientStates]
    <3>1. CASE tn_reap_dead_clients
      BY <1>0, <1>5, <3>1, ReapExact DEF HandleBreak, tn_reap_dead_clients, ReapAnd, ClientStates
    <3>2. CASE NoReap BY <1>0, <1>1, <1>5, <3>2 DEF NoReap, HandleBreak
    <3> QED BY <1>5, <3>1, <3>2 DEF HandleBreak
  <2> QED BY <1>0, <1>5, <2>1 DEF HandleBreak
<1>6. CASE ServeMsg BY <1>0, <1>6, ServeCounts DEF ServeMsg, Unchanged_IPC
<1>7. CASE ServeRx \/ ServeTick
  BY <1>0, <1>7, CompletionStays DEF ServeRx, ServeTick, Serving
<1>8. CASE EnterShutdown
  <2>1. openCnt' = Cardinality(InUse)' /\ client' \in [Clients -> ClientStates]
    BY <1>0, <1>8, ReapExact DEF EnterShutdown, tn_reap_dead_clients, ReapAnd, ClientStates
  <2> QED BY <1>0, <1>8, <2>1 DEF EnterShutdown
<1>9. CASE BackToService BY <1>0, <1>1, <1>9 DEF BackToService
<1>10. CASE PassGate
  <2>1. InUse = {} BY <1>0, <1>10, Basics, FS_EmptySet DEF PassGate, Gate
  <2> QED BY <1>0, <1>1, <1>10, <2>1 DEF PassGate, Gate
<1>11. CASE TearDown \/ ShutdownDone BY <1>0, <1>1, <1>11 DEF TearDown, ShutdownDone
<1>12. CASE \E c \in Clients : ClientNext(c)
  <2>1. PICK c \in Clients : ClientNext(c) BY <1>12
  <2> QED BY <1>0, <2>1, ClientCounts
<1>13. CASE Expunge BY <1>0, <1>1, <1>13 DEF Expunge, tn_lib_expunge
<1>14. CASE (\E t \in Tools : tn_ipc_oneshot(t)) \/ TimerFires \/ PacketArrives \/ CtrlC
  BY <1>2, <1>14 DEF tn_ipc_oneshot, TimerFires, PacketArrives, CtrlC, Outside_UNCHANGED
<1> QED BY <1>2, <1>3, <1>4, <1>5, <1>6, <1>7, <1>8, <1>9, <1>10, <1>11, <1>12, <1>13, <1>14
        DEF LifeNext, DaemonNext, lifevars

\* There are never more opens than tasks.
LEMMA CountBounded ==
    ASSUME LifeAssumption, LifeInv, [LifeNext]_lifevars
    PROVE  openCnt' \in 0..Cardinality(Clients)
<1>1. LibSound' BY LibKept
<1>2. CASE Up'
  <2>1. openCnt' = Cardinality(InUse)' BY <1>1, <1>2 DEF LibSound
  <2>2. InUse' \subseteq Clients BY DEF InUse
  <2>3. IsFiniteSet(InUse') /\ Cardinality(InUse') <= Cardinality(Clients)
    BY <2>2, Basics, FS_Subset
  <2>4. Cardinality(InUse') \in Nat /\ Cardinality(Clients) \in Nat
    BY <2>3, Basics, FS_CardinalityType
  <2> QED BY <2>1, <2>3, <2>4
<1>3. CASE ~Up'
  <2>1. openCnt \in 0..Cardinality(Clients) BY DEF LifeInv, LifeTypeOK
  <2> SUFFICES openCnt' = openCnt BY <2>1
  <2> USE DEF Up
  <2>2. CASE UNCHANGED lifevars BY <2>2 DEF lifevars
  <2>3. CASE DaemonNext \/ Start \/ StartFails
    BY <1>3, <2>3 DEF DaemonNext, Start, StartFails, StartStep, StartDone, Wakes, HandleBreak,
         ServeMsg, Unchanged_IPC, Serving, PortEmpty, ServeRx, ServeTick, LoopCheck,
         EnterShutdown, BackToService, PassGate, TearDown, ShutdownDone
  <2>4. ~\E c \in Clients : ClientNext(c) BY <1>3, ClientCounts
  <2>5. CASE \/ (\E t \in Tools : tn_ipc_oneshot(t)) \/ Expunge
             \/ TimerFires \/ PacketArrives \/ CtrlC
    BY <2>5 DEF tn_ipc_oneshot, Expunge, TimerFires, PacketArrives, CtrlC, Outside_UNCHANGED
  <2> QED BY <2>2, <2>3, <2>4, <2>5 DEF LifeNext
<1> QED BY <1>2, <1>3

----------------------------------------------------------------------------
\* A task that is in no call has no message in the port.
LEMMA QuietTask ==
    ASSUME LifeAssumption, LifeInv, NEW c \in Clients,
           client[c] \notin {"opening", "closing", "calling"}
    PROVE  \A i \in DOMAIN queue : queue[i][2] # c
<1>1. ASSUME NEW i \in DOMAIN queue, queue[i][2] = c PROVE FALSE
  <2>1. queue \in Seq(Messages) BY DEF LifeInv, LifeTypeOK
  <2>2. queue[i] \in Messages BY <2>1
  <2>3. queue[i][1] \in {"OPEN", "CLOSE", "RECV"} BY <1>1, <2>2, Basics DEF Messages
  <2>4. client[c] = InCall[queue[i][1]] BY <1>1 DEF LifeInv, CallsSound
  <2> QED BY <2>3, <2>4 DEF InCall
<1> QED BY <1>1

\* The rest of the port after its first message.
LEMMA RestOfPort ==
    ASSUME LifeAssumption, LifeInv, queue # <<>>, queue' = Tail(queue)
    PROVE  /\ queue' \in Seq(Messages)
           /\ \A i \in DOMAIN queue' : /\ i + 1 \in DOMAIN queue /\ queue'[i] = queue[i + 1]
                                       /\ queue[1][2] \in Clients => queue'[i][2] # queue[1][2]
           /\ \A i \in DOMAIN queue : i = 1 \/ (i - 1 \in DOMAIN queue' /\ queue'[i - 1] = queue[i])
<1>1. queue \in Seq(Messages) BY DEF LifeInv, LifeTypeOK
<1>2. /\ queue' \in Seq(Messages) /\ DOMAIN queue' = 1..(Len(queue) - 1)
      /\ DOMAIN queue = 1..Len(queue) /\ Len(queue) \in Nat
      /\ \A i \in DOMAIN queue' : queue'[i] = queue[i + 1]
  BY <1>1
<1>3. ASSUME NEW i \in DOMAIN queue'
      PROVE  /\ i + 1 \in DOMAIN queue /\ queue'[i] = queue[i + 1]
             /\ queue[1][2] \in Clients => queue'[i][2] # queue[1][2]
  <2>1. i + 1 \in DOMAIN queue /\ queue'[i] = queue[i + 1] /\ i + 1 # 1 BY <1>2
  <2>2. 1 \in DOMAIN queue BY <1>2, <2>1
  <2>3. queue[1][2] \in Clients /\ queue[1][2] = queue[i + 1][2] => 1 = i + 1
    BY <2>1, <2>2 DEF LifeInv, CallsSound
  <2> QED BY <2>1, <2>3
<1>4. ASSUME NEW i \in DOMAIN queue, i # 1 PROVE i - 1 \in DOMAIN queue' /\ queue'[i - 1] = queue[i]
  <2>1. i - 1 \in DOMAIN queue' BY <1>2, <1>4
  <2>2. (i - 1) + 1 = i BY <1>2
  <2> QED BY <1>2, <2>1, <2>2
<1> QED BY <1>2, <1>3, <1>4

\* A message sent by a task, or by a tool, that has none in the port.
LEMMA MoreInPort ==
    ASSUME LifeAssumption, LifeInv, NEW m \in Messages, queue' = Append(queue, m)
    PROVE  /\ queue' \in Seq(Messages)
           /\ \A i \in DOMAIN queue' : \/ i \in DOMAIN queue /\ queue'[i] = queue[i]
                                       \/ i = Len(queue) + 1 /\ queue'[i] = m
           /\ \A i \in DOMAIN queue : i \in DOMAIN queue' /\ queue'[i] = queue[i]
           /\ Len(queue) + 1 \in DOMAIN queue' /\ queue'[Len(queue) + 1] = m
<1>1. queue \in Seq(Messages) BY DEF LifeInv, LifeTypeOK
<1> QED BY <1>1

\* The port and the slot are as they were, or emptied, and no task that had a
\* message or was parked has changed.
LEMMA CallsQuiet ==
    ASSUME LifeAssumption, LifeInv, queue' \in {queue, <<>>}, parked' \in {parked, NoOne},
           \A i \in DOMAIN queue' : queue[i][2] \in Clients =>
                client'[queue[i][2]] = client[queue[i][2]],
           parked' # NoOne => client'[parked] = client[parked],
           \A c \in Clients : client'[c] \in {"open", "calling", "closing", "dead"} => c \in bases'
    PROVE  CallsSound'
<1>1. CallsSound BY DEF LifeInv
<1>2. CASE queue' = queue BY <1>1, <1>2 DEF CallsSound, InCall
<1>3. CASE queue' = <<>>
  <2>1. DOMAIN queue' = {} BY <1>3
  <2> QED BY <1>1, <2>1 DEF CallsSound
<1> QED BY <1>2, <1>3

\* The reap touches nobody who has a message, and unparks the dead.
LEMMA ReapCalls ==
    ASSUME LifeAssumption, LifeInv, tn_reap_dead_clients
    PROVE  /\ \A i \in DOMAIN queue : queue[i][2] \in Clients =>
                client'[queue[i][2]] = client[queue[i][2]]
           /\ parked' \in {parked, NoOne}
           /\ parked' # NoOne => client'[parked] = client[parked]
           /\ \A c \in Clients :
                client'[c] \in {"open", "calling", "closing", "dead"} => c \in bases'
<1>1. CallsSound /\ client \in [Clients -> ClientStates] BY Basics DEF LifeInv
<1>2. \A c \in Clients : client'[c] = IF c \in Dead THEN "out" ELSE client[c]
  BY DEF tn_reap_dead_clients, ReapAnd
<1>3. ASSUME NEW i \in DOMAIN queue, queue[i][2] \in Clients
      PROVE  client'[queue[i][2]] = client[queue[i][2]]
  <2>1. queue[i][2] \notin Dead BY <1>3, QuietTask DEF Dead
  <2> QED BY <1>2, <1>3, <2>1
<1>4. ASSUME parked' # NoOne PROVE parked' = parked /\ client'[parked] = client[parked]
  <2>1. parked' = parked /\ parked \notin Dead BY <1>4 DEF tn_reap_dead_clients, ReapAnd
  <2>2. parked \in Clients BY <1>4, <2>1 DEF LifeInv, LifeTypeOK
  <2> QED BY <1>2, <2>1, <2>2
<1>5. ASSUME NEW c \in Clients, client'[c] \in {"open", "calling", "closing", "dead"}
      PROVE  c \in bases'
  <2>1. c \notin Dead /\ client'[c] = client[c] BY <1>2, <1>5
  <2>2. c \in bases BY <1>1, <1>5, <2>1 DEF CallsSound
  <2> QED BY <2>1, <2>2 DEF tn_reap_dead_clients, ReapAnd
<1>6. parked' \in {parked, NoOne} BY DEF tn_reap_dead_clients, ReapAnd
<1> QED BY <1>3, <1>4, <1>5, <1>6

\* The first message is served, and nobody whose message is behind it changes.
LEMMA CallsServed ==
    ASSUME LifeAssumption, LifeInv, queue # <<>>, queue' = Tail(queue),
           \A i \in DOMAIN queue' : queue'[i][2] \in Clients =>
                client'[queue'[i][2]] = client[queue'[i][2]],
           parked' # NoOne => /\ client'[parked'] \in {"calling", "dead"}
                              /\ parked' = parked \/ parked' = queue[1][2],
           parked' \in Clients \cup {NoOne},
           \A c \in Clients : client'[c] \in {"open", "calling", "closing", "dead"} => c \in bases'
    PROVE  CallsSound'
<1>1. CallsSound BY DEF LifeInv
<1>2. \A i \in DOMAIN queue' : /\ i + 1 \in DOMAIN queue /\ queue'[i] = queue[i + 1] /\ i \in Nat
                               /\ queue[1][2] \in Clients => queue'[i][2] # queue[1][2]
  <2>1. queue' \in Seq(Messages) BY RestOfPort
  <2>2. \A i \in DOMAIN queue' : i \in Nat BY <2>1
  <2> QED BY <2>2, RestOfPort
<1>3. \A i \in DOMAIN queue' : queue'[i][2] \in Clients =>
          client'[queue'[i][2]] = InCall[queue'[i][1]]
  BY <1>1, <1>2 DEF CallsSound
<1>4. \A i, j \in DOMAIN queue' :
          queue'[i][2] \in Clients /\ queue'[i][2] = queue'[j][2] => i = j
  <2>1. SUFFICES ASSUME NEW i \in DOMAIN queue', NEW j \in DOMAIN queue',
                        queue'[i][2] \in Clients, queue'[i][2] = queue'[j][2]
                 PROVE  i = j
    OBVIOUS
  <2>2. i + 1 = j + 1 BY <1>1, <1>2, <2>1 DEF CallsSound
  <2> QED BY <1>2, <2>2
<1>5. parked' # NoOne => \A i \in DOMAIN queue' : queue'[i][2] # parked'
  <2>1. CASE parked' = parked /\ parked # NoOne BY <1>1, <1>2, <2>1 DEF CallsSound
  <2>2. CASE parked' = queue[1][2] /\ parked' # NoOne BY <1>2, <2>2
  <2> QED BY <2>1, <2>2
<1>6. InCall' = InCall BY DEF InCall
<1> QED BY <1>3, <1>4, <1>5, <1>6 DEF CallsSound

\* Serving one message keeps the others' (ServeMsg).
LEMMA ServeCalls == ASSUME LifeAssumption, LifeInv, ServeMsg PROVE CallsSound'
<1> DEFINE who == queue[1][2]
<1>1. queue # <<>> /\ queue' = Tail(queue) BY DEF ServeMsg
<1>2. /\ Head(queue) = queue[1]
      /\ queue[1][1] \in {"OPEN", "CLOSE", "RECV"} => who \in Clients
      /\ queue[1][1] \in {"STOP", "STATUS"} => who \in Tools
      /\ who \in Clients =>
           client[who] = IF queue[1][1] = "OPEN" THEN "opening"
                         ELSE IF queue[1][1] = "CLOSE" THEN "closing" ELSE "calling"
      /\ 1 \in DOMAIN queue
  BY <1>1, FirstMessage
<1>3. \A i \in DOMAIN queue' : /\ i + 1 \in DOMAIN queue /\ queue'[i] = queue[i + 1]
                               /\ who \in Clients => queue'[i][2] # who
  BY <1>1, RestOfPort
<1>4. /\ parked \in Clients \cup {NoOne} /\ client \in [Clients -> ClientStates]
      /\ parked # NoOne => client[parked] \in {"calling", "dead"} /\ parked # who
      /\ \A c \in Clients : client[c] \in {"open", "calling", "closing", "dead"} => c \in bases
  BY <1>2 DEF LifeInv, LifeTypeOK, CallsSound
<1> DEFINE others == \A i \in DOMAIN queue' : queue'[i][2] \in Clients =>
                         client'[queue'[i][2]] = client[queue'[i][2]]
<1>5. CASE tn_reap_dead_clients
  <2>1. others BY <1>3, <1>5, ReapCalls
  <2> QED BY <1>1, <1>4, <1>5, <2>1, ReapCalls, CallsServed
<1>6. CASE NoReap
  BY <1>1, <1>4, <1>6, CallsServed DEF NoReap, slotv
<1>7. CASE queue[1][1] = "OPEN" /\ ServeOpen(who)
  <2>2. CASE ReplyClient(who) /\ bases' = bases \cup {who} /\ UNCHANGED slotv
    <3>0. parked' = parked BY <2>2 DEF slotv
    <3>1. client' = [client EXCEPT ![who] = "open"] BY <1>2, <1>7, <2>2, AnswerStays
    <3>2. others BY <1>2, <1>3, <1>4, <1>7, <3>1
    <3>3. parked' # NoOne => client'[parked'] \in {"calling", "dead"} BY <1>4, <3>0, <3>1
    <3>4. \A c \in Clients : client'[c] \in {"open", "calling", "closing", "dead"} => c \in bases'
      BY <1>4, <2>2, <3>1
    <3> QED BY <1>1, <1>4, <3>0, <3>2, <3>3, <3>4, CallsServed
  <2>3. ASSUME NEW s \in {"open", "refused"}, NEW entered, s = "open" => who \in entered,
               ReapAnd(entered, [client EXCEPT ![who] = s])
        PROVE  CallsSound'
    <3>1. /\ \A c \in Clients : client'[c] = IF c \in Dead THEN "out"
                                             ELSE IF c = who THEN s ELSE client[c]
          /\ bases' = (bases \ Dead) \cup entered
          /\ parked' = IF owner \in Dead \/ parked \in Dead THEN NoOne ELSE parked
      BY <1>4, <2>3 DEF ReapAnd
    <3>2. \A i \in DOMAIN queue' : queue'[i][2] \in Clients => queue'[i][2] \notin Dead
      BY <1>3, QuietTask DEF Dead
    <3> HIDE DEF Dead
    <3>3. others BY <1>2, <1>3, <1>7, <3>1, <3>2
    <3>4. parked' # NoOne => /\ client'[parked'] \in {"calling", "dead"} /\ parked' = parked
      BY <1>4, <3>1
    <3>5. \A c \in Clients : client'[c] \in {"open", "calling", "closing", "dead"} => c \in bases'
      BY <1>4, <2>3, <3>1
    <3>6. parked' \in Clients \cup {NoOne} BY <1>4, <3>1
    <3> QED BY <1>1, <3>3, <3>4, <3>5, <3>6, CallsServed
  <2> QED BY <1>7, <2>2, <2>3 DEF ServeOpen
<1>8. CASE queue[1][1] = "CLOSE" /\ ServeClose(who)
  <2>1. parked' = parked BY <1>2, <1>4, <1>8, Basics DEF ServeClose
  <2>2. bases' = bases \ {who} BY <1>8 DEF ServeClose
  <2>3. client' = [client EXCEPT ![who] = "leaving"] BY <1>2, <1>8, AnswerStays DEF ServeClose
  <2>4. others BY <1>2, <1>3, <1>4, <1>8, <2>3
  <2>5. parked' # NoOne => client'[parked'] \in {"calling", "dead"} BY <1>4, <2>1, <2>3
  <2>6. \A c \in Clients : client'[c] \in {"open", "calling", "closing", "dead"} => c \in bases'
    BY <1>4, <2>2, <2>3
  <2> QED BY <1>1, <1>4, <2>1, <2>4, <2>5, <2>6, CallsServed
<1>9. CASE queue[1][1] = "RECV" /\ ServeRecv(who)
  <2>1. bases' = bases BY <1>9 DEF ServeRecv
  <2>2. CASE ReplyClient(who) /\ UNCHANGED parked
    <3>1. client' = [client EXCEPT ![who] = "open"] BY <1>2, <1>9, <2>2, AnswerStays
    <3>2. others BY <1>2, <1>3, <1>4, <1>9, <3>1
    <3>3. parked' # NoOne => client'[parked'] \in {"calling", "dead"} BY <1>4, <2>2, <3>1
    <3>4. \A c \in Clients : client'[c] \in {"open", "calling", "closing", "dead"} => c \in bases'
      BY <1>2, <1>4, <1>9, <2>1, <3>1
    <3> QED BY <1>1, <1>4, <2>2, <3>2, <3>3, <3>4, CallsServed
  <2>3. CASE parked' = who /\ UNCHANGED client
    <3>1. client[who] = "calling" /\ who \in Clients BY <1>2, <1>9
    <3> QED BY <1>1, <1>4, <2>1, <2>3, <3>1, CallsServed
  <2> QED BY <1>9, <2>2, <2>3 DEF ServeRecv
<1> QED BY <1>2, <1>5, <1>6, <1>7, <1>8, <1>9 DEF ServeMsg, tn_ipc_cmd_stop

\* A task sends the message of the call it enters.
LEMMA SendCalls ==
    ASSUME LifeAssumption, LifeInv, NEW c \in Clients, NEW cmd \in {"OPEN", "CLOSE", "RECV"},
           client[c] = IF cmd = "OPEN" THEN "counted" ELSE "open",
           queue' = Append(queue, <<cmd, c>>), client' = [client EXCEPT ![c] = InCall[cmd]],
           UNCHANGED <<parked, bases>>
    PROVE  CallsSound'
<1>1. CallsSound /\ client \in [Clients -> ClientStates] BY Basics DEF LifeInv
<1>2. <<cmd, c>> \in Messages BY DEF Messages
<1>3. \A i \in DOMAIN queue' : \/ i \in DOMAIN queue /\ queue'[i] = queue[i]
                               \/ i = Len(queue) + 1 /\ queue'[i] = <<cmd, c>>
  BY <1>2, MoreInPort
<1>4. \A i \in DOMAIN queue : queue[i][2] # c BY QuietTask
<1>5. InCall[cmd] = (IF cmd = "OPEN" THEN "opening" ELSE IF cmd = "CLOSE" THEN "closing"
                     ELSE "calling")
  BY DEF InCall
<1>6. \A i \in DOMAIN queue' : queue'[i][2] \in Clients =>
          client'[queue'[i][2]] = InCall[queue'[i][1]]
  <2>1. SUFFICES ASSUME NEW i \in DOMAIN queue', queue'[i][2] \in Clients
                 PROVE  client'[queue'[i][2]] = InCall[queue'[i][1]]
    OBVIOUS
  <2>2. CASE i \in DOMAIN queue /\ queue'[i] = queue[i] BY <1>1, <1>4, <2>1, <2>2 DEF CallsSound
  <2>3. CASE queue'[i] = <<cmd, c>> BY <1>1, <2>3
  <2> QED BY <1>3, <2>2, <2>3
<1>7. \A i, j \in DOMAIN queue' :
          queue'[i][2] \in Clients /\ queue'[i][2] = queue'[j][2] => i = j
  BY <1>1, <1>3, <1>4 DEF CallsSound
<1>8. parked # NoOne => /\ parked # c /\ client'[parked] \in {"calling", "dead"}
                        /\ \A i \in DOMAIN queue' : queue'[i][2] # parked
  BY <1>1, <1>3 DEF CallsSound
<1>9. \A d \in Clients : client'[d] \in {"open", "calling", "closing", "dead"} => d \in bases
  BY <1>1, <1>5 DEF CallsSound
<1>10. InCall' = InCall BY DEF InCall
<1> QED BY <1>6, <1>7, <1>8, <1>9, <1>10 DEF CallsSound

\* A client's step keeps what is said of the calls.
LEMMA ClientCalls ==
    ASSUME LifeAssumption, LifeInv, NEW c \in Clients, ClientNext(c) PROVE CallsSound'
<1>1. CallsSound /\ client \in [Clients -> ClientStates] BY Basics DEF LifeInv
<1>2. UNCHANGED bases
  BY DEF ClientNext, LibOpen, LibOpenSends, LibOpenFails, TakeSlot, LibCall, LibClose,
         LibCloseDone, TaskDies, Client_UNCHANGED
<1>3. CASE LibOpenSends(c) \/ LibCall(c) \/ LibClose(c)
  <2>1. /\ InCall["OPEN"] = "opening" /\ InCall["CLOSE"] = "closing" /\ InCall["RECV"] = "calling"
    BY DEF InCall
  <2>2. UNCHANGED parked BY <1>3 DEF LibOpenSends, LibCall, LibClose, slotv
  <2>3. CASE LibOpenSends(c)
    BY <1>2, <2>1, <2>2, <2>3, SendCalls DEF LibOpenSends, Send
  <2>4. CASE LibCall(c) BY <1>2, <2>1, <2>2, <2>4, SendCalls DEF LibCall, Send
  <2>5. CASE LibClose(c) BY <1>2, <2>1, <2>2, <2>5, SendCalls DEF LibClose, Send
  <2> QED BY <1>3, <2>3, <2>4, <2>5
<1>4. ASSUME NEW s, client' = [client EXCEPT ![c] = s], \A i \in DOMAIN queue : queue[i][2] # c,
             UNCHANGED <<queue, parked>>, parked # c \/ s = "dead",
             s \in {"open", "calling", "closing", "dead"} => c \in bases
      PROVE  CallsSound'
  BY <1>1, <1>2, <1>4 DEF CallsSound, InCall
<1>5. client[c] \notin {"calling", "dead"} => parked # c BY <1>1, Basics DEF CallsSound
<1>6. CASE LibOpen(c) \/ LibOpenFails(c) \/ LibCloseDone(c)
  <2>1. PICK s \in {"counted", "out"} : client' = [client EXCEPT ![c] = s]
    BY <1>6 DEF LibOpen, LibOpenFails, LibCloseDone
  <2>2. UNCHANGED <<queue, parked>> /\ client[c] \in {"out", "counted", "refused", "leaving"}
    BY <1>6 DEF LibOpen, LibOpenFails, LibCloseDone, slotv
  <2>3. \A i \in DOMAIN queue : queue[i][2] # c BY <2>2, QuietTask
  <2> QED BY <1>4, <1>5, <2>1, <2>2, <2>3
<1>7. CASE TaskDies(c)
  <2>1. UNCHANGED <<queue, parked>> /\ client' = [client EXCEPT ![c] = "dead"]
    BY <1>7 DEF TaskDies, slotv
  <2>2. \A i \in DOMAIN queue : queue[i][2] # c
    <3>1. CASE client[c] = "open" BY <3>1, QuietTask
    <3>2. CASE parked = c BY <1>1, <3>2, Basics DEF CallsSound
    <3> QED BY <1>7, <3>1, <3>2 DEF TaskDies
  <2>3. c \in bases BY <1>1, <1>7 DEF TaskDies, CallsSound
  <2> QED BY <1>4, <2>1, <2>2, <2>3
<1>8. CASE TakeSlot(c) BY <1>1, <1>2, <1>8 DEF TakeSlot, CallsSound, InCall
<1> QED BY <1>3, <1>6, <1>7, <1>8 DEF ClientNext

\* A client has one message at most, and a base from its open to its close.
LEMMA CallsKept ==
    ASSUME LifeAssumption, LifeInv, [LifeNext]_lifevars PROVE CallsSound'
<1>0. CallsSound /\ client \in [Clients -> ClientStates] BY Basics DEF LifeInv
<1>1. CASE UNCHANGED <<queue, client, parked, bases>> BY <1>0, <1>1 DEF CallsSound, InCall
<1>2. CASE UNCHANGED <<queue, client, bases>> /\ parked' = NoOne
  BY <1>0, <1>2 DEF CallsSound, InCall
<1>3. CASE StartFails \/ PassGate
  <2>1. queue' = <<>> /\ UNCHANGED <<client, parked, bases>>
    BY <1>3 DEF StartFails, PassGate, DrainPort, slotv
  <2>2. DOMAIN queue' = {} BY <2>1
  <2> QED BY <1>0, <2>1, <2>2 DEF CallsSound, InCall
<1>4. CASE queue' = queue /\ tn_reap_dead_clients
  BY <1>4, ReapCalls, CallsQuiet
<1>5. CASE HandleBreak
  <2>1. queue' = queue BY <1>5 DEF HandleBreak
  <2>2. CASE NoReap BY <1>1, <2>1, <2>2 DEF NoReap, slotv
  <2> QED BY <1>4, <1>5, <2>1, <2>2 DEF HandleBreak
<1>6. CASE EnterShutdown BY <1>4, <1>6 DEF EnterShutdown
<1>7. CASE ServeMsg BY <1>7, ServeCalls
<1>8. CASE ServeRx \/ ServeTick
  <2>1. UNCHANGED <<queue, bases>> /\ MayComplete BY <1>8 DEF ServeRx, ServeTick
  <2>2. CASE UNCHANGED <<slotv, client>> BY <1>1, <2>1, <2>2 DEF slotv
  <2>3. CASE parked # NoOne /\ ReplyClient(parked) /\ parked' = NoOne
    <3>1. /\ parked \in Clients /\ client[parked] \in {"calling", "dead"}
          /\ \A i \in DOMAIN queue : queue[i][2] # parked
      BY <1>0, <2>3 DEF LifeInv, LifeTypeOK, CallsSound
    <3>2. client' = [client EXCEPT ![parked] = AfterReply[client[parked]]]
      BY <2>3, <3>1, AnswerStays
    <3>3. parked \in bases BY <1>0, <3>1 DEF CallsSound
    <3> QED BY <1>0, <2>1, <2>3, <3>1, <3>2, <3>3 DEF CallsSound, InCall
  <2> QED BY <2>1, <2>2, <2>3 DEF MayComplete
<1>9. CASE \/ Start \/ StartStep \/ StartDone \/ Wakes \/ PortEmpty \/ LoopCheck \/ BackToService
           \/ ShutdownDone
  BY <1>1, <1>9 DEF Start, StartStep, StartDone, Wakes, PortEmpty, LoopCheck, BackToService,
                    ShutdownDone, slotv
<1>10. CASE TearDown BY <1>2, <1>10 DEF TearDown
<1>11. CASE \E c \in Clients : ClientNext(c) BY <1>11, ClientCalls
<1>12. CASE \E t \in Tools : tn_ipc_oneshot(t)
  <2>1. PICK t \in Tools : tn_ipc_oneshot(t) BY <1>12
  <2>2. UNCHANGED <<client, parked, bases>> BY <2>1 DEF tn_ipc_oneshot, slotv
  <2>3. CASE UNCHANGED queue BY <1>1, <2>2, <2>3
  <2>4. CASE \E cmd \in {"STOP", "STATUS"} : Send(<<cmd, t>>)
    <3>1. PICK cmd \in {"STOP", "STATUS"} : queue' = Append(queue, <<cmd, t>>)
      BY <2>4 DEF Send
    <3>2. <<cmd, t>> \in Messages BY DEF Messages
    <3>3. \A i \in DOMAIN queue' : \/ i \in DOMAIN queue /\ queue'[i] = queue[i]
                                   \/ queue'[i] = <<cmd, t>>
      BY <3>1, <3>2, MoreInPort
    <3>4. t \notin Clients /\ (parked # NoOne => parked # t)
      BY Basics DEF LifeInv, LifeTypeOK
    <3>5. \A i \in DOMAIN queue' : queue'[i][2] \in Clients =>
             i \in DOMAIN queue /\ queue'[i] = queue[i]
      BY <3>3, <3>4
    <3> QED BY <1>0, <2>2, <3>3, <3>4, <3>5 DEF CallsSound, InCall
  <2> QED BY <2>1, <2>3, <2>4 DEF tn_ipc_oneshot
<1>13. CASE Expunge \/ TimerFires \/ PacketArrives \/ CtrlC
  BY <1>1, <1>13 DEF Expunge, TimerFires, PacketArrives, CtrlC, Outside_UNCHANGED, slotv
<1> QED BY <1>1, <1>3, <1>5, <1>6, <1>7, <1>8, <1>9, <1>10, <1>11, <1>12, <1>13
        DEF LifeNext, DaemonNext, lifevars, slotv

----------------------------------------------------------------------------
\* What is in the port or in a read request is announced, and the tick lives.
LEMMA SignalsKept ==
    ASSUME LifeAssumption, LifeInv, [LifeNext]_lifevars PROVE SignalsSound'
<1>0. /\ SignalsSound /\ phase \in Phases /\ rx \in 0..Reads /\ Reads \in Nat
      /\ got \subseteq Signals /\ HeldSound
  BY DEF LifeInv, LifeTypeOK, LifeAssumption
<1> USE DEF SignalsSound
<1>1. CASE UNCHANGED <<phase, queue, pend, got, timev, rx, discarded>>
  BY <1>0, <1>1 DEF timev
<1>2. CASE Start \/ StartStep \/ StartDone
  BY <1>0, <1>2 DEF Start, StartStep, StartDone, timev
<1>3. CASE StartFails BY <1>0, <1>3 DEF StartFails, DrainPort
<1>4. CASE Wakes BY <1>0, <1>4 DEF Wakes, timev
<1>5. CASE HandleBreak BY <1>0, <1>5 DEF HandleBreak, timev
<1>6. CASE ServeMsg
  <2>1. /\ phase = "awake" /\ "ipc" \in got
        /\ UNCHANGED <<phase, pend, got, timer, armed, rx, discarded>>
    BY <1>6 DEF ServeMsg, Serving, Unchanged_IPC, timev
  <2> QED BY <1>0, <2>1
<1>7. CASE PortEmpty BY <1>0, <1>7 DEF PortEmpty, Serving, timev
<1>8. CASE ServeRx BY <1>0, <1>8 DEF ServeRx, Serving, timev
<1>9. CASE ServeTick
  <2>1. got \subseteq {"timer"} BY <1>0, <1>9 DEF ServeTick, Serving, Signals
  <2> QED BY <1>0, <1>9, <2>1 DEF ServeTick, Serving
<1>10. CASE LoopCheck \/ EnterShutdown BY <1>0, <1>10 DEF LoopCheck, EnterShutdown, timev
<1>11. CASE BackToService BY <1>0, <1>11 DEF BackToService, NormaliseTimer
<1>12. CASE PassGate BY <1>0, <1>12 DEF PassGate, Gate, DrainPort, timev
<1>13. CASE TearDown \/ ShutdownDone BY <1>0, <1>13 DEF TearDown, ShutdownDone, timev
<1>14. CASE \E c \in Clients : ClientNext(c)
  <2>1. PICK c \in Clients : ClientNext(c) BY <1>14
  <2>2. Up BY <2>1, ClientCounts
  <2>3. UNCHANGED <<phase, got, timer, armed, rx, discarded>>
    BY <2>1 DEF ClientNext, LibOpen, LibOpenSends, LibOpenFails, TakeSlot, LibCall, LibClose,
                LibCloseDone, TaskDies, Client_UNCHANGED, timev
  <2>4. UNCHANGED <<queue, pend>> \/ pend' = pend \cup {"ipc"}
    BY <2>1 DEF ClientNext, LibOpen, LibOpenSends, LibOpenFails, TakeSlot, LibCall, LibClose,
                LibCloseDone, TaskDies, Send
  <2> QED BY <1>0, <2>2, <2>3, <2>4 DEF Up
<1>15. CASE \E t \in Tools : tn_ipc_oneshot(t)
  <2>1. UNCHANGED <<phase, got, timer, armed, rx, discarded>>
    BY <1>15 DEF tn_ipc_oneshot, timev
  <2>2. UNCHANGED <<queue, pend>> \/ (pend' = pend \cup {"ipc"} /\ public)
    BY <1>15 DEF tn_ipc_oneshot, Send
  <2>3. public => phase \notin {"off", "down", "free"} BY <1>0 DEF HeldSound
  <2> QED BY <1>0, <2>1, <2>2, <2>3
<1>16. CASE Expunge \/ CtrlC
  BY <1>0, <1>16 DEF Expunge, CtrlC, Raise, Outside_UNCHANGED, timev
<1>17. CASE TimerFires BY <1>0, <1>17 DEF TimerFires, Raise, Outside_UNCHANGED
<1>18. CASE PacketArrives
  <2>1. phase \notin {"off", "start", "free"} BY <1>0, <1>18 DEF PacketArrives, HeldSound
  <2> QED BY <1>0, <1>18, <2>1 DEF PacketArrives, Raise, Outside_UNCHANGED
<1> QED BY <1>1, <1>2, <1>3, <1>4, <1>5, <1>6, <1>7, <1>8, <1>9, <1>10, <1>11, <1>12, <1>13,
           <1>14, <1>15, <1>16, <1>17, <1>18
        DEF LifeNext, DaemonNext, lifevars, timev

----------------------------------------------------------------------------
\* Serving a message answers its sender, or keeps it as the STOP.
LEMMA ServeStops ==
    ASSUME LifeAssumption, LifeInv, ServeMsg
    PROVE  StopSound' /\ tool' \in [Tools -> ToolStates] /\ stopMsg' \in Tools \cup {NoOne}
<1> DEFINE who == queue[1][2]
<1>1. queue # <<>> /\ queue' = Tail(queue) /\ phase = "awake" /\ phase' = "awake"
  BY DEF ServeMsg, Serving, Unchanged_IPC
<1>2. /\ Head(queue) = queue[1]
      /\ queue[1][1] \in {"OPEN", "CLOSE", "RECV"} => who \in Clients
      /\ queue[1][1] \in {"STOP", "STATUS"} => who \in Tools
  BY <1>1, FirstMessage
<1>3. \A i \in DOMAIN queue : i = 1 \/ (i - 1 \in DOMAIN queue' /\ queue'[i - 1] = queue[i])
  BY <1>1, RestOfPort
<1>4. StopSound /\ tool \in [Tools -> ToolStates] /\ stopMsg \in Tools \cup {NoOne}
  BY DEF LifeInv, LifeTypeOK
<1>5. \A t \in Tools : tool[t] = "waiting" /\ t # who =>
          stopMsg = t \/ \E i \in DOMAIN queue' : queue'[i][2] = t
  BY <1>3, <1>4 DEF StopSound
<1>6. CASE who \in Tools /\ ReplyTool(who, "idle") /\ UNCHANGED <<stopMsg, running>>
  BY <1>1, <1>4, <1>5, <1>6 DEF ReplyTool, StopSound, ToolStates
<1>7. CASE who \in Tools /\ stopMsg = NoOne /\ stopMsg' = who /\ running' = FALSE /\ UNCHANGED tool
  <2>1. NoOne \notin Tools BY Basics
  <2> QED BY <1>1, <1>4, <1>5, <1>7, <2>1 DEF StopSound
<1>8. CASE who \in Clients /\ UNCHANGED <<tool, stopMsg, running>>
  <2>1. who \notin Tools BY <1>8, Basics
  <2> QED BY <1>1, <1>4, <1>5, <1>8, <2>1 DEF StopSound
<1> QED BY <1>2, <1>6, <1>7, <1>8
        DEF ServeMsg, tn_ipc_cmd_stop, ServeOpen, ServeClose, ServeRecv

\* A tool that waits has its message in the port, or is the STOP that is kept.
LEMMA StopKept ==
    ASSUME LifeAssumption, LifeInv, [LifeNext]_lifevars
    PROVE  StopSound' /\ tool' \in [Tools -> ToolStates] /\ stopMsg' \in Tools \cup {NoOne}
<1>0. /\ StopSound /\ tool \in [Tools -> ToolStates] /\ stopMsg \in Tools \cup {NoOne}
      /\ SignalsSound /\ NoOne \notin Tools
  BY Basics DEF LifeInv, LifeTypeOK
<1>1. CASE UNCHANGED <<queue, tool, stopMsg, running, phase>> BY <1>0, <1>1 DEF StopSound
<1>2. CASE Start \/ StartStep \/ StartDone
  BY <1>0, <1>2 DEF Start, StartStep, StartDone, StopSound
<1>3. CASE StartFails \/ PassGate
  <2>1. /\ UNCHANGED stopMsg /\ UNCHANGED running
        /\ tool' = [t \in Tools |-> IF t \in Drained THEN "idle" ELSE tool[t]]
    BY <1>3 DEF StartFails, PassGate, DrainPort
  <2>2. \A t \in Tools : tool'[t] = "waiting" => tool[t] = "waiting" /\ t \notin Drained
    BY <2>1
  <2>3. \A t \in Tools : tool'[t] = "waiting" => stopMsg = t
    BY <1>0, <2>2 DEF StopSound, Drained
  <2>4. tool' \in [Tools -> ToolStates] BY <1>0, <2>1 DEF ToolStates
  <2>5. stopMsg # NoOne => ~running /\ phase' \in {"awake", "exit", "gate", "down", "free"}
    BY <1>0, <1>3 DEF StartFails, PassGate, StopSound
  <2> QED BY <1>0, <2>1, <2>3, <2>4, <2>5 DEF StopSound
<1>4. CASE Wakes \/ HandleBreak \/ LoopCheck \/ EnterShutdown \/ TearDown
  BY <1>0, <1>4 DEF Wakes, HandleBreak, LoopCheck, EnterShutdown, TearDown, StopSound
<1>5. CASE ServeMsg BY <1>5, ServeStops
<1>6. CASE PortEmpty \/ ServeRx \/ ServeTick
  BY <1>1, <1>6 DEF PortEmpty, ServeRx, ServeTick
<1>7. CASE BackToService
  BY <1>0, <1>7 DEF BackToService, ReplyTool, StopSound, ToolStates
<1>8. CASE ShutdownDone
  <2>1. queue = <<>> BY <1>0, <1>8 DEF ShutdownDone, SignalsSound
  <2>2. DOMAIN queue = {} BY <2>1
  <2> QED BY <1>0, <1>8, <2>2 DEF ShutdownDone, ReplyTool, StopSound, ToolStates
<1>9. CASE \E c \in Clients : ClientNext(c)
  <2>1. PICK c \in Clients : ClientNext(c) BY <1>9
  <2>2. UNCHANGED <<tool, stopMsg, running, phase>>
    BY <2>1 DEF ClientNext, LibOpen, LibOpenSends, LibOpenFails, TakeSlot, LibCall, LibClose,
                LibCloseDone, TaskDies, Client_UNCHANGED
  <2>3. \A i \in DOMAIN queue : i \in DOMAIN queue' /\ queue'[i] = queue[i]
    <3>1. CASE UNCHANGED queue BY <3>1
    <3>2. CASE \E cmd \in {"OPEN", "CLOSE", "RECV"} : queue' = Append(queue, <<cmd, c>>)
      <4>1. PICK cmd \in {"OPEN", "CLOSE", "RECV"} : queue' = Append(queue, <<cmd, c>>) BY <3>2
      <4>2. <<cmd, c>> \in Messages BY DEF Messages
      <4> QED BY <4>1, <4>2, MoreInPort
    <3> QED BY <2>1, <3>1, <3>2 DEF ClientNext, LibOpen, LibOpenSends, LibOpenFails, TakeSlot,
              LibCall, LibClose, LibCloseDone, TaskDies, Send
  <2> QED BY <1>0, <2>2, <2>3 DEF StopSound
<1>10. CASE \E t \in Tools : tn_ipc_oneshot(t)
  <2>1. PICK t \in Tools : tn_ipc_oneshot(t) BY <1>10
  <2>2. UNCHANGED <<stopMsg, running, phase>> BY <2>1 DEF tn_ipc_oneshot
  <2>3. CASE ReplyTool(t, "idle") /\ UNCHANGED queue
    BY <1>0, <2>2, <2>3 DEF ReplyTool, StopSound, ToolStates
  <2>4. CASE (\E cmd \in {"STOP", "STATUS"} : Send(<<cmd, t>>)) /\ ReplyTool(t, "waiting")
    <3>1. PICK cmd \in {"STOP", "STATUS"} : queue' = Append(queue, <<cmd, t>>)
      BY <2>4 DEF Send
    <3>2. <<cmd, t>> \in Messages BY DEF Messages
    <3>3. /\ \A i \in DOMAIN queue : i \in DOMAIN queue' /\ queue'[i] = queue[i]
          /\ \E i \in DOMAIN queue' : queue'[i][2] = t
      BY <3>1, <3>2, MoreInPort
    <3> QED BY <1>0, <2>2, <2>4, <3>3 DEF ReplyTool, StopSound, ToolStates
  <2> QED BY <2>1, <2>3, <2>4 DEF tn_ipc_oneshot
<1>11. CASE Expunge \/ TimerFires \/ PacketArrives \/ CtrlC
  BY <1>1, <1>11 DEF Expunge, TimerFires, PacketArrives, CtrlC, Outside_UNCHANGED
<1> QED BY <1>1, <1>2, <1>3, <1>4, <1>5, <1>6, <1>7, <1>8, <1>9, <1>10, <1>11
        DEF LifeNext, DaemonNext, lifevars

----------------------------------------------------------------------------
\* The reap leaves a slot with its owner alone: what it takes belonged to tasks
\* that are gone, and no task that waits.
LEMMA ReapLeaves ==
    ASSUME LifeAssumption, LifeInv, SlotSound, NEW entered, NEW standing,
           ReapAnd(entered, standing),
           \A c \in Clients : standing[c] = "calling" => client[c] = "calling"
    PROVE  /\ holders' \subseteq {owner'} /\ (parked' # NoOne => parked' \in holders')
           /\ \A c \in Clients : client'[c] = "calling" =>
                client[c] = "calling" /\ c \in holders' /\ (parked = c => parked' = c)
<1>1. /\ holders \subseteq {owner} /\ (parked # NoOne => parked \in holders)
      /\ \A c \in Clients : client[c] = "calling" => c \in holders
  BY DEF SlotSound
<1>2. NoOne \notin Dead /\ \A c \in Dead : client[c] = "dead" /\ c \in Clients
  BY Basics DEF Dead
<1>3. /\ parked' = IF owner \in Dead \/ parked \in Dead THEN NoOne ELSE parked
      /\ holders' = holders \ Dead
      /\ owner' = IF owner \in Dead THEN NoOne ELSE owner
      /\ \A c \in Clients : client'[c] = IF c \in Dead THEN "out" ELSE standing[c]
  BY DEF ReapAnd
<1> HIDE DEF Dead
<1>4. CASE owner \in Dead
  <2>1. holders' = {} /\ parked' = NoOne BY <1>1, <1>3, <1>4
  <2>2. \A c \in Clients : client'[c] # "calling"
    <3>1. SUFFICES ASSUME NEW c \in Clients, client'[c] = "calling" PROVE FALSE OBVIOUS
    <3>2. c \notin Dead /\ client[c] = "calling" BY <1>3, <3>1
    <3> QED BY <1>1, <1>4, <3>2
  <2> QED BY <2>1, <2>2
<1>5. CASE owner \notin Dead
  <2>1. holders' = holders /\ owner' = owner /\ parked' = parked BY <1>1, <1>2, <1>3, <1>5
  <2>2. \A c \in Clients : client'[c] = "calling" => client[c] = "calling" BY <1>3
  <2> QED BY <1>1, <2>1, <2>2
<1> QED BY <1>4, <1>5

\* The reap alone.
LEMMA ReapSlot ==
    ASSUME LifeAssumption, LifeInv, SlotSound, tn_reap_dead_clients
    PROVE  /\ holders' \subseteq {owner'} /\ (parked' # NoOne => parked' \in holders')
           /\ \A c \in Clients : client'[c] = "calling" =>
                client[c] = "calling" /\ c \in holders' /\ (parked = c => parked' = c)
BY ReapLeaves DEF tn_reap_dead_clients

\* Serving a message keeps the slot its owner's, and every receive where it was
\* or parked.
LEMMA ServeSlot ==
    ASSUME LifeAssumption, LifeInv, SlotSound, ServeMsg PROVE SlotSound'
<1> DEFINE who == queue[1][2]
<1>1. queue # <<>> /\ queue' = Tail(queue) BY DEF ServeMsg
<1>2. /\ Head(queue) = queue[1]
      /\ queue[1][1] \in {"OPEN", "CLOSE", "RECV"} => who \in Clients
      /\ queue[1][1] \in {"STOP", "STATUS"} => who \in Tools
      /\ who \in Clients =>
           client[who] = IF queue[1][1] = "OPEN" THEN "opening"
                         ELSE IF queue[1][1] = "CLOSE" THEN "closing" ELSE "calling"
  BY <1>1, FirstMessage
<1>3. /\ holders \subseteq {owner} /\ (parked # NoOne => parked \in holders)
      /\ \A c \in Clients : client[c] = "calling" =>
           c \in holders /\ (parked = c \/ \E i \in DOMAIN queue : queue[i] = <<"RECV", c>>)
  BY DEF SlotSound
<1>4. \A c \in Clients : client[c] = "calling" /\ c # who =>
          c \in holders /\ (parked = c \/ \E i \in DOMAIN queue' : queue'[i] = <<"RECV", c>>)
  <2>1. SUFFICES ASSUME NEW c \in Clients, client[c] = "calling", c # who, parked # c
                 PROVE  \E i \in DOMAIN queue' : queue'[i] = <<"RECV", c>>
    BY <1>3
  <2>2. PICK i \in DOMAIN queue : queue[i] = <<"RECV", c>> BY <1>3, <2>1
  <2>3. i # 1 BY <2>1, <2>2
  <2>4. i - 1 \in DOMAIN queue' /\ queue'[i - 1] = queue[i] BY <1>1, <2>3, RestOfPort
  <2> QED BY <2>2, <2>4
<1>5. client \in [Clients -> ClientStates] /\ NoOne \notin Clients /\ Clients \cap Tools = {}
  BY Basics
<1>6. parked # NoOne /\ who \in Clients => parked # who
  <2>1. 1 \in DOMAIN queue BY <1>1, FirstMessage
  <2> QED BY <2>1 DEF LifeInv, CallsSound
<1>7. CASE tn_reap_dead_clients /\ who \in Tools
  BY <1>4, <1>5, <1>7, ReapSlot DEF SlotSound
<1>8. CASE NoReap /\ who \in Tools
  BY <1>3, <1>4, <1>5, <1>8 DEF NoReap, slotv, SlotSound
<1>9. CASE queue[1][1] = "OPEN" /\ ServeOpen(who)
  <2>1. CASE ReplyClient(who) /\ UNCHANGED <<owner, holders, parked>>
    <3>1. client' = [client EXCEPT ![who] = "open"] BY <1>2, <1>9, <2>1, AnswerStays
    <3> QED BY <1>2, <1>3, <1>4, <1>5, <1>9, <2>1, <3>1 DEF SlotSound
  <2>2. ASSUME NEW s \in {"open", "refused"}, NEW entered,
               ReapAnd(entered, [client EXCEPT ![who] = s])
        PROVE  SlotSound'
    <3>1. PICK standing : standing = [client EXCEPT ![who] = s] /\ ReapAnd(entered, standing)
      BY <2>2
    <3>2. \A c \in Clients : standing[c] = "calling" => client[c] = "calling" /\ c # who
      BY <1>5, <2>2, <3>1
    <3>3. /\ holders' \subseteq {owner'} /\ (parked' # NoOne => parked' \in holders')
          /\ \A c \in Clients : client'[c] = "calling" =>
               client[c] = "calling" /\ c \in holders' /\ (parked = c => parked' = c)
      BY <3>1, <3>2, ReapLeaves
    <3>4. \A c \in Clients : client'[c] = "calling" => c # who
      BY <3>1, <3>2 DEF ReapAnd
    <3> QED BY <1>4, <3>3, <3>4 DEF SlotSound
  <2> QED BY <1>9, <2>1, <2>2 DEF ServeOpen, slotv
<1>10. CASE queue[1][1] = "CLOSE" /\ ServeClose(who)
  <2>1. /\ holders' = holders \ {who} /\ owner' = (IF owner = who THEN NoOne ELSE owner)
        /\ parked' = (IF parked = who THEN NoOne ELSE parked)
    BY <1>10 DEF ServeClose
  <2>2. client' = [client EXCEPT ![who] = "leaving"] BY <1>2, <1>10, AnswerStays DEF ServeClose
  <2>3. holders' \subseteq {owner'} BY <1>3, <2>1
  <2>4. parked' # NoOne => parked' \in holders' BY <1>3, <2>1
  <2>5. \A c \in Clients : client'[c] = "calling" => c # who /\ client[c] = "calling"
    BY <1>2, <1>5, <1>10, <2>2
  <2>6. \A c \in Clients : client'[c] = "calling" =>
          c \in holders' /\ (parked' = c \/ \E i \in DOMAIN queue' : queue'[i] = <<"RECV", c>>)
    BY <1>4, <2>1, <2>5
  <2> QED BY <2>3, <2>4, <2>6 DEF SlotSound
<1>11. CASE queue[1][1] = "RECV" /\ ServeRecv(who)
  <2>1. UNCHANGED <<owner, holders>> BY <1>11 DEF ServeRecv
  <2>2. CASE ReplyClient(who) /\ UNCHANGED parked
    <3>1. client' = [client EXCEPT ![who] = "open"] BY <1>2, <1>11, <2>2, AnswerStays
    <3> QED BY <1>2, <1>3, <1>4, <1>5, <1>11, <2>1, <2>2, <3>1 DEF SlotSound
  <2>3. CASE parked = NoOne /\ parked' = who /\ UNCHANGED client
    <3>1. client[who] = "calling" /\ who \in Clients BY <1>2, <1>11
    <3>2. \A c \in Clients : client[c] = "calling" => parked # c BY <1>5, <2>3
    <3>3. who \in holders BY <1>3, <3>1
    <3> QED BY <1>3, <1>4, <2>1, <2>3, <3>1, <3>2, <3>3 DEF SlotSound
  <2> QED BY <1>11, <2>2, <2>3 DEF ServeRecv
<1> QED BY <1>2, <1>7, <1>8, <1>9, <1>10, <1>11 DEF ServeMsg, tn_ipc_cmd_stop

\* A client's step keeps the slot its owner's, and sends its receive to the port.
LEMMA ClientSlot ==
    ASSUME LifeAssumption, LifeInv, SlotSound, ~Shared, NEW c \in Clients, ClientNext(c)
    PROVE  SlotSound'
<1>1. /\ holders \subseteq {owner} /\ (parked # NoOne => parked \in holders)
      /\ \A d \in Clients : client[d] = "calling" =>
           d \in holders /\ (parked = d \/ \E i \in DOMAIN queue : queue[i] = <<"RECV", d>>)
      /\ client \in [Clients -> ClientStates]
  BY Basics DEF SlotSound
<1>2. CASE LibOpenSends(c) \/ LibCall(c) \/ LibClose(c)
  <2>1. UNCHANGED <<owner, holders, parked>> BY <1>2 DEF LibOpenSends, LibCall, LibClose, slotv
  <2>2. PICK cmd \in {"OPEN", "CLOSE", "RECV"} : queue' = Append(queue, <<cmd, c>>)
    BY <1>2 DEF LibOpenSends, LibCall, LibClose, Send
  <2>3. <<cmd, c>> \in Messages BY DEF Messages
  <2>4. \A i \in DOMAIN queue : i \in DOMAIN queue' /\ queue'[i] = queue[i]
    BY <2>2, <2>3, MoreInPort
  <2>5. \A d \in Clients : d # c => client'[d] = client[d]
    BY <1>1, <1>2 DEF LibOpenSends, LibCall, LibClose
  <2>6. client'[c] = "calling" =>
          c \in holders /\ \E i \in DOMAIN queue' : queue'[i] = <<"RECV", c>>
    <3>1. CASE LibCall(c)
      <4>1. queue' = Append(queue, <<"RECV", c>>) /\ c \in holders BY <3>1 DEF LibCall, Send
      <4>2. <<"RECV", c>> \in Messages BY DEF Messages
      <4> QED BY <4>1, <4>2, MoreInPort
    <3>2. CASE LibOpenSends(c) \/ LibClose(c) BY <1>1, <3>2 DEF LibOpenSends, LibClose
    <3> QED BY <1>2, <3>1, <3>2
  <2>7. ASSUME NEW d \in Clients, client'[d] = "calling"
        PROVE  d \in holders' /\ (parked' = d \/ \E i \in DOMAIN queue' : queue'[i] = <<"RECV", d>>)
    <3>1. CASE d = c BY <2>1, <2>6, <2>7, <3>1
    <3>2. CASE d # c BY <1>1, <2>1, <2>4, <2>5, <2>7, <3>2
    <3> QED BY <3>1, <3>2
  <2> QED BY <1>1, <2>1, <2>7 DEF SlotSound
<1>3. CASE LibOpen(c) \/ LibOpenFails(c) \/ LibCloseDone(c) \/ TaskDies(c)
  <2>1. UNCHANGED <<queue, owner, holders, parked>>
    BY <1>3 DEF LibOpen, LibOpenFails, LibCloseDone, TaskDies, slotv
  <2>2. PICK s \in {"counted", "out", "dead"} : client' = [client EXCEPT ![c] = s]
    BY <1>3 DEF LibOpen, LibOpenFails, LibCloseDone, TaskDies
  <2> QED BY <1>1, <2>1, <2>2 DEF SlotSound
<1>4. CASE TakeSlot(c)
  <2>1. /\ holders = {} /\ holders' = {c} /\ owner' = c
        /\ UNCHANGED <<queue, parked, client>>
    BY <1>4 DEF TakeSlot
  <2> QED BY <1>1, <2>1 DEF SlotSound
<1> QED BY <1>2, <1>3, <1>4 DEF ClientNext

\* A slot that only one base may have stays that base's, and a call on it stays
\* in the port or parked.
LEMMA SlotKept ==
    ASSUME LifeAssumption, LifeInv, ~Shared, [LifeNext]_lifevars PROVE SlotSound'
<1>0. SlotSound BY DEF LifeInv
<1>1. /\ holders \subseteq {owner} /\ (parked # NoOne => parked \in holders)
      /\ \A c \in Clients : client[c] = "calling" =>
           c \in holders /\ (parked = c \/ \E i \in DOMAIN queue : queue[i] = <<"RECV", c>>)
      /\ client \in [Clients -> ClientStates] /\ parked \in Clients \cup {NoOne}
  BY <1>0, Basics DEF SlotSound, LifeInv, LifeTypeOK
<1>2. CASE UNCHANGED <<queue, client, owner, holders, parked>> BY <1>0, <1>2 DEF SlotSound
<1>3. CASE StartFails \/ PassGate \/ TearDown
  <2>1. InUse = {}
    <3>1. CASE PassGate
      <4>1. Cardinality(InUse) = 0 BY <3>1 DEF PassGate, Gate, LifeInv, LibSound, Up
      <4> QED BY <4>1, Basics, FS_EmptySet
    <3> QED BY <1>3, <3>1 DEF StartFails, TearDown, LifeInv, LibSound, Up
  <2>2. \A c \in Clients : client[c] # "calling" BY <2>1 DEF InUse
  <2>3. /\ UNCHANGED client /\ holders' \subseteq {owner'}
        /\ parked' # NoOne => parked' \in holders'
    BY <1>1, <1>3 DEF StartFails, PassGate, TearDown, slotv
  <2> QED BY <2>2, <2>3 DEF SlotSound
<1>4. CASE queue' = queue /\ tn_reap_dead_clients
  <2>1. /\ holders' \subseteq {owner'} /\ (parked' # NoOne => parked' \in holders')
        /\ \A c \in Clients : client'[c] = "calling" =>
             client[c] = "calling" /\ c \in holders' /\ (parked = c => parked' = c)
    BY <1>0, <1>4, ReapSlot
  <2> QED BY <1>1, <1>4, <2>1 DEF SlotSound
<1>5. CASE HandleBreak
  <2>1. queue' = queue BY <1>5 DEF HandleBreak
  <2>2. CASE NoReap BY <1>2, <2>1, <2>2 DEF NoReap, slotv
  <2> QED BY <1>4, <1>5, <2>1, <2>2 DEF HandleBreak
<1>6. CASE EnterShutdown BY <1>4, <1>6 DEF EnterShutdown
<1>7. CASE ServeMsg BY <1>0, <1>7, ServeSlot
<1>8. CASE ServeRx \/ ServeTick
  <2>1. UNCHANGED queue /\ MayComplete BY <1>8 DEF ServeRx, ServeTick
  <2>2. CASE UNCHANGED <<slotv, client>> BY <1>2, <2>1, <2>2 DEF slotv
  <2>3. CASE /\ parked # NoOne /\ ReplyClient(parked) /\ parked' = NoOne
             /\ UNCHANGED <<owner, holders>>
    <3>1. parked \in Clients /\ client[parked] \in {"calling", "dead"}
      BY <1>1, <2>3 DEF LifeInv, CallsSound
    <3>2. \A c \in Clients : client'[c] = "calling" => c # parked /\ client[c] = "calling"
      <4>1. /\ client' = [client EXCEPT ![parked] = AfterReply[client[parked]]]
            /\ AfterReply[client[parked]] \in {"open", "dead"}
        BY <2>3, <3>1, AnswerStays
      <4> QED BY <1>1, <3>1, <4>1
    <3> QED BY <1>1, <2>1, <2>3, <3>2 DEF SlotSound
  <2> QED BY <2>1, <2>2, <2>3 DEF MayComplete
<1>9. CASE \/ Start \/ StartStep \/ StartDone \/ Wakes \/ PortEmpty \/ LoopCheck \/ BackToService
           \/ ShutdownDone
  BY <1>2, <1>9 DEF Start, StartStep, StartDone, Wakes, PortEmpty, LoopCheck, BackToService,
                    ShutdownDone, slotv
<1>10. CASE \E c \in Clients : ClientNext(c) BY <1>0, <1>10, ClientSlot
<1>11. CASE \E t \in Tools : tn_ipc_oneshot(t)
  <2>1. PICK t \in Tools : tn_ipc_oneshot(t) BY <1>11
  <2>2. UNCHANGED <<client, owner, holders, parked>> BY <2>1 DEF tn_ipc_oneshot, slotv
  <2>3. CASE UNCHANGED queue BY <1>2, <2>2, <2>3
  <2>4. CASE \E cmd \in {"STOP", "STATUS"} : Send(<<cmd, t>>)
    <3>1. PICK cmd \in {"STOP", "STATUS"} : queue' = Append(queue, <<cmd, t>>)
      BY <2>4 DEF Send
    <3>2. <<cmd, t>> \in Messages BY DEF Messages
    <3>3. \A i \in DOMAIN queue : i \in DOMAIN queue' /\ queue'[i] = queue[i]
      BY <3>1, <3>2, MoreInPort
    <3> QED BY <1>1, <2>2, <3>3 DEF SlotSound
  <2> QED BY <2>1, <2>3, <2>4 DEF tn_ipc_oneshot
<1>12. CASE Expunge \/ TimerFires \/ PacketArrives \/ CtrlC
  BY <1>2, <1>12 DEF Expunge, TimerFires, PacketArrives, CtrlC, Outside_UNCHANGED, slotv
<1> QED BY <1>2, <1>3, <1>5, <1>6, <1>7, <1>8, <1>9, <1>10, <1>11, <1>12
        DEF LifeNext, DaemonNext, lifevars, slotv

----------------------------------------------------------------------------
\* The registry, the slot and the port stay well formed when a message is served.
LEMMA ServeTypes ==
    ASSUME LifeAssumption, LifeInv, ServeMsg
    PROVE  /\ bases' \subseteq Clients /\ holders' \subseteq Clients
           /\ owner' \in Clients \cup {NoOne} /\ parked' \in Clients \cup {NoOne}
           /\ queue' \in Seq(Messages) /\ running' \in BOOLEAN
<1> DEFINE who == queue[1][2]
<1>1. queue # <<>> /\ queue' = Tail(queue) BY DEF ServeMsg
<1>2. /\ Head(queue) = queue[1] /\ Tail(queue) \in Seq(Messages)
      /\ queue[1][1] \in {"OPEN", "CLOSE", "RECV"} => who \in Clients
  BY <1>1, FirstMessage
<1>3. /\ bases \subseteq Clients /\ holders \subseteq Clients /\ running \in BOOLEAN
      /\ owner \in Clients \cup {NoOne} /\ parked \in Clients \cup {NoOne}
  BY DEF LifeInv, LifeTypeOK
<1>4. running' \in BOOLEAN
  <2>1. running' = running \/ running' = FALSE
    BY DEF ServeMsg, tn_ipc_cmd_stop, ServeOpen, ServeClose, ServeRecv
  <2> QED BY <1>3, <2>1
<1>5. CASE tn_reap_dead_clients BY <1>1, <1>2, <1>3, <1>4, <1>5 DEF tn_reap_dead_clients, ReapAnd
<1>6. CASE NoReap BY <1>1, <1>2, <1>3, <1>4, <1>6 DEF NoReap, slotv
<1>7. CASE queue[1][1] = "OPEN" /\ ServeOpen(who)
  BY <1>1, <1>2, <1>3, <1>4, <1>7 DEF ServeOpen, ReapAnd, slotv
<1>8. CASE queue[1][1] = "CLOSE" /\ ServeClose(who)
  BY <1>1, <1>2, <1>3, <1>4, <1>8 DEF ServeClose
<1>9. CASE queue[1][1] = "RECV" /\ ServeRecv(who)
  BY <1>1, <1>2, <1>3, <1>4, <1>9 DEF ServeRecv
<1> QED BY <1>2, <1>5, <1>6, <1>7, <1>8, <1>9 DEF ServeMsg, tn_ipc_cmd_stop

\* The registry, the slot and the port stay well formed.
LEMMA TablesTyped ==
    ASSUME LifeAssumption, LifeInv, [LifeNext]_lifevars
    PROVE  /\ bases' \subseteq Clients /\ holders' \subseteq Clients
           /\ owner' \in Clients \cup {NoOne} /\ parked' \in Clients \cup {NoOne}
           /\ queue' \in Seq(Messages) /\ running' \in BOOLEAN
<1>0. /\ bases \subseteq Clients /\ holders \subseteq Clients /\ running \in BOOLEAN
      /\ owner \in Clients \cup {NoOne} /\ parked \in Clients \cup {NoOne}
      /\ queue \in Seq(Messages)
  BY DEF LifeInv, LifeTypeOK
<1>1. CASE UNCHANGED <<queue, running, bases, slotv>> BY <1>0, <1>1 DEF slotv
<1>2. CASE Start \/ StartStep \/ Wakes \/ PortEmpty \/ LoopCheck \/ ShutdownDone
  BY <1>1, <1>2 DEF Start, StartStep, Wakes, PortEmpty, LoopCheck, ShutdownDone
<1>3. CASE StartDone \/ BackToService BY <1>0, <1>3 DEF StartDone, BackToService, slotv
<1>4. CASE StartFails \/ PassGate
  <2>1. queue' = <<>> /\ UNCHANGED <<running, bases, slotv>>
    BY <1>4 DEF StartFails, PassGate, DrainPort
  <2>2. <<>> \in Seq(Messages) OBVIOUS
  <2> QED BY <1>0, <2>1, <2>2 DEF slotv
<1>5. CASE HandleBreak \/ EnterShutdown
  <2>1. queue' = queue /\ (running' = running \/ running' = FALSE)
    BY <1>5 DEF HandleBreak, EnterShutdown
  <2>2. CASE tn_reap_dead_clients BY <1>0, <2>1, <2>2 DEF tn_reap_dead_clients, ReapAnd
  <2>3. CASE NoReap BY <1>0, <2>1, <2>3 DEF NoReap, slotv
  <2> QED BY <1>5, <2>2, <2>3 DEF HandleBreak, EnterShutdown
<1>6. CASE ServeMsg BY <1>6, ServeTypes
<1>7. CASE ServeRx \/ ServeTick
  <2>1. UNCHANGED <<queue, running, bases>> /\ MayComplete BY <1>7 DEF ServeRx, ServeTick
  <2>2. UNCHANGED <<owner, holders>> /\ (UNCHANGED parked \/ parked' = NoOne)
    BY <2>1 DEF MayComplete, slotv
  <2> QED BY <1>0, <2>1, <2>2
<1>8. CASE TearDown BY <1>0, <1>8 DEF TearDown
<1>9. CASE \E c \in Clients : ClientNext(c)
  <2>1. PICK c \in Clients : ClientNext(c) BY <1>9
  <2>2. UNCHANGED <<running, bases>>
    BY <2>1 DEF ClientNext, LibOpen, LibOpenSends, LibOpenFails, TakeSlot, LibCall, LibClose,
                LibCloseDone, TaskDies, Client_UNCHANGED
  <2>3. /\ UNCHANGED slotv \/ (holders' = holders \cup {c} /\ owner' = c /\ UNCHANGED parked)
        /\ \/ UNCHANGED queue
           \/ \E cmd \in {"OPEN", "CLOSE", "RECV"} : queue' = Append(queue, <<cmd, c>>)
    BY <2>1 DEF ClientNext, LibOpen, LibOpenSends, LibOpenFails, TakeSlot, LibCall, LibClose,
                LibCloseDone, TaskDies, Send
  <2>4. \A cmd \in {"OPEN", "CLOSE", "RECV"} : <<cmd, c>> \in Messages BY DEF Messages
  <2>5. queue' \in Seq(Messages)
    <3>1. \A m \in Messages : Append(queue, m) \in Seq(Messages) BY <1>0
    <3> QED BY <1>0, <2>3, <2>4, <3>1
  <2> QED BY <1>0, <2>2, <2>3, <2>5 DEF slotv
<1>10. CASE \E t \in Tools : tn_ipc_oneshot(t)
  <2>1. PICK t \in Tools : tn_ipc_oneshot(t) BY <1>10
  <2>2. UNCHANGED <<running, bases, slotv>> BY <2>1 DEF tn_ipc_oneshot
  <2>3. UNCHANGED queue \/ \E cmd \in {"STOP", "STATUS"} : queue' = Append(queue, <<cmd, t>>)
    BY <2>1 DEF tn_ipc_oneshot, Send
  <2>4. \A cmd \in {"STOP", "STATUS"} : <<cmd, t>> \in Messages BY DEF Messages
  <2>5. queue' \in Seq(Messages)
    <3>1. \A m \in Messages : Append(queue, m) \in Seq(Messages) BY <1>0
    <3> QED BY <1>0, <2>3, <2>4, <3>1
  <2> QED BY <1>0, <2>2, <2>5 DEF slotv
<1>11. CASE Expunge \/ TimerFires \/ PacketArrives \/ CtrlC
  BY <1>1, <1>11 DEF Expunge, TimerFires, PacketArrives, CtrlC, Outside_UNCHANGED
<1> QED BY <1>1, <1>2, <1>3, <1>4, <1>5, <1>6, <1>7, <1>8, <1>9, <1>10, <1>11
        DEF LifeNext, DaemonNext, lifevars

\* The task's phase and its flags stay well formed, and it holds only what the
\* steps of its start-up take.
LEMMA TaskTyped ==
    ASSUME LifeInv, [LifeNext]_lifevars
    PROVE  /\ phase' \in Phases /\ held' \subseteq {Steps[i] : i \in DOMAIN Steps}
           /\ public' \in BOOLEAN /\ listed' \in BOOLEAN /\ stopping' \in BOOLEAN
<1>0. /\ phase \in Phases /\ held \subseteq {Steps[i] : i \in DOMAIN Steps}
      /\ public \in BOOLEAN /\ listed \in BOOLEAN /\ stopping \in BOOLEAN /\ HeldSound
  BY DEF LifeInv, LifeTypeOK
<1>1. CASE UNCHANGED <<phase, held, public, listed, stopping>> BY <1>0, <1>1
<1>2. CASE Start \/ Wakes \/ LoopCheck \/ HandleBreak \/ EnterShutdown \/ BackToService
  <2>1. phase' \in Phases BY <1>0, <1>2
    DEF Start, Wakes, LoopCheck, HandleBreak, EnterShutdown, BackToService, Phases
  <2>2. UNCHANGED <<held, public, listed>> /\ stopping' \in {stopping, TRUE, FALSE}
    BY <1>2 DEF Start, Wakes, LoopCheck, HandleBreak, EnterShutdown, BackToService
  <2> QED BY <1>0, <2>1, <2>2
<1>3. CASE StartStep
  <2>1. PICK k \in 0..8 : held = StepsTo(k) BY <1>0, <1>3 DEF StartStep, HeldSound
  <2>2. k + 1 \in 0..8 /\ held' = StepsTo(k + 1) BY <1>3, <2>1, StepDone DEF StartStep
  <2>3. StepsTo(k + 1) \subseteq {Steps[i] : i \in DOMAIN Steps}
    <3> HIDE DEF Steps
    <3>1. \A i \in 1..(k + 1) : i \in 1..9 BY <2>2
    <3> QED BY <3>1, StepList DEF StepsTo
  <2>4. public' \in BOOLEAN /\ UNCHANGED <<phase, listed, stopping>> BY <1>3 DEF StartStep
  <2> QED BY <1>0, <2>2, <2>3, <2>4
<1>4. CASE StartDone
  <2>1. "lib" \in {Steps[i] : i \in DOMAIN Steps}
    <3>1. 9 \in DOMAIN Steps /\ Steps[9] = "lib" BY StepList
    <3> HIDE DEF Steps
    <3> QED BY <3>1
  <2> QED BY <1>0, <1>4, <2>1 DEF StartDone, Phases
<1>5. CASE StartFails BY <1>0, <1>5 DEF StartFails, Phases
<1>6. CASE PassGate \/ TearDown \/ ShutdownDone
  BY <1>0, <1>6 DEF PassGate, TearDown, ShutdownDone, Phases
<1>7. CASE Expunge BY <1>0, <1>7 DEF Expunge
<1>8. CASE ServeMsg \/ PortEmpty \/ ServeRx \/ ServeTick
  BY <1>1, <1>8 DEF ServeMsg, Unchanged_IPC, PortEmpty, ServeRx, ServeTick,
                    tn_ipc_cmd_stop, ServeOpen, ServeClose, ServeRecv
<1>9. CASE \E c \in Clients : ClientNext(c)
  BY <1>1, <1>9 DEF ClientNext, LibOpen, LibOpenSends, LibOpenFails, TakeSlot, LibCall, LibClose,
                    LibCloseDone, TaskDies, Client_UNCHANGED
<1>10. CASE \E t \in Tools : tn_ipc_oneshot(t) BY <1>1, <1>10 DEF tn_ipc_oneshot
<1>11. CASE TimerFires \/ PacketArrives \/ CtrlC
  BY <1>1, <1>11 DEF TimerFires, PacketArrives, CtrlC, Outside_UNCHANGED
<1> QED BY <1>1, <1>2, <1>3, <1>4, <1>5, <1>6, <1>7, <1>8, <1>9, <1>10, <1>11
        DEF LifeNext, DaemonNext, lifevars

\* The signal bits, the tick and the reads stay well formed.
LEMMA BitsTyped ==
    ASSUME LifeAssumption, LifeInv, [LifeNext]_lifevars
    PROVE  /\ pend' \subseteq Signals /\ got' \subseteq Signals /\ discarded' \subseteq Signals
           /\ timer' \in {"idle", "flying", "done"} /\ armed' \in BOOLEAN /\ rx' \in 0..Reads
<1>0. /\ pend \subseteq Signals /\ got \subseteq Signals /\ discarded \subseteq Signals
      /\ timer \in {"idle", "flying", "done"} /\ armed \in BOOLEAN /\ rx \in 0..Reads
      /\ Reads \in Nat
  BY DEF LifeInv, LifeTypeOK, LifeAssumption
<1>1. CASE UNCHANGED <<pend, got, discarded, timer, armed, rx>> BY <1>0, <1>1
<1>2. CASE Start \/ StartStep \/ LoopCheck \/ EnterShutdown
  BY <1>1, <1>2 DEF Start, StartStep, LoopCheck, EnterShutdown, timev
<1>10. CASE StartFails \/ Wakes \/ PortEmpty \/ PassGate \/ ShutdownDone
  <2>1. UNCHANGED <<timer, armed, rx>>
    BY <1>10 DEF StartFails, Wakes, PortEmpty, PassGate, ShutdownDone, timev
  <2>2. pend' \subseteq pend /\ got' \subseteq got \cup pend /\ discarded' \subseteq discarded
    BY <1>10 DEF StartFails, Wakes, PortEmpty, PassGate, ShutdownDone
  <2> QED BY <1>0, <2>1, <2>2
<1>11. CASE StartDone \/ ServeTick \/ BackToService \/ TearDown
  <2>1. /\ timer' \in {"idle", "flying"} /\ armed' \in {TRUE, FALSE} /\ rx' \in {rx, 0}
        /\ UNCHANGED <<pend, discarded>> /\ got' \subseteq got
    BY <1>11 DEF StartDone, ServeTick, BackToService, NormaliseTimer, TearDown
  <2>2. rx' \in 0..Reads /\ timer' \in {"idle", "flying", "done"} BY <1>0, <2>1
  <2>3. armed' \in BOOLEAN BY <2>1
  <2> QED BY <1>0, <2>1, <2>2, <2>3
<1>3. CASE HandleBreak
  <2>1. UNCHANGED <<pend, timer, armed, rx>> BY <1>3 DEF HandleBreak, timev
  <2>2. got' \subseteq got /\ discarded' \subseteq discarded \cup got BY <1>3 DEF HandleBreak
  <2> QED BY <1>0, <2>1, <2>2
<1>4. CASE ServeMsg BY <1>1, <1>4 DEF ServeMsg, Unchanged_IPC, timev
<1>5. CASE ServeRx
  <2>1. UNCHANGED <<pend, timer, armed>> /\ rx' = 0 /\ got' \subseteq got
        /\ discarded' \subseteq discarded
    BY <1>5 DEF ServeRx, timev
  <2> QED BY <1>0, <2>1
<1>6. CASE \E c \in Clients : ClientNext(c)
  <2>1. UNCHANGED <<got, discarded, timer, armed, rx>>
    BY <1>6 DEF ClientNext, LibOpen, LibOpenSends, LibOpenFails, TakeSlot, LibCall, LibClose,
                LibCloseDone, TaskDies, Client_UNCHANGED, timev
  <2>2. pend' = pend \/ pend' = pend \cup {"ipc"}
    BY <1>6 DEF ClientNext, LibOpen, LibOpenSends, LibOpenFails, TakeSlot, LibCall, LibClose,
                LibCloseDone, TaskDies, Send
  <2> QED BY <1>0, <2>1, <2>2 DEF Signals
<1>7. CASE \E t \in Tools : tn_ipc_oneshot(t)
  <2>1. UNCHANGED <<got, discarded, timer, armed, rx>> BY <1>7 DEF tn_ipc_oneshot, timev
  <2>2. pend' = pend \/ pend' = pend \cup {"ipc"} BY <1>7 DEF tn_ipc_oneshot, Send
  <2> QED BY <1>0, <2>1, <2>2 DEF Signals
<1>8. CASE TimerFires \/ PacketArrives \/ CtrlC
  <2>1. /\ UNCHANGED <<got, discarded, armed>>
        /\ timer' \in {timer, "done"} /\ (rx' = rx \/ (rx' = rx + 1 /\ rx < Reads))
        /\ \E bit \in Signals : pend' = pend \cup {bit}
    BY <1>8 DEF TimerFires, PacketArrives, CtrlC, Raise, Outside_UNCHANGED, Signals
  <2>2. rx' \in 0..Reads BY <1>0, <2>1
  <2> QED BY <1>0, <2>1, <2>2
<1>9. CASE Expunge BY <1>1, <1>9 DEF Expunge, timev
<1> QED BY <1>1, <1>2, <1>3, <1>4, <1>5, <1>6, <1>7, <1>8, <1>9, <1>10, <1>11
        DEF LifeNext, DaemonNext, lifevars, timev

----------------------------------------------------------------------------
\* LifeInv is inductive: it holds of a machine on which the daemon is not yet
\* started, and every step of the daemon, of its users and from outside keeps it.
LEMMA LifeStarts == LifeAssumption /\ LifeInit => LifeInv
<1> SUFFICES ASSUME LifeAssumption, LifeInit PROVE LifeInv OBVIOUS
<1> USE DEF LifeInit
<1>1. IsFiniteSet(Clients) /\ Cardinality(Clients) \in Nat /\ Reads \in Nat
  BY FS_CardinalityType DEF LifeAssumption
<1>2. \A S : <<>> \in Seq(S) OBVIOUS
<1>3. LifeTypeOK
  <2>1. queue \in Seq(Messages) BY <1>2
  <2>2. openCnt \in 0..Cardinality(Clients) /\ rx \in 0..Reads BY <1>1
  <2>3. client \in [Clients -> ClientStates] /\ tool \in [Tools -> ToolStates]
    BY DEF ClientStates, ToolStates
  <2> QED BY <2>1, <2>2, <2>3 DEF LifeTypeOK, Phases
<1>4. HeldSound BY DEF HeldSound, Up
<1>5. LibSound BY DEF LibSound, Up, InUse
<1>6. DOMAIN queue = {} OBVIOUS
<1>7. CallsSound BY <1>6 DEF CallsSound
<1>8. SignalsSound BY DEF SignalsSound
<1>9. StopSound BY DEF StopSound
<1>10. SlotSound BY DEF SlotSound
<1> QED BY <1>3, <1>4, <1>5, <1>7, <1>8, <1>9, <1>10 DEF LifeInv

\* Every step keeps LifeInv.
LEMMA LifeKeeps == LifeAssumption /\ LifeInv /\ [LifeNext]_lifevars => LifeInv'
<1> SUFFICES ASSUME LifeAssumption, LifeInv, [LifeNext]_lifevars PROVE LifeInv' OBVIOUS
<1>1. LifeTypeOK'
  <2>1. /\ client' \in [Clients -> ClientStates] /\ tool' \in [Tools -> ToolStates]
        /\ stopMsg' \in Tools \cup {NoOne} /\ openCnt' \in 0..Cardinality(Clients)
    BY LibKept, StopKept, CountBounded
  <2>2. /\ bases' \subseteq Clients /\ holders' \subseteq Clients
        /\ owner' \in Clients \cup {NoOne} /\ parked' \in Clients \cup {NoOne}
        /\ queue' \in Seq(Messages) /\ running' \in BOOLEAN
    BY TablesTyped
  <2>3. /\ phase' \in Phases /\ held' \subseteq {Steps[i] : i \in DOMAIN Steps}
        /\ public' \in BOOLEAN /\ listed' \in BOOLEAN /\ stopping' \in BOOLEAN
    BY TaskTyped
  <2>4. /\ pend' \subseteq Signals /\ got' \subseteq Signals /\ discarded' \subseteq Signals
        /\ timer' \in {"idle", "flying", "done"} /\ armed' \in BOOLEAN /\ rx' \in 0..Reads
    BY BitsTyped
  <2> QED BY <2>1, <2>2, <2>3, <2>4 DEF LifeTypeOK
<1>2. HeldSound' /\ LibSound' /\ CallsSound' BY HeldKept, LibKept, CallsKept
<1>3. SignalsSound' /\ StopSound' BY SignalsKept, StopKept
<1>4. ~Shared => SlotSound' BY SlotKept
<1> QED BY <1>1, <1>2, <1>3, <1>4 DEF LifeInv

\* Whoever has the library open has a daemon that serves and can be found.
LEMMA LifeServes == LifeInv => OpenersServed
<1> SUFFICES ASSUME LifeInv PROVE OpenersServed OBVIOUS
<1>1. HeldSound /\ LibSound /\ phase \in Phases BY DEF LifeInv, LifeTypeOK
<1>2. OpenersKeepTheDaemon BY <1>1 DEF OpenersKeepTheDaemon, HeldSound, LibSound, InUse
<1>3. OpenCountExact BY <1>1 DEF OpenCountExact, LibSound, InUse, Up, Phases
<1>4. ServiceMeansListed BY <1>1 DEF ServiceMeansListed, HeldSound, LibSound, Up
<1> QED BY <1>2, <1>3, <1>4 DEF OpenersServed

\* No request is forgotten, and a daemon that has ended has released everything.
LEMMA LifeRemembers == LifeAssumption /\ LifeInv /\ ~Shared => RequestsRemembered
<1> SUFFICES ASSUME LifeAssumption, LifeInv, ~Shared PROVE RequestsRemembered OBVIOUS
<1>1. /\ HeldSound /\ SignalsSound /\ StopSound /\ SlotSound /\ LibSound /\ phase \in Phases
      /\ queue \in Seq(Messages) /\ NoOne \notin Tools
  BY DEF LifeInv, LifeTypeOK, LifeAssumption
<1>2. NoSleepingRequest BY <1>1 DEF NoSleepingRequest, SignalsSound
<1>3. TickAlive BY <1>1 DEF TickAlive, SignalsSound
<1>4. RequestsHeld
  <2>1. \A c \in Clients : client[c] = "calling" =>
          parked = c \/ \E i \in DOMAIN queue : queue[i] = <<"RECV", c>>
    BY <1>1 DEF SlotSound
  <2>2. ASSUME NEW t \in Tools, stopMsg = t
        PROVE  ~running /\ phase \notin {"wait", "off", "start"}
    BY <1>1, <2>2 DEF StopSound
  <2>3. \A t \in Tools : tool[t] = "waiting" =>
          stopMsg = t \/ \E i \in DOMAIN queue : queue[i][2] = t
    BY <1>1 DEF StopSound
  <2> QED BY <2>1, <2>2, <2>3 DEF RequestsHeld
<1>5. NothingLeftBehind BY <1>1 DEF NothingLeftBehind, HeldSound, SignalsSound, StopSound
<1> QED BY <1>2, <1>3, <1>4, <1>5 DEF RequestsRemembered

\* The answer to STOP comes after everything else is released.
LEMMA LifeReleases == LifeAssumption /\ LifeInv /\ [LifeNext]_lifevars => StoppedMeansReleased
<1> SUFFICES ASSUME LifeAssumption, LifeInv, [LifeNext]_lifevars, NEW t \in Tools,
                    tool'[t] = "stopped", tool[t] = "waiting"
             PROVE  /\ held' \cap {"s2", "online", "reads", "netif", "timer", "lib"} = {}
                    /\ ~public'
  BY DEF StoppedMeansReleased
<1>1. tool \in [Tools -> ToolStates] /\ HeldSound BY DEF LifeInv, LifeTypeOK
<1>2. tool' # tool OBVIOUS
<1>4. ShutdownDone
  <2>1. ~(\/ Start \/ StartStep \/ StartDone \/ Wakes \/ HandleBreak \/ PortEmpty \/ ServeRx
          \/ ServeTick \/ LoopCheck \/ EnterShutdown \/ TearDown \/ Expunge \/ TimerFires
          \/ PacketArrives \/ CtrlC \/ \E c \in Clients : ClientNext(c))
    BY <1>2 DEF Start, StartStep, StartDone, Wakes, HandleBreak, PortEmpty, ServeRx, ServeTick,
         LoopCheck, EnterShutdown, TearDown, Expunge, TimerFires, PacketArrives, CtrlC,
         Outside_UNCHANGED, ClientNext, LibOpen, LibOpenSends, LibOpenFails, TakeSlot, LibCall,
         LibClose, LibCloseDone, TaskDies, Client_UNCHANGED
  <2>2. ~(StartFails \/ PassGate) BY <1>1 DEF StartFails, PassGate, DrainPort
  <2>3. ~BackToService
    BY <1>1, <1>2 DEF BackToService, ReplyTool, LifeInv, LifeTypeOK
  <2>4. ~ServeMsg
    <3>1. ASSUME ServeMsg PROVE FALSE
      <4>1. UNCHANGED tool \/ \E u : tool' = [tool EXCEPT ![u] = "idle"]
        BY <3>1 DEF ServeMsg, tn_ipc_cmd_stop, ServeOpen, ServeClose, ServeRecv, ReplyTool
      <4> QED BY <1>1, <1>2, <4>1
    <3> QED BY <3>1
  <2>5. ~(\E u \in Tools : tn_ipc_oneshot(u)) BY <1>1 DEF tn_ipc_oneshot, ReplyTool
  <2> QED BY <1>2, <2>1, <2>2, <2>3, <2>4, <2>5 DEF LifeNext, DaemonNext, lifevars
<1> QED BY <1>1, <1>4 DEF ShutdownDone, HeldSound

----------------------------------------------------------------------------
\* Of the daemon by itself: whatever Ctrl-C, STOP, expunge and dying tasks do,
\* whoever has the library open has a daemon that serves and can be found
\* (main loop and gate of daemon_main.c, tn_lib_open and tn_lib_expunge).
THEOREM DaemonServes == ASSUME LifeAssumption PROVE LifeSpec => []OpenersServed
<1>1. LifeInit => LifeInv BY LifeStarts
<1>2. LifeInv /\ [LifeNext]_lifevars => LifeInv' BY LifeKeeps
<1>3. LifeInv => OpenersServed BY LifeServes
<1> QED BY <1>1, <1>2, <1>3, PTL DEF LifeSpec

\* Of the daemon by itself: as long as one base at a time has a descriptor of a
\* slot, no request is forgotten and the answer to STOP comes after the release
\* (tn_ipc_cmd_stop, tn_reap_dead_clients and the shutdown of daemon_main.c).
THEOREM DaemonRemembers == ASSUME LifeAssumption, ~Shared PROVE LifeSpec => NothingForgotten
<1>1. LifeInit => LifeInv BY LifeStarts
<1>2. LifeInv /\ [LifeNext]_lifevars => LifeInv' BY LifeKeeps
<1>3. LifeInv => RequestsRemembered BY LifeRemembers
<1>4. LifeInv /\ [LifeNext]_lifevars => [StoppedMeansReleased]_lifevars BY LifeReleases
<1> QED BY <1>1, <1>2, <1>3, <1>4, PTL DEF LifeSpec, NothingForgotten

----------------------------------------------------------------------------
(***************************************************************************)
(* Datagrams: what is queued follows what was taken, and the bytes queued  *)
(* behind the first datagram had room.                                     *)
(***************************************************************************)
\* A queued datagram.
Dgram == [id : Nat, len : Nat]
\* The running totals of a queue.
Totals(f, q) ==
    /\ f \in [0 .. Len(q) -> Nat] /\ f[0] = 0
    /\ \A i \in 1 .. Len(q) : f[i] = f[i - 1] + q[i].len

\* Every queue has running totals.
LEMMA TotalsExist == ASSUME NEW q \in Seq(Dgram) PROVE \E f : Totals(f, q)
<1>1. PICK n \in Nat : n = Len(q) OBVIOUS
<1>2. \A i \in 1 .. n : q[i] \in Dgram BY <1>1
<1>3. \A i \in 1 .. n : q[i].len \in Nat BY <1>2 DEF Dgram
<1> DEFINE Run(f, k) == f \in [0 .. k -> Nat] /\ f[0] = 0 /\ \A i \in 1 .. k : f[i] = f[i - 1] + q[i].len
           S == {k \in 0 .. n : ~\E f : Run(f, k)}
<1>4. S = {}
  <2> SUFFICES ASSUME S # {} PROVE FALSE OBVIOUS
  <2>1. S \in SUBSET Nat OBVIOUS
  <2>2. PICK k \in S : \A j \in S : k <= j
    <3> HIDE DEF S
    <3> QED BY <2>1, LeastNat
  <2>3. k # 0
    <3>1. ASSUME k = 0 PROVE FALSE
      <4>1. PICK f : f = [i \in 0 .. 0 |-> 0] OBVIOUS
      <4>2. f \in [0 .. 0 -> Nat] /\ f[0] = 0 BY <4>1
      <4>3. \A i \in 1 .. 0 : FALSE OBVIOUS
      <4>4. Run(f, 0) BY <4>2, <4>3
      <4> QED BY <2>2, <3>1, <4>4
    <3> QED BY <3>1
  <2>4. PICK m \in 0 .. n : m = k - 1 /\ k \in 1 .. n /\ m \notin S
    <3>1. k \in 0 .. n /\ k \in 1 .. n /\ k - 1 \in 0 .. n BY <2>2, <2>3
    <3> HIDE DEF S
    <3> QED BY <2>2, <3>1
  <2>5. PICK f : Run(f, m) BY <2>4
  <2>6. PICK t \in Nat : t = f[m] + q[k].len
    <3>1. m \in 0 .. m BY <2>4
    <3>2. f[m] \in Nat BY <2>5, <3>1
    <3> QED BY <1>3, <2>4, <3>2
  <2>8. PICK g : g = [i \in 0 .. k |-> IF i = k THEN t ELSE f[i]] OBVIOUS
  <2>9. /\ \A i \in 0 .. k : i = k \/ i \in 0 .. m
        /\ \A i \in 1 .. k : i = k \/ i \in 1 .. m
        /\ \A i \in 1 .. k : i - 1 \in 0 .. m /\ i - 1 # k
        /\ \A i \in 0 .. m : i # k /\ i \in 0 .. k
        /\ 0 \in 0 .. m /\ k \in 0 .. k
    BY <2>4
  <2>10. g[k] = t /\ \A i \in 0 .. m : g[i] = f[i] BY <2>8, <2>9
  <2>11. g \in [0 .. k -> Nat] BY <2>5, <2>6, <2>8, <2>9
  <2>12. g[0] = 0 BY <2>5, <2>9, <2>10
  <2>13. ASSUME NEW i \in 1 .. k PROVE g[i] = g[i - 1] + q[i].len
    <3>1. g[i - 1] = f[i - 1] BY <2>9, <2>10
    <3>2. CASE i = k BY <2>4, <2>6, <2>10, <3>1, <3>2
    <3>3. CASE i \in 1 .. m
      <4>1. f[i] = f[i - 1] + q[i].len BY <2>5, <3>3
      <4>2. i \in 0 .. m BY <3>3
      <4> QED BY <2>10, <3>1, <4>1, <4>2
    <3> QED BY <2>9, <3>2, <3>3
  <2>15. Run(g, k) BY <2>11, <2>12, <2>13
  <2> QED BY <2>2, <2>15
<1>5. n \in 0 .. n OBVIOUS
<1>6. PICK f : Run(f, n) BY <1>4, <1>5
<1> QED BY <1>1, <1>6 DEF Totals

\* The bytes queued are the last total.
LEMMA QueuedTotal ==
    ASSUME NEW q \in Seq(Dgram)
    PROVE  \E f : Totals(f, q) /\ QueuedIn(q) = f[Len(q)]
<1>1. PICK f : Totals(f, q) BY TotalsExist
<1>2. PICK n \in Nat : n = Len(q) OBVIOUS
<1>3. f = [i \in 0 .. n |-> f[i]] BY <1>1, <1>2 DEF Totals
<1>4. ASSUME NEW i \in 0 .. n PROVE f[i] = IF i = 0 THEN 0 ELSE f[i - 1] + q[i].len
  <2>1. i # 0 => i \in 1 .. n OBVIOUS
  <2> QED BY <1>1, <1>2, <2>1 DEF Totals
<1>5. f = [i \in 0 .. n |-> IF i = 0 THEN 0 ELSE f[i - 1] + q[i].len] BY <1>3, <1>4, Zenon
<1>6. \E g : g = [i \in 0 .. n |-> IF i = 0 THEN 0 ELSE g[i - 1] + q[i].len] BY <1>5
<1>7. PICK g : /\ g = [i \in 0 .. n |-> IF i = 0 THEN 0 ELSE g[i - 1] + q[i].len]
               /\ QueuedIn(q) = g[n]
  BY <1>2, <1>6, Zenon DEF QueuedIn
<1>8. DOMAIN g = 0 .. n /\ g[0] = 0 /\ \A i \in 1 .. n : g[i] = g[i - 1] + q[i].len
  <2>1. 0 \in 0 .. n /\ \A i \in 1 .. n : i \in 0 .. n /\ i # 0 OBVIOUS
  <2> QED BY <1>7, <2>1
<1>9. g \in [0 .. n -> Nat]
  <2> DEFINE S == {k \in 0 .. n : g[k] \notin Nat}
  <2>1. S = {}
    <3> SUFFICES ASSUME S # {} PROVE FALSE OBVIOUS
    <3>1. S \in SUBSET Nat OBVIOUS
    <3>2. PICK k \in S : \A j \in S : k <= j
      <4> HIDE DEF S
      <4> QED BY <3>1, LeastNat
    <3>3. k # 0 BY <1>8, <3>2
    <3>4. PICK m \in 0 .. n : m = k - 1 /\ k \in 1 .. n /\ m \notin S BY <3>2, <3>3
    <3>5. g[k] = g[m] + q[k].len /\ g[m] \in Nat BY <1>8, <3>4
    <3>6. q[k] \in Dgram BY <1>2, <3>4
    <3>7. q[k].len \in Nat BY <3>6 DEF Dgram
    <3> QED BY <3>2, <3>5, <3>7
  <2>2. \A k \in 0 .. n : g[k] \in Nat BY <2>1
  <2>3. g = [i \in 0 .. n |-> g[i]] BY <1>7
  <2> QED BY <2>2, <2>3
<1> QED BY <1>2, <1>7, <1>8, <1>9 DEF Totals

\* Totals that start c apart and grow alike end c apart.
LEMMA TotalsShift ==
    ASSUME NEW n \in Nat, NEW c \in Nat, NEW f \in [0 .. n -> Nat], NEW g \in [0 .. n -> Nat],
           f[0] = g[0] + c, \A i \in 1 .. n : f[i] - f[i - 1] = g[i] - g[i - 1]
    PROVE  f[n] = g[n] + c
<1> DEFINE S == {k \in 0 .. n : f[k] # g[k] + c}
<1>1. S = {}
  <2> SUFFICES ASSUME S # {} PROVE FALSE OBVIOUS
  <2>1. S \in SUBSET Nat OBVIOUS
  <2>2. PICK k \in S : \A j \in S : k <= j
    <3> HIDE DEF S
    <3> QED BY <2>1, LeastNat
  <2>3. k # 0 BY <2>2
  <2>4. PICK m \in 0 .. n : m = k - 1 /\ k \in 1 .. n /\ m \notin S BY <2>2, <2>3
  <2>5. f[m] = g[m] + c BY <2>4
  <2>6. f[k] - f[m] = g[k] - g[m] BY <2>4
  <2>7. k \in 0 .. n BY <2>4
  <2>8. PICK fk \in Nat, fm \in Nat, gk \in Nat, gm \in Nat : fk = f[k] /\ fm = f[m] /\ gk = g[k] /\ gm = g[m]
    BY <2>4, <2>7
  <2>9. fk = gk + c
    <3>1. fm = gm + c BY <2>5, <2>8
    <3>2. fk - fm = gk - gm BY <2>6, <2>8
    <3> QED BY <3>1, <3>2
  <2>10. f[k] # g[k] + c BY <2>2
  <2> QED BY <2>8, <2>9, <2>10
<1>2. n \in 0 .. n OBVIOUS
<1> QED BY <1>1, <1>2

\* An empty queue holds nothing.
LEMMA QueuedNone ==
    ASSUME NEW q \in Seq(Dgram)
    PROVE  QueuedIn(q) \in Nat /\ (q = <<>> => QueuedIn(q) = 0)
<1>1. PICK f : Totals(f, q) /\ QueuedIn(q) = f[Len(q)] BY QueuedTotal
<1>2. PICK n \in Nat : n = Len(q) OBVIOUS
<1>3. f \in [0 .. n -> Nat] /\ f[0] = 0 BY <1>1, <1>2 DEF Totals
<1>4. QueuedIn(q) = f[n] /\ f[n] \in Nat
  <2>1. n \in 0 .. n OBVIOUS
  <2> QED BY <1>1, <1>2, <1>3, <2>1
<1>5. q = <<>> => QueuedIn(q) = 0
  <2> SUFFICES ASSUME q = <<>> PROVE n = 0 BY <1>3, <1>4
  <2> QED BY <1>2
<1> QED BY <1>4, <1>5

\* Totals of the same lengths are the same.
LEMMA QueuedMore ==
    ASSUME NEW q \in Seq(Dgram), NEW a \in Seq(Dgram), NEW n \in Nat,
           Len(q) = n, Len(a) = n + 1, \A i \in 1 .. n : a[i] = q[i]
    PROVE  QueuedIn(a) = QueuedIn(q) + a[n + 1].len
<1>1. PICK f : Totals(f, q) /\ QueuedIn(q) = f[n] BY QueuedTotal
<1>2. PICK g : Totals(g, a) /\ QueuedIn(a) = g[n + 1] BY QueuedTotal
<1>3. f \in [0 .. n -> Nat] /\ f[0] = 0 /\ \A i \in 1 .. n : f[i] = f[i - 1] + q[i].len
  BY <1>1 DEF Totals
<1>4. g \in [0 .. n + 1 -> Nat] /\ g[0] = 0 /\ \A i \in 1 .. n + 1 : g[i] = g[i - 1] + a[i].len
  BY <1>2 DEF Totals
<1>5. \A i \in 1 .. n : q[i] \in Dgram OBVIOUS
<1>6. \A i \in 1 .. n : q[i].len \in Nat BY <1>5 DEF Dgram
<1>7. PICK b : b = [i \in 0 .. n |-> g[i]] OBVIOUS
<1>8. \A i \in 0 .. n : i \in 0 .. n + 1 OBVIOUS
<1>9. b \in [0 .. n -> Nat] BY <1>4, <1>7, <1>8
<1>10. b[0] = f[0] + 0 BY <1>3, <1>4, <1>7
<1>11. ASSUME NEW i \in 1 .. n PROVE b[i] - b[i - 1] = f[i] - f[i - 1]
  <2>1. i \in 0 .. n /\ i - 1 \in 0 .. n /\ i \in 1 .. n + 1 OBVIOUS
  <2>2. b[i] = g[i] /\ b[i - 1] = g[i - 1] BY <1>7, <2>1
  <2>3. g[i] = g[i - 1] + q[i].len /\ f[i] = f[i - 1] + q[i].len BY <1>3, <1>4, <2>1
  <2>4. g[i - 1] \in Nat /\ f[i - 1] \in Nat /\ q[i].len \in Nat BY <1>3, <1>4, <1>6, <1>8, <2>1
  <2> QED BY <2>2, <2>3, <2>4
<1>12. \A i \in 1 .. n : b[i] - b[i - 1] = f[i] - f[i - 1] BY <1>11
<1>13. f \in [0 .. n -> Nat] /\ 0 \in Nat BY <1>3
<1>14. b[n] = f[n] + 0
  <2> HIDE <1>7, <1>4, <1>3
  <2> QED BY <1>9, <1>10, <1>12, <1>13, TotalsShift, ZenonT(30)
<1>15. n \in 0 .. n /\ n + 1 \in 1 .. n + 1 /\ n + 1 - 1 = n OBVIOUS
<1>16. g[n] = f[n] /\ f[n] \in Nat BY <1>3, <1>7, <1>14, <1>15
<1>17. g[n + 1] = g[n] + a[n + 1].len BY <1>4, <1>15
<1> QED BY <1>1, <1>2, <1>16, <1>17

\* Without its head a queue holds that much less.
LEMMA QueuedLess ==
    ASSUME NEW q \in Seq(Dgram), NEW a \in Seq(Dgram), NEW m \in Nat,
           Len(q) = m + 1, Len(a) = m, \A i \in 1 .. m : a[i] = q[i + 1]
    PROVE  QueuedIn(q) = QueuedIn(a) + q[1].len
<1>1. PICK f : Totals(f, q) /\ QueuedIn(q) = f[m + 1] BY QueuedTotal
<1>2. PICK g : Totals(g, a) /\ QueuedIn(a) = g[m] BY QueuedTotal
<1>3. f \in [0 .. m + 1 -> Nat] /\ f[0] = 0 /\ \A i \in 1 .. m + 1 : f[i] = f[i - 1] + q[i].len
  BY <1>1 DEF Totals
<1>4. g \in [0 .. m -> Nat] /\ g[0] = 0 /\ \A i \in 1 .. m : g[i] = g[i - 1] + a[i].len
  BY <1>2 DEF Totals
<1>5. \A i \in 1 .. m + 1 : q[i] \in Dgram OBVIOUS
<1>6. \A i \in 1 .. m + 1 : q[i].len \in Nat BY <1>5 DEF Dgram
<1>7. PICK c \in Nat : c = q[1].len BY <1>6
<1>8. PICK b : b = [i \in 0 .. m |-> f[i + 1]] OBVIOUS
<1>9. \A i \in 0 .. m : i + 1 \in 0 .. m + 1 OBVIOUS
<1>10. b \in [0 .. m -> Nat] BY <1>3, <1>8, <1>9
<1>11. f[1] = c
  <2>1. 1 \in 1 .. m + 1 /\ 1 - 1 = 0 OBVIOUS
  <2> QED BY <1>3, <1>7, <2>1
<1>12. b[0] = g[0] + c BY <1>4, <1>8, <1>11
<1>13. ASSUME NEW i \in 1 .. m PROVE b[i] - b[i - 1] = g[i] - g[i - 1]
  <2>1. i + 1 \in 1 .. m + 1 /\ i + 1 - 1 = i /\ i - 1 + 1 = i /\ i \in 0 .. m /\ i - 1 \in 0 .. m
        /\ i \in 0 .. m + 1 OBVIOUS
  <2>2. b[i] = f[i + 1] /\ b[i - 1] = f[i] BY <1>8, <2>1
  <2>3. f[i + 1] = f[i] + q[i + 1].len /\ g[i] = g[i - 1] + q[i + 1].len
    <3>0. PICK j \in 1 .. m + 1 : j = i + 1 /\ j - 1 = i BY <2>1
    <3>1. f[j] = f[j - 1] + q[j].len BY <1>3
    <3>2. a[i] = q[i + 1] OBVIOUS
    <3>3. g[i] = g[i - 1] + a[i].len BY <1>4
    <3> QED BY <3>0, <3>1, <3>2, <3>3
  <2>4. f[i] \in Nat /\ g[i - 1] \in Nat /\ q[i + 1].len \in Nat BY <1>3, <1>4, <1>6, <2>1
  <2> QED BY <2>2, <2>3, <2>4
<1>14. \A i \in 1 .. m : b[i] - b[i - 1] = g[i] - g[i - 1] BY <1>13
<1>15. g \in [0 .. m -> Nat] BY <1>4
<1>16. b[m] = g[m] + c
  <2> HIDE <1>8, <1>7, <1>4, <1>3
  <2> QED BY <1>10, <1>12, <1>14, <1>15, TotalsShift, ZenonT(30)
<1>17. b[m] = f[m + 1] BY <1>8
<1> QED BY <1>1, <1>2, <1>7, <1>16, <1>17

\* One datagram more, one less.
LEMMA QueuedSteps ==
    ASSUME NEW q \in Seq(Dgram)
    PROVE  /\ \A x \in Dgram : QueuedIn(Append(q, x)) = QueuedIn(q) + x.len
           /\ q # <<>> => QueuedIn(q) = QueuedIn(Tail(q)) + q[1].len
<1>1. ASSUME NEW x \in Dgram PROVE QueuedIn(Append(q, x)) = QueuedIn(q) + x.len
  <2>1. Append(q, x) \in Seq(Dgram) OBVIOUS
  <2>2. PICK a \in Seq(Dgram) : a = Append(q, x) BY <2>1
  <2>3. PICK n \in Nat : n = Len(q) OBVIOUS
  <2>4. Len(a) = n + 1 /\ a[n + 1] = x BY <2>2, <2>3, AppendProperties
  <2>5. \A i \in 1 .. n : a[i] = q[i] BY <2>2, <2>3, AppendProperties
  <2>6. Len(q) = n BY <2>3
  <2>7. QueuedIn(a) = QueuedIn(q) + a[n + 1].len BY <2>4, <2>5, <2>6, QueuedMore
  <2> QED BY <2>2, <2>4, <2>7
<1>2. ASSUME q # <<>> PROVE QueuedIn(q) = QueuedIn(Tail(q)) + q[1].len
  <2>1. Tail(q) \in Seq(Dgram) BY <1>2, HeadTailProperties
  <2>2. PICK a \in Seq(Dgram) : a = Tail(q) BY <2>1
  <2>3. Len(q) \in Nat /\ Len(q) # 0 BY <1>2, EmptySeq
  <2>4. PICK m \in Nat : Len(q) = m + 1
    <3>1. Len(q) - 1 \in Nat /\ Len(q) = Len(q) - 1 + 1 BY <2>3
    <3> QED BY <3>1
  <2>5. Len(a) = m BY <1>2, <2>2, <2>4, HeadTailProperties
  <2>6. \A i \in 1 .. m : a[i] = q[i + 1] BY <1>2, <2>2, <2>5, HeadTailProperties
  <2>7. QueuedIn(q) = QueuedIn(a) + q[1].len BY <2>4, <2>5, <2>6, QueuedLess
  <2> QED BY <2>2, <2>7
<1> QED BY <1>1, <1>2

----------------------------------------------------------------------------
\* The larger of two numbers.
LEMMA MaxOfTwo ==
    ASSUME NEW a \in Nat, NEW b \in Nat
    PROVE  Max({a, b}) \in {a, b} /\ a <= Max({a, b}) /\ b <= Max({a, b})
<1>1. \E x \in {a, b} : \A y \in {a, b} : x >= y
  <2>1. CASE a >= b BY <2>1
  <2>2. CASE ~(a >= b) BY <2>2
  <2> QED BY <2>1, <2>2
<1>2. Max({a, b}) \in {a, b} /\ \A y \in {a, b} : Max({a, b}) >= y BY <1>1 DEF Max
<1>3. Max({a, b}) \in Nat BY <1>2
<1> QED BY <1>2, <1>3

\* Types of the two ends and of the queue.
DgTypes ==
    /\ kind \in {"udp", "raw"} /\ local \in Endpoint /\ remote \in Endpoint
    /\ dg_rx \in Seq(Dgram) /\ taken \in Seq(Nat) /\ accepted \in Nat
    /\ widest \in Nat /\ opt_rcvbuf \in Nat
\* What was taken and what is queued are the datagrams accepted, in order.
DgOrder ==
    /\ accepted = Len(taken) + Len(dg_rx)
    /\ \A i \in 1 .. Len(taken) : taken[i] = i
    /\ \A i \in 1 .. Len(dg_rx) : dg_rx[i].id = Len(taken) + i
\* The queue keeps to the bounds that held while it filled.
DgRoom ==
    /\ Len(dg_rx) <= TN_MAX_RX_QUEUE_PER_SOCKET
    /\ dg_rx # <<>> /\ widest # 0 => opt_rcvbuf # 0 /\ opt_rcvbuf <= widest
    /\ Len(dg_rx) > 1 /\ widest # 0 => QueuedIn(dg_rx) <= widest \/ QueuedIn(dg_rx) <= dg_rx[1].len
\* Together.
DgInv == DgTypes /\ DgOrder /\ DgRoom

\* A new socket has received nothing.
LEMMA DgStarts == ASSUME DgAssumption, DgInit PROVE DgInv
<1>1. DgTypes BY DEF DgAssumption, DgInit, DgTypes, Endpoint, Dgram
<1>2. Len(dg_rx) = 0 /\ Len(taken) = 0 /\ accepted = 0 BY DEF DgInit
<1>3. DgOrder BY <1>2 DEF DgOrder
<1>4. DgRoom BY <1>2 DEF DgInit, DgRoom, DgAssumption
<1> QED BY <1>1, <1>3, <1>4 DEF DgInv

\* bind and connect leave the queue alone and name known ends.
LEMMA DgKeepsNames ==
    ASSUME DgAssumption, DgInv, NEW e \in Endpoint, tn_ipc_cmd_bind(e) \/ tn_ipc_cmd_connect(e)
    PROVE  DgInv'
<1>1. OfKind(e) \in Endpoint BY DEF OfKind, Endpoint, DgAssumption
<1>2. UNCHANGED queuev /\ UNCHANGED kind BY DEF tn_ipc_cmd_bind, tn_ipc_cmd_connect
<1>3. remote' \in Endpoint /\ local' \in Endpoint
  <2>1. CASE tn_ipc_cmd_bind(e) BY <1>1, <2>1 DEF tn_ipc_cmd_bind, DgInv, DgTypes
  <2>2. CASE tn_ipc_cmd_connect(e)
    <3>1. remote' \in Endpoint BY <1>1, <2>2 DEF tn_ipc_cmd_connect
    <3>2. local \in Endpoint BY DEF DgInv, DgTypes
    <3>3. \A p \in DgPorts \ {0} : [local EXCEPT !.port = p] \in Endpoint BY <3>2 DEF Endpoint
    <3> QED BY <2>2, <3>1, <3>2, <3>3 DEF tn_ipc_cmd_connect
  <2> QED BY <2>1, <2>2
<1>4. UNCHANGED <<dg_rx, taken, accepted, widest, opt_rcvbuf>> BY <1>2 DEF queuev
<1>5. DgTypes' BY <1>2, <1>3, <1>4 DEF DgInv, DgTypes
<1>6. DgOrder' BY <1>4 DEF DgInv, DgOrder
<1>7. DgRoom' BY <1>4 DEF DgInv, DgRoom
<1> QED BY <1>5, <1>6, <1>7 DEF DgInv

\* A datagram joins the queue while both bounds allow it.
LEMMA DgKeepsArrives ==
    ASSUME DgAssumption, DgInv, NEW n \in DgLens, DgArrives(n)
    PROVE  DgInv'
<1>0. /\ dg_rx \in Seq(Dgram) /\ taken \in Seq(Nat) /\ accepted \in Nat /\ widest \in Nat /\ opt_rcvbuf \in Nat
      /\ n \in Nat
  BY DEF DgInv, DgTypes, DgAssumption
<1>1. /\ Len(dg_rx) < TN_MAX_RX_QUEUE_PER_SOCKET /\ ~tn_dgram_rcvbuf_full(n)
      /\ accepted' = accepted + 1 /\ dg_rx' = Append(dg_rx, [id |-> accepted', len |-> n])
      /\ widest' = (IF dg_rx = <<>> THEN opt_rcvbuf ELSE widest)
      /\ UNCHANGED <<kind, local, remote, opt_rcvbuf, taken>>
  BY DEF DgArrives
<1>2. PICK x \in Dgram : x = [id |-> accepted + 1, len |-> n]
  <2>1. accepted + 1 \in Nat BY <1>0
  <2>2. [id |-> accepted + 1, len |-> n] \in Dgram BY <1>0, <2>1 DEF Dgram
  <2> QED BY <2>2
<1>3. x.id = accepted + 1 /\ x.len = n BY <1>2
<1>4. dg_rx' = Append(dg_rx, x) BY <1>1, <1>2
<1>5. PICK k \in Nat : k = Len(dg_rx) BY <1>0
<1>6. dg_rx' \in Seq(Dgram) BY <1>0, <1>4
<1>7. Len(dg_rx') = k + 1 /\ dg_rx'[k + 1] = x BY <1>0, <1>4, <1>5, AppendProperties
<1>8. \A i \in 1 .. k : dg_rx'[i] = dg_rx[i] BY <1>0, <1>4, <1>5, AppendProperties
<1>9. DgTypes' BY <1>0, <1>1, <1>6 DEF DgInv, DgTypes
<1>10. DgOrder'
  <2>1. PICK t \in Nat : t = Len(taken) /\ Len(taken') = t /\ taken' = taken BY <1>0, <1>1
  <2>2. accepted = t + k /\ \A i \in 1 .. k : dg_rx[i].id = t + i BY <1>5, <2>1 DEF DgInv, DgOrder
  <2>3. accepted' = t + (k + 1) BY <1>1, <2>2
  <2>4. \A i \in 1 .. k + 1 : i \in 1 .. k \/ i = k + 1 OBVIOUS
  <2>5. \A i \in 1 .. k : dg_rx'[i].id = t + i BY <1>8, <2>2
  <2>6. dg_rx'[k + 1].id = t + (k + 1) BY <1>3, <1>7, <2>2
  <2>7. \A i \in 1 .. k + 1 : dg_rx'[i].id = t + i BY <2>4, <2>5, <2>6
  <2>8. \A i \in 1 .. Len(taken) : taken[i] = i BY DEF DgInv, DgOrder
  <2> QED BY <1>7, <2>1, <2>3, <2>7, <2>8 DEF DgOrder
<1>11. DgRoom'
  <2>1. k + 1 <= TN_MAX_RX_QUEUE_PER_SOCKET BY <1>1, <1>5 DEF DgAssumption
  <2>2. QueuedIn(dg_rx') = QueuedIn(dg_rx) + n BY <1>0, <1>3, <1>4, QueuedSteps
  <2>3. QueuedIn(dg_rx) \in Nat BY <1>0, QueuedNone
  <2>4. CASE dg_rx = <<>>
    <3>1. k = 0 BY <1>5, <2>4
    <3>2. widest' = opt_rcvbuf /\ opt_rcvbuf' = opt_rcvbuf BY <1>1, <2>4
    <3> QED BY <1>0, <1>7, <2>1, <3>1, <3>2 DEF DgRoom
  <2>5. CASE dg_rx # <<>>
    <3>1. widest' = widest /\ opt_rcvbuf' = opt_rcvbuf BY <1>1, <2>5
    <3>2. widest # 0 => opt_rcvbuf # 0 /\ opt_rcvbuf <= widest BY <2>5 DEF DgInv, DgRoom
    <3>3. opt_rcvbuf # 0 => ~(QueuedIn(dg_rx) + n > opt_rcvbuf)
      BY <1>1, <2>5 DEF tn_dgram_rcvbuf_full, Queued
    <3>4. widest' # 0 => QueuedIn(dg_rx') <= widest' BY <1>0, <2>2, <2>3, <3>1, <3>2, <3>3
    <3> QED BY <1>7, <2>1, <3>1, <3>2, <3>4 DEF DgRoom
  <2> QED BY <2>4, <2>5
<1> QED BY <1>9, <1>10, <1>11 DEF DgInv

\* A receive takes the head, a peek nothing.
LEMMA DgKeepsReceive ==
    ASSUME DgAssumption, DgInv, NEW peek \in BOOLEAN, tn_ipc_cmd_recvfrom(peek)
    PROVE  DgInv'
<1>0. /\ dg_rx \in Seq(Dgram) /\ taken \in Seq(Nat) /\ accepted \in Nat /\ widest \in Nat /\ opt_rcvbuf \in Nat
  BY DEF DgInv, DgTypes
<1>1. dg_rx # <<>> /\ UNCHANGED <<kind, local, remote, opt_rcvbuf, accepted, widest>>
  BY DEF tn_ipc_cmd_recvfrom
<1>2. CASE peek = TRUE
  <2>1. UNCHANGED <<kind, local, remote, opt_rcvbuf, accepted, widest, dg_rx, taken>>
    BY <1>1, <1>2 DEF tn_ipc_cmd_recvfrom
  <2>2. DgTypes' BY <2>1 DEF DgInv, DgTypes
  <2>3. DgOrder' BY <2>1 DEF DgInv, DgOrder
  <2>4. DgRoom' BY <2>1 DEF DgInv, DgRoom
  <2> QED BY <2>2, <2>3, <2>4 DEF DgInv
<1>3. CASE peek = FALSE
  <2>1. dg_rx' = Tail(dg_rx) /\ taken' = Append(taken, Head(dg_rx).id)
    BY <1>3 DEF tn_ipc_cmd_recvfrom
  <2>2. Len(dg_rx) \in Nat /\ Len(dg_rx) # 0 BY <1>0, <1>1, EmptySeq
  <2>3. PICK m \in Nat : Len(dg_rx) = m + 1
    <3>1. Len(dg_rx) - 1 \in Nat /\ Len(dg_rx) = Len(dg_rx) - 1 + 1 BY <2>2
    <3> QED BY <3>1
  <2>4. dg_rx' \in Seq(Dgram) /\ Len(dg_rx') = m BY <1>0, <1>1, <2>1, <2>3, HeadTailProperties
  <2>5. \A i \in 1 .. m : dg_rx'[i] = dg_rx[i + 1]
    BY <1>0, <1>1, <2>1, <2>4, HeadTailProperties
  <2>6. Head(dg_rx) = dg_rx[1] BY <1>0, <1>1
  <2>7. dg_rx[1] \in Dgram BY <1>0, <2>3
  <2>8. dg_rx[1].id \in Nat /\ dg_rx[1].len \in Nat BY <2>7 DEF Dgram
  <2>9. PICK t \in Nat : t = Len(taken) BY <1>0
  <2>10. PICK z \in Nat : z = dg_rx[1].id BY <2>8
  <2>11. taken' = Append(taken, z) BY <2>1, <2>6, <2>10
  <2>12. taken' \in Seq(Nat) BY <1>0, <2>11
  <2>13. Len(taken') = t + 1 /\ taken'[t + 1] = z BY <1>0, <2>9, <2>11, AppendProperties
  <2>14. \A i \in 1 .. t : taken'[i] = taken[i] BY <1>0, <2>9, <2>11, AppendProperties
  <2>15. DgTypes' BY <1>0, <1>1, <2>4, <2>12 DEF DgInv, DgTypes
  <2>16. accepted = t + (m + 1) /\ \A i \in 1 .. m + 1 : dg_rx[i].id = t + i
    BY <2>3, <2>9 DEF DgInv, DgOrder
  <2>17. \A i \in 1 .. t : taken[i] = i BY <2>9 DEF DgInv, DgOrder
  <2>18. DgOrder'
    <3>1. accepted' = (t + 1) + m BY <1>1, <2>16
    <3>2. z = t + 1 BY <2>10, <2>16
    <3>3. ASSUME NEW i \in 1 .. t + 1 PROVE taken'[i] = i
      <4>1. i \in 1 .. t \/ i = t + 1 OBVIOUS
      <4> QED BY <2>13, <2>14, <2>17, <3>2, <4>1
    <3>4. ASSUME NEW i \in 1 .. m PROVE dg_rx'[i].id = (t + 1) + i
      <4>1. i + 1 \in 1 .. m + 1 /\ t + (i + 1) = (t + 1) + i OBVIOUS
      <4>2. dg_rx[i + 1].id = t + (i + 1) BY <2>16, <4>1
      <4> QED BY <2>5, <4>1, <4>2
    <3> QED BY <2>4, <2>13, <3>1, <3>3, <3>4 DEF DgOrder
  <2>19. DgRoom'
    <3>1. m + 1 <= TN_MAX_RX_QUEUE_PER_SOCKET BY <2>3 DEF DgInv, DgRoom
    <3>2. m <= TN_MAX_RX_QUEUE_PER_SOCKET BY <3>1 DEF DgAssumption
    <3>3. widest' = widest /\ opt_rcvbuf' = opt_rcvbuf BY <1>1
    <3>4. widest # 0 => opt_rcvbuf # 0 /\ opt_rcvbuf <= widest BY <1>1 DEF DgInv, DgRoom
    <3>5. QueuedIn(dg_rx) = QueuedIn(dg_rx') + dg_rx[1].len BY <1>0, <1>1, <2>1, QueuedSteps
    <3>6. QueuedIn(dg_rx) \in Nat /\ QueuedIn(dg_rx') \in Nat BY <1>0, <2>4, QueuedNone
    <3>7. ASSUME m > 1, widest # 0 PROVE QueuedIn(dg_rx') <= widest
      <4>1. m + 1 > 1 BY <3>7
      <4>2. QueuedIn(dg_rx) <= widest \/ QueuedIn(dg_rx) <= dg_rx[1].len
        BY <2>3, <3>7, <4>1 DEF DgInv, DgRoom
      <4> QED BY <1>0, <2>8, <3>5, <3>6, <4>2
    <3> QED BY <2>4, <3>2, <3>3, <3>4, <3>7 DEF DgRoom
  <2> QED BY <2>15, <2>18, <2>19 DEF DgInv
<1> QED BY <1>2, <1>3

\* SO_RCVBUF changes while datagrams are queued.
LEMMA DgKeepsRcvBuf ==
    ASSUME DgAssumption, DgInv, NEW n \in RcvBufs, SetRcvBuf(n)
    PROVE  DgInv'
<1>0. dg_rx \in Seq(Dgram) /\ widest \in Nat /\ opt_rcvbuf \in Nat /\ n \in Nat
  BY DEF DgInv, DgTypes, DgAssumption
<1>1. /\ opt_rcvbuf' = n /\ widest' = (IF n = 0 \/ widest = 0 THEN 0 ELSE Max({n, widest}))
      /\ UNCHANGED <<kind, local, remote, dg_rx, accepted, taken>>
  BY DEF SetRcvBuf
<1>2. Max({n, widest}) \in {n, widest} /\ n <= Max({n, widest}) /\ widest <= Max({n, widest})
  BY <1>0, MaxOfTwo
<1>3. PICK w \in Nat : w = Max({n, widest}) BY <1>0, <1>2
<1>4. widest' \in Nat /\ (widest' # 0 => n # 0 /\ n <= widest' /\ widest # 0 /\ widest <= widest')
  BY <1>0, <1>1, <1>2, <1>3
<1>5. DgTypes' BY <1>0, <1>1, <1>4 DEF DgInv, DgTypes
<1>6. DgOrder' BY <1>1 DEF DgInv, DgOrder
<1>7. DgRoom'
  <2>1. dg_rx' = dg_rx /\ opt_rcvbuf' = n BY <1>1
  <2>2. Len(dg_rx) <= TN_MAX_RX_QUEUE_PER_SOCKET BY DEF DgInv, DgRoom
  <2>3. QueuedIn(dg_rx) \in Nat BY <1>0, QueuedNone
  <2>4. Len(dg_rx) > 1 /\ widest' # 0 => QueuedIn(dg_rx) <= widest' \/ QueuedIn(dg_rx) <= dg_rx[1].len
    <3>1. SUFFICES ASSUME Len(dg_rx) > 1, widest' # 0
          PROVE QueuedIn(dg_rx) <= widest' \/ QueuedIn(dg_rx) <= dg_rx[1].len
      OBVIOUS
    <3>2. QueuedIn(dg_rx) <= widest \/ QueuedIn(dg_rx) <= dg_rx[1].len BY <1>4, <3>1 DEF DgInv, DgRoom
    <3>3. widest <= widest' BY <1>4, <3>1
    <3> QED BY <1>0, <1>4, <2>3, <3>2, <3>3
  <2> QED BY <1>4, <2>1, <2>2, <2>4 DEF DgRoom
<1> QED BY <1>5, <1>6, <1>7 DEF DgInv

\* Every step of a UDP or RAW socket keeps the queue.
LEMMA DgKeeps == ASSUME DgAssumption, DgInv, [DgNext]_dgvars PROVE DgInv'
<1>1. CASE DgNext
  <2>1. ASSUME NEW e \in Endpoint, tn_ipc_cmd_bind(e) \/ tn_ipc_cmd_connect(e) PROVE DgInv'
    BY <2>1, DgKeepsNames
  <2>2. ASSUME NEW n \in DgLens, DgArrives(n) PROVE DgInv' BY <2>2, DgKeepsArrives
  <2>3. ASSUME NEW peek \in BOOLEAN, tn_ipc_cmd_recvfrom(peek) PROVE DgInv' BY <2>3, DgKeepsReceive
  <2>4. ASSUME NEW n \in RcvBufs, SetRcvBuf(n) PROVE DgInv' BY <2>4, DgKeepsRcvBuf
  <2> QED BY <1>1, <2>1, <2>2, <2>3, <2>4, Zenon DEF DgNext
<1>2. CASE UNCHANGED dgvars
  <2>1. DgTypes' BY <1>2 DEF DgInv, DgTypes, dgvars
  <2>2. DgOrder' BY <1>2 DEF DgInv, DgOrder, dgvars
  <2>3. DgRoom' BY <1>2 DEF DgInv, DgRoom, dgvars
  <2> QED BY <2>1, <2>2, <2>3 DEF DgInv
<1> QED BY <1>1, <1>2

\* The two send paths decide alike.
LEMMA DgPaths == ASSUME DgAssumption, DgInv PROVE SendPathsAgree
<1>0. kind \in {"udp", "raw"} /\ remote \in Endpoint BY DEF DgInv, DgTypes
<1>1. NoName \notin Endpoint /\ NoName.addr = -1
  <2>1. NoName.addr = -1 /\ -1 \notin Nat BY DEF NoName
  <2>2. \A e \in Endpoint : e.addr \in Nat BY DEF Endpoint, DgAssumption
  <2> QED BY <2>1, <2>2
<1>2. /\ Refused("EOPNOTSUPP").err # "" /\ Refused("EINVAL").err # ""
      /\ Refused("EISCONN").err # "" /\ Refused("EDESTADDRREQ").err # ""
      /\ Refused("EMSGSIZE").err # ""
  BY DEF Refused
<1>3. ASSUME NEW to \in Endpoint \cup {NoName}, NEW len \in DgLens,
             NEW oob \in BOOLEAN, NEW short \in BOOLEAN
      PROVE  LET a == tn_ipc_cmd_sendto(to, len)
                 b == tn_ipc_cmd_sendmsg(to, len, oob, short)
             IN /\ oob => b = Refused("EOPNOTSUPP")
                /\ ~oob /\ to # NoName /\ short => b = Refused("EINVAL")
                /\ ~oob /\ ~(to # NoName /\ short) =>
                     /\ kind = "udp" \/ a.err = "" => a = b
                     /\ kind = "raw" /\ a.err # "" =>
                          /\ b.err = ""
                          /\ b.to.addr = IF to = NoName THEN 0 ELSE to.addr
                /\ kind = "udp" /\ b.err = "" => b.to.addr # 0 \/ b.to = to
  <2>1. PICK d : d = (IF to = NoName THEN remote ELSE OfKind(to)) OBVIOUS
  <2>2. PICK h : h = Handed(to, len) OBVIOUS
  <2>3. h = Sent(d, send_len(len)) BY <2>1, <2>2 DEF Handed
  <2>4. h.err = "" /\ h.to = d BY <2>3 DEF Sent
  <2>5. PICK a : a = tn_ipc_cmd_sendto(to, len) OBVIOUS
  <2>6. PICK b : b = tn_ipc_cmd_sendmsg(to, len, oob, short) OBVIOUS
  <2>7. oob => b = Refused("EOPNOTSUPP") BY <2>6 DEF tn_ipc_cmd_sendmsg
  <2>8. ~oob /\ to # NoName /\ short => b = Refused("EINVAL") BY <2>6 DEF tn_ipc_cmd_sendmsg
  <2>9. ASSUME ~oob, ~(to # NoName /\ short), kind = "udp" PROVE a = b
    BY <2>5, <2>6, <2>9 DEF tn_ipc_cmd_sendto, tn_ipc_cmd_sendmsg
  <2>10. ASSUME ~oob, ~(to # NoName /\ short), kind = "raw" PROVE b = h
    BY <2>2, <2>6, <2>10 DEF tn_ipc_cmd_sendmsg
  <2>11. ASSUME kind = "raw" PROVE a = h \/ (to # NoName /\ is_connected /\ a = Refused("EISCONN"))
                                     \/ (to = NoName /\ ~is_connected /\ a = Refused("EDESTADDRREQ"))
    BY <2>2, <2>5, <2>11 DEF tn_ipc_cmd_sendto
  <2>12. ASSUME kind = "raw", a # h PROVE a.err # "" /\ d.addr = IF to = NoName THEN 0 ELSE to.addr
    <3>1. a.err # "" BY <1>2, <2>11, <2>12
    <3>2. to = NoName => d.addr = 0 BY <1>0, <2>1, <2>11, <2>12 DEF is_connected
    <3>3. to # NoName => d.addr = to.addr BY <2>1 DEF OfKind, Endpoint
    <3> QED BY <3>1, <3>2, <3>3
  <2>13. ASSUME kind = "udp", b.err = "" PROVE b.to.addr # 0 \/ b.to = to
    <3>1. b = h /\ (to = NoName => is_connected)
      BY <1>2, <2>2, <2>6, <2>13 DEF tn_ipc_cmd_sendmsg
    <3>2. CASE to = NoName BY <2>1, <2>4, <3>1, <3>2 DEF is_connected
    <3>3. CASE to # NoName BY <2>1, <2>4, <2>13, <3>1, <3>3 DEF OfKind
    <3> QED BY <3>2, <3>3
  <2>14. ~oob /\ ~(to # NoName /\ short) =>
            /\ kind = "udp" \/ a.err = "" => a = b
            /\ kind = "raw" /\ a.err # "" =>
                 /\ b.err = ""
                 /\ b.to.addr = IF to = NoName THEN 0 ELSE to.addr
    BY <1>0, <2>4, <2>9, <2>10, <2>12
  <2> QED BY <2>5, <2>6, <2>7, <2>8, <2>13, <2>14
<1>4. ASSUME kind = "udp", remote.addr # 0
      PROVE  (tn_ipc_cmd_getpeername = NoName) = (tn_ipc_cmd_sendto(NoName, 0).err = "EDESTADDRREQ")
  <2>1. is_connected <=> remote.port # 0 BY <1>4 DEF is_connected
  <2>2. tn_ipc_cmd_getpeername = NoName <=> remote.port = 0
    BY <1>0, <1>1, <1>4 DEF tn_ipc_cmd_getpeername
  <2>3. CASE is_connected
    <3>1. \/ tn_ipc_cmd_sendto(NoName, 0) = Refused("EMSGSIZE")
          \/ tn_ipc_cmd_sendto(NoName, 0) = Sent(remote, send_len(0))
      BY <2>3 DEF tn_ipc_cmd_sendto, Handed
    <3>2. Refused("EMSGSIZE").err = "EMSGSIZE" /\ Sent(remote, send_len(0)).err = ""
      BY DEF Refused, Sent
    <3>3. tn_ipc_cmd_sendto(NoName, 0).err # "EDESTADDRREQ" BY <3>1, <3>2
    <3> QED BY <2>1, <2>2, <2>3, <3>3
  <2>4. CASE ~is_connected
    <3>1. tn_ipc_cmd_sendto(NoName, 0) = Refused("EDESTADDRREQ") BY <2>4 DEF tn_ipc_cmd_sendto
    <3>2. Refused("EDESTADDRREQ").err = "EDESTADDRREQ" BY DEF Refused
    <3>3. tn_ipc_cmd_sendto(NoName, 0).err = "EDESTADDRREQ" BY <3>1, <3>2
    <3> QED BY <2>1, <2>2, <2>4, <3>3
  <2> QED BY <2>3, <2>4
<1> QED BY <1>3, <1>4, Zenon DEF SendPathsAgree

\* What was received and what is queued, end to end, is what was accepted.
LEMMA DgInOrder == ASSUME DgAssumption, DgInv PROVE DatagramsInOrder
<1>0. /\ dg_rx \in Seq(Dgram) /\ taken \in Seq(Nat) /\ accepted \in Nat /\ widest \in Nat
  BY DEF DgInv, DgTypes
<1>1. PICK k \in Nat, t \in Nat : k = Len(dg_rx) /\ t = Len(taken) BY <1>0
<1>2. DOMAIN dg_rx = 1 .. k BY <1>0, <1>1
<1>3. PICK a : a = [i \in 1 .. k |-> dg_rx[i].id] OBVIOUS
<1>4. accepted = t + k /\ \A i \in 1 .. k : dg_rx[i].id = t + i BY <1>1 DEF DgInv, DgOrder
<1>5. \A i \in 1 .. t : taken[i] = i BY <1>1 DEF DgInv, DgOrder
<1>6. a = [i \in 1 .. k |-> t + i] BY <1>3, <1>4
<1>7. a \in Seq(Nat) /\ Len(a) = k
  <2>1. a \in [1 .. k -> Nat] BY <1>6
  <2>2. a \in Seq(Nat) BY <2>1
  <2> QED BY <1>6, <2>2
<1>8. taken \o a \in Seq(Nat) /\ Len(taken \o a) = t + k BY <1>0, <1>1, <1>7, ConcatProperties
<1>9. PICK b \in Seq(Nat) : b = [i \in 1 .. t + k |-> i]
  <2>1. [i \in 1 .. t + k |-> i] \in [1 .. t + k -> Nat] OBVIOUS
  <2>2. [i \in 1 .. t + k |-> i] \in Seq(Nat) BY <2>1
  <2> QED BY <2>2
<1>10. Len(b) = t + k BY <1>9
<1>11. ASSUME NEW i \in 1 .. t + k PROVE (taken \o a)[i] = b[i]
  <2>1. (taken \o a)[i] = IF i <= t THEN taken[i] ELSE a[i - t] BY <1>0, <1>1, <1>7, ConcatProperties
  <2>2. CASE i <= t BY <1>5, <1>9, <2>1, <2>2
  <2>3. CASE ~(i <= t)
    <3>1. i - t \in 1 .. k /\ t + (i - t) = i BY <2>3
    <3>2. a[i - t] = i BY <1>6, <3>1
    <3> QED BY <1>9, <2>1, <2>3, <3>2
  <2> QED BY <2>2, <2>3
<1>12. taken \o a = b BY <1>8, <1>9, <1>10, <1>11, SeqEqual
<1>13. taken \o [i \in DOMAIN dg_rx |-> dg_rx[i].id] = [i \in 1 .. accepted |-> i]
  BY <1>2, <1>3, <1>4, <1>9, <1>12
<1>14. ASSUME Len(dg_rx) > 1, widest # 0 PROVE Queued <= Max({widest, dg_rx[1].len})
  <2>1. dg_rx[1] \in Dgram BY <1>0, <1>1, <1>14
  <2>2. PICK h \in Nat : h = dg_rx[1].len BY <2>1 DEF Dgram
  <2>3. PICK s \in Nat : s = QueuedIn(dg_rx) BY <1>0, QueuedNone
  <2>4. s <= widest \/ s <= h BY <1>14, <2>2, <2>3 DEF DgInv, DgRoom
  <2>5. PICK w : w = Max({widest, h}) OBVIOUS
  <2>6. w \in {widest, h} /\ widest <= w /\ h <= w BY <1>0, <2>5, MaxOfTwo
  <2>7. s <= w BY <1>0, <2>4, <2>6
  <2> QED BY <2>2, <2>3, <2>5, <2>7 DEF Queued
<1>15. Len(dg_rx) <= TN_MAX_RX_QUEUE_PER_SOCKET BY DEF DgInv, DgRoom
<1> QED BY <1>13, <1>14, <1>15 DEF DatagramsInOrder

\* The promise of the datagram sockets.
LEMMA DgExact == ASSUME DgAssumption, DgInv PROVE DatagramsExact
BY DgPaths, DgInOrder DEF DatagramsExact

----------------------------------------------------------------------------
\* Quotient and remainder.
LEMMA DivMod ==
    ASSUME NEW M \in Nat \ {0}, NEW a \in Int
    PROVE  a \div M \in Int /\ a % M \in 0 .. M - 1 /\ a = M * (a \div M) + (a % M)
OBVIOUS
\* A product over a sum.
LEMMA Distributes ==
    ASSUME NEW M \in Nat, NEW i \in Int, NEW j \in Int
    PROVE  M * (i + j) = M * i + M * j
OBVIOUS
\* A remainder is the only number below the modulus that far from a multiple.
LEMMA ModUnique ==
    ASSUME NEW M \in Nat \ {0}, NEW d \in 0 .. M - 1, NEW k \in Int
    PROVE  (d + M * k) % M = d
OBVIOUS

(***************************************************************************)
(* LibFds: an event waits at most as many reports as there are descriptors *)
(* between the cursor and its own.                                         *)
(***************************************************************************)
\* How far a descriptor is from the next one the cursor looks at.
Far(g) == (g - (lb_last + 1)) % lb_size
\* The tables hold descriptors of the table as it is.
LbTypes ==
    /\ lb_size \in LbMinSize .. LbMaxFds /\ lb_last \in -1 .. LbMaxFds - 1
    /\ lb_open \subseteq Live /\ lb_mask \subseteq Live /\ lb_events \subseteq Live
    /\ lb_crt \in [Fds -> {"free", "file", "sock"}] /\ lb_cb \in BOOLEAN
\* The turns waited and the turns still to come are fewer than the descriptors.
LbTurns ==
    /\ lb_turn \in [Fds -> Nat]
    /\ \A g \in Fds : g \notin lb_events => lb_turn[g] = 0
    /\ \A g \in lb_events : lb_turn[g] + Far(g) < lb_size
\* Events owed are of open sockets, and a mask in force was asked for or found.
LbMasks ==
    /\ lb_owed \subseteq lb_open /\ lb_owed \subseteq lb_events
    /\ lb_mask \cap lb_open \subseteq lb_asked \cup lb_left /\ EventsAsked
\* With them: the C library mirrors the table.
LbInv == LbTypes /\ LbTurns /\ LbMasks /\ MirrorAgrees

\* The size of a table, and the descriptors in it.
LEMMA LbSizes ==
    ASSUME LbAssumption, NEW n \in LbMinSize .. LbMaxFds
    PROVE  n \in Nat \ {0} /\ 0 .. n - 1 \subseteq Fds /\ LbMaxFds \in Nat \ {0}
BY DEF LbAssumption, Fds

\* A distance is less than the size.
LEMMA FarRange ==
    ASSUME LbAssumption, NEW n \in LbMinSize .. LbMaxFds, NEW l \in -1 .. LbMaxFds - 1, NEW g \in Fds
    PROVE  (g - (l + 1)) % n \in 0 .. n - 1
<1>1. n \in Nat \ {0} BY LbSizes
<1>2. PICK a \in Int : a = g - (l + 1) BY DEF Fds, LbAssumption
<1>3. a % n \in 0 .. n - 1 BY <1>1, DivMod
<1> QED BY <1>2, <1>3

\* A multiple of M between -M and M is 0.
LEMMA SmallMultiple ==
    ASSUME NEW M \in Nat \ {0}, NEW k \in Int, M * k < M, M * k > 0 - M
    PROVE  k = 0
<1>1. ASSUME k <= -1 PROVE M * k <= 0 - M BY <1>1
<1>2. ASSUME k >= 1 PROVE M * k >= M BY <1>2
<1>3. M * k \in Int OBVIOUS
<1> QED BY <1>1, <1>2, <1>3

\* Of two descriptors the nearer one is reported: the other is nearer by one
\* and more after that.
LEMMA FarNext ==
    ASSUME NEW M \in Nat \ {0}, NEW f \in 0 .. M - 1, NEW g \in 0 .. M - 1, f # g, NEW l \in Int,
           (f - (l + 1)) % M <= (g - (l + 1)) % M
    PROVE  (g - (f + 1)) % M < (g - (l + 1)) % M
<1>0. PICK x \in Int, y \in Int : x = g - (l + 1) /\ y = f - (l + 1) OBVIOUS
<1>1. PICK i \in Int, a \in 0 .. M - 1 : x = M * i + a /\ a = x % M BY DivMod
<1>2. PICK j \in Int, b \in 0 .. M - 1 : y = M * j + b /\ b = y % M BY DivMod
<1>3. b <= a BY <1>0, <1>1, <1>2
<1>4. PICK k \in Int : k = i - j OBVIOUS
<1>5. M * k + M * j = M * i
  <2>1. k + j = i BY <1>4
  <2> QED BY <2>1, Distributes
<1>6. PICK p \in Int, q \in Int, r \in Int : p = M * i /\ q = M * j /\ r = M * k OBVIOUS
<1>7. g - f = (a - b) + r
  <2>1. x = p + a /\ y = q + b /\ r + q = p BY <1>1, <1>2, <1>5, <1>6
  <2>2. x - y = g - f BY <1>0
  <2>3. a \in Int /\ b \in Int OBVIOUS
  <2> QED BY <2>1, <2>2, <2>3
<1>8. a # b
  <2> SUFFICES ASSUME a = b PROVE FALSE OBVIOUS
  <2>1. g - f = r BY <1>7
  <2>2. r < M /\ r > 0 - M BY <2>1
  <2>3. k = 0 BY <1>6, <2>2, SmallMultiple
  <2>4. r = 0 BY <1>6, <2>3
  <2> QED BY <2>1, <2>4
<1>9. PICK d \in 0 .. M - 1 : d = (a - b) - 1 BY <1>3, <1>8
<1>10. g - (f + 1) = d + M * k BY <1>6, <1>7, <1>9
<1>11. (g - (f + 1)) % M = d BY <1>10, ModUnique
<1>12. d < a BY <1>9
<1> QED BY <1>0, <1>1, <1>11, <1>12

\* The invariant at the start.
LEMMA LbStarts == ASSUME LbAssumption, LbInit PROVE LbInv
<1>1. LbTypes
  <2>1. lb_size \in LbMinSize .. LbMaxFds /\ lb_last \in -1 .. LbMaxFds - 1 BY DEF LbInit, LbAssumption
  <2>2. lb_crt \in [Fds -> {"free", "file", "sock"}] /\ lb_cb \in BOOLEAN BY DEF LbInit
  <2>3. lb_open = {} /\ lb_mask = {} /\ lb_events = {} BY DEF LbInit
  <2> QED BY <2>1, <2>2, <2>3 DEF LbTypes
<1>2. LbTurns BY DEF LbTurns, LbInit
<1>3. MirrorAgrees /\ LbMasks BY DEF LbInit, MirrorAgrees, LbMasks, EventsAsked
<1> QED BY <1>1, <1>2, <1>3 DEF LbInv

\* Steps that leave the cursor, the turns and the recorded events alone.
LEMMA TurnsStay == ASSUME LbTurns, UNCHANGED <<lb_size, lb_events, lb_last, lb_turn>> PROVE LbTurns'
BY DEF LbTurns, Far

\* The nearest recorded event exists.
LEMMA Nearest ==
    ASSUME LbAssumption, LbInv, lb_events # {}
    PROVE  NextEvent \in lb_events /\ \A g \in lb_events : Far(NextEvent) <= Far(g)
<1>1. \A g \in lb_events : Far(g) \in Nat
  <2> SUFFICES ASSUME NEW g \in lb_events PROVE Far(g) \in Nat OBVIOUS
  <2>1. g \in Fds /\ lb_size \in LbMinSize .. LbMaxFds /\ lb_last \in -1 .. LbMaxFds - 1
    BY LbSizes DEF LbInv, LbTypes, Live
  <2>2. Far(g) \in 0 .. lb_size - 1 BY <2>1, FarRange DEF Far
  <2> QED BY <2>2
<1>2. \E f \in lb_events : \A g \in lb_events : Far(f) <= Far(g)
  <2>1. PICK n \in {Far(g) : g \in lb_events} : \A m \in {Far(g) : g \in lb_events} : n <= m
    <3>1. {Far(g) : g \in lb_events} \subseteq Nat /\ {Far(g) : g \in lb_events} # {} BY <1>1
    <3> HIDE DEF Far
    <3> QED BY <3>1, LeastNat
  <2> QED BY <2>1
<1> QED BY <1>2 DEF NextEvent, Far

\* The lowest descriptor of a set.
LEMMA LowestIn == ASSUME NEW S \in SUBSET Nat, S # {} PROVE LowestFd(S) \in S
BY LeastNat DEF LowestFd

\* A descriptor becomes a new socket.
LEMMA LbKeepsNew ==
    ASSUME LbAssumption, LbInv, NEW fd \in Live, NewSocket(fd),
           UNCHANGED <<lb_size, lb_mask, lb_events, lb_last, lb_turn, lb_cb>>
    PROVE  LbInv'
<1>1. /\ lb_open' = lb_open \cup {fd} /\ lb_owed' = lb_owed \ {fd}
      /\ lb_asked' = lb_asked \ {fd} /\ lb_left' = (lb_left \ {fd}) \cup (lb_mask \cap {fd})
      /\ lb_crt' = IF lb_cb THEN [lb_crt EXCEPT ![fd] = "sock"] ELSE lb_crt
      /\ lb_told' = IF lb_cb THEN lb_told \ {fd} ELSE lb_told \cup {fd}
  BY DEF NewSocket
<1>2. fd \in Fds BY LbSizes DEF Live, LbInv, LbTypes
<1>3. lb_crt \in [Fds -> {"free", "file", "sock"}] /\ lb_cb \in BOOLEAN BY DEF LbInv, LbTypes
<1>4. LbTypes' BY <1>1, <1>2, <1>3 DEF LbInv, LbTypes, Live
<1>5. LbTurns' BY TurnsStay DEF LbInv
<1>6. MirrorAgrees' BY <1>1, <1>2, <1>3 DEF LbInv, MirrorAgrees
<1>7. LbMasks' BY <1>1 DEF LbInv, LbMasks, EventsAsked
<1> QED BY <1>4, <1>5, <1>6, <1>7 DEF LbInv

\* A descriptor is opened.
LEMMA LbKeepsOpen == ASSUME LbAssumption, LbInv, OpenFd PROVE LbInv'
<1>1. Spare \subseteq Nat /\ Agreed \subseteq Nat /\ Agreed \subseteq Spare /\ Spare # {}
  BY DEF Spare, Agreed, Live, LbInv, LbTypes, LbAssumption, OpenFd
<1>2. PICK S : S = IF lb_cb /\ Agreed # {} THEN Agreed ELSE Spare OBVIOUS
<1>3. S \in SUBSET Nat /\ S # {} /\ S \subseteq Spare BY <1>1, <1>2
<1>4. LowestFd(S) \in S BY <1>3, LowestIn
<1>5. LowestFd(S) \in Live BY <1>3, <1>4 DEF Spare
<1>6. NewSocket(LowestFd(S)) /\ UNCHANGED <<lb_size, lb_mask, lb_events, lb_last, lb_turn, lb_cb>>
  BY <1>2 DEF OpenFd
<1> QED BY <1>5, <1>6, LbKeepsNew

\* A descriptor is closed, or its close fails.
LEMMA LbKeepsClose ==
    ASSUME LbAssumption, LbInv, NEW fd \in Fds, NEW ok \in BOOLEAN, CloseFd(fd, ok) PROVE LbInv'
<1>1. /\ lb_crt' = IF lb_cb THEN [lb_crt EXCEPT ![fd] = "free"] ELSE lb_crt
      /\ \/ /\ lb_open' = lb_open \ {fd} /\ lb_owed' = lb_owed \ {fd}
            /\ lb_told' = IF lb_cb THEN lb_told \ {fd} ELSE lb_told \cup {fd}
         \/ /\ lb_told' = IF lb_cb THEN lb_told \cup {fd} ELSE lb_told
            /\ UNCHANGED <<lb_open, lb_owed>>
      /\ UNCHANGED <<lb_size, lb_mask, lb_events, lb_last, lb_turn, lb_cb, lb_asked, lb_left>>
  BY DEF CloseFd, Freed, lbasked
<1>4. lb_crt \in [Fds -> {"free", "file", "sock"}] /\ lb_cb \in BOOLEAN BY DEF LbInv, LbTypes
<1>5. LbTypes' BY <1>1, <1>4 DEF LbInv, LbTypes, Live
<1>6. LbTurns' BY <1>1, TurnsStay DEF LbInv
<1>7. MirrorAgrees' BY <1>1, <1>4 DEF LbInv, MirrorAgrees
<1>8. LbMasks' BY <1>1 DEF LbInv, LbMasks, EventsAsked
<1> QED BY <1>5, <1>6, <1>7, <1>8 DEF LbInv

\* A descriptor becomes a copy of another, or that fails.
LEMMA LbKeepsDup2 ==
    ASSUME LbAssumption, LbInv, NEW old \in Fds, NEW new \in Fds, NEW ok \in BOOLEAN, Dup2Fd(old, new, ok)
    PROVE  LbInv'
<1>1. new \in Live /\ UNCHANGED <<lb_size, lb_mask, lb_events, lb_last, lb_turn, lb_cb>> BY DEF Dup2Fd
<1>2. CASE ok
  <2>1. NewSocket(new) BY <1>2 DEF Dup2Fd
  <2> QED BY <1>1, <2>1, LbKeepsNew
<1>3. CASE ~ok
  <2>1. /\ lb_crt' = IF new \in lb_open /\ lb_cb THEN [lb_crt EXCEPT ![new] = "free"] ELSE lb_crt
        /\ lb_told' = lb_told \cup (IF lb_cb /\ new \in lb_open THEN {new} ELSE {})
        /\ UNCHANGED <<lb_open, lb_owed, lb_asked, lb_left>>
    BY <1>3 DEF Dup2Fd, Freed, lbasked
  <2>4. lb_crt \in [Fds -> {"free", "file", "sock"}] /\ lb_cb \in BOOLEAN BY DEF LbInv, LbTypes
  <2>5. LbTypes' BY <1>1, <2>1, <2>4 DEF LbInv, LbTypes, Live
  <2>6. LbTurns' BY <1>1, TurnsStay DEF LbInv
  <2>7. MirrorAgrees' BY <1>1, <2>1, <2>4 DEF LbInv, MirrorAgrees
  <2>8. LbMasks' BY <1>1, <2>1 DEF LbInv, LbMasks, EventsAsked
  <2> QED BY <2>5, <2>6, <2>7, <2>8 DEF LbInv
<1> QED BY <1>2, <1>3

\* The runtime's own files, and its callback.
LEMMA LbKeepsRuntime ==
    ASSUME LbAssumption, LbInv, SetFdCallback \/ \E fd \in Fds : FileUses(fd) PROVE LbInv'
<1>0. lb_crt \in [Fds -> {"free", "file", "sock"}] /\ lb_cb \in BOOLEAN BY DEF LbInv, LbTypes
<1>1. UNCHANGED <<lb_size, lb_open, lb_mask, lb_events, lb_owed, lb_last, lb_turn, lb_told, lb_asked, lb_left>>
  BY DEF SetFdCallback, FileUses, lbevents
<1>2. LbTurns' BY <1>1, TurnsStay DEF LbInv
<1>3. LbMasks' BY <1>1 DEF LbInv, LbMasks, EventsAsked
<1>4. CASE SetFdCallback
  <2>1. lb_cb' \in BOOLEAN /\ lb_crt' = lb_crt BY <1>4 DEF SetFdCallback
  <2>2. MirrorAgrees' BY <1>1, <2>1 DEF LbInv, MirrorAgrees
  <2>3. LbTypes' BY <1>1, <2>1 DEF LbInv, LbTypes, Live
  <2> QED BY <1>2, <1>3, <2>2, <2>3 DEF LbInv
<1>5. CASE \E fd \in Fds : FileUses(fd)
  <2>1. PICK fd \in Fds : FileUses(fd) BY <1>5
  <2>2. PICK new \in {"file", "free"} : lb_crt' = [lb_crt EXCEPT ![fd] = new] /\ lb_crt[fd] # "sock" /\ lb_cb' = lb_cb
    BY <1>0, <2>1 DEF FileUses
  <2>3. MirrorAgrees' BY <1>0, <1>1, <2>2 DEF LbInv, MirrorAgrees
  <2>4. LbTypes' BY <1>0, <1>1, <2>2 DEF LbInv, LbTypes, Live
  <2> QED BY <1>2, <1>3, <2>3, <2>4 DEF LbInv
<1> QED BY <1>4, <1>5

\* The table is resized.
LEMMA LbKeepsSize ==
    ASSUME LbAssumption, LbInv, NEW asked \in Nat, SetDtableSize(asked) PROVE LbInv'
<1>1. PICK n \in LbMinSize .. LbMaxFds :
        /\ \A fd \in lb_open : fd < n
        /\ lb_size' = n /\ lb_mask' = {fd \in lb_mask : fd < n}
        /\ lb_events' = IF n = lb_size THEN lb_events ELSE {fd \in lb_events : fd < n}
        /\ lb_turn' = IF n = lb_size THEN lb_turn ELSE [fd \in Fds |-> 0]
        /\ UNCHANGED <<lb_open, lb_owed, lb_last, lb_cb, lb_crt, lb_told, lb_asked, lb_left>>
  <2>1. PICK n : n = IF asked < LbMinSize THEN LbMinSize ELSE IF asked > LbMaxFds THEN LbMaxFds ELSE asked OBVIOUS
  <2>2. n \in LbMinSize .. LbMaxFds BY <2>1 DEF LbAssumption
  <2> QED BY <2>1, <2>2 DEF SetDtableSize, CopyEvents, lbmirror, lbasked
<1>2. MirrorAgrees' BY <1>1 DEF LbInv, MirrorAgrees
<1>3. /\ LbTypes /\ lb_owed \subseteq lb_open /\ lb_owed \subseteq lb_events BY DEF LbInv, LbMasks
<1>4. LbTypes'
  <2>1. \A g \in Live : g < n => g \in 0 .. n - 1 BY <1>3 DEF LbTypes, Live, LbAssumption
  <2>2. lb_open \subseteq Live /\ lb_mask \subseteq Live /\ lb_events \subseteq Live BY <1>3 DEF LbTypes
  <2>3. Live' = 0 .. n - 1 BY <1>1 DEF Live
  <2>4. lb_open' \subseteq Live' /\ lb_mask' \subseteq Live' BY <1>1, <2>1, <2>2, <2>3
  <2>5. lb_events' \subseteq Live'
    <3>1. CASE n = lb_size BY <1>1, <2>2, <2>3, <3>1 DEF Live
    <3>2. CASE n # lb_size BY <1>1, <2>1, <2>2, <2>3, <3>2
    <3> QED BY <3>1, <3>2
  <2> QED BY <1>1, <1>3, <2>4, <2>5 DEF LbTypes
<1>5. LbMasks'
  <2>1. lb_owed' \subseteq lb_open' /\ lb_owed' \subseteq lb_events' BY <1>1, <1>3
  <2>2. lb_mask' \subseteq lb_mask BY <1>1
  <2> QED BY <1>1, <2>1, <2>2 DEF LbInv, LbMasks, EventsAsked
<1>6. LbTurns'
  <2>1. CASE n = lb_size BY <1>1, <2>1, TurnsStay DEF LbInv
  <2>2. CASE n # lb_size
    <3>1. lb_turn' = [fd \in Fds |-> 0] /\ lb_events' \subseteq Fds
      BY <1>1, <1>4, <2>2, LbSizes DEF LbTypes, Live
    <3>2. ASSUME NEW g \in lb_events' PROVE lb_turn'[g] + Far(g)' < lb_size'
      <4>1. g \in Fds /\ lb_last' \in -1 .. LbMaxFds - 1 BY <3>1, <3>2, <1>4 DEF LbTypes
      <4>2. Far(g)' \in 0 .. n - 1 BY <1>1, <4>1, FarRange DEF Far
      <4>3. lb_turn'[g] = 0 BY <3>1, <4>1
      <4> QED BY <1>1, <4>2, <4>3
    <3> QED BY <3>1, <3>2 DEF LbTurns
  <2> QED BY <2>1, <2>2
<1> QED BY <1>2, <1>4, <1>5, <1>6 DEF LbInv

\* An event mask.
LEMMA LbKeepsMask ==
    ASSUME LbAssumption, LbInv, NEW fd \in Fds, NEW on \in BOOLEAN, SetEventMask(fd, on) PROVE LbInv'
<1>1. /\ fd \in Live /\ lb_mask' = IF on THEN lb_mask \cup {fd} ELSE lb_mask \ {fd}
      /\ lb_asked' = IF fd \in lb_open THEN lb_asked \cup {fd} ELSE lb_asked
      /\ lb_left' = lb_left \ {fd}
      /\ UNCHANGED <<lb_size, lb_open, lb_events, lb_owed, lb_last, lb_turn, lb_cb, lb_crt, lb_told>>
  BY DEF SetEventMask, lbmirror
<1>2. LbTurns' BY <1>1, TurnsStay DEF LbInv
<1>3. LbMasks' BY <1>1 DEF LbInv, LbMasks, EventsAsked
<1>4. LbTypes' BY <1>1 DEF LbInv, LbTypes, Live
<1>5. MirrorAgrees' BY <1>1 DEF LbInv, MirrorAgrees
<1> QED BY <1>2, <1>3, <1>4, <1>5 DEF LbInv

\* The daemon records an event.
LEMMA LbKeepsRecord ==
    ASSUME LbAssumption, LbInv, NEW fd \in Fds, tn_record_socket_event(fd) PROVE LbInv'
<1>1. /\ fd \in lb_open \cap lb_mask /\ lb_events' = lb_events \cup {fd} /\ lb_owed' = lb_owed \cup {fd}
      /\ UNCHANGED <<lb_size, lb_open, lb_mask, lb_last, lb_turn, lb_cb, lb_crt, lb_told, lb_asked, lb_left>>
  BY DEF tn_record_socket_event, lbmirror, lbasked
<1>2. LbTypes' BY <1>1 DEF LbInv, LbTypes, Live
<1>3. LbTurns'
  <2>1. ASSUME NEW g \in lb_events' PROVE lb_turn[g] + Far(g) < lb_size
    <3>1. CASE g \in lb_events BY <3>1 DEF LbInv, LbTurns
    <3>2. CASE g \notin lb_events
      <4>1. g = fd /\ lb_turn[g] = 0 BY <1>1, <2>1, <3>2 DEF LbInv, LbTurns
      <4>2. lb_size \in LbMinSize .. LbMaxFds /\ lb_last \in -1 .. LbMaxFds - 1 BY DEF LbInv, LbTypes
      <4>3. Far(g) \in 0 .. lb_size - 1 BY <4>1, <4>2, FarRange DEF Far
      <4> QED BY <4>1, <4>2, <4>3 DEF LbAssumption
    <3> QED BY <3>1, <3>2
  <2>2. \A g : Far(g)' = Far(g) BY <1>1 DEF Far
  <2> QED BY <1>1, <2>1, <2>2 DEF LbInv, LbTurns
<1>4. LbMasks' BY <1>1 DEF LbInv, LbMasks, EventsAsked
<1>5. MirrorAgrees' BY <1>1 DEF LbInv, MirrorAgrees
<1> QED BY <1>2, <1>3, <1>4, <1>5 DEF LbInv

\* The program takes the nearest event.
LEMMA LbKeepsTake == ASSUME LbAssumption, LbInv, GetSocketEvents PROVE LbInv'
<1>1. PICK fd \in lb_events :
        /\ lb_events' = lb_events \ {fd} /\ lb_owed' = lb_owed \ {fd} /\ lb_last' = fd
        /\ lb_turn' = [g \in Fds |-> IF g \in lb_events \ {fd} THEN lb_turn[g] + 1 ELSE 0]
        /\ \A g \in lb_events : Far(fd) <= Far(g)
  BY Nearest DEF GetSocketEvents
<1>2. UNCHANGED <<lb_size, lb_open, lb_mask, lb_cb, lb_crt, lb_told, lb_asked, lb_left>>
  BY DEF GetSocketEvents, lbmirror, lbasked
<1>3. lb_size \in LbMinSize .. LbMaxFds /\ lb_last \in -1 .. LbMaxFds - 1 /\ lb_events \subseteq 0 .. lb_size - 1
  BY DEF LbInv, LbTypes, Live
<1>4. lb_size \in Nat \ {0} /\ lb_events \subseteq Fds /\ LbMaxFds \in Nat BY <1>3, LbSizes
<1>5. fd \in -1 .. LbMaxFds - 1 BY <1>4 DEF Fds
<1>6. LbTypes' BY <1>1, <1>2, <1>5 DEF LbInv, LbTypes, Live
<1>7. lb_turn \in [Fds -> Nat] BY DEF LbInv, LbTurns
<1>8. ASSUME NEW g \in lb_events' PROVE lb_turn'[g] + Far(g)' < lb_size'
  <2>1. g \in lb_events /\ g # fd /\ g \in Fds BY <1>1, <1>4, <1>8
  <2>2. lb_turn'[g] = lb_turn[g] + 1 /\ lb_turn[g] \in Nat BY <1>1, <1>7, <2>1
  <2>3. (fd - (lb_last + 1)) % lb_size <= (g - (lb_last + 1)) % lb_size BY <1>1, <2>1 DEF Far
  <2>4. lb_last \in Int BY <1>3
  <2>5. fd \in 0 .. lb_size - 1 /\ g \in 0 .. lb_size - 1 BY <1>1, <1>3, <2>1
  <2>6. (g - (fd + 1)) % lb_size < (g - (lb_last + 1)) % lb_size BY <1>4, <2>1, <2>3, <2>4, <2>5, FarNext
  <2>7. PICK a \in Int, b \in Int : a = (g - (fd + 1)) % lb_size /\ b = (g - (lb_last + 1)) % lb_size
    BY <1>3, <1>5, <2>1, FarRange
  <2>8. Far(g)' = a /\ Far(g) = b BY <1>1, <1>2, <2>7 DEF Far
  <2>9. lb_turn[g] + b < lb_size BY <2>1, <2>8 DEF LbInv, LbTurns
  <2> QED BY <1>2, <1>4, <2>2, <2>6, <2>7, <2>8, <2>9
<1>9. LbTurns' BY <1>1, <1>7, <1>8 DEF LbTurns
<1>10. LbMasks' BY <1>1, <1>2 DEF LbInv, LbMasks, EventsAsked
<1>11. MirrorAgrees' BY <1>2 DEF LbInv, MirrorAgrees
<1> QED BY <1>6, <1>9, <1>10, <1>11 DEF LbInv

\* Every step keeps the invariant.
LEMMA LbKeeps == ASSUME LbAssumption, LbInv, [LbNext]_lbvars PROVE LbInv'
<1>1. CASE UNCHANGED lbvars
  <2>1. UNCHANGED <<lb_size, lb_open, lb_mask, lb_events, lb_owed, lb_last, lb_turn, lb_cb, lb_crt,
                     lb_told, lb_asked, lb_left>>
    BY <1>1 DEF lbvars
  <2>2. LbTurns' BY <2>1, TurnsStay DEF LbInv
  <2> QED BY <2>1, <2>2 DEF LbInv, LbTypes, Live, MirrorAgrees, LbMasks, EventsAsked
<1>2. CASE OpenFd BY <1>2, LbKeepsOpen
<1>3. CASE SetFdCallback BY <1>3, LbKeepsRuntime
<1>4. CASE GetSocketEvents BY <1>4, LbKeepsTake
<1>5. CASE \E fd \in Fds, ok \in BOOLEAN : CloseFd(fd, ok) BY <1>5, LbKeepsClose
<1>6. CASE \E fd \in Fds, new \in Fds, ok \in BOOLEAN : Dup2Fd(fd, new, ok) BY <1>6, LbKeepsDup2
<1>7. CASE \E fd \in Fds : FileUses(fd) BY <1>7, LbKeepsRuntime
<1>8. CASE \E fd \in Fds : tn_record_socket_event(fd) BY <1>8, LbKeepsRecord
<1>9. CASE \E fd \in Fds, on \in BOOLEAN : SetEventMask(fd, on) BY <1>9, LbKeepsMask
<1>10. CASE \E n \in 0 .. LbMaxFds + 1 : SetDtableSize(n)
  <2>1. PICK n \in Nat : SetDtableSize(n) BY <1>10 DEF LbAssumption
  <2> QED BY <2>1, LbKeepsSize
<1> QED BY <1>1, <1>2, <1>3, <1>4, <1>5, <1>6, <1>7, <1>8, <1>9, <1>10 DEF LbNext

\* Events take turns, and the runtime's table agrees.
LEMMA LbExact == ASSUME LbAssumption, LbInv PROVE EventsTakeTurns /\ EventsAsked /\ MirrorAgrees
<1>1. ASSUME NEW fd \in lb_events PROVE lb_turn[fd] < lb_size
  <2>1. lb_size \in LbMinSize .. LbMaxFds /\ lb_last \in -1 .. LbMaxFds - 1 /\ fd \in 0 .. lb_size - 1
    BY DEF LbInv, LbTypes, Live
  <2>2. fd \in Fds /\ lb_size \in Nat BY <2>1, LbSizes
  <2>3. PICK f \in Nat : f = Far(fd) BY <2>1, <2>2, FarRange DEF Far
  <2>4. lb_turn[fd] + f < lb_size /\ lb_turn[fd] \in Nat BY <2>2, <2>3 DEF LbInv, LbTurns
  <2> QED BY <2>2, <2>3, <2>4
<1> QED BY <1>1 DEF LbInv, LbMasks, EventsTakeTurns

----------------------------------------------------------------------------
(***************************************************************************)
(* LibNames: the library's own copy of errno is the last error, so that    *)
(* putting it back over the variable restores what a call reported.        *)
(***************************************************************************)
NbInv ==
    /\ nb_errno \in [task : Nat, width : {1, 4}, cell : Nat] /\ nb_err \in Nat /\ nb_own \in BOOLEAN
    /\ ~nb_own => nb_errno.task = nb_err /\ nb_errno.cell = Cut(nb_err, nb_errno.width)

\* What an error leaves in the record.
LEMMA NbSets ==
    ASSUME NbAssumption, NEW e \in [task : Nat, width : {1, 4}, cell : Nat], NEW err \in Nat
    PROVE  LET f == tn_set_errno_val(e, err) IN
           /\ f \in [task : Nat, width : {1, 4}, cell : Nat] /\ f.task = err /\ f.width = e.width
           /\ f.cell = Cut(err, e.width)
<1>1. PICK c \in Nat : c = Cut(err, e.width) BY DEF Cut, NbAssumption
<1>2. tn_set_errno_val(e, err) = [e EXCEPT !.task = err, !.cell = c] BY <1>1 DEF tn_set_errno_val
<1> QED BY <1>1, <1>2

\* The invariant at the start.
LEMMA NbStarts == ASSUME NbAssumption PROVE NbInit => NbInv
<1> SUFFICES ASSUME NbInit PROVE NbInv OBVIOUS
<1>1. nb_errno = [task |-> 0, width |-> 4, cell |-> 0] /\ nb_err = 0 /\ nb_own = FALSE BY DEF NbInit
<1>2. nb_errno \in [task : Nat, width : {1, 4}, cell : Nat] BY <1>1
<1>3. nb_errno.task = 0 /\ nb_errno.cell = 0 /\ nb_errno.width = 4 BY <1>1
<1>4. Cut(nb_err, nb_errno.width) = 0 BY <1>1, <1>3 DEF Cut
<1> QED BY <1>1, <1>2, <1>3, <1>4 DEF NbInv

\* A call fails.
LEMMA NbKeepsFails == ASSUME NbAssumption, NbInv, NEW err \in Nat, Fails(err) PROVE NbInv'
<1>1. nb_errno' = tn_set_errno_val(nb_errno, err) /\ nb_err' = err /\ nb_own' = FALSE BY DEF Fails
<1>2. nb_errno \in [task : Nat, width : {1, 4}, cell : Nat] BY DEF NbInv
<1>3. /\ nb_errno' \in [task : Nat, width : {1, 4}, cell : Nat] /\ nb_errno'.task = err
      /\ nb_errno'.width = nb_errno.width /\ nb_errno'.cell = Cut(err, nb_errno.width)
  BY <1>1, <1>2, NbSets
<1> QED BY <1>1, <1>3 DEF NbInv

\* A log line.
LEMMA NbKeepsLog == ASSUME NbAssumption, NbInv, NEW err \in Nat, tn_syslog_send(err) PROVE NbInv'
<1>1. nb_errno \in [task : Nat, width : {1, 4}, cell : Nat] /\ UNCHANGED <<nb_err, nb_own>>
  BY DEF NbInv, tn_syslog_send
<1>2. PICK sent : sent = IF err = 0 THEN nb_errno ELSE tn_set_errno_val(nb_errno, err) OBVIOUS
<1>3. /\ sent \in [task : Nat, width : {1, 4}, cell : Nat] /\ sent.width = nb_errno.width
      /\ sent = nb_errno \/ (sent.task = err /\ sent.cell = Cut(err, nb_errno.width))
  <2>1. CASE err = 0
    <3>1. sent = nb_errno BY <1>2, <2>1
    <3> QED BY <1>1, <3>1
  <2>2. CASE err # 0 BY <1>1, <1>2, <2>2, NbSets
  <2> QED BY <2>1, <2>2
<1>4. nb_errno' = IF sent.task # nb_errno.task THEN tn_set_errno_val(sent, nb_errno.task) ELSE sent
  BY <1>2 DEF tn_syslog_send
<1>5. CASE sent.task # nb_errno.task
  <2>1. PICK k \in Nat : k = nb_errno.task BY <1>1
  <2>2. nb_errno' = tn_set_errno_val(sent, k) BY <1>4, <1>5, <2>1
  <2>3. /\ nb_errno' \in [task : Nat, width : {1, 4}, cell : Nat] /\ nb_errno'.task = k
        /\ nb_errno'.width = sent.width /\ nb_errno'.cell = Cut(k, sent.width)
    BY <1>3, <2>2, NbSets
  <2> QED BY <1>1, <1>3, <2>1, <2>3 DEF NbInv
<1>6. CASE sent.task = nb_errno.task
  <2>1. nb_errno' = sent BY <1>4, <1>6
  <2> QED BY <1>1, <1>3, <1>6, <2>1 DEF NbInv
<1> QED BY <1>5, <1>6

\* Every step keeps the invariant.
LEMMA NbKeeps == ASSUME NbAssumption, NbInv, [NbNext]_nbvars PROVE NbInv'
<1>1. ASSUME UNCHANGED nberr PROVE NbInv' BY <1>1 DEF NbInv, nberr
<1>2. NbErrs \cup {0} \subseteq Nat BY DEF NbAssumption
<1>3. ASSUME NEW found \in BOOLEAN, NEW err \in Nat, Resolved(found, err) PROVE NbInv'
  <2>1. UNCHANGED nberr \/ Fails(err) BY <1>3 DEF Resolved
  <2> QED BY <1>1, <2>1, NbKeepsFails
<1>4. CASE UNCHANGED nbvars BY <1>1, <1>4 DEF nbvars, nberr
<1>5. CASE \E err \in NbErrs : CallFails(err) \/ gethostbyaddr(err) \/ gethostbyname_r(err)
  BY <1>2, <1>5, NbKeepsFails DEF CallFails, gethostbyaddr, gethostbyname_r
<1>6. CASE \E width \in {1, 4} : SetErrnoPtr(width)
  <2>1. PICK width \in {1, 4} : SetErrnoPtr(width) BY <1>6
  <2>2. nb_errno' = [nb_errno EXCEPT !.width = width, !.cell = 0] /\ nb_own' = TRUE /\ nb_err' = nb_err
    BY <2>1 DEF SetErrnoPtr
  <2>3. nb_errno \in [task : Nat, width : {1, 4}, cell : Nat] /\ nb_err \in Nat BY DEF NbInv
  <2>4. nb_errno' \in [task : Nat, width : {1, 4}, cell : Nat] BY <2>2, <2>3
  <2> QED BY <2>2, <2>3, <2>4 DEF NbInv
<1>7. CASE ClearsErrno BY <1>7 DEF ClearsErrno, NbInv
<1>8. CASE freeaddrinfo \/ setservent \/ getservent BY <1>1, <1>8 DEF freeaddrinfo, setservent, getservent
<1>9. CASE \E i \in DOMAIN NbServices : NameLookup(NbServices[i]) BY <1>1, <1>9 DEF NameLookup
<1>10. CASE \E err \in NbErrs \cup {0} : tn_syslog_send(err) BY <1>2, <1>10, NbKeepsLog
<1>11. CASE \E err \in NbErrs \cup {0}, found \in BOOLEAN : gethostbyname(found, err)
  BY <1>2, <1>3, <1>11 DEF gethostbyname
<1>12. CASE \E err \in NbErrs \cup {0}, found \in BOOLEAN, num, mem \in BOOLEAN : getaddrinfo(num, found, err, mem)
  BY <1>1, <1>2, <1>3, <1>12 DEF getaddrinfo
<1> QED BY <1>4, <1>5, <1>6, <1>7, <1>8, <1>9, <1>10, <1>11, <1>12 DEF NbNext

\* The program sees the last error.
LEMMA NbErrno == ASSUME NbInv PROVE ErrnoIsTheCallers
BY DEF NbInv, ErrnoIsTheCallers, Errno

----------------------------------------------------------------------------
(***************************************************************************)
(* SbtcTags: after i tags the settings are those of the last setters among *)
(* the tags before the failing one.                                        *)
(***************************************************************************)
\* The state of the loop over a list of n tags.
SbState(n) == [opts : [SbSettings -> SbValues], mem : [Cells -> SbValues], ret : Nat,
               out : [1 .. n -> SbValues]]
\* One turn of the loop.
TagStep(st, tag, i) ==
    IF st.ret # 0 THEN st
    ELSE IF tn_sbtc_dispatch_tag(tag) = "fail" THEN [st EXCEPT !.ret = i]
    ELSE Applied(st, tag, i)
\* The tag sets c; its value is its own data.
SetsTo(tag, c) == tag.set /\ tag.code = c /\ c # "release"
ByValue(tag) == ~tag.ref \/ tag.data = 0
\* How many of the first i tags took effect.
Done(ret, i) == IF ret = 0 THEN i ELSE ret - 1

\* The loop failed at the first unknown tag and nowhere else.
TagsUpTo(list, ret, i) ==
    /\ ret \in 0 .. i /\ (ret # 0 => list[ret].code = "unknown")
    /\ \A j \in 1 .. Done(ret, i) : list[j].code # "unknown"
\* After d tags a setting is the last value set, or the old one.
OptsUpTo(list, old, opts, d) ==
    \A c \in SbSettings :
      /\ (\A j \in 1 .. d : ~SetsTo(list[j], c)) => opts[c] = old[c]
      /\ \A k \in 1 .. d : SetsTo(list[k], c) /\ (\A j \in k + 1 .. d : ~SetsTo(list[j], c))
                           /\ ByValue(list[k]) => opts[c] = list[k].data
\* The first d tags were answered, the others are as the caller wrote them.
OutUpTo(list, old, out, d) ==
    \A j \in DOMAIN list :
      IF j > d \/ list[j].set \/ ~ByValue(list[j]) THEN out[j] = list[j].data
      ELSE (\A k \in 1 .. j - 1 : ~SetsTo(list[k], list[j].code)) => out[j] = old[list[j].code]
\* All of it after i turns.
ListUpTo(list, old, st, i) ==
    /\ TagsUpTo(list, st.ret, i) /\ OptsUpTo(list, old, st.opts, Done(st.ret, i))
    /\ OutUpTo(list, old, st.out, Done(st.ret, i))

\* What one tag does to the state of the loop.
LEMMA TagApplied ==
    ASSUME SbAssumption, NEW n \in Nat, NEW st \in SbState(n), NEW tag \in Tags, NEW i \in 1 .. n,
           st.ret = 0, tag.code # "unknown"
    PROVE  \E opts \in [SbSettings -> SbValues], mem \in [Cells -> SbValues], out \in [1 .. n -> SbValues] :
             /\ TagStep(st, tag, i) = [opts |-> opts, mem |-> mem, ret |-> 0, out |-> out]
             /\ IF tag.set /\ tag.code # "release"
                THEN \E v \in SbValues : /\ ByValue(tag) => v = tag.data
                                         /\ opts = [st.opts EXCEPT ![tag.code] = v]
                ELSE opts = st.opts
             /\ IF ~tag.set /\ ByValue(tag) THEN out = [st.out EXCEPT ![i] = st.opts[tag.code]]
                ELSE out = st.out
<1>1. PICK opts \in [SbSettings -> SbValues], mem \in [Cells -> SbValues], out \in [1 .. n -> SbValues] :
        st = [opts |-> opts, mem |-> mem, ret |-> 0, out |-> out] BY DEF SbState
<1>2. /\ tag.code \in SbSettings /\ tag.set \in BOOLEAN /\ tag.ref \in BOOLEAN /\ tag.data \in SbValues
  BY DEF Tags, Codes
<1>3. tn_sbtc_dispatch_tag(tag) = IF tag.set /\ tag.code = "release" THEN "ignore"
                                  ELSE IF tag.set THEN "set" ELSE "get"
  BY DEF tn_sbtc_dispatch_tag
<1>4. TagStep(st, tag, i) = Applied(st, tag, i) BY <1>3 DEF TagStep
<1>5. CASE tag.set /\ tag.code = "release"
  <2>1. Applied(st, tag, i) = st BY <1>3, <1>5 DEF Applied
  <2> QED BY <1>1, <1>4, <1>5, <2>1
<1>6. CASE tag.set /\ tag.code # "release"
  <2>1. PICK v : v = Loaded(tag, st.mem) OBVIOUS
  <2>2. v \in SbValues /\ (ByValue(tag) => v = tag.data)
    <3>1. st.mem = mem BY <1>1
    <3>2. tag.data # 0 => tag.data \in Cells BY <1>2 DEF Cells
    <3> QED BY <1>1, <1>2, <2>1, <3>1, <3>2 DEF Loaded, ByValue
  <2>3. PICK o \in [SbSettings -> SbValues] : o = [opts EXCEPT ![tag.code] = v] BY <1>2, <2>2
  <2>5. st.opts = opts /\ st.out = out BY <1>1
  <2>4. Applied(st, tag, i) = [st EXCEPT !.opts = o] BY <1>3, <1>6, <2>1, <2>3, <2>5 DEF Applied
  <2>6. Applied(st, tag, i) = [opts |-> o, mem |-> mem, ret |-> 0, out |-> out] BY <1>1, <2>4
  <2> QED BY <1>4, <1>6, <2>2, <2>3, <2>5, <2>6
<1>7. CASE ~tag.set /\ ~ByValue(tag)
  <2>1. tag.data \in Cells BY <1>2, <1>7 DEF ByValue, Cells
  <2>2. PICK m \in [Cells -> SbValues] : m = [mem EXCEPT ![tag.data] = opts[tag.code]] BY <1>2, <2>1
  <2>3. st.opts = opts /\ st.out = out BY <1>1
  <2>4. Applied(st, tag, i) = [st EXCEPT !.mem = m]
    BY <1>1, <2>2, <2>3, <1>2, <1>3, <1>7 DEF Applied, ByValue
  <2>5. Applied(st, tag, i) = [opts |-> opts, mem |-> m, ret |-> 0, out |-> out] BY <1>1, <2>4
  <2> QED BY <1>4, <1>7, <2>3, <2>5
<1>8. CASE ~tag.set /\ ByValue(tag)
  <2>1. PICK o \in [1 .. n -> SbValues] : o = [out EXCEPT ![i] = opts[tag.code]] BY <1>2
  <2>2. st.opts = opts /\ st.out = out BY <1>1
  <2>3. Applied(st, tag, i) = [st EXCEPT !.out = o]
    BY <2>1, <2>2, <1>2, <1>3, <1>8 DEF Applied, ByValue
  <2>4. Applied(st, tag, i) = [opts |-> opts, mem |-> mem, ret |-> 0, out |-> o] BY <1>1, <2>3
  <2> QED BY <1>4, <1>8, <2>1, <2>2, <2>4
<1> QED BY <1>5, <1>6, <1>7, <1>8

\* One tag more.
LEMMA TagGoesOn ==
    ASSUME SbAssumption, NEW n \in Nat, NEW list \in [1 .. n -> Tags], NEW old,
           NEW st \in SbState(n), NEW i \in 1 .. n, ListUpTo(list, old, st, i - 1)
    PROVE  TagStep(st, list[i], i) \in SbState(n) /\ ListUpTo(list, old, TagStep(st, list[i], i), i)
<1>0. list[i] \in Tags /\ st.ret \in Nat BY DEF SbState
<1>1. CASE st.ret # 0
  <2>1. TagStep(st, list[i], i) = st BY <1>1 DEF TagStep
  <2>2. PICK m \in Nat : m = i - 1 OBVIOUS
  <2>3. PICK r \in Nat : r = st.ret BY <1>0
  <2>4. Done(st.ret, i) = Done(st.ret, m) BY <1>1 DEF Done
  <2>5. TagsUpTo(list, r, m) BY <2>2, <2>3 DEF ListUpTo
  <2>6. TagsUpTo(list, r, i) BY <1>1, <2>2, <2>3, <2>5 DEF TagsUpTo, Done
  <2> QED BY <2>1, <2>2, <2>3, <2>4, <2>6 DEF ListUpTo
<1>2. CASE st.ret = 0 /\ list[i].code = "unknown"
  <2>1. PICK m \in Nat : m = i - 1 OBVIOUS
  <2>2. PICK t : t = [st EXCEPT !.ret = i] OBVIOUS
  <2>3. TagStep(st, list[i], i) = t BY <1>2, <2>2 DEF TagStep, tn_sbtc_dispatch_tag
  <2>4. t \in SbState(n) /\ t.ret = i /\ t.opts = st.opts /\ t.out = st.out BY <2>2 DEF SbState
  <2>5. Done(st.ret, m) = m /\ Done(i, i) = m BY <1>2, <2>1 DEF Done
  <2>6. TagsUpTo(list, 0, m) BY <1>2, <2>1 DEF ListUpTo
  <2>7. TagsUpTo(list, i, i) BY <1>2, <2>1, <2>5, <2>6 DEF TagsUpTo, Done
  <2> QED BY <2>1, <2>3, <2>4, <2>5, <2>7 DEF ListUpTo
<1>3. CASE st.ret = 0 /\ list[i].code # "unknown"
  <2>1. PICK m \in Nat : m = i - 1 OBVIOUS
  <2>2. PICK tag \in Tags : tag = list[i] BY <1>0
  <2>3. PICK opts \in [SbSettings -> SbValues], mem \in [Cells -> SbValues], out \in [1 .. n -> SbValues] :
             /\ TagStep(st, tag, i) = [opts |-> opts, mem |-> mem, ret |-> 0, out |-> out]
             /\ IF tag.set /\ tag.code # "release"
                THEN \E v \in SbValues : /\ ByValue(tag) => v = tag.data
                                         /\ opts = [st.opts EXCEPT ![tag.code] = v]
                ELSE opts = st.opts
             /\ IF ~tag.set /\ ByValue(tag) THEN out = [st.out EXCEPT ![i] = st.opts[tag.code]]
                ELSE out = st.out
    BY <1>3, <2>2, TagApplied
  <2>4. TagStep(st, list[i], i) \in SbState(n) BY <2>2, <2>3 DEF SbState
  <2>5. /\ TagStep(st, list[i], i).ret = 0 /\ TagStep(st, list[i], i).opts = opts
        /\ TagStep(st, list[i], i).out = out BY <2>2, <2>3
  <2>6. Done(st.ret, m) = m /\ Done(0, i) = i BY <1>3 DEF Done
  <2>7. TagsUpTo(list, 0, m) /\ OptsUpTo(list, old, st.opts, m) /\ OutUpTo(list, old, st.out, m)
    BY <1>3, <2>1, <2>6 DEF ListUpTo
  <2>8. TagsUpTo(list, 0, i) BY <1>3, <2>1, <2>7 DEF TagsUpTo, Done
  <2>9. OptsUpTo(list, old, opts, i)
    <3> SUFFICES ASSUME NEW c \in SbSettings
                 PROVE /\ (\A j \in 1 .. i : ~SetsTo(list[j], c)) => opts[c] = old[c]
                       /\ \A k \in 1 .. i : SetsTo(list[k], c) /\ (\A j \in k + 1 .. i : ~SetsTo(list[j], c))
                             /\ ByValue(list[k]) => opts[c] = list[k].data
      BY DEF OptsUpTo
    <3>0. st.opts \in [SbSettings -> SbValues] BY DEF SbState
    <3>1. CASE SetsTo(tag, c)
      <4>1. PICK v \in SbValues : (ByValue(tag) => v = tag.data) /\ opts = [st.opts EXCEPT ![tag.code] = v]
        BY <2>3, <3>1 DEF SetsTo
      <4>2. opts[c] = v BY <3>0, <3>1, <4>1 DEF SetsTo
      <4>3. ASSUME NEW k \in 1 .. i, \A j \in k + 1 .. i : ~SetsTo(list[j], c) PROVE k = i
        <5>1. k < i => i \in k + 1 .. i OBVIOUS
        <5> QED BY <2>2, <3>1, <4>3, <5>1
      <4>4. i \in 1 .. i OBVIOUS
      <4> QED BY <2>2, <3>1, <4>1, <4>2, <4>3, <4>4
    <3>2. CASE ~SetsTo(tag, c)
      <4>1. opts[c] = st.opts[c]
        <5>1. CASE tag.set /\ tag.code # "release"
          <6>1. tag.code # c BY <3>2, <5>1 DEF SetsTo
          <6> QED BY <2>3, <3>0, <5>1, <6>1
        <5>2. CASE ~(tag.set /\ tag.code # "release") BY <2>3, <5>2
        <5> QED BY <5>1, <5>2
      <4>2. \A j \in 1 .. i : j = i \/ j \in 1 .. m BY <2>1
      <4>3. \A j \in 1 .. m : j \in 1 .. i BY <2>1
      <4>4. \A k \in 1 .. m : \A j \in k + 1 .. m : j \in k + 1 .. i BY <2>1
      <4>5. /\ (\A j \in 1 .. m : ~SetsTo(list[j], c)) => st.opts[c] = old[c]
            /\ \A k \in 1 .. m : SetsTo(list[k], c) /\ (\A j \in k + 1 .. m : ~SetsTo(list[j], c))
                  /\ ByValue(list[k]) => st.opts[c] = list[k].data
        BY <2>7 DEF OptsUpTo
      <4>6. (\A j \in 1 .. i : ~SetsTo(list[j], c)) => opts[c] = old[c] BY <4>1, <4>3, <4>5
      <4>7. ASSUME NEW k \in 1 .. i, SetsTo(list[k], c), \A j \in k + 1 .. i : ~SetsTo(list[j], c), ByValue(list[k])
            PROVE opts[c] = list[k].data
        <5>1. k \in 1 .. m BY <2>2, <3>2, <4>2, <4>7
        <5>2. \A j \in k + 1 .. m : ~SetsTo(list[j], c) BY <4>4, <4>7, <5>1
        <5> QED BY <4>1, <4>5, <4>7, <5>1, <5>2
      <4> QED BY <4>6, <4>7
    <3> QED BY <3>1, <3>2
  <2>10. OutUpTo(list, old, out, i)
    <3> SUFFICES ASSUME NEW j \in 1 .. n
                 PROVE IF j > i \/ list[j].set \/ ~ByValue(list[j]) THEN out[j] = list[j].data
                       ELSE (\A k \in 1 .. j - 1 : ~SetsTo(list[k], list[j].code)) => out[j] = old[list[j].code]
      BY DEF OutUpTo
    <3>0. st.out \in [1 .. n -> SbValues] BY DEF SbState
    <3>1. IF j > m \/ list[j].set \/ ~ByValue(list[j]) THEN st.out[j] = list[j].data
          ELSE (\A k \in 1 .. j - 1 : ~SetsTo(list[k], list[j].code)) => st.out[j] = old[list[j].code]
      BY <2>7 DEF OutUpTo
    <3>2. CASE j # i
      <4>1. out[j] = st.out[j] BY <2>3, <3>0, <3>2
      <4>2. j > i <=> j > m BY <2>1, <3>2
      <4> QED BY <3>1, <4>1, <4>2
    <3>3. CASE j = i
      <4>1. j > m /\ ~(j > i) BY <2>1, <3>3
      <4>2. CASE tag.set \/ ~ByValue(tag) BY <2>2, <2>3, <3>1, <3>3, <4>1, <4>2
      <4>3. CASE ~tag.set /\ ByValue(tag)
        <5>1. out[j] = st.opts[tag.code] BY <2>3, <3>0, <3>3, <4>3
        <5>2. tag.code \in SbSettings BY <1>3, <2>2 DEF Tags, Codes
        <5>3. (\A k \in 1 .. m : ~SetsTo(list[k], tag.code)) => st.opts[tag.code] = old[tag.code]
          BY <2>7, <5>2 DEF OptsUpTo
        <5> QED BY <2>1, <2>2, <3>3, <4>1, <4>3, <5>1, <5>3
      <4> QED BY <4>2, <4>3
    <3> QED BY <3>2, <3>3
  <2> QED BY <2>4, <2>5, <2>6, <2>8, <2>9, <2>10 DEF ListUpTo
<1> QED BY <1>0, <1>1, <1>2, <1>3

\* The loop has a run.
LEMMA TagRuns ==
    ASSUME SbAssumption, NEW n \in Nat, NEW list \in [1 .. n -> Tags], NEW old,
           NEW st0 \in SbState(n), ListUpTo(list, old, st0, 0)
    PROVE  \E f : f = [i \in 0 .. n |-> IF i = 0 THEN st0 ELSE TagStep(f[i - 1], list[i], i)]
<1> DEFINE Run(f, k) == /\ f \in [0 .. k -> SbState(n)] /\ f[0] = st0
                        /\ \A i \in 1 .. k : f[i] = TagStep(f[i - 1], list[i], i)
                        /\ \A i \in 0 .. k : ListUpTo(list, old, f[i], i)
<1> DEFINE S == {k \in 0 .. n : ~\E f : Run(f, k)}
<1>1. S = {}
  <2> SUFFICES ASSUME S # {} PROVE FALSE OBVIOUS
  <2>1. S \in SUBSET Nat OBVIOUS
  <2>2. PICK k \in S : \A j \in S : k <= j
    <3> HIDE DEF S
    <3> QED BY <2>1, LeastNat
  <2>3. k # 0
    <3>1. ASSUME k = 0 PROVE FALSE
      <4>1. PICK f : f = [i \in 0 .. 0 |-> st0] OBVIOUS
      <4>2. f \in [0 .. 0 -> SbState(n)] /\ f[0] = st0 BY <4>1
      <4>3. \A i \in 0 .. 0 : i = 0 OBVIOUS
      <4>4. \A i \in 1 .. 0 : FALSE OBVIOUS
      <4>5. Run(f, 0) BY <4>2, <4>3, <4>4
      <4> QED BY <2>2, <3>1, <4>5
    <3> QED BY <3>1
  <2>4. PICK m \in 0 .. n : m = k - 1 /\ k \in 1 .. n /\ m \notin S
    <3>1. k \in 0 .. n /\ k \in 1 .. n /\ k - 1 \in 0 .. n BY <2>2, <2>3
    <3> HIDE DEF S
    <3> QED BY <2>2, <3>1
  <2>5. PICK f : Run(f, m) BY <2>4
  <2>6. PICK t : t = TagStep(f[m], list[k], k) OBVIOUS
  <2>7. t \in SbState(n) /\ ListUpTo(list, old, t, k)
    <3>1. m \in 0 .. m BY <2>4
    <3>2. f[m] \in SbState(n) /\ ListUpTo(list, old, f[m], k - 1) BY <2>4, <2>5, <3>1
    <3> QED BY <2>4, <2>6, <3>2, TagGoesOn
  <2>8. PICK g : g = [i \in 0 .. k |-> IF i = k THEN t ELSE f[i]] OBVIOUS
  <2>9. /\ \A i \in 0 .. k : i = k \/ i \in 0 .. m
        /\ \A i \in 1 .. k : i = k \/ i \in 1 .. m
        /\ \A i \in 1 .. k : i - 1 \in 0 .. m /\ i - 1 # k
        /\ \A i \in 0 .. m : i # k /\ i \in 0 .. k
        /\ 0 \in 0 .. m /\ k \in 0 .. k
    BY <2>4
  <2>10. g[k] = t /\ \A i \in 0 .. m : g[i] = f[i] BY <2>8, <2>9
  <2>11. g \in [0 .. k -> SbState(n)] BY <2>5, <2>7, <2>8, <2>9
  <2>12. g[0] = st0 BY <2>5, <2>9, <2>10
  <2>13. ASSUME NEW i \in 1 .. k PROVE g[i] = TagStep(g[i - 1], list[i], i)
    <3>1. g[i - 1] = f[i - 1] BY <2>9, <2>10
    <3>2. CASE i = k BY <2>4, <2>6, <2>10, <3>1, <3>2
    <3>3. CASE i \in 1 .. m
      <4>1. f[i] = TagStep(f[i - 1], list[i], i) BY <2>5, <3>3
      <4>2. i \in 0 .. m BY <3>3
      <4> QED BY <2>10, <3>1, <4>1, <4>2
    <3> QED BY <2>9, <3>2, <3>3
  <2>14. \A i \in 0 .. k : ListUpTo(list, old, g[i], i) BY <2>5, <2>7, <2>9, <2>10
  <2>15. Run(g, k) BY <2>11, <2>12, <2>13, <2>14
  <2> QED BY <2>2, <2>15
<1>2. PICK f : Run(f, n) BY <1>1
<1>3. f = [i \in 0 .. n |-> f[i]] BY <1>2
<1>4. ASSUME NEW i \in 0 .. n PROVE f[i] = IF i = 0 THEN st0 ELSE TagStep(f[i - 1], list[i], i)
  <2>1. i # 0 => i \in 1 .. n OBVIOUS
  <2> QED BY <1>2, <2>1
<1>5. f = [i \in 0 .. n |-> IF i = 0 THEN st0 ELSE TagStep(f[i - 1], list[i], i)] BY <1>3, <1>4, Zenon
<1> QED BY <1>5

\* What the loop has done when it ends.
LEMMA TagLoopDone ==
    ASSUME SbAssumption, NEW n \in Nat, NEW list \in [1 .. n -> Tags], NEW old,
           NEW st0 \in SbState(n), ListUpTo(list, old, st0, 0)
    PROVE  TagLoop(list, st0) \in SbState(n) /\ ListUpTo(list, old, TagLoop(list, st0), n)
<1>1. Len(list) = n /\ list \in Seq(Tags) OBVIOUS
<1>2. PICK f : /\ f = [i \in 0 .. n |-> IF i = 0 THEN st0 ELSE TagStep(f[i - 1], list[i], i)]
               /\ TagLoop(list, st0) = f[n]
  <2>1. \E f : f = [i \in 0 .. n |-> IF i = 0 THEN st0 ELSE TagStep(f[i - 1], list[i], i)] BY TagRuns
  <2> QED BY <1>1, <2>1, Zenon DEF TagLoop, TagStep
<1>3. f[0] = st0 /\ \A i \in 1 .. n : f[i] = TagStep(f[i - 1], list[i], i)
  <2>1. 0 \in 0 .. n /\ \A i \in 1 .. n : i \in 0 .. n /\ i # 0 OBVIOUS
  <2> QED BY <1>2, <2>1
<1> DEFINE S == {k \in 0 .. n : ~(f[k] \in SbState(n) /\ ListUpTo(list, old, f[k], k))}
<1>4. S = {}
  <2> SUFFICES ASSUME S # {} PROVE FALSE OBVIOUS
  <2>1. S \in SUBSET Nat OBVIOUS
  <2>2. PICK k \in S : \A j \in S : k <= j
    <3> HIDE DEF S
    <3> QED BY <2>1, LeastNat
  <2>3. k # 0 BY <1>3, <2>2
  <2>4. PICK m \in 0 .. n : m = k - 1 /\ k \in 1 .. n /\ m \notin S BY <2>2, <2>3
  <2>5. f[m] \in SbState(n) /\ ListUpTo(list, old, f[m], k - 1) BY <2>4
  <2>6. f[k] = TagStep(f[m], list[k], k) BY <1>3, <2>4
  <2>7. f[k] \in SbState(n) /\ ListUpTo(list, old, f[k], k) BY <2>4, <2>5, <2>6, TagGoesOn
  <2> QED BY <2>2, <2>7
<1>5. n \in 0 .. n OBVIOUS
<1>6. f[n] \in SbState(n) /\ ListUpTo(list, old, f[n], n) BY <1>4, <1>5
<1> QED BY <1>2, <1>6

(***************************************************************************)
(* The settings keep their types, and the list that has just been applied  *)
(* was applied as far as the result says.                                  *)
(***************************************************************************)
SbInv ==
    /\ sb_opts \in [SbSettings -> SbValues] /\ sb_mem \in [Cells -> SbValues]
    /\ sb_ret \in Nat /\ sb_list \in Seq(Tags)
    /\ TagsUpTo(sb_list, sb_ret, Len(sb_list))
    /\ OptsUpTo(sb_list, sb_old, sb_opts, Done(sb_ret, Len(sb_list)))
    /\ OutUpTo(sb_list, sb_old, sb_out, Done(sb_ret, Len(sb_list)))

\* No list has been applied.
LEMMA SbNothing ==
    ASSUME NEW opts \in [SbSettings -> SbValues], NEW out
    PROVE  /\ TagsUpTo(<<>>, 0, 0) /\ Done(0, 0) = 0 /\ OptsUpTo(<<>>, opts, opts, 0)
           /\ OutUpTo(<<>>, opts, out, 0) /\ Len(<<>>) = 0
<1>1. Done(0, 0) = 0 BY DEF Done
<1>2. \A j \in 1 .. 0 : FALSE OBVIOUS
<1>3. TagsUpTo(<<>>, 0, 0) BY <1>1, <1>2 DEF TagsUpTo
<1>4. OptsUpTo(<<>>, opts, opts, 0) BY <1>2 DEF OptsUpTo
<1>5. OutUpTo(<<>>, opts, out, 0) BY DEF OutUpTo
<1> QED BY <1>1, <1>3, <1>4, <1>5

\* The invariant at the start.
LEMMA SbStarts == ASSUME SbAssumption, SbInit PROVE SbInv
<1>1. sb_opts \in [SbSettings -> SbValues] BY DEF SbInit, SbAssumption
<1> QED BY <1>1, SbNothing DEF SbInit, SbInv

\* A list is applied.
LEMMA SbKeepsList ==
    ASSUME SbAssumption, SbInv, NEW n \in Nat, NEW list \in [1 .. n -> Tags], SocketBaseTagList(list)
    PROVE  SbInv'
<1>1. Len(list) = n /\ list \in Seq(Tags) /\ DOMAIN list = 1 .. n OBVIOUS
<1>2. PICK out \in [1 .. n -> SbValues] : out = [i \in DOMAIN list |-> list[i].data]
  <2>1. \A i \in 1 .. n : list[i].data \in SbValues BY DEF Tags
  <2> QED BY <1>1, <2>1
<1>3. PICK st0 : st0 = [opts |-> sb_opts, mem |-> sb_mem, ret |-> 0, out |-> out] OBVIOUS
<1>4. st0 \in SbState(n) /\ st0.ret = 0 /\ st0.opts = sb_opts /\ st0.out = out
  BY <1>3 DEF SbState, SbInv
<1>5. ListUpTo(list, sb_opts, st0, 0)
  <2>1. Done(0, 0) = 0 BY DEF Done
  <2>2. \A j \in 1 .. 0 : FALSE OBVIOUS
  <2>3. TagsUpTo(list, 0, 0) BY <2>1, <2>2 DEF TagsUpTo
  <2>4. OptsUpTo(list, sb_opts, sb_opts, 0) BY <2>2 DEF OptsUpTo
  <2>5. \A j \in DOMAIN list : j > 0 /\ out[j] = list[j].data BY <1>1, <1>2
  <2>6. OutUpTo(list, sb_opts, out, 0) BY <2>5 DEF OutUpTo
  <2> QED BY <1>4, <2>1, <2>3, <2>4, <2>6 DEF ListUpTo
<1>6. PICK st : st = TagLoop(list, st0) OBVIOUS
<1>7. st \in SbState(n) /\ ListUpTo(list, sb_opts, st, n) BY <1>4, <1>5, <1>6, TagLoopDone
<1>8. /\ sb_opts' = st.opts /\ sb_mem' = st.mem /\ sb_out' = st.out /\ sb_ret' = st.ret
      /\ sb_list' = list /\ sb_old' = sb_opts
  BY <1>2, <1>3, <1>6 DEF SocketBaseTagList
<1>9. st.opts \in [SbSettings -> SbValues] /\ st.mem \in [Cells -> SbValues] /\ st.ret \in Nat
  BY <1>7 DEF SbState
<1> QED BY <1>1, <1>7, <1>8, <1>9 DEF SbInv, ListUpTo

\* Every step keeps the invariant.
LEMMA SbKeeps == ASSUME SbAssumption, SbInv, [SbNext]_sbvars PROVE SbInv'
<1>1. CASE UNCHANGED sbvars BY <1>1 DEF sbvars, SbInv
<1>2. CASE Returned
  <2>1. sb_opts \in [SbSettings -> SbValues] BY DEF SbInv
  <2> QED BY <1>2, <2>1, SbNothing DEF Returned, SbInv
<1>3. CASE \E n \in 1 .. SbLength : \E list \in [1 .. n -> Tags] : SocketBaseTagList(list)
  <2>1. PICK n \in Nat : \E list \in [1 .. n -> Tags] : SocketBaseTagList(list) BY <1>3 DEF SbAssumption
  <2> QED BY <2>1, SbKeepsList
<1> QED BY <1>1, <1>2, <1>3 DEF SbNext

\* The last of a set of positions.
LEMMA Greatest ==
    ASSUME NEW n \in Nat, NEW S \in SUBSET (1 .. n), S # {}
    PROVE  \E i \in S : \A j \in S : j <= i
<1>1. {n - i : i \in S} \in SUBSET Nat /\ {n - i : i \in S} # {}
  <2>1. \A i \in S : n - i \in Nat OBVIOUS
  <2> QED BY <2>1
<1>2. PICK a \in {n - i : i \in S} : \A b \in {n - i : i \in S} : a <= b
  <2> DEFINE D == {n - i : i \in S}
  <2> HIDE DEF D
  <2>1. D \in SUBSET Nat /\ D # {} BY <1>1 DEF D
  <2>2. \E a \in D : \A b \in D : a <= b BY <2>1, LeastNat
  <2> QED BY <2>2 DEF D
<1>3. PICK i \in S : a = n - i BY <1>2
<1>4. ASSUME NEW j \in S PROVE j <= i
  <2>1. a <= n - j BY <1>2
  <2> QED BY <1>3, <2>1
<1> QED BY <1>4

\* The result says what was done.
LEMMA SbExact == ASSUME SbAssumption, SbInv PROVE TagListExact
<1> DEFINE done == IF sb_ret = 0 THEN Len(sb_list) ELSE sb_ret - 1
           Sets(i, c) == sb_list[i].set /\ sb_list[i].code = c /\ c # "release"
           Setters(c, n) == {i \in 1 .. n : Sets(i, c)}
           Last(c, n) == CHOOSE i \in Setters(c, n) : \A j \in Setters(c, n) : j <= i
           Value(i) == ~sb_list[i].ref \/ sb_list[i].data = 0
<1>1. PICK d : d = done OBVIOUS
<1>2. Done(sb_ret, Len(sb_list)) = d BY <1>1 DEF Done
<1>3. d \in Nat /\ d <= Len(sb_list) /\ Len(sb_list) \in Nat BY <1>1 DEF SbInv, TagsUpTo
<1>4. sb_ret # 0 => sb_list[sb_ret].code = "unknown" BY DEF SbInv, TagsUpTo
<1>5. \A i \in 1 .. d : sb_list[i].code # "unknown" BY <1>2 DEF SbInv, TagsUpTo
<1>6. OptsUpTo(sb_list, sb_old, sb_opts, d) /\ OutUpTo(sb_list, sb_old, sb_out, d) BY <1>2 DEF SbInv
<1>7. \A i, c : SetsTo(sb_list[i], c) <=> Sets(i, c) BY DEF SetsTo
<1>8. \A i : ByValue(sb_list[i]) <=> Value(i) BY DEF ByValue
<1>9. ASSUME NEW c \in SbSettings
      PROVE  IF Setters(c, d) = {} THEN sb_opts[c] = sb_old[c]
             ELSE Value(Last(c, d)) => sb_opts[c] = sb_list[Last(c, d)].data
  <2>1. CASE Setters(c, d) = {}
    <3>1. \A j \in 1 .. d : ~SetsTo(sb_list[j], c) BY <1>7, <2>1
    <3> QED BY <1>6, <2>1, <3>1 DEF OptsUpTo
  <2>2. CASE Setters(c, d) # {}
    <3>1. Setters(c, d) \in SUBSET (1 .. d) OBVIOUS
    <3>2. \E i \in Setters(c, d) : \A j \in Setters(c, d) : j <= i
      <4> HIDE DEF Setters
      <4> QED BY <1>3, <2>2, <3>1, Greatest
    <3>3. PICK i : i = Last(c, d) OBVIOUS
    <3>4. i \in Setters(c, d) /\ \A j \in Setters(c, d) : j <= i
      <4> HIDE DEF Setters
      <4> QED BY <3>2, <3>3
    <3>5. i \in 1 .. d /\ SetsTo(sb_list[i], c) BY <1>7, <3>4
    <3>6. ASSUME NEW j \in i + 1 .. d PROVE ~SetsTo(sb_list[j], c)
      <4>1. j \in 1 .. d /\ ~(j <= i) BY <1>3, <3>5
      <4> QED BY <1>7, <3>4, <4>1
    <3>7. ByValue(sb_list[i]) => sb_opts[c] = sb_list[i].data BY <1>6, <3>5, <3>6 DEF OptsUpTo
    <3>8. Value(i) => sb_opts[c] = sb_list[i].data BY <1>8, <3>7
    <3> HIDE DEF Setters, Value, Last
    <3> QED BY <2>2, <3>3, <3>8
  <2> HIDE DEF Setters, Value, Last
  <2> QED BY <2>1, <2>2
<1>10. ASSUME NEW i \in DOMAIN sb_list
       PROVE  IF i > d \/ sb_list[i].set \/ ~Value(i) THEN sb_out[i] = sb_list[i].data
              ELSE Setters(sb_list[i].code, i - 1) = {} => sb_out[i] = sb_old[sb_list[i].code]
  <2>1. IF i > d \/ sb_list[i].set \/ ~ByValue(sb_list[i]) THEN sb_out[i] = sb_list[i].data
        ELSE (\A k \in 1 .. i - 1 : ~SetsTo(sb_list[k], sb_list[i].code)) => sb_out[i] = sb_old[sb_list[i].code]
    BY <1>6 DEF OutUpTo
  <2>2. Setters(sb_list[i].code, i - 1) = {} => \A k \in 1 .. i - 1 : ~SetsTo(sb_list[k], sb_list[i].code)
    BY <1>7
  <2> QED BY <1>8, <2>1, <2>2
<1> QED BY <1>1, <1>4, <1>5, <1>9, <1>10 DEF TagListExact

----------------------------------------------------------------------------
(***************************************************************************)
(* Usergroup: the first context of a task counts its opens and has its     *)
(* cursor; a second one, linked for another task, counts nothing.          *)
(***************************************************************************)
\* A context, and those of a task.
UgCtx == [task : UgTasks \cup {UgFree}, opens : Nat, set : BOOLEAN, cur : Nat]
CtxOf(list, t) == {i \in DOMAIN list : list[i].task = t}
\* The first context of the task has its opens h and its cursor w; no other counts.
OneCounts(list, t, h, w) ==
    /\ CtxOf(list, t) = {} => h = 0
    /\ \A i \in CtxOf(list, t) :
         IF \A j \in CtxOf(list, t) : i <= j
         THEN /\ list[i].opens = h
              /\ IF w = -1 THEN list[i].cur \in {0, 1} ELSE list[i].cur = w + 1
         ELSE list[i].opens = 0 /\ list[i].cur = 0
\* A task no other has named has one context, which only its own calls changed.
Unnamed(list, t, used) ==
    /\ \A i, j \in CtxOf(list, t) : i = j
    /\ \A i \in CtxOf(list, t) : list[i].set => t \in used

\* What the base holds.
UgTypes ==
    /\ ug_contexts \in Seq(UgCtx) /\ ug_users \in Nat /\ ug_loaded \in BOOLEAN
    /\ ug_here \in BOOLEAN /\ ug_holds \in [UgTasks -> 0 .. UgOpens]
    /\ ug_insert \in {NoTask} \cup [by : UgTasks, task : UgTasks]
    /\ ug_walk \in [UgTasks -> Nat \cup {-1}]
\* A base that has left memory is empty; a lookup under way is by an opener.
UgAlive ==
    /\ ~ug_here => ug_contexts = <<>> /\ ug_insert = NoTask /\ \A t \in UgTasks : ug_holds[t] = 0
    /\ ug_insert # NoTask => ug_holds[ug_insert.by] > 0
\* A walk belongs to an opener and stays within the list of users.
UgWalks ==
    \A t \in UgTasks : (ug_holds[t] = 0 => ug_walk[t] = -1) /\ ug_walk[t] <= ug_users
\* Both for every task; together the invariant.
UgCounts == \A t \in UgTasks : OneCounts(ug_contexts, t, ug_holds[t], ug_walk[t])
UgClean == \A t \in UgTasks \ ug_named : Unnamed(ug_contexts, t, ug_used)
UgInv == UgTypes /\ UgAlive /\ UgWalks /\ UgCounts /\ UgClean

\* One entry of a list is replaced, or a new one is linked at its end.
PutAt(list, new, k, c) ==
    /\ DOMAIN new = DOMAIN list \cup {k} /\ new[k] = c
    /\ \A i \in DOMAIN list : i # k => new[i] = list[i]

\* The entries of other tasks are untouched.
LEMMA PutOther ==
    ASSUME NEW list, NEW new, NEW k, NEW c, PutAt(list, new, k, c), NEW u, c.task # u,
           k \in DOMAIN list => list[k].task # u, NEW h, NEW w, NEW used, NEW used1,
           u \in used => u \in used1
    PROVE  /\ OneCounts(list, u, h, w) => OneCounts(new, u, h, w)
           /\ Unnamed(list, u, used) => Unnamed(new, u, used1)
<1>1. CtxOf(new, u) = CtxOf(list, u) BY DEF CtxOf, PutAt
<1>2. \A i \in CtxOf(list, u) : new[i] = list[i] BY DEF CtxOf, PutAt
<1> QED BY <1>1, <1>2 DEF OneCounts, Unnamed

\* The first entry of a task is changed.
LEMMA PutOwn ==
    ASSUME NEW list, NEW new, NEW k \in Nat, NEW c, PutAt(list, new, k, c), NEW t, c.task = t,
           k \in CtxOf(list, t), \A j \in CtxOf(list, t) : k <= j, NEW h, NEW w, NEW h1, NEW w1,
           DOMAIN list \subseteq Nat,
           OneCounts(list, t, h, w), c.opens = h1, IF w1 = -1 THEN c.cur \in {0, 1} ELSE c.cur = w1 + 1
    PROVE  OneCounts(new, t, h1, w1)
<1>1. CtxOf(new, t) = CtxOf(list, t) /\ CtxOf(list, t) \subseteq Nat BY DEF CtxOf, PutAt
<1>2. \A i \in CtxOf(list, t) : i # k => new[i] = list[i] BY DEF CtxOf, PutAt
<1>3. new[k] = c BY DEF PutAt
<1>4. \A i \in CtxOf(list, t) : i # k => ~(\A j \in CtxOf(list, t) : i <= j) BY <1>1
<1> QED BY <1>1, <1>2, <1>3, <1>4 DEF OneCounts

\* What else is in the entry of a task alone.
LEMMA PutSet ==
    ASSUME NEW list, NEW new, NEW k, NEW c, PutAt(list, new, k, c), NEW t, c.task = t,
           k \in CtxOf(list, t), NEW used, NEW used1, used \subseteq used1,
           Unnamed(list, t, used), c.set => t \in used1
    PROVE  Unnamed(new, t, used1)
<1>1. CtxOf(new, t) = CtxOf(list, t) BY DEF CtxOf, PutAt
<1>2. \A i \in CtxOf(list, t) : i # k => new[i] = list[i] BY DEF CtxOf, PutAt
<1>3. new[k] = c BY DEF PutAt
<1> QED BY <1>1, <1>2, <1>3 DEF Unnamed

\* A task without an entry gets one.
LEMMA PutFirst ==
    ASSUME NEW list, NEW new, NEW k \in Nat, NEW c, PutAt(list, new, k, c), NEW t, c.task = t,
           CtxOf(list, t) = {}, NEW h, NEW w, NEW used,
           c.opens = h, IF w = -1 THEN c.cur \in {0, 1} ELSE c.cur = w + 1
    PROVE  OneCounts(new, t, h, w) /\ (~c.set => Unnamed(new, t, used))
<1>1. CtxOf(new, t) = {k} BY DEF CtxOf, PutAt
<1>3. new[k] = c BY DEF PutAt
<1> QED BY <1>1, <1>3 DEF OneCounts, Unnamed

\* The first entry of a task goes back to the pool.
LEMMA PutBack ==
    ASSUME NEW list, NEW new, NEW k \in Nat, NEW c, PutAt(list, new, k, c), NEW t, c.task # t,
           k \in CtxOf(list, t), \A j \in CtxOf(list, t) : k <= j, NEW h, NEW w,
           DOMAIN list \subseteq Nat, OneCounts(list, t, h, w), NEW used
    PROVE  /\ OneCounts(new, t, 0, -1)
           /\ (\A j \in CtxOf(list, t) : j = k) => Unnamed(new, t, used)
<1>1. CtxOf(new, t) = CtxOf(list, t) \ {k} /\ CtxOf(list, t) \subseteq Nat BY DEF CtxOf, PutAt
<1>2. \A i \in CtxOf(list, t) : i # k => new[i] = list[i] BY DEF CtxOf, PutAt
<1>4. \A i \in CtxOf(list, t) : i # k => ~(\A j \in CtxOf(list, t) : i <= j) BY <1>1
<1>5. \A i \in CtxOf(new, t) : new[i].opens = 0 /\ new[i].cur = 0 BY <1>1, <1>2, <1>4 DEF OneCounts
<1>6. OneCounts(new, t, 0, -1) BY <1>5 DEF OneCounts
<1>7. (\A j \in CtxOf(list, t) : j = k) => CtxOf(new, t) = {} BY <1>1
<1> QED BY <1>6, <1>7 DEF Unnamed

\* An entry is linked behind those the task has.
LEMMA PutLast ==
    ASSUME NEW list, NEW new, NEW k \in Nat, NEW c, PutAt(list, new, k, c), NEW t, c.task = t,
           DOMAIN list \subseteq Nat, \A i \in DOMAIN list : i < k, NEW h, NEW w,
           OneCounts(list, t, h, w), h = 0 => w = -1, c.opens = 0, c.cur = 0
    PROVE  OneCounts(new, t, h, w)
<1>1. CtxOf(new, t) = CtxOf(list, t) \cup {k} /\ CtxOf(list, t) \subseteq Nat BY DEF CtxOf, PutAt
<1>2. \A i \in CtxOf(list, t) : new[i] = list[i] /\ i < k BY DEF CtxOf, PutAt
<1>3. new[k] = c BY DEF PutAt
<1>4. CASE CtxOf(list, t) = {} BY <1>1, <1>3, <1>4 DEF OneCounts
<1>5. CASE CtxOf(list, t) # {}
  <2>1. ~(\A j \in CtxOf(new, t) : k <= j) BY <1>1, <1>2, <1>5
  <2>2. \A i \in CtxOf(list, t) : (\A j \in CtxOf(new, t) : i <= j) <=> (\A j \in CtxOf(list, t) : i <= j)
    BY <1>1, <1>2
  <2>3. h = 0 \/ CtxOf(new, t) # {} BY <1>1
  <2>4. ASSUME NEW i \in CtxOf(new, t)
        PROVE  IF \A j \in CtxOf(new, t) : i <= j
               THEN /\ new[i].opens = h
                    /\ IF w = -1 THEN new[i].cur \in {0, 1} ELSE new[i].cur = w + 1
               ELSE new[i].opens = 0 /\ new[i].cur = 0
    <3>1. CASE i = k BY <1>3, <2>1, <3>1
    <3>2. CASE i \in CtxOf(list, t) BY <1>2, <2>2, <3>2 DEF OneCounts
    <3> QED BY <1>1, <3>1, <3>2
  <2> QED BY <2>3, <2>4 DEF OneCounts
<1> QED BY <1>4, <1>5

\* Replacing and appending are such steps.
LEMMA Puts ==
    ASSUME NEW list \in Seq(UgCtx), NEW c \in UgCtx
    PROVE  /\ DOMAIN list = 1 .. Len(list) /\ Len(list) \in Nat /\ DOMAIN list \subseteq Nat
           /\ \A k \in DOMAIN list : /\ [list EXCEPT ![k] = c] \in Seq(UgCtx)
                                     /\ PutAt(list, [list EXCEPT ![k] = c], k, c)
           /\ Append(list, c) \in Seq(UgCtx) /\ PutAt(list, Append(list, c), Len(list) + 1, c)
<1>1. DOMAIN list = 1 .. Len(list) /\ Len(list) \in Nat OBVIOUS
<1>2. ASSUME NEW k \in DOMAIN list
      PROVE [list EXCEPT ![k] = c] \in Seq(UgCtx) /\ PutAt(list, [list EXCEPT ![k] = c], k, c)
  <2>1. PICK new : new = [list EXCEPT ![k] = c] OBVIOUS
  <2>2. DOMAIN new = DOMAIN list /\ new[k] = c /\ \A i \in DOMAIN list : i # k => new[i] = list[i] BY <2>1
  <2>3. new \in Seq(UgCtx) BY <1>1, <2>1
  <2> QED BY <2>1, <2>2, <2>3 DEF PutAt
<1>3. PICK new : new = Append(list, c) OBVIOUS
<1>4. /\ new \in Seq(UgCtx) /\ Len(new) = Len(list) + 1 /\ new[Len(list) + 1] = c
      /\ \A i \in 1 .. Len(list) : new[i] = list[i]
  BY <1>1, <1>3, AppendProperties
<1>5. DOMAIN new = 1 .. Len(list) + 1 BY <1>4
<1>6. DOMAIN new = DOMAIN list \cup {Len(list) + 1} BY <1>1, <1>5
<1>7. PutAt(list, new, Len(list) + 1, c) BY <1>1, <1>4, <1>6 DEF PutAt
<1> QED BY <1>1, <1>2, <1>3, <1>4, <1>7

\* The first of a set of entries.
LEMMA FirstIs ==
    ASSUME NEW S \in SUBSET Nat, S # {}
    PROVE  FirstOf(S) \in S /\ \A j \in S : FirstOf(S) <= j
BY LeastNat DEF FirstOf

\* What the count of opens says of each task's.
LEMMA OpenCnts ==
    ASSUME UgAssumption, UgTypes
    PROVE  /\ LibOpenCnt = 0 => \A t \in UgTasks : ug_holds[t] = 0
           /\ \A t \in UgTasks : LibOpenCnt = 1 /\ ug_holds[t] > 0
                => ug_holds[t] = 1 /\ \A u \in UgTasks : u # t => ug_holds[u] = 0
<1>1. PICK P : P = {p \in UgTasks \X (1 .. UgOpens) : p[2] <= ug_holds[p[1]]} OBVIOUS
<1>2. IsFiniteSet(P)
  <2>1. IsFiniteSet(1 .. UgOpens) BY FS_Interval DEF UgAssumption
  <2>2. IsFiniteSet(UgTasks \X (1 .. UgOpens)) BY <2>1, FS_Product DEF UgAssumption
  <2> QED BY <1>1, <2>2, FS_Subset
<1>3. LibOpenCnt = Cardinality(P) BY <1>1 DEF LibOpenCnt
<1>4. \A u \in UgTasks : ug_holds[u] \in 0 .. UgOpens /\ UgOpens \in Nat BY DEF UgTypes, UgAssumption
<1>5. \A u \in UgTasks, k \in 1 .. UgOpens : <<u, k>> \in P <=> k <= ug_holds[u] BY <1>1
<1>6. \A u \in UgTasks : ug_holds[u] # 0 => <<u, 1>> \in P
  <2> SUFFICES ASSUME NEW u \in UgTasks, ug_holds[u] # 0 PROVE <<u, 1>> \in P OBVIOUS
  <2>1. 1 \in 1 .. UgOpens /\ 1 <= ug_holds[u] BY <1>4
  <2> QED BY <1>5, <2>1
<1>7. ASSUME LibOpenCnt = 0 PROVE \A t \in UgTasks : ug_holds[t] = 0
  <2>1. P = {} BY <1>2, <1>3, <1>7, FS_EmptySet
  <2> QED BY <1>6, <2>1
<1>8. ASSUME NEW t \in UgTasks, LibOpenCnt = 1, ug_holds[t] > 0
      PROVE  ug_holds[t] = 1 /\ \A u \in UgTasks : u # t => ug_holds[u] = 0
  <2>1. PICK x : P = {x} BY <1>2, <1>3, <1>8, FS_Singleton
  <2>2. ug_holds[t] # 0 BY <1>8, <1>4
  <2>3. x = <<t, 1>> BY <1>6, <2>1, <2>2
  <2>4. ASSUME ug_holds[t] # 1 PROVE FALSE
    <3>1. 2 \in 1 .. UgOpens /\ 2 <= ug_holds[t] BY <1>4, <2>2, <2>4
    <3>2. <<t, 2>> \in P BY <1>5, <3>1
    <3>3. <<t, 2>> = <<t, 1>> BY <2>1, <2>3, <3>2
    <3> QED BY <3>3
  <2>5. ASSUME NEW u \in UgTasks, u # t, ug_holds[u] # 0 PROVE FALSE
    <3>1. <<u, 1>> = <<t, 1>> BY <1>6, <2>1, <2>3, <2>5
    <3> QED BY <2>5, <3>1
  <2> QED BY <2>4, <2>5
<1> QED BY <1>7, <1>8

\* A step about one task leaves the others' contexts as they should be.
LEMMA UgOthers ==
    ASSUME UgAssumption, UgInv, NEW k, NEW c, PutAt(ug_contexts, ug_contexts', k, c), NEW t \in UgTasks,
           c.task \in {t, UgFree}, k \in DOMAIN ug_contexts => ug_contexts[k].task \in {t, UgFree},
           \A u \in UgTasks : u # t => /\ ug_holds'[u] = ug_holds[u] /\ ug_walk'[u] = ug_walk[u]
                                      /\ (u \in ug_used => u \in ug_used')
                                      /\ (u \notin ug_named' => u \notin ug_named),
           OneCounts(ug_contexts', t, ug_holds'[t], ug_walk'[t]),
           t \notin ug_named' => Unnamed(ug_contexts', t, ug_used')
    PROVE  UgCounts' /\ UgClean'
<1>1. ASSUME NEW u \in UgTasks, u # t
      PROVE  /\ OneCounts(ug_contexts', u, ug_holds'[u], ug_walk'[u])
             /\ u \notin ug_named' => Unnamed(ug_contexts', u, ug_used')
  <2>1. c.task # u /\ (k \in DOMAIN ug_contexts => ug_contexts[k].task # u) BY <1>1 DEF UgAssumption
  <2>2. OneCounts(ug_contexts, u, ug_holds[u], ug_walk[u]) BY DEF UgInv, UgCounts
  <2>3. ug_holds'[u] = ug_holds[u] /\ ug_walk'[u] = ug_walk[u] /\ (u \in ug_used => u \in ug_used') BY <1>1
  <2>4. u \notin ug_named' => Unnamed(ug_contexts, u, ug_used) BY <1>1 DEF UgInv, UgClean
  <2>5. OneCounts(ug_contexts', u, ug_holds[u], ug_walk[u]) BY <2>1, <2>2, PutOther
  <2>6. Unnamed(ug_contexts, u, ug_used) => Unnamed(ug_contexts', u, ug_used') BY <2>1, <2>3, PutOther
  <2> QED BY <2>3, <2>4, <2>5, <2>6
<1>2. UgCounts' BY <1>1 DEF UgCounts
<1>3. UgClean' BY <1>1 DEF UgClean
<1> QED BY <1>2, <1>3

\* The entries of a task, and which of them its functions find.
LEMMA UgMine ==
    ASSUME UgAssumption, UgTypes, NEW t, Slots(t) # {}
    PROVE  \E k \in DOMAIN ug_contexts :
             /\ k \in Nat /\ k \in CtxOf(ug_contexts, t) /\ \A j \in CtxOf(ug_contexts, t) : k <= j
             /\ ug_contexts[k] \in UgCtx /\ ug_contexts[k].task = t
             /\ FirstOf(Slots(t)) = k /\ Mine(ug_contexts, t) = k /\ ug_ctx_lookup(t) = ug_contexts
<1>1. Slots(t) = CtxOf(ug_contexts, t) /\ ug_contexts \in Seq(UgCtx) BY DEF Slots, CtxOf, UgTypes
<1>2. Slots(t) \in SUBSET Nat /\ Slots(t) \subseteq DOMAIN ug_contexts
  <2>1. DOMAIN ug_contexts \subseteq Nat BY <1>1
  <2> QED BY <2>1 DEF Slots
<1>3. PICK k : k = FirstOf(Slots(t)) OBVIOUS
<1>4. k \in Slots(t) /\ \A j \in Slots(t) : k <= j BY <1>2, <1>3, FirstIs
<1>5. Mine(ug_contexts, t) = k BY <1>3 DEF Mine, Slots
<1>6. ug_ctx_lookup(t) = ug_contexts BY DEF ug_ctx_lookup
<1>7. ug_contexts[k] \in UgCtx /\ ug_contexts[k].task = t /\ k \in Nat /\ k \in DOMAIN ug_contexts
  <2>1. k \in DOMAIN ug_contexts /\ ug_contexts[k].task = t BY <1>4 DEF Slots
  <2>2. ug_contexts[k] \in UgCtx BY <1>1, <2>1
  <2> QED BY <1>2, <1>4, <2>1, <2>2
<1> QED BY <1>1, <1>3, <1>4, <1>5, <1>6, <1>7

\* A task with no entry gets a spare or a new one.
LEMMA UgFresh ==
    ASSUME UgAssumption, UgTypes, NEW t \in UgTasks, Slots(t) = {}
    PROVE  \E k \in Nat :
             /\ k \in DOMAIN ug_contexts => ug_contexts[k].task = UgFree
             /\ PutAt(ug_contexts, ug_ctx_lookup(t), k, ug_ctx_init(t))
             /\ ug_ctx_lookup(t) \in Seq(UgCtx) /\ k \in DOMAIN ug_ctx_lookup(t)
             /\ Mine(ug_ctx_lookup(t), t) = k
<1>0. ug_contexts \in Seq(UgCtx) BY DEF UgTypes
<1>1. PICK c \in UgCtx : c = ug_ctx_init(t) BY DEF UgCtx, ug_ctx_init
<1>2. PICK new : new = ug_ctx_lookup(t) OBVIOUS
<1>4. PICK k \in Nat : /\ k \in DOMAIN ug_contexts => ug_contexts[k].task = UgFree
                       /\ PutAt(ug_contexts, new, k, c) /\ new \in Seq(UgCtx)
  <2>1. CASE Slots(UgFree) # {}
    <3>1. PICK k \in DOMAIN ug_contexts : k \in Nat /\ ug_contexts[k].task = UgFree /\ FirstOf(Slots(UgFree)) = k
      BY <2>1, UgMine
    <3>2. new = [ug_contexts EXCEPT ![k] = c] BY <1>1, <1>2, <2>1, <3>1 DEF ug_ctx_lookup
    <3> QED BY <1>0, <3>1, <3>2, Puts
  <2>2. CASE Slots(UgFree) = {}
    <3>1. new = Append(ug_contexts, c) BY <1>1, <1>2, <2>2 DEF ug_ctx_lookup
    <3>2. PICK k \in Nat : k = Len(ug_contexts) + 1 BY <1>0
    <3>3. k \notin DOMAIN ug_contexts BY <1>0, <3>2
    <3> QED BY <1>0, <3>1, <3>2, <3>3, Puts
  <2> QED BY <2>1, <2>2
<1>5. {i \in DOMAIN new : new[i].task = t} = {k}
  <2>1. c.task = t BY <1>1 DEF ug_ctx_init
  <2> QED BY <1>4, <2>1 DEF PutAt, Slots
<1>6. FirstOf({k}) = k BY FirstIs
<1>7. Mine(new, t) = k BY <1>5, <1>6 DEF Mine
<1>8. k \in DOMAIN new BY <1>4 DEF PutAt
<1> QED BY <1>1, <1>2, <1>4, <1>7, <1>8

\* An entry that has just been put in is filled in.
LEMMA PutTwice ==
    ASSUME NEW list0, NEW list \in Seq(UgCtx), NEW k \in DOMAIN list, NEW c0, NEW c \in UgCtx,
           PutAt(list0, list, k, c0)
    PROVE  PutAt(list0, [list EXCEPT ![k] = c], k, c) /\ [list EXCEPT ![k] = c] \in Seq(UgCtx)
<1>1. PICK new : new = [list EXCEPT ![k] = c] OBVIOUS
<1>2. PutAt(list, new, k, c) /\ new \in Seq(UgCtx) BY <1>1, Puts
<1>3. PutAt(list0, new, k, c) BY <1>2 DEF PutAt
<1> QED BY <1>1, <1>2, <1>3

\* The invariant at the start.
LEMMA UgStarts == ASSUME UgAssumption, UgInit PROVE UgInv
<1>1. UgTypes
  <2>1. ug_contexts \in Seq(UgCtx) /\ ug_users \in Nat BY DEF UgInit, UgAssumption
  <2>2. ug_holds \in [UgTasks -> 0 .. UgOpens] BY DEF UgInit, UgAssumption
  <2>3. ug_walk \in [UgTasks -> Nat \cup {-1}] BY DEF UgInit
  <2> QED BY <2>1, <2>2, <2>3 DEF UgInit, UgTypes
<1>2. UgAlive BY DEF UgInit, UgAlive
<1>3. UgWalks BY DEF UgInit, UgWalks, UgAssumption
<1>4. \A t : CtxOf(ug_contexts, t) = {} BY DEF UgInit, CtxOf
<1>5. UgCounts BY <1>4 DEF UgCounts, OneCounts, UgInit
<1>6. UgClean BY <1>4 DEF UgClean, Unnamed
<1> QED BY <1>1, <1>2, <1>3, <1>5, <1>6 DEF UgInv

\* The Open vector.
LEMMA UgKeepsOpen == ASSUME UgAssumption, UgInv, NEW t \in UgTasks, ug_lib_open(t) PROVE UgInv'
<1>0. /\ UgTypes /\ UgAlive /\ UgWalks /\ UgCounts /\ UgClean BY DEF UgInv
<1>1. /\ ug_here /\ ug_holds[t] < UgOpens
      /\ ug_contexts' = [ug_ctx_lookup(t) EXCEPT ![Mine(ug_ctx_lookup(t), t)].opens = @ + 1]
      /\ ug_holds' = [ug_holds EXCEPT ![t] = @ + 1]
      /\ UNCHANGED <<ug_users, ug_loaded, ug_here, ug_insert, ug_used, ug_named, ug_walk>>
  BY DEF ug_lib_open
<1>2. PICK h \in 0 .. UgOpens - 1 : h = ug_holds[t] BY <1>0, <1>1 DEF UgTypes, UgAssumption
<1>3. PICK h1 \in 1 .. UgOpens : h1 = h + 1 BY DEF UgAssumption
<1>4. ug_holds' \in [UgTasks -> 0 .. UgOpens] /\ ug_holds'[t] = h1
      /\ \A u \in UgTasks : u # t => ug_holds'[u] = ug_holds[u]
  <2>1. ug_holds' = [ug_holds EXCEPT ![t] = h1] BY <1>1, <1>2, <1>3
  <2> QED BY <1>0, <2>1 DEF UgTypes, UgAssumption
<1>5. OneCounts(ug_contexts, t, h, ug_walk[t]) BY <1>0, <1>2 DEF UgCounts
<1>7. \A u \in UgTasks : u # t => /\ ug_holds'[u] = ug_holds[u] /\ ug_walk'[u] = ug_walk[u]
                                 /\ (u \in ug_used => u \in ug_used')
                                 /\ (u \notin ug_named' => u \notin ug_named)
  BY <1>1, <1>4
<1>6. ug_contexts' \in Seq(UgCtx) /\ UgCounts' /\ UgClean'
  <2>1. CASE Slots(t) # {}
    <3>1. PICK k \in DOMAIN ug_contexts :
             /\ k \in Nat /\ k \in CtxOf(ug_contexts, t) /\ \A j \in CtxOf(ug_contexts, t) : k <= j
             /\ ug_contexts[k] \in UgCtx /\ ug_contexts[k].task = t
             /\ FirstOf(Slots(t)) = k /\ Mine(ug_contexts, t) = k /\ ug_ctx_lookup(t) = ug_contexts
      BY <1>0, <2>1, UgMine
    <3>2. PICK o \in UgCtx : o = ug_contexts[k] BY <3>1
    <3>3. o.opens = h /\ (IF ug_walk[t] = -1 THEN o.cur \in {0, 1} ELSE o.cur = ug_walk[t] + 1)
      BY <1>5, <3>1, <3>2 DEF OneCounts
    <3>4. PICK c : c = [o EXCEPT !.opens = h1] OBVIOUS
    <3>5. c \in UgCtx /\ c.task = t /\ c.opens = h1 /\ c.cur = o.cur /\ c.set = o.set BY <3>1, <3>2, <3>4 DEF UgCtx
    <3>6. ug_contexts' = [ug_contexts EXCEPT ![k] = c] BY <1>1, <1>3, <3>1, <3>2, <3>3, <3>4
    <3>7. ug_contexts \in Seq(UgCtx) BY <1>0 DEF UgTypes
    <3>8. PutAt(ug_contexts, ug_contexts', k, c) /\ ug_contexts' \in Seq(UgCtx) /\ DOMAIN ug_contexts \subseteq Nat
      BY <3>5, <3>6, <3>7, Puts
    <3>9. OneCounts(ug_contexts', t, h1, ug_walk[t]) BY <1>5, <3>1, <3>3, <3>5, <3>8, PutOwn
    <3>10. t \notin ug_named => Unnamed(ug_contexts', t, ug_used)
      <4> SUFFICES ASSUME t \notin ug_named PROVE Unnamed(ug_contexts', t, ug_used) OBVIOUS
      <4>1. Unnamed(ug_contexts, t, ug_used) BY <1>0 DEF UgClean
      <4>2. c.set => t \in ug_used BY <3>1, <3>2, <3>5, <4>1 DEF Unnamed
      <4> QED BY <3>1, <3>5, <3>8, <4>1, <4>2, PutSet
    <3>11. OneCounts(ug_contexts', t, ug_holds'[t], ug_walk'[t]) BY <1>1, <1>4, <3>9
    <3>12. t \notin ug_named' => Unnamed(ug_contexts', t, ug_used') BY <1>1, <3>10
    <3>13. ug_contexts[k].task \in {t, UgFree} /\ c.task \in {t, UgFree} BY <3>1, <3>5
    <3>14. UgCounts' /\ UgClean' BY <1>7, <3>8, <3>11, <3>12, <3>13, UgOthers
    <3> QED BY <3>8, <3>14
  <2>2. CASE Slots(t) = {}
    <3>0. CtxOf(ug_contexts, t) = {} BY <2>2 DEF Slots, CtxOf
    <3>1. h = 0 /\ ug_walk[t] = -1 BY <1>0, <1>2, <1>5, <3>0 DEF OneCounts, UgWalks
    <3>2. PICK k \in Nat :
             /\ k \in DOMAIN ug_contexts => ug_contexts[k].task = UgFree
             /\ PutAt(ug_contexts, ug_ctx_lookup(t), k, ug_ctx_init(t))
             /\ ug_ctx_lookup(t) \in Seq(UgCtx) /\ k \in DOMAIN ug_ctx_lookup(t)
             /\ Mine(ug_ctx_lookup(t), t) = k
      BY <1>0, <2>2, UgFresh
    <3>3. PICK list \in Seq(UgCtx) : list = ug_ctx_lookup(t) BY <3>2
    <3>4. PICK o \in UgCtx : o = list[k] /\ o.task = t /\ o.opens = 0 /\ o.set = FALSE /\ o.cur = 0
      <4>1. list[k] = ug_ctx_init(t) /\ list[k] \in UgCtx BY <3>2, <3>3 DEF PutAt
      <4> QED BY <4>1 DEF ug_ctx_init
    <3>5. PICK c : c = [o EXCEPT !.opens = 1] OBVIOUS
    <3>6. c \in UgCtx /\ c.task = t /\ c.opens = h1 /\ c.cur = 0 /\ c.set = FALSE BY <1>3, <3>1, <3>4, <3>5 DEF UgCtx
    <3>7. ug_contexts' = [list EXCEPT ![k] = c]
      <4>1. ug_contexts' = [list EXCEPT ![k].opens = @ + 1] BY <1>1, <3>2, <3>3
      <4>2. k \in DOMAIN list /\ list[k].opens = 0 BY <3>2, <3>3, <3>4
      <4>3. [list EXCEPT ![k].opens = @ + 1] = [list EXCEPT ![k] = [list[k] EXCEPT !.opens = 1]] BY <4>2
      <4> QED BY <3>4, <3>5, <4>1, <4>3, Zenon
    <3>8. PutAt(ug_contexts, ug_contexts', k, c) /\ ug_contexts' \in Seq(UgCtx)
      BY <3>2, <3>3, <3>6, <3>7, PutTwice
    <3>9. OneCounts(ug_contexts', t, h1, ug_walk[t]) /\ Unnamed(ug_contexts', t, ug_used)
      BY <3>0, <3>1, <3>6, <3>8, PutFirst
    <3>11. OneCounts(ug_contexts', t, ug_holds'[t], ug_walk'[t]) BY <1>1, <1>4, <3>9
    <3>12. t \notin ug_named' => Unnamed(ug_contexts', t, ug_used') BY <1>1, <3>9
    <3>13. (k \in DOMAIN ug_contexts => ug_contexts[k].task \in {t, UgFree}) /\ c.task \in {t, UgFree}
      BY <3>2, <3>6
    <3>14. UgCounts' /\ UgClean' BY <1>7, <3>8, <3>11, <3>12, <3>13, UgOthers
    <3> QED BY <3>8, <3>14
  <2> QED BY <2>1, <2>2
<1>10. UgTypes' BY <1>0, <1>1, <1>4, <1>6 DEF UgTypes, NoTask
<1>8. UgAlive'
  <2>1. \A u \in UgTasks : ug_holds[u] > 0 => ug_holds'[u] > 0 BY <1>2, <1>3, <1>4
  <2>2. ug_insert # NoTask => ug_insert.by \in UgTasks BY <1>0 DEF UgTypes
  <2> QED BY <1>0, <1>1, <2>1, <2>2 DEF UgAlive, NoTask
<1>9. UgWalks'
  <2>1. \A u \in UgTasks : ug_holds'[u] = 0 => ug_holds[u] = 0 BY <1>4
  <2> QED BY <1>0, <1>1, <2>1 DEF UgWalks
<1> QED BY <1>6, <1>8, <1>9, <1>10 DEF UgInv

\* The first entry of a task is changed, and what it counts changes with it.
LEMMA UgOwn ==
    ASSUME UgAssumption, UgInv, NEW t \in UgTasks, Slots(t) # {}, NEW c \in UgCtx, c.task = t,
           ug_contexts' = [ug_contexts EXCEPT ![FirstOf(Slots(t))] = c],
           c.opens = ug_holds'[t],
           IF ug_walk'[t] = -1 THEN c.cur \in {0, 1} ELSE c.cur = ug_walk'[t] + 1,
           \A u \in UgTasks : u # t => /\ ug_holds'[u] = ug_holds[u] /\ ug_walk'[u] = ug_walk[u]
                                      /\ (u \notin ug_named' => u \notin ug_named),
           ug_used \subseteq ug_used',
           t \notin ug_named' => t \notin ug_named /\ (c.set => t \in ug_used')
    PROVE  ug_contexts' \in Seq(UgCtx) /\ UgCounts' /\ UgClean'
<1>0. UgTypes /\ UgCounts /\ UgClean BY DEF UgInv
<1>1. PICK k \in DOMAIN ug_contexts :
             /\ k \in Nat /\ k \in CtxOf(ug_contexts, t) /\ \A j \in CtxOf(ug_contexts, t) : k <= j
             /\ ug_contexts[k] \in UgCtx /\ ug_contexts[k].task = t
             /\ FirstOf(Slots(t)) = k /\ Mine(ug_contexts, t) = k /\ ug_ctx_lookup(t) = ug_contexts
  BY <1>0, UgMine
<1>2. ug_contexts \in Seq(UgCtx) BY <1>0 DEF UgTypes
<1>3. PutAt(ug_contexts, ug_contexts', k, c) /\ ug_contexts' \in Seq(UgCtx) /\ DOMAIN ug_contexts \subseteq Nat
  BY <1>1, <1>2, Puts
<1>4. PICK h1, w1 : h1 = ug_holds'[t] /\ w1 = ug_walk'[t] OBVIOUS
<1>5. OneCounts(ug_contexts, t, ug_holds[t], ug_walk[t]) BY <1>0 DEF UgCounts
<1>6. OneCounts(ug_contexts', t, h1, w1)
  <2>1. c.opens = h1 /\ (IF w1 = -1 THEN c.cur \in {0, 1} ELSE c.cur = w1 + 1) BY <1>4
  <2> QED BY <1>1, <1>3, <1>5, <2>1, PutOwn
<1>7. OneCounts(ug_contexts', t, ug_holds'[t], ug_walk'[t]) BY <1>4, <1>6
<1>8. t \notin ug_named' => Unnamed(ug_contexts', t, ug_used')
  <2> SUFFICES ASSUME t \notin ug_named' PROVE Unnamed(ug_contexts', t, ug_used') OBVIOUS
  <2>1. Unnamed(ug_contexts, t, ug_used) BY <1>0 DEF UgClean
  <2>2. PICK used1 : used1 = ug_used' OBVIOUS
  <2>4. ug_used \subseteq used1 /\ (c.set => t \in used1) BY <2>2
  <2>5. k \in CtxOf(ug_contexts, t) BY <1>1
  <2>6. PICK new : new = ug_contexts' OBVIOUS
  <2>7. PutAt(ug_contexts, new, k, c) BY <1>3, <2>6
  <2>8. Unnamed(new, t, used1) BY <2>1, <2>4, <2>5, <2>7, PutSet
  <2>3. Unnamed(ug_contexts', t, used1) BY <2>6, <2>8
  <2> QED BY <2>2, <2>3
<1>9. ug_contexts[k].task \in {t, UgFree} /\ c.task \in {t, UgFree} BY <1>1
<1>10. \A u \in UgTasks : u # t => /\ ug_holds'[u] = ug_holds[u] /\ ug_walk'[u] = ug_walk[u]
                                  /\ (u \in ug_used => u \in ug_used')
                                  /\ (u \notin ug_named' => u \notin ug_named)
  OBVIOUS
<1>11. PutAt(ug_contexts, ug_contexts', k, c) BY <1>3
<1>12. UgCounts' /\ UgClean' BY <1>7, <1>8, <1>9, <1>10, <1>11, UgOthers, ZenonT(30)
<1> QED BY <1>3, <1>12

\* A task that has the library open has a context, and the first counts it.
LEMMA UgHolder ==
    ASSUME UgAssumption, UgInv, NEW t \in UgTasks, ug_holds[t] > 0 \/ Slots(t) # {}
    PROVE  \E k \in DOMAIN ug_contexts, o \in UgCtx :
             /\ Slots(t) # {} /\ FirstOf(Slots(t)) = k /\ Mine(ug_contexts, t) = k
             /\ ug_ctx_lookup(t) = ug_contexts /\ o = ug_contexts[k] /\ o.task = t
             /\ o.opens = ug_holds[t]
             /\ IF ug_walk[t] = -1 THEN o.cur \in {0, 1} ELSE o.cur = ug_walk[t] + 1
<1>0. UgTypes BY DEF UgInv
<1>1. OneCounts(ug_contexts, t, ug_holds[t], ug_walk[t]) BY DEF UgInv, UgCounts
<1>2. ug_holds[t] # 0 \/ Slots(t) # {} BY <1>0 DEF UgTypes
<1>3. Slots(t) # {} BY <1>1, <1>2 DEF OneCounts, CtxOf, Slots
<1>4. PICK k \in DOMAIN ug_contexts :
             /\ k \in Nat /\ k \in CtxOf(ug_contexts, t) /\ \A j \in CtxOf(ug_contexts, t) : k <= j
             /\ ug_contexts[k] \in UgCtx /\ ug_contexts[k].task = t
             /\ FirstOf(Slots(t)) = k /\ Mine(ug_contexts, t) = k /\ ug_ctx_lookup(t) = ug_contexts
  BY <1>0, <1>3, UgMine
<1>5. /\ ug_contexts[k].opens = ug_holds[t]
      /\ IF ug_walk[t] = -1 THEN ug_contexts[k].cur \in {0, 1} ELSE ug_contexts[k].cur = ug_walk[t] + 1
  BY <1>1, <1>4 DEF OneCounts
<1> QED BY <1>3, <1>4, <1>5

\* The base is gone: nobody holds it, and no context is left.
LEMMA UgGone ==
    ASSUME UgAssumption, UgInv, Expunged, ug_insert = NoTask, ug_insert' = ug_insert,
           ug_holds' \in [UgTasks -> 0 .. UgOpens], ug_walk' \in [UgTasks -> Nat \cup {-1}],
           \A t \in UgTasks : ug_holds'[t] = 0 /\ ug_walk'[t] = -1
    PROVE  UgInv'
<1>0. UgTypes BY DEF UgInv
<1>1. /\ ug_here' = FALSE /\ ug_contexts' = <<>> /\ UNCHANGED <<ug_users, ug_loaded>> BY DEF Expunged
<1>2. ug_contexts' \in Seq(UgCtx) BY <1>1
<1>3. UgTypes' BY <1>0, <1>1, <1>2 DEF UgTypes, NoTask
<1>4. UgAlive' BY <1>1 DEF UgAlive, NoTask
<1>5. UgWalks' BY <1>0, <1>1 DEF UgWalks, UgTypes
<1>6. \A t : CtxOf(ug_contexts', t) = {} BY <1>1 DEF CtxOf
<1>7. UgCounts' BY <1>6 DEF UgCounts, OneCounts
<1>8. UgClean' BY <1>6 DEF UgClean, Unnamed
<1> QED BY <1>3, <1>4, <1>5, <1>7, <1>8 DEF UgInv

\* The Close vector.
LEMMA UgKeepsClose == ASSUME UgAssumption, UgInv, NEW t \in UgTasks, ug_lib_close(t) PROVE UgInv'
<1>0. /\ UgTypes /\ UgAlive /\ UgWalks /\ UgCounts /\ UgClean BY DEF UgInv
<1>1. /\ ug_holds[t] > 0 /\ ug_insert.by # t /\ ug_insert' = ug_insert
      /\ ug_holds' = [ug_holds EXCEPT ![t] = @ - 1]
  BY DEF ug_lib_close
<1>2. PICK h \in 1 .. UgOpens : h = ug_holds[t] BY <1>0, <1>1 DEF UgTypes, UgAssumption
<1>3. PICK h1 \in 0 .. UgOpens : h1 = h - 1 BY DEF UgAssumption
<1>4. ug_holds' \in [UgTasks -> 0 .. UgOpens] /\ ug_holds'[t] = h1
      /\ \A u \in UgTasks : u # t => ug_holds'[u] = ug_holds[u]
  <2>1. ug_holds' = [ug_holds EXCEPT ![t] = h1] BY <1>1, <1>2, <1>3
  <2> QED BY <1>0, <2>1 DEF UgTypes, UgAssumption
<1>5. /\ ug_walk' \in [UgTasks -> Nat \cup {-1}] /\ ug_walk'[t] = IF h = 1 THEN -1 ELSE ug_walk[t]
      /\ \A u \in UgTasks : u # t => ug_walk'[u] = ug_walk[u]
  <2>1. ug_walk \in [UgTasks -> Nat \cup {-1}] BY <1>0 DEF UgTypes
  <2>2. ug_walk' = IF h = 1 THEN [ug_walk EXCEPT ![t] = -1] ELSE ug_walk BY <1>2 DEF ug_lib_close
  <2>3. CASE h = 1 BY <2>1, <2>2, <2>3
  <2>4. CASE h # 1 BY <2>1, <2>2, <2>4
  <2> QED BY <2>3, <2>4
<1>6. /\ ug_used' = IF h = 1 THEN ug_used \ {t} ELSE ug_used
      /\ ug_named' = IF h = 1 /\ Cardinality(Slots(t)) = 1 THEN ug_named \ {t} ELSE ug_named
  BY <1>2 DEF ug_lib_close
<1>7. CASE LibOpenCnt = 1 /\ ug_delexp
  <2>1. Expunged BY <1>7 DEF ug_lib_close
  <2>2. h = 1 /\ \A u \in UgTasks : u # t => ug_holds[u] = 0 BY <1>0, <1>1, <1>2, <1>7, OpenCnts
  <2>3. \A u \in UgTasks : ug_holds'[u] = 0 BY <1>3, <1>4, <2>2
  <2>4. \A u \in UgTasks : ug_walk'[u] = -1 BY <1>0, <1>5, <2>2 DEF UgWalks
  <2>5. ug_insert = NoTask
    <3> SUFFICES ASSUME ug_insert # NoTask PROVE FALSE OBVIOUS
    <3>1. ug_insert.by \in UgTasks /\ ug_holds[ug_insert.by] > 0 BY <1>0 DEF UgTypes, UgAlive
    <3> QED BY <1>1, <2>2, <3>1
  <2> QED BY <1>1, <1>4, <1>5, <2>1, <2>3, <2>4, <2>5, UgGone
<1>8. CASE ~(LibOpenCnt = 1 /\ ug_delexp)
  <2>1. PICK k \in DOMAIN ug_contexts, o \in UgCtx :
             /\ Slots(t) # {} /\ FirstOf(Slots(t)) = k /\ Mine(ug_contexts, t) = k
             /\ ug_ctx_lookup(t) = ug_contexts /\ o = ug_contexts[k] /\ o.task = t
             /\ o.opens = ug_holds[t]
             /\ IF ug_walk[t] = -1 THEN o.cur \in {0, 1} ELSE o.cur = ug_walk[t] + 1
    BY <1>1, UgHolder
  <2>2. UNCHANGED <<ug_users, ug_loaded, ug_delexp, ug_here>> BY <1>8 DEF ug_lib_close, ugbase
  <2>3. ug_contexts' = [ug_contexts EXCEPT ![k] = ug_ctx_closed(o)] BY <1>8, <2>1 DEF ug_lib_close
  <2>4. ug_contexts' \in Seq(UgCtx) /\ UgCounts' /\ UgClean'
    <3>1. CASE h # 1
      <4>1. PICK c : c = [o EXCEPT !.opens = h1] OBVIOUS
      <4>2. c \in UgCtx /\ c.task = t /\ c.opens = h1 /\ c.cur = o.cur /\ c.set = o.set BY <2>1, <4>1 DEF UgCtx
      <4>3. ug_ctx_closed(o) = c BY <1>2, <1>3, <2>1, <3>1, <4>1 DEF ug_ctx_closed
      <4>4. ug_contexts' = [ug_contexts EXCEPT ![FirstOf(Slots(t))] = c] BY <2>1, <2>3, <4>3
      <4>5. ug_walk'[t] = ug_walk[t] /\ ug_named' = ug_named /\ ug_used' = ug_used BY <1>5, <1>6, <3>1
      <4>6. IF ug_walk'[t] = -1 THEN c.cur \in {0, 1} ELSE c.cur = ug_walk'[t] + 1 BY <2>1, <4>2, <4>5
      <4>7. t \notin ug_named' => t \notin ug_named /\ (c.set => t \in ug_used')
        <5> SUFFICES ASSUME t \notin ug_named PROVE c.set => t \in ug_used BY <4>5
        <5>1. Unnamed(ug_contexts, t, ug_used) BY <1>0 DEF UgClean
        <5>2. k \in CtxOf(ug_contexts, t) BY <2>1 DEF CtxOf
        <5> QED BY <2>1, <4>2, <5>1, <5>2 DEF Unnamed
      <4>8. \A u \in UgTasks : u # t => /\ ug_holds'[u] = ug_holds[u] /\ ug_walk'[u] = ug_walk[u]
                                        /\ (u \notin ug_named' => u \notin ug_named)
        BY <1>4, <1>5, <4>5
      <4>9. c.opens = ug_holds'[t] /\ ug_used \subseteq ug_used' BY <1>4, <4>2, <4>5
      <4> QED BY <2>1, <4>2, <4>4, <4>6, <4>7, <4>8, <4>9, UgOwn
    <3>2. CASE h = 1
      <4>1. PICK c : c = ug_ctx_init(UgFree) OBVIOUS
      <4>2. c \in UgCtx /\ c.task = UgFree BY <4>1 DEF UgCtx, ug_ctx_init
      <4>3. ug_ctx_closed(o) = c BY <1>2, <2>1, <3>2, <4>1 DEF ug_ctx_closed
      <4>4. ug_contexts' = [ug_contexts EXCEPT ![k] = c] BY <2>3, <4>3
      <4>5. PutAt(ug_contexts, ug_contexts', k, c) /\ ug_contexts' \in Seq(UgCtx) /\ DOMAIN ug_contexts \subseteq Nat
        BY <1>0, <4>2, <4>4, Puts DEF UgTypes
      <4>6. k \in Nat /\ k \in CtxOf(ug_contexts, t) /\ \A j \in CtxOf(ug_contexts, t) : k <= j
        BY <1>0, <2>1, UgMine
      <4>7. OneCounts(ug_contexts, t, ug_holds[t], ug_walk[t]) BY <1>0 DEF UgCounts
      <4>8. c.task # t BY <4>2 DEF UgAssumption
      <4>9. PICK used1 : used1 = ug_used' OBVIOUS
      <4>10. /\ OneCounts(ug_contexts', t, 0, -1)
             /\ (\A j \in CtxOf(ug_contexts, t) : j = k) => Unnamed(ug_contexts', t, used1)
        BY <4>5, <4>6, <4>7, <4>8, PutBack
      <4>11. OneCounts(ug_contexts', t, ug_holds'[t], ug_walk'[t])
        <5>1. ug_holds'[t] = 0 /\ ug_walk'[t] = -1 BY <1>3, <1>4, <1>5, <3>2
        <5> QED BY <4>10, <5>1
      <4>12. t \notin ug_named' => Unnamed(ug_contexts', t, ug_used')
        <5> SUFFICES ASSUME t \notin ug_named' PROVE \A j \in CtxOf(ug_contexts, t) : j = k
          BY <4>9, <4>10
        <5>1. CASE t \notin ug_named
          <6>1. Unnamed(ug_contexts, t, ug_used) BY <1>0, <5>1 DEF UgClean
          <6> QED BY <4>6, <6>1 DEF Unnamed
        <5>2. CASE t \in ug_named
          <6>1. Cardinality(Slots(t)) = 1 BY <1>6, <5>2
          <6>2. Slots(t) = CtxOf(ug_contexts, t) BY DEF Slots, CtxOf
          <6>3. IsFiniteSet(Slots(t))
            <7>1. DOMAIN ug_contexts = 1 .. Len(ug_contexts) /\ Len(ug_contexts) \in Nat BY <1>0 DEF UgTypes
            <7>2. IsFiniteSet(DOMAIN ug_contexts) BY <7>1, FS_Interval
            <7> QED BY <7>2, FS_Subset DEF Slots
          <6>4. PICK x : Slots(t) = {x} BY <6>1, <6>3, FS_Singleton
          <6> QED BY <4>6, <6>2, <6>4
        <5> QED BY <5>1, <5>2
      <4>13. ug_contexts[k].task \in {t, UgFree} /\ c.task \in {t, UgFree} BY <2>1, <4>2
      <4>14. \A u \in UgTasks : u # t => /\ ug_holds'[u] = ug_holds[u] /\ ug_walk'[u] = ug_walk[u]
                                         /\ (u \in ug_used => u \in ug_used')
                                         /\ (u \notin ug_named' => u \notin ug_named)
        BY <1>4, <1>5, <1>6
      <4>15. UgCounts' /\ UgClean' BY <4>5, <4>11, <4>12, <4>13, <4>14, UgOthers
      <4> QED BY <4>5, <4>15
    <3> QED BY <3>1, <3>2
  <2>5. UgTypes' BY <1>0, <1>1, <1>4, <1>5, <2>2, <2>4 DEF UgTypes, NoTask
  <2>6. UgAlive'
    <3>1. ug_here BY <1>0, <1>1 DEF UgAlive, UgTypes
    <3>2. ug_insert # NoTask => ug_insert.by \in UgTasks /\ ug_holds[ug_insert.by] > 0
      BY <1>0 DEF UgTypes, UgAlive
    <3> QED BY <1>1, <1>4, <2>2, <3>1, <3>2 DEF UgAlive, NoTask
  <2>7. UgWalks'
    <3>1. ug_users \in Nat BY <1>0 DEF UgTypes
    <3>2. ASSUME NEW u \in UgTasks PROVE (ug_holds'[u] = 0 => ug_walk'[u] = -1) /\ ug_walk'[u] <= ug_users'
      <4>1. CASE u = t
        <5>1. CASE h = 1 BY <1>5, <2>2, <3>1, <4>1, <5>1
        <5>2. CASE h # 1 BY <1>0, <1>3, <1>4, <1>5, <2>2, <4>1, <5>2 DEF UgWalks
        <5> QED BY <5>1, <5>2
      <4>2. CASE u # t BY <1>0, <1>4, <1>5, <2>2, <4>2 DEF UgWalks
      <4> QED BY <4>1, <4>2
    <3> QED BY <3>2 DEF UgWalks
  <2> QED BY <2>4, <2>5, <2>6, <2>7 DEF UgInv
<1> QED BY <1>7, <1>8

\* Expunge, and a later start of the library.
LEMMA UgKeepsExpunge == ASSUME UgAssumption, UgInv, ug_lib_expunge \/ ug_init_c PROVE UgInv'
<1>0. /\ UgTypes /\ UgAlive /\ UgWalks /\ UgCounts /\ UgClean BY DEF UgInv
<1>1. CASE ug_lib_expunge
  <2>1. UNCHANGED <<ug_insert, ug_holds, ug_used, ug_walk>> BY <1>1 DEF ug_lib_expunge
  <2>2. CASE UNCHANGED <<ug_contexts, ug_users, ug_loaded, ug_here, ug_named>>
    BY <1>0, <2>1, <2>2 DEF UgInv, UgTypes, UgAlive, UgWalks, UgCounts, UgClean, NoTask
  <2>3. CASE LibOpenCnt = 0 /\ Expunged
    <3>1. \A t \in UgTasks : ug_holds[t] = 0 BY <1>0, <2>3, OpenCnts
    <3>2. \A t \in UgTasks : ug_walk[t] = -1 BY <1>0, <3>1 DEF UgWalks
    <3>3. ug_insert = NoTask
      <4> SUFFICES ASSUME ug_insert # NoTask PROVE FALSE OBVIOUS
      <4>1. ug_insert.by \in UgTasks /\ ug_holds[ug_insert.by] > 0 BY <1>0 DEF UgTypes, UgAlive
      <4> QED BY <3>1, <4>1
    <3>4. ug_holds' \in [UgTasks -> 0 .. UgOpens] /\ ug_walk' \in [UgTasks -> Nat \cup {-1}]
      BY <1>0, <2>1 DEF UgTypes
    <3> QED BY <2>1, <2>3, <3>1, <3>2, <3>3, <3>4, UgGone
  <2> QED BY <1>1, <2>2, <2>3 DEF ug_lib_expunge
<1>2. CASE ug_init_c
  <2>1. /\ ~ug_here /\ ug_here' = TRUE /\ ug_users' = UgBuiltin /\ ug_loaded' = FALSE
        /\ UNCHANGED <<ug_contexts, ug_insert, ug_holds, ug_used, ug_named, ug_walk>>
    BY <1>2 DEF ug_init_c
  <2>2. UgTypes' BY <1>0, <2>1 DEF UgTypes, UgAssumption, NoTask
  <2>3. UgAlive' BY <1>0, <2>1 DEF UgAlive, NoTask
  <2>4. \A t \in UgTasks : ug_walk[t] = -1 BY <1>0, <2>1 DEF UgAlive, UgWalks
  <2>5. UgWalks' BY <2>1, <2>4 DEF UgWalks, UgAssumption
  <2>6. UgCounts' /\ UgClean' BY <1>0, <2>1 DEF UgCounts, UgClean
  <2> QED BY <2>2, <2>3, <2>5, <2>6 DEF UgInv
<1> QED BY <1>1, <1>2

\* What a step that leaves the opens and the base alone keeps of them.
LEMMA UgRest ==
    ASSUME UgAssumption, UgInv, ug_contexts' \in Seq(UgCtx), UgCounts' /\ UgClean',
           UNCHANGED <<ug_here, ug_insert, ug_holds>>, ug_here,
           ug_users' \in Nat, ug_users <= ug_users', ug_loaded' \in BOOLEAN,
           ug_walk' \in [UgTasks -> Nat \cup {-1}],
           \A t \in UgTasks : ug_walk'[t] # ug_walk[t] => ug_holds[t] > 0 /\ ug_walk'[t] <= ug_users'
    PROVE  UgInv'
<1>0. /\ UgTypes /\ UgAlive /\ UgWalks BY DEF UgInv
<1>1. UgTypes' BY <1>0 DEF UgTypes, NoTask
<1>2. UgAlive' BY <1>0 DEF UgAlive, NoTask
<1>3. UgWalks'
  <2> SUFFICES ASSUME NEW t \in UgTasks PROVE (ug_holds[t] = 0 => ug_walk'[t] = -1) /\ ug_walk'[t] <= ug_users'
    BY DEF UgWalks
  <2>1. ug_holds[t] \in 0 .. UgOpens /\ ug_walk[t] \in Nat \cup {-1} /\ ug_users \in Nat BY <1>0 DEF UgTypes
  <2>2. (ug_holds[t] = 0 => ug_walk[t] = -1) /\ ug_walk[t] <= ug_users BY <1>0 DEF UgWalks
  <2>3. CASE ug_walk'[t] = ug_walk[t] BY <2>1, <2>2, <2>3
  <2>4. CASE ug_walk'[t] # ug_walk[t] BY <2>1, <2>4
  <2> QED BY <2>3, <2>4
<1> QED BY <1>1, <1>2, <1>3 DEF UgInv

\* The context's own flag says that the program changed it.
LEMMA UgFlag ==
    ASSUME UgAssumption, UgInv, NEW t \in UgTasks, t \notin ug_named, NEW k \in DOMAIN ug_contexts,
           ug_contexts[k].task = t, ug_contexts[k].set
    PROVE  t \in ug_used
<1>1. Unnamed(ug_contexts, t, ug_used) BY DEF UgInv, UgClean
<1> QED BY <1>1 DEF Unnamed, CtxOf

\* A program changes its own context.
LEMMA UgKeepsChange == ASSUME UgAssumption, UgInv, NEW t \in UgTasks, ChangeOwn(t) PROVE UgInv'
<1>0. UgTypes /\ UgAlive BY DEF UgInv
<1>1. /\ ug_holds[t] > 0 /\ ug_contexts' = [ug_ctx_lookup(t) EXCEPT ![Mine(ug_ctx_lookup(t), t)].set = TRUE]
      /\ ug_used' = ug_used \cup {t}
      /\ UNCHANGED <<ug_users, ug_loaded, ug_here, ug_insert, ug_holds, ug_named, ug_walk>>
  BY DEF ChangeOwn, ugbase
<1>2. PICK k \in DOMAIN ug_contexts, o \in UgCtx :
             /\ Slots(t) # {} /\ FirstOf(Slots(t)) = k /\ Mine(ug_contexts, t) = k
             /\ ug_ctx_lookup(t) = ug_contexts /\ o = ug_contexts[k] /\ o.task = t
             /\ o.opens = ug_holds[t]
             /\ IF ug_walk[t] = -1 THEN o.cur \in {0, 1} ELSE o.cur = ug_walk[t] + 1
  BY <1>1, UgHolder
<1>3. PICK c : c = [o EXCEPT !.set = TRUE] OBVIOUS
<1>4. c \in UgCtx /\ c.task = t /\ c.opens = o.opens /\ c.cur = o.cur BY <1>2, <1>3 DEF UgCtx
<1>5. ug_contexts' = [ug_contexts EXCEPT ![FirstOf(Slots(t))] = c] BY <1>1, <1>2, <1>3
<1>6. /\ c.opens = ug_holds'[t] /\ t \in ug_used' /\ ug_used \subseteq ug_used'
      /\ IF ug_walk'[t] = -1 THEN c.cur \in {0, 1} ELSE c.cur = ug_walk'[t] + 1
  BY <1>1, <1>2, <1>4
<1>7. \A u \in UgTasks : u # t => /\ ug_holds'[u] = ug_holds[u] /\ ug_walk'[u] = ug_walk[u]
                                 /\ (u \notin ug_named' => u \notin ug_named)
  BY <1>1
<1>8. t \notin ug_named' => t \notin ug_named /\ (c.set => t \in ug_used') BY <1>1, <1>6
<1>9. ug_contexts' \in Seq(UgCtx) /\ UgCounts' /\ UgClean'
  BY <1>2, <1>4, <1>5, <1>6, <1>7, <1>8, UgOwn
<1>10. ug_here BY <1>0, <1>1 DEF UgAlive, UgTypes
<1> QED BY <1>0, <1>1, <1>9, <1>10, UgRest DEF UgTypes

\* The database is there when somebody reads it, and only grows.
LEMMA UgLoads ==
    ASSUME UgAssumption, UgTypes, NEW t, ug_db_ensure_loaded(t)
    PROVE  ug_users' \in Nat /\ ug_users <= ug_users' /\ ug_loaded' \in BOOLEAN /\ ug_here' = ug_here
BY DEF ug_db_ensure_loaded, UgTypes, UgAssumption, Loads

\* A program starts its walk again.
LEMMA UgKeepsRewind == ASSUME UgAssumption, UgInv, NEW t \in UgTasks, ug_db_setpwent(t) PROVE UgInv'
<1>0. UgTypes /\ UgAlive BY DEF UgInv
<1>1. /\ ug_holds[t] > 0 /\ ug_contexts' = [ug_ctx_lookup(t) EXCEPT ![Mine(ug_ctx_lookup(t), t)].cur = 1]
      /\ ug_walk' = [ug_walk EXCEPT ![t] = -1] /\ ug_db_ensure_loaded(t)
      /\ UNCHANGED <<ug_insert, ug_holds, ug_used, ug_named>>
  BY DEF ug_db_setpwent
<1>2. PICK k \in DOMAIN ug_contexts, o \in UgCtx :
             /\ Slots(t) # {} /\ FirstOf(Slots(t)) = k /\ Mine(ug_contexts, t) = k
             /\ ug_ctx_lookup(t) = ug_contexts /\ o = ug_contexts[k] /\ o.task = t
             /\ o.opens = ug_holds[t]
             /\ IF ug_walk[t] = -1 THEN o.cur \in {0, 1} ELSE o.cur = ug_walk[t] + 1
  BY <1>1, UgHolder
<1>3. PICK c : c = [o EXCEPT !.cur = 1] OBVIOUS
<1>4. c \in UgCtx /\ c.task = t /\ c.opens = o.opens /\ c.cur = 1 /\ c.set = o.set BY <1>2, <1>3 DEF UgCtx
<1>5. ug_contexts' = [ug_contexts EXCEPT ![FirstOf(Slots(t))] = c] BY <1>1, <1>2, <1>3
<1>6. /\ ug_walk' \in [UgTasks -> Nat \cup {-1}] /\ ug_walk'[t] = -1
      /\ \A u \in UgTasks : u # t => ug_walk'[u] = ug_walk[u]
  BY <1>0, <1>1 DEF UgTypes
<1>7. \A u \in UgTasks : u # t => /\ ug_holds'[u] = ug_holds[u] /\ ug_walk'[u] = ug_walk[u]
                                 /\ (u \notin ug_named' => u \notin ug_named)
  BY <1>1, <1>6
<1>8. t \notin ug_named' => t \notin ug_named /\ (c.set => t \in ug_used') BY <1>1, <1>2, <1>4, UgFlag
<1>9. c.opens = ug_holds'[t] /\ ug_used \subseteq ug_used' BY <1>1, <1>2, <1>4
<1>10. IF ug_walk'[t] = -1 THEN c.cur \in {0, 1} ELSE c.cur = ug_walk'[t] + 1 BY <1>4, <1>6
<1>11. ug_contexts' \in Seq(UgCtx) /\ UgCounts' /\ UgClean'
  BY <1>2, <1>4, <1>5, <1>7, <1>8, <1>9, <1>10, UgOwn
<1>12. ug_here BY <1>0, <1>1 DEF UgAlive, UgTypes
<1>13. ug_users' \in Nat /\ ug_users <= ug_users' /\ ug_loaded' \in BOOLEAN /\ ug_here' = ug_here
  BY <1>0, <1>1, UgLoads
<1>14. \A u \in UgTasks : ug_walk'[u] # ug_walk[u] => ug_holds[u] > 0 /\ ug_walk'[u] <= ug_users'
  BY <1>1, <1>6, <1>13
<1> QED BY <1>1, <1>6, <1>11, <1>12, <1>13, <1>14, UgRest

\* A program takes the next user.
LEMMA UgKeepsWalk == ASSUME UgAssumption, UgInv, NEW t \in UgTasks, ug_db_getpwent(t) PROVE UgInv'
<1>0. UgTypes /\ UgAlive BY DEF UgInv
<1>1. ug_holds[t] > 0 /\ ug_db_ensure_loaded(t) /\ UNCHANGED <<ug_insert, ug_holds, ug_used, ug_named>>
  BY DEF ug_db_getpwent
<1>2. PICK k \in DOMAIN ug_contexts, o \in UgCtx :
             /\ Slots(t) # {} /\ FirstOf(Slots(t)) = k /\ Mine(ug_contexts, t) = k
             /\ ug_ctx_lookup(t) = ug_contexts /\ o = ug_contexts[k] /\ o.task = t
             /\ o.opens = ug_holds[t]
             /\ IF ug_walk[t] = -1 THEN o.cur \in {0, 1} ELSE o.cur = ug_walk[t] + 1
  BY <1>1, UgHolder
<1>3. PICK cur \in Nat : cur = IF o.cur = 0 THEN 1 ELSE o.cur BY DEF UgCtx
<1>4. PICK w : w = ug_walk[t] OBVIOUS
<1>5. w \in Nat \cup {-1} /\ ug_walk \in [UgTasks -> Nat \cup {-1}] BY <1>0, <1>4 DEF UgTypes
<1>6. PICK v \in Nat : v = IF w = -1 THEN 0 ELSE w BY <1>5
<1>7. cur = v + 1 /\ (w # -1 => o.cur = cur) BY <1>2, <1>3, <1>4, <1>5, <1>6
<1>8. \/ /\ cur <= ug_users' /\ ug_contexts' = [ug_contexts EXCEPT ![k].cur = cur + 1]
         /\ ug_walk' = [ug_walk EXCEPT ![t] = v + 1]
      \/ ug_contexts' = [ug_contexts EXCEPT ![k].cur = cur] /\ ug_walk' = ug_walk
  BY <1>2, <1>3, <1>4, <1>6 DEF ug_db_getpwent
<1>9. PICK n \in Nat, w1 \in Nat \cup {-1} :
        /\ ug_contexts' = [ug_contexts EXCEPT ![k].cur = n] /\ ug_walk' = [ug_walk EXCEPT ![t] = w1]
        /\ IF w1 = -1 THEN n \in {0, 1} ELSE n = w1 + 1
        /\ w1 = w \/ w1 <= ug_users'
  <2>1. CASE /\ cur <= ug_users' /\ ug_contexts' = [ug_contexts EXCEPT ![k].cur = cur + 1]
             /\ ug_walk' = [ug_walk EXCEPT ![t] = v + 1]
    <3>1. PICK n \in Nat, w1 \in Nat : n = cur + 1 /\ w1 = v + 1 OBVIOUS
    <3>2. w1 # -1 /\ n = w1 + 1 /\ w1 <= ug_users' BY <1>7, <2>1, <3>1
    <3> QED BY <2>1, <3>1, <3>2
  <2>2. CASE ug_contexts' = [ug_contexts EXCEPT ![k].cur = cur] /\ ug_walk' = ug_walk
    <3>1. ug_walk' = [ug_walk EXCEPT ![t] = w] BY <1>4, <1>5, <2>2
    <3>2. IF w = -1 THEN cur \in {0, 1} ELSE cur = w + 1 BY <1>6, <1>7
    <3> QED BY <1>5, <2>2, <3>1, <3>2
  <2> QED BY <1>8, <2>1, <2>2
<1>10. PICK c : c = [o EXCEPT !.cur = n] OBVIOUS
<1>11. c \in UgCtx /\ c.task = t /\ c.opens = o.opens /\ c.cur = n /\ c.set = o.set BY <1>2, <1>10 DEF UgCtx
<1>12. ug_contexts' = [ug_contexts EXCEPT ![FirstOf(Slots(t))] = c] BY <1>2, <1>9, <1>10
<1>13. /\ ug_walk' \in [UgTasks -> Nat \cup {-1}] /\ ug_walk'[t] = w1
       /\ \A u \in UgTasks : u # t => ug_walk'[u] = ug_walk[u]
  BY <1>5, <1>9
<1>14. \A u \in UgTasks : u # t => /\ ug_holds'[u] = ug_holds[u] /\ ug_walk'[u] = ug_walk[u]
                                  /\ (u \notin ug_named' => u \notin ug_named)
  BY <1>1, <1>13
<1>15. t \notin ug_named' => t \notin ug_named /\ (c.set => t \in ug_used') BY <1>1, <1>2, <1>11, UgFlag
<1>16. c.opens = ug_holds'[t] /\ ug_used \subseteq ug_used' BY <1>1, <1>2, <1>11
<1>17. IF ug_walk'[t] = -1 THEN c.cur \in {0, 1} ELSE c.cur = ug_walk'[t] + 1 BY <1>9, <1>11, <1>13
<1>18. ug_contexts' \in Seq(UgCtx) /\ UgCounts' /\ UgClean'
  BY <1>2, <1>11, <1>12, <1>14, <1>15, <1>16, <1>17, UgOwn
<1>19. ug_here BY <1>0, <1>1 DEF UgAlive, UgTypes
<1>20. ug_users' \in Nat /\ ug_users <= ug_users' /\ ug_loaded' \in BOOLEAN /\ ug_here' = ug_here
  BY <1>0, <1>1, UgLoads
<1>21. \A u \in UgTasks : ug_walk'[u] # ug_walk[u] => ug_holds[u] > 0 /\ ug_walk'[u] <= ug_users'
  BY <1>1, <1>4, <1>9, <1>13
<1> QED BY <1>1, <1>13, <1>18, <1>19, <1>20, <1>21, UgRest

\* A program names another task.
LEMMA UgKeepsName ==
    ASSUME UgAssumption, UgInv, NEW t \in UgTasks, NEW u \in UgTasks, NameOther(t, u) PROVE UgInv'
<1>0. UgTypes /\ UgAlive /\ UgWalks /\ UgCounts /\ UgClean BY DEF UgInv
<1>1. /\ ug_holds[t] > 0 /\ ug_insert = NoTask /\ ug_named' = ug_named \cup {u}
      /\ UNCHANGED <<ug_users, ug_loaded, ug_here, ug_holds, ug_used, ug_walk>>
  BY DEF NameOther, ugbase
<1>2. ug_here BY <1>0, <1>1 DEF UgAlive, UgTypes
<1>3. \A x \in UgTasks : x # u => /\ ug_holds'[x] = ug_holds[x] /\ ug_walk'[x] = ug_walk[x]
                                 /\ (x \in ug_used => x \in ug_used')
                                 /\ (x \notin ug_named' => x \notin ug_named)
  BY <1>1
<1>4. u \in ug_named' /\ ug_used \subseteq ug_used' BY <1>1
<1>5. ASSUME ug_insert' = ug_insert, ug_contexts' \in Seq(UgCtx), UgCounts' /\ UgClean' PROVE UgInv'
  BY <1>0, <1>1, <1>2, <1>5, UgRest DEF UgTypes
<1>6. CASE Slots(u) # {}
  <2>1. PICK k \in DOMAIN ug_contexts, o \in UgCtx :
             /\ Slots(u) # {} /\ FirstOf(Slots(u)) = k /\ Mine(ug_contexts, u) = k
             /\ ug_ctx_lookup(u) = ug_contexts /\ o = ug_contexts[k] /\ o.task = u
             /\ o.opens = ug_holds[u]
             /\ IF ug_walk[u] = -1 THEN o.cur \in {0, 1} ELSE o.cur = ug_walk[u] + 1
    BY <1>6, UgHolder
  <2>2. PICK c : c = [o EXCEPT !.set = TRUE] OBVIOUS
  <2>3. c \in UgCtx /\ c.task = u /\ c.opens = o.opens /\ c.cur = o.cur BY <2>1, <2>2 DEF UgCtx
  <2>4. ug_contexts' = [ug_contexts EXCEPT ![k].set = TRUE] /\ ug_insert' = ug_insert
    BY <1>6, <2>1 DEF NameOther
  <2>5. ug_contexts' = [ug_contexts EXCEPT ![FirstOf(Slots(u))] = c] BY <2>1, <2>2, <2>4
  <2>6. /\ c.opens = ug_holds'[u]
        /\ IF ug_walk'[u] = -1 THEN c.cur \in {0, 1} ELSE c.cur = ug_walk'[u] + 1
    BY <1>1, <2>1, <2>3
  <2>7. u \notin ug_named' => u \notin ug_named /\ (c.set => u \in ug_used') BY <1>4
  <2>8. ug_contexts' \in Seq(UgCtx) /\ UgCounts' /\ UgClean'
    BY <1>3, <1>4, <2>1, <2>3, <2>5, <2>6, <2>7, UgOwn
  <2> QED BY <1>5, <2>4, <2>8
<1>7. CASE Slots(u) = {} /\ Slots(UgFree) # {}
  <2>0. CtxOf(ug_contexts, u) = {} BY <1>7 DEF Slots, CtxOf
  <2>1. ug_holds[u] = 0 /\ ug_walk[u] = -1 BY <1>0, <2>0 DEF UgCounts, OneCounts, UgWalks
  <2>2. PICK k \in Nat :
             /\ k \in DOMAIN ug_contexts => ug_contexts[k].task = UgFree
             /\ PutAt(ug_contexts, ug_ctx_lookup(u), k, ug_ctx_init(u))
             /\ ug_ctx_lookup(u) \in Seq(UgCtx) /\ k \in DOMAIN ug_ctx_lookup(u)
             /\ Mine(ug_ctx_lookup(u), u) = k
    BY <1>0, <1>7, UgFresh
  <2>3. PICK list \in Seq(UgCtx) : list = ug_ctx_lookup(u) BY <2>2
  <2>4. PICK o \in UgCtx : o = list[k] /\ o.task = u /\ o.opens = 0 /\ o.cur = 0
    <3>1. PutAt(ug_contexts, list, k, ug_ctx_init(u)) /\ k \in DOMAIN list BY <2>2, <2>3
    <3>2. list[k] = ug_ctx_init(u) BY <3>1 DEF PutAt
    <3>3. list[k] \in UgCtx BY <3>1
    <3> QED BY <3>2, <3>3 DEF ug_ctx_init
  <2>5. PICK c : c = [o EXCEPT !.set = TRUE] OBVIOUS
  <2>6. c \in UgCtx /\ c.task = u /\ c.opens = 0 /\ c.cur = 0 BY <2>4, <2>5 DEF UgCtx
  <2>7. ug_contexts' = [list EXCEPT ![k] = c] /\ ug_insert' = ug_insert
    <3>1. ug_contexts' = [list EXCEPT ![k].set = TRUE] /\ ug_insert' = ug_insert
      BY <1>7, <2>2, <2>3 DEF NameOther
    <3> QED BY <2>2, <2>3, <2>4, <2>5, <3>1
  <2>8. PutAt(ug_contexts, ug_contexts', k, c) /\ ug_contexts' \in Seq(UgCtx)
    BY <2>2, <2>3, <2>6, <2>7, PutTwice
  <2>9. OneCounts(ug_contexts', u, 0, -1) BY <2>0, <2>6, <2>8, PutFirst
  <2>10. OneCounts(ug_contexts', u, ug_holds'[u], ug_walk'[u]) BY <1>1, <2>1, <2>9
  <2>11. (k \in DOMAIN ug_contexts => ug_contexts[k].task \in {u, UgFree}) /\ c.task \in {u, UgFree}
    BY <2>2, <2>6
  <2>12. u \notin ug_named' => Unnamed(ug_contexts', u, ug_used') BY <1>4
  <2>13. PutAt(ug_contexts, ug_contexts', k, c) BY <2>8
  <2>14. UgCounts' /\ UgClean' BY <1>3, <2>10, <2>11, <2>12, <2>13, UgOthers, ZenonT(30)
  <2> QED BY <1>5, <2>7, <2>8, <2>14
<1>8. CASE Slots(u) = {} /\ Slots(UgFree) = {}
  <2>1. ug_insert' = [by |-> t, task |-> u] /\ ug_contexts' = ug_contexts BY <1>8 DEF NameOther
  <2>2. ug_insert' \in [by : UgTasks, task : UgTasks] /\ ug_insert'.by = t BY <2>1
  <2>3. UgTypes' BY <1>0, <1>1, <2>1, <2>2 DEF UgTypes, NoTask
  <2>4. UgAlive' BY <1>1, <1>2, <2>2 DEF UgAlive
  <2>5. UgWalks' /\ UgCounts' /\ UgClean' BY <1>0, <1>1, <2>1 DEF UgWalks, UgCounts, UgClean
  <2> QED BY <2>3, <2>4, <2>5 DEF UgInv
<1> QED BY <1>6, <1>7, <1>8

\* The context that was missed is linked.
LEMMA UgKeepsLink == ASSUME UgAssumption, UgInv, LinkNew PROVE UgInv'
<1>0. UgTypes /\ UgAlive /\ UgWalks /\ UgCounts /\ UgClean BY DEF UgInv
<1>1. /\ ug_insert # NoTask /\ ug_insert' = NoTask
      /\ ug_contexts' = Append(ug_contexts, [ug_ctx_init(ug_insert.task) EXCEPT !.set = TRUE])
      /\ ug_named' = ug_named \cup {ug_insert.task}
      /\ UNCHANGED <<ug_users, ug_loaded, ug_here, ug_holds, ug_used, ug_walk>>
  BY DEF LinkNew, ugbase
<1>2. PICK u \in UgTasks : u = ug_insert.task BY <1>0, <1>1 DEF UgTypes
<1>3. ug_here BY <1>0, <1>1 DEF UgAlive, UgTypes
<1>4. PICK c : c = [ug_ctx_init(u) EXCEPT !.set = TRUE] OBVIOUS
<1>5. c \in UgCtx /\ c.task = u /\ c.opens = 0 /\ c.cur = 0 BY <1>4 DEF UgCtx, ug_ctx_init
<1>6. ug_contexts \in Seq(UgCtx) BY <1>0 DEF UgTypes
<1>7. PICK k \in Nat : k = Len(ug_contexts) + 1 BY <1>6
<1>8. /\ PutAt(ug_contexts, ug_contexts', k, c) /\ ug_contexts' \in Seq(UgCtx)
      /\ DOMAIN ug_contexts = 1 .. Len(ug_contexts) /\ Len(ug_contexts) \in Nat /\ DOMAIN ug_contexts \subseteq Nat
  BY <1>1, <1>2, <1>4, <1>5, <1>6, <1>7, Puts
<1>9. k \notin DOMAIN ug_contexts /\ \A i \in DOMAIN ug_contexts : i < k BY <1>7, <1>8
<1>10. OneCounts(ug_contexts', u, ug_holds[u], ug_walk[u])
  <2>1. PICK h, w : h = ug_holds[u] /\ w = ug_walk[u] OBVIOUS
  <2>2. OneCounts(ug_contexts, u, h, w) /\ (h = 0 => w = -1) BY <1>0, <2>1 DEF UgCounts, UgWalks
  <2>3. OneCounts(ug_contexts', u, h, w) BY <1>5, <1>8, <1>9, <2>2, PutLast
  <2> QED BY <2>1, <2>3
<1>11. OneCounts(ug_contexts', u, ug_holds'[u], ug_walk'[u]) BY <1>1, <1>10
<1>12. u \notin ug_named' => Unnamed(ug_contexts', u, ug_used') BY <1>1, <1>2
<1>13. (k \in DOMAIN ug_contexts => ug_contexts[k].task \in {u, UgFree}) /\ c.task \in {u, UgFree} BY <1>5, <1>9
<1>14. \A x \in UgTasks : x # u => /\ ug_holds'[x] = ug_holds[x] /\ ug_walk'[x] = ug_walk[x]
                                  /\ (x \in ug_used => x \in ug_used')
                                  /\ (x \notin ug_named' => x \notin ug_named)
  BY <1>1
<1>15. PutAt(ug_contexts, ug_contexts', k, c) BY <1>8
<1>16. UgCounts' /\ UgClean' BY <1>11, <1>12, <1>13, <1>14, <1>15, UgOthers, ZenonT(30)
<1>17. UgTypes' BY <1>0, <1>1, <1>8 DEF UgTypes, NoTask
<1>18. UgAlive' BY <1>1, <1>3 DEF UgAlive, NoTask
<1>19. UgWalks' BY <1>0, <1>1 DEF UgWalks
<1> QED BY <1>16, <1>17, <1>18, <1>19 DEF UgInv

\* Every step keeps the invariant.
LEMMA UgKeeps == ASSUME UgAssumption, UgInv, [UgNext]_ugvars PROVE UgInv'
<1>1. CASE UNCHANGED ugvars
  BY <1>1 DEF ugvars, UgInv, UgTypes, UgAlive, UgWalks, UgCounts, UgClean, NoTask
<1>2. CASE \E t \in UgTasks : ug_lib_open(t) BY <1>2, UgKeepsOpen
<1>3. CASE \E t \in UgTasks : ug_lib_close(t) BY <1>3, UgKeepsClose
<1>4. CASE \E t \in UgTasks : ChangeOwn(t) BY <1>4, UgKeepsChange
<1>5. CASE \E t \in UgTasks : ug_db_getpwent(t) BY <1>5, UgKeepsWalk
<1>6. CASE \E t \in UgTasks : ug_db_setpwent(t) BY <1>6, UgKeepsRewind
<1>7. CASE \E t, u \in UgTasks : NameOther(t, u) BY <1>7, UgKeepsName
<1>8. CASE LinkNew BY <1>8, UgKeepsLink
<1>9. CASE ug_lib_expunge \/ ug_init_c BY <1>9, UgKeepsExpunge
<1> QED BY <1>1, <1>2, <1>3, <1>4, <1>5, <1>6, <1>7, <1>8, <1>9 DEF UgNext

\* A program starts clean.
LEMMA UgExact == ASSUME UgAssumption, UgInv PROVE StartsClean
<1>0. UgTypes /\ UgWalks /\ UgCounts /\ UgClean BY DEF UgInv
<1> SUFFICES ASSUME NEW t \in UgTasks, t \notin ug_named
             PROVE  /\ Cardinality(Slots(t)) <= 1
                    /\ \A i \in Slots(t) : /\ ug_contexts[i].opens = ug_holds[t]
                                           /\ t \notin ug_used => ~ug_contexts[i].set
                                           /\ ug_walk[t] = -1 => ug_contexts[i].cur \in {0, 1}
                    /\ ug_walk[t] # -1 /\ t \in UgProcs => ug_walk[t] <= ug_users
                    /\ Slots(t) = {} => ug_holds[t] = 0
  BY DEF StartsClean
<1>1. Slots(t) = CtxOf(ug_contexts, t) BY DEF Slots, CtxOf
<1>2. Unnamed(ug_contexts, t, ug_used) BY <1>0 DEF UgClean
<1>3. OneCounts(ug_contexts, t, ug_holds[t], ug_walk[t]) BY <1>0 DEF UgCounts
<1>4. Cardinality(Slots(t)) <= 1
  <2>1. CASE Slots(t) = {} BY <2>1, FS_EmptySet
  <2>2. CASE Slots(t) # {}
    <3>1. PICK x : Slots(t) = {x} BY <1>1, <1>2, <2>2 DEF Unnamed
    <3> QED BY <3>1, FS_Singleton
  <2> QED BY <2>1, <2>2
<1>5. \A i, j \in CtxOf(ug_contexts, t) : i <= j
  <2>1. DOMAIN ug_contexts \subseteq Nat BY <1>0 DEF UgTypes
  <2> QED BY <1>2, <2>1 DEF Unnamed, CtxOf
<1>6. \A i \in Slots(t) : ug_contexts[i].opens = ug_holds[t] /\ (ug_walk[t] = -1 => ug_contexts[i].cur \in {0, 1})
  BY <1>1, <1>3, <1>5 DEF OneCounts
<1>7. \A i \in Slots(t) : t \notin ug_used => ~ug_contexts[i].set BY <1>1, <1>2 DEF Unnamed
<1>8. ug_walk[t] <= ug_users BY <1>0 DEF UgWalks
<1>9. Slots(t) = {} => ug_holds[t] = 0 BY <1>1, <1>3 DEF OneCounts
<1> QED BY <1>4, <1>6, <1>7, <1>8, <1>9

----------------------------------------------------------------------------
(***************************************************************************)
(* StackSwap: at every step of a rewrite one whole copy of the user's      *)
(* lines is at hand, and so is the library the other stack came with.      *)
(***************************************************************************)
SsText == Seq(SsLines)
\* A script with its boot blocks closed, and nothing of a block outside one.
WholeScript(text) ==
    /\ \A i \in 1 .. Len(text) : text[i] = "body" => Inside(text, i)
    /\ \A i \in 1 .. Len(text) : Inside(text, i) => ~IsOwn(text[i]) /\ text[i] \notin {"stack", "off"}
    /\ \A b \in 1 .. Len(text) : text[b] = "BEGIN" => \E e \in b .. Len(text) : text[e] = "END"
\* The line is not in the text.
Lacks(text, line) == \A i \in 1 .. Len(text) : text[i] # line
\* A text starts with the lines of the first script.
StartsWith(own, first)  == Len(first) <= Len(own) /\ SubSeq(own, 1, Len(first)) = first
KeepsFirst(text, first) == StartsWith(UserOf(text), first)

SsLibs == {"none", "orig", "new"}
SsPcs  == Rewrites \cup {"idle", "undone", "backup", "undoscript", "park", "parked", "icon",
                         "unpark", "swap", "icon back"}
SsTypes ==
    /\ ss_pc \in SsPcs /\ ss_at \in {"", "prev", "old", "new"} /\ (ss_at # "" => ss_pc \in Rewrites)
    /\ ss_ok \in BOOLEAN /\ ss_had \in BOOLEAN /\ ss_icon \in BOOLEAN /\ ss_undo \in BOOLEAN
    /\ ss_script \in [live : SsText \cup {NoText}, new : SsText \cup {NoText},
                      prev : SsText \cup {NoText}, bak : SsText \cup {NoText}]
    /\ ss_lib \in [live : SsLibs, park : SsLibs, backup : SsLibs]
    /\ ss_faults \in 0 .. SsFaults /\ ss_cut \subseteq {"library", "script", "seed"}
    /\ ss_user \in SsText /\ ss_first \in SsText

\* The files that may become the live script are whole.
ScriptsWhole ==
    /\ ss_script.live # NoText => WholeScript(ss_script.live)
    /\ ss_at # "" => ss_script.new # NoText /\ WholeScript(ss_script.new)
    /\ ss_at = "new" /\ ss_had => /\ ss_script.live = NoText /\ ss_script.prev # NoText
                                  /\ WholeScript(ss_script.prev)

\* They hold the user's lines.
LinesThere ==
    "script" \notin ss_cut =>
        /\ ~(ss_at = "new" /\ ss_had) => UserOf(ss_script.live) = ss_user
        /\ ss_at # "" => UserOf(ss_script.new) = ss_user
        /\ ss_at = "new" /\ ss_had => UserOf(ss_script.prev) = ss_user

\* The backup was made before the first rewrite of a script that was there, if
\* it could be made.
FirstLost == {"script", "seed"} \subseteq ss_cut
FirstThere ==
    /\ "script" \notin ss_cut => StartsWith(ss_user, ss_first)
    /\ FirstLost \/ ss_script.bak = NoText \/ KeepsFirst(ss_script.bak, ss_first)
    /\ "seed" \notin ss_cut /\ ss_script.bak = NoText /\ ss_first # <<>> =>
        /\ ss_script.live # NoText /\ KeepsFirst(ss_script.live, ss_first) /\ Lacks(ss_script.live, "off")
        /\ ss_at = "" /\ ss_pc \notin {"undoscript", "disable"}

\* Where the library is.
LibraryThere ==
    "library" \notin ss_cut =>
        /\ ss_pc \notin {"parked", "swap"} =>
              /\ ss_lib.park = "none"
              /\ ss_lib.backup = "orig" \/ (ss_lib.backup = "none" /\ ss_lib.live = "orig")
        /\ ss_pc = "parked" => ss_lib.backup = "orig" \/ (ss_lib.backup = "none" /\ ss_lib.park = "orig")
        /\ ss_pc = "swap" => ss_lib.backup = "orig"

\* What an undo has put back so far.
LibraryBack == ss_lib.live = "orig" \/ ss_faults > 0 \/ ss_lib.backup = "none"
IconBack    == ss_icon \/ ss_faults > 0
UndoneSoFar ==
    /\ ss_ok /\ ss_pc = "restore" /\ ss_at # "" => Lacks(ss_script.new, "off")
    /\ ss_ok /\ ss_pc \in {"unpark", "swap", "icon back", "unblock"} /\ ss_at = ""
          /\ ss_script.live # NoText => Lacks(ss_script.live, "off")
    /\ ss_ok /\ ss_pc = "unblock" /\ ss_at # "" =>
          \A line \in {"off", "BEGIN", "body"} : Lacks(ss_script.new, line)
    /\ (ss_ok /\ ss_pc \in {"icon back", "unblock"}) \/ ss_pc = "undone" =>
          "library" \in ss_cut \/ LibraryBack
    /\ (ss_ok /\ ss_pc = "unblock") \/ ss_pc = "undone" => IconBack /\ ~ss_undo
    /\ ss_pc = "undone" /\ ss_script.live # NoText =>
          \A line \in {"off", "BEGIN", "body"} : Lacks(ss_script.live, line)

SsInv == SsTypes /\ ScriptsWhole /\ LinesThere /\ FirstThere /\ LibraryThere /\ UndoneSoFar
\* What is taken of a text up to each place.
Takes(f, text, I) ==
    /\ f \in [0 .. Len(text) -> SsText] /\ f[0] = <<>>
    /\ \A i \in 1 .. Len(text) :
          f[i] = IF i \in I THEN Append(f[i - 1], text[i]) ELSE f[i - 1]

\* Every text can be gone through.
LEMMA TakesExist == ASSUME NEW text \in SsText, NEW I PROVE \E f : Takes(f, text, I)
<1>1. PICK n \in Nat : n = Len(text) BY DEF SsText
<1>3. \A i \in 1 .. n : text[i] \in SsLines BY <1>1 DEF SsText
<1> DEFINE Step(s, i) == IF i \in I THEN Append(s, text[i]) ELSE s
           Run(f, k) == f \in [0 .. k -> SsText] /\ f[0] = <<>> /\ \A i \in 1 .. k : f[i] = Step(f[i - 1], i)
           S == {k \in 0 .. n : ~\E f : Run(f, k)}
<1>4. S = {}
  <2> SUFFICES ASSUME S # {} PROVE FALSE OBVIOUS
  <2>1. S \in SUBSET Nat OBVIOUS
  <2>2. PICK k \in S : \A j \in S : k <= j
    <3> HIDE DEF S
    <3> QED BY <2>1, LeastNat
  <2>3. k # 0
    <3>1. ASSUME k = 0 PROVE FALSE
      <4>1. PICK f : f = [i \in 0 .. 0 |-> <<>>] OBVIOUS
      <4>0. <<>> \in SsText BY DEF SsText
      <4>2. f \in [0 .. 0 -> SsText] /\ f[0] = <<>> BY <4>0, <4>1
      <4>3. \A i \in 1 .. 0 : FALSE OBVIOUS
      <4>4. Run(f, 0) BY <4>2, <4>3
      <4> QED BY <2>2, <3>1, <4>4
    <3> QED BY <3>1
  <2>4. PICK m \in 0 .. n : m = k - 1 /\ k \in 1 .. n /\ m \notin S
    <3>1. k \in 0 .. n /\ k \in 1 .. n /\ k - 1 \in 0 .. n BY <2>2, <2>3
    <3> HIDE DEF S
    <3> QED BY <2>2, <3>1
  <2>5. PICK f : Run(f, m) BY <2>4
  <2>6. PICK t \in SsText : t = Step(f[m], k)
    <3>1. m \in 0 .. m BY <2>4
    <3>2. f[m] \in SsText BY <2>5, <3>1
    <3>3. text[k] \in SsLines BY <1>3, <2>4
    <3>4. Append(f[m], text[k]) \in SsText BY <3>2, <3>3 DEF SsText
    <3> QED BY <3>2, <3>4
  <2>8. PICK g : g = [i \in 0 .. k |-> IF i = k THEN t ELSE f[i]] OBVIOUS
  <2>9. /\ \A i \in 0 .. k : i = k \/ i \in 0 .. m
        /\ \A i \in 1 .. k : i = k \/ i \in 1 .. m
        /\ \A i \in 1 .. k : i - 1 \in 0 .. m /\ i - 1 # k
        /\ \A i \in 0 .. m : i # k /\ i \in 0 .. k
        /\ 0 \in 0 .. m /\ k \in 0 .. k
    BY <2>4
  <2>10. g[k] = t /\ \A i \in 0 .. m : g[i] = f[i] BY <2>8, <2>9
  <2>11. g \in [0 .. k -> SsText] BY <2>5, <2>6, <2>8, <2>9
  <2>12. g[0] = <<>> BY <2>5, <2>9, <2>10
  <2>13. ASSUME NEW i \in 1 .. k PROVE g[i] = Step(g[i - 1], i)
    <3>1. g[i - 1] = f[i - 1] BY <2>9, <2>10
    <3>2. CASE i = k BY <2>4, <2>6, <2>10, <3>1, <3>2
    <3>3. CASE i \in 1 .. m
      <4>1. f[i] = Step(f[i - 1], i) BY <2>5, <3>3
      <4>2. i \in 0 .. m BY <3>3
      <4> QED BY <2>10, <3>1, <4>1, <4>2
    <3> QED BY <2>9, <3>2, <3>3
  <2>15. Run(g, k) BY <2>11, <2>12, <2>13
  <2> QED BY <2>2, <2>15
<1>5. n \in 0 .. n OBVIOUS
<1>6. PICK f : Run(f, n) BY <1>4, <1>5
<1> QED BY <1>1, <1>6 DEF Takes

\* What is picked is what has been taken at the end.
LEMMA PickedTaken ==
    ASSUME NEW text \in SsText, NEW I
    PROVE  \E f : Takes(f, text, I) /\ Picked(text, I) = f[Len(text)]
<1>1. PICK f : Takes(f, text, I) BY TakesExist
<1>2. PICK n \in Nat : n = Len(text) BY DEF SsText
<1> DEFINE Step(s, i) == IF i \in I THEN Append(s, text[i]) ELSE s
<1>3. f = [i \in 0 .. n |-> f[i]] BY <1>1, <1>2 DEF Takes
<1>4. ASSUME NEW i \in 0 .. n PROVE f[i] = IF i = 0 THEN <<>> ELSE Step(f[i - 1], i)
  <2>1. i # 0 => i \in 1 .. n OBVIOUS
  <2> QED BY <1>1, <1>2, <2>1 DEF Takes
<1>5. f = [i \in 0 .. n |-> IF i = 0 THEN <<>> ELSE Step(f[i - 1], i)] BY <1>3, <1>4, Zenon
<1>6. \E g : g = [i \in 0 .. n |-> IF i = 0 THEN <<>> ELSE Step(g[i - 1], i)] BY <1>5
<1>7. PICK g : /\ g = [i \in 0 .. n |-> IF i = 0 THEN <<>> ELSE Step(g[i - 1], i)]
               /\ Picked(text, I) = g[n]
  BY <1>2, <1>6, Zenon DEF Picked
<1>8. DOMAIN g = 0 .. n /\ g[0] = <<>> /\ \A i \in 1 .. n : g[i] = Step(g[i - 1], i)
  <2>1. 0 \in 0 .. n /\ \A i \in 1 .. n : i \in 0 .. n /\ i # 0 OBVIOUS
  <2> QED BY <1>7, <2>1
<1>9. g \in [0 .. n -> SsText]
  <2> DEFINE S == {k \in 0 .. n : g[k] \notin SsText}
  <2>1. S = {}
    <3> SUFFICES ASSUME S # {} PROVE FALSE OBVIOUS
    <3>1. S \in SUBSET Nat OBVIOUS
    <3>2. PICK k \in S : \A j \in S : k <= j
      <4> HIDE DEF S
      <4> QED BY <3>1, LeastNat
    <3>0. <<>> \in SsText BY DEF SsText
    <3>3. k # 0 BY <1>8, <3>0, <3>2
    <3>4. PICK m \in 0 .. n : m = k - 1 /\ k \in 1 .. n /\ m \notin S BY <3>2, <3>3
    <3>5. g[k] = Step(g[m], k) /\ g[m] \in SsText BY <1>8, <3>4
    <3>6. text[k] \in SsLines BY <1>2, <3>4 DEF SsText
    <3>7. Append(g[m], text[k]) \in SsText BY <3>5, <3>6 DEF SsText
    <3> QED BY <3>2, <3>5, <3>7
  <2>2. \A k \in 0 .. n : g[k] \in SsText BY <2>1
  <2>3. g = [i \in 0 .. n |-> g[i]] BY <1>7
  <2> QED BY <2>2, <2>3
<1> QED BY <1>2, <1>7, <1>8, <1>9 DEF Takes

\* Where two texts agree on what is picked, the same is taken.
LEMMA TakesAlike ==
    ASSUME NEW s \in SsText, NEW t \in SsText, NEW I, NEW J, NEW f, NEW g, NEW n \in Nat,
           Takes(f, s, I), Takes(g, t, J), n <= Len(s), n <= Len(t),
           \A i \in 1 .. n : (i \in I <=> i \in J) /\ (i \in I => s[i] = t[i])
    PROVE  f[n] = g[n]
<1> DEFINE S == {k \in 0 .. n : f[k] # g[k]}
<1>0. Len(s) \in Nat /\ Len(t) \in Nat BY DEF SsText
<1>1. S = {}
  <2> SUFFICES ASSUME S # {} PROVE FALSE OBVIOUS
  <2>1. S \in SUBSET Nat OBVIOUS
  <2>2. PICK k \in S : \A j \in S : k <= j
    <3> HIDE DEF S
    <3> QED BY <2>1, LeastNat
  <2>3. k # 0 BY <2>2 DEF Takes
  <2>4. PICK m \in 0 .. n : m = k - 1 /\ k \in 1 .. n /\ m \notin S BY <2>2, <2>3
  <2>5. f[m] = g[m] BY <2>4
  <2>6. k \in 1 .. Len(s) /\ k \in 1 .. Len(t) BY <1>0, <2>4
  <2>7. f[k] = IF k \in I THEN Append(f[m], s[k]) ELSE f[m] BY <2>4, <2>6 DEF Takes
  <2>8. g[k] = IF k \in J THEN Append(g[m], t[k]) ELSE g[m] BY <2>4, <2>6 DEF Takes
  <2>9. (k \in I <=> k \in J) /\ (k \in I => s[k] = t[k]) BY <2>4
  <2>10. f[k] = g[k] BY <2>5, <2>7, <2>8, <2>9
  <2> QED BY <2>2, <2>10
<1>2. n \in 0 .. n OBVIOUS
<1> QED BY <1>1, <1>2

\* What is picked is a text, and each of its lines one that was to be picked.
LEMMA PickedLines ==
    ASSUME NEW text \in SsText, NEW I
    PROVE  /\ Picked(text, I) \in SsText
           /\ \A j \in 1 .. Len(Picked(text, I)) :
                 \E i \in 1 .. Len(text) : i \in I /\ Picked(text, I)[j] = text[i]
<1>1. PICK f : Takes(f, text, I) /\ Picked(text, I) = f[Len(text)] BY PickedTaken
<1>2. PICK n \in Nat : n = Len(text) BY DEF SsText
<1> DEFINE Fine(s) == \A j \in 1 .. Len(s) : \E i \in 1 .. n : i \in I /\ s[j] = text[i]
           S == {k \in 0 .. n : ~Fine(f[k])}
<1>3. f \in [0 .. n -> SsText] BY <1>1, <1>2 DEF Takes
<1>4. S = {}
  <2> SUFFICES ASSUME S # {} PROVE FALSE OBVIOUS
  <2>1. S \in SUBSET Nat OBVIOUS
  <2>2. PICK k \in S : \A j \in S : k <= j
    <3> HIDE DEF S
    <3> QED BY <2>1, LeastNat
  <2>3. k # 0
    <3>1. Len(f[0]) = 0 BY <1>1 DEF Takes
    <3>2. \A j \in 1 .. 0 : FALSE OBVIOUS
    <3>3. Fine(f[0]) BY <3>1, <3>2
    <3> QED BY <2>2, <3>3
  <2>4. PICK m \in 0 .. n : m = k - 1 /\ k \in 1 .. n /\ m \notin S
    <3>1. k \in 0 .. n /\ k \in 1 .. n /\ k - 1 \in 0 .. n BY <2>2, <2>3
    <3> HIDE DEF S
    <3> QED BY <2>2, <3>1
  <2>5. PICK s \in SsText : s = f[m] BY <1>3
  <2>6. Fine(s) BY <2>4, <2>5
  <2>7. f[k] = IF k \in I THEN Append(s, text[k]) ELSE s BY <1>1, <1>2, <2>4, <2>5 DEF Takes
  <2>8. CASE k \notin I
    <3>1. f[k] = s BY <2>7, <2>8
    <3>2. Fine(f[k]) BY <2>6, <3>1
    <3> QED BY <2>2, <3>2
  <2>9. CASE k \in I
    <3>1. PICK u : u = Append(s, text[k]) OBVIOUS
    <3>2. f[k] = u BY <2>7, <2>9, <3>1
    <3>3. PICK l \in Nat : l = Len(s) BY DEF SsText
    <3>4. Len(u) = l + 1 /\ u[l + 1] = text[k] /\ \A j \in 1 .. l : u[j] = s[j]
      BY <3>1, <3>3 DEF SsText
    <3>5. ASSUME NEW j \in 1 .. Len(u) PROVE \E i \in 1 .. n : i \in I /\ u[j] = text[i]
      <4>1. CASE j = l + 1 BY <2>4, <2>9, <3>4, <4>1
      <4>2. CASE j # l + 1
        <5>1. j \in 1 .. l BY <3>3, <3>4, <4>2
        <5>2. j \in 1 .. Len(s) BY <3>3, <5>1
        <5>3. PICK i \in 1 .. n : i \in I /\ s[j] = text[i] BY <2>6, <5>2
        <5> QED BY <3>4, <5>1, <5>3
      <4> QED BY <4>1, <4>2
    <3>6. Fine(u) BY <3>5
    <3> QED BY <2>2, <3>2, <3>6
  <2> QED BY <2>8, <2>9
<1>5. n \in 0 .. n OBVIOUS
<1>6. f[n] \in SsText BY <1>3, <1>5
<1>7. Fine(f[n]) BY <1>4, <1>5
<1> QED BY <1>1, <1>2, <1>6, <1>7

\* The lines with a meaning are lines.
LEMMA KnownLines ==
    "stack" \in SsLines /\ "off" \in SsLines /\ "BEGIN" \in SsLines /\ "body" \in SsLines /\ "END" \in SsLines
BY DEF SsLines

\* The places of a text.
LEMMA TextPlaces ==
    ASSUME NEW t \in SsText
    PROVE  /\ DOMAIN t = 1 .. Len(t) /\ Len(t) \in Nat
           /\ Len(<<>>) <= Len(t) /\ SubSeq(t, 1, Len(<<>>)) = <<>>
BY DEF SsText

\* A text with a line more.
LEMMA LineMore ==
    ASSUME NEW t \in SsText, NEW x \in SsLines
    PROVE  /\ Append(t, x) \in SsText /\ Len(Append(t, x)) = Len(t) + 1
           /\ Append(t, x)[Len(t) + 1] = x /\ \A i \in 1 .. Len(t) : Append(t, x)[i] = t[i]
BY DEF SsText

\* The user's lines of a text with a line more.
LEMMA OwnAppend ==
    ASSUME NoText \notin SsText, NEW t \in SsText, NEW x \in SsLines
    PROVE  UserOf(Append(t, x)) = IF IsOwn(x) THEN Append(UserOf(t), x) ELSE UserOf(t)
<1>1. PICK n \in Nat : n = Len(t) BY DEF SsText
<1>2. PICK u \in SsText : u = Append(t, x) BY LineMore
<1>3. Len(u) = n + 1 /\ u[n + 1] = x /\ \A i \in 1 .. n : u[i] = t[i] BY <1>1, <1>2, LineMore
<1>4. DOMAIN t = 1 .. n /\ DOMAIN u = 1 .. n + 1 BY <1>1, <1>3 DEF SsText
<1>5. PICK I : I = {i \in DOMAIN t : IsOwn(t[i])} OBVIOUS
<1>6. PICK J : J = {i \in DOMAIN u : IsOwn(u[i])} OBVIOUS
<1>7. UserOf(t) = Picked(t, I) /\ UserOf(u) = Picked(u, J) BY <1>5, <1>6 DEF UserOf
<1>8. PICK f : Takes(f, t, I) /\ Picked(t, I) = f[n] BY <1>1, PickedTaken
<1>9. PICK g : Takes(g, u, J) /\ Picked(u, J) = g[n + 1] BY <1>3, PickedTaken
<1>10. \A i \in 1 .. n : (i \in I <=> i \in J) /\ (i \in I => t[i] = u[i])
  BY <1>3, <1>4, <1>5, <1>6
<1>11. n <= Len(t) /\ n <= Len(u) BY <1>1, <1>3
<1>12. f[n] = g[n] 
  <2>1. Takes(f, t, I) BY <1>8
  <2>2. Takes(g, u, J) BY <1>9
  <2> QED BY <1>10, <1>11, <2>1, <2>2, TakesAlike
<1>13. g[n + 1] = IF n + 1 \in J THEN Append(g[n], u[n + 1]) ELSE g[n]
  <2>1. n + 1 \in 1 .. Len(u) /\ (n + 1) - 1 = n BY <1>3
  <2> QED BY <1>9, <2>1 DEF Takes
<1>14. n + 1 \in J <=> IsOwn(x) BY <1>3, <1>4, <1>6
<1> QED BY <1>2, <1>3, <1>7, <1>8, <1>9, <1>12, <1>13, <1>14

\* No lines are nobody's.
LEMMA OwnNone == ASSUME NoText \notin SsText PROVE UserOf(<<>>) = <<>> /\ UserOf(NoText) = <<>>
<1>1. PICK I : I = {i \in DOMAIN <<>> : IsOwn(<<>>[i])} OBVIOUS
<1>2. <<>> \in SsText /\ Len(<<>>) = 0 BY DEF SsText
<1>3. PICK f : Takes(f, <<>>, I) /\ Picked(<<>>, I) = f[0] BY <1>2, PickedTaken
<1>4. f[0] = <<>> BY <1>3 DEF Takes
<1>5. UserOf(<<>>) = Picked(<<>>, I) BY <1>1, <1>2 DEF UserOf
<1> QED BY <1>3, <1>4, <1>5 DEF UserOf

\* The user's lines are a text.
LEMMA OwnText == ASSUME NoText \notin SsText, NEW t \in SsText \cup {NoText} PROVE UserOf(t) \in SsText
<1>1. CASE t = NoText
  <2>1. <<>> \in SsText BY DEF SsText
  <2> QED BY <1>1, <2>1 DEF UserOf
<1>2. CASE t \in SsText BY <1>2, PickedLines DEF UserOf
<1> QED BY <1>1, <1>2

\* Texts that have the same lines of the user at the same places.
LEMMA OwnAlike ==
    ASSUME NoText \notin SsText, NEW s \in SsText, NEW t \in SsText, Len(s) = Len(t),
           \A i \in 1 .. Len(s) : (IsOwn(s[i]) <=> IsOwn(t[i])) /\ (IsOwn(s[i]) => s[i] = t[i])
    PROVE  UserOf(s) = UserOf(t)
<1>1. PICK n \in Nat : n = Len(s) /\ n = Len(t) BY DEF SsText
<1>4. DOMAIN s = 1 .. n /\ DOMAIN t = 1 .. n BY <1>1 DEF SsText
<1>5. PICK I : I = {i \in DOMAIN s : IsOwn(s[i])} OBVIOUS
<1>6. PICK J : J = {i \in DOMAIN t : IsOwn(t[i])} OBVIOUS
<1>7. UserOf(s) = Picked(s, I) /\ UserOf(t) = Picked(t, J) BY <1>5, <1>6 DEF UserOf
<1>8. PICK f : Takes(f, s, I) /\ Picked(s, I) = f[n] BY <1>1, PickedTaken
<1>9. PICK g : Takes(g, t, J) /\ Picked(t, J) = g[n] BY <1>1, PickedTaken
<1>10. \A i \in 1 .. n : (i \in I <=> i \in J) /\ (i \in I => s[i] = t[i])
  BY <1>1, <1>4, <1>5, <1>6
<1>11. n <= Len(s) /\ n <= Len(t) BY <1>1
<1>12. f[n] = g[n] BY <1>8, <1>9, <1>10, <1>11, TakesAlike
<1> QED BY <1>7, <1>8, <1>9, <1>12

\* A pick that leaves out no line of the user keeps them all.
LEMMA OwnPicked ==
    ASSUME NoText \notin SsText, NEW t \in SsText, NEW I,
           \A i \in 1 .. Len(t) : IsOwn(t[i]) => i \in I
    PROVE  UserOf(Picked(t, I)) = UserOf(t)
<1>1. PICK n \in Nat : n = Len(t) BY DEF SsText
<1>2. DOMAIN t = 1 .. n BY <1>1 DEF SsText
<1>3. PICK J : J = {i \in DOMAIN t : IsOwn(t[i])} OBVIOUS
<1>4. UserOf(t) = Picked(t, J) BY <1>3 DEF UserOf
<1>5. PICK f : Takes(f, t, I) /\ Picked(t, I) = f[n] BY <1>1, PickedTaken
<1>6. PICK g : Takes(g, t, J) /\ Picked(t, J) = g[n] BY <1>1, PickedTaken
<1>7. f \in [0 .. n -> SsText] /\ f[0] = <<>> /\ g[0] = <<>> BY <1>1, <1>5, <1>6 DEF Takes
<1>8. \A i \in 1 .. n : t[i] \in SsLines BY <1>1 DEF SsText
<1> DEFINE S == {k \in 0 .. n : UserOf(f[k]) # g[k]}
<1>9. S = {}
  <2> SUFFICES ASSUME S # {} PROVE FALSE OBVIOUS
  <2>1. S \in SUBSET Nat OBVIOUS
  <2>2. PICK k \in S : \A j \in S : k <= j
    <3> HIDE DEF S
    <3> QED BY <2>1, LeastNat
  <2>3. k # 0 BY <1>7, <2>2, OwnNone
  <2>4. PICK m \in 0 .. n : m = k - 1 /\ k \in 1 .. n /\ m \notin S BY <2>2, <2>3
  <2>5. UserOf(f[m]) = g[m] BY <2>4
  <2>6. PICK s \in SsText : s = f[m] BY <1>7
  <2>7. f[k] = IF k \in I THEN Append(s, t[k]) ELSE s BY <1>1, <1>5, <2>4, <2>6 DEF Takes
  <2>8. g[k] = IF k \in J THEN Append(g[m], t[k]) ELSE g[m] BY <1>1, <1>6, <2>4 DEF Takes
  <2>9. k \in J <=> IsOwn(t[k]) BY <1>2, <1>3, <2>4
  <2>10. k \in J => k \in I BY <1>1, <2>4, <2>9
  <2>11. UserOf(Append(s, t[k])) = IF IsOwn(t[k]) THEN Append(UserOf(s), t[k]) ELSE UserOf(s)
    BY <1>8, <2>4, OwnAppend
  <2>12. UserOf(f[k]) = g[k] BY <2>5, <2>6, <2>7, <2>8, <2>9, <2>10, <2>11
  <2> QED BY <2>2, <2>12
<1>10. n \in 0 .. n OBVIOUS
<1> QED BY <1>4, <1>5, <1>6, <1>9, <1>10

\* A text without markers is whole.
LEMMA WholePlain ==
    ASSUME NEW t \in SsText, Lacks(t, "BEGIN"), Lacks(t, "body") PROVE WholeScript(t)
<1>1. PICK n \in Nat : n = Len(t) BY DEF SsText
<1>2. \A i \in 1 .. n : ~Inside(t, i)
  <2> SUFFICES ASSUME NEW i \in 1 .. n, Inside(t, i) PROVE FALSE OBVIOUS
  <2>1. PICK b \in 1 .. i : t[b] = "BEGIN" BY DEF Inside
  <2>2. b \in 1 .. n OBVIOUS
  <2> QED BY <1>1, <2>1, <2>2 DEF Lacks
<1> QED BY <1>1, <1>2 DEF WholeScript, Lacks

\* Places are inside alike when the markers are the same.
LEMMA InsideAlike ==
    ASSUME NEW n \in Nat, NEW s, NEW t, NEW i \in 1 .. n,
           \A j \in 1 .. n : (s[j] = "BEGIN" <=> t[j] = "BEGIN") /\ (s[j] = "END" <=> t[j] = "END")
    PROVE  Inside(s, i) <=> Inside(t, i)
<1>1. ASSUME NEW b \in 1 .. i
      PROVE  /\ s[b] = "BEGIN" <=> t[b] = "BEGIN"
             /\ (\E e \in b .. i - 1 : s[e] = "END") <=> (\E e \in b .. i - 1 : t[e] = "END")
  <2>1. b \in 1 .. n /\ \A e \in b .. i - 1 : e \in 1 .. n OBVIOUS
  <2> QED BY <2>1
<1> QED BY <1>1 DEF Inside

\* Lines disabled or enabled again leave the blocks and the user's lines alone.
LEMMA MappedWhole ==
    ASSUME NoText \notin SsText, NEW t \in SsText, WholeScript(t),
           NEW from \in {"stack", "off"}, NEW to \in {"stack", "off"}, from # to
    PROVE  /\ Mapped(t, from, to) \in SsText /\ WholeScript(Mapped(t, from, to))
           /\ UserOf(Mapped(t, from, to)) = UserOf(t) /\ Lacks(Mapped(t, from, to), from)
<1>1. PICK n \in Nat : n = Len(t) BY DEF SsText
<1>2. DOMAIN t = 1 .. n BY <1>1 DEF SsText
<1>3. PICK u : u = Mapped(t, from, to) OBVIOUS
<1>4. u = [i \in 1 .. n |-> IF t[i] = from THEN to ELSE t[i]] BY <1>2, <1>3 DEF Mapped
<1>5. \A i \in 1 .. n : t[i] \in SsLines BY <1>1 DEF SsText
<1>6. \A i \in 1 .. n : u[i] = IF t[i] = from THEN to ELSE t[i] BY <1>4
<1>7. to \in SsLines BY KnownLines
<1>8. u \in [1 .. n -> SsLines] BY <1>4, <1>5, <1>7
<1>9. u \in SsText /\ Len(u) = n BY <1>8 DEF SsText
<1>10. \A i \in 1 .. n : (IsOwn(u[i]) <=> IsOwn(t[i])) /\ (IsOwn(u[i]) => u[i] = t[i]) BY <1>6 DEF IsOwn
<1>11. UserOf(u) = UserOf(t) BY <1>1, <1>9, <1>10, OwnAlike
<1>12. \A i \in 1 .. n : (u[i] = "BEGIN" <=> t[i] = "BEGIN") /\ (u[i] = "END" <=> t[i] = "END") BY <1>6
<1>13. \A i \in 1 .. n : Inside(u, i) <=> Inside(t, i) BY <1>12, InsideAlike
<1>14. WholeScript(u)
  <2>1. \A i \in 1 .. n : u[i] = "body" => Inside(u, i) BY <1>1, <1>6, <1>13 DEF WholeScript
  <2>2. \A i \in 1 .. n : Inside(u, i) => ~IsOwn(u[i]) /\ u[i] \notin {"stack", "off"}
    BY <1>1, <1>6, <1>13 DEF WholeScript
  <2>3. ASSUME NEW b \in 1 .. n, u[b] = "BEGIN" PROVE \E e \in b .. n : u[e] = "END"
    <3>1. PICK e \in b .. n : t[e] = "END" BY <1>1, <1>12, <2>3 DEF WholeScript
    <3>2. e \in 1 .. n OBVIOUS
    <3> QED BY <1>12, <3>1, <3>2
  <2> QED BY <1>9, <2>1, <2>2, <2>3 DEF WholeScript
<1>15. Lacks(u, from) BY <1>6, <1>9 DEF Lacks
<1> QED BY <1>3, <1>9, <1>11, <1>14, <1>15

\* A line of the user at the end of a whole script.
LEMMA AppendWhole ==
    ASSUME NEW t \in SsText, WholeScript(t), NEW x \in SsLines, IsOwn(x)
    PROVE  Append(t, x) \in SsText /\ WholeScript(Append(t, x))
<1>1. PICK n \in Nat : n = Len(t) BY DEF SsText
<1>2. PICK u \in SsText : u = Append(t, x) BY LineMore
<1>3. Len(u) = n + 1 /\ u[n + 1] = x /\ \A i \in 1 .. n : u[i] = t[i] BY <1>1, <1>2, LineMore
<1>4. \A i \in 1 .. n : Inside(u, i) <=> Inside(t, i) BY <1>3, InsideAlike
<1>5. x \notin {"BEGIN", "body", "END", "stack", "off"} BY DEF IsOwn
<1>6. ~Inside(u, n + 1)
  <2> SUFFICES ASSUME Inside(u, n + 1) PROVE FALSE OBVIOUS
  <2>1. PICK b \in 1 .. n + 1 : u[b] = "BEGIN" /\ ~\E e \in b .. (n + 1) - 1 : u[e] = "END" BY DEF Inside
  <2>2. b \in 1 .. n BY <1>3, <1>5, <2>1
  <2>3. PICK e \in b .. n : t[e] = "END" BY <1>1, <1>3, <2>1, <2>2 DEF WholeScript
  <2>4. e \in 1 .. n /\ e \in b .. (n + 1) - 1 BY <2>2
  <2> QED BY <1>3, <2>1, <2>3, <2>4
<1>7. \A i \in 1 .. n + 1 : i \in 1 .. n \/ i = n + 1 OBVIOUS
<1>8. \A i \in 1 .. n + 1 : u[i] = "body" => Inside(u, i)
  BY <1>1, <1>3, <1>4, <1>5, <1>7 DEF WholeScript
<1>9. \A i \in 1 .. n + 1 : Inside(u, i) => ~IsOwn(u[i]) /\ u[i] \notin {"stack", "off"}
  BY <1>1, <1>3, <1>4, <1>6, <1>7 DEF WholeScript
<1>10. ASSUME NEW b \in 1 .. n + 1, u[b] = "BEGIN" PROVE \E e \in b .. n + 1 : u[e] = "END"
  <2>1. b \in 1 .. n BY <1>3, <1>5, <1>7, <1>10
  <2>2. PICK e \in b .. n : t[e] = "END" BY <1>1, <1>3, <1>10, <2>1 DEF WholeScript
  <2>3. e \in 1 .. n /\ e \in b .. n + 1 BY <2>1
  <2> QED BY <1>3, <2>2, <2>3
<1> QED BY <1>2, <1>3, <1>8, <1>9, <1>10 DEF WholeScript

\* The block at the end of a text without one.
LEMMA BlockWhole ==
    ASSUME NoText \notin SsText, NEW t \in SsText, Lacks(t, "BEGIN"), Lacks(t, "body")
    PROVE  /\ t \o Block \in SsText /\ WholeScript(t \o Block) /\ UserOf(t \o Block) = UserOf(t)
<1>1. PICK n \in Nat : n = Len(t) BY DEF SsText
<1>2. PICK u : u = t \o Block OBVIOUS
<1>3. PICK t1 \in SsText : t1 = Append(t, "BEGIN") BY KnownLines, LineMore
<1>4. PICK t2 \in SsText : t2 = Append(t1, "body") BY KnownLines, LineMore
<1>5. PICK t3 \in SsText : t3 = Append(t2, "END") BY KnownLines, LineMore
<1>6. Len(t1) = n + 1 /\ t1[n + 1] = "BEGIN" /\ \A i \in 1 .. n : t1[i] = t[i]
  BY <1>1, <1>3, KnownLines, LineMore
<1>7. Len(t2) = n + 2 /\ t2[n + 2] = "body" /\ \A i \in 1 .. n + 1 : t2[i] = t1[i]
  <2>1. \A i \in 1 .. Len(t1) : t2[i] = t1[i] BY <1>4, KnownLines, LineMore
  <2>2. Len(t2) = Len(t1) + 1 /\ t2[Len(t1) + 1] = "body" BY <1>4, KnownLines, LineMore
  <2> QED BY <1>6, <2>1, <2>2
<1>8. Len(t3) = n + 3 /\ t3[n + 3] = "END" /\ \A i \in 1 .. n + 2 : t3[i] = t2[i]
  <2>1. \A i \in 1 .. Len(t2) : t3[i] = t2[i] BY <1>5, KnownLines, LineMore
  <2>2. Len(t3) = Len(t2) + 1 /\ t3[Len(t2) + 1] = "END" BY <1>5, KnownLines, LineMore
  <2> QED BY <1>7, <2>1, <2>2
<1>9. /\ \A i \in 1 .. n : t3[i] = t[i]
      /\ t3[n + 1] = "BEGIN" /\ t3[n + 2] = "body" /\ t3[n + 3] = "END"
  <2>1. \A i \in 1 .. n : i \in 1 .. n + 1 /\ i \in 1 .. n + 2 OBVIOUS
  <2>2. n + 1 \in 1 .. n + 1 /\ n + 1 \in 1 .. n + 2 /\ n + 2 \in 1 .. n + 2 OBVIOUS
  <2> QED BY <1>6, <1>7, <1>8, <2>1, <2>2
<1>10. t3 = u
  <2>1. Block \in SsText /\ Len(Block) = 3 /\ Block[1] = "BEGIN" /\ Block[2] = "body" /\ Block[3] = "END"
    BY KnownLines DEF Block, SsText
  <2>2. u \in SsText /\ Len(u) = n + 3 /\ \A i \in 1 .. n + 3 : u[i] = IF i <= n THEN t[i] ELSE Block[i - n]
    <3>1. PICK bl \in SsText : bl = Block BY <2>1
    <3>2. /\ t \o bl \in SsText /\ Len(t \o bl) = Len(t) + Len(bl)
          /\ \A i \in 1 .. Len(t) + Len(bl) : (t \o bl)[i] = IF i <= Len(t) THEN t[i] ELSE bl[i - Len(t)]
      BY DEF SsText
    <3> QED BY <1>1, <1>2, <2>1, <3>1, <3>2
  <2>3. ASSUME NEW i \in 1 .. n + 3 PROVE t3[i] = u[i]
    <3>1. CASE i \in 1 .. n BY <1>9, <2>2, <3>1
    <3>2. CASE i = n + 1
      <4>1. i - n = 1 /\ ~(i <= n) BY <3>2
      <4> QED BY <1>9, <2>1, <2>2, <3>2, <4>1
    <3>3. CASE i = n + 2
      <4>1. i - n = 2 /\ ~(i <= n) BY <3>3
      <4> QED BY <1>9, <2>1, <2>2, <3>3, <4>1
    <3>4. CASE i = n + 3
      <4>1. i - n = 3 /\ ~(i <= n) BY <3>4
      <4> QED BY <1>9, <2>1, <2>2, <3>4, <4>1
    <3> QED BY <3>1, <3>2, <3>3, <3>4
  <2> QED BY <1>8, <2>2, <2>3 DEF SsText
<1>11. UserOf(t3) = UserOf(t)
  <2>1. UserOf(t1) = UserOf(t) BY <1>3, OwnAppend, KnownLines DEF IsOwn
  <2>2. UserOf(t2) = UserOf(t1) BY <1>4, OwnAppend, KnownLines DEF IsOwn
  <2>3. UserOf(t3) = UserOf(t2) BY <1>5, OwnAppend, KnownLines DEF IsOwn
  <2> QED BY <2>1, <2>2, <2>3
<1>12. \A i \in 1 .. n : t3[i] # "BEGIN" /\ t3[i] # "body" BY <1>1, <1>9 DEF Lacks
<1>13. \A i \in 1 .. n + 3 : i \in 1 .. n \/ i = n + 1 \/ i = n + 2 \/ i = n + 3 OBVIOUS
<1>14. \A i \in 1 .. n : ~Inside(t3, i)
  <2> SUFFICES ASSUME NEW i \in 1 .. n, Inside(t3, i) PROVE FALSE OBVIOUS
  <2>1. PICK b \in 1 .. i : t3[b] = "BEGIN" BY DEF Inside
  <2>2. b \in 1 .. n OBVIOUS
  <2> QED BY <1>12, <2>1, <2>2
<1>15. Inside(t3, n + 2)
  <2>1. n + 1 \in 1 .. n + 2 /\ \A e \in n + 1 .. (n + 2) - 1 : e = n + 1 OBVIOUS
  <2>2. ~\E e \in n + 1 .. (n + 2) - 1 : t3[e] = "END" BY <1>9, <2>1
  <2> QED BY <1>9, <2>1, <2>2 DEF Inside
<1>16. \A i \in 1 .. n + 3 : t3[i] = "body" => Inside(t3, i) BY <1>9, <1>12, <1>13, <1>15
<1>17. \A i \in 1 .. n + 3 : Inside(t3, i) => ~IsOwn(t3[i]) /\ t3[i] \notin {"stack", "off"}
  BY <1>9, <1>13, <1>14 DEF IsOwn
<1>18. ASSUME NEW b \in 1 .. n + 3, t3[b] = "BEGIN" PROVE \E e \in b .. n + 3 : t3[e] = "END"
  <2>1. n + 3 \in b .. n + 3 OBVIOUS
  <2> QED BY <1>9, <2>1
<1>19. WholeScript(t3) BY <1>8, <1>16, <1>17, <1>18 DEF WholeScript
<1> QED BY <1>2, <1>5, <1>10, <1>11, <1>19

\* Taking the blocks out of a whole script leaves no trace of them, and every
\* other line.
LEMMA UnblockedWhole ==
    ASSUME NoText \notin SsText, NEW t \in SsText, WholeScript(t)
    PROVE  /\ WithoutBlock(t) \in SsText /\ UserOf(WithoutBlock(t)) = UserOf(t)
           /\ Lacks(WithoutBlock(t), "BEGIN") /\ Lacks(WithoutBlock(t), "body")
           /\ \A line : Lacks(t, line) => Lacks(WithoutBlock(t), line)
<1>1. PICK n \in Nat : n = Len(t) BY DEF SsText
<1>2. DOMAIN t = 1 .. n BY <1>1 DEF SsText
<1>3. PICK I : I = {i \in DOMAIN t : ~Inside(t, i)} OBVIOUS
<1>4. PICK u : u = WithoutBlock(t) OBVIOUS
<1>5. u = Picked(t, I) BY <1>3, <1>4 DEF WithoutBlock
<1>6. \A i \in 1 .. n : i \in I <=> ~Inside(t, i) BY <1>2, <1>3
<1>7. \A i \in 1 .. n : IsOwn(t[i]) => i \in I BY <1>1, <1>6 DEF WholeScript
<1>8. u \in SsText /\ \A j \in 1 .. Len(u) : \E i \in 1 .. n : i \in I /\ u[j] = t[i]
  BY <1>1, <1>5, PickedLines
<1>9. UserOf(u) = UserOf(t) BY <1>1, <1>5, <1>7, OwnPicked
<1>10. \A i \in 1 .. n : i \in I => t[i] # "BEGIN" /\ t[i] # "body"
  <2> SUFFICES ASSUME NEW i \in 1 .. n, i \in I PROVE t[i] # "BEGIN" /\ t[i] # "body" OBVIOUS
  <2>1. t[i] # "body" BY <1>1, <1>6 DEF WholeScript
  <2>2. i \in 1 .. i /\ \A e \in i .. i - 1 : FALSE OBVIOUS
  <2>3. t[i] = "BEGIN" => Inside(t, i) BY <2>2 DEF Inside
  <2> QED BY <1>6, <2>1, <2>3
<1>11. Lacks(u, "BEGIN") /\ Lacks(u, "body") BY <1>8, <1>10 DEF Lacks
<1>12. \A line : Lacks(t, line) => Lacks(u, line) BY <1>1, <1>8 DEF Lacks
<1> QED BY <1>4, <1>8, <1>9, <1>11, <1>12

\* What a rewrite writes is whole, has the lines of the user, and lacks what the
\* rewrite takes out.
LEMMA NewTextFine ==
    ASSUME SsAssumption, SsTypes, ScriptsWhole, NEW r \in Rewrites
    PROVE  /\ NewText(r) \in SsText /\ WholeScript(NewText(r))
           /\ UserOf(NewText(r)) = UserOf(ss_script.live)
           /\ r = "restore" => Lacks(NewText(r), "off")
           /\ r = "unblock" => Lacks(NewText(r), "BEGIN") /\ Lacks(NewText(r), "body")
           /\ r = "unblock" /\ ss_script.live # NoText /\ Lacks(ss_script.live, "off") => Lacks(NewText(r), "off")
<1>1. NoText \notin SsText BY DEF SsAssumption, SsText
<1>2. PICK text : text = IF ss_script.live = NoText THEN <<>> ELSE ss_script.live OBVIOUS
<1>3. ss_script.live \in SsText \cup {NoText} BY DEF SsTypes
<1>4. text \in SsText /\ WholeScript(text) /\ UserOf(text) = UserOf(ss_script.live)
  <2>1. CASE ss_script.live = NoText
    <3>1. text = <<>> BY <1>2, <2>1
    <3>2. <<>> \in SsText /\ Len(<<>>) = 0 BY DEF SsText
    <3>3. Lacks(<<>>, "BEGIN") /\ Lacks(<<>>, "body")
      <4>1. \A i \in 1 .. 0 : FALSE OBVIOUS
      <4> QED BY <3>2, <4>1 DEF Lacks
    <3>4. WholeScript(<<>>) BY <3>2, <3>3, WholePlain
    <3> QED BY <1>1, <2>1, <3>1, <3>2, <3>4, OwnNone
  <2>2. CASE ss_script.live # NoText BY <1>2, <1>3, <2>2 DEF ScriptsWhole
  <2> QED BY <2>1, <2>2
<1>5. /\ r = "disable" => NewText(r) = Mapped(text, "stack", "off")
      /\ r = "restore" => NewText(r) = Mapped(text, "off", "stack")
      /\ r = "block" => NewText(r) = WithoutBlock(text) \o Block
      /\ r = "unblock" => NewText(r) = WithoutBlock(text)
  BY <1>2 DEF NewText, tn_parse_startup_script, tn_uncomment_startup_script
<1>6. CASE r = "disable"
  <2>1. /\ Mapped(text, "stack", "off") \in SsText /\ WholeScript(Mapped(text, "stack", "off"))
        /\ UserOf(Mapped(text, "stack", "off")) = UserOf(text)
    BY <1>1, <1>4, MappedWhole
  <2> QED BY <1>4, <1>5, <1>6, <2>1
<1>7. CASE r = "restore"
  <2>1. /\ Mapped(text, "off", "stack") \in SsText /\ WholeScript(Mapped(text, "off", "stack"))
        /\ UserOf(Mapped(text, "off", "stack")) = UserOf(text) /\ Lacks(Mapped(text, "off", "stack"), "off")
    BY <1>1, <1>4, MappedWhole
  <2> QED BY <1>4, <1>5, <1>7, <2>1
<1>8. PICK u : u = WithoutBlock(text) OBVIOUS
<1>9. /\ u \in SsText /\ UserOf(u) = UserOf(text) /\ Lacks(u, "BEGIN") /\ Lacks(u, "body")
      /\ Lacks(text, "off") => Lacks(u, "off")
  BY <1>1, <1>4, <1>8, UnblockedWhole
<1>10. CASE r = "unblock"
  <2>1. WholeScript(u) BY <1>9, WholePlain
  <2>2. ss_script.live # NoText => text = ss_script.live BY <1>2
  <2> QED BY <1>4, <1>5, <1>8, <1>9, <1>10, <2>1, <2>2
<1>11. CASE r = "block"
  <2>1. u \o Block \in SsText /\ WholeScript(u \o Block) /\ UserOf(u \o Block) = UserOf(u)
    BY <1>1, <1>9, BlockWhole
  <2> QED BY <1>4, <1>5, <1>8, <1>9, <1>11, <2>1
<1> QED BY <1>6, <1>7, <1>10, <1>11 DEF Rewrites

\* A line added leaves the first lines first.
LEMMA FirstAppend ==
    ASSUME NEW own \in SsText, NEW x \in SsLines, NEW first \in SsText, StartsWith(own, first)
    PROVE  StartsWith(Append(own, x), first)
<1>3. PICK n \in Nat, k \in Nat : n = Len(own) /\ k = Len(first) BY DEF SsText
<1>4. k <= n /\ SubSeq(own, 1, k) = first BY <1>3 DEF StartsWith
<1>5. Len(Append(own, x)) = n + 1 BY <1>3, LineMore
<1>6. SubSeq(Append(own, x), 1, k) = SubSeq(own, 1, k) BY <1>3, <1>4 DEF SsText
<1> QED BY <1>3, <1>4, <1>5, <1>6 DEF StartsWith

\* Every text starts with no lines.
LEMMA FirstNone ==
    ASSUME NoText \notin SsText, NEW t \in SsText \cup {NoText} PROVE KeepsFirst(t, <<>>)
<1>1. PICK own \in SsText : own = UserOf(t) BY OwnText
<1>2. Len(<<>>) <= Len(own) /\ SubSeq(own, 1, Len(<<>>)) = <<>> BY DEF SsText
<1> QED BY <1>1, <1>2 DEF KeepsFirst, StartsWith

\* A backup made outside a rewrite has the first lines.
LEMMA BackupFirst ==
    ASSUME SsAssumption, SsInv, ss_at = "", ss_script.bak = NoText
    PROVE  FirstLost \/ KeepsFirst(ss_script.live, ss_first)
<1>1. CASE ss_first = <<>>
  <2>1. NoText \notin SsText /\ ss_script.live \in SsText \cup {NoText} BY DEF SsAssumption, SsText, SsInv, SsTypes
  <2> QED BY <1>1, <2>1, FirstNone
<1>2. CASE ss_first # <<>> /\ "seed" \notin ss_cut BY <1>2 DEF SsInv, FirstThere
<1>3. CASE "script" \notin ss_cut
  <2>1. UserOf(ss_script.live) = ss_user BY <1>3 DEF SsInv, LinesThere
  <2>2. StartsWith(ss_user, ss_first) BY <1>3 DEF SsInv, FirstThere
  <2> QED BY <2>1, <2>2 DEF KeepsFirst
<1> QED BY <1>1, <1>2, <1>3 DEF FirstLost

\* A step that leaves the scripts alone, outside a rewrite.
LEMMA ScriptCalm ==
    ASSUME SsInv, ss_at = "", ss_at' = "", UNCHANGED <<ss_script, ss_user, ss_first, ss_cut>>,
           ss_script.bak # NoText \/ ss_script.live = NoText \/ ss_pc' \notin {"undoscript", "disable"}
    PROVE  ScriptsWhole' /\ LinesThere' /\ FirstThere'
<1>1. ScriptsWhole' BY DEF SsInv, ScriptsWhole
<1>2. LinesThere' BY DEF SsInv, LinesThere
<1>3. FirstThere' BY DEF SsInv, FirstThere, FirstLost
<1> QED BY <1>1, <1>2, <1>3

\* A step that leaves the library alone, outside its two renames.
LEMMA LibraryCalm ==
    ASSUME SsInv, UNCHANGED <<ss_lib, ss_cut>>, ss_pc \notin {"parked", "swap"},
           ss_pc' \notin {"parked", "swap"}
    PROVE  LibraryThere'
BY DEF SsInv, LibraryThere

\* A step has a fault more or not.
LEMMA FaultStep ==
    ASSUME SsAssumption, SsInv, NoFault \/ MayFail
    PROVE  /\ ss_faults' \in 0 .. SsFaults /\ (ss_faults' = ss_faults \/ ss_faults' > 0)
           /\ MayFail => ss_faults' > 0
<1>1. ss_faults \in 0 .. SsFaults /\ SsFaults \in Nat BY DEF SsInv, SsTypes, SsAssumption
<1>2. CASE NoFault
  <2>1. ss_faults' = ss_faults BY <1>2 DEF NoFault
  <2>2. MayFail => ss_faults' = ss_faults + 1 BY DEF MayFail
  <2> QED BY <1>1, <2>1, <2>2
<1>3. CASE MayFail
  <2>1. ss_faults' = ss_faults + 1 /\ ss_faults < SsFaults BY <1>3 DEF MayFail
  <2> QED BY <1>1, <2>1
<1> QED BY <1>2, <1>3

\* The invariant at the start.
LEMMA SsStarts == ASSUME SsAssumption, SsInit PROVE SsInv
<1>1. NoText \notin SsText /\ SsFaults \in Nat BY DEF SsAssumption, SsText
<1>2. PICK text \in SsScripts \cup {NoText} :
         /\ ss_script = [live |-> text, new |-> NoText, prev |-> NoText, bak |-> NoText]
         /\ ss_user = UserOf(text) /\ ss_first = UserOf(text)
  BY DEF SsInit
<1>3. text \in SsText \cup {NoText} BY DEF SsAssumption, SsText
<1>4. UserOf(text) \in SsText BY <1>1, <1>3, OwnText
<1>5. SsTypes
  <2>1. ss_script \in [live : SsText \cup {NoText}, new : SsText \cup {NoText},
                       prev : SsText \cup {NoText}, bak : SsText \cup {NoText}]
    BY <1>2, <1>3
  <2>2. ss_lib \in [live : SsLibs, park : SsLibs, backup : SsLibs] BY DEF SsInit, SsLibs
  <2>3. ss_faults \in 0 .. SsFaults
    <3>1. ss_faults = 0 BY DEF SsInit
    <3> QED BY <1>1, <3>1
  <2>4. ss_pc = "idle" /\ ss_at = "" /\ ss_ok = TRUE /\ ss_had = FALSE /\ ss_icon = TRUE /\ ss_undo = FALSE
        /\ ss_cut = {}
    BY DEF SsInit
  <2> QED BY <1>2, <1>4, <2>1, <2>2, <2>3, <2>4 DEF SsTypes, SsPcs
<1>6. text # NoText => Lacks(text, "off") /\ Lacks(text, "BEGIN") /\ Lacks(text, "body")
  <2> SUFFICES ASSUME text # NoText, NEW i \in 1 .. Len(text)
               PROVE  text[i] \notin {"off", "BEGIN", "body"}
    BY DEF Lacks
  <2>1. text \in SsScripts /\ text \in SsText BY <1>3
  <2>2. i \in DOMAIN text BY <2>1 DEF SsText
  <2>3. text[i] \in Lines(text) BY <2>2 DEF Lines
  <2> QED BY <2>1, <2>3 DEF SsAssumption
<1>7. ScriptsWhole BY <1>2, <1>3, <1>6, WholePlain DEF SsInit, ScriptsWhole
<1>8. LinesThere BY <1>2 DEF SsInit, LinesThere
<1>9. FirstThere
  <2>1. KeepsFirst(text, ss_first) /\ StartsWith(ss_user, ss_first)
    <3>1. PICK own \in SsText : own = UserOf(text) BY <1>4
    <3>2. SubSeq(own, 1, Len(own)) = own /\ Len(own) <= Len(own) BY DEF SsText
    <3> QED BY <1>2, <3>1, <3>2 DEF KeepsFirst, StartsWith
  <2>2. ss_first # <<>> => text # NoText BY <1>1, <1>2, OwnNone
  <2> QED BY <1>2, <1>6, <2>1, <2>2 DEF SsInit, FirstThere
<1>10. LibraryThere BY DEF SsInit, LibraryThere
<1>11. UndoneSoFar BY DEF SsInit, UndoneSoFar
<1> QED BY <1>5, <1>7, <1>8, <1>9, <1>10, <1>11 DEF SsInv

\* A command starts.
LEMMA FinishKeeps ==
    ASSUME SsAssumption, SsInv, NEW cmd \in {"apply", "undo"}, Finish(cmd) PROVE SsInv'
<1>1. /\ ss_at = "" /\ ss_at' = "" /\ ss_pc \in {"idle", "undone"} /\ ss_pc' \in {"backup", "restore"}
      /\ UNCHANGED <<ss_script, ss_had, ss_lib, ss_icon, ss_undo, ss_faults, ss_user, ss_first, ss_cut>>
      /\ ss_ok' = TRUE
  BY DEF Finish, Goes, NoFault, Files_UNCHANGED, history, SsInv, SsTypes, Rewrites
<1>2. SsTypes' BY <1>1 DEF SsInv, SsTypes, SsPcs, Rewrites
<1>3. ScriptsWhole' /\ LinesThere' /\ FirstThere' BY <1>1, ScriptCalm
<1>4. LibraryThere' BY <1>1, LibraryCalm
<1>5. UndoneSoFar' BY <1>1 DEF UndoneSoFar
<1> QED BY <1>2, <1>3, <1>4, <1>5 DEF SsInv

\* The backup of the script.
LEMMA BackupKeeps == ASSUME SsAssumption, SsInv, Backup PROVE SsInv'
<1>1. /\ ss_at = "" /\ ss_at' = "" /\ ss_pc = "backup" /\ ss_pc' \in {"undoscript", "block"}
      /\ UNCHANGED <<ss_had, ss_lib, ss_icon, ss_undo, ss_user, ss_first, ss_cut>>
      /\ ss_ok' \in BOOLEAN /\ ss_faults' \in 0 .. SsFaults
  <2>1. NoFault \/ MayFail BY DEF Backup
  <2>2. ss_pc = "backup" => ss_at = "" BY DEF SsInv, SsTypes, Rewrites
  <2>3. ss_ok \in BOOLEAN BY DEF SsInv, SsTypes
  <2> QED BY <2>1, <2>2, <2>3, FaultStep DEF Backup, Goes, Abandon, OnlyScript, history
<1>2. CASE UNCHANGED ss_script /\ (ss_script.bak # NoText \/ ss_script.live = NoText \/ ss_pc' = "block")
  <2>1. SsTypes' BY <1>1, <1>2 DEF SsInv, SsTypes, SsPcs, Rewrites
  <2>2. ScriptsWhole' /\ LinesThere' /\ FirstThere' BY <1>1, <1>2, ScriptCalm
  <2>3. LibraryThere' BY <1>1, LibraryCalm
  <2>4. UndoneSoFar' BY <1>1 DEF UndoneSoFar
  <2> QED BY <2>1, <2>2, <2>3, <2>4 DEF SsInv
<1>3. CASE /\ ss_script' = [ss_script EXCEPT !.bak = ss_script.live]
           /\ ss_script.live # NoText /\ ss_script.bak = NoText
  <2>0. /\ ss_script' \in [live : SsText \cup {NoText}, new : SsText \cup {NoText},
                           prev : SsText \cup {NoText}, bak : SsText \cup {NoText}]
        /\ ss_script'.live = ss_script.live /\ ss_script'.bak = ss_script.live
    BY <1>3 DEF SsInv, SsTypes
  <2>1. SsTypes' BY <1>1, <2>0 DEF SsInv, SsTypes, SsPcs, Rewrites
  <2>2. ScriptsWhole' BY <1>1, <2>0 DEF SsInv, ScriptsWhole
  <2>3. LinesThere' BY <1>1, <2>0 DEF SsInv, LinesThere
  <2>4. FirstThere'
    <3>1. FirstLost \/ KeepsFirst(ss_script.live, ss_first) BY <1>1, <1>3, BackupFirst
    <3> QED BY <1>1, <1>3, <2>0, <3>1 DEF SsInv, FirstThere, FirstLost
  <2>5. LibraryThere' BY <1>1, LibraryCalm
  <2>6. UndoneSoFar' BY <1>1 DEF UndoneSoFar
  <2> QED BY <2>1, <2>2, <2>3, <2>4, <2>5, <2>6 DEF SsInv
<1> QED BY <1>2, <1>3 DEF Backup, Goes, Abandon

\* The undo script is written.
LEMMA UndoScriptKeeps == ASSUME SsAssumption, SsInv, write_undo_stacks_script PROVE SsInv'
<1>1. /\ ss_at = "" /\ ss_at' = "" /\ ss_pc = "undoscript" /\ ss_pc' \in {"disable", "block"}
      /\ UNCHANGED <<ss_script, ss_had, ss_lib, ss_icon, ss_user, ss_first, ss_cut>>
      /\ ss_ok' \in BOOLEAN /\ ss_undo' \in BOOLEAN /\ ss_faults' \in 0 .. SsFaults
  <2>1. NoFault \/ MayFail BY DEF write_undo_stacks_script
  <2>2. ss_pc = "undoscript" => ss_at = "" BY DEF SsInv, SsTypes, Rewrites
  <2>3. ss_ok \in BOOLEAN /\ ss_undo \in BOOLEAN BY DEF SsInv, SsTypes
  <2> QED BY <2>1, <2>2, <2>3, FaultStep DEF write_undo_stacks_script, Goes, Abandon, history
<1>2. SsTypes' BY <1>1 DEF SsInv, SsTypes, SsPcs, Rewrites
<1>3. ScriptsWhole' BY <1>1 DEF SsInv, ScriptsWhole
<1>4. LinesThere' BY <1>1 DEF SsInv, LinesThere
<1>5. FirstThere' BY <1>1 DEF SsInv, FirstThere, FirstLost
<1>6. LibraryThere' BY <1>1, LibraryCalm
<1>7. UndoneSoFar' BY <1>1 DEF UndoneSoFar
<1> QED BY <1>2, <1>3, <1>4, <1>5, <1>6, <1>7 DEF SsInv

\* What the library's steps leave alone.
LEMMA LibStep ==
    ASSUME SsAssumption, SsInv, Park \/ ToBackup \/ Unpark \/ Swap
    PROVE  /\ ss_at = "" /\ ss_at' = ""
           /\ UNCHANGED <<ss_script, ss_had, ss_icon, ss_undo, ss_user, ss_first, ss_cut, ss_ok>>
           /\ ss_faults' \in 0 .. SsFaults /\ (ss_faults' = ss_faults \/ ss_faults' > 0)
           /\ ss_pc \in {"park", "parked", "unpark", "swap"}
           /\ ss_pc' \in {"parked", "icon", "swap", "icon back"}
<1>2. (NoFault \/ MayFail) => ss_faults' \in 0 .. SsFaults /\ (ss_faults' = ss_faults \/ ss_faults' > 0)
  BY FaultStep
<1>3. ss_pc \in {"park", "parked", "unpark", "swap"} => ss_at = "" BY DEF SsInv, SsTypes, Rewrites
<1>4. CASE Park BY <1>2, <1>3, <1>4 DEF Park, Goes, OnlyLib, history
<1>5. CASE ToBackup BY <1>2, <1>3, <1>5 DEF ToBackup, Goes, OnlyLib, history
<1>6. CASE Unpark BY <1>2, <1>3, <1>6 DEF Unpark, Goes, OnlyLib, history
<1>7. CASE Swap BY <1>2, <1>3, <1>7 DEF Swap, Goes, OnlyLib, history
<1> QED BY <1>4, <1>5, <1>6, <1>7

\* The library's steps.
LEMMA LibKeeps ==
    ASSUME SsAssumption, SsInv, Park \/ ToBackup \/ Unpark \/ Swap PROVE SsInv'
<1>1. /\ ss_at = "" /\ ss_at' = ""
      /\ UNCHANGED <<ss_script, ss_had, ss_icon, ss_undo, ss_user, ss_first, ss_cut, ss_ok>>
      /\ ss_faults' \in 0 .. SsFaults /\ (ss_faults' = ss_faults \/ ss_faults' > 0)
      /\ ss_pc \in {"park", "parked", "unpark", "swap"}
      /\ ss_pc' \in {"parked", "icon", "swap", "icon back"}
  BY LibStep
<1>2. PICK live \in SsLibs, park \in SsLibs, backup \in SsLibs :
         ss_lib.live = live /\ ss_lib.park = park /\ ss_lib.backup = backup
  BY DEF SsInv, SsTypes
<1>3. PICK l, p, b :
      /\ ss_lib' = [live |-> l, park |-> p, backup |-> b]
      /\ l \in SsLibs /\ p \in SsLibs /\ b \in SsLibs
      /\ "library" \notin ss_cut =>
            /\ ss_pc' \notin {"parked", "swap"} => p = "none" /\ (b = "orig" \/ (b = "none" /\ l = "orig"))
            /\ ss_pc' = "parked" => b = "orig" \/ (b = "none" /\ p = "orig")
            /\ ss_pc' = "swap" => b = "orig"
            /\ ss_pc' = "icon back" => l = "orig" \/ ss_faults' > 0 \/ b = "none"
      /\ ss_pc' \in {"swap", "icon back"} => ss_pc \in {"unpark", "swap"}
  <2>1. /\ "library" \notin ss_cut /\ ss_pc \notin {"parked", "swap"} =>
              park = "none" /\ (backup = "orig" \/ (backup = "none" /\ live = "orig"))
        /\ "library" \notin ss_cut /\ ss_pc = "parked" => backup = "orig" \/ (backup = "none" /\ park = "orig")
        /\ "library" \notin ss_cut /\ ss_pc = "swap" => backup = "orig"
    BY <1>2 DEF SsInv, LibraryThere
  <2>2. ss_lib = [live |-> live, park |-> park, backup |-> backup] BY <1>2 DEF SsInv, SsTypes
  <2>3. MayFail => ss_faults' > 0 BY FaultStep
  <2>4. "none" \in SsLibs BY DEF SsLibs
  <2>5. CASE Park
    <3>1. \/ ss_lib' = [live |-> live, park |-> park, backup |-> backup] /\ live = "none" /\ ss_pc' = "icon"
          \/ ss_lib' = [live |-> "none", park |-> live, backup |-> backup] /\ ss_pc' = "parked"
          \/ ss_lib' = [live |-> live, park |-> "none", backup |-> backup] /\ ss_pc' = "icon"
      BY <1>2, <2>2, <2>5 DEF Park, Lib, Goes
    <3>2. ss_pc = "park" BY <2>5 DEF Park
    <3> QED BY <2>1, <2>4, <3>1, <3>2
  <2>6. CASE ToBackup
    <3>1. \/ ss_lib' = [live |-> "none", park |-> "none", backup |-> park] /\ backup = "none"
          \/ ss_lib' = [live |-> park, park |-> "none", backup |-> backup]
      BY <1>2, <2>2, <2>6 DEF ToBackup, Lib
    <3>2. ss_pc = "parked" /\ ss_pc' = "icon" BY <2>6 DEF ToBackup, Goes
    <3> QED BY <2>1, <2>4, <3>1, <3>2
  <2>7. CASE Unpark
    <3>1. \/ ss_lib' = [live |-> live, park |-> park, backup |-> backup] /\ backup = "none" /\ ss_pc' = "icon back"
          \/ /\ ss_lib' = [live |-> backup, park |-> park, backup |-> "none"]
             /\ backup # "none" /\ ss_pc' = "icon back"
          \/ ss_lib' = [live |-> "none", park |-> live, backup |-> backup] /\ backup # "none" /\ ss_pc' = "swap"
          \/ /\ ss_lib' = [live |-> live, park |-> IF live = "none" THEN park ELSE "none", backup |-> backup]
             /\ backup # "none" /\ ss_pc' = "icon back" /\ ss_faults' > 0
      BY <1>2, <2>2, <2>3, <2>7 DEF Unpark, Lib, Goes
    <3>2. ss_pc = "unpark" BY <2>7 DEF Unpark
    <3> QED BY <2>1, <2>4, <3>1, <3>2
  <2>8. CASE Swap
    <3>1. \/ ss_lib' = [live |-> backup, park |-> "none", backup |-> "none"]
          \/ ss_lib' = [live |-> park, park |-> "none", backup |-> backup] /\ ss_faults' > 0
      BY <1>2, <2>2, <2>3, <2>8 DEF Swap, Lib
    <3>2. ss_pc = "swap" /\ ss_pc' = "icon back" BY <2>8 DEF Swap, Goes
    <3> QED BY <2>1, <2>4, <3>1, <3>2
  <2> QED BY <2>5, <2>6, <2>7, <2>8
<1>4. SsTypes'
  <2>1. ss_lib' \in [live : SsLibs, park : SsLibs, backup : SsLibs] BY <1>3
  <2> QED BY <1>1, <2>1 DEF SsInv, SsTypes, SsPcs, Rewrites
<1>5. ScriptsWhole' /\ LinesThere' /\ FirstThere' BY <1>1, ScriptCalm
<1>6. LibraryThere' BY <1>1, <1>3 DEF LibraryThere
<1>7. UndoneSoFar' BY <1>1, <1>3 DEF SsInv, UndoneSoFar, LibraryBack, IconBack
<1> QED BY <1>4, <1>5, <1>6, <1>7 DEF SsInv

\* The icon.
LEMMA IconKeeps == ASSUME SsAssumption, SsInv, Icon PROVE SsInv'
<1>1. /\ ss_at = "" /\ ss_at' = "" /\ ss_icon' \in BOOLEAN /\ ss_undo' \in BOOLEAN
      /\ UNCHANGED <<ss_script, ss_had, ss_lib, ss_user, ss_first, ss_cut, ss_ok>>
      /\ \/ ss_pc = "icon" /\ ss_pc' = "block"
         \/ ss_pc = "icon back" /\ ss_pc' = "unblock" /\ (ss_icon' = TRUE \/ MayFail) /\ ss_undo' = FALSE
      /\ NoFault \/ MayFail
  BY DEF Icon, Goes, history, SsInv, SsTypes, Rewrites
<1>6. /\ ss_faults' \in 0 .. SsFaults /\ (ss_faults' = ss_faults \/ ss_faults' > 0)
      /\ MayFail => ss_faults' > 0
  BY <1>1, FaultStep
<1>2. SsTypes' BY <1>1, <1>6 DEF SsInv, SsTypes, SsPcs, Rewrites
<1>3. ScriptsWhole' /\ LinesThere' /\ FirstThere' BY <1>1, ScriptCalm
<1>4. LibraryThere' BY <1>1, LibraryCalm
<1>5. UndoneSoFar' BY <1>1, <1>6 DEF SsInv, UndoneSoFar, LibraryBack, IconBack
<1> QED BY <1>2, <1>3, <1>4, <1>5 DEF SsInv

\* The scripts' types.
SsFiles == [live : SsText \cup {NoText}, new : SsText \cup {NoText},
            prev : SsText \cup {NoText}, bak : SsText \cup {NoText}]

\* Where a rewrite goes on when it ends, and when it fails.
LEMMA EndedGoes ==
    ASSUME NEW r \in Rewrites, Ended(r)
    PROVE  /\ ss_at' = "" /\ ss_pc' \in {"park", "unpark", "idle", "undone"}
           /\ ss_pc' = "unpark" => r = "restore"
           /\ ss_pc' = "undone" => r = "unblock" /\ ss_ok
<1>1. CASE r = "disable" BY <1>1 DEF Ended, After, Goes
<1>2. CASE r = "restore" BY <1>2 DEF Ended, After, Goes
<1>3. CASE r = "block" BY <1>3 DEF Ended, After, Goes
<1>4. CASE r = "unblock" BY <1>4 DEF Ended, After, Goes
<1> QED BY <1>1, <1>2, <1>3, <1>4 DEF Rewrites

\* A rewrite that fails has not succeeded.
LEMMA FailedGoes ==
    ASSUME NEW r \in Rewrites, Failed(r)
    PROVE  ss_at' = "" /\ ss_ok' = FALSE /\ ss_pc' \in {"block", "unblock", "idle"}
BY DEF Failed, Abandon, Goes

\* What an undo has put back when a rewrite starts.
LEMMA UndoGoesOn ==
    ASSUME SsInv, NEW r \in Rewrites, ss_pc = r, ss_pc' = r, ss_at' = "prev", ss_ok' = ss_ok,
           ss_faults' = ss_faults \/ ss_faults' > 0, ss_lib' = ss_lib, ss_icon' = ss_icon,
           ss_undo' = ss_undo, "library" \in ss_cut => "library" \in ss_cut', NEW new, ss_script'.new = new, r = "restore" => Lacks(new, "off"),
           ss_ok /\ r = "unblock" => Lacks(new, "off") /\ Lacks(new, "BEGIN") /\ Lacks(new, "body")
    PROVE  UndoneSoFar'
BY DEF SsInv, UndoneSoFar, LibraryBack, IconBack, Rewrites

\* A rewrite starts.
LEMMA WriteNewStarts ==
    ASSUME SsAssumption, SsInv, NEW r \in Rewrites, ss_pc = r, ss_at = "", Needed(r), NoFault \/ MayFail,
           UNCHANGED <<ss_ok, ss_had, ss_lib, ss_icon, ss_undo, ss_user, ss_first>>, Within("prev"),
           NEW bak, ss_script' = [ss_script EXCEPT !.new = NewText(r), !.bak = bak],
           \/ bak = (IF Seeds(r) THEN ss_script.live ELSE ss_script.bak) /\ ss_cut' = ss_cut
           \/ bak = ss_script.bak /\ Seeds(r) /\ ss_cut' = ss_cut \cup {"seed"}
    PROVE  SsInv'
<1>1. /\ ss_pc' = r /\ ss_at' = "prev" /\ ss_ok' = ss_ok /\ ss_had' = ss_had
      /\ ss_lib' = ss_lib /\ ss_icon' = ss_icon /\ ss_undo' = ss_undo /\ ss_user' = ss_user
      /\ ss_first' = ss_first
  BY DEF Within
<1>4. /\ ss_cut \subseteq ss_cut' /\ ss_cut' \subseteq ss_cut \cup {"seed"}
      /\ "script" \in ss_cut' <=> "script" \in ss_cut
      /\ "library" \in ss_cut' <=> "library" \in ss_cut
  OBVIOUS
<1>14. ss_faults' \in 0 .. SsFaults /\ (ss_faults' = ss_faults \/ ss_faults' > 0) BY FaultStep
<1>2. NoText \notin SsText BY DEF SsAssumption, SsText
<1>3. PICK new \in SsText :
           /\ new = NewText(r) /\ WholeScript(new)
           /\ UserOf(new) = UserOf(ss_script.live)
           /\ r = "restore" => Lacks(new, "off")
           /\ r = "unblock" => Lacks(new, "BEGIN") /\ Lacks(new, "body")
           /\ r = "unblock" /\ ss_script.live # NoText /\ Lacks(ss_script.live, "off") => Lacks(new, "off")
  BY NewTextFine DEF SsInv
<1>5. ss_script \in SsFiles BY DEF SsInv, SsTypes, SsFiles
<1>6. bak \in SsText \cup {NoText} BY <1>5 DEF SsFiles
<1>7. /\ ss_script' \in SsFiles /\ ss_script'.new = new /\ ss_script'.bak = bak
      /\ ss_script'.live = ss_script.live /\ ss_script'.prev = ss_script.prev
  <2>1. ss_script' = [ss_script EXCEPT !.new = new, !.bak = bak] BY <1>3
  <2> QED BY <1>5, <1>6, <2>1 DEF SsFiles
<1>8. SsTypes' BY <1>1, <1>4, <1>7, <1>14 DEF SsInv, SsTypes, SsPcs, SsFiles
<1>9. ScriptsWhole' BY <1>1, <1>2, <1>3, <1>7 DEF SsInv, ScriptsWhole
<1>10. LinesThere' BY <1>1, <1>3, <1>4, <1>7 DEF SsInv, LinesThere
<1>11. FirstThere'
  <2>1. FirstLost \/ bak = NoText \/ KeepsFirst(bak, ss_first)
    <3>1. CASE bak = ss_script.bak BY <3>1 DEF SsInv, FirstThere
    <3>2. CASE bak = ss_script.live /\ Seeds(r) BY <3>2, BackupFirst DEF Seeds
    <3> QED BY <3>1, <3>2
  <2>2. FirstLost => FirstLost' BY <1>4 DEF FirstLost
  <2>3. ASSUME "seed" \notin ss_cut', bak = NoText, ss_first # <<>> PROVE FALSE
    <3>0. bak = (IF Seeds(r) THEN ss_script.live ELSE ss_script.bak) /\ ss_cut' = ss_cut BY <2>3
    <3>4. ss_script.bak = NoText BY <2>3, <3>0 DEF Seeds
    <3>1. ss_script.live # NoText /\ Lacks(ss_script.live, "off") /\ r # "disable"
      BY <2>3, <3>0, <3>4 DEF SsInv, FirstThere
    <3>2. r # "restore"
      <4>1. ASSUME r = "restore" PROVE FALSE
        <5>1. "off" \in Lines(ss_script.live) BY <4>1 DEF Needed
        <5>2. ss_script.live \in SsText BY <1>5, <3>1 DEF SsFiles
        <5>3. DOMAIN ss_script.live = 1 .. Len(ss_script.live) BY <5>2, TextPlaces
        <5> QED BY <3>1, <5>1, <5>3 DEF Lines, Lacks
      <4> QED BY <4>1
    <3> QED BY <2>3, <3>0, <3>1, <3>2, <3>4 DEF Seeds, Rewrites
  <2>4. "script" \notin ss_cut' => StartsWith(ss_user, ss_first) BY <1>4 DEF SsInv, FirstThere
  <2> QED BY <1>1, <1>7, <2>1, <2>2, <2>3, <2>4 DEF FirstThere
<1>12. LibraryThere'
  BY <1>1, <1>4 DEF SsInv, LibraryThere, Rewrites
<1>13. UndoneSoFar'
  <2>1. r = "unblock" => ss_script.live # NoText BY DEF Needed
  <2>2. ss_ok /\ r = "unblock" => Lacks(ss_script.live, "off") BY <2>1 DEF SsInv, UndoneSoFar
  <2>3. ss_ok /\ r = "unblock" => Lacks(new, "off") /\ Lacks(new, "BEGIN") /\ Lacks(new, "body")
    BY <1>3, <2>1, <2>2, Zenon
  <2>4. ss_script'.new = new BY <1>7
  <2>5. "library" \in ss_cut => "library" \in ss_cut' BY <1>4
  <2> QED BY <1>1, <1>3, <1>14, <2>3, <2>4, <2>5, UndoGoesOn, ZenonT(30)
<1> QED BY <1>8, <1>9, <1>10, <1>11, <1>12, <1>13 DEF SsInv

\* An undo with no script has put everything back.
LEMMA UndoneStays ==
    ASSUME SsInv, ss_pc = "unblock", ss_ok, ss_faults' = ss_faults \/ ss_faults' > 0,
           UNCHANGED <<ss_lib, ss_icon, ss_undo, ss_cut>>, ss_pc' = "undone", ss_at' = "",
           ss_script'.live = NoText
    PROVE  UndoneSoFar'
<1>1. IconBack /\ ~ss_undo /\ ("library" \in ss_cut \/ LibraryBack) BY DEF SsInv, UndoneSoFar
<1>2. IconBack' BY <1>1 DEF IconBack
<1>3. "library" \in ss_cut' \/ LibraryBack' BY <1>1 DEF LibraryBack
<1> QED BY <1>1, <1>2, <1>3 DEF UndoneSoFar

\* A rewrite that is not needed, or cannot start.
LEMMA WriteNewPasses ==
    ASSUME SsAssumption, SsInv, NEW r \in Rewrites, ss_pc = r, ss_at = "",
           UNCHANGED <<ss_had, ss_lib, ss_icon, ss_undo, ss_user, ss_first, ss_cut>>,
           ss_script' = ss_script \/ ss_script' = Seeded(r),
           \/ ~Needed(r) /\ Ended(r) /\ NoFault /\ UNCHANGED <<ss_ok, ss_script>>
           \/ MayFail /\ Failed(r)
    PROVE  SsInv'
<1>0. ss_script \in SsFiles BY DEF SsInv, SsTypes, SsFiles
<1>1. /\ UNCHANGED <<ss_had, ss_lib, ss_icon, ss_undo, ss_user, ss_first, ss_cut>>
      /\ ss_script' \in SsFiles /\ ss_script'.live = ss_script.live
      /\ \/ ss_script' = ss_script
         \/ ss_script.bak = NoText /\ ss_script'.bak = ss_script.live /\ ss_script.live # NoText
  <2>1. CASE ss_script' = ss_script BY <1>0, <2>1
  <2>2. CASE ss_script' = [ss_script EXCEPT !.bak = ss_script.live] /\ Seeds(r)
    BY <1>0, <2>2 DEF SsFiles, Seeds
  <2> QED BY <2>1, <2>2 DEF Seeded
<1>2. ss_faults' \in 0 .. SsFaults /\ (ss_faults' = ss_faults \/ ss_faults' > 0) BY FaultStep
<1>3. \/ /\ ~Needed(r) /\ ss_ok' = ss_ok /\ ss_at' = "" /\ ss_pc' \in {"park", "unpark", "idle", "undone"}
         /\ ss_pc' = "unpark" => r = "restore"
         /\ ss_pc' = "undone" => r = "unblock" /\ ss_ok
      \/ ss_at' = "" /\ ss_ok' = FALSE /\ ss_pc' \in {"block", "unblock", "idle"}
  BY EndedGoes, FailedGoes
<1>4. SsTypes' BY <1>1, <1>2, <1>3 DEF SsInv, SsTypes, SsPcs, SsFiles, Rewrites
<1>5. ScriptsWhole' /\ LinesThere' /\ FirstThere'
  <2>1. CASE ss_script' = ss_script BY <1>1, <1>3, <2>1, ScriptCalm
  <2>2. CASE ss_script.bak = NoText /\ ss_script'.bak = ss_script.live /\ ss_script.live # NoText
    <3>1. ScriptsWhole' BY <1>1, <1>3 DEF SsInv, ScriptsWhole
    <3>2. LinesThere' BY <1>1, <1>3 DEF SsInv, LinesThere
    <3>3. FirstLost \/ KeepsFirst(ss_script.live, ss_first) BY <2>2, BackupFirst
    <3>4. FirstThere' BY <1>1, <1>3, <2>2, <3>3 DEF SsInv, FirstThere, FirstLost
    <3> QED BY <3>1, <3>2, <3>4
  <2> QED BY <1>1, <2>1, <2>2
<1>6. LibraryThere' BY <1>1, <1>3, LibraryCalm DEF Rewrites
<1>7. UndoneSoFar'
  <2>1. ~Needed("restore") /\ ss_script.live # NoText => Lacks(ss_script.live, "off")
    <3>1. SUFFICES ASSUME ~Needed("restore"), ss_script.live # NoText PROVE Lacks(ss_script.live, "off")
      OBVIOUS
    <3>2. ss_script.live \in SsText BY <3>1 DEF SsInv, SsTypes
    <3>3. DOMAIN ss_script.live = 1 .. Len(ss_script.live) BY <3>2, TextPlaces
    <3>4. "off" \notin Lines(ss_script.live) BY <3>1 DEF Needed
    <3> QED BY <3>3, <3>4 DEF Lines, Lacks
  <2>2. ~Needed("unblock") => ss_script.live = NoText BY DEF Needed
  <2>3. CASE ss_ok' = FALSE /\ ss_pc' \in {"block", "unblock", "idle"} BY <1>3, <2>3 DEF UndoneSoFar
  <2>4. CASE /\ ~Needed(r) /\ ss_ok' = ss_ok /\ ss_at' = "" /\ ss_pc' \in {"park", "unpark", "idle", "undone"}
             /\ ss_pc' = "unpark" => r = "restore"
             /\ ss_pc' = "undone" => r = "unblock" /\ ss_ok
    <3>1. CASE ss_pc' = "unpark" BY <1>1, <2>1, <2>4, <3>1 DEF UndoneSoFar
    <3>2. CASE ss_pc' = "undone"
      <4>1. ss_script.live = NoText /\ ss_pc = "unblock" /\ ss_ok BY <2>2, <2>4, <3>2
      <4> QED BY <1>1, <1>2, <2>4, <3>2, <4>1, UndoneStays
    <3>3. CASE ss_pc' \in {"park", "idle"} BY <2>4, <3>3 DEF UndoneSoFar
    <3> QED BY <2>4, <3>1, <3>2, <3>3
  <2> QED BY <1>3, <2>3, <2>4
<1> QED BY <1>4, <1>5, <1>6, <1>7 DEF SsInv

\* The first step of a rewrite.
LEMMA WriteNewKeeps == ASSUME SsAssumption, SsInv, NEW r \in Rewrites, WriteNew(r) PROVE SsInv'
<1>1. ss_pc = r /\ ss_at = "" /\ UNCHANGED <<ss_had, ss_lib, ss_icon, ss_undo, ss_user, ss_first>>
  BY DEF WriteNew
<1>2. CASE ~Needed(r) /\ Ended(r) /\ NoFault /\ UNCHANGED <<ss_script, ss_ok, ss_cut>>
  BY <1>1, <1>2, WriteNewPasses
<1>3. CASE MayFail /\ Failed(r) /\ UNCHANGED ss_cut /\ ss_script' \in {ss_script, Seeded(r)}
  BY <1>1, <1>3, WriteNewPasses
<1>4. CASE /\ Needed(r) /\ NoFault /\ Within("prev") /\ UNCHANGED <<ss_ok, ss_cut>>
           /\ ss_script' = [Seeded(r) EXCEPT !.new = NewText(r)]
  <2>1. PICK bak : bak = IF Seeds(r) THEN ss_script.live ELSE ss_script.bak OBVIOUS
  <2>2. PICK new : new = NewText(r) OBVIOUS
  <2>3. ss_script' = [ss_script EXCEPT !.new = new, !.bak = bak]
    <3>1. ss_script \in SsFiles BY DEF SsInv, SsTypes, SsFiles
    <3>2. ss_script' = [Seeded(r) EXCEPT !.new = new] BY <1>4, <2>2
    <3> HIDE DEF Seeds
    <3> QED BY <2>1, <3>1, <3>2 DEF Seeded, SsFiles
  <2>4. ss_script' = [ss_script EXCEPT !.new = NewText(r), !.bak = bak] BY <2>2, <2>3
  <2> QED BY <1>1, <1>4, <2>1, <2>4, WriteNewStarts
<1>5. CASE /\ Needed(r) /\ Seeds(r) /\ MayFail /\ Within("prev") /\ UNCHANGED ss_ok
           /\ ss_script' = [ss_script EXCEPT !.new = NewText(r)] /\ ss_cut' = ss_cut \cup {"seed"}
  <2>1. PICK bak : bak = ss_script.bak OBVIOUS
  <2>2. PICK new : new = NewText(r) OBVIOUS
  <2>3. ss_script' = [ss_script EXCEPT !.new = new, !.bak = bak]
    <3>1. ss_script \in SsFiles BY DEF SsInv, SsTypes, SsFiles
    <3>2. ss_script' = [ss_script EXCEPT !.new = new] BY <1>5, <2>2
    <3> QED BY <2>1, <3>1, <3>2 DEF SsFiles
  <2>4. ss_script' = [ss_script EXCEPT !.new = NewText(r), !.bak = bak] BY <2>2, <2>3
  <2> QED BY <1>1, <1>5, <2>1, <2>4, WriteNewStarts
<1> QED BY <1>2, <1>3, <1>4, <1>5, Zenon DEF WriteNew

\* The former generation is deleted.
LEMMA DropPrevKeeps == ASSUME SsAssumption, SsInv, NEW r \in Rewrites, DropPrev(r) PROVE SsInv'
<1>1. /\ ss_pc = r /\ ss_pc' = r /\ ss_at = "prev" /\ ss_at' = "old"
      /\ UNCHANGED <<ss_ok, ss_had, ss_lib, ss_icon, ss_undo, ss_user, ss_first, ss_cut>>
      /\ ss_script' = [ss_script EXCEPT !.prev = NoText] \/ ss_script' = ss_script
      /\ NoFault \/ MayFail
  BY DEF DropPrev, Within, OnlyScript, history
<1>10. ss_faults' \in 0 .. SsFaults /\ (ss_faults' = ss_faults \/ ss_faults' > 0) BY <1>1, FaultStep
<1>2. ss_script \in SsFiles BY DEF SsInv, SsTypes, SsFiles
<1>3. /\ ss_script' \in SsFiles /\ ss_script'.live = ss_script.live /\ ss_script'.new = ss_script.new
      /\ ss_script'.bak = ss_script.bak
  BY <1>1, <1>2 DEF SsFiles
<1>4. SsTypes' BY <1>1, <1>3, <1>10 DEF SsInv, SsTypes, SsPcs, SsFiles
<1>5. ScriptsWhole' BY <1>1, <1>3 DEF SsInv, ScriptsWhole
<1>6. LinesThere' BY <1>1, <1>3 DEF SsInv, LinesThere
<1>7. FirstThere' BY <1>1, <1>3 DEF SsInv, FirstThere, FirstLost
<1>8. LibraryThere' BY <1>1, LibraryCalm DEF Rewrites
<1>9. UndoneSoFar' BY <1>1, <1>3, <1>10 DEF SsInv, UndoneSoFar, LibraryBack, IconBack, Rewrites
<1> QED BY <1>4, <1>5, <1>6, <1>7, <1>8, <1>9 DEF SsInv

\* The live file is moved away, or cannot be.
LEMMA MoveOldKeeps == ASSUME SsAssumption, SsInv, NEW r \in Rewrites, MoveOld(r) PROVE SsInv'
<1>1. /\ ss_pc = r /\ ss_pc' = r /\ ss_at = "old" /\ ss_at' = "new"
      /\ UNCHANGED <<ss_ok, ss_lib, ss_icon, ss_undo, ss_user, ss_first, ss_cut>>
      /\ NoFault \/ MayFail
  BY DEF MoveOld, Within, OnlyScript, history
<1>2. ss_faults' \in 0 .. SsFaults /\ (ss_faults' = ss_faults \/ ss_faults' > 0) BY <1>1, FaultStep
<1>3. ss_script \in SsFiles BY DEF SsInv, SsTypes, SsFiles
<1>4. /\ ss_script' \in SsFiles /\ ss_script'.new = ss_script.new /\ ss_script'.bak = ss_script.bak
      /\ \/ /\ ss_script'.prev = ss_script.live /\ ss_script'.live = NoText
            /\ ss_had' = (ss_script.live # NoText)
         \/ ss_script' = ss_script /\ ss_had' = FALSE
  <2>1. CASE /\ ss_script' = [ss_script EXCEPT !.prev = ss_script.live, !.live = NoText]
             /\ ss_had' = (ss_script.live # NoText)
    BY <1>3, <2>1 DEF SsFiles
  <2>2. CASE ss_script' = ss_script /\ ss_had' = FALSE BY <1>3, <2>2
  <2> QED BY <2>1, <2>2 DEF MoveOld
<1>5. ss_had' \in BOOLEAN BY <1>4
<1>6. SsTypes' BY <1>1, <1>2, <1>4, <1>5 DEF SsInv, SsTypes, SsPcs, SsFiles
<1>7. ScriptsWhole' BY <1>1, <1>4 DEF SsInv, ScriptsWhole
<1>8. LinesThere' BY <1>1, <1>4 DEF SsInv, LinesThere
<1>9. FirstThere' BY <1>1, <1>4 DEF SsInv, FirstThere, FirstLost
<1>10. LibraryThere' BY <1>1, LibraryCalm DEF Rewrites
<1>11. UndoneSoFar' BY <1>1, <1>2, <1>4 DEF SsInv, UndoneSoFar, LibraryBack, IconBack, Rewrites
<1> QED BY <1>6, <1>7, <1>8, <1>9, <1>10, <1>11 DEF SsInv

\* The new file is moved in, or the live one back.
LEMMA MoveNewKeeps == ASSUME SsAssumption, SsInv, NEW r \in Rewrites, MoveNew(r) PROVE SsInv'
<1>1. /\ ss_pc = r /\ ss_at = "new"
      /\ UNCHANGED <<ss_had, ss_lib, ss_icon, ss_undo, ss_user, ss_first, ss_cut>>
      /\ NoFault \/ MayFail
  BY DEF MoveNew, OnlyScript, history
<1>2. ss_faults' \in 0 .. SsFaults /\ (ss_faults' = ss_faults \/ ss_faults' > 0) BY <1>1, FaultStep
<1>3. ss_script \in SsFiles BY DEF SsInv, SsTypes, SsFiles
<1>0. LibraryThere' \/ ss_pc' \in {"parked", "swap"} BY <1>1, LibraryCalm DEF Rewrites
<1>4. CASE /\ ss_script.live = NoText /\ Ended(r) /\ UNCHANGED ss_ok
           /\ ss_script' = [ss_script EXCEPT !.live = ss_script.new, !.new = NoText]
  <2>1. /\ ss_at' = "" /\ ss_pc' \in {"park", "unpark", "idle", "undone"}
        /\ ss_pc' = "unpark" => r = "restore"
        /\ ss_pc' = "undone" => r = "unblock" /\ ss_ok
    BY <1>4, EndedGoes
  <2>2. ss_script' \in SsFiles /\ ss_script'.live = ss_script.new /\ ss_script'.bak = ss_script.bak
    BY <1>3, <1>4 DEF SsFiles
  <2>3. SsTypes' BY <1>1, <1>2, <1>4, <2>1, <2>2 DEF SsInv, SsTypes, SsPcs, SsFiles
  <2>4. ScriptsWhole' BY <1>1, <2>1, <2>2 DEF SsInv, ScriptsWhole
  <2>5. LinesThere' BY <1>1, <2>1, <2>2 DEF SsInv, LinesThere
  <2>6. FirstThere' BY <1>1, <2>1, <2>2 DEF SsInv, FirstThere, FirstLost
  <2>7. LibraryThere' BY <1>0, <2>1
  <2>8. UndoneSoFar'
    <3>1. CASE ss_pc' = "unpark"
      <4>1. ss_ok => Lacks(ss_script.new, "off") BY <1>1, <2>1, <3>1 DEF SsInv, UndoneSoFar
      <4> QED BY <1>4, <2>1, <2>2, <3>1, <4>1 DEF UndoneSoFar
    <3>2. CASE ss_pc' = "undone"
      <4>1. IconBack /\ ~ss_undo /\ ("library" \in ss_cut \/ LibraryBack)
        BY <1>1, <2>1, <3>2 DEF SsInv, UndoneSoFar
      <4>2. ("library" \in ss_cut' \/ LibraryBack') /\ IconBack'
        BY <1>1, <1>2, <4>1 DEF LibraryBack, IconBack
      <4>3. \A line \in {"off", "BEGIN", "body"} : Lacks(ss_script.new, line)
        BY <1>1, <2>1, <3>2 DEF SsInv, UndoneSoFar
      <4> QED BY <1>1, <1>4, <2>1, <2>2, <3>2, <4>1, <4>2, <4>3 DEF UndoneSoFar
    <3>3. CASE ss_pc' \in {"park", "idle"} BY <3>3 DEF UndoneSoFar
    <3> QED BY <2>1, <3>1, <3>2, <3>3
  <2> QED BY <2>3, <2>4, <2>5, <2>6, <2>7, <2>8 DEF SsInv
<1>5. CASE /\ Failed(r)
           /\ ss_script' = [ss_script EXCEPT !.new = NoText,
                 !.live = IF ss_had THEN ss_script.prev ELSE @,
                 !.prev = IF ss_had THEN NoText ELSE @]
  <2>1. ss_at' = "" /\ ss_ok' = FALSE /\ ss_pc' \in {"block", "unblock", "idle"} BY <1>5, FailedGoes
  <2>2. /\ ss_script' \in SsFiles /\ ss_script'.bak = ss_script.bak
        /\ ss_script'.live = IF ss_had THEN ss_script.prev ELSE ss_script.live
    BY <1>3, <1>5 DEF SsFiles
  <2>3. SsTypes' BY <1>1, <1>2, <2>1, <2>2 DEF SsInv, SsTypes, SsPcs, SsFiles, Rewrites
  <2>4. ScriptsWhole' BY <1>1, <2>1, <2>2 DEF SsInv, ScriptsWhole
  <2>5. LinesThere' BY <1>1, <2>1, <2>2 DEF SsInv, LinesThere
  <2>6. FirstThere' BY <1>1, <2>1, <2>2 DEF SsInv, FirstThere, FirstLost
  <2>7. LibraryThere' BY <1>0, <2>1
  <2>8. UndoneSoFar' BY <2>1 DEF UndoneSoFar
  <2> QED BY <2>3, <2>4, <2>5, <2>6, <2>7, <2>8 DEF SsInv
<1> QED BY <1>4, <1>5 DEF MoveNew

\* The power goes.
LEMMA PowerCutKeeps == ASSUME SsAssumption, SsInv, SsPowerCut PROVE SsInv'
<1>1. /\ ss_pc' = "idle" /\ ss_at' = "" /\ ss_ok' = FALSE /\ MayFail
      /\ UNCHANGED <<ss_script, ss_had, ss_lib, ss_icon, ss_undo, ss_user, ss_first>>
  BY DEF SsPowerCut, Goes, Files_UNCHANGED
<1>2. ss_faults' \in 0 .. SsFaults BY <1>1, FaultStep
<1>3. /\ ss_cut' \subseteq {"library", "script", "seed"} /\ ss_cut \subseteq ss_cut'
      /\ "seed" \in ss_cut' => "seed" \in ss_cut
      /\ ss_lib.park # "none" => "library" \in ss_cut'
      /\ ss_at = "new" => "script" \in ss_cut'
  <2>1. ss_cut' = ss_cut \cup (IF ss_lib.park # "none" THEN {"library"} ELSE {})
                        \cup (IF ss_at = "new" THEN {"script"} ELSE {})
    BY DEF SsPowerCut
  <2>2. ss_cut \subseteq {"library", "script", "seed"} BY DEF SsInv, SsTypes
  <2> QED BY <2>1, <2>2
<1>4. SsTypes' BY <1>1, <1>2, <1>3 DEF SsInv, SsTypes, SsPcs
<1>5. ScriptsWhole' BY <1>1 DEF SsInv, ScriptsWhole
<1>6. LinesThere' BY <1>1, <1>3 DEF SsInv, LinesThere
<1>7. FirstThere' BY <1>1, <1>3 DEF SsInv, FirstThere, FirstLost
<1>8. LibraryThere' BY <1>1, <1>3 DEF SsInv, LibraryThere
<1>9. UndoneSoFar' BY <1>1 DEF UndoneSoFar
<1> QED BY <1>4, <1>5, <1>6, <1>7, <1>8, <1>9 DEF SsInv

\* The user adds a line.
LEMMA EditKeeps == ASSUME SsAssumption, SsInv, NEW line \in SsLater, UserEdits(line) PROVE SsInv'
<1>1. /\ ss_pc \in {"idle", "undone"} /\ ss_pc' = "idle" /\ ss_at' = "" /\ ss_script.live # NoText
      /\ UNCHANGED <<ss_faults, ss_ok, ss_had, ss_lib, ss_icon, ss_undo, ss_first, ss_cut>>
      /\ ss_script' = [ss_script EXCEPT !.live = Append(@, line)]
      /\ ss_user' = Append(UserOf(ss_script.live), line)
  BY DEF UserEdits, Goes, NoFault
<1>2. NoText \notin SsText /\ line \in SsLines /\ IsOwn(line) BY DEF SsAssumption, SsText, SsLines
<1>3. ss_script \in SsFiles /\ ss_at = "" BY <1>1 DEF SsInv, SsTypes, SsFiles, Rewrites
<1>4. PICK live \in SsText : live = ss_script.live BY <1>1, <1>3 DEF SsFiles
<1>5. PICK text : text = Append(live, line) OBVIOUS
<1>6. WholeScript(live) BY <1>1, <1>4 DEF SsInv, ScriptsWhole
<1>7. text \in SsText /\ WholeScript(text) BY <1>2, <1>5, <1>6, AppendWhole
<1>8. UserOf(text) = ss_user' BY <1>1, <1>2, <1>4, <1>5, OwnAppend
<1>9. ss_script' \in SsFiles /\ ss_script'.live = text /\ ss_script'.bak = ss_script.bak
  <2>1. ss_script' = [ss_script EXCEPT !.live = text] BY <1>1, <1>4, <1>5
  <2> QED BY <1>3, <1>7, <2>1 DEF SsFiles
<1>10. ss_user' \in SsText BY <1>2, <1>7, <1>8, OwnText
<1>11. SsTypes' BY <1>1, <1>9, <1>10 DEF SsInv, SsTypes, SsPcs, SsFiles
<1>12. ScriptsWhole' BY <1>1, <1>7, <1>9 DEF ScriptsWhole
<1>13. LinesThere' BY <1>1, <1>8, <1>9 DEF LinesThere
<1>14. FirstThere'
  <2>1. ss_first \in SsText BY DEF SsInv, SsTypes
  <2>2. KeepsFirst(live, ss_first) => KeepsFirst(text, ss_first) /\ StartsWith(ss_user', ss_first)
    <3>1. PICK own \in SsText : own = UserOf(live) BY <1>2, OwnText
    <3>2. UserOf(text) = Append(own, line) /\ ss_user' = Append(own, line) BY <1>1, <1>4, <1>8, <3>1
    <3> QED BY <1>2, <2>1, <3>1, <3>2, FirstAppend DEF KeepsFirst
  <2>5. "script" \notin ss_cut => KeepsFirst(live, ss_first)
    <3>1. SUFFICES ASSUME "script" \notin ss_cut PROVE KeepsFirst(live, ss_first) OBVIOUS
    <3>2. UserOf(live) = ss_user BY <1>3, <1>4, <3>1 DEF SsInv, LinesThere
    <3>3. StartsWith(ss_user, ss_first) BY <3>1 DEF SsInv, FirstThere
    <3> QED BY <3>2, <3>3 DEF KeepsFirst
  <2>3. Lacks(live, "off") => Lacks(text, "off")
    <3>1. PICK n \in Nat : n = Len(live) BY DEF SsText
    <3>2. Len(text) = n + 1 /\ text[n + 1] = line /\ \A i \in 1 .. n : text[i] = live[i]
      BY <1>2, <1>5, <3>1, LineMore
    <3>3. line # "off" BY <1>2 DEF IsOwn
    <3>4. \A i \in 1 .. n + 1 : i \in 1 .. n \/ i = n + 1 OBVIOUS
    <3> QED BY <3>1, <3>2, <3>3, <3>4 DEF Lacks
  <2>4. text # NoText BY <1>2, <1>7
  <2> QED BY <1>1, <1>4, <1>9, <2>2, <2>3, <2>4, <2>5 DEF SsInv, FirstThere, FirstLost
<1>15. LibraryThere' BY <1>1, LibraryCalm
<1>16. UndoneSoFar' BY <1>1 DEF UndoneSoFar
<1> QED BY <1>11, <1>12, <1>13, <1>14, <1>15, <1>16 DEF SsInv

\* Another library is installed where none is.
LEMMA ReinstallKeeps == ASSUME SsAssumption, SsInv, Reinstall PROVE SsInv'
<1>1. /\ ss_pc \in {"idle", "undone"} /\ ss_pc' = "idle" /\ ss_at' = "" /\ ss_lib.live = "none"
      /\ UNCHANGED <<ss_faults, ss_ok, ss_script, ss_had, ss_icon, ss_undo, ss_user, ss_first, ss_cut>>
      /\ ss_lib' = [live |-> "new", park |-> ss_lib.park, backup |-> ss_lib.backup]
  BY DEF Reinstall, Goes, NoFault, Lib, OnlyLib, history
<1>2. ss_at = "" BY <1>1 DEF SsInv, SsTypes, Rewrites
<1>3. ss_lib' \in [live : SsLibs, park : SsLibs, backup : SsLibs]
  <2>1. ss_lib.park \in SsLibs /\ ss_lib.backup \in SsLibs BY DEF SsInv, SsTypes
  <2> QED BY <1>1, <2>1 DEF SsLibs
<1>4. SsTypes' BY <1>1, <1>3 DEF SsInv, SsTypes, SsPcs
<1>5. ScriptsWhole' /\ LinesThere' /\ FirstThere' BY <1>1, <1>2, ScriptCalm
<1>6. LibraryThere' BY <1>1 DEF SsInv, LibraryThere
<1>7. UndoneSoFar' BY <1>1 DEF UndoneSoFar
<1> QED BY <1>4, <1>5, <1>6, <1>7 DEF SsInv

\* The rest of the undo script.
LEMMA UndoStacksKeeps == ASSUME SsAssumption, SsInv, UndoStacksScript PROVE SsInv'
<1>1. /\ ss_pc \in {"idle", "undone"} /\ ss_pc' = "idle" /\ ss_at' = "" /\ ss_icon' = TRUE /\ ss_undo' = FALSE
      /\ UNCHANGED <<ss_faults, ss_ok, ss_script, ss_had, ss_user, ss_first, ss_cut>>
      /\ \/ /\ ss_lib' = [live |-> ss_lib.backup, park |-> ss_lib.park, backup |-> "none"]
            /\ ss_lib.live = "none"
         \/ /\ ss_lib' = [live |-> ss_lib.park, park |-> "none", backup |-> ss_lib.backup]
            /\ ss_lib.park # "none"
         \/ ss_lib' = ss_lib
  BY DEF UndoStacksScript, Goes, NoFault, Lib, history
<1>2. ss_at = "" BY <1>1 DEF SsInv, SsTypes, Rewrites
<1>8. PICK live \in SsLibs, park \in SsLibs, backup \in SsLibs :
         ss_lib = [live |-> live, park |-> park, backup |-> backup]
  BY DEF SsInv, SsTypes
<1>9. "library" \notin ss_cut => park = "none" /\ (backup = "orig" \/ (backup = "none" /\ live = "orig"))
  BY <1>1, <1>8 DEF SsInv, LibraryThere
<1>10. "none" \in SsLibs BY DEF SsLibs
<1>3. PICK l \in SsLibs, p \in SsLibs, b \in SsLibs :
        /\ ss_lib' = [live |-> l, park |-> p, backup |-> b]
        /\ "library" \notin ss_cut => p = "none" /\ (b = "orig" \/ (b = "none" /\ l = "orig"))
  <2>1. \/ ss_lib' = [live |-> backup, park |-> park, backup |-> "none"] /\ live = "none"
        \/ ss_lib' = [live |-> park, park |-> "none", backup |-> backup] /\ park # "none"
        \/ ss_lib' = [live |-> live, park |-> park, backup |-> backup]
    BY <1>1, <1>8
  <2>2. CASE ss_lib' = [live |-> backup, park |-> park, backup |-> "none"] /\ live = "none"
    BY <1>9, <1>10, <2>2
  <2>3. CASE ss_lib' = [live |-> park, park |-> "none", backup |-> backup] /\ park # "none"
    BY <1>9, <1>10, <2>3
  <2>4. CASE ss_lib' = [live |-> live, park |-> park, backup |-> backup] BY <1>9, <2>4
  <2> QED BY <2>1, <2>2, <2>3, <2>4
<1>4. SsTypes' BY <1>1, <1>3 DEF SsInv, SsTypes, SsPcs
<1>5. ScriptsWhole' /\ LinesThere' /\ FirstThere' BY <1>1, <1>2, ScriptCalm
<1>6. LibraryThere' BY <1>1, <1>3 DEF LibraryThere
<1>7. UndoneSoFar' BY <1>1 DEF UndoneSoFar
<1> QED BY <1>4, <1>5, <1>6, <1>7 DEF SsInv

\* Every step keeps the invariant.
LEMMA SsKeeps == ASSUME SsAssumption, SsInv, [SsNext]_ssvars PROVE SsInv'
<1>1. CASE UNCHANGED ssvars
  <2>1. /\ UNCHANGED <<ss_pc, ss_at, ss_ok, ss_script, ss_had, ss_lib, ss_icon, ss_undo, ss_faults>>
        /\ UNCHANGED <<ss_user, ss_first, ss_cut>>
    BY <1>1 DEF ssvars
  <2>2. SsTypes' BY <2>1 DEF SsInv, SsTypes
  <2>3. ScriptsWhole' BY <2>1 DEF SsInv, ScriptsWhole
  <2>4. LinesThere' BY <2>1 DEF SsInv, LinesThere
  <2>5. FirstThere' BY <2>1 DEF SsInv, FirstThere, FirstLost
  <2>6. LibraryThere' BY <2>1 DEF SsInv, LibraryThere
  <2>7. UndoneSoFar' BY <2>1 DEF SsInv, UndoneSoFar, LibraryBack, IconBack
  <2> QED BY <2>2, <2>3, <2>4, <2>5, <2>6, <2>7 DEF SsInv
<1>2. CASE \E cmd \in {"apply", "undo"} : Finish(cmd) BY <1>2, FinishKeeps
<1>3. CASE \E r \in Rewrites : WriteNew(r) \/ DropPrev(r) \/ MoveOld(r) \/ MoveNew(r)
  BY <1>3, WriteNewKeeps, DropPrevKeeps, MoveOldKeeps, MoveNewKeeps
<1>4. CASE \E line \in SsLater : UserEdits(line) BY <1>4, EditKeeps
<1>5. CASE Park \/ ToBackup \/ Unpark \/ Swap BY <1>5, LibKeeps
<1> QED BY <1>1, <1>2, <1>3, <1>4, <1>5, BackupKeeps, UndoScriptKeeps, IconKeeps, PowerCutKeeps,
           UndoStacksKeeps, ReinstallKeeps DEF SsNext

\* What was there before the swap is kept.
LEMMA SsHolds == ASSUME SsAssumption, SsInv PROVE SwapReversible
<1>1. NoText \notin SsText BY DEF SsAssumption, SsText
<1>2. ss_pc \in {"idle", "undone"} /\ "script" \notin ss_cut => UserOf(ss_script.live) = ss_user
  <2>1. ss_pc \in {"idle", "undone"} => ss_at = "" BY DEF SsInv, SsTypes, Rewrites
  <2> QED BY <2>1 DEF SsInv, LinesThere
<1>3. PICK n \in Nat : n = Len(ss_first)
  <2>1. ss_first \in SsText BY DEF SsInv, SsTypes
  <2> QED BY <2>1, TextPlaces
<1>4. ASSUME NEW name \in {"live", "prev", "bak"}, KeepsFirst(ss_script[name], ss_first)
      PROVE  LET own == UserOf(ss_script[name]) IN
             Len(own) >= Len(ss_first) /\ SubSeq(own, 1, Len(ss_first)) = ss_first
  <2>1. ss_script[name] \in SsText \cup {NoText} BY DEF SsInv, SsTypes
  <2>2. PICK own \in SsText : own = UserOf(ss_script[name]) BY <1>1, <2>1, OwnText
  <2>3. Len(own) \in Nat BY DEF SsText
  <2>4. Len(ss_first) <= Len(own) /\ SubSeq(own, 1, Len(ss_first)) = ss_first BY <1>4, <2>2 DEF KeepsFirst, StartsWith
  <2>5. Len(own) >= Len(ss_first) BY <1>3, <2>3, <2>4
  <2> QED BY <2>2, <2>4, <2>5
<1>5. FirstLost \/ \E name \in {"live", "prev", "bak"} : KeepsFirst(ss_script[name], ss_first)
  <2>1. CASE ss_script.bak # NoText BY <2>1 DEF SsInv, FirstThere
  <2>2. CASE ss_script.bak = NoText /\ ss_at = "" BY <2>2, BackupFirst
  <2>3. CASE ss_script.bak = NoText /\ ss_first = <<>>
    <3>1. KeepsFirst(NoText, <<>>) BY <1>1, FirstNone
    <3>2. ss_script["bak"] = NoText BY <2>3
    <3> QED BY <2>3, <3>1, <3>2
  <2>4. CASE ss_script.bak = NoText /\ ss_at # "" /\ ss_first # <<>> /\ "script" \notin ss_cut
    <3>1. UserOf(ss_script["live"]) = ss_user \/ UserOf(ss_script["prev"]) = ss_user
      BY <2>4 DEF SsInv, LinesThere
    <3>2. StartsWith(ss_user, ss_first) BY <2>4 DEF SsInv, FirstThere
    <3> QED BY <3>1, <3>2 DEF KeepsFirst
  <2>5. CASE ss_script.bak = NoText /\ ss_at # "" /\ ss_first # <<>> /\ "script" \in ss_cut
    BY <2>5 DEF SsInv, FirstThere, FirstLost
  <2> QED BY <2>1, <2>2, <2>3, <2>4, <2>5
<1>6. UserLinesKept BY <1>2, <1>4, <1>5, Zenon DEF UserLinesKept, FirstLost
<1>7. "library" \notin ss_cut => "orig" \in {ss_lib.live, ss_lib.park, ss_lib.backup}
  BY DEF SsInv, SsTypes, SsPcs, LibraryThere
<1>8. ss_pc = "undone" /\ ss_script.live # NoText =>
         Lines(ss_script.live) \cap {"off", "BEGIN", "body"} = {}
  <2> SUFFICES ASSUME ss_pc = "undone", ss_script.live # NoText, NEW line \in {"off", "BEGIN", "body"},
                      line \in Lines(ss_script.live)
               PROVE  FALSE
    OBVIOUS
  <2>1. Lacks(ss_script.live, line) BY DEF SsInv, UndoneSoFar
  <2>2. ss_script.live \in SsText BY DEF SsInv, SsTypes
  <2>3. DOMAIN ss_script.live = 1 .. Len(ss_script.live) BY <2>2, TextPlaces
  <2> QED BY <2>1, <2>3 DEF Lacks, Lines
<1>9. ss_pc = "undone" /\ "library" \notin ss_cut =>
         ~ss_undo /\ (ss_faults > 0 \/ (ss_icon /\ ss_lib.live = "orig"))
  BY DEF SsInv, UndoneSoFar, LibraryBack, IconBack, LibraryThere
<1>10. OriginalComesBack BY <1>7, <1>8, <1>9 DEF OriginalComesBack
<1> QED BY <1>6, <1>10 DEF SwapReversible
=============================================================================
