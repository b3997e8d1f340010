-------------------------- MODULE SelectWaitProofs --------------------------
(***************************************************************************)
(* Proofs about SelectWait, for any number of clients, sockets, watched    *)
(* sets, table sizes and budgets.                                          *)
(*                                                                         *)
(* What makes the properties inductive is where a selector may watch       *)
(* something: only while its base is dead, or between a SELECT_ARM that    *)
(* armed and the SELECT_DISARM that answers it.  The entries beyond the    *)
(* table's size are free, so growing the table changes no count.           *)
(***************************************************************************)
EXTENDS SelectWait, FiniteSetTheorems, WellFoundedInduction, TLAPS

AllEntries == 0 .. SelectorsMax - 1

\* Entries that growing the table will add are free.
BeyondFree == \A i \in AllEntries : selectors[i].in_use => i \in Entries

\* An armed entry belongs to a base, and to one that is registered.
ArmedByBase == \A i \in Armed : selectors[i].base \in Bases /\ status[selectors[i].base] # "closed"

OneEach == \A i, j \in Armed : selectors[i].base = selectors[j].base => i = j

\* The places of tn_lvo_waitselect between an arm and its disarm.
ArmedPcs == {"start", "loop", "wait", "disarm"}

\* A selector that watches something belongs to a dead base or to a call that
\* has yet to disarm it.
WatchingWaits ==
    \A i \in Armed : selectors[i].watch # {} =>
        LET b == selectors[i].base IN
        status[b] = "dead" \/ (call[b].pc \in ArmedPcs /\ HasFds(b))

\* The time the client measured has passed, and a timeout is decided only when
\* the budget is spent.
ClockHonest ==
    \A b \in Bases :
       /\ call[b].measured <= call[b].elapsed
       /\ call[b].pc = "disarm" /\ call[b].wait = "timed" /\ call[b].then = "timeout" =>
             call[b].elapsed >= Budget

IInv == /\ TypeOK /\ BeyondFree /\ ArmedByBase /\ OneEach /\ WatchingWaits
        /\ CountWithinOne /\ ClockHonest

-----------------------------------------------------------------------------
\* A set of natural numbers that is not empty has a first element.
LEMMA FirstOf ==
    ASSUME NEW S, S \subseteq Nat, S # {}
    PROVE  \E i \in S : \A j \in S : i <= j
<1>1. PICK i \in S : \A j \in S : ~(<<j, i>> \in OpToRel(<, Nat))
  BY NatLessThanWellFounded, WFMin
<1>2. \A j \in S : ~(j < i) BY <1>1 DEF OpToRel
<1> QED BY <1>2

\* The table is finite and its size is max_selectors.
LEMMA TableFinite ==
    ASSUME max_selectors \in Nat
    PROVE  /\ IsFiniteSet(Entries) /\ Cardinality(Entries) = max_selectors
           /\ IsFiniteSet(Armed) /\ Cardinality(Armed) \in Nat
           /\ Armed \subseteq Entries /\ Entries \subseteq Nat
<1>1. IsFiniteSet(Entries) /\ Cardinality(Entries) = max_selectors BY FS_Interval DEF Entries
<1>2. Armed \subseteq Entries BY DEF Armed
<1>3. IsFiniteSet(Armed) BY <1>1, <1>2, FS_Subset
<1> QED BY <1>1, <1>2, <1>3, FS_CardinalityType DEF Entries

\* What the invariant says of the size of the table.
LEMMA TableSize ==
    ASSUME IInv
    PROVE  /\ max_selectors \in Nat /\ SelectorsAtStart <= max_selectors
           /\ Entries \subseteq AllEntries /\ DOMAIN selectors = AllEntries
           /\ selectors \in [AllEntries -> [in_use : BOOLEAN, base : Bases \cup {NoBase},
                                            watch : Watches \cup {{}}]]
<1>1. max_selectors \in SelectorsAtStart .. SelectorsMax BY DEF IInv, TypeOK
<1>2. max_selectors \in Nat /\ SelectorsAtStart <= max_selectors /\ Entries \subseteq AllEntries
  BY <1>1, SelectorTable DEF Entries, AllEntries
<1> QED BY <1>2 DEF IInv, TypeOK, AllEntries

\* SELECT_ARM always finds an entry: if b has none, the others cannot fill the
\* table, for each has at most one and there are fewer of them than entries.
LEMMA EntryForArm ==
    ASSUME IInv, NEW b \in Bases
    PROVE  /\ SelectorFor(b) # {}
           /\ \A i \in SelectorFor(b) :
                 /\ i \in Entries
                 /\ \A j \in Armed : selectors[j].base = b => j = i
                 /\ i \in Armed => selectors[i].base = b
<1> DEFINE own  == {i \in Armed : selectors[i].base = b}
           free == Entries \ Armed
<1>1. CASE own # {}
  <2>1. SelectorFor(b) = own BY <1>1 DEF SelectorFor
  <2> QED BY <1>1, <2>1 DEF IInv, OneEach, Armed
<1>2. CASE own = {}
  <2>1. SelectorFor(b) = {i \in free : \A j \in free : i <= j} BY <1>2 DEF SelectorFor
  <2>2. free # {}
    <3> SUFFICES ASSUME free = {} PROVE FALSE OBVIOUS
    <3>1. Armed = Entries BY DEF Armed
    <3> DEFINE others == Bases \ {b}
               f == [i \in Entries |-> selectors[i].base]
    <3>2. f \in [Entries -> others] BY <1>2, <3>1 DEF IInv, ArmedByBase
    <3>3. /\ IsFiniteSet(Bases) /\ IsFiniteSet(others)
          /\ Cardinality(others) = Cardinality(Bases) - 1 /\ Cardinality(Bases) \in Nat
      BY Descriptors, FS_RemoveElement, FS_CardinalityType
    <3>4. IsFiniteSet(Entries) /\ Cardinality(Entries) = max_selectors
      BY TableSize, TableFinite
    <3>5. Cardinality(others) < Cardinality(Entries)
      BY <3>3, <3>4, TableSize, OneSelectorEach, SelectorTable
    <3> HIDE DEF f, others
    <3>6. \E i, j \in Entries : i # j /\ f[i] = f[j]
      BY <3>2, <3>3, <3>4, <3>5, FS_PigeonHole
    <3> QED BY <3>1, <3>6 DEF f, IInv, OneEach
  <2>3. free \subseteq Nat BY DEF Entries
  <2>4. \E i \in free : \A j \in free : i <= j BY <2>2, <2>3, FirstOf
  <2> QED BY <1>2, <2>1, <2>4
<1> QED BY <1>1, <1>2

-----------------------------------------------------------------------------
CallType ==
    [pc : {"idle", "arm", "start", "loop", "wait", "disarm", "query", "rearm", "sleep"},
     watch : Watches \cup {{}}, wait : {"none", "zero", "timed", "forever"},
     elapsed : 0 .. Budget, measured : 0 .. Budget,
     then : {"none", "query", "interrupted", "timeout", "error"}, timed_out : BOOLEAN]

\* A call between its arm and its disarm, with descriptors to watch.
MayWatch(c) == c.pc \in ArmedPcs /\ c.watch # {}

HonestCall(c) ==
    /\ c.measured <= c.elapsed
    /\ c.pc = "disarm" /\ c.wait = "timed" /\ c.then = "timeout" => c.elapsed >= Budget

\* The step moves only the call of b, to one that keeps time.
CallMoves(b) ==
    /\ call' \in [Bases -> CallType]
    /\ \A a \in Bases \ {b} : call'[a] = call[a]
    /\ HonestCall(call'[b])

\* What the moves of tn_lvo_waitselect make of the call of b.
LEMMA Moves ==
    ASSUME IInv, NEW b \in Bases
    PROVE  /\ \A pc \in {"start", "loop", "wait"} :
                 Goto(b, pc) => /\ CallMoves(b) /\ call'[b].pc = pc
                                /\ call'[b].watch = call[b].watch
                                /\ call'[b].wait = call[b].wait
           /\ Query(b) => CallMoves(b) /\ call'[b].pc = "query"
           /\ Again(b) => CallMoves(b) /\ call'[b].pc = "rearm"
           /\ \A r \in {"none", "ready", "timeout", "interrupted", "error"} :
                 Return(b, r) => /\ CallMoves(b) /\ call'[b].pc = "idle"
                                 /\ call'[b].timed_out => r = "timeout"
<1>1. call \in [Bases -> CallType] BY DEF IInv, TypeOK, CallType
<1>2. HonestCall(call[b]) BY DEF IInv, ClockHonest, HonestCall
<1>3. ASSUME NEW pc \in {"start", "loop", "wait"}, Goto(b, pc)
      PROVE  /\ CallMoves(b) /\ call'[b].pc = pc /\ call'[b].watch = call[b].watch
             /\ call'[b].wait = call[b].wait
  <2>1. call' = [call EXCEPT ![b] = [call[b] EXCEPT !.pc = pc]] BY <1>1, <1>3 DEF Goto
  <2> QED BY <1>1, <1>2, <2>1 DEF CallMoves, HonestCall, CallType
<1>4. ASSUME Query(b) PROVE CallMoves(b) /\ call'[b].pc = "query"
  <2>1. PICK e \in 0 .. Budget : e = call[b].elapsed BY <1>1 DEF CallType
  <2>2. call' = [call EXCEPT ![b] = [call[b] EXCEPT !.pc = "query", !.measured = e]]
    BY <1>1, <1>4, <2>1 DEF Query
  <2>3. [call[b] EXCEPT !.pc = "query", !.measured = e] \in CallType BY <1>1 DEF CallType
  <2>4. e <= e BY TimeBudget
  <2>5. HonestCall([call[b] EXCEPT !.pc = "query", !.measured = e])
    BY <1>1, <2>1, <2>4 DEF HonestCall, CallType
  <2> QED BY <1>1, <2>2, <2>3, <2>5 DEF CallMoves, CallType
<1>5. ASSUME Again(b) PROVE CallMoves(b) /\ call'[b].pc = "rearm"
  <2>1. call' = [call EXCEPT ![b] = [call[b] EXCEPT !.pc = "rearm", !.measured = 0]]
    BY <1>1, <1>5 DEF Again
  <2>2. call[b].elapsed >= 0 /\ 0 \in 0 .. Budget BY <1>1, TimeBudget DEF CallType
  <2> QED BY <1>1, <1>2, <2>1, <2>2 DEF CallMoves, HonestCall, CallType
<1>6. ASSUME NEW r \in {"none", "ready", "timeout", "interrupted", "error"}, Return(b, r)
      PROVE  CallMoves(b) /\ call'[b].pc = "idle" /\ (call'[b].timed_out => r = "timeout")
  <2>1. NoCall(r) \in CallType /\ HonestCall(NoCall(r)) /\ NoCall(r).pc = "idle"
        /\ NoCall(r).timed_out = (r = "timeout")
    BY TimeBudget DEF NoCall, CallType, HonestCall
  <2>2. call' = [call EXCEPT ![b] = NoCall(r)] BY <1>6 DEF Return
  <2> QED BY <1>1, <2>1, <2>2 DEF CallMoves
<1> QED BY <1>3, <1>4, <1>5, <1>6

\* DisarmThen keeps the call between arm and disarm when it has descriptors, and
\* a timeout it announces must be due.
LEMMA DisarmThenMoves ==
    ASSUME IInv, NEW b \in Bases, NEW then \in {"query", "interrupted", "timeout", "error"},
           DisarmThen(b, then),
           then = "timeout" /\ call[b].wait = "timed" => call[b].elapsed >= Budget
    PROVE  /\ CallMoves(b)
           /\ HasFds(b) => MayWatch(call'[b])
           /\ call'[b].pc = "idle" /\ call'[b].timed_out => then = "timeout"
<1>1. call \in [Bases -> CallType] BY DEF IInv, TypeOK, CallType
<1>2. HonestCall(call[b]) BY DEF IInv, ClockHonest, HonestCall
<1>3. CASE HasFds(b)
  <2>1. call' = [call EXCEPT ![b] = [call[b] EXCEPT !.pc = "disarm", !.then = then]]
    BY <1>1, <1>3 DEF DisarmThen
  <2>2. CallMoves(b) BY <1>1, <1>2, <2>1 DEF CallMoves, HonestCall, CallType
  <2>3. call'[b].pc = "disarm" /\ call'[b].watch # {}
    BY <1>1, <1>3, <2>1 DEF HasFds, CallType
  <2> QED BY <2>2, <2>3 DEF MayWatch, ArmedPcs
<1>4. CASE ~HasFds(b) /\ then = "query"
  <2>1. Query(b) BY <1>4 DEF DisarmThen
  <2> QED BY <1>4, <2>1, Moves
<1>5. CASE ~HasFds(b) /\ then # "query"
  <2>1. Return(b, then) BY <1>5 DEF DisarmThen
  <2> QED BY <1>5, <2>1, Moves
<1> QED BY <1>3, <1>4, <1>5

-----------------------------------------------------------------------------
\* A step that moves the call of a running client and leaves the table alone
\* keeps the invariant, if a call that may watch goes on to one that may.
LEMMA CallStep ==
    ASSUME IInv, NEW b \in Bases, CallMoves(b),
           UNCHANGED <<selectors, max_selectors, selector_count, ready, status>>,
           sigs' \in [Bases -> SUBSET (Interrupts \cup {"select"})],
           MayWatch(call[b]) => MayWatch(call'[b])
    PROVE  IInv'
<1>1. TypeOK' BY DEF IInv, TypeOK, CallMoves, CallType
<1>2. BeyondFree' /\ ArmedByBase' /\ OneEach' /\ CountWithinOne'
  BY DEF IInv, BeyondFree, ArmedByBase, OneEach, CountWithinOne, Armed, Entries
<1>3. WatchingWaits'
  BY DEF IInv, ArmedByBase, WatchingWaits, MayWatch, HasFds, CallMoves, Armed, Entries
<1>4. ClockHonest' BY DEF IInv, ClockHonest, CallMoves, HonestCall
<1> QED BY <1>1, <1>2, <1>3, <1>4 DEF IInv

\* SELECT_ARM: b's entry, or the first free one, is armed for b.  The counter,
\* recomputed before the entry is marked, is right or one short.
LEMMA ArmStep ==
    ASSUME IInv, NEW b \in Bases, status[b] = "open", NEW i \in SelectorFor(b),
           NEW watch \in Watches \cup {{}}, ArmSelector(b, watch, i),
           UNCHANGED <<max_selectors, ready, sigs, status>>,
           CallMoves(b), watch # {} => MayWatch(call'[b])
    PROVE  IInv'
<1> DEFINE entry == [in_use |-> TRUE, base |-> b, watch |-> watch]
<1>1. /\ i \in Entries /\ i \in AllEntries
      /\ \A j \in Armed : selectors[j].base = b => j = i
      /\ i \in Armed => selectors[i].base = b
  BY EntryForArm, TableSize
<1>2. selectors' = [selectors EXCEPT ![i] = entry] /\ selector_count' = Cardinality(Armed)
  BY DEF ArmSelector, Counted, Armed
<1>3. selectors'[i] = entry /\ \A j \in AllEntries \ {i} : selectors'[j] = selectors[j]
  BY <1>1, <1>2, TableSize
<1>4. Armed' = Armed \cup {i}
  <2>1. Entries' = Entries BY DEF Entries
  <2>2. \A j \in Entries : selectors'[j].in_use <=> j = i \/ selectors[j].in_use
    BY <1>1, <1>3, TableSize
  <2> QED BY <1>1, <2>1, <2>2 DEF Armed
<1>5. Cardinality(Armed') \in {Cardinality(Armed), Cardinality(Armed) + 1}
      /\ Cardinality(Armed) \in Nat
  BY <1>4, TableSize, TableFinite, FS_AddElement
<1>6. CountWithinOne' BY <1>2, <1>5 DEF CountWithinOne
<1>7. TypeOK'
  <2>1. selectors' \in [AllEntries -> [in_use : BOOLEAN, base : Bases \cup {NoBase},
                                       watch : Watches \cup {{}}]]
    BY <1>1, <1>2, TableSize
  <2> QED BY <1>2, <1>5, <2>1 DEF IInv, TypeOK, CallMoves, CallType, AllEntries
<1>8. BeyondFree' BY <1>1, <1>3 DEF IInv, BeyondFree, Entries
<1>9. \A j \in Armed' : j # i => j \in Armed /\ selectors'[j] = selectors[j]
                                  /\ selectors[j].base # b
  BY <1>1, <1>3, <1>4, TableSize, TableFinite
<1>10. ArmedByBase' BY <1>3, <1>9 DEF IInv, ArmedByBase
<1>11. OneEach' BY <1>3, <1>9 DEF IInv, OneEach
<1>12. WatchingWaits'
  BY <1>3, <1>9 DEF IInv, ArmedByBase, WatchingWaits, MayWatch, HasFds, CallMoves
<1>13. ClockHonest' BY DEF IInv, ClockHonest, CallMoves, HonestCall
<1> QED BY <1>6, <1>7, <1>8, <1>10, <1>11, <1>12, <1>13 DEF IInv

\* Freeing the entries of b: at most one, and nothing else changes in the table.
LEMMA OwnFreed ==
    ASSUME IInv, NEW b \in Bases, UNCHANGED max_selectors,
           NEW own, own = {i \in Armed : selectors[i].base = b},
           selectors' = [i \in DOMAIN selectors |-> IF i \in own THEN Free ELSE selectors[i]]
    PROVE  /\ selectors' \in [AllEntries -> [in_use : BOOLEAN, base : Bases \cup {NoBase},
                                             watch : Watches \cup {{}}]]
           /\ Armed' = Armed \ own
           /\ \A i \in Armed' : i \in Armed /\ selectors'[i] = selectors[i]
                                /\ selectors[i].base # b
           /\ BeyondFree' /\ OneEach'
           /\ Cardinality(own) \in {0, 1} /\ (own = {} => Cardinality(own) = 0)
           /\ Cardinality(Armed') = Cardinality(Armed) - Cardinality(own)
           /\ Cardinality(Armed) \in Nat /\ Cardinality(Armed') \in Nat
           /\ own = {} => selectors' = selectors
<1>1. own \subseteq Armed /\ Armed \subseteq AllEntries BY TableSize, TableFinite
<1>2. /\ selectors' \in [AllEntries -> [in_use : BOOLEAN, base : Bases \cup {NoBase},
                                       watch : Watches \cup {{}}]]
      /\ \A i \in AllEntries : selectors'[i] = IF i \in own THEN Free ELSE selectors[i]
  BY TableSize DEF Free
<1>3. Armed' = Armed \ own
  <2>1. Entries' = Entries BY DEF Entries
  <2>2. \A i \in Entries : selectors'[i].in_use <=> i \notin own /\ selectors[i].in_use
    BY <1>2, TableSize DEF Free
  <2> QED BY <1>1, <2>1, <2>2 DEF Armed
<1>4. \A i \in Armed' : i \in Armed /\ selectors'[i] = selectors[i] /\ selectors[i].base # b
  BY <1>1, <1>2, <1>3
<1>5. BeyondFree'
  <2>1. \A i \in AllEntries : selectors'[i].in_use => selectors[i].in_use
    BY <1>2 DEF Free
  <2> QED BY <2>1 DEF IInv, BeyondFree, Entries
<1>6. OneEach' BY <1>4 DEF IInv, OneEach
<1>7. Cardinality(own) \in {0, 1} /\ (own = {} => Cardinality(own) = 0)
  <2>1. CASE own = {} BY <2>1, FS_EmptySet
  <2>2. ASSUME NEW i \in own PROVE Cardinality(own) = 1 /\ own # {}
    <3>1. own = {i} BY <2>2 DEF IInv, OneEach
    <3> QED BY <3>1, FS_Singleton
  <2> QED BY <2>1, <2>2
<1>8. Cardinality(Armed \ own) = Cardinality(Armed) - Cardinality(own)
      /\ Cardinality(Armed) \in Nat /\ Cardinality(Armed \ own) \in Nat
  <2>1. IsFiniteSet(Armed) /\ IsFiniteSet(own) BY <1>1, TableSize, TableFinite, FS_Subset
  <2>2. Armed \cap own = own BY <1>1
  <2>3. Cardinality(Armed \ own) = Cardinality(Armed) - Cardinality(Armed \cap own)
        /\ IsFiniteSet(Armed \ own)
    BY <2>1, FS_Difference
  <2> QED BY <2>1, <2>2, <2>3, FS_CardinalityType
<1>9. own = {} => selectors' = selectors BY <1>2, TableSize
<1> QED BY <1>2, <1>3, <1>4, <1>5, <1>6, <1>7, <1>8, <1>9

\* SELECT_DISARM frees b's entry and recounts.
LEMMA DisarmStep ==
    ASSUME IInv, NEW b \in Bases, tn_ipc_cmd_select_disarm(b),
           UNCHANGED <<max_selectors, ready, sigs, status>>, CallMoves(b)
    PROVE  IInv'
<1> DEFINE own == {i \in Armed : selectors[i].base = b}
<1>1. selectors' = [i \in DOMAIN selectors |-> IF i \in own THEN Free ELSE selectors[i]]
  BY DEF tn_ipc_cmd_select_disarm
<1>2. selector_count' = IF own = {} THEN selector_count ELSE Counted(selectors')
  BY <1>1 DEF tn_ipc_cmd_select_disarm
<1>3. Counted(selectors') = Cardinality(Armed') BY DEF Counted, Armed, Entries
<1> HIDE DEF own
<1>4. /\ selectors' \in [AllEntries -> [in_use : BOOLEAN, base : Bases \cup {NoBase},
                                       watch : Watches \cup {{}}]]
      /\ \A i \in Armed' : i \in Armed /\ selectors'[i] = selectors[i]
                           /\ selectors[i].base # b
      /\ BeyondFree' /\ OneEach'
      /\ own = {} => Cardinality(own) = 0
      /\ Cardinality(Armed') = Cardinality(Armed) - Cardinality(own)
      /\ Cardinality(Armed) \in Nat /\ Cardinality(Armed') \in Nat
  BY <1>1, OwnFreed DEF own
<1>5. TypeOK' BY <1>2, <1>3, <1>4 DEF IInv, TypeOK, CallMoves, CallType, AllEntries
<1>6. CountWithinOne'
  <2>1. CASE own = {}
    BY <1>2, <1>4, <2>1 DEF IInv, CountWithinOne
  <2>2. CASE own # {} BY <1>2, <1>3, <2>2 DEF CountWithinOne
  <2> QED BY <2>1, <2>2
<1>7. ArmedByBase' BY <1>4 DEF IInv, ArmedByBase
<1>8. WatchingWaits' BY <1>4 DEF IInv, ArmedByBase, WatchingWaits, HasFds, CallMoves
<1>9. ClockHonest' BY DEF IInv, ClockHonest, CallMoves, HonestCall
<1> QED BY <1>4, <1>5, <1>6, <1>7, <1>8, <1>9 DEF IInv

\* CLOSE, by the client or for a dead one, frees b's entry and counts down.
LEMMA CloseStep ==
    ASSUME IInv, NEW b \in Bases, Close(b)
    PROVE  IInv'
<1> DEFINE own == {i \in Armed : selectors[i].base = b}
<1>1. selectors' = [i \in DOMAIN selectors |-> IF i \in own THEN Free ELSE selectors[i]]
      /\ UNCHANGED <<max_selectors, ready>> /\ status' = [status EXCEPT ![b] = "closed"]
      /\ sigs' = [sigs EXCEPT ![b] = {}] /\ Return(b, "none")
  BY DEF Close, tn_selector_disarm_all_for_base, Return
<1>2. selector_count' = IF selector_count > Cardinality(own)
                        THEN selector_count - Cardinality(own) ELSE 0
  BY DEF Close, tn_selector_disarm_all_for_base
<1> HIDE DEF own
<1>3. CallMoves(b) BY <1>1, Moves
<1>4. /\ selectors' \in [AllEntries -> [in_use : BOOLEAN, base : Bases \cup {NoBase},
                                       watch : Watches \cup {{}}]]
      /\ \A i \in Armed' : i \in Armed /\ selectors'[i] = selectors[i]
                           /\ selectors[i].base # b
      /\ BeyondFree' /\ OneEach'
      /\ Cardinality(own) \in {0, 1}
      /\ Cardinality(Armed') = Cardinality(Armed) - Cardinality(own)
      /\ Cardinality(Armed) \in Nat /\ Cardinality(Armed') \in Nat
  BY <1>1, OwnFreed DEF own
<1>5. selector_count \in Nat /\ selector_count \in {Cardinality(Armed) - 1, Cardinality(Armed)}
  BY DEF IInv, TypeOK, CountWithinOne
<1>6. selector_count' \in Nat
      /\ selector_count' \in {Cardinality(Armed') - 1, Cardinality(Armed')}
  BY <1>2, <1>4, <1>5
<1>7. TypeOK'
  BY <1>1, <1>3, <1>4, <1>6 DEF IInv, TypeOK, CallMoves, CallType, AllEntries
<1>8. CountWithinOne' BY <1>6 DEF CountWithinOne
<1>9. ArmedByBase' BY <1>1, <1>4 DEF IInv, TypeOK, ArmedByBase
<1>10. WatchingWaits'
  <2>1. \A a \in Bases \ {b} : status'[a] = status[a] /\ call'[a] = call[a]
    BY <1>1, <1>3 DEF IInv, TypeOK, CallMoves
  <2>2. \A i \in Armed' : i \in Armed /\ selectors'[i] = selectors[i]
                          /\ selectors[i].base \in Bases \ {b}
    BY <1>4 DEF IInv, ArmedByBase
  <2> QED BY <2>1, <2>2 DEF IInv, WatchingWaits, HasFds
<1>11. ClockHonest' BY <1>3 DEF IInv, ClockHonest, CallMoves, HonestCall
<1> QED BY <1>4, <1>7, <1>8, <1>9, <1>10, <1>11 DEF IInv

\* Steps of the daemon and of the world outside that touch no call.
LEMMA GrowStep == ASSUME IInv, tn_selector_table_grow PROVE IInv'
<1>1. max_selectors' = SelectorsMax /\ max_selectors < SelectorsMax
      /\ UNCHANGED <<selectors, selector_count, ready, sigs, call, status>>
  BY DEF tn_selector_table_grow
<1>2. Entries \subseteq Entries' /\ Entries' = AllEntries
  BY <1>1, TableSize, SelectorTable DEF Entries, AllEntries
<1>3. Armed' = Armed
  <2>1. \A i \in Entries' : selectors[i].in_use => i \in Entries BY <1>2 DEF IInv, BeyondFree
  <2> QED BY <1>1, <1>2, <2>1 DEF Armed
<1>4. TypeOK' BY <1>1, SelectorTable DEF IInv, TypeOK
<1>5. BeyondFree' BY <1>1, <1>2 DEF IInv, BeyondFree
<1>6. ArmedByBase' /\ OneEach' /\ CountWithinOne'
  BY <1>1, <1>3 DEF IInv, ArmedByBase, OneEach, CountWithinOne
<1>7. WatchingWaits' BY <1>1, <1>3 DEF IInv, WatchingWaits, HasFds
<1>8. ClockHonest' BY <1>1 DEF IInv, ClockHonest
<1> QED BY <1>4, <1>5, <1>6, <1>7, <1>8 DEF IInv

\* No entry is stale (its base closed), so tn_signal_socket frees none.
LEMMA SignalKeepsTable ==
    ASSUME IInv, NEW s, NEW r, tn_signal_socket(s, r)
    PROVE  /\ UNCHANGED <<selectors, selector_count>>
           /\ sigs' \in [Bases -> SUBSET (Interrupts \cup {"select"})]
<1>1. sigs \in [Bases -> SUBSET (Interrupts \cup {"select"})] BY DEF IInv, TypeOK
<1>2. {i \in Armed : ~tn_selector_base_alive(selectors[i].base)} = {}
  BY DEF IInv, ArmedByBase, tn_selector_base_alive
<1>3. CASE selector_count = 0 BY <1>1, <1>3 DEF tn_signal_socket
<1>4. CASE selector_count # 0
  <2>1. selectors' = [i \in DOMAIN selectors |-> selectors[i]] /\ selector_count' = selector_count
    BY <1>2, <1>4 DEF tn_signal_socket
  <2>2. \E woken : sigs' = [b \in Bases |-> IF b \in woken THEN sigs[b] \cup {"select"}
                                                          ELSE sigs[b]]
    BY <1>4 DEF tn_signal_socket
  <2>3. selectors' = selectors BY <2>1, TableSize
  <2> QED BY <1>1, <2>1, <2>2, <2>3
<1> QED BY <1>3, <1>4

\* A step that changes neither the table nor a call, and in the registry at most
\* adds a base, keeps the invariant.
LEMMA WorldStep ==
    ASSUME IInv, UNCHANGED <<selectors, max_selectors, selector_count, call>>,
           ready' \in [Slots -> SUBSET Kinds],
           sigs' \in [Bases -> SUBSET (Interrupts \cup {"select"})],
           status' \in [Bases -> {"closed", "open", "dead"}],
           \A b \in Bases : status[b] # "closed" => status'[b] = status[b]
    PROVE  IInv'
<1>1. TypeOK' BY DEF IInv, TypeOK
<1>2. Armed' = Armed /\ Entries' = Entries BY DEF Armed, Entries
<1>3. BeyondFree' /\ OneEach' /\ CountWithinOne'
  BY <1>2 DEF IInv, BeyondFree, OneEach, CountWithinOne
<1>4. ArmedByBase' BY <1>2 DEF IInv, ArmedByBase
<1>5. WatchingWaits' BY <1>2 DEF IInv, ArmedByBase, WatchingWaits, HasFds
<1>6. ClockHonest' BY DEF IInv, ClockHonest
<1> QED BY <1>1, <1>3, <1>4, <1>5, <1>6 DEF IInv

\* Time passes for the timed calls.
LEMMA TickStep == ASSUME IInv, Tick PROVE IInv'
<1>1. call \in [Bases -> CallType] BY DEF IInv, TypeOK, CallType
<1>2. UNCHANGED <<selectors, max_selectors, selector_count, ready, sigs, status>> BY DEF Tick
<1>3. ASSUME NEW b \in Bases
      PROVE  /\ call'[b] \in CallType
             /\ call'[b].pc = call[b].pc /\ call'[b].watch = call[b].watch
             /\ HonestCall(call'[b])
  <2>1. call[b] \in CallType /\ HonestCall(call[b])
    BY <1>1 DEF IInv, ClockHonest, HonestCall
  <2>2. CASE b \in Timed
    <3>1. call'[b] = [call[b] EXCEPT !.elapsed = @ + 1] /\ call[b].elapsed < Budget
      BY <2>2 DEF Tick, Timed
    <3>2. call[b].elapsed + 1 \in 0 .. Budget BY <2>1, <3>1, TimeBudget DEF CallType
    <3>3. call[b].elapsed \in Int /\ call[b].measured \in Int BY <2>1, TimeBudget DEF CallType
    <3> QED BY <2>1, <3>1, <3>2, <3>3, TimeBudget DEF CallType, HonestCall
  <2>3. CASE b \notin Timed
    <3>1. call'[b] = call[b] BY <2>3 DEF Tick
    <3> QED BY <2>1, <3>1
  <2> QED BY <2>2, <2>3
<1>4. call' \in [Bases -> CallType] BY <1>3 DEF Tick
<1>5. TypeOK' BY <1>2, <1>4 DEF IInv, TypeOK, CallType
<1>6. Armed' = Armed /\ Entries' = Entries BY <1>2 DEF Armed, Entries
<1>7. BeyondFree' /\ OneEach' /\ CountWithinOne' /\ ArmedByBase'
  BY <1>2, <1>6 DEF IInv, BeyondFree, OneEach, CountWithinOne, ArmedByBase
<1>8. WatchingWaits' BY <1>2, <1>3, <1>6 DEF IInv, ArmedByBase, WatchingWaits, HasFds
<1>9. ClockHonest' BY <1>3 DEF ClockHonest, HonestCall
<1> QED BY <1>5, <1>7, <1>8, <1>9 DEF IInv

\* A death resets the call and leaves the selector armed, for a base that is dead.
LEMMA DieStep == ASSUME IInv, NEW b \in Bases, TaskDies(b) PROVE IInv'
<1>1. /\ status' = [status EXCEPT ![b] = "dead"] /\ Return(b, "none")
      /\ sigs' = [sigs EXCEPT ![b] = {}]
      /\ UNCHANGED <<selectors, max_selectors, selector_count, ready>>
  BY DEF TaskDies, Return
<1>2. CallMoves(b) BY <1>1, Moves
<1>3. TypeOK' BY <1>1, <1>2 DEF IInv, TypeOK, CallMoves, CallType
<1>4. Armed' = Armed /\ Entries' = Entries BY <1>1 DEF Armed, Entries
<1>5. BeyondFree' /\ OneEach' /\ CountWithinOne'
  BY <1>1, <1>4 DEF IInv, BeyondFree, OneEach, CountWithinOne
<1>6. status'[b] = "dead" /\ \A a \in Bases \ {b} : status'[a] = status[a] /\ call'[a] = call[a]
  BY <1>1, <1>2 DEF IInv, TypeOK, CallMoves
<1>7. ArmedByBase' BY <1>1, <1>4, <1>6 DEF IInv, ArmedByBase
<1>8. WatchingWaits' BY <1>1, <1>4, <1>6 DEF IInv, ArmedByBase, WatchingWaits, HasFds
<1>9. ClockHonest' BY <1>2 DEF IInv, ClockHonest, CallMoves, HonestCall
<1> QED BY <1>3, <1>5, <1>7, <1>8, <1>9 DEF IInv

-----------------------------------------------------------------------------
\* Entering WaitSelect: no selector of an idle base watches, and none is armed yet.
LEMMA EnterStep ==
    ASSUME IInv, NEW b \in Bases, NEW watch \in Watches,
           NEW wait \in {"zero", "timed", "forever"}, tn_lvo_waitselect(b, watch, wait)
    PROVE  IInv'
<1>1. /\ UNCHANGED <<selectors, max_selectors, selector_count, ready, status>>
      /\ call[b].pc = "idle"
  BY DEF tn_lvo_waitselect, At
<1>2. sigs' \in [Bases -> SUBSET (Interrupts \cup {"select"})]
  <2>1. sigs \in [Bases -> SUBSET (Interrupts \cup {"select"})] BY DEF IInv, TypeOK
  <2> QED BY <2>1 DEF tn_lvo_waitselect
<1>3. ~MayWatch(call[b]) BY <1>1 DEF MayWatch, ArmedPcs
<1>4. CallMoves(b)
  <2>1. CASE \E r \in {"interrupted", "timeout"} : Return(b, r) BY <2>1, Moves
  <2>2. CASE ~\E r \in {"interrupted", "timeout"} : Return(b, r)
    <3>1. PICK pc \in {"arm", "sleep", "start"} :
            call' = [call EXCEPT ![b] = [NoCall("none") EXCEPT !.pc = pc, !.watch = watch,
                                                               !.wait = wait]]
      BY <2>2 DEF tn_lvo_waitselect
    <3>2. call \in [Bases -> CallType] BY DEF IInv, TypeOK, CallType
    <3>3. NoCall("none") \in CallType /\ HonestCall(NoCall("none"))
      BY TimeBudget DEF NoCall, CallType, HonestCall
    <3>4. [NoCall("none") EXCEPT !.pc = pc, !.watch = watch, !.wait = wait] \in CallType
          /\ HonestCall([NoCall("none") EXCEPT !.pc = pc, !.watch = watch, !.wait = wait])
      BY <3>3 DEF CallType, HonestCall
    <3> QED BY <3>1, <3>2, <3>4 DEF CallMoves
  <2> QED BY <2>1, <2>2
<1> QED BY <1>1, <1>2, <1>3, <1>4, CallStep

\* SELECT_ARM is refused only for a bad descriptor, and never leaves one armed.
LEMMA ArmRequestStep ==
    ASSUME IInv, NEW b \in Bases, tn_ipc_cmd_select_arm(b)
    PROVE  IInv'
<1> DEFINE c == call[b]
<1>1. /\ status[b] = "open" /\ c.pc \in {"arm", "rearm"}
      /\ UNCHANGED <<max_selectors, ready, sigs, status>>
  BY DEF tn_ipc_cmd_select_arm, At
<1>2. ~MayWatch(c) BY <1>1 DEF MayWatch, ArmedPcs
<1>3. sigs' \in [Bases -> SUBSET (Interrupts \cup {"select"})] BY <1>1 DEF IInv, TypeOK
<1>4. SelectorFor(b) # {} BY EntryForArm
<1>5. c.watch \in Watches \cup {{}} /\ c \in CallType BY DEF IInv, TypeOK, CallType
<1>6. CASE ArmRefused(b)
  <2>1. CallMoves(b)
    <3>1. CASE c.pc = "arm"
      <4>1. DisarmThen(b, "error") BY <1>6, <3>1 DEF ArmRefused
      <4> QED BY <4>1, DisarmThenMoves
    <3>2. CASE c.pc # "arm" BY <1>6, <3>2, Moves DEF ArmRefused
    <3> QED BY <3>1, <3>2
  <2>2. UNCHANGED <<selectors, selector_count>> BY <1>6 DEF ArmRefused
  <2> QED BY <1>1, <1>2, <1>3, <2>1, <2>2, CallStep
<1>7. CASE Return(b, "ready") /\ UNCHANGED <<selectors, selector_count>>
  BY <1>1, <1>2, <1>3, <1>7, Moves, CallStep
<1>8. CASE ~ArmRefused(b) /\ ~(Return(b, "ready") /\ UNCHANGED <<selectors, selector_count>>)
  <2>1. PICK i \in SelectorFor(b) : ArmSelector(b, c.watch, i)
    BY <1>8 DEF tn_ipc_cmd_select_arm
  <2>2. CallMoves(b) /\ (c.watch # {} => MayWatch(call'[b]))
    <3>1. CASE c.pc = "rearm"
      <4>1. Goto(b, "loop") BY <1>4, <1>8, <3>1 DEF tn_ipc_cmd_select_arm
      <4> QED BY <4>1, Moves DEF MayWatch, ArmedPcs
    <3>2. CASE c.pc # "rearm" /\ c.wait = "zero"
      <4>1. DisarmThen(b, "timeout") BY <1>4, <1>8, <3>2 DEF tn_ipc_cmd_select_arm
      <4> QED BY <3>2, <4>1, DisarmThenMoves DEF HasFds
    <3>3. CASE c.pc # "rearm" /\ c.wait # "zero"
      <4>1. Goto(b, "start") BY <1>4, <1>8, <3>3 DEF tn_ipc_cmd_select_arm
      <4> QED BY <4>1, Moves DEF MayWatch, ArmedPcs
    <3> QED BY <3>1, <3>2, <3>3
  <2> QED BY <1>1, <1>5, <2>1, <2>2, ArmStep
<1> QED BY <1>6, <1>7, <1>8

\* The steps of a client in WaitSelect, and of the daemon on its behalf.
LEMMA ProgressStep == ASSUME IInv, NEW b \in Bases, Progress(b) PROVE IInv'
<1>1. sigs \in [Bases -> SUBSET (Interrupts \cup {"select"})] BY DEF IInv, TypeOK
<1>2. ASSUME CallMoves(b),
             UNCHANGED <<selectors, max_selectors, selector_count, ready, status>>,
             \E gone : sigs' = [sigs EXCEPT ![b] = @ \ gone],
             MayWatch(call[b]) => MayWatch(call'[b])
      PROVE  IInv'
  BY <1>1, <1>2, CallStep
<1>3. ASSUME UNCHANGED sigs PROVE \E gone : sigs' = [sigs EXCEPT ![b] = @ \ gone]
  <2>1. sigs' = [sigs EXCEPT ![b] = @ \ {}] BY <1>1, <1>3
  <2> QED BY <2>1
<1>4. CASE Sleep(b)
  <2>1. ~MayWatch(call[b]) BY <1>4 DEF Sleep, At, MayWatch, ArmedPcs
  <2> QED BY <1>2, <1>3, <1>4, <2>1, Moves DEF Sleep
<1>5. CASE tn_ipc_cmd_select_arm(b) BY <1>5, ArmRequestStep
<1>6. CASE StartWaiting(b)
  <2>1. UNCHANGED <<selectors, max_selectors, selector_count, ready, sigs, status>>
    BY <1>6 DEF StartWaiting
  <2>2. CASE DisarmThen(b, "error")
    BY <1>2, <1>3, <2>1, <2>2, DisarmThenMoves DEF MayWatch, HasFds
  <2>3. CASE Goto(b, "wait")
    BY <1>2, <1>3, <2>1, <2>3, Moves DEF MayWatch, ArmedPcs
  <2> QED BY <1>6, <2>2, <2>3 DEF StartWaiting
<1>7. CASE Loop(b)
  <2>1. UNCHANGED <<selectors, max_selectors, selector_count, ready, sigs, status>>
    BY <1>7 DEF Loop
  <2>2. CASE call[b].wait = "timed" /\ call[b].elapsed >= Budget
    <3>1. DisarmThen(b, "timeout") BY <1>7, <2>2 DEF Loop
    <3> QED BY <1>2, <1>3, <2>1, <2>2, <3>1, DisarmThenMoves DEF MayWatch, HasFds
  <2>3. CASE ~(call[b].wait = "timed" /\ call[b].elapsed >= Budget)
    <3>1. Goto(b, "wait") BY <1>7, <2>3 DEF Loop
    <3> QED BY <1>2, <1>3, <2>1, <3>1, Moves DEF MayWatch, ArmedPcs
  <2> QED BY <2>2, <2>3
<1>8. CASE Wake(b)
  <2>1. UNCHANGED <<selectors, max_selectors, selector_count, ready, status>>
        /\ \E gone : sigs' = [sigs EXCEPT ![b] = @ \ gone]
    BY <1>8 DEF Wake
  <2>2. PICK then \in {"interrupted", "query"} : DisarmThen(b, then) BY <1>8 DEF Wake
  <2> QED BY <1>2, <2>1, <2>2, DisarmThenMoves DEF MayWatch, HasFds
<1>9. CASE Disarm(b)
  <2>1. call[b].then \in {"none", "query", "interrupted", "timeout", "error"}
    BY DEF IInv, TypeOK
  <2>2. CallMoves(b) BY <1>9, <2>1, Moves DEF Disarm
  <2> QED BY <1>9, <2>2, DisarmStep DEF Disarm
<1>10. CASE tn_ipc_cmd_waitselect(b)
  <2>1. ~MayWatch(call[b]) BY <1>10 DEF tn_ipc_cmd_waitselect, At, MayWatch, ArmedPcs
  <2>2. CallMoves(b) BY <1>10, Moves DEF tn_ipc_cmd_waitselect
  <2> QED BY <1>2, <1>3, <1>10, <2>1, <2>2 DEF tn_ipc_cmd_waitselect
<1> QED BY <1>4, <1>5, <1>6, <1>7, <1>8, <1>9, <1>10 DEF Progress

\* The invariant holds of the empty table.
LEMMA InitIInv == ASSUME Init PROVE IInv
<1>1. SelectorsAtStart \in SelectorsAtStart .. SelectorsMax BY SelectorTable
<1>2. NoCall("none") \in CallType /\ HonestCall(NoCall("none")) /\ NoCall("none").pc = "idle"
  BY TimeBudget DEF NoCall, CallType, HonestCall
<1>3. TypeOK BY <1>1, <1>2 DEF Init, TypeOK, Free, CallType
<1>4. Entries \subseteq AllEntries BY SelectorTable DEF Init, Entries, AllEntries
<1>5. \A i \in AllEntries : ~selectors[i].in_use BY DEF Init, Free, AllEntries
<1>6. Armed = {} BY <1>4, <1>5 DEF Armed
<1>7. CountWithinOne BY <1>6, FS_EmptySet DEF Init, CountWithinOne
<1>8. BeyondFree /\ ArmedByBase /\ OneEach /\ WatchingWaits
  BY <1>5, <1>6 DEF BeyondFree, ArmedByBase, OneEach, WatchingWaits
<1>9. ClockHonest BY <1>2 DEF Init, ClockHonest, HonestCall
<1> QED BY <1>3, <1>7, <1>8, <1>9 DEF IInv

\* Every step keeps the invariant.
LEMMA NextIInv == ASSUME IInv, [Next]_vars PROVE IInv'
<1>1. /\ sigs \in [Bases -> SUBSET (Interrupts \cup {"select"})]
      /\ ready \in [Slots -> SUBSET Kinds]
      /\ status \in [Bases -> {"closed", "open", "dead"}]
  BY DEF IInv, TypeOK
<1>2. CASE UNCHANGED vars BY <1>1, <1>2, WorldStep DEF vars
<1>3. CASE tn_selector_table_grow BY <1>3, GrowStep
<1>4. CASE Tick BY <1>4, TickStep
<1>5. ASSUME NEW s \in Slots, NEW k \in Kinds, SocketEvent(s, k) PROVE IInv'
  <2>1. ready' \in [Slots -> SUBSET Kinds] BY <1>1, <1>5 DEF SocketEvent
  <2>2. UNCHANGED <<selectors, selector_count>>
        /\ sigs' \in [Bases -> SUBSET (Interrupts \cup {"select"})]
    BY <1>5, SignalKeepsTable DEF SocketEvent
  <2> QED BY <1>1, <1>5, <2>1, <2>2, WorldStep DEF SocketEvent
<1>6. ASSUME NEW b \in Bases, Progress(b) PROVE IInv' BY <1>6, ProgressStep
<1>7. ASSUME NEW b \in Bases, NEW watch \in Watches, NEW wait \in {"zero", "timed", "forever"},
             tn_lvo_waitselect(b, watch, wait)
      PROVE  IInv'
  BY <1>7, EnterStep
<1>8. ASSUME NEW b \in Bases, NEW s \in Slots, ShutWr(b, s) PROVE IInv'
  <2>1. ready' \in [Slots -> SUBSET Kinds] BY <1>1, <1>8 DEF ShutWr
  <2> QED BY <1>1, <1>8, <2>1, WorldStep DEF ShutWr
<1>9. ASSUME NEW b \in Bases, NEW s \in Slots, NEW k \in Kinds, Drain(b, s, k) PROVE IInv'
  <2>1. ready' \in [Slots -> SUBSET Kinds] BY <1>1, <1>9 DEF Drain
  <2> QED BY <1>1, <1>9, <2>1, WorldStep DEF Drain
<1>10. ASSUME NEW b \in Bases, NEW bit \in Bits[b], ExternalSignal(b, bit) PROVE IInv'
  <2>1. bit \in Interrupts BY KnownBits DEF Interrupts
  <2>2. sigs' \in [Bases -> SUBSET (Interrupts \cup {"select"})]
    BY <1>1, <1>10, <2>1 DEF ExternalSignal
  <2> QED BY <1>1, <1>10, <2>2, WorldStep DEF ExternalSignal
<1>11. ASSUME NEW b \in Bases, Open(b) PROVE IInv'
  <2>1. status' \in [Bases -> {"closed", "open", "dead"}]
        /\ \A a \in Bases : status[a] # "closed" => status'[a] = status[a]
    BY <1>1, <1>11 DEF Open
  <2> QED BY <1>1, <1>11, <2>1, WorldStep DEF Open
<1>12. ASSUME NEW b \in Bases, TaskDies(b) PROVE IInv' BY <1>12, DieStep
<1>13. ASSUME NEW b \in Bases, Close(b) PROVE IInv' BY <1>13, CloseStep
<1> QED BY <1>2, <1>3, <1>4, <1>5, <1>6, <1>7, <1>8, <1>9, <1>10, <1>11, <1>12, <1>13 DEF Next

-----------------------------------------------------------------------------
\* The inductive invariant holds in every reachable state.
THEOREM Invariant == Spec => []IInv
<1>1. Init => IInv BY InitIInv
<1>2. IInv /\ [Next]_vars => IInv' BY NextIInv
<1> QED BY <1>1, <1>2, PTL DEF Spec

\* The selector table, the calls, signals and readiness keep their types.
THEOREM TypeCorrect == Spec => []TypeOK
<1>1. IInv => TypeOK BY DEF IInv
<1> QED BY <1>1, Invariant, PTL

\* However calls are retried, given up, interrupted by deaths or overlapped by a
\* growing table: SELECT_ARM never runs out of entries, no entry belongs to a
\* closed base, and none watches for a program outside WaitSelect (TNET-151).
THEOREM SelectorTableSound == Spec => []SelectorsSound
<1>1. IInv => SelectorsSound
  <2> SUFFICES ASSUME IInv PROVE SelectorsSound OBVIOUS
  <2>1. ArmNeverRefused BY EntryForArm DEF ArmNeverRefused, IInv, OneEach
  <2>2. ArmedRegistered BY DEF ArmedRegistered, IInv, ArmedByBase, tn_selector_base_alive
  <2>3. IdleNotWatching BY DEF IdleNotWatching, IInv, WatchingWaits, ArmedPcs, At
  <2> QED BY <2>1, <2>2, <2>3 DEF SelectorsSound
<1> QED BY <1>1, Invariant, PTL

\* selector_count is the number of armed selectors or one short of it, so
\* tn_signal_socket skips its scan only when at most one selector is armed.
THEOREM CounterNeverDrifts == Spec => []CountWithinOne
<1>1. IInv => CountWithinOne BY DEF IInv
<1> QED BY <1>1, Invariant, PTL

\* A timed WaitSelect reports a timeout only when its budget, less the slack, has
\* passed: early timers, spurious wakes and retried rounds cannot shorten it.
THEOREM TimeoutsDue == Spec => TimeoutHonest
<1> DEFINE Due(b) ==
      /\ call[b].pc # "idle" /\ call[b].wait = "timed"
      /\ call'[b].pc = "idle" /\ call'[b].timed_out
      => call[b].elapsed + Slack >= Budget
<1>1. ASSUME IInv, [Next]_vars, NEW b \in Bases PROVE Due(b)
  <2> SUFFICES ASSUME call[b].pc # "idle", call[b].wait = "timed",
                      call'[b].pc = "idle", call'[b].timed_out
               PROVE  call[b].elapsed + Slack >= Budget
    OBVIOUS
  <2>1. /\ call \in [Bases -> CallType] /\ call[b].elapsed \in Nat /\ call[b].measured \in Nat
        /\ call[b].measured <= call[b].elapsed /\ Slack \in Nat /\ Budget \in Nat
        /\ call[b].elapsed >= Budget => call[b].elapsed + Slack >= Budget
        /\ call[b].measured + Slack >= Budget => call[b].elapsed + Slack >= Budget
    BY <1>1, TimeBudget DEF IInv, TypeOK, ClockHonest, CallType
  <2>2. ASSUME NEW a \in Bases, CallMoves(a) PROVE a = b
    BY <2>2 DEF CallMoves
  <2>3. ASSUME NEW a \in Bases, NEW then \in {"query", "interrupted", "error"},
               DisarmThen(a, then)
        PROVE  FALSE
    BY <1>1, <2>2, <2>3, DisarmThenMoves
  <2>4. ASSUME NEW a \in Bases, NEW r \in {"none", "ready", "interrupted", "error"}, Return(a, r)
        PROVE  FALSE
    BY <1>1, <2>2, <2>4, Moves
  <2>5. ASSUME NEW a \in Bases, NEW pc \in {"start", "loop", "wait"}, Goto(a, pc) PROVE FALSE
    BY <1>1, <2>2, <2>5, Moves
  <2>6. ASSUME NEW a \in Bases, Query(a) \/ Again(a) PROVE FALSE
    BY <1>1, <2>2, <2>6, Moves
  <2>7. call' # call OBVIOUS
  <2>8. CASE Tick
    <3>1. call'[b].pc = call[b].pc BY <2>1, <2>8 DEF Tick, CallType
    <3> QED BY <3>1
  <2>9. ASSUME NEW a \in Bases, Progress(a) PROVE call[b].elapsed + Slack >= Budget
    <3>1. CASE Sleep(a) BY <2>4, <3>1 DEF Sleep
    <3>2. CASE tn_ipc_cmd_select_arm(a)
      <4>1. CASE DisarmThen(a, "timeout") /\ call[a].wait = "zero"
        BY <1>1, <2>2, <4>1, DisarmThenMoves
      <4>2. CASE ArmRefused(a) BY <2>3, <2>4, <2>5, <4>2 DEF ArmRefused
      <4> QED BY <2>3, <2>4, <2>5, <3>2, <4>1, <4>2 DEF tn_ipc_cmd_select_arm
    <3>3. CASE StartWaiting(a) BY <2>3, <2>5, <3>3 DEF StartWaiting
    <3>4. CASE Loop(a)
      <4>1. CASE call[a].wait = "timed" /\ call[a].elapsed >= Budget
        <5>1. DisarmThen(a, "timeout") BY <3>4, <4>1 DEF Loop
        <5>2. a = b BY <1>1, <2>2, <4>1, <5>1, DisarmThenMoves
        <5> QED BY <2>1, <4>1, <5>2
      <4>2. CASE ~(call[a].wait = "timed" /\ call[a].elapsed >= Budget)
        BY <2>5, <3>4, <4>2 DEF Loop
      <4> QED BY <4>1, <4>2
    <3>5. CASE Wake(a) BY <2>3, <3>5 DEF Wake
    <3>6. CASE Disarm(a)
      <4>1. call[a].pc = "disarm" /\ (call[a].then = "query" => Query(a))
            /\ (call[a].then # "query" => Return(a, call[a].then))
            /\ call[a].then \in {"none", "query", "interrupted", "timeout", "error"}
        BY <1>1, <3>6 DEF Disarm, At, IInv, TypeOK
      <4>2. call[a].then = "timeout" BY <2>4, <2>6, <4>1
      <4>3. a = b BY <1>1, <2>2, <4>1, <4>2, Moves
      <4>4. call[b].elapsed >= Budget BY <1>1, <4>1, <4>2, <4>3 DEF IInv, ClockHonest
      <4> QED BY <2>1, <4>4
    <3>7. CASE tn_ipc_cmd_waitselect(a)
      <4>1. CASE call[a].wait = "timed" /\ call[a].measured + Slack >= Budget
                 /\ Return(a, "timeout")
        <5>1. a = b BY <1>1, <2>2, <4>1, Moves
        <5> QED BY <2>1, <4>1, <5>1
      <4> QED BY <2>4, <2>6, <3>7, <4>1 DEF tn_ipc_cmd_waitselect
    <3> QED BY <2>9, <3>1, <3>2, <3>3, <3>4, <3>5, <3>6, <3>7 DEF Progress
  <2>10. ASSUME NEW a \in Bases, NEW watch \in Watches, NEW wait \in {"zero", "timed", "forever"},
                tn_lvo_waitselect(a, watch, wait)
         PROVE  FALSE
    <3>1. call[a].pc = "idle" BY <2>10 DEF tn_lvo_waitselect, At
    <3>2. a # b BY <3>1
    <3>3. \E c : call' = [call EXCEPT ![a] = c] BY <2>10 DEF tn_lvo_waitselect, Return
    <3> QED BY <2>1, <3>2, <3>3
  <2>11. ASSUME NEW a \in Bases, TaskDies(a) \/ Close(a) PROVE FALSE
    <3>1. Return(a, "none") BY <2>11 DEF TaskDies, Close, Return
    <3> QED BY <2>4, <3>1
  <2>12. ASSUME NEW a \in Bases, NEW bit, ExternalSignal(a, bit) PROVE FALSE
    BY <2>7, <2>12 DEF ExternalSignal
  <2> QED BY <1>1, <2>7, <2>8, <2>9, <2>10, <2>11, <2>12
          DEF Next, vars, tn_selector_table_grow, SocketEvent, ShutWr, Drain, Open
<1>2. IInv /\ [Next]_vars => [\A b \in Bases : Due(b)]_vars BY <1>1
<1> QED BY <1>2, Invariant, PTL DEF Spec, TimeoutHonest
=============================================================================
