---------------------------- MODULE IpcCallProofs ----------------------------
(***************************************************************************)
(* Proofs about IpcCall, for any number of heap blocks and any bound on    *)
(* the looks at the port.                                                  *)
(*                                                                         *)
(* Three things make the properties inductive: the lists are disjoint and  *)
(* repeat nothing, so that a message taken off the port is nowhere else;   *)
(* the client's CANCEL message is out exactly while a drain waits for it;  *)
(* and the daemon's port is a queue, so that an old CANCEL comes before    *)
(* any later request that reuses its target's memory, and CLOSE after      *)
(* every request but its own CANCEL.                                       *)
(***************************************************************************)
EXTENDS IpcCall, FiniteSetTheorems, SequenceTheorems, WellFoundedInduction, TLAPS

NoRepeat(s) == \A i, j \in DOMAIN s : s[i] = s[j] => i = j

\* Each list repeats nothing, and no two share a message.
ListsDisjoint ==
    /\ NoRepeat(inbox) /\ NoRepeat(replies)
    /\ ToSet(inbox) \cap ToSet(replies) = {}
    /\ parked \cap (ToSet(inbox) \cup ToSet(replies)) = {}

\* A call is under way; its drain waits for the reply to CANCEL.
Active      == cl.pc \in {"wait", "port", "portwait", "bounded"}
AwaitCancel == Active /\ cl.phase = "drain" /\ ~cl.got_cancel

\* Where the client may be, and with which message.
ClientShape ==
    /\ cl.pc # "idle" => base = "open"
    /\ Active => cl.msg \in alloc \cup {Embedded}
    /\ Active /\ cl.phase = "collect" => ~cl.got_msg /\ ~cl.got_cancel
    /\ cl.pc = "wait" => cl.phase = "collect"
    /\ cl.pc = "bounded" => cl.phase = "drain" /\ cl.msg \in Blocks /\ ipc_cancel_msg \in Blocks
    /\ Active /\ (cl.watch \/ cl.why = "timeout") => cl.msg \in Blocks

\* The CANCEL message is allocated, is not the message of the call, and is out
\* exactly while a drain waits for it.
CancelOwned ==
    /\ base = "open" /\ ipc_cancel_msg # None => ipc_cancel_msg \in alloc
    /\ Active => cl.msg # ipc_cancel_msg
    /\ AwaitCancel => ipc_cancel_msg \in InFlight /\ body[ipc_cancel_msg].cmd = "CANCEL"
    /\ ~AwaitCancel => ipc_cancel_msg \notin InFlight

\* The message of the call is out until its reply is taken.
CallOut == Active => (cl.msg \in InFlight <=> ~cl.got_msg)

\* A CANCEL still queued whose target is the memory of the present call comes
\* before that call in the queue, and so finds nothing to cancel.
CancelsBefore ==
    Active /\ cl.phase = "collect" =>
       \A i \in DOMAIN inbox :
          body[inbox[i]].cmd = "CANCEL" /\ body[inbox[i]].target = cl.msg =>
             \E j \in DOMAIN inbox : i < j /\ inbox[j] = cl.msg

\* Nothing but the CANCEL of a CLOSE is queued behind it, and the daemon that has
\* handled CLOSE keeps only pending connects and accepts.
OnlyConnectsParked == \A m \in parked : body[m].cmd = "CONNECT"
CloseLast ==
    /\ Active /\ cl.cmd = "CLOSE" =>
         /\ body[cl.msg].cmd = "CLOSE" /\ cl.msg \notin parked
         /\ \A i \in DOMAIN inbox :
               \/ \E j \in DOMAIN inbox : i <= j /\ inbox[j] = cl.msg
               \/ AwaitCancel /\ inbox[i] = ipc_cancel_msg
         /\ cl.msg \notin ToSet(inbox) => OnlyConnectsParked
    /\ cl.pc = "freeing" /\ cl.got_msg => inbox = <<>> /\ OnlyConnectsParked

IInv == /\ TypeOK /\ ListsDisjoint /\ HeldAllocated /\ ClientShape /\ CancelOwned /\ CallOut
        /\ CancelsBefore /\ NoStrayInterrupt /\ CloseLast /\ CloseReleases

-----------------------------------------------------------------------------
(***************************************************************************)
(* Queues.                                                                 *)
(***************************************************************************)
\* PutMsg adds a message behind the others.
LEMMA AppendOne ==
    ASSUME NEW S, NEW s \in Seq(S), NEW x \in S
    PROVE  /\ Append(s, x) \in Seq(S) /\ DOMAIN s = 1 .. Len(s) /\ Len(s) \in Nat
           /\ DOMAIN Append(s, x) = 1 .. Len(s) + 1
           /\ \A i \in DOMAIN s : Append(s, x)[i] = s[i]
           /\ Append(s, x)[Len(s) + 1] = x
           /\ ToSet(Append(s, x)) = ToSet(s) \cup {x}
           /\ NoRepeat(s) /\ x \notin ToSet(s) => NoRepeat(Append(s, x))
<1> DEFINE t == Append(s, x)
<1>1. /\ t \in Seq(S) /\ DOMAIN s = 1 .. Len(s) /\ Len(s) \in Nat
      /\ DOMAIN t = 1 .. Len(s) + 1
      /\ \A i \in 1 .. Len(s) : t[i] = s[i]
      /\ t[Len(s) + 1] = x
  BY AppendProperties, LenProperties
<1> HIDE DEF t
<1>2. \A i \in DOMAIN t : IF i = Len(s) + 1 THEN t[i] = x ELSE i \in DOMAIN s /\ t[i] = s[i]
  BY <1>1
<1>3. DOMAIN s \subseteq DOMAIN t /\ Len(s) + 1 \in DOMAIN t BY <1>1
<1>4. ToSet(t) = ToSet(s) \cup {x} BY <1>1, <1>2, <1>3 DEF ToSet
<1>5. NoRepeat(s) /\ x \notin ToSet(s) => NoRepeat(t) BY <1>2 DEF NoRepeat, ToSet
<1> QED BY <1>1, <1>4, <1>5 DEF t

\* GetMsg takes the first message off a queue.
LEMMA TailOne ==
    ASSUME NEW S, NEW s \in Seq(S), s # <<>>
    PROVE  /\ Head(s) \in S /\ Tail(s) \in Seq(S) /\ Head(s) = s[1] /\ 1 \in DOMAIN s
           /\ DOMAIN s = 1 .. Len(s) /\ Len(s) \in Nat /\ Head(s) \in ToSet(s)
           /\ \A i \in DOMAIN Tail(s) : i \in Nat /\ i + 1 \in DOMAIN s /\ Tail(s)[i] = s[i + 1]
           /\ \A i \in DOMAIN s : i # 1 => i - 1 \in DOMAIN Tail(s) /\ Tail(s)[i - 1] = s[i]
           /\ NoRepeat(s) => /\ NoRepeat(Tail(s))
                             /\ ToSet(Tail(s)) = ToSet(s) \ {Head(s)}
<1> DEFINE t == Tail(s)
<1>1. /\ Head(s) \in S /\ t \in Seq(S) /\ Len(t) = Len(s) - 1
      /\ \A i \in 1 .. Len(t) : t[i] = s[i + 1]
  BY HeadTailProperties
<1>2. DOMAIN s = 1 .. Len(s) /\ DOMAIN t = 1 .. Len(t) /\ Len(s) \in Nat \ {0} /\ Len(t) \in Nat
  BY <1>1, LenProperties, EmptySeq
<1>3. Head(s) = s[1] OBVIOUS
<1> HIDE DEF t
<1>4. \A i \in DOMAIN t : i \in Nat /\ i + 1 \in DOMAIN s /\ t[i] = s[i + 1] BY <1>1, <1>2
<1>5. \A i \in DOMAIN s : i # 1 => i - 1 \in DOMAIN t /\ t[i - 1] = s[i]
  <2> TAKE i \in DOMAIN s
  <2> HAVE i # 1
  <2>1. i - 1 \in 1 .. Len(t) /\ (i - 1) + 1 = i BY <1>1, <1>2
  <2> QED BY <1>1, <1>2, <2>1
<1>6. 1 \in DOMAIN s BY <1>2
<1>7. ASSUME NoRepeat(s) PROVE NoRepeat(t) /\ ToSet(t) = ToSet(s) \ {s[1]}
  <2>1. NoRepeat(t)
    <3> SUFFICES ASSUME NEW i \in DOMAIN t, NEW j \in DOMAIN t, t[i] = t[j] PROVE i = j
      BY DEF NoRepeat
    <3>1. i + 1 = j + 1 BY <1>4, <1>7 DEF NoRepeat
    <3> QED BY <1>4, <3>1
  <2>2. ASSUME NEW i \in DOMAIN t PROVE t[i] \in ToSet(s) \ {s[1]}
    <3>1. i + 1 # 1 /\ i + 1 \in DOMAIN s /\ t[i] = s[i + 1] BY <1>4
    <3> QED BY <1>6, <1>7, <3>1 DEF NoRepeat, ToSet
  <2>3. ASSUME NEW i \in DOMAIN s, s[i] # s[1] PROVE s[i] \in ToSet(t)
    BY <1>5, <2>3 DEF ToSet
  <2> QED BY <2>1, <2>2, <2>3 DEF ToSet
<1>8. s[1] \in ToSet(s) BY <1>6 DEF ToSet
<1> QED BY <1>1, <1>2, <1>3, <1>4, <1>5, <1>6, <1>7, <1>8 DEF t

\* ReplyMsg adds replies behind the others.
LEMMA ConcatTwo ==
    ASSUME NEW S, NEW s \in Seq(S), NEW t \in Seq(S)
    PROVE  /\ s \o t \in Seq(S)
           /\ ToSet(s \o t) = ToSet(s) \cup ToSet(t)
           /\ NoRepeat(s) /\ NoRepeat(t) /\ ToSet(s) \cap ToSet(t) = {} => NoRepeat(s \o t)
<1> DEFINE u == s \o t
<1>1. /\ u \in Seq(S) /\ Len(u) = Len(s) + Len(t)
      /\ \A i \in 1 .. Len(s) + Len(t) : u[i] = IF i <= Len(s) THEN s[i] ELSE t[i - Len(s)]
  BY ConcatProperties
<1>2. DOMAIN s = 1 .. Len(s) /\ DOMAIN t = 1 .. Len(t) /\ DOMAIN u = 1 .. Len(u)
      /\ Len(s) \in Nat /\ Len(t) \in Nat
  BY <1>1, LenProperties
<1> HIDE DEF u
<1>3. \A i \in DOMAIN u : IF i <= Len(s) THEN i \in DOMAIN s /\ u[i] = s[i]
                          ELSE i - Len(s) \in DOMAIN t /\ u[i] = t[i - Len(s)]
  BY <1>1, <1>2
<1>4. \A i \in DOMAIN s : i \in DOMAIN u /\ u[i] = s[i] BY <1>1, <1>2
<1>5. \A i \in DOMAIN t : i + Len(s) \in DOMAIN u /\ u[i + Len(s)] = t[i]
  <2> TAKE i \in DOMAIN t
  <2>1. i + Len(s) \in 1 .. Len(s) + Len(t) /\ ~(i + Len(s) <= Len(s))
        /\ (i + Len(s)) - Len(s) = i
    BY <1>2
  <2> QED BY <1>1, <1>2, <2>1
<1>6. ToSet(u) = ToSet(s) \cup ToSet(t)
  <2>1. \A i \in DOMAIN u : u[i] \in ToSet(s) \cup ToSet(t) BY <1>3 DEF ToSet
  <2>2. \A i \in DOMAIN s : s[i] \in ToSet(u) BY <1>4 DEF ToSet
  <2>3. \A i \in DOMAIN t : t[i] \in ToSet(u) BY <1>5 DEF ToSet
  <2> QED BY <2>1, <2>2, <2>3 DEF ToSet
<1>7. ASSUME NoRepeat(s), NoRepeat(t), ToSet(s) \cap ToSet(t) = {} PROVE NoRepeat(u)
  <2> SUFFICES ASSUME NEW i \in DOMAIN u, NEW j \in DOMAIN u, u[i] = u[j] PROVE i = j
    BY DEF NoRepeat
  <2>1. i \in Int /\ j \in Int BY <1>2
  <2>2. \A k \in DOMAIN s, l \in DOMAIN t : s[k] # t[l] BY <1>7 DEF ToSet
  <2>3. CASE i <= Len(s) /\ j <= Len(s) BY <1>3, <1>7, <2>3 DEF NoRepeat
  <2>4. CASE ~(i <= Len(s)) /\ ~(j <= Len(s))
    <3>1. i - Len(s) = j - Len(s) BY <1>3, <1>7, <2>4 DEF NoRepeat
    <3> QED BY <1>2, <2>1, <3>1
  <2>5. CASE (i <= Len(s)) # (j <= Len(s)) BY <1>3, <2>2, <2>5
  <2> QED BY <2>3, <2>4, <2>5
<1> QED BY <1>1, <1>6, <1>7 DEF u

\* One or two messages, and none, as queues.
LEMMA ShortSeqs ==
    ASSUME NEW S, NEW x \in S, NEW y \in S
    PROVE  /\ <<x>> \in Seq(S) /\ ToSet(<<x>>) = {x} /\ NoRepeat(<<x>>)
           /\ <<x, y>> \in Seq(S) /\ ToSet(<<x, y>>) = {x, y} /\ (x # y => NoRepeat(<<x, y>>))
           /\ <<>> \in Seq(S) /\ ToSet(<<>>) = {} /\ NoRepeat(<<>>)
<1>1. DOMAIN <<x>> = {1} /\ <<x>>[1] = x /\ <<x>> \in Seq(S) OBVIOUS
<1>2. DOMAIN <<x, y>> = {1, 2} /\ <<x, y>>[1] = x /\ <<x, y>>[2] = y /\ <<x, y>> \in Seq(S)
  OBVIOUS
<1>3. DOMAIN <<>> = {} /\ <<>> \in Seq(S) OBVIOUS
<1> QED BY <1>1, <1>2, <1>3 DEF ToSet, NoRepeat

\* The order in which CLOSE answers a set of messages is a queue of them all.
LEMMA OrderOf ==
    ASSUME NEW S, IsFiniteSet(S), NEW f \in SetToSeqs(S)
    PROVE  f \in Seq(S) /\ ToSet(f) = S /\ NoRepeat(f)
<1> DEFINE n == Cardinality(S)
           D == 1 .. n
<1>1. n \in Nat BY FS_CardinalityType
<1>2. f \in [D -> S] /\ \A i, j \in D : i # j => f[i] # f[j] BY DEF SetToSeqs
<1>3. f \in Seq(S) BY <1>1, <1>2
<1>4. IsFiniteSet(D) /\ Cardinality(D) = n BY <1>1, FS_Interval
<1>5. f \in Injection(D, S) BY <1>2 DEF Injection, IsInjective
<1>6. f \in Surjection(D, S) BY <1>4, <1>5, FS_Injection
<1>7. \A x \in S : \E i \in D : f[i] = x BY <1>6 DEF Surjection
<1>8. DOMAIN f = D BY <1>2
<1> QED BY <1>2, <1>3, <1>7, <1>8 DEF ToSet, NoRepeat

\* A call that starts with late replies on its port drops a prefix of them.
LEMMA DrainedShrinks ==
    ASSUME replies \in Seq(Messages), NoRepeat(replies)
    PROVE  Drained \in Seq(Messages) /\ NoRepeat(Drained) /\ ToSet(Drained) \subseteq ToSet(replies)
<1> DEFINE late == {i \in DOMAIN replies : replies[i] \in ipc_orphan}
           First(i) == \A j \in late : i <= j
           k == CHOOSE i \in late : First(i)
           n == Len(replies)
           t == SubSeq(replies, 1 + k, n)
<1>1. DOMAIN replies = 1 .. n /\ n \in Nat BY LenProperties
<1>2. CASE ipc_orphan = {} BY <1>2 DEF Drained
<1>3. CASE ipc_orphan # {} /\ late = {}
  <2>1. Drained = <<>> BY <1>3 DEF Drained
  <2>2. Embedded \in Messages BY DEF Messages
  <2> QED BY <2>1, <2>2, ShortSeqs
<1>4. CASE ipc_orphan # {} /\ late # {}
  <2>1. Drained = t BY <1>4 DEF Drained
  <2>2. late \subseteq Nat BY <1>1
  <2>3. \E i \in late : First(i)
    <3>1. PICK i \in late : \A j \in late : ~(<<j, i>> \in OpToRel(<, Nat))
      BY <1>4, <2>2, NatLessThanWellFounded, WFMin
    <3>2. \A j \in late : ~(j < i) BY <2>2, <3>1 DEF OpToRel
    <3> QED BY <2>2, <3>2
  <2> HIDE DEF First
  <2>4. k \in late BY <2>3
  <2>5. k \in 1 .. n BY <1>1, <2>4
  <2> HIDE DEF k, late
  <2>6. \A i \in 1 + k .. n : replies[i] \in Messages BY <1>1, <2>5
  <2>7. /\ t \in Seq(Messages)
        /\ Len(t) = IF 1 + k <= n THEN n - (1 + k) + 1 ELSE 0
        /\ \A i \in 1 .. n - (1 + k) + 1 : t[i] = replies[(1 + k) + i - 1]
    BY <1>1, <2>5, <2>6, SubSeqProperties
  <2>8. DOMAIN t = 1 .. Len(t) BY <2>7, LenProperties
  <2> HIDE DEF t
  <2>9. \A i \in DOMAIN t : i \in Nat /\ k + i \in DOMAIN replies /\ t[i] = replies[k + i]
    <3> TAKE i \in DOMAIN t
    <3>1. i \in 1 .. n - (1 + k) + 1 /\ (1 + k) + i - 1 = k + i BY <1>1, <2>5, <2>7, <2>8
    <3> QED BY <1>1, <2>5, <2>7, <3>1
  <2>10. NoRepeat(t)
    <3> SUFFICES ASSUME NEW i \in DOMAIN t, NEW j \in DOMAIN t, t[i] = t[j] PROVE i = j
      BY DEF NoRepeat
    <3>1. k + i = k + j BY <2>9 DEF NoRepeat
    <3> QED BY <2>5, <2>9, <3>1
  <2>11. ToSet(t) \subseteq ToSet(replies) BY <2>9 DEF ToSet
  <2> QED BY <2>1, <2>7, <2>10, <2>11
<1> QED BY <1>2, <1>3, <1>4

-----------------------------------------------------------------------------
(***************************************************************************)
(* The daemon's steps.                                                     *)
(***************************************************************************)
BodyType == [cmd : Calls \cup {"CLOSE", "CANCEL"}, target : Messages \cup {None}, result : Results]

\* The daemon takes nothing off its queue, or handles the head of it: that may be
\* parked, and a CLOSE leaves only pending connects and accepts.
QueueStep ==
    \/ inbox' = inbox /\ parked' \subseteq parked
    \/ /\ inbox # <<>> /\ inbox' = Tail(inbox)
       /\ \A m \in parked' : m \in parked \/ (m = Head(inbox) /\ tn_cmd_may_park(body[m].cmd))
       /\ body[Head(inbox)].cmd = "CLOSE" => \A m \in parked' : body[m].cmd = "CONNECT"

\* What every step of the daemon does: messages change lists, none appears or
\* goes; only the head of the queue is handled; only CANCEL interrupts.
DaemonStep ==
    /\ UNCHANGED <<cvars, break_sig, cl>>
    /\ inbox' \in Seq(Messages) /\ replies' \in Seq(Messages) /\ parked' \subseteq Messages
    /\ reply_sig' \in BOOLEAN
    /\ ListsDisjoint' /\ InFlight' = InFlight
    /\ body' \in [Messages -> BodyType]
    /\ \A m \in Messages : body'[m].cmd = body[m].cmd /\ body'[m].target = body[m].target
    /\ \A m \in Messages : body'[m].result = "EINTR" =>
          \/ body[m].result = "EINTR"
          \/ /\ inbox # <<>> /\ m \in parked
             /\ body[Head(inbox)].cmd = "CANCEL" /\ body[Head(inbox)].target = m
    /\ QueueStep

\* Answers change nothing but the result.
LEMMA AnswerKeeps ==
    ASSUME body \in [Messages -> BodyType], NEW ms, NEW r \in Results
    PROVE  /\ Answer(ms, r) \in [Messages -> BodyType]
           /\ \A m \in Messages : /\ Answer(ms, r)[m].cmd = body[m].cmd
                                  /\ Answer(ms, r)[m].target = body[m].target
                                  /\ Answer(ms, r)[m].result = IF m \in ms THEN r ELSE body[m].result
BY DEF Answer, BodyType, Results

\* Replies to messages that leave the port or the buckets keep the lists disjoint.
LEMMA RepliesMove ==
    ASSUME inbox \in Seq(Messages), replies \in Seq(Messages), parked \subseteq Messages,
           reply_sig \in BOOLEAN, ListsDisjoint,
           NEW ms \in Seq(Messages), NoRepeat(ms), ReplyMsg(ms),
           inbox' \in Seq(Messages), NoRepeat(inbox'), parked' \subseteq parked,
           ToSet(inbox') \subseteq ToSet(inbox),
           ToSet(ms) \subseteq ToSet(inbox) \cup parked,
           ToSet(ms) = (ToSet(inbox) \cup parked) \ (ToSet(inbox') \cup parked')
    PROVE  /\ replies' \in Seq(Messages) /\ reply_sig' \in BOOLEAN
           /\ ListsDisjoint' /\ InFlight' = InFlight
<1>1. replies' = replies \o ms BY DEF ReplyMsg
<1>2. reply_sig' \in BOOLEAN BY DEF ReplyMsg
<1>3. ToSet(replies) \cap ToSet(ms) = {} BY DEF ListsDisjoint
<1>4. /\ replies' \in Seq(Messages) /\ ToSet(replies') = ToSet(replies) \cup ToSet(ms)
      /\ NoRepeat(replies')
  BY <1>1, <1>3, ConcatTwo DEF ListsDisjoint
<1>5. ListsDisjoint' BY <1>4 DEF ListsDisjoint
<1>6. InFlight' = InFlight BY <1>4 DEF InFlight
<1> QED BY <1>2, <1>4, <1>5, <1>6


\* CANCEL, CLOSE, an answer at once, a deferred answer: each is a step of the daemon.
LEMMA HandleSteps == IInv /\ tn_handle_ipc => DaemonStep
<1> SUFFICES ASSUME IInv, tn_handle_ipc PROVE DaemonStep OBVIOUS
<1> DEFINE m == Head(inbox)
<1>1. /\ inbox # <<>> /\ inbox' = Tail(inbox) /\ UNCHANGED <<cvars, break_sig, cl>>
  BY DEF tn_handle_ipc
<1>2. /\ body \in [Messages -> BodyType] /\ inbox \in Seq(Messages) /\ replies \in Seq(Messages)
      /\ parked \subseteq Messages /\ reply_sig \in BOOLEAN
  BY DEF IInv, TypeOK, BodyType
<1>3. ListsDisjoint BY DEF IInv
<1>4. NoRepeat(inbox) BY <1>3 DEF ListsDisjoint
<1>5. /\ m \in Messages /\ inbox' \in Seq(Messages) /\ m \in ToSet(inbox)
      /\ NoRepeat(inbox') /\ ToSet(inbox') = ToSet(inbox) \ {m}
  BY <1>1, <1>2, <1>4, TailOne
<1>6. m \notin parked /\ parked \cap ToSet(inbox) = {} BY <1>3, <1>5 DEF ListsDisjoint
<1>7. IsFiniteSet(Messages) BY Memory, FS_AddElement DEF Messages
<1> HIDE DEF m
<1>8. CASE body[m].cmd = "CANCEL"
  <2> DEFINE target == body[m].target
  <2>1. tn_ipc_cmd_cancel(m) BY <1>8 DEF tn_handle_ipc, m
  <2>2. CASE target \in parked
    <3>1. /\ parked' = parked \ {target} /\ body' = Answer({target}, "EINTR")
          /\ ReplyMsg(<<target, m>>)
      BY <2>1, <2>2 DEF tn_ipc_cmd_cancel
    <3>2. target \in Messages /\ target # m BY <1>2, <1>6, <2>2
    <3> HIDE DEF target
    <3>3. /\ <<target, m>> \in Seq(Messages) /\ ToSet(<<target, m>>) = {target, m}
          /\ NoRepeat(<<target, m>>)
      BY <1>5, <3>2, ShortSeqs
    <3>4. /\ replies' \in Seq(Messages) /\ reply_sig' \in BOOLEAN /\ ListsDisjoint'
          /\ InFlight' = InFlight
      <4> DEFINE ms == <<target, m>>
      <4>1. ReplyMsg(ms) /\ ms \in Seq(Messages) /\ NoRepeat(ms) /\ ToSet(ms) = {target, m}
        BY <3>1, <3>3
      <4> HIDE DEF ms
      <4>2. ToSet(ms) = (ToSet(inbox) \cup parked) \ (ToSet(inbox') \cup parked')
        BY <1>5, <1>6, <2>2, <3>1, <4>1 DEF target
      <4> QED BY <1>2, <1>3, <1>5, <2>2, <3>1, <4>1, <4>2, RepliesMove DEF target
    <3>5. /\ body' \in [Messages -> BodyType]
          /\ \A k \in Messages : /\ body'[k].cmd = body[k].cmd /\ body'[k].target = body[k].target
                                 /\ body'[k].result = "EINTR" => k = target \/ body[k].result = "EINTR"
      BY <1>2, <3>1, AnswerKeeps DEF Results
    <3>6. QueueStep BY <1>1, <1>8, <3>1 DEF QueueStep, m
    <3> QED BY <1>1, <1>2, <1>5, <1>8, <2>2, <3>1, <3>4, <3>5, <3>6 DEF DaemonStep, m, target
  <2>3. CASE target \notin parked
    <3>1. ReplyMsg(<<m>>) /\ UNCHANGED <<parked, body>> BY <2>1, <2>3 DEF tn_ipc_cmd_cancel
    <3>2. /\ replies' \in Seq(Messages) /\ reply_sig' \in BOOLEAN /\ ListsDisjoint'
          /\ InFlight' = InFlight
      <4> DEFINE ms == <<m>>
      <4>1. ReplyMsg(ms) /\ ms \in Seq(Messages) /\ NoRepeat(ms) /\ ToSet(ms) = {m}
        BY <1>5, <3>1, ShortSeqs
      <4> HIDE DEF ms
      <4>2. ToSet(ms) = (ToSet(inbox) \cup parked) \ (ToSet(inbox') \cup parked')
        BY <1>5, <1>6, <3>1, <4>1
      <4> QED BY <1>2, <1>3, <1>5, <3>1, <4>1, <4>2, RepliesMove
    <3>3. QueueStep BY <1>1, <1>8, <3>1 DEF QueueStep, m
    <3> QED BY <1>1, <1>2, <1>5, <3>1, <3>2, <3>3 DEF DaemonStep
  <2> QED BY <2>2, <2>3
<1>9. CASE body[m].cmd = "CLOSE"
  <2>1. tn_ipc_cmd_close(m) BY <1>9 DEF tn_handle_ipc, m
  <2>2. PICK stay \in SUBSET {p \in parked : body[p].cmd = "CONNECT"} :
          /\ parked' = stay
          /\ body' = Answer((parked \ stay) \cup {m}, "OK")
          /\ \E order \in SetToSeqs(parked \ stay) : ReplyMsg(Append(order, m))
    BY <2>1 DEF tn_ipc_cmd_close
  <2> DEFINE gone == parked \ stay
  <2>3. PICK order \in SetToSeqs(gone) : ReplyMsg(Append(order, m)) BY <2>2
  <2>4. IsFiniteSet(gone) /\ gone \subseteq Messages BY <1>2, <1>7, FS_Subset
  <2> HIDE DEF gone
  <2>5. order \in Seq(gone) /\ ToSet(order) = gone /\ NoRepeat(order) BY <2>3, <2>4, OrderOf
  <2>6. order \in Seq(Messages) BY <2>4, <2>5
  <2>7. m \notin gone BY <1>6 DEF gone
  <2> DEFINE ms == Append(order, m)
  <2>8. ms \in Seq(Messages) /\ NoRepeat(ms) /\ ToSet(ms) = gone \cup {m} /\ ReplyMsg(ms)
    BY <1>5, <2>3, <2>5, <2>6, <2>7, AppendOne
  <2> HIDE DEF ms
  <2>9. ToSet(ms) = (ToSet(inbox) \cup parked) \ (ToSet(inbox') \cup parked')
    BY <1>5, <1>6, <2>2, <2>8 DEF gone
  <2>10. ToSet(ms) \subseteq ToSet(inbox) \cup parked /\ parked' \subseteq parked
         /\ ToSet(inbox') \subseteq ToSet(inbox)
    BY <1>5, <2>2, <2>9
  <2>11. /\ replies' \in Seq(Messages) /\ reply_sig' \in BOOLEAN /\ ListsDisjoint'
         /\ InFlight' = InFlight
    BY <1>2, <1>3, <1>5, <2>8, <2>9, <2>10, RepliesMove
  <2>12. /\ body' \in [Messages -> BodyType]
         /\ \A k \in Messages : /\ body'[k].cmd = body[k].cmd /\ body'[k].target = body[k].target
                                /\ body'[k].result = "EINTR" => body[k].result = "EINTR"
    BY <1>2, <2>2, AnswerKeeps DEF Results
  <2>13. QueueStep BY <1>1, <1>9, <2>2 DEF QueueStep, m
  <2> QED BY <1>1, <1>2, <1>5, <2>10, <2>11, <2>12, <2>13 DEF DaemonStep
<1>10. CASE body[m].cmd \notin {"CANCEL", "CLOSE"}
  <2>1. \/ body' = Answer({m}, "OK") /\ ReplyMsg(<<m>>) /\ UNCHANGED parked
        \/ /\ tn_cmd_may_park(body[m].cmd)
           /\ parked' = parked \cup {m}
           /\ UNCHANGED <<body, replies, reply_sig>>
    BY <1>10 DEF tn_handle_ipc, m
  <2>2. CASE body' = Answer({m}, "OK") /\ ReplyMsg(<<m>>) /\ UNCHANGED parked
    <3>1. /\ replies' \in Seq(Messages) /\ reply_sig' \in BOOLEAN /\ ListsDisjoint'
          /\ InFlight' = InFlight
      <4> DEFINE ms == <<m>>
      <4>1. ReplyMsg(ms) /\ ms \in Seq(Messages) /\ NoRepeat(ms) /\ ToSet(ms) = {m}
        BY <1>5, <2>2, ShortSeqs
      <4> HIDE DEF ms
      <4>2. ToSet(ms) = (ToSet(inbox) \cup parked) \ (ToSet(inbox') \cup parked')
        BY <1>5, <1>6, <2>2, <4>1
      <4> QED BY <1>2, <1>3, <1>5, <2>2, <4>1, <4>2, RepliesMove
    <3>2. /\ body' \in [Messages -> BodyType]
          /\ \A k \in Messages : /\ body'[k].cmd = body[k].cmd /\ body'[k].target = body[k].target
                                 /\ body'[k].result = "EINTR" => body[k].result = "EINTR"
      BY <1>2, <2>2, AnswerKeeps DEF Results
    <3>3. QueueStep BY <1>1, <1>10, <2>2 DEF QueueStep, m
    <3> QED BY <1>1, <1>2, <1>5, <2>2, <3>1, <3>2, <3>3 DEF DaemonStep
  <2>3. CASE /\ tn_cmd_may_park(body[m].cmd)
             /\ parked' = parked \cup {m}
             /\ UNCHANGED <<body, replies, reply_sig>>
    <3>1. ListsDisjoint' BY <1>3, <1>5, <1>6, <2>3 DEF ListsDisjoint
    <3>2. InFlight' = InFlight BY <1>5, <2>3 DEF InFlight
    <3>3. parked' \subseteq Messages BY <1>2, <1>5, <2>3
    <3>4. QueueStep BY <1>1, <1>10, <2>3 DEF QueueStep, m
    <3> QED BY <1>1, <1>2, <1>5, <2>3, <3>1, <3>2, <3>3, <3>4 DEF DaemonStep
  <2> QED BY <2>1, <2>2, <2>3
<1> QED BY <1>8, <1>9, <1>10

\* Data, a connection or a name answers a parked message.
LEMMA CompleteSteps == ASSUME IInv, NEW m \in Messages, Complete(m) PROVE DaemonStep
<1>1. /\ body \in [Messages -> BodyType] /\ inbox \in Seq(Messages) /\ replies \in Seq(Messages)
      /\ parked \subseteq Messages /\ reply_sig \in BOOLEAN /\ ListsDisjoint
  BY DEF IInv, TypeOK, BodyType
<1>2. /\ m \in parked /\ parked' = parked \ {m} /\ body' = Answer({m}, "OK") /\ ReplyMsg(<<m>>)
      /\ inbox' = inbox /\ UNCHANGED <<cvars, break_sig, cl>>
  BY DEF Complete
<1>3. /\ replies' \in Seq(Messages) /\ reply_sig' \in BOOLEAN /\ ListsDisjoint'
      /\ InFlight' = InFlight
  <2> DEFINE ms == <<m>>
  <2>1. ReplyMsg(ms) /\ ms \in Seq(Messages) /\ NoRepeat(ms) /\ ToSet(ms) = {m}
    BY <1>2, ShortSeqs
  <2> HIDE DEF ms
  <2>2. parked \cap ToSet(inbox) = {} /\ NoRepeat(inbox) BY <1>1 DEF ListsDisjoint
  <2>3. ToSet(ms) = (ToSet(inbox) \cup parked) \ (ToSet(inbox') \cup parked')
    BY <1>2, <2>1, <2>2
  <2> QED BY <1>1, <1>2, <2>1, <2>2, <2>3, RepliesMove
<1>4. /\ body' \in [Messages -> BodyType]
      /\ \A k \in Messages : /\ body'[k].cmd = body[k].cmd /\ body'[k].target = body[k].target
                             /\ body'[k].result = "EINTR" => body[k].result = "EINTR"
  BY <1>1, <1>2, AnswerKeeps DEF Results
<1> QED BY <1>1, <1>2, <1>3, <1>4 DEF DaemonStep, QueueStep


\* The daemon keeps the invariant.
LEMMA DaemonKeeps == IInv /\ DaemonStep => IInv'
<1> SUFFICES ASSUME IInv, DaemonStep PROVE IInv' OBVIOUS
<1>1. /\ cl' = cl /\ break_sig' = break_sig /\ alloc' = alloc /\ timed' = timed
      /\ timer_io' = timer_io /\ ipc_orphan' = ipc_orphan /\ ipc_cancel_msg' = ipc_cancel_msg
      /\ base' = base
  BY DEF DaemonStep, cvars
<1>2. /\ ListsDisjoint' /\ InFlight' = InFlight
      /\ \A m \in Messages : body'[m].cmd = body[m].cmd /\ body'[m].target = body[m].target
  BY DEF DaemonStep
<1>3. inbox \in Seq(Messages) /\ parked \subseteq Messages /\ ListsDisjoint BY DEF IInv, TypeOK
<1>4. Active' = Active /\ AwaitCancel' = AwaitCancel BY <1>1 DEF Active, AwaitCancel
<1>5. TypeOK' BY <1>1 DEF IInv, TypeOK, DaemonStep, BodyType
<1>6. HeldAllocated' BY <1>1, <1>2 DEF IInv, HeldAllocated
<1>7. ClientShape' BY <1>1, <1>4 DEF IInv, ClientShape
<1>8. CancelOwned'
  <2>1. InFlight \subseteq Messages BY DEF IInv, TypeOK, InFlight, ToSet
  <2> QED BY <1>1, <1>2, <1>4, <2>1 DEF IInv, CancelOwned
<1>9. CallOut' BY <1>1, <1>2, <1>4 DEF IInv, CallOut
<1>10. CASE inbox' = inbox /\ parked' \subseteq parked
  <2>1. \A i \in DOMAIN inbox : inbox[i] \in Messages BY <1>3
  <2>2. CancelsBefore'
    BY <1>1, <1>2, <1>4, <1>10, <2>1 DEF IInv, CancelsBefore
  <2>3. NoStrayInterrupt'
    <3> SUFFICES ASSUME cl.pc \in {"wait", "port", "portwait"}, cl.phase = "collect",
                        body'[cl.msg].result = "EINTR"
                 PROVE  FALSE
      BY <1>1 DEF NoStrayInterrupt
    <3>1. Active BY DEF Active
    <3>2. cl.msg \in Messages BY <3>1 DEF IInv, ClientShape, TypeOK, Messages
    <3>3. PICK m \in Messages : m = cl.msg BY <3>2
    <3>4. /\ inbox # <<>> /\ m \in parked
          /\ body[Head(inbox)].cmd = "CANCEL" /\ body[Head(inbox)].target = m
      BY <3>3 DEF DaemonStep, IInv, NoStrayInterrupt
    <3>5. 1 \in DOMAIN inbox /\ Head(inbox) = inbox[1] BY <1>3, <3>4, TailOne
    <3>6. m \in ToSet(inbox) BY <3>1, <3>3, <3>4, <3>5 DEF IInv, CancelsBefore, ToSet
    <3> QED BY <1>3, <3>4, <3>6 DEF ListsDisjoint
  <2>4. OnlyConnectsParked => OnlyConnectsParked' BY <1>2, <1>3, <1>10 DEF OnlyConnectsParked
  <2>5. CloseLast'
    <3>1. cl.msg \in Messages \/ ~Active BY DEF IInv, ClientShape, TypeOK, Messages
    <3> QED BY <1>1, <1>2, <1>4, <1>10, <2>4, <3>1 DEF IInv, CloseLast
  <2>6. CloseReleases' BY <1>1, <1>10, <2>4 DEF IInv, CloseReleases, OnlyConnectsParked
  <2> QED BY <1>2, <1>5, <1>6, <1>7, <1>8, <1>9, <2>2, <2>3, <2>5, <2>6 DEF IInv
<1>11. CASE /\ inbox # <<>> /\ inbox' = Tail(inbox)
            /\ \A m \in parked' : m \in parked \/ (m = Head(inbox) /\ tn_cmd_may_park(body[m].cmd))
            /\ body[Head(inbox)].cmd = "CLOSE" => \A m \in parked' : body[m].cmd = "CONNECT"
  <2> DEFINE h == Head(inbox)
             t == Tail(inbox)
  <2>1. /\ h \in Messages /\ h = inbox[1] /\ 1 \in DOMAIN inbox /\ h \in ToSet(inbox)
        /\ DOMAIN inbox = 1 .. Len(inbox) /\ Len(inbox) \in Nat
        /\ \A i \in DOMAIN t : i \in Nat /\ i + 1 \in DOMAIN inbox /\ t[i] = inbox[i + 1]
        /\ \A i \in DOMAIN inbox : i # 1 => i - 1 \in DOMAIN t /\ t[i - 1] = inbox[i]
    BY <1>3, <1>11, TailOne
  <2>2. t \in Seq(Messages) /\ ToSet(t) = ToSet(inbox) \ {h}
    BY <1>3, <1>11, TailOne DEF ListsDisjoint
  <2>3. \A i \in DOMAIN inbox : inbox[i] \in Messages BY <1>3
  <2>4. inbox' = t BY <1>11
  <2>5. parked' \subseteq Messages BY DEF DaemonStep
  <2>6. \A m \in parked' : m \in parked \/ (m = h /\ tn_cmd_may_park(body[m].cmd)) BY <1>11
  <2>7. body[h].cmd = "CLOSE" => OnlyConnectsParked' BY <1>2, <1>11, <2>5 DEF OnlyConnectsParked
  <2> HIDE DEF h, t
  <2>8. CancelsBefore'
    <3> SUFFICES ASSUME Active, cl.phase = "collect", NEW i \in DOMAIN t,
                        body'[t[i]].cmd = "CANCEL", body'[t[i]].target = cl.msg
                 PROVE  \E j \in DOMAIN t : i < j /\ t[j] = cl.msg
      BY <1>1, <1>4, <2>4 DEF CancelsBefore
    <3>1. i \in Nat /\ i + 1 \in DOMAIN inbox /\ t[i] = inbox[i + 1] BY <2>1
    <3>2. body[inbox[i + 1]].cmd = "CANCEL" /\ body[inbox[i + 1]].target = cl.msg
      BY <1>2, <2>3, <3>1
    <3>3. PICK j \in DOMAIN inbox : i + 1 < j /\ inbox[j] = cl.msg
      BY <3>1, <3>2 DEF IInv, CancelsBefore
    <3>4. j \in Nat /\ j # 1 /\ i < j - 1 BY <2>1, <3>1, <3>3
    <3> QED BY <2>1, <3>3, <3>4
  <2>9. NoStrayInterrupt'
    <3> SUFFICES ASSUME cl.pc \in {"wait", "port", "portwait"}, cl.phase = "collect",
                        body'[cl.msg].result = "EINTR"
                 PROVE  FALSE
      BY <1>1 DEF NoStrayInterrupt
    <3>1. Active BY DEF Active
    <3>2. cl.msg \in Messages BY <3>1 DEF IInv, ClientShape, TypeOK, Messages
    <3>3. PICK m \in Messages : m = cl.msg BY <3>2
    <3>4. m \in parked /\ body[h].cmd = "CANCEL" /\ body[h].target = m
      BY <3>3 DEF DaemonStep, IInv, NoStrayInterrupt, h
    <3>5. m \in ToSet(inbox) BY <2>1, <3>1, <3>3, <3>4 DEF IInv, CancelsBefore, ToSet
    <3> QED BY <1>3, <3>4, <3>5 DEF ListsDisjoint
  <2>10. CloseLast'
    <3>1. ~(cl.pc = "freeing" /\ cl.got_msg) BY <1>11 DEF IInv, CloseLast
    <3> SUFFICES ASSUME Active, cl.cmd = "CLOSE"
                 PROVE  /\ body'[cl.msg].cmd = "CLOSE" /\ cl.msg \notin parked'
                        /\ \A i \in DOMAIN t :
                              \/ \E j \in DOMAIN t : i <= j /\ t[j] = cl.msg
                              \/ AwaitCancel /\ t[i] = ipc_cancel_msg
                        /\ cl.msg \notin ToSet(t) => OnlyConnectsParked'
      BY <1>1, <1>4, <2>4, <3>1 DEF CloseLast
    <3>2. cl.msg \in Messages BY DEF IInv, ClientShape, TypeOK, Messages
    <3>3. /\ body[cl.msg].cmd = "CLOSE" /\ cl.msg \notin parked
          /\ \A i \in DOMAIN inbox :
                \/ \E j \in DOMAIN inbox : i <= j /\ inbox[j] = cl.msg
                \/ AwaitCancel /\ inbox[i] = ipc_cancel_msg
          /\ cl.msg \notin ToSet(inbox) => OnlyConnectsParked
      BY DEF IInv, CloseLast
    <3>4. body'[cl.msg].cmd = "CLOSE" BY <1>2, <3>2, <3>3
    <3>5. cl.msg \notin parked' BY <2>6, <3>3 DEF tn_cmd_may_park
    <3>6. ASSUME NEW i \in DOMAIN t
          PROVE  \/ \E j \in DOMAIN t : i <= j /\ t[j] = cl.msg
                 \/ AwaitCancel /\ t[i] = ipc_cancel_msg
      <4>1. i \in Nat /\ i + 1 \in DOMAIN inbox /\ t[i] = inbox[i + 1] BY <2>1
      <4>2. CASE AwaitCancel /\ inbox[i + 1] = ipc_cancel_msg BY <4>1, <4>2
      <4>3. CASE \E j \in DOMAIN inbox : i + 1 <= j /\ inbox[j] = cl.msg
        <5>1. PICK j \in DOMAIN inbox : i + 1 <= j /\ inbox[j] = cl.msg BY <4>3
        <5>2. i # 0 BY <2>2, LenProperties
        <5>3. j \in Nat /\ j # 1 /\ i <= j - 1 BY <2>1, <4>1, <5>1, <5>2
        <5> QED BY <2>1, <5>1, <5>3
      <4> QED BY <3>3, <4>1, <4>2, <4>3
    <3>7. ASSUME cl.msg \notin ToSet(t) PROVE OnlyConnectsParked'
      <4>1. CASE cl.msg = h BY <2>7, <3>3, <4>1
      <4>2. CASE cl.msg # h
        <5>1. cl.msg \notin ToSet(inbox) BY <2>2, <3>7, <4>2
        <5>2. AwaitCancel /\ h = ipc_cancel_msg BY <2>1, <3>3, <5>1 DEF ToSet
        <5>3. body[h].cmd = "CANCEL" BY <5>2 DEF IInv, CancelOwned
        <5>4. parked' \subseteq parked BY <2>6, <5>3 DEF tn_cmd_may_park
        <5> QED BY <1>2, <1>3, <3>3, <5>1, <5>4 DEF OnlyConnectsParked
      <4> QED BY <4>1, <4>2
    <3> QED BY <3>4, <3>5, <3>6, <3>7
  <2>11. CloseReleases' BY <1>1, <1>11 DEF IInv, CloseReleases
  <2> QED BY <1>2, <1>5, <1>6, <1>7, <1>8, <1>9, <2>8, <2>9, <2>10, <2>11 DEF IInv
<1> QED BY <1>10, <1>11 DEF DaemonStep, QueueStep


-----------------------------------------------------------------------------
(***************************************************************************)
(* The client's steps.                                                     *)
(***************************************************************************)
ClientType ==
    [pc : {"idle", "wait", "port", "portwait", "bounded", "freeing"},
     msg : Messages \cup {None}, cmd : Calls \cup {"CLOSE"}, watch : BOOLEAN,
     why : {"reply", "break", "timeout"}, phase : {"collect", "drain"},
     spins : 0 .. MaxSpins, got_msg : BOOLEAN, got_cancel : BOOLEAN]

\* A client outside the library.
LEMMA IdleTyped ==
    /\ Idle \in ClientType /\ Idle.pc = "idle" /\ Idle.phase = "collect" /\ Idle.why = "reply"
    /\ Idle.got_msg = FALSE /\ Idle.got_cancel = FALSE /\ Idle.watch = FALSE
<1>1. 0 \in 0 .. MaxSpins BY Spins
<1> QED BY <1>1 DEF Idle, ClientType, Calls, Quick

\* The client takes replies off its port, if anything.
PortShrinks ==
    /\ replies' \in Seq(Messages) /\ NoRepeat(replies')
    /\ ToSet(replies') \subseteq ToSet(replies)

\* The steps that touch neither the daemon's lists nor the messages, and leave the
\* rest well typed.
Elsewhere ==
    /\ UNCHANGED <<body, inbox, parked, base>>
    /\ PortShrinks
    /\ alloc' \subseteq Blocks /\ ipc_orphan' \subseteq Blocks
    /\ ipc_cancel_msg' \in Blocks \cup {None}
    /\ reply_sig' \in BOOLEAN /\ break_sig' \in BOOLEAN /\ timed' \in BOOLEAN
    /\ timer_io' \in BOOLEAN

\* They keep the lists apart.
LEMMA ElsewhereKeeps ==
    ASSUME IInv, Elsewhere
    PROVE  /\ cl' \in ClientType => TypeOK'
           /\ ListsDisjoint' /\ InFlight' \subseteq InFlight /\ InFlight \subseteq Messages
<1>1. ListsDisjoint' BY DEF IInv, ListsDisjoint, Elsewhere, PortShrinks
<1>2. InFlight' \subseteq InFlight BY DEF InFlight, Elsewhere, PortShrinks
<1>3. InFlight \subseteq Messages BY DEF IInv, TypeOK, InFlight, ToSet
<1>4. cl' \in ClientType => TypeOK' BY DEF IInv, TypeOK, Elsewhere, PortShrinks, ClientType
<1> QED BY <1>1, <1>2, <1>3, <1>4

\* The call returns, or none begins: nothing the daemon may write to is freed, the
\* CANCEL message of the next call is not out, and an answered CLOSE has been
\* taken off the daemon's port with all that was queued.
LEMMA ReturnKeeps ==
    ASSUME IInv, Elsewhere, base = "open", NEW answered \in BOOLEAN,
           cl' = Idle \/ cl' = [Idle EXCEPT !.pc = "freeing", !.got_msg = answered],
           cl'.pc = "freeing" /\ answered =>
               /\ Active /\ cl.cmd = "CLOSE" /\ cl.msg \notin ToSet(inbox)
               /\ AwaitCancel => ipc_cancel_msg \notin ToSet(inbox),
           InFlight' \cap Blocks \subseteq alloc',
           ipc_cancel_msg' # None => ipc_cancel_msg' \in alloc',
           ipc_cancel_msg' \notin InFlight'
    PROVE  IInv'
<1>1. /\ cl' \in ClientType /\ cl'.pc \in {"idle", "freeing"}
      /\ cl'.pc = "freeing" => cl'.got_msg = answered
  BY IdleTyped DEF ClientType
<1>2. ~Active' /\ ~AwaitCancel' BY <1>1 DEF Active, AwaitCancel
<1>3. TypeOK' /\ ListsDisjoint' BY <1>1, ElsewhereKeeps
<1>4. base' = "open" /\ inbox' = inbox /\ parked' = parked /\ body' = body BY DEF Elsewhere
<1>5. HeldAllocated' /\ ClientShape' /\ CancelOwned' /\ CallOut' /\ CancelsBefore'
      /\ CloseReleases'
  BY <1>2, <1>4, <1>1
     DEF HeldAllocated, ClientShape, CancelOwned, CallOut, CancelsBefore, CloseReleases
<1>6. NoStrayInterrupt' BY <1>1 DEF NoStrayInterrupt
<1>7. CloseLast'
  <2> SUFFICES ASSUME cl'.pc = "freeing", answered PROVE inbox = <<>> /\ OnlyConnectsParked
    BY <1>1, <1>2, <1>4 DEF CloseLast, OnlyConnectsParked
  <2>1. /\ \A i \in DOMAIN inbox :
              \/ \E j \in DOMAIN inbox : i <= j /\ inbox[j] = cl.msg
              \/ AwaitCancel /\ inbox[i] = ipc_cancel_msg
        /\ cl.msg \notin ToSet(inbox) => OnlyConnectsParked
    BY DEF IInv, CloseLast
  <2>2. DOMAIN inbox = {} BY <2>1 DEF ToSet
  <2>3. inbox \in Seq(Messages) BY DEF IInv, TypeOK
  <2>4. inbox = <<>> BY <2>2, <2>3, TailOne
  <2> QED BY <2>1, <2>4
<1> QED BY <1>3, <1>5, <1>6, <1>7 DEF IInv

\* The call goes on: it looks at its port again, sleeps, takes a reply in the drain,
\* or starts a drain with no CANCEL to send.
LEMMA MoveKeeps ==
    ASSUME IInv, Elsewhere, Active, UNCHANGED <<alloc, ipc_orphan, ipc_cancel_msg>>,
           cl' \in ClientType, cl'.pc \in {"port", "portwait", "bounded"},
           cl'.pc = "bounded" => cl.pc = "bounded",
           cl'.msg = cl.msg, cl'.cmd = cl.cmd,
           cl'.watch \/ cl'.why = "timeout" => cl.msg \in Blocks,
           cl'.phase = "collect" => cl.phase = "collect" /\ ~cl'.got_msg /\ ~cl'.got_cancel,
           cl.phase = "drain" => cl'.phase = "drain",
           cl.msg \in InFlight' <=> ~cl'.got_msg,
           ipc_cancel_msg \in InFlight' <=> cl'.phase = "drain" /\ ~cl'.got_cancel
    PROVE  IInv'
<1>1. TypeOK' /\ ListsDisjoint' /\ InFlight' \subseteq InFlight BY ElsewhereKeeps
<1>2. /\ base' = base /\ inbox' = inbox /\ parked' = parked /\ body' = body
      /\ alloc' = alloc /\ ipc_cancel_msg' = ipc_cancel_msg
  BY DEF Elsewhere
<1>3. Active' /\ (AwaitCancel' <=> cl'.phase = "drain" /\ ~cl'.got_cancel)
  BY DEF Active, AwaitCancel
<1>4. HeldAllocated' BY <1>1, <1>2 DEF IInv, HeldAllocated
<1>5. ClientShape'
  <2>1. base = "open" BY DEF IInv, ClientShape, Active
  <2>2. cl.pc = "bounded" => cl.phase = "drain" /\ cl.msg \in Blocks /\ ipc_cancel_msg \in Blocks
    BY DEF IInv, ClientShape
  <2>3. cl.msg \in alloc \cup {Embedded} BY DEF IInv, ClientShape
  <2> QED BY <1>2, <2>1, <2>2, <2>3 DEF ClientShape, Active
<1>6. CancelOwned'
  <2>1. ipc_cancel_msg \in InFlight' => body[ipc_cancel_msg].cmd = "CANCEL"
    BY <1>1 DEF IInv, CancelOwned
  <2> QED BY <1>2, <1>3, <2>1 DEF IInv, CancelOwned
<1>7. CallOut' BY <1>3 DEF CallOut
<1>8. CancelsBefore' BY <1>2 DEF IInv, CancelsBefore
<1>9. NoStrayInterrupt'
  <2>1. cl'.phase = "collect" => cl.pc \in {"wait", "port", "portwait"}
    BY DEF IInv, ClientShape, Active
  <2> QED BY <1>2, <2>1 DEF IInv, NoStrayInterrupt
<1>10. CloseLast'
  <2>1. ASSUME NEW i \in DOMAIN inbox, inbox[i] = ipc_cancel_msg PROVE AwaitCancel'
    <3>1. inbox[i] \in InFlight' BY <1>2 DEF InFlight, ToSet
    <3> QED BY <1>3, <2>1, <3>1
  <2>2. cl'.pc # "freeing" OBVIOUS
  <2> QED BY <1>2, <2>1, <2>2 DEF IInv, CloseLast, OnlyConnectsParked
<1>11. CloseReleases' BY <1>2 DEF IInv, CloseReleases
<1> QED BY <1>1, <1>4, <1>5, <1>6, <1>7, <1>8, <1>9, <1>10, <1>11 DEF IInv


\* What holds of a call under way.
LEMMA UnderWay ==
    ASSUME IInv, Active
    PROVE  /\ base = "open" /\ cl \in ClientType /\ alloc \subseteq Blocks
           /\ cl.msg \in alloc \cup {Embedded} /\ cl.msg \in Messages
           /\ cl.msg # ipc_cancel_msg /\ cl.msg # None
           /\ cl.msg \in InFlight <=> ~cl.got_msg
           /\ ipc_cancel_msg \in InFlight <=> cl.phase = "drain" /\ ~cl.got_cancel
           /\ cl.phase = "collect" => ~cl.got_msg /\ ~cl.got_cancel
           /\ ipc_cancel_msg # None => ipc_cancel_msg \in alloc
           /\ ipc_cancel_msg \in Blocks \cup {None}
           /\ InFlight \cap Blocks \subseteq alloc
<1>1. cl \in ClientType /\ alloc \subseteq Blocks /\ ipc_cancel_msg \in Blocks \cup {None}
  BY DEF IInv, TypeOK, ClientType
<1>2. base = "open" BY DEF IInv, ClientShape, Active
<1>3. cl.msg \in alloc \cup {Embedded} /\ (cl.phase = "collect" => ~cl.got_msg /\ ~cl.got_cancel)
  BY DEF IInv, ClientShape
<1>4. cl.msg \in Messages /\ cl.msg # None BY <1>1, <1>3, Memory DEF Messages
<1>5. /\ cl.msg # ipc_cancel_msg /\ (ipc_cancel_msg # None => ipc_cancel_msg \in alloc)
      /\ (ipc_cancel_msg \in InFlight <=> cl.phase = "drain" /\ ~cl.got_cancel)
  BY <1>2 DEF IInv, CancelOwned, AwaitCancel
<1>6. cl.msg \in InFlight <=> ~cl.got_msg BY DEF IInv, CallOut
<1>7. InFlight \cap Blocks \subseteq alloc BY <1>2 DEF IInv, HeldAllocated
<1> QED BY <1>1, <1>2, <1>3, <1>4, <1>5, <1>6, <1>7

\* A step of the call: only the client's position, its blocks, the timer and the
\* reply port change.  got is what it took off its port, None when it was empty.
CallStep(got) ==
    /\ UNCHANGED <<body, inbox, parked, break_sig, timed, timer_io, ipc_cancel_msg, base>>
    /\ reply_sig' \in BOOLEAN
    /\ PortShrinks /\ InFlight' = InFlight \ {got} /\ got \notin ToSet(inbox)

\* GetMsg takes the head of the port out of circulation, and nothing else.
LEMMA TakesReply ==
    ASSUME IInv, UNCHANGED <<inbox, parked>>
    PROVE  /\ replies' = replies => /\ PortShrinks /\ InFlight' = InFlight \ {None}
                                    /\ None \notin ToSet(inbox)
           /\ replies # <<>> /\ replies' = Tail(replies) =>
                 /\ PortShrinks /\ InFlight' = InFlight \ {Head(replies)}
                 /\ Head(replies) \in Messages /\ Head(replies) \notin ToSet(inbox)
<1>1. replies \in Seq(Messages) /\ inbox \in Seq(Messages) /\ parked \subseteq Messages
      /\ ListsDisjoint
  BY DEF IInv, TypeOK
<1>2. ASSUME replies' = replies
      PROVE  PortShrinks /\ InFlight' = InFlight \ {None} /\ None \notin ToSet(inbox)
  <2>1. PortShrinks BY <1>1, <1>2 DEF PortShrinks, ListsDisjoint
  <2>2. InFlight \subseteq Messages BY <1>1 DEF InFlight, ToSet
  <2>3. None \notin InFlight BY <2>2, Memory DEF Messages
  <2> QED BY <1>2, <2>1, <2>3 DEF InFlight
<1>3. ASSUME replies # <<>>, replies' = Tail(replies)
      PROVE  /\ PortShrinks /\ InFlight' = InFlight \ {Head(replies)}
             /\ Head(replies) \in Messages /\ Head(replies) \notin ToSet(inbox)
  <2>1. NoRepeat(replies) BY <1>1 DEF ListsDisjoint
  <2>2. /\ Head(replies) \in Messages /\ replies' \in Seq(Messages) /\ NoRepeat(replies')
        /\ ToSet(replies') = ToSet(replies) \ {Head(replies)} /\ Head(replies) \in ToSet(replies)
    BY <1>1, <1>3, <2>1, TailOne
  <2>3. Head(replies) \notin ToSet(inbox) /\ Head(replies) \notin parked
    BY <1>1, <2>2 DEF ListsDisjoint
  <2>4. PortShrinks BY <2>2 DEF PortShrinks
  <2>5. InFlight' = InFlight \ {Head(replies)} BY <2>2, <2>3 DEF InFlight
  <2> QED BY <2>2, <2>3, <2>4, <2>5
<1> QED BY <1>2, <1>3

\* A call step that leaves the blocks well typed.
LEMMA CallStepElsewhere ==
    ASSUME IInv, NEW got, CallStep(got), alloc' \subseteq Blocks, ipc_orphan' \subseteq Blocks
    PROVE  Elsewhere
BY DEF CallStep, Elsewhere, IInv, TypeOK

\* The message is freed once it came back, or kept when it may still be out.
LEMMA FinishKeeps ==
    ASSUME IInv, Active, NEW got, CallStep(got), NEW answered \in BOOLEAN,
           \/ Finish(answered) /\ (cl.msg \notin InFlight' \/ cl.msg = Embedded)
           \/ tn_ipc_orphan_heap(answered) /\ cl.msg \in Blocks,
           ipc_cancel_msg \notin InFlight',
           answered => /\ cl.msg \notin ToSet(inbox)
                       /\ AwaitCancel => ipc_cancel_msg \notin ToSet(inbox)
    PROVE  IInv'
<1>1. cl' = Done(answered) BY DEF Finish, tn_ipc_orphan_heap
<1>2. /\ cl' = Idle \/ cl' = [Idle EXCEPT !.pc = "freeing", !.got_msg = answered]
      /\ cl'.pc = "freeing" => cl.cmd = "CLOSE"
  BY <1>1 DEF Done, Idle
<1>3. /\ alloc' = alloc \ {cl.msg} \/ alloc' = alloc
      /\ alloc' # alloc => cl.msg \notin InFlight' \/ cl.msg = Embedded
      /\ ipc_orphan' = ipc_orphan \/ (ipc_orphan' = ipc_orphan \cup {cl.msg} /\ cl.msg \in Blocks)
  BY DEF Finish, tn_ipc_orphan_heap
<1>4. alloc' \subseteq Blocks /\ ipc_orphan' \subseteq Blocks BY <1>3 DEF IInv, TypeOK
<1>5. Elsewhere BY <1>4, CallStepElsewhere
<1>6. InFlight' \subseteq InFlight BY DEF CallStep
<1>7. InFlight' \cap Blocks \subseteq alloc' BY <1>3, <1>6, UnderWay, Memory
<1>8. ipc_cancel_msg' = ipc_cancel_msg BY DEF CallStep
<1>9. ipc_cancel_msg' # None => ipc_cancel_msg' \in alloc' BY <1>3, <1>8, UnderWay
<1>10. base = "open" BY UnderWay
<1> QED BY <1>2, <1>5, <1>7, <1>8, <1>9, <1>10, ReturnKeeps

\* Looking at the port for the reply of the call.
LEMMA DispatchKeeps ==
    ASSUME IInv, cl.pc \in {"wait", "port"}, cl.phase = "collect",
           NEW got, CallStep(got), got # ipc_cancel_msg \/ got = None, Dispatch(got)
    PROVE  IInv'
<1>1. Active BY DEF Active
<1>2. /\ cl \in ClientType /\ cl.msg \in Messages /\ cl.msg \in InFlight /\ ~cl.got_msg
      /\ ~cl.got_cancel /\ ipc_cancel_msg \notin InFlight
  BY <1>1, UnderWay
<1>3. InFlight' = InFlight \ {got} /\ got \notin ToSet(inbox) BY DEF CallStep
<1>4. ~AwaitCancel BY DEF AwaitCancel
<1>5. CASE got = cl.msg
  <2>1. Finish(TRUE) BY <1>5 DEF Dispatch
  <2> QED BY <1>1, <1>2, <1>3, <1>4, <1>5, <2>1, FinishKeeps
<1>6. CASE got # cl.msg /\ cl.spins < MaxSpins
  <2>1. PICK n \in 0 .. MaxSpins : n = cl.spins + 1 BY <1>2, <1>6, Spins DEF ClientType
  <2>2. cl' = [cl EXCEPT !.pc = "port", !.spins = n] /\ UNCHANGED <<alloc, ipc_orphan>>
    BY <1>6, <2>1 DEF Dispatch
  <2>3. /\ cl' \in ClientType /\ cl'.pc = "port" /\ cl'.msg = cl.msg /\ cl'.cmd = cl.cmd
        /\ cl'.watch = cl.watch /\ cl'.why = cl.why /\ cl'.phase = "collect"
        /\ ~cl'.got_msg /\ ~cl'.got_cancel
    BY <1>2, <2>2 DEF ClientType
  <2>4. cl.watch \/ cl.why = "timeout" => cl.msg \in Blocks BY <1>1 DEF IInv, ClientShape
  <2>5. Elsewhere /\ UNCHANGED ipc_cancel_msg
    BY <2>2, CallStepElsewhere DEF IInv, TypeOK, CallStep
  <2> HIDE DEF Elsewhere
  <2> QED BY <1>1, <1>2, <1>3, <1>6, <2>2, <2>3, <2>4, <2>5, MoveKeeps
<1>7. CASE got # cl.msg /\ ~(cl.spins < MaxSpins)
  <2>1. IF InHeap(cl.msg) THEN tn_ipc_orphan_heap(FALSE) ELSE Finish(FALSE)
    BY <1>7 DEF Dispatch
  <2>2. IF cl.msg # Embedded THEN tn_ipc_orphan_heap(FALSE) /\ cl.msg \in Blocks
        ELSE Finish(FALSE)
    BY <1>2, <2>1 DEF InHeap, Messages
  <2> QED BY <1>1, <1>2, <1>3, <2>2, FinishKeeps
<1> QED BY <1>5, <1>6, <1>7

\* Taking replies in the drain.
LEMMA DrainKeeps ==
    ASSUME IInv, cl.pc \in {"port", "bounded"}, cl.phase = "drain",
           NEW got \in Messages, CallStep(got), Drain(got)
    PROVE  IInv'
<1>1. Active BY DEF Active
<1>2. /\ cl \in ClientType /\ cl.msg \in Messages /\ (cl.msg \in InFlight <=> ~cl.got_msg)
      /\ (ipc_cancel_msg \in InFlight <=> ~cl.got_cancel) /\ cl.msg # ipc_cancel_msg
  BY <1>1, UnderWay
<1>3. InFlight' = InFlight \ {got} /\ got \notin ToSet(inbox) BY DEF CallStep
<1>4. AwaitCancel <=> ~cl.got_cancel BY <1>1 DEF AwaitCancel
<1>5. cl.watch \/ cl.why = "timeout" => cl.msg \in Blocks BY <1>1 DEF IInv, ClientShape
<1> DEFINE gm == cl.got_msg \/ got = cl.msg
           gc == cl.got_cancel \/ got = ipc_cancel_msg
<1>6. CASE gm /\ gc
  <2>1. Cancelled BY <1>6 DEF Drain
  <2>2. \/ Finish(TRUE)
        \/ tn_ipc_orphan_heap(TRUE) /\ cl.msg \in Blocks
    BY <1>5, <2>1 DEF Cancelled
  <2>3. cl.msg \notin InFlight' /\ ipc_cancel_msg \notin InFlight' BY <1>2, <1>3, <1>6
  <2>4. inbox' = inbox BY DEF CallStep
  <2>5. ToSet(inbox) \subseteq InFlight' BY <2>4 DEF InFlight
  <2> QED BY <1>1, <2>2, <2>3, <2>5, FinishKeeps
<1>7. CASE ~(gm /\ gc)
  <2>1. PICK a \in BOOLEAN, b \in BOOLEAN : a = gm /\ b = gc BY <1>2 DEF ClientType
  <2>2. cl' = [cl EXCEPT !.got_msg = a, !.got_cancel = b] /\ UNCHANGED <<alloc, ipc_orphan>>
    BY <1>7, <2>1 DEF Drain
  <2>3. /\ cl' \in ClientType /\ cl'.pc = cl.pc /\ cl'.msg = cl.msg /\ cl'.cmd = cl.cmd
        /\ cl'.watch = cl.watch /\ cl'.why = cl.why /\ cl'.phase = "drain"
        /\ cl'.got_msg = a /\ cl'.got_cancel = b
    BY <1>2, <2>2 DEF ClientType
  <2>4. Elsewhere /\ UNCHANGED ipc_cancel_msg
    BY <2>2, CallStepElsewhere DEF IInv, TypeOK, CallStep
  <2>5. cl.msg \in InFlight' <=> ~a BY <1>2, <1>3, <2>1
  <2>6. ipc_cancel_msg \in InFlight' <=> ~b BY <1>2, <1>3, <2>1
  <2> HIDE DEF Elsewhere, gm, gc
  <2> QED BY <1>1, <1>5, <2>2, <2>3, <2>4, <2>5, <2>6, MoveKeeps
<1> QED BY <1>6, <1>7


\* The steps that look at the port: Wait() returned, WaitPort, GetMsg.
LEMMA PortKeeps ==
    ASSUME IInv, WakeReply \/ WaitPortSleeps \/ WaitPortWakes \/ GetMsg \/ BoundedWait
    PROVE  IInv'
<1>1. CASE WakeReply
  <2>1. /\ cl.pc = "wait"
        /\ UNCHANGED <<body, inbox, parked, break_sig, timed, timer_io, ipc_cancel_msg, base>>
        /\ reply_sig' \in BOOLEAN
    BY <1>1 DEF WakeReply
  <2>2. Active /\ cl.phase = "collect" BY <2>1 DEF Active, IInv, ClientShape
  <2>3. ipc_cancel_msg \notin InFlight BY <2>2, UnderWay
  <2>4. CASE replies = <<>>
    <3>1. Dispatch(None) /\ replies' = replies BY <1>1, <2>4 DEF WakeReply
    <3>2. CallStep(None) BY <2>1, <3>1, TakesReply DEF CallStep
    <3> QED BY <2>1, <2>2, <3>1, <3>2, DispatchKeeps
  <2>5. CASE replies # <<>>
    <3>1. Dispatch(Head(replies)) /\ replies' = Tail(replies) BY <1>1, <2>5 DEF WakeReply
    <3> DEFINE got == Head(replies)
    <3>2. CallStep(got) BY <2>1, <2>5, <3>1, TakesReply DEF CallStep
    <3>3. got \in InFlight BY <2>5, TailOne DEF IInv, TypeOK, InFlight
    <3>4. Dispatch(got) BY <3>1
    <3> HIDE DEF got
    <3> QED BY <2>1, <2>2, <2>3, <3>2, <3>3, <3>4, DispatchKeeps
  <2> QED BY <2>4, <2>5
<1>2. CASE GetMsg
  <2> DEFINE got == Head(replies)
  <2>1. /\ cl.pc \in {"port", "bounded"} /\ replies # <<>> /\ replies' = Tail(replies)
        /\ UNCHANGED <<body, inbox, parked, reply_sig, break_sig, timed, timer_io,
                       ipc_cancel_msg, base>>
    BY <1>2 DEF GetMsg
  <2>2. Active /\ reply_sig' \in BOOLEAN BY <2>1 DEF Active, IInv, TypeOK
  <2>3. CallStep(got) /\ got \in Messages BY <2>1, <2>2, TakesReply DEF CallStep
  <2>4. got \in InFlight BY <2>1, TailOne DEF IInv, TypeOK, InFlight
  <2>5. cl.phase \in {"collect", "drain"} BY <2>2, UnderWay DEF ClientType
  <2>6. CASE cl.phase = "collect"
    <3>1. Dispatch(got) BY <1>2, <2>6 DEF GetMsg
    <3>2. cl.pc = "port" BY <2>1, <2>6 DEF IInv, ClientShape
    <3>3. ipc_cancel_msg \notin InFlight BY <2>2, <2>6, UnderWay
    <3> HIDE DEF got
    <3> QED BY <2>3, <2>4, <2>6, <3>1, <3>2, <3>3, DispatchKeeps
  <2>7. CASE cl.phase = "drain"
    <3>1. Drain(got) BY <1>2, <2>7 DEF GetMsg
    <3> HIDE DEF got
    <3> QED BY <2>1, <2>3, <2>7, <3>1, DrainKeeps
  <2> QED BY <2>5, <2>6, <2>7
<1>3. CASE WaitPortSleeps \/ WaitPortWakes \/ BoundedWait
  <2>1. Active BY <1>3 DEF Active, WaitPortSleeps, WaitPortWakes, BoundedWait
  <2>2. /\ cl \in ClientType /\ (cl.msg \in InFlight <=> ~cl.got_msg)
        /\ (ipc_cancel_msg \in InFlight <=> cl.phase = "drain" /\ ~cl.got_cancel)
        /\ (cl.phase = "collect" => ~cl.got_msg /\ ~cl.got_cancel)
    BY <2>1, UnderWay
  <2>3. /\ UNCHANGED <<body, inbox, parked, replies, break_sig, alloc, timed, timer_io, ipc_orphan,
                       ipc_cancel_msg, base>>
        /\ reply_sig' \in BOOLEAN
    BY <1>3 DEF WaitPortSleeps, WaitPortWakes, BoundedWait, cvars, dvars, IInv, TypeOK
  <2>4. \E pc \in {"port", "portwait", "bounded"} :
           cl' = [cl EXCEPT !.pc = pc] /\ (pc = "bounded" => cl.pc = "bounded")
    <3>1. CASE WaitPortSleeps BY <3>1 DEF WaitPortSleeps
    <3>2. CASE WaitPortWakes BY <3>2 DEF WaitPortWakes
    <3>3. CASE BoundedWait
      <4>1. cl' = [cl EXCEPT !.pc = "bounded"] /\ cl.pc = "bounded"
        BY <2>2, <3>3 DEF BoundedWait, ClientType
      <4> QED BY <4>1
    <3> QED BY <1>3, <3>1, <3>2, <3>3
  <2>5. /\ cl' \in ClientType /\ cl'.pc \in {"port", "portwait", "bounded"}
        /\ (cl'.pc = "bounded" => cl.pc = "bounded") /\ cl'.msg = cl.msg /\ cl'.cmd = cl.cmd
        /\ cl'.watch = cl.watch /\ cl'.why = cl.why /\ cl'.phase = cl.phase
        /\ cl'.got_msg = cl.got_msg /\ cl'.got_cancel = cl.got_cancel
    BY <2>2, <2>4 DEF ClientType
  <2>6. InFlight' = InFlight BY <2>3 DEF InFlight
  <2>7. PortShrinks BY <2>3, TakesReply
  <2>8. Elsewhere BY <2>3, <2>7 DEF Elsewhere, IInv, TypeOK
  <2>9. cl.watch \/ cl.why = "timeout" => cl.msg \in Blocks BY <2>1 DEF IInv, ClientShape
  <2>10. UNCHANGED <<alloc, ipc_orphan, ipc_cancel_msg>> BY <2>3
  <2> HIDE DEF Elsewhere
  <2> QED BY <2>1, <2>2, <2>5, <2>6, <2>8, <2>9, <2>10, MoveKeeps
<1> QED BY <1>1, <1>2, <1>3

-----------------------------------------------------------------------------
\* A message that is on no list is put behind the others in the daemon's port.
LEMMA SendKeepsLists ==
    ASSUME IInv, PortShrinks, UNCHANGED parked, NEW m \in Messages, m \notin InFlight,
           inbox' = Append(inbox, m)
    PROVE  /\ inbox' \in Seq(Messages) /\ ListsDisjoint'
           /\ InFlight' = ToSet(inbox) \cup {m} \cup parked \cup ToSet(replies')
           /\ DOMAIN inbox = 1 .. Len(inbox) /\ Len(inbox) \in Nat
           /\ DOMAIN inbox' = 1 .. Len(inbox) + 1
           /\ \A i \in DOMAIN inbox : inbox'[i] = inbox[i] /\ inbox'[i] # m
           /\ inbox'[Len(inbox) + 1] = m
<1>1. inbox \in Seq(Messages) /\ ListsDisjoint BY DEF IInv, TypeOK
<1>2. m \notin ToSet(inbox) /\ m \notin parked /\ m \notin ToSet(replies) BY DEF InFlight
<1>3. NoRepeat(inbox) BY <1>1 DEF ListsDisjoint
<1>4. /\ inbox' \in Seq(Messages) /\ DOMAIN inbox = 1 .. Len(inbox) /\ Len(inbox) \in Nat
      /\ DOMAIN inbox' = 1 .. Len(inbox) + 1
      /\ \A i \in DOMAIN inbox : inbox'[i] = inbox[i]
      /\ inbox'[Len(inbox) + 1] = m
      /\ ToSet(inbox') = ToSet(inbox) \cup {m}
      /\ NoRepeat(inbox')
  BY <1>1, <1>2, <1>3, AppendOne
<1>5. ListsDisjoint' BY <1>1, <1>2, <1>4 DEF ListsDisjoint, PortShrinks
<1>6. InFlight' = ToSet(inbox) \cup {m} \cup parked \cup ToSet(replies') BY <1>4 DEF InFlight
<1>7. \A i \in DOMAIN inbox : inbox[i] # m BY <1>2 DEF ToSet
<1> QED BY <1>4, <1>5, <1>6, <1>7

\* CANCEL is sent for the call under way.
LEMMA CancelSent ==
    ASSUME IInv, cl.pc = "wait", ipc_cancel_msg # None, PutMsg(ipc_cancel_msg, "CANCEL", cl.msg),
           NEW why \in {"break", "timeout"}, NEW pc \in {"bounded", "port"},
           cl' = [cl EXCEPT !.pc = pc, !.phase = "drain", !.why = why],
           pc = "bounded" => cl.msg \in Blocks,
           why = "timeout" => cl.watch,
           UNCHANGED <<alloc, ipc_orphan, parked, replies, break_sig, timed, ipc_cancel_msg, base>>,
           reply_sig' \in BOOLEAN, timer_io' \in BOOLEAN
    PROVE  IInv'
<1> DEFINE c == ipc_cancel_msg
<1>1. Active /\ cl.phase = "collect" BY DEF Active, IInv, ClientShape
<1>2. /\ base = "open" /\ cl \in ClientType /\ alloc \subseteq Blocks
      /\ cl.msg \in alloc \cup {Embedded} /\ cl.msg \in Messages
      /\ cl.msg # c /\ cl.msg # None /\ cl.msg \in InFlight /\ ~cl.got_msg /\ ~cl.got_cancel
      /\ c \notin InFlight /\ c \in alloc /\ InFlight \cap Blocks \subseteq alloc
  BY <1>1, UnderWay
<1>3. c \in Messages BY <1>2 DEF Messages
<1>4. /\ cl' \in ClientType /\ cl'.pc = pc /\ cl'.phase = "drain" /\ cl'.why = why
      /\ cl'.msg = cl.msg /\ cl'.cmd = cl.cmd /\ cl'.watch = cl.watch
      /\ ~cl'.got_msg /\ ~cl'.got_cancel
  BY <1>2 DEF ClientType
<1>5. Active' /\ AwaitCancel' BY <1>4 DEF Active, AwaitCancel
<1>6. PortShrinks BY DEF PortShrinks, IInv, TypeOK, ListsDisjoint
<1>7. inbox' = Append(inbox, c) BY DEF PutMsg
<1>8. body \in [Messages -> BodyType] BY DEF IInv, TypeOK, BodyType
<1>9. /\ body' \in [Messages -> BodyType] /\ body'[c].cmd = "CANCEL"
      /\ \A m \in Messages : m # c => body'[m] = body[m]
  BY <1>2, <1>3, <1>8 DEF PutMsg, BodyType, Results
<1>10. UNCHANGED parked OBVIOUS
<1> HIDE DEF c
<1>11. /\ inbox' \in Seq(Messages) /\ ListsDisjoint'
       /\ InFlight' = ToSet(inbox) \cup {c} \cup parked \cup ToSet(replies')
       /\ DOMAIN inbox = 1 .. Len(inbox) /\ Len(inbox) \in Nat
       /\ DOMAIN inbox' = 1 .. Len(inbox) + 1
       /\ \A i \in DOMAIN inbox : inbox'[i] = inbox[i] /\ inbox'[i] # c
       /\ inbox'[Len(inbox) + 1] = c
  BY <1>2, <1>3, <1>6, <1>7, <1>10, SendKeepsLists
<1>12. InFlight' = InFlight \cup {c} BY <1>11 DEF InFlight
<1>13. TypeOK' BY <1>4, <1>9, <1>11 DEF IInv, TypeOK, ClientType, BodyType
<1>14. HeldAllocated' BY <1>2, <1>12 DEF HeldAllocated
<1>15. ClientShape'
  <2>1. cl.watch => cl.msg \in Blocks BY <1>1 DEF IInv, ClientShape
  <2>2. c \in Blocks BY <1>2
  <2> QED BY <1>2, <1>4, <2>1, <2>2 DEF ClientShape, c
<1>16. CancelOwned' BY <1>2, <1>4, <1>5, <1>9, <1>12 DEF CancelOwned, c
<1>17. CallOut' BY <1>2, <1>4, <1>12 DEF CallOut
<1>18. CancelsBefore' /\ NoStrayInterrupt' BY <1>4 DEF CancelsBefore, NoStrayInterrupt
<1>19. CloseLast'
  <2> SUFFICES ASSUME cl.cmd = "CLOSE"
               PROVE  /\ body'[cl.msg].cmd = "CLOSE" /\ cl.msg \notin parked
                      /\ \A i \in DOMAIN inbox' :
                            \/ \E j \in DOMAIN inbox' : i <= j /\ inbox'[j] = cl.msg
                            \/ inbox'[i] = c
                      /\ cl.msg \notin ToSet(inbox') => OnlyConnectsParked'
    BY <1>4, <1>5 DEF CloseLast, c
  <2>1. /\ body[cl.msg].cmd = "CLOSE" /\ cl.msg \notin parked
        /\ \A i \in DOMAIN inbox : \E j \in DOMAIN inbox : i <= j /\ inbox[j] = cl.msg
        /\ cl.msg \notin ToSet(inbox) => OnlyConnectsParked
    BY <1>1 DEF IInv, CloseLast, AwaitCancel
  <2>2. ASSUME NEW i \in DOMAIN inbox', inbox'[i] # c
        PROVE  \E j \in DOMAIN inbox' : i <= j /\ inbox'[j] = cl.msg
    <3>1. i \in DOMAIN inbox BY <1>11, <2>2
    <3>2. PICK j \in DOMAIN inbox : i <= j /\ inbox[j] = cl.msg BY <2>1, <3>1
    <3>3. j \in DOMAIN inbox' BY <1>11
    <3> QED BY <1>11, <3>2, <3>3
  <2>3. ASSUME cl.msg \notin ToSet(inbox') PROVE OnlyConnectsParked'
    <3>1. DOMAIN inbox \subseteq DOMAIN inbox' BY <1>11
    <3>2. cl.msg \notin ToSet(inbox) BY <1>11, <2>3, <3>1 DEF ToSet
    <3>3. c \notin parked /\ parked \subseteq Messages BY <1>2 DEF InFlight, IInv, TypeOK
    <3> QED BY <1>9, <2>1, <3>2, <3>3 DEF OnlyConnectsParked
  <2> QED BY <1>2, <1>9, <2>1, <2>2, <2>3
<1>20. CloseReleases' BY <1>2 DEF CloseReleases
<1> QED BY <1>11, <1>13, <1>14, <1>15, <1>16, <1>17, <1>18, <1>19, <1>20 DEF IInv


\* A break or the watchdog ends the wait.
LEMMA SendCancelKeeps ==
    ASSUME IInv, cl.pc = "wait", NEW why \in {"break", "timeout"}, SendCancel(why),
           why = "timeout" => cl.watch, reply_sig' \in BOOLEAN,
           UNCHANGED <<parked, replies, break_sig, timed, ipc_cancel_msg, base>>
    PROVE  IInv'
<1>1. Active /\ cl.phase = "collect" BY DEF Active, IInv, ClientShape
<1>2. /\ base = "open" /\ cl \in ClientType /\ cl.msg \in Messages /\ cl.msg \in InFlight
      /\ ~cl.got_msg /\ ~cl.got_cancel /\ ipc_cancel_msg \notin InFlight
      /\ InFlight \cap Blocks \subseteq alloc /\ (ipc_cancel_msg # None => ipc_cancel_msg \in alloc)
  BY <1>1, UnderWay
<1>3. timer_io' \in BOOLEAN BY DEF SendCancel, tn_ensure_timer, IInv, TypeOK
<1>4. cl.watch => cl.msg \in Blocks BY <1>1 DEF IInv, ClientShape
<1>5. PortShrinks BY DEF PortShrinks, IInv, TypeOK, ListsDisjoint
<1>6. CASE ipc_cancel_msg # None
  <2>1. /\ PutMsg(ipc_cancel_msg, "CANCEL", cl.msg) /\ UNCHANGED <<alloc, ipc_orphan>>
        /\ cl' = [cl EXCEPT !.pc = IF InHeap(cl.msg) /\ timer_io' THEN "bounded" ELSE "port",
                            !.phase = "drain", !.why = why]
    BY <1>6 DEF SendCancel
  <2>2. PICK pc \in {"bounded", "port"} : pc = IF InHeap(cl.msg) /\ timer_io' THEN "bounded" ELSE "port"
    OBVIOUS
  <2>3. cl' = [cl EXCEPT !.pc = pc, !.phase = "drain", !.why = why] BY <2>1, <2>2
  <2>4. pc = "bounded" => cl.msg \in Blocks BY <1>2, <2>2 DEF InHeap, Messages
  <2> HIDE DEF IInv
  <2> QED BY <1>3, <1>6, <2>1, <2>3, <2>4, CancelSent
<1>7. CASE ipc_cancel_msg = None /\ InHeap(cl.msg)
  <2>1. tn_ipc_orphan_heap(FALSE) /\ UNCHANGED <<body, inbox>> BY <1>7 DEF SendCancel
  <2>2. cl.msg \in Blocks BY <1>2, <1>7 DEF InHeap, Messages
  <2>3. alloc' = alloc /\ ipc_orphan' = ipc_orphan \cup {cl.msg} /\ cl' = Done(FALSE)
    BY <2>1 DEF tn_ipc_orphan_heap
  <2>4. Elsewhere BY <1>3, <1>5, <2>1, <2>2, <2>3 DEF Elsewhere, IInv, TypeOK
  <2>5. cl' = Idle \/ cl' = [Idle EXCEPT !.pc = "freeing", !.got_msg = FALSE]
    BY <2>3 DEF Done
  <2>6. InFlight' = InFlight BY <2>1 DEF InFlight
  <2>7. ipc_cancel_msg' = ipc_cancel_msg OBVIOUS
  <2> HIDE DEF Elsewhere
  <2> QED BY <1>2, <2>3, <2>4, <2>5, <2>6, <2>7, ReturnKeeps
<1>8. CASE ipc_cancel_msg = None /\ ~InHeap(cl.msg)
  <2>1. /\ cl' = [cl EXCEPT !.pc = "port", !.phase = "drain", !.why = why, !.got_cancel = TRUE]
        /\ UNCHANGED <<alloc, ipc_orphan, body, inbox>>
    BY <1>8 DEF SendCancel
  <2>2. /\ cl' \in ClientType /\ cl'.pc = "port" /\ cl'.phase = "drain" /\ cl'.why = why
        /\ cl'.got_cancel /\ ~cl'.got_msg /\ cl'.msg = cl.msg /\ cl'.cmd = cl.cmd
        /\ cl'.watch = cl.watch
    BY <1>2, <2>1 DEF ClientType
  <2>3. Elsewhere BY <1>3, <1>5, <2>1 DEF Elsewhere, IInv, TypeOK
  <2>4. InFlight' = InFlight BY <2>1 DEF InFlight
  <2>5. UNCHANGED <<alloc, ipc_orphan, ipc_cancel_msg>> BY <2>1
  <2> HIDE DEF Elsewhere
  <2> QED BY <1>1, <1>2, <1>4, <2>2, <2>3, <2>4, <2>5, MoveKeeps
<1> QED BY <1>6, <1>7, <1>8

\* ipc_timeout_ms is over once more: what may still be out is kept.
LEMMA GiveUpKeeps == ASSUME IInv, GiveUp PROVE IInv'
<1> DEFINE orphans == (IF cl.got_cancel THEN {} ELSE {ipc_cancel_msg})
                      \cup (IF cl.why = "timeout" \/ ~cl.got_msg THEN {cl.msg} ELSE {})
           kept == alloc \ ({cl.msg} \ orphans)
<1>1. cl.pc = "bounded" /\ Active BY DEF GiveUp, Active
<1>2. cl.phase = "drain" /\ cl.msg \in Blocks /\ ipc_cancel_msg \in Blocks
  BY <1>1 DEF IInv, ClientShape
<1>3. /\ base = "open" /\ alloc \subseteq Blocks /\ (cl.msg \in InFlight <=> ~cl.got_msg)
      /\ (ipc_cancel_msg \in InFlight <=> ~cl.got_cancel) /\ cl.msg # ipc_cancel_msg
      /\ ipc_cancel_msg \in alloc /\ InFlight \cap Blocks \subseteq alloc
  BY <1>1, <1>2, UnderWay, Memory
<1>4. /\ ipc_orphan' = ipc_orphan \cup orphans /\ cl' = Done(FALSE)
      /\ IF cl.got_cancel THEN alloc' = kept /\ UNCHANGED ipc_cancel_msg
         ELSE \/ \E c \in Blocks \ alloc : alloc' = kept \cup {c} /\ ipc_cancel_msg' = c
              \/ alloc' = kept /\ ipc_cancel_msg' = None
      /\ UNCHANGED <<body, inbox, parked, replies, reply_sig, break_sig, timed, timer_io, base>>
  BY DEF GiveUp, dvars
<1>5. orphans \subseteq Blocks BY <1>2
<1>6. /\ kept \subseteq alloc /\ InFlight \cap Blocks \subseteq kept /\ ipc_cancel_msg \in kept
  BY <1>3
<1> HIDE DEF orphans, kept
<1>7. /\ alloc' \subseteq Blocks /\ kept \subseteq alloc'
      /\ ipc_cancel_msg' \in Blocks \cup {None}
      /\ ipc_cancel_msg' # None => ipc_cancel_msg' \in alloc'
  BY <1>2, <1>3, <1>4, <1>6
<1>8. InFlight \subseteq Messages BY DEF IInv, TypeOK, InFlight, ToSet
<1>9. ipc_cancel_msg' \notin InFlight
  <2>1. None \notin InFlight BY <1>8, Memory DEF Messages
  <2>2. \A c \in Blocks \ alloc : c \notin InFlight BY <1>3
  <2> QED BY <1>3, <1>4, <2>1, <2>2
<1>10. PortShrinks BY <1>4 DEF PortShrinks, IInv, TypeOK, ListsDisjoint
<1>11. Elsewhere BY <1>4, <1>5, <1>7, <1>10 DEF Elsewhere, IInv, TypeOK
<1>12. cl' = Idle \/ cl' = [Idle EXCEPT !.pc = "freeing", !.got_msg = FALSE] BY <1>4 DEF Done
<1>13. InFlight' = InFlight BY <1>4 DEF InFlight
<1>14. InFlight' \cap Blocks \subseteq alloc' BY <1>6, <1>7, <1>13
<1> HIDE DEF Elsewhere
<1> QED BY <1>3, <1>7, <1>9, <1>11, <1>12, <1>13, <1>14, ReturnKeeps

\* Closing frees everything.
LEMMA LibCloseKeeps == ASSUME IInv, tn_lib_close PROVE IInv'
<1>1. /\ cl.pc = "freeing" /\ replies' = <<>> /\ alloc' = alloc \ (ipc_orphan \cup {ipc_cancel_msg})
      /\ ipc_orphan' = {} /\ ipc_cancel_msg' = None
      /\ base' = (IF cl.got_msg THEN "closed" ELSE "torn") /\ cl' = Idle
      /\ UNCHANGED <<body, inbox, parked, reply_sig, break_sig, timed, timer_io>>
  BY DEF tn_lib_close
<1>2. Idle \in ClientType /\ Idle.pc = "idle" BY IdleTyped
<1>3. replies' \in Seq(Messages) /\ NoRepeat(replies') /\ ToSet(replies') = {}
  <2>1. Embedded \in Messages BY DEF Messages
  <2> QED BY <1>1, <2>1, ShortSeqs
<1>4. ~Active' /\ ~AwaitCancel' /\ cl'.pc = "idle" BY <1>1, <1>2 DEF Active, AwaitCancel
<1>5. TypeOK' BY <1>1, <1>2, <1>3 DEF IInv, TypeOK, ClientType
<1>6. ListsDisjoint' BY <1>1, <1>3 DEF IInv, ListsDisjoint
<1>7. base' # "open" BY <1>1
<1>8. InFlight' \subseteq Messages BY <1>1, <1>3 DEF IInv, TypeOK, InFlight, ToSet
<1>9. ipc_cancel_msg' \notin InFlight' BY <1>1, <1>8, Memory DEF Messages
<1>10. HeldAllocated' /\ CancelOwned' /\ CallOut' /\ CancelsBefore' /\ NoStrayInterrupt' /\ ClientShape'
  BY <1>4, <1>7, <1>9
     DEF HeldAllocated, CancelOwned, CallOut, CancelsBefore, NoStrayInterrupt, ClientShape
<1>11. CloseLast' BY <1>4 DEF CloseLast
<1>12. CloseReleases' BY <1>1 DEF IInv, CloseLast, CloseReleases, OnlyConnectsParked
<1> QED BY <1>5, <1>6, <1>10, <1>11, <1>12 DEF IInv

\* A request is sent with a message that is on no list.
LEMMA RequestSent ==
    ASSUME IInv, cl.pc = "idle", base = "open", NEW cmd \in Calls \cup {"CLOSE"},
           NEW m \in Messages, NEW watch \in BOOLEAN, m \notin InFlight, m # ipc_cancel_msg,
           PutMsg(m, cmd, None), PortShrinks,
           cl' = [Idle EXCEPT !.pc = "wait", !.msg = m, !.cmd = cmd, !.watch = watch],
           watch => m \in Blocks,
           alloc \subseteq alloc', alloc' \subseteq Blocks, m \in alloc' \cup {Embedded},
           UNCHANGED <<parked, reply_sig, break_sig, timed, ipc_orphan, ipc_cancel_msg, base>>,
           timer_io' \in BOOLEAN
    PROVE  IInv'
<1>1. /\ cl' \in ClientType /\ cl'.pc = "wait" /\ cl'.phase = "collect" /\ cl'.why = "reply"
      /\ cl'.msg = m /\ cl'.cmd = cmd /\ cl'.watch = watch /\ ~cl'.got_msg /\ ~cl'.got_cancel
  BY IdleTyped DEF ClientType
<1>2. Active' /\ ~AwaitCancel' BY <1>1 DEF Active, AwaitCancel
<1>3. ~AwaitCancel BY DEF AwaitCancel, Active
<1>4. inbox' = Append(inbox, m) BY DEF PutMsg
<1>5. /\ inbox' \in Seq(Messages) /\ ListsDisjoint'
      /\ InFlight' = ToSet(inbox) \cup {m} \cup parked \cup ToSet(replies')
      /\ DOMAIN inbox = 1 .. Len(inbox) /\ Len(inbox) \in Nat
      /\ DOMAIN inbox' = 1 .. Len(inbox) + 1
      /\ \A i \in DOMAIN inbox : inbox'[i] = inbox[i] /\ inbox'[i] # m
      /\ inbox'[Len(inbox) + 1] = m
  BY <1>4, SendKeepsLists
<1>6. InFlight' \subseteq InFlight \cup {m} BY <1>5 DEF InFlight, PortShrinks
<1>7. body \in [Messages -> BodyType] BY DEF IInv, TypeOK, BodyType
<1>8. /\ body' \in [Messages -> BodyType] /\ body'[m].cmd = cmd /\ body'[m].result = "none"
      /\ \A k \in Messages : k # m => body'[k] = body[k]
  BY <1>7 DEF PutMsg, BodyType, Results
<1>9. TypeOK' BY <1>1, <1>5, <1>8 DEF IInv, TypeOK, ClientType, BodyType, PortShrinks
<1>10. HeldAllocated'
  <2>1. InFlight \cap Blocks \subseteq alloc BY DEF IInv, HeldAllocated
  <2>2. m \in Blocks => m \in alloc' BY Memory
  <2> QED BY <1>6, <2>1, <2>2 DEF HeldAllocated
<1>11. ClientShape' BY <1>1 DEF ClientShape
<1>12. CancelOwned'
  <2>1. ipc_cancel_msg \notin InFlight' BY <1>3, <1>6 DEF IInv, CancelOwned
  <2>2. ipc_cancel_msg # None => ipc_cancel_msg \in alloc BY DEF IInv, CancelOwned
  <2> QED BY <1>1, <1>2, <2>1, <2>2 DEF CancelOwned
<1>13. CallOut' BY <1>1, <1>5 DEF CallOut
<1>14. CancelsBefore'
  <2> SUFFICES ASSUME NEW i \in DOMAIN inbox', body'[inbox'[i]].cmd = "CANCEL"
               PROVE  \E j \in DOMAIN inbox' : i < j /\ inbox'[j] = m
    BY <1>1 DEF CancelsBefore
  <2>1. i # Len(inbox) + 1 BY <1>5, <1>8 DEF Calls, Quick
  <2>2. i < Len(inbox) + 1 BY <1>5, <2>1
  <2> QED BY <1>5, <2>2
<1>15. NoStrayInterrupt' BY <1>1, <1>8 DEF NoStrayInterrupt
<1>16. CloseLast'
  <2>1. \A i \in DOMAIN inbox' : \E j \in DOMAIN inbox' : i <= j /\ inbox'[j] = m BY <1>5
  <2>2. m \in ToSet(inbox') BY <1>5 DEF ToSet
  <2>3. m \notin parked BY DEF InFlight
  <2> QED BY <1>1, <1>8, <2>1, <2>2, <2>3 DEF CloseLast
<1>17. CloseReleases' BY DEF CloseReleases
<1> QED BY <1>5, <1>9, <1>10, <1>11, <1>12, <1>13, <1>14, <1>15, <1>16, <1>17 DEF IInv

\* The start of a call: without memory it fails, else its message is sent.
LEMMA CallKeeps ==
    ASSUME IInv, NEW cmd \in Calls \cup {"CLOSE"}, tn_ipc_call(cmd)
    PROVE  IInv'
<1>1. /\ cl.pc = "idle" /\ base = "open"
      /\ UNCHANGED <<parked, reply_sig, break_sig, timed, ipc_orphan, ipc_cancel_msg, base>>
  BY DEF tn_ipc_call
<1>2. ~Active /\ ~AwaitCancel BY <1>1 DEF Active, AwaitCancel
<1>3. /\ ipc_cancel_msg \notin InFlight /\ (ipc_cancel_msg # None => ipc_cancel_msg \in alloc)
      /\ InFlight \cap Blocks \subseteq alloc /\ ipc_cancel_msg \in Blocks \cup {None}
      /\ alloc \subseteq Blocks
  BY <1>1, <1>2 DEF IInv, CancelOwned, HeldAllocated, TypeOK
<1>4. replies \in Seq(Messages) /\ NoRepeat(replies) BY DEF IInv, TypeOK, ListsDisjoint
<1>5. replies' = Drained => PortShrinks BY <1>4, DrainedShrinks DEF PortShrinks
<1>6. replies' = replies => PortShrinks BY <1>4 DEF PortShrinks
<1>7. CASE /\ timed /\ replies' = Drained
           /\ cl' = IF cmd = "CLOSE" THEN [Idle EXCEPT !.pc = "freeing"] ELSE Idle
           /\ UNCHANGED <<alloc, body, inbox, timer_io>>
  <2>1. cl' = Idle \/ cl' = [Idle EXCEPT !.pc = "freeing", !.got_msg = FALSE]
    <3>1. [Idle EXCEPT !.pc = "freeing"] = [Idle EXCEPT !.pc = "freeing", !.got_msg = FALSE]
      BY IdleTyped DEF ClientType
    <3> QED BY <1>7, <3>1
  <2>2. Elsewhere BY <1>1, <1>5, <1>7 DEF Elsewhere, IInv, TypeOK
  <2>3. InFlight' \subseteq InFlight BY <2>2, ElsewhereKeeps
  <2>4. alloc' = alloc /\ ipc_cancel_msg' = ipc_cancel_msg BY <1>1, <1>7
  <2> HIDE DEF Elsewhere
  <2> QED BY <1>1, <1>3, <2>1, <2>2, <2>3, <2>4, ReturnKeeps
<1>8. CASE /\ timed /\ replies' = Drained
           /\ \E m \in Blocks \ alloc, watch \in BOOLEAN :
                /\ alloc' = alloc \cup {m}
                /\ PutMsg(m, cmd, None)
                /\ tn_ensure_timer(watch)
                /\ cl' = [Idle EXCEPT !.pc = "wait", !.msg = m, !.cmd = cmd, !.watch = watch]
  <2>1. PICK m \in Blocks \ alloc, watch \in BOOLEAN :
                /\ alloc' = alloc \cup {m}
                /\ PutMsg(m, cmd, None)
                /\ tn_ensure_timer(watch)
                /\ cl' = [Idle EXCEPT !.pc = "wait", !.msg = m, !.cmd = cmd, !.watch = watch]
    BY <1>8
  <2>2. m \in Messages /\ m \notin InFlight BY <1>3 DEF Messages
  <2>3. m # ipc_cancel_msg BY <1>3, Memory
  <2>4. timer_io' \in BOOLEAN BY <2>1 DEF tn_ensure_timer
  <2>5. alloc \subseteq alloc' /\ alloc' \subseteq Blocks /\ m \in alloc' \cup {Embedded} /\ m \in Blocks
    BY <1>3, <2>1
  <2> QED BY <1>1, <1>5, <1>8, <2>1, <2>2, <2>3, <2>4, <2>5, RequestSent
<1>9. CASE /\ ~timed /\ Embedded \notin InFlight
           /\ PutMsg(Embedded, cmd, None)
           /\ cl' = [Idle EXCEPT !.pc = "wait", !.msg = Embedded, !.cmd = cmd]
           /\ UNCHANGED <<replies, alloc, timer_io>>
  <2>1. PICK watch \in BOOLEAN : ~watch OBVIOUS
  <2>2. cl' = [Idle EXCEPT !.pc = "wait", !.msg = Embedded, !.cmd = cmd, !.watch = watch]
    <3>1. [Idle EXCEPT !.pc = "wait", !.msg = Embedded, !.cmd = cmd] =
          [Idle EXCEPT !.pc = "wait", !.msg = Embedded, !.cmd = cmd, !.watch = FALSE]
      BY IdleTyped DEF ClientType
    <3> QED BY <1>9, <2>1, <3>1
  <2>3. Embedded \in Messages /\ Embedded # ipc_cancel_msg BY <1>3, Memory DEF Messages
  <2>4. timer_io' \in BOOLEAN /\ alloc \subseteq alloc' /\ alloc' \subseteq Blocks
    BY <1>3, <1>9 DEF IInv, TypeOK
  <2> QED BY <1>1, <1>6, <1>9, <2>1, <2>2, <2>3, <2>4, RequestSent
<1> QED BY <1>7, <1>8, <1>9 DEF tn_ipc_call

\* The program sets its timeout or a break comes and goes.
LEMMA OutsideKeeps == ASSUME IInv, SetTimeout \/ Break \/ ClearBreak PROVE IInv'
<1>1. /\ UNCHANGED <<body, inbox, parked, replies, reply_sig, alloc, timer_io, ipc_orphan,
                     ipc_cancel_msg, base, cl>>
      /\ timed' \in BOOLEAN /\ break_sig' \in BOOLEAN
  BY Watchdog DEF SetTimeout, Break, ClearBreak, dvars, cvars, IInv, TypeOK
<1>2. /\ Active' = Active /\ AwaitCancel' = AwaitCancel /\ InFlight' = InFlight
      /\ OnlyConnectsParked' = OnlyConnectsParked
  BY <1>1 DEF Active, AwaitCancel, InFlight, OnlyConnectsParked
<1>3. TypeOK' BY <1>1 DEF IInv, TypeOK
<1>4. ListsDisjoint' /\ HeldAllocated' /\ ClientShape' /\ CancelOwned' /\ CallOut'
  BY <1>1, <1>2 DEF IInv, ListsDisjoint, HeldAllocated, ClientShape, CancelOwned, CallOut
<1>5. CancelsBefore' /\ NoStrayInterrupt' /\ CloseLast' /\ CloseReleases'
  BY <1>1, <1>2 DEF IInv, CancelsBefore, NoStrayInterrupt, CloseLast, CloseReleases
<1> QED BY <1>3, <1>4, <1>5 DEF IInv

-----------------------------------------------------------------------------
\* A base just opened satisfies the invariant.
LEMMA InitHolds == Init => IInv
<1> SUFFICES ASSUME Init PROVE IInv OBVIOUS
<1>1. Idle \in ClientType /\ Idle.pc = "idle" BY IdleTyped
<1>2. <<>> \in Seq(Messages) /\ ToSet(<<>>) = {} /\ NoRepeat(<<>>)
  <2>1. Embedded \in Messages BY DEF Messages
  <2> QED BY <2>1, ShortSeqs
<1>3. ~Active /\ ~AwaitCancel /\ cl.pc = "idle" BY <1>1 DEF Active, AwaitCancel, Init
<1>4. InFlight = {} BY <1>2 DEF Init, InFlight
<1>5. body \in [Messages -> BodyType] BY DEF Init, BodyType, Calls, Results, Quick
<1>6. TypeOK BY <1>1, <1>2, <1>5, Watchdog DEF Init, TypeOK, BodyType, ClientType
<1>7. ListsDisjoint BY <1>2 DEF Init, ListsDisjoint
<1>8. HeldAllocated /\ ClientShape /\ CancelOwned /\ CallOut
  BY <1>3, <1>4 DEF Init, HeldAllocated, ClientShape, CancelOwned, CallOut
<1>9. CancelsBefore /\ NoStrayInterrupt /\ CloseLast /\ CloseReleases
  BY <1>3 DEF Init, CancelsBefore, NoStrayInterrupt, CloseLast, CloseReleases
<1> QED BY <1>6, <1>7, <1>8, <1>9 DEF IInv

\* Every step of the client, the daemon and the world keeps the invariant.
LEMMA NextKeeps == IInv /\ [Next]_vars => IInv'
<1> SUFFICES ASSUME IInv, [Next]_vars PROVE IInv' OBVIOUS
<1>1. ASSUME NEW cmd \in Calls \cup {"CLOSE"}, tn_ipc_call(cmd) PROVE IInv' BY <1>1, CallKeeps
<1>2. CASE WakeReply \/ WaitPortSleeps \/ WaitPortWakes \/ GetMsg \/ BoundedWait
  BY <1>2, PortKeeps
<1>3. CASE WakeBreak
  <2>1. /\ cl.pc = "wait" /\ SendCancel("break") /\ reply_sig' \in BOOLEAN
        /\ UNCHANGED <<parked, replies, break_sig, timed, ipc_cancel_msg, base>>
    BY <1>3 DEF WakeBreak
  <2> QED BY <2>1, SendCancelKeeps
<1>4. CASE WakeTimeout
  <2>1. /\ cl.pc = "wait" /\ cl.watch /\ SendCancel("timeout") /\ reply_sig' \in BOOLEAN
        /\ UNCHANGED <<parked, replies, break_sig, timed, ipc_cancel_msg, base>>
    BY <1>4 DEF WakeTimeout, IInv, TypeOK
  <2> QED BY <2>1, SendCancelKeeps
<1>5. CASE GiveUp BY <1>5, GiveUpKeeps
<1>6. CASE tn_lib_close BY <1>6, LibCloseKeeps
<1>7. CASE SetTimeout \/ Break \/ ClearBreak BY <1>7, OutsideKeeps
<1>8. CASE tn_handle_ipc BY <1>8, HandleSteps, DaemonKeeps
<1>9. ASSUME NEW m \in Messages, Complete(m) PROVE IInv' BY <1>9, CompleteSteps, DaemonKeeps
<1>10. CASE UNCHANGED vars
  <2>1. UNCHANGED <<body, inbox, parked, replies, reply_sig, alloc, timed, timer_io, ipc_orphan,
                    ipc_cancel_msg, base, break_sig, cl>>
    BY <1>10 DEF vars, dvars, cvars
  <2>2. /\ Active' = Active /\ AwaitCancel' = AwaitCancel /\ InFlight' = InFlight
        /\ OnlyConnectsParked' = OnlyConnectsParked
    BY <2>1 DEF Active, AwaitCancel, InFlight, OnlyConnectsParked
  <2>3. TypeOK' /\ ListsDisjoint' BY <2>1 DEF IInv, TypeOK, ListsDisjoint
  <2>4. HeldAllocated' /\ ClientShape' /\ CancelOwned' /\ CallOut'
    BY <2>1, <2>2 DEF IInv, HeldAllocated, ClientShape, CancelOwned, CallOut
  <2>5. CancelsBefore' /\ NoStrayInterrupt' /\ CloseLast' /\ CloseReleases'
    BY <2>1, <2>2 DEF IInv, CancelsBefore, NoStrayInterrupt, CloseLast, CloseReleases
  <2> QED BY <2>3, <2>4, <2>5 DEF IInv
<1> QED
  BY <1>1, <1>2, <1>3, <1>4, <1>5, <1>6, <1>7, <1>8, <1>9, <1>10 DEF Next, ClientStep

\* The invariant holds of tn_ipc_call for any number of heap blocks.
THEOREM Invariant == Spec => []IInv
<1> QED BY InitHolds, NextKeeps, PTL DEF Spec

\* Memory, message bodies, queues and the client's position keep their types.
THEOREM TypeCorrect == Spec => []TypeOK
<1>1. IInv => TypeOK BY DEF IInv
<1> QED BY <1>1, Invariant, PTL

\* On a list that repeats nothing a message has at most one place.
LEMMA OnePlace ==
    ASSUME NEW s, NoRepeat(s), NEW m
    PROVE  /\ m \in ToSet(s) => Cardinality({i \in DOMAIN s : s[i] = m}) = 1
           /\ m \notin ToSet(s) => Cardinality({i \in DOMAIN s : s[i] = m}) = 0
<1> DEFINE P == {i \in DOMAIN s : s[i] = m}
<1>1. ASSUME m \in ToSet(s) PROVE Cardinality(P) = 1
  <2>1. PICK i \in DOMAIN s : s[i] = m BY <1>1 DEF ToSet
  <2>2. P = {i} BY <2>1 DEF NoRepeat
  <2> QED BY <2>2, FS_Singleton
<1>2. ASSUME m \notin ToSet(s) PROVE Cardinality(P) = 0
  <2>1. P = {} BY <1>2 DEF ToSet
  <2> QED BY <2>1, FS_EmptySet
<1> QED BY <1>1, <1>2

\* A message's memory outlives every use of it, on one list at a time, and nobody
\* waits for a message that is on none: abandoning, cancelling and freeing in
\* tn_ipc_call never free what the daemon holds and never lose the reply.
THEOREM MemorySound == Spec => []MessagesSound
<1>1. IInv => MessagesSound
  <2> SUFFICES ASSUME IInv PROVE MessagesSound OBVIOUS
  <2>1. HeldAllocated BY DEF IInv
  <2>2. OneHome
    <3> SUFFICES ASSUME NEW m \in Messages PROVE Copies(m) <= 1 BY DEF OneHome
    <3>1. ListsDisjoint BY DEF IInv
    <3>2. NoRepeat(inbox) /\ NoRepeat(replies) BY <3>1 DEF ListsDisjoint
    <3> DEFINE a == Cardinality({i \in DOMAIN inbox : inbox[i] = m})
               b == Cardinality({i \in DOMAIN replies : replies[i] = m})
    <3>3. /\ m \in ToSet(inbox) => a = 1
          /\ m \notin ToSet(inbox) => a = 0
          /\ m \in ToSet(replies) => b = 1
          /\ m \notin ToSet(replies) => b = 0
      BY <3>2, OnePlace
    <3>4. Copies(m) = a + b + (IF m \in parked THEN 1 ELSE 0) BY DEF Copies
    <3> HIDE DEF a, b
    <3>5. \/ m \notin ToSet(inbox) /\ m \notin ToSet(replies)
          \/ m \notin ToSet(inbox) /\ m \notin parked
          \/ m \notin ToSet(replies) /\ m \notin parked
      BY <3>1 DEF ListsDisjoint
    <3> QED BY <3>3, <3>4, <3>5
  <2>3. AnswerComing BY DEF IInv, CallOut, CancelOwned, AwaitCancel, Active, AnswerComing
  <2> QED BY <2>1, <2>2, <2>3 DEF MessagesSound
<1> QED BY <1>1, Invariant, PTL

\* A CANCEL never strikes a later call that reuses its target's memory: it is
\* ahead of that call in the daemon's port, and finds nothing parked.
THEOREM NeverInterrupted == Spec => []NoStrayInterrupt
<1>1. IInv => NoStrayInterrupt BY DEF IInv
<1> QED BY <1>1, Invariant, PTL

\* When CLOSE was answered the daemon's port is empty and nothing is parked but a
\* connect or an accept on a shared socket.
THEOREM CloseSound == Spec => []CloseReleases
<1>1. IInv => CloseReleases BY DEF IInv
<1> QED BY <1>1, Invariant, PTL
=============================================================================
