-------------------------- MODULE SocketCallsProofs --------------------------
(***************************************************************************)
(* Proofs about SocketCalls, for any number of clients, slots and pcbs and *)
(* any caps.                                                               *)
(*                                                                         *)
(* The invariant is local: a slot is judged with the pcbs that name it, a  *)
(* pcb with the slot it names, a request with the bucket that holds it.    *)
(* As each pcb names one slot, a step on a slot disturbs no other.         *)
(***************************************************************************)
EXTENDS SocketCalls, TLAPS

\* How the slot's state follows that of its pcb.
Follows(t, state, refused) ==
    \/ t = "CLOSED"      /\ state = "closed"
    \/ t = "CONNECTING"  /\ state = "syn_sent"
    \/ t = "LISTENING"   /\ state = "listen"
    \/ t = "ESTABLISHED" /\ state \in {"estab", "fin_wait"}
    \/ t = "ESTABLISHED" /\ state \in {"close_wait", "last_ack"} /\ refused
    \/ t = "PEER_CLOSED" /\ state \in {"close_wait", "last_ack"} /\ ~refused

\* A slot and its pcb, in the control blocks q.
Circuit(s, sl, q) ==
    IF sl.tcp_pcb = NoPcb
    THEN sl.tcp_state \in {"CLOSED", "PEER_CLOSED", "ERROR"}
    ELSE /\ sl.type = "STREAM"
         /\ q[sl.tcp_pcb].arg = s /\ q[sl.tcp_pcb].cb \in {"conn", "listen"}
         /\ Follows(sl.tcp_state, q[sl.tcp_pcb].state, q[sl.tcp_pcb].refused)

\* An entry of the accept queue of s and its pcb: the FIN was noted, or waits in
\* lwIP behind data that was refused.
GoodEntry(s, e, q) ==
    LET c == q[e.new_pcb]
    IN  /\ c.cb = "queued" /\ c.arg = s
        /\ \/ c.state = "estab" /\ ~e.peer_closed /\ ~c.refused
           \/ c.state = "close_wait" /\ (e.peer_closed <=> ~c.refused)

Queue(s, sl, q) ==
    /\ sl.accept # <<>> => sl.tcp_state = "LISTENING"
    /\ \A i \in DOMAIN sl.accept : GoodEntry(s, sl.accept[i], q)
    /\ \A i, j \in DOMAIN sl.accept : sl.accept[i].new_pcb = sl.accept[j].new_pcb => i = j

\* A datagram socket has no pcb and no state, and the cap of the receive queue is
\* passed only once lwIP has finished the connection.
Plain(sl) ==
    /\ sl.in_use /\ sl.type \in Types
    /\ sl.type # "STREAM" => sl.tcp_state = "CLOSED" /\ sl.tcp_pcb = NoPcb
    /\ sl.tcp_pcb # NoPcb \/ sl.type # "STREAM" => sl.rx <= MaxRx

\* What is parked has something to wait for.
Sleepers(sl) ==
    /\ sl.pending["recv"] # NoBase =>
          /\ sl.rx = 0 /\ sl.tcp_state \in {"CLOSED", "CONNECTING", "ESTABLISHED"}
          /\ sl.tcp_state = "CLOSED" => sl.tcp_pcb = NoPcb
    /\ sl.pending["accept"] # NoBase => sl.tcp_state = "LISTENING" /\ sl.accept = <<>>
    /\ sl.pending["send"] # NoBase =>
          sl.tcp_pcb # NoPcb /\ sl.tcp_state \in {"ESTABLISHED", "PEER_CLOSED"}
    /\ sl.pending["connect"] # NoBase =>
          \/ sl.tcp_state = "CONNECTING"
          \/ sl.tcp_state = "CLOSED" /\ sl.tcp_pcb = NoPcb /\ sl.shut_rd /\ sl.shut_wr

GoodSlot(s, sl, q) ==
    \/ sl = FreeSlot
    \/ Plain(sl) /\ Sleepers(sl) /\ Circuit(s, sl, q) /\ Queue(s, sl, q)

\* A pcb and the slot it names, in the socket table t.
GoodPcb(p, c, t) ==
    /\ CASE c.cb = "conn"   -> c.state \in {"closed", "syn_sent", "estab", "close_wait",
                                            "fin_wait", "last_ack"}
         [] c.cb = "listen" -> c.state = "listen"
         [] c.cb = "queued" -> c.state \in {"estab", "close_wait"}
         [] OTHER -> c.state \in {"free", "fin_wait", "last_ack", "finished"}
    /\ c.cb = "none" <=> c.arg = NoSlot
    /\ c.refused => c.state \in {"close_wait", "last_ack"} /\ c.cb \in {"conn", "queued"}
    /\ c.cb \in {"conn", "listen"} => t[c.arg].in_use /\ t[c.arg].tcp_pcb = p
    /\ c.cb = "queued" => \E i \in DOMAIN t[c.arg].accept : t[c.arg].accept[i].new_pcb = p

\* A bucket holds a request that is owed its reply, and no two hold the same.
GoodBuckets(t, ow) ==
    /\ \A s \in Slots, k \in Buckets :
          t[s].pending[k] # NoBase => BucketOf(ow[t[s].pending[k]]) = k
    /\ \A s, u \in Slots, k \in Buckets :
          t[s].pending[k] # NoBase /\ t[s].pending[k] = t[u].pending[k] => s = u
    /\ \A b \in Bases : ow[b] \in Requests \ {"accept"} =>
          \E s \in Slots : t[s].pending[BucketOf(ow[b])] = b

IInv ==
    /\ TypeOK
    /\ \A s \in Slots : GoodSlot(s, slot[s], pcb)
    /\ \A p \in Pcbs : GoodPcb(p, pcb[p], slot)
    /\ GoodBuckets(slot, owed)

-----------------------------------------------------------------------------
(***************************************************************************)
(* Steps touch few slots and pcbs.                                         *)
(***************************************************************************)
OwedType  == [Bases -> {"none"} \cup Requests]
WorldType == [sl : SlotType, ow : OwedType]

\* A slot that is not touched, and whose pcbs are not, stays good.
LEMMA SlotFrame ==
    ASSUME NEW s \in Slots, NEW sl \in SlotType, NEW q, NEW r, GoodSlot(s, sl, q),
           \A p \in Pcbs : q[p].arg = s => r[p] = q[p]
    PROVE  GoodSlot(s, sl, r)
<1>1. CASE sl = FreeSlot BY <1>1 DEF GoodSlot
<1>2. CASE Plain(sl) /\ Sleepers(sl) /\ Circuit(s, sl, q) /\ Queue(s, sl, q)
  <2>1. sl.tcp_pcb # NoPcb => sl.tcp_pcb \in Pcbs BY DEF SlotType
  <2>2. Circuit(s, sl, r) BY <1>2, <2>1 DEF Circuit
  <2>3. sl.accept \in Seq(Entries) BY DEF SlotType
  <2>4. ASSUME NEW i \in DOMAIN sl.accept PROVE GoodEntry(s, sl.accept[i], r)
    <3>1. sl.accept[i] \in Entries BY <2>3
    <3>2. sl.accept[i].new_pcb \in Pcbs BY <3>1 DEF Entries
    <3>3. GoodEntry(s, sl.accept[i], q) BY <1>2 DEF Queue
    <3> QED BY <3>2, <3>3 DEF GoodEntry
  <2>5. Queue(s, sl, r) BY <1>2, <2>4 DEF Queue
  <2> QED BY <1>2, <2>2, <2>5 DEF GoodSlot
<1> QED BY <1>1, <1>2 DEF GoodSlot

\* A pcb that is not touched, and whose slot is not, stays good.
LEMMA PcbFrame ==
    ASSUME NEW p \in Pcbs, NEW c \in PcbType, NEW t, NEW u, GoodPcb(p, c, t),
           c.arg \in Slots => /\ u[c.arg].in_use = t[c.arg].in_use
                              /\ u[c.arg].tcp_pcb = t[c.arg].tcp_pcb
                              /\ u[c.arg].accept = t[c.arg].accept
    PROVE  GoodPcb(p, c, u)
<1>1. c.cb # "none" => c.arg \in Slots BY DEF GoodPcb, PcbType
<1> QED BY <1>1 DEF GoodPcb

\* A step that touches the slots of W and the pcbs that name them.
LEMMA StepKeeps ==
    ASSUME IInv, NEW W \in SUBSET Slots,
           slot' \in [Slots -> SlotType], pcb' \in [Pcbs -> PcbType], owed' \in OwedType,
           \A s \in Slots \ W : slot'[s] = slot[s],
           \A s \in W : GoodSlot(s, slot'[s], pcb'),
           \A p \in Pcbs : \/ pcb'[p] = pcb[p] /\ pcb[p].arg \notin W
                           \/ pcb[p].arg \in W \cup {NoSlot} /\ GoodPcb(p, pcb'[p], slot'),
           GoodBuckets(slot', owed')
    PROVE  IInv'
<1>1. slot \in [Slots -> SlotType] /\ pcb \in [Pcbs -> PcbType] BY DEF IInv, TypeOK
<1>2. TypeOK' BY DEF TypeOK, OwedType
<1>3. ASSUME NEW s \in Slots \ W PROVE GoodSlot(s, slot[s], pcb')
  <2>1. GoodSlot(s, slot[s], pcb) BY DEF IInv
  <2>2. s # NoSlot BY Nulls
  <2>3. \A p \in Pcbs : pcb[p].arg = s => pcb'[p] = pcb[p] BY <2>2
  <2>4. slot[s] \in SlotType BY <1>1
  <2> QED BY <2>1, <2>3, <2>4, SlotFrame
<1>4. \A s \in Slots : GoodSlot(s, slot'[s], pcb') BY <1>3
<1>5. ASSUME NEW p \in Pcbs, pcb'[p] = pcb[p], pcb[p].arg \notin W
      PROVE  GoodPcb(p, pcb'[p], slot')
  <2>1. GoodPcb(p, pcb[p], slot) /\ pcb[p] \in PcbType BY <1>1 DEF IInv
  <2>2. pcb[p].arg \in Slots => slot'[pcb[p].arg] = slot[pcb[p].arg] BY <1>5
  <2>3. GoodPcb(p, pcb[p], slot') BY <2>1, <2>2, PcbFrame
  <2> QED BY <1>5, <2>3
<1>6. \A p \in Pcbs : GoodPcb(p, pcb'[p], slot') BY <1>5
<1> QED BY <1>2, <1>4, <1>6 DEF IInv

\* A step on one slot that changes no pcb, nor which of them are the slot's.
LEMMA QuietStep ==
    ASSUME IInv, NEW s \in Slots, NEW x \in SlotType, slot' = [slot EXCEPT ![s] = x],
           x.in_use = slot[s].in_use, x.tcp_pcb = slot[s].tcp_pcb, x.accept = slot[s].accept,
           GoodSlot(s, x, pcb), UNCHANGED pcb, owed' \in OwedType, GoodBuckets(slot', owed')
    PROVE  IInv'
<1>1. slot \in [Slots -> SlotType] /\ pcb \in [Pcbs -> PcbType] BY DEF IInv, TypeOK
<1>2. slot' \in [Slots -> SlotType] /\ slot'[s] = x /\ \A t \in Slots \ {s} : slot'[t] = slot[t]
  BY <1>1
<1>3. ASSUME NEW p \in Pcbs, pcb[p].arg \in {s} PROVE GoodPcb(p, pcb'[p], slot')
  <2>1. GoodPcb(p, pcb[p], slot) /\ pcb[p] \in PcbType BY <1>1 DEF IInv
  <2>2. GoodPcb(p, pcb[p], slot') BY <1>2, <1>3, <2>1, PcbFrame
  <2> QED BY <2>2
<1> HIDE DEF IInv
<1>4. {s} \in SUBSET Slots /\ pcb' \in [Pcbs -> PcbType] BY <1>1
<1>5. \A t \in {s} : GoodSlot(t, slot'[t], pcb') BY <1>2
<1>6. \A p \in Pcbs : \/ pcb'[p] = pcb[p] /\ pcb[p].arg \notin {s}
                      \/ pcb[p].arg \in {s} \cup {NoSlot} /\ GoodPcb(p, pcb'[p], slot')
  BY <1>3
<1> QED BY <1>2, <1>4, <1>5, <1>6, StepKeeps

\* A step on one slot and its own pcb, which it keeps or gives up.
LEMMA CircuitStep ==
    ASSUME IInv, NEW s \in Slots, NEW x \in SlotType, slot' = [slot EXCEPT ![s] = x],
           slot[s].in_use, x.in_use, x.accept = slot[s].accept, slot[s].tcp_pcb # NoPcb,
           NEW c \in PcbType, pcb' = [pcb EXCEPT ![slot[s].tcp_pcb] = c],
           \/ x.tcp_pcb = slot[s].tcp_pcb /\ c.arg = s /\ c.cb \in {"conn", "listen"}
           \/ x.tcp_pcb = NoPcb /\ c.arg = NoSlot /\ c.cb = "none",
           GoodPcb(slot[s].tcp_pcb, c, slot'),
           Plain(x), Sleepers(x), Circuit(s, x, pcb'),
           x.accept # <<>> => x.tcp_state = "LISTENING",
           owed' \in OwedType, GoodBuckets(slot', owed')
    PROVE  IInv'
<1> DEFINE mine == slot[s].tcp_pcb
<1>1. slot \in [Slots -> SlotType] /\ pcb \in [Pcbs -> PcbType] BY DEF IInv, TypeOK
<1>2. slot' \in [Slots -> SlotType] /\ slot'[s] = x /\ \A t \in Slots \ {s} : slot'[t] = slot[t]
  BY <1>1
<1>3. mine \in Pcbs BY <1>1 DEF SlotType
<1>4. pcb' \in [Pcbs -> PcbType] /\ pcb'[mine] = c /\ \A p \in Pcbs \ {mine} : pcb'[p] = pcb[p]
  BY <1>1, <1>3
<1>5. slot[s] # FreeSlot BY DEF FreeSlot
<1>6. Circuit(s, slot[s], pcb) /\ Queue(s, slot[s], pcb) BY <1>5 DEF IInv, GoodSlot
<1>7. pcb[mine].arg = s /\ pcb[mine].cb \in {"conn", "listen"} BY <1>6 DEF Circuit
<1>8. ASSUME NEW i \in DOMAIN x.accept PROVE GoodEntry(s, x.accept[i], pcb')
  <2>1. GoodEntry(s, x.accept[i], pcb) BY <1>6 DEF Queue
  <2>2. x.accept[i] \in Entries BY DEF SlotType
  <2>3. x.accept[i].new_pcb \in Pcbs \ {mine} BY <1>7, <2>1, <2>2 DEF GoodEntry, Entries
  <2> QED BY <1>4, <2>1, <2>3 DEF GoodEntry
<1>9. \A t \in {s} : GoodSlot(t, slot'[t], pcb')
  <2>1. Queue(s, x, pcb') BY <1>6, <1>8 DEF Queue
  <2>2. GoodSlot(s, x, pcb') BY <2>1 DEF GoodSlot
  <2> QED BY <1>2, <2>2
<1>10. ASSUME NEW p \in Pcbs, p # mine, pcb[p].arg = s PROVE GoodPcb(p, pcb'[p], slot')
  <2>1. GoodPcb(p, pcb[p], slot) /\ pcb[p] \in PcbType BY <1>1 DEF IInv
  <2>2. pcb[p].cb = "queued" BY <1>10, <2>1, Nulls DEF GoodPcb, PcbType, Callbacks
  <2>3. pcb'[p] = pcb[p] BY <1>4, <1>10
  <2>4. slot'[s].accept = slot[s].accept BY <1>2
  <2> QED BY <1>10, <2>1, <2>2, <2>3, <2>4 DEF GoodPcb
<1>11. \A p \in Pcbs : \/ pcb'[p] = pcb[p] /\ pcb[p].arg \notin {s}
                       \/ pcb[p].arg \in {s} \cup {NoSlot} /\ GoodPcb(p, pcb'[p], slot')
  BY <1>4, <1>7, <1>10
<1>12. {s} \in SUBSET Slots OBVIOUS
<1> HIDE DEF IInv, mine
<1> QED BY <1>2, <1>4, <1>9, <1>11, <1>12, StepKeeps

-----------------------------------------------------------------------------
(***************************************************************************)
(* The buckets.                                                            *)
(***************************************************************************)
\* From w to v some parked requests are answered, and nothing else is.
Answers(w, v) ==
    /\ \A k \in Buckets : v.sl.pending[k] = w.sl.pending[k] \/ v.sl.pending[k] = NoBase
    /\ \A b \in Bases : v.ow[b] = IF \E k \in Buckets : w.sl.pending[k] = b /\ v.sl.pending[k] # b
                                  THEN "none" ELSE w.ow[b]

\* Answering some of a slot's parked requests (Answers) and touching no other slot's keeps
\* every owed reply in exactly one bucket.
LEMMA AnswersKeep ==
    ASSUME IInv, NEW s \in Slots, NEW w \in WorldType, w.ow = owed,
           w.sl.pending = slot[s].pending, NEW v \in WorldType, Answers(w, v),
           slot' \in [Slots -> SlotType], slot'[s].pending = v.sl.pending, owed' = v.ow,
           \A t \in Slots \ {s} : slot'[t].pending = slot[t].pending
    PROVE  GoodBuckets(slot', owed')
<1>1. GoodBuckets(slot, owed) BY DEF IInv
<1>2. slot \in [Slots -> SlotType] /\ owed \in OwedType BY DEF IInv, TypeOK, OwedType
<1>3. \A t \in Slots, k \in Buckets : slot[t].pending[k] \in Bases \cup {NoBase}
  BY <1>2 DEF SlotType
<1>4. \A t \in Slots, k \in Buckets : slot'[t].pending[k] # NoBase =>
                                        slot'[t].pending[k] = slot[t].pending[k]
  BY DEF Answers
<1>5. ASSUME NEW t \in Slots, NEW k \in Buckets, slot'[t].pending[k] # NoBase
      PROVE  owed'[slot'[t].pending[k]] = owed[slot[t].pending[k]]
  <2>1. PICK b \in Bases : b = slot'[t].pending[k] /\ b = slot[t].pending[k]
    BY <1>3, <1>4, <1>5
  <2>2. ~\E j \in Buckets : w.sl.pending[j] = b /\ v.sl.pending[j] # b
    <3> SUFFICES ASSUME NEW j \in Buckets, slot[s].pending[j] = b, v.sl.pending[j] # b PROVE FALSE
      OBVIOUS
    <3>1. BucketOf(owed[b]) = j /\ BucketOf(owed[b]) = k
      BY <1>1, <1>5, <2>1 DEF GoodBuckets
    <3>2. s = t BY <1>1, <1>5, <2>1, <3>1 DEF GoodBuckets
    <3> QED BY <2>1, <3>1, <3>2
  <2> QED BY <2>1, <2>2 DEF Answers
<1>6. \A t \in Slots, k \in Buckets :
         slot'[t].pending[k] # NoBase => BucketOf(owed'[slot'[t].pending[k]]) = k
  BY <1>1, <1>4, <1>5 DEF GoodBuckets
<1>7. \A t, u \in Slots, k \in Buckets :
         slot'[t].pending[k] # NoBase /\ slot'[t].pending[k] = slot'[u].pending[k] => t = u
  BY <1>1, <1>4 DEF GoodBuckets
<1>8. ASSUME NEW b \in Bases, owed'[b] \in Requests \ {"accept"}
      PROVE  \E t \in Slots : slot'[t].pending[BucketOf(owed'[b])] = b
  <2>1. owed'[b] # "none" BY <1>8 DEF Requests, Buckets
  <2>2. owed'[b] = owed[b] /\ ~\E j \in Buckets : w.sl.pending[j] = b /\ v.sl.pending[j] # b
    BY <2>1 DEF Answers
  <2>3. PICK t \in Slots : slot[t].pending[BucketOf(owed[b])] = b
    BY <1>1, <1>8, <2>2 DEF GoodBuckets
  <2>4. BucketOf(owed[b]) \in Buckets BY <1>8, <2>2 DEF BucketOf, Requests, Buckets
  <2>5. slot'[t].pending[BucketOf(owed[b])] = b BY <2>2, <2>3, <2>4
  <2> QED BY <2>2, <2>5
<1> QED BY <1>6, <1>7, <1>8 DEF GoodBuckets

\* A step that answers and parks nothing.
LEMMA BucketsStay ==
    ASSUME IInv, owed' = owed, \A t \in Slots : slot'[t].pending = slot[t].pending
    PROVE  GoodBuckets(slot', owed')
BY DEF IInv, GoodBuckets

\* A request is parked in an empty bucket; a second accept takes the place of the first.
LEMMA ParkKeeps ==
    ASSUME IInv, NEW s \in Slots, NEW b \in Bases, NEW op \in Requests, owed[b] = "none",
           op # "accept" => slot[s].pending[BucketOf(op)] = NoBase,
           slot' \in [Slots -> SlotType],
           slot'[s].pending = [slot[s].pending EXCEPT ![BucketOf(op)] = b],
           \A t \in Slots \ {s} : slot'[t].pending = slot[t].pending,
           owed' = [owed EXCEPT ![b] = op]
    PROVE  GoodBuckets(slot', owed')
<1> DEFINE K == BucketOf(op)
<1>1. GoodBuckets(slot, owed) BY DEF IInv
<1>2. slot \in [Slots -> SlotType] /\ owed \in OwedType BY DEF IInv, TypeOK, OwedType
<1>3. \A t \in Slots : slot[t].pending \in [Buckets -> Bases \cup {NoBase}] BY <1>2 DEF SlotType
<1>4. K \in Buckets BY DEF BucketOf, Requests, Buckets
<1>5. BucketOf("none") \notin Buckets BY DEF BucketOf, Buckets
<1>6. \A t \in Slots, k \in Buckets : slot[t].pending[k] # b
  BY <1>1, <1>5, Nulls DEF GoodBuckets
<1>7. /\ slot'[s].pending[K] = b
      /\ \A t \in Slots, k \in Buckets : t # s \/ k # K => slot'[t].pending[k] = slot[t].pending[k]
  BY <1>3, <1>4
<1>8. owed'[b] = op /\ \A a \in Bases \ {b} : owed'[a] = owed[a] BY <1>2 DEF OwedType
<1> HIDE DEF K
<1>9. ASSUME NEW t \in Slots, NEW k \in Buckets, slot'[t].pending[k] # NoBase
      PROVE  BucketOf(owed'[slot'[t].pending[k]]) = k
  <2>1. CASE t = s /\ k = K BY <1>7, <1>8, <2>1 DEF K
  <2>2. CASE t # s \/ k # K
    <3>1. PICK a \in Bases : a = slot[t].pending[k] /\ a = slot'[t].pending[k]
      BY <1>3, <1>7, <1>9, <2>2
    <3>2. a # b BY <1>6, <3>1
    <3>3. BucketOf(owed[a]) = k
      <4>1. slot[t].pending[k] # NoBase BY <1>9, <3>1
      <4>2. BucketOf(owed[slot[t].pending[k]]) = k BY <1>1, <4>1 DEF GoodBuckets
      <4> QED BY <3>1, <4>2
    <3>4. owed'[a] = owed[a] BY <1>8, <3>2
    <3> QED BY <3>1, <3>3, <3>4
  <2> QED BY <2>1, <2>2
<1>10. ASSUME NEW t \in Slots, NEW u \in Slots, NEW k \in Buckets, slot'[t].pending[k] # NoBase,
              slot'[t].pending[k] = slot'[u].pending[k]
       PROVE  t = u
  <2>1. CASE k # K BY <1>1, <1>7, <1>10, <2>1 DEF GoodBuckets
  <2>2. CASE k = K /\ t # s /\ u # s BY <1>1, <1>7, <1>10, <2>2 DEF GoodBuckets
  <2>3. CASE k = K /\ (t = s \/ u = s) BY <1>6, <1>7, <1>10, <2>3
  <2> QED BY <2>1, <2>2, <2>3
<1>11. ASSUME NEW a \in Bases, owed'[a] \in Requests \ {"accept"}
       PROVE  \E t \in Slots : slot'[t].pending[BucketOf(owed'[a])] = a
  <2>1. CASE a = b BY <1>7, <1>8, <2>1 DEF K
  <2>2. CASE a # b
    <3>1. owed'[a] = owed[a] BY <1>8, <2>2
    <3>2. PICK t \in Slots : slot[t].pending[BucketOf(owed[a])] = a
      BY <1>1, <1>11, <3>1 DEF GoodBuckets
    <3>3. BucketOf(owed[a]) \in Buckets /\ BucketOf(owed[a]) # "accept"
      BY <1>11, <3>1 DEF BucketOf, Requests, Buckets
    <3>4. t # s \/ BucketOf(owed[a]) # K
      BY <3>2, <3>3, Nulls DEF K, BucketOf
    <3> QED BY <1>7, <3>1, <3>2, <3>3, <3>4
  <2> QED BY <2>1, <2>2
<1> QED BY <1>9, <1>10, <1>11 DEF GoodBuckets


-----------------------------------------------------------------------------
(***************************************************************************)
(* What handlers and callbacks share.                                      *)
(***************************************************************************)
\* Two slots that differ in buckets, receive queue and pending error, at most.
SameSocket(x, y) ==
    /\ y.in_use = x.in_use /\ y.type = x.type /\ y.tcp_state = x.tcp_state
    /\ y.tcp_pcb = x.tcp_pcb /\ y.shut_rd = x.shut_rd /\ y.shut_wr = x.shut_wr
    /\ y.is_nonblocking = x.is_nonblocking /\ y.accept = x.accept /\ y.is_parked = x.is_parked
    /\ y.holders = x.holders

\* ReplyTo empties one bucket and settles the request in it.
LEMMA ReplyWorks ==
    ASSUME NEW w \in WorldType, NEW k \in Buckets
    PROVE  LET v == ReplyTo(w, k) IN
           /\ v \in WorldType /\ SameSocket(w.sl, v.sl)
           /\ v.sl.rx = w.sl.rx /\ v.sl.last_error = w.sl.last_error
           /\ v.sl.pending[k] = NoBase
           /\ \A j \in Buckets : j # k => v.sl.pending[j] = w.sl.pending[j]
           /\ Answers(w, v)
<1> DEFINE b == w.sl.pending[k]
           v == ReplyTo(w, k)
<1>1. /\ w.sl \in SlotType /\ w.ow \in OwedType /\ w.sl.pending \in [Buckets -> Bases \cup {NoBase}]
      /\ b \in Bases \cup {NoBase}
  BY DEF WorldType, SlotType
<1>2. CASE b = NoBase
  <2>1. v = w BY <1>2 DEF ReplyTo
  <2> QED BY <1>2, <2>1 DEF SameSocket, Answers
<1>3. CASE b # NoBase
  <2> DEFINE x == [w.sl EXCEPT !.pending = [w.sl.pending EXCEPT ![k] = NoBase]]
             o == [w.ow EXCEPT ![b] = "none"]
  <2>1. v = [sl |-> x, ow |-> o] BY <1>3 DEF ReplyTo
  <2>2. /\ x \in SlotType /\ x.pending = [w.sl.pending EXCEPT ![k] = NoBase]
        /\ x.rx = w.sl.rx /\ x.last_error = w.sl.last_error /\ SameSocket(w.sl, x)
    BY <1>1 DEF SlotType, SameSocket
  <2>3. o \in OwedType /\ o[b] = "none" /\ \A a \in Bases \ {b} : o[a] = w.ow[a]
    BY <1>1, <1>3 DEF OwedType
  <2>4. x.pending[k] = NoBase /\ \A j \in Buckets : j # k => x.pending[j] = w.sl.pending[j]
    BY <1>1, <2>2
  <2> HIDE DEF x, o
  <2>5. v \in WorldType /\ v.sl = x /\ v.ow = o BY <2>1, <2>2, <2>3 DEF WorldType
  <2> HIDE DEF v
  <2>6. Answers(w, v)
    <3> SUFFICES ASSUME NEW a \in Bases
                 PROVE  o[a] = IF \E j \in Buckets : w.sl.pending[j] = a /\ x.pending[j] # a
                               THEN "none" ELSE w.ow[a]
      BY <2>4, <2>5 DEF Answers
    <3>1. CASE a = b BY <1>3, <2>3, <2>4, <3>1
    <3>2. CASE a # b BY <2>3, <2>4, <3>2
    <3> QED BY <3>1, <3>2
  <2> QED BY <2>2, <2>4, <2>5, <2>6 DEF v
<1> QED BY <1>1, <1>2, <1>3

\* Answers add up.
LEMMA AnswersAdd ==
    ASSUME NEW u, NEW v, NEW w, Answers(u, v), Answers(v, w)
    PROVE  Answers(u, w)
<1>1. \A k \in Buckets : w.sl.pending[k] = u.sl.pending[k] \/ w.sl.pending[k] = NoBase
  BY DEF Answers
<1>2. ASSUME NEW b \in Bases
      PROVE  w.ow[b] = IF \E k \in Buckets : u.sl.pending[k] = b /\ w.sl.pending[k] # b
                       THEN "none" ELSE u.ow[b]
  <2>1. CASE \E k \in Buckets : v.sl.pending[k] = b /\ w.sl.pending[k] # b
    BY <2>1, Nulls DEF Answers
  <2>2. CASE ~\E k \in Buckets : v.sl.pending[k] = b /\ w.sl.pending[k] # b
    <3>1. w.ow[b] = v.ow[b] BY <2>2 DEF Answers
    <3>2. \A k \in Buckets : u.sl.pending[k] = b => (w.sl.pending[k] # b <=> v.sl.pending[k] # b)
      BY <2>2, Nulls DEF Answers
    <3> QED BY <3>1, <3>2 DEF Answers
  <2> QED BY <2>1, <2>2
<1> QED BY <1>1, <1>2 DEF Answers

\* What recv leaves in the slot: no more than there was, and the rest as it was.
LEMMA ResultsWork ==
    ASSUME NEW sl \in SlotType, NEW op, NEW r \in RecvResults(sl, op)
    PROVE  r \in SlotType /\ r.rx <= sl.rx /\ r.pending = sl.pending /\ SameSocket(sl, r)
<1>1. sl.rx \in 0 .. MaxRx + 1 /\ MaxRx \in Nat BY Caps DEF SlotType
<1>2. ASSUME NEW n \in 0 .. sl.rx, r = [sl EXCEPT !.rx = sl.rx - n]
      PROVE  r \in SlotType /\ r.rx <= sl.rx /\ r.pending = sl.pending /\ SameSocket(sl, r)
  <2>1. PICK m \in 0 .. MaxRx + 1 : m = sl.rx - n /\ m <= sl.rx BY <1>1
  <2>2. r = [sl EXCEPT !.rx = m] BY <1>2, <2>1
  <2> QED BY <2>1, <2>2 DEF SlotType, SameSocket
<1>3. CASE sl.rx > 0
  <2>1. PICK n \in 0 .. (IF op = "recvmsg" THEN sl.rx ELSE 1) : r = [sl EXCEPT !.rx = sl.rx - n]
    BY <1>3 DEF RecvResults
  <2>2. n \in 0 .. sl.rx BY <1>1, <1>3, <2>1
  <2> QED BY <1>2, <2>1, <2>2
<1>4. CASE ~(sl.rx > 0)
  <2>1. r = sl \/ r = [sl EXCEPT !.last_error = FALSE] BY <1>1, <1>4 DEF RecvResults
  <2>2. sl.rx <= sl.rx BY <1>1
  <2> QED BY <2>1, <2>2 DEF SlotType, SameSocket
<1> QED BY <1>3, <1>4

\* A parked recv that is run again takes from the queue and leaves its bucket, or
\* nothing happens; when recv can answer, it does.
LEMMA ServiceWorks ==
    ASSUME NEW w \in WorldType, NEW v \in tn_service_pending_recv(w)
    PROVE  /\ v \in WorldType /\ SameSocket(w.sl, v.sl) /\ v.sl.rx <= w.sl.rx
           /\ \A j \in Buckets : j # "recv" => v.sl.pending[j] = w.sl.pending[j]
           /\ v.sl.pending["recv"] # NoBase => /\ v.sl.rx = w.sl.rx /\ ~RecvAnswers(w.sl)
                                               /\ w.sl.pending["recv"] # NoBase
           /\ Answers(w, v)
<1> DEFINE b == w.sl.pending["recv"]
<1>0. w.sl.rx \in 0 .. MaxRx + 1 /\ MaxRx \in Nat /\ w.sl \in SlotType /\ w.ow \in OwedType
  BY Caps DEF WorldType, SlotType
<1>1. CASE b = NoBase \/ ~(RecvAnswers(w.sl) \/ w.sl.is_nonblocking)
  <2>1. v = w BY <1>1 DEF tn_service_pending_recv
  <2>2. w.sl.rx <= w.sl.rx BY <1>0
  <2> QED BY <1>1, <2>1, <2>2 DEF SameSocket, Answers
<1>2. CASE ~(b = NoBase \/ ~(RecvAnswers(w.sl) \/ w.sl.is_nonblocking))
  <2>1. PICK r \in RecvResults(w.sl, w.ow[b]) : v = ReplyTo([w EXCEPT !.sl = r], "recv")
    BY <1>2 DEF tn_service_pending_recv
  <2>2. r \in SlotType /\ r.rx <= w.sl.rx /\ r.pending = w.sl.pending /\ SameSocket(w.sl, r)
    BY <1>0, ResultsWork
  <2> DEFINE x == [w EXCEPT !.sl = r]
  <2>3. x \in WorldType /\ x.sl = r /\ x.ow = w.ow BY <1>0, <2>2 DEF WorldType
  <2> HIDE DEF x
  <2>4. v = ReplyTo(x, "recv") BY <2>1 DEF x
  <2>5. "recv" \in Buckets BY DEF Buckets
  <2>6. /\ v \in WorldType /\ SameSocket(x.sl, v.sl) /\ v.sl.rx = x.sl.rx
        /\ v.sl.pending["recv"] = NoBase
        /\ \A j \in Buckets : j # "recv" => v.sl.pending[j] = x.sl.pending[j]
        /\ Answers(x, v)
    BY <2>3, <2>4, <2>5, ReplyWorks
  <2>7. Answers(w, v) BY <2>2, <2>3, <2>6 DEF Answers
  <2> QED BY <2>2, <2>3, <2>6, <2>7 DEF SameSocket
<1> QED BY <1>1, <1>2


\* What the invariant says of a slot in use.
LEMMA LiveSlot ==
    ASSUME IInv, NEW s \in Slots, slot[s].in_use
    PROVE  /\ slot[s] \in SlotType /\ World(s) \in WorldType
           /\ World(s).sl = slot[s] /\ World(s).ow = owed
           /\ Plain(slot[s]) /\ Sleepers(slot[s]) /\ Circuit(s, slot[s], pcb)
           /\ Queue(s, slot[s], pcb)
<1>1. slot \in [Slots -> SlotType] /\ owed \in OwedType BY DEF IInv, TypeOK, OwedType
<1>2. slot[s] # FreeSlot BY DEF FreeSlot
<1>3. GoodSlot(s, slot[s], pcb) BY DEF IInv
<1>4. World(s) \in WorldType /\ World(s).sl = slot[s] /\ World(s).ow = owed
  BY <1>1 DEF World, WorldType
<1> QED BY <1>1, <1>2, <1>3, <1>4 DEF GoodSlot

\* The slot keeps its socket; requests may leave the buckets, packets the queue.
Settles(x, y) ==
    /\ y.in_use = x.in_use /\ y.type = x.type /\ y.tcp_state = x.tcp_state
    /\ y.tcp_pcb = x.tcp_pcb /\ y.accept = x.accept
    /\ x.shut_rd => y.shut_rd
    /\ x.shut_wr => y.shut_wr
    /\ y.rx <= x.rx
    /\ \A k \in Buckets : y.pending[k] = x.pending[k] \/ y.pending[k] = NoBase

\* A slot that only lets go of parked requests or of received bytes (Settles) stays good.
LEMMA SettleGood ==
    ASSUME IInv, NEW s \in Slots, slot[s].in_use, NEW x \in SlotType, Settles(slot[s], x)
    PROVE  GoodSlot(s, x, pcb)
<1> DEFINE y == slot[s]
<1>1. /\ y \in SlotType /\ Plain(y) /\ Sleepers(y) /\ Circuit(s, y, pcb) /\ Queue(s, y, pcb)
  BY LiveSlot
<1>2. x.rx \in Nat /\ y.rx \in Nat /\ x.rx <= y.rx /\ MaxRx \in Nat
  BY <1>1, Caps DEF SlotType, Settles
<1>3. Plain(x) BY <1>1, <1>2 DEF Plain, Settles
<1>4. /\ \A k \in Buckets : x.pending[k] # NoBase => y.pending[k] # NoBase
      /\ y.rx = 0 => x.rx = 0
  BY <1>2 DEF Settles
<1>5. Sleepers(x) BY <1>1, <1>4 DEF Sleepers, Settles, Buckets
<1>6. Circuit(s, x, pcb) /\ Queue(s, x, pcb) BY <1>1 DEF Circuit, Queue, Settles
<1> QED BY <1>3, <1>5, <1>6 DEF GoodSlot

\* A step that only settles one slot keeps the invariant, once its replies are accounted for.
LEMMA SettleStep ==
    ASSUME IInv, NEW s \in Slots, slot[s].in_use, NEW x \in SlotType, Settles(slot[s], x),
           slot' = [slot EXCEPT ![s] = x], UNCHANGED pcb, owed' \in OwedType,
           GoodBuckets(slot', owed')
    PROVE  IInv'
<1>1. GoodSlot(s, x, pcb) BY SettleGood
<1>2. x.in_use = slot[s].in_use /\ x.tcp_pcb = slot[s].tcp_pcb /\ x.accept = slot[s].accept
  BY DEF Settles
<1> HIDE DEF IInv
<1> QED BY <1>1, <1>2, QuietStep

\* The same when the step only answers parked requests.
LEMMA AnswerStep ==
    ASSUME IInv, NEW s \in Slots, slot[s].in_use, NEW v \in WorldType, Becomes(s, v),
           Settles(slot[s], v.sl), Answers(World(s), v), UNCHANGED pcb
    PROVE  IInv'
<1>1. v.sl \in SlotType /\ v.ow \in OwedType BY DEF WorldType
<1>2. slot' = [slot EXCEPT ![s] = v.sl] /\ owed' = v.ow BY DEF Becomes
<1>3. slot \in [Slots -> SlotType] BY DEF IInv, TypeOK
<1>4. /\ slot' \in [Slots -> SlotType] /\ slot'[s] = v.sl
      /\ \A t \in Slots \ {s} : slot'[t] = slot[t]
  BY <1>1, <1>2, <1>3
<1>5. World(s) \in WorldType /\ World(s).sl = slot[s] /\ World(s).ow = owed BY LiveSlot
<1>6. GoodBuckets(slot', owed') BY <1>2, <1>4, <1>5, AnswersKeep
<1> QED BY <1>1, <1>2, <1>6, SettleStep

\* The same when it answers nothing.
LEMMA SilentStep ==
    ASSUME IInv, NEW s \in Slots, slot[s].in_use, NEW x \in SlotType, Settles(slot[s], x),
           x.pending = slot[s].pending, slot' = [slot EXCEPT ![s] = x], UNCHANGED <<pcb, owed>>
    PROVE  IInv'
<1>1. slot \in [Slots -> SlotType] /\ owed \in OwedType BY DEF IInv, TypeOK, OwedType
<1>2. \A t \in Slots : slot'[t].pending = slot[t].pending BY <1>1
<1>3. GoodBuckets(slot', owed') BY <1>2, BucketsStay
<1>4. owed' \in OwedType /\ UNCHANGED pcb BY <1>1
<1> HIDE DEF IInv
<1> QED BY <1>3, <1>4, SettleStep

\* A request is parked in a slot that gives it something to wait for.
LEMMA ParkStep ==
    ASSUME IInv, NEW s \in Slots, NEW b \in Bases, NEW op \in Requests, MayCall(b, s),
           op # "accept" => slot[s].pending[BucketOf(op)] = NoBase,
           Becomes(s, Park(World(s), b, op)), UNCHANGED pcb,
           LET sl == slot[s] IN
           CASE BucketOf(op) = "recv"    -> /\ sl.rx = 0
                                            /\ sl.tcp_state \in {"CLOSED", "CONNECTING", "ESTABLISHED"}
                                            /\ sl.tcp_state = "CLOSED" => sl.tcp_pcb = NoPcb
             [] BucketOf(op) = "accept"  -> sl.tcp_state = "LISTENING" /\ sl.accept = <<>>
             [] BucketOf(op) = "send"    -> /\ sl.tcp_pcb # NoPcb
                                            /\ sl.tcp_state \in {"ESTABLISHED", "PEER_CLOSED"}
             [] OTHER                    -> FALSE
    PROVE  IInv'
<1> DEFINE y == slot[s]
           K == BucketOf(op)
           x == [y EXCEPT !.pending = [y.pending EXCEPT ![K] = b]]
<1>1. slot[s].in_use /\ owed[b] = "none" BY DEF MayCall
<1>2. /\ y \in SlotType /\ World(s).sl = y /\ World(s).ow = owed
      /\ Plain(y) /\ Sleepers(y) /\ Circuit(s, y, pcb) /\ Queue(s, y, pcb)
  BY <1>1, LiveSlot
<1>3. K \in Buckets BY DEF BucketOf, Requests, Buckets
<1>4. slot \in [Slots -> SlotType] /\ owed \in OwedType BY DEF IInv, TypeOK, OwedType
<1>5. slot' = [slot EXCEPT ![s] = x] /\ owed' = [owed EXCEPT ![b] = op]
  BY <1>2 DEF Becomes, Park
<1>6. /\ x \in SlotType /\ x.in_use = y.in_use /\ x.type = y.type /\ x.tcp_state = y.tcp_state
      /\ x.tcp_pcb = y.tcp_pcb /\ x.accept = y.accept /\ x.shut_rd = y.shut_rd
      /\ x.shut_wr = y.shut_wr /\ x.rx = y.rx
      /\ x.pending = [y.pending EXCEPT ![K] = b]
  BY <1>2, <1>3 DEF SlotType
<1>7. x.pending[K] = b /\ \A k \in Buckets \ {K} : x.pending[k] = y.pending[k]
  BY <1>2, <1>3, <1>6 DEF SlotType
<1> HIDE DEF x
<1>8. Plain(x) /\ Circuit(s, x, pcb) /\ Queue(s, x, pcb)
  BY <1>2, <1>6 DEF Plain, Circuit, Queue
<1>9. Sleepers(x)
  <2>1. CASE K = "recv" BY <1>2, <1>6, <1>7, <2>1 DEF Sleepers, Buckets
  <2>2. CASE K = "accept" BY <1>2, <1>6, <1>7, <2>2 DEF Sleepers, Buckets
  <2>3. CASE K = "send" BY <1>2, <1>6, <1>7, <2>3 DEF Sleepers, Buckets
  <2> QED BY <1>3, <2>1, <2>2, <2>3 DEF Buckets
<1>10. GoodSlot(s, x, pcb) BY <1>8, <1>9 DEF GoodSlot
<1>11. /\ slot' \in [Slots -> SlotType] /\ slot'[s] = x
       /\ \A t \in Slots \ {s} : slot'[t] = slot[t]
  BY <1>4, <1>5, <1>6
<1>12. owed' \in OwedType BY <1>4, <1>5 DEF OwedType
<1>13. slot'[s].pending = [slot[s].pending EXCEPT ![BucketOf(op)] = b] BY <1>6, <1>11
<1>14. GoodBuckets(slot', owed') BY <1>1, <1>5, <1>11, <1>13, ParkKeeps
<1> HIDE DEF IInv, K
<1> QED BY <1>5, <1>6, <1>10, <1>12, <1>14, QuietStep


-----------------------------------------------------------------------------
(***************************************************************************)
(* The handlers and callbacks that leave the pcbs alone.                   *)
(***************************************************************************)
\* FIONBIO, SO_ERROR, release and obtain answer nobody.
LEMMA FlagsKeep ==
    ASSUME IInv, NEW b \in Bases, NEW s \in Slots,
           \/ tn_ipc_cmd_ioctl(b, s) \/ tn_ipc_cmd_getsockopt(b, s)
           \/ \E copy \in BOOLEAN : tn_ipc_cmd_releasesocket(b, s, copy)
           \/ tn_ipc_cmd_obtainsocket(b, s)
    PROVE  IInv'
<1> DEFINE y == slot[s]
<1>1. slot[s].in_use /\ UNCHANGED <<owed, pcb>>
  BY DEF tn_ipc_cmd_ioctl, tn_ipc_cmd_getsockopt, tn_ipc_cmd_releasesocket, tn_ipc_cmd_obtainsocket,
         MayCall
<1>2. y \in SlotType /\ y.rx \in Int BY <1>1, LiveSlot, Caps DEF SlotType
<1>3. slot \in [Slots -> SlotType] BY DEF IInv, TypeOK
<1>4. \E f \in BOOLEAN, e \in BOOLEAN, r \in BOOLEAN, h \in SUBSET Bases :
         slot' = [slot EXCEPT ![s] = [y EXCEPT !.is_nonblocking = f, !.last_error = e,
                                               !.is_parked = r, !.holders = h]]
  <2>1. CASE tn_ipc_cmd_ioctl(b, s)
    <3>1. slot' = [slot EXCEPT ![s] = [y EXCEPT !.is_nonblocking = ~y.is_nonblocking,
                                                !.last_error = y.last_error,
                                                !.is_parked = y.is_parked, !.holders = y.holders]]
      BY <1>2, <1>3, <2>1 DEF tn_ipc_cmd_ioctl, SlotType
    <3> QED BY <1>2, <3>1 DEF SlotType
  <2>2. CASE tn_ipc_cmd_getsockopt(b, s)
    <3>1. slot' = [slot EXCEPT ![s] = [y EXCEPT !.is_nonblocking = y.is_nonblocking,
                                                !.last_error = FALSE,
                                                !.is_parked = y.is_parked, !.holders = y.holders]]
      BY <1>2, <1>3, <2>2 DEF tn_ipc_cmd_getsockopt, SlotType
    <3> QED BY <1>2, <3>1 DEF SlotType
  <2>3. ASSUME NEW copy \in BOOLEAN, tn_ipc_cmd_releasesocket(b, s, copy)
        PROVE  \E h \in SUBSET Bases :
                  slot' = [slot EXCEPT ![s] = [y EXCEPT !.is_nonblocking = y.is_nonblocking,
                                                        !.last_error = y.last_error,
                                                        !.is_parked = TRUE, !.holders = h]]
    <3>1. PICK h \in SUBSET Bases : h = IF copy THEN y.holders ELSE y.holders \ {b}
      BY <1>2 DEF SlotType
    <3>2. slot' = [slot EXCEPT ![s] = [y EXCEPT !.is_nonblocking = y.is_nonblocking,
                                                !.last_error = y.last_error,
                                                !.is_parked = TRUE, !.holders = h]]
      BY <1>2, <1>3, <2>3, <3>1 DEF tn_ipc_cmd_releasesocket, SlotType
    <3> QED BY <3>2
  <2>4. CASE tn_ipc_cmd_obtainsocket(b, s)
    <3>1. PICK h \in SUBSET Bases : h = y.holders \cup {b} BY <1>2 DEF SlotType
    <3>2. slot' = [slot EXCEPT ![s] = [y EXCEPT !.is_nonblocking = y.is_nonblocking,
                                                !.last_error = y.last_error,
                                                !.is_parked = FALSE, !.holders = h]]
      BY <1>2, <1>3, <2>4, <3>1 DEF tn_ipc_cmd_obtainsocket, SlotType
    <3> QED BY <1>2, <3>2 DEF SlotType
  <2> QED BY <1>2, <2>1, <2>2, <2>3, <2>4 DEF SlotType
<1>5. PICK f \in BOOLEAN, e \in BOOLEAN, r \in BOOLEAN, h \in SUBSET Bases :
         slot' = [slot EXCEPT ![s] = [y EXCEPT !.is_nonblocking = f, !.last_error = e,
                                               !.is_parked = r, !.holders = h]]
  BY <1>4
<1> DEFINE x == [y EXCEPT !.is_nonblocking = f, !.last_error = e, !.is_parked = r, !.holders = h]
<1>6. x \in SlotType /\ x.pending = y.pending /\ Settles(y, x)
  <2>1. y.rx <= y.rx BY <1>2
  <2>2. /\ x \in SlotType /\ x.pending = y.pending /\ x.rx = y.rx
        /\ x.in_use = y.in_use /\ x.type = y.type /\ x.tcp_state = y.tcp_state
        /\ x.tcp_pcb = y.tcp_pcb /\ x.accept = y.accept /\ x.shut_rd = y.shut_rd
        /\ x.shut_wr = y.shut_wr
    BY <1>2 DEF SlotType
  <2> QED BY <2>1, <2>2 DEF Settles
<1> HIDE DEF x, IInv
<1>7. slot' = [slot EXCEPT ![s] = x] BY <1>5 DEF x
<1> QED BY <1>1, <1>6, <1>7, SilentStep

\* CANCEL, a timeout and a resumed send each answer one request.
LEMMA OneAnswer ==
    ASSUME IInv, NEW s \in Slots, slot[s].in_use, NEW k \in Buckets,
           Becomes(s, ReplyTo(World(s), k)), UNCHANGED pcb
    PROVE  IInv'
<1> DEFINE v == ReplyTo(World(s), k)
<1>1. World(s) \in WorldType /\ World(s).sl = slot[s] /\ slot[s] \in SlotType BY LiveSlot
<1>2. /\ v \in WorldType /\ SameSocket(slot[s], v.sl) /\ v.sl.rx = slot[s].rx
      /\ v.sl.pending[k] = NoBase
      /\ \A j \in Buckets : j # k => v.sl.pending[j] = slot[s].pending[j]
      /\ Answers(World(s), v)
  BY <1>1, ReplyWorks
<1>3. slot[s].rx <= slot[s].rx BY <1>1, Caps DEF SlotType
<1> HIDE DEF v
<1>4. Settles(slot[s], v.sl) BY <1>2, <1>3 DEF Settles, SameSocket
<1>5. Becomes(s, v) BY DEF v
<1> QED BY <1>2, <1>4, <1>5, AnswerStep

\* CMD_CANCEL, a receive or send timeout, and a send resumed by tcp_sent each answer one
\* parked request of one slot and change nothing else the invariant reads.
LEMMA AnswersOne ==
    ASSUME IInv,
           \/ \E b \in Bases : tn_ipc_cmd_cancel(b)
           \/ \E s \in Slots : tn_slot_check_recv_timeouts(s)
           \/ \E s \in Slots, p \in Pcbs : tn_tcp_resume_send(s, p)
    PROVE  IInv'
<1>1. CASE \E b \in Bases : tn_ipc_cmd_cancel(b)
  <2>1. PICK s \in Slots, k \in Buckets : slot[s].in_use /\ Becomes(s, ReplyTo(World(s), k))
    BY <1>1 DEF tn_ipc_cmd_cancel
  <2>2. UNCHANGED pcb BY <1>1 DEF tn_ipc_cmd_cancel
  <2> QED BY <2>1, <2>2, OneAnswer
<1>2. CASE \E s \in Slots : tn_slot_check_recv_timeouts(s)
  <2>1. PICK s \in Slots, k \in {"recv", "send"} :
           slot[s].pending[k] # NoBase /\ Becomes(s, ReplyTo(World(s), k))
    BY <1>2 DEF tn_slot_check_recv_timeouts
  <2>2. UNCHANGED pcb BY <1>2 DEF tn_slot_check_recv_timeouts
  <2>3. k \in Buckets BY DEF Buckets
  <2>4. slot[s] # FreeSlot BY <2>1, <2>3 DEF FreeSlot
  <2>5. slot[s].in_use BY <2>4 DEF IInv, GoodSlot, Plain
  <2> QED BY <2>1, <2>2, <2>3, <2>5, OneAnswer
<1>3. CASE \E s \in Slots, p \in Pcbs : tn_tcp_resume_send(s, p)
  <2>1. PICK s \in Slots, p \in Pcbs : tn_tcp_resume_send(s, p) BY <1>3
  <2>2. slot[s].in_use /\ Becomes(s, ReplyTo(World(s), "send")) /\ UNCHANGED pcb
    BY <2>1 DEF tn_tcp_resume_send, IsSlotsPcb, tn_slot_reply_send
  <2>3. "send" \in Buckets BY DEF Buckets
  <2> QED BY <2>2, <2>3, OneAnswer
<1> QED BY <1>1, <1>2, <1>3

\* send parks behind an open circuit.
LEMMA SendKeeps == ASSUME IInv, NEW b \in Bases, NEW s \in Slots, tn_tcp_send_stream(b, s) PROVE IInv'
<1>1. /\ MayCall(b, s) /\ slot[s].tcp_pcb # NoPcb
      /\ slot[s].tcp_state \in {"ESTABLISHED", "PEER_CLOSED"}
      /\ slot[s].pending["send"] = NoBase
      /\ Becomes(s, Park(World(s), b, "send")) /\ UNCHANGED pcb
  BY DEF tn_tcp_send_stream
<1>2. "send" \in Requests /\ BucketOf("send") = "send" BY DEF Requests, Buckets, BucketOf
<1> QED BY <1>1, <1>2, ParkStep

\* recv answers from the queue, or parks where nothing is there to answer with.
LEMMA RecvKeeps ==
    ASSUME IInv, NEW b \in Bases, NEW s \in Slots, NEW op \in {"recv", "recvmsg"},
           tn_ipc_cmd_recv(b, s, op)
    PROVE  IInv'
<1>1. MayCall(b, s) /\ slot[s].in_use /\ UNCHANGED pcb BY DEF tn_ipc_cmd_recv, MayCall
<1>2. slot[s] \in SlotType /\ Plain(slot[s]) /\ World(s).sl = slot[s] BY <1>1, LiveSlot
<1>3. CASE \E r \in RecvResults(slot[s], op) : slot' = [slot EXCEPT ![s] = r] /\ UNCHANGED owed
  <2>1. PICK r \in RecvResults(slot[s], op) : slot' = [slot EXCEPT ![s] = r] BY <1>3
  <2>2. /\ r \in SlotType /\ r.rx <= slot[s].rx /\ r.pending = slot[s].pending
        /\ SameSocket(slot[s], r)
    BY <1>2, ResultsWork
  <2>3. Settles(slot[s], r) BY <2>2 DEF Settles, SameSocket
  <2>4. UNCHANGED <<pcb, owed>> BY <1>1, <1>3
  <2> HIDE DEF IInv
  <2> QED BY <1>1, <2>1, <2>2, <2>3, <2>4, SilentStep
<1>4. CASE /\ ~RecvAnswers(slot[s]) /\ slot[s].pending["recv"] = NoBase
           /\ Becomes(s, Park(World(s), b, op))
  <2>1. op \in Requests /\ BucketOf(op) = "recv" BY DEF Requests, Buckets, BucketOf
  <2>2. slot[s].rx = 0 BY <1>2, <1>4, Caps DEF RecvAnswers, SlotType
  <2>3. /\ slot[s].tcp_state \in {"CLOSED", "CONNECTING", "ESTABLISHED"}
        /\ slot[s].tcp_state = "CLOSED" => slot[s].tcp_pcb = NoPcb
    BY <1>2, <1>4 DEF RecvAnswers, Plain
  <2> QED BY <1>1, <1>4, <2>1, <2>2, <2>3, ParkStep
<1> QED BY <1>3, <1>4 DEF tn_ipc_cmd_recv

\* A datagram is queued and a parked recv is run again.
LEMMA UdpKeeps == ASSUME IInv, NEW s \in Slots, tn_udp_recv_cb(s) PROVE IInv'
<1> DEFINE y == slot[s]
<1>1. y.in_use /\ y.type = "DGRAM" /\ y.rx < MaxRx /\ UNCHANGED pcb BY DEF tn_udp_recv_cb
<1>2. /\ y \in SlotType /\ World(s) \in WorldType /\ World(s).sl = y /\ World(s).ow = owed
      /\ Plain(y) /\ Sleepers(y) /\ Circuit(s, y, pcb) /\ Queue(s, y, pcb)
  BY <1>1, LiveSlot
<1>3. PICK n \in 0 .. MaxRx + 1 : n = y.rx + 1 /\ n <= MaxRx /\ n > 0
  BY <1>1, <1>2, Caps DEF SlotType
<1> DEFINE w == [sl |-> [y EXCEPT !.rx = n], ow |-> owed]
<1>4. [World(s) EXCEPT !.sl.rx = @ + 1] = w BY <1>2, <1>3 DEF World
<1>5. PICK v \in tn_service_pending_recv(w) : Becomes(s, v) BY <1>4 DEF tn_udp_recv_cb
<1>6. owed \in OwedType BY DEF IInv, TypeOK, OwedType
<1>7. [y EXCEPT !.rx = n] \in SlotType BY <1>2 DEF SlotType
<1>8. /\ w \in WorldType /\ w.ow = owed /\ w.sl.rx = n /\ w.sl.pending = y.pending
      /\ SameSocket(y, w.sl)
  BY <1>2, <1>6, <1>7 DEF WorldType, SlotType, SameSocket
<1>9. RecvAnswers(w.sl) BY <1>3, <1>8 DEF RecvAnswers
<1> HIDE DEF w
<1>10. /\ v \in WorldType /\ SameSocket(w.sl, v.sl) /\ v.sl.rx <= n
       /\ \A j \in Buckets : j # "recv" => v.sl.pending[j] = y.pending[j]
       /\ v.sl.pending["recv"] = NoBase /\ Answers(w, v)
  BY <1>5, <1>8, <1>9, ServiceWorks
<1>11. v.sl \in SlotType /\ v.ow \in OwedType BY <1>10 DEF WorldType
<1>12. slot' = [slot EXCEPT ![s] = v.sl] /\ owed' = v.ow BY <1>5 DEF Becomes
<1>13. slot \in [Slots -> SlotType] BY DEF IInv, TypeOK
<1>14. /\ slot' \in [Slots -> SlotType] /\ slot'[s] = v.sl
       /\ \A t \in Slots \ {s} : slot'[t] = slot[t]
  BY <1>11, <1>12, <1>13
<1>15. GoodBuckets(slot', owed') BY <1>8, <1>10, <1>12, <1>14, AnswersKeep
<1>16. v.sl.rx <= MaxRx BY <1>3, <1>10, <1>11, Caps DEF SlotType
<1>17. Plain(v.sl) /\ Circuit(s, v.sl, pcb) /\ Queue(s, v.sl, pcb)
  BY <1>2, <1>8, <1>10, <1>16 DEF Plain, Circuit, Queue, SameSocket
<1>18. Sleepers(v.sl) BY <1>2, <1>8, <1>10 DEF Sleepers, SameSocket, Buckets
<1>19. GoodSlot(s, v.sl, pcb) BY <1>17, <1>18 DEF GoodSlot
<1>20. v.sl.in_use = y.in_use /\ v.sl.tcp_pcb = y.tcp_pcb /\ v.sl.accept = y.accept
  BY <1>8, <1>10 DEF SameSocket
<1>21. owed' \in OwedType BY <1>11, <1>12
<1> HIDE DEF IInv
<1> QED BY <1>1, <1>11, <1>12, <1>15, <1>19, <1>20, <1>21, QuietStep


-----------------------------------------------------------------------------
(***************************************************************************)
(* The steps on a slot and its own pcb.                                    *)
(***************************************************************************)
\* A slot with a pcb: they name one another, and agree.
LEMMA OwnPcb ==
    ASSUME IInv, NEW s \in Slots, slot[s].in_use, slot[s].tcp_pcb # NoPcb
    PROVE  LET y == slot[s]
               c == pcb[slot[s].tcp_pcb]
           IN  /\ y.tcp_pcb \in Pcbs /\ c \in PcbType /\ c.arg = s /\ c.cb \in {"conn", "listen"}
               /\ Follows(y.tcp_state, c.state, c.refused) /\ GoodPcb(y.tcp_pcb, c, slot)
               /\ y \in SlotType /\ y.type = "STREAM" /\ y.rx \in 0 .. MaxRx
               /\ World(s) \in WorldType /\ World(s).sl = y /\ World(s).ow = owed
               /\ Plain(y) /\ Sleepers(y) /\ Queue(s, y, pcb)
<1>1. /\ slot[s] \in SlotType /\ World(s) \in WorldType /\ World(s).sl = slot[s]
      /\ World(s).ow = owed
      /\ Plain(slot[s]) /\ Sleepers(slot[s]) /\ Circuit(s, slot[s], pcb) /\ Queue(s, slot[s], pcb)
  BY LiveSlot
<1>2. slot[s].tcp_pcb \in Pcbs BY <1>1 DEF SlotType
<1>3. pcb[slot[s].tcp_pcb] \in PcbType /\ GoodPcb(slot[s].tcp_pcb, pcb[slot[s].tcp_pcb], slot)
  BY <1>2 DEF IInv, TypeOK
<1>4. slot[s].rx \in 0 .. MaxRx BY <1>1, Caps DEF Plain, SlotType
<1> QED BY <1>1, <1>2, <1>3, <1>4 DEF Circuit

\* A pcb with a slot's callbacks: the slot is in use and the pcb is its own.
LEMMA PcbOwner ==
    ASSUME IInv, NEW p \in Pcbs, pcb[p].cb \in {"conn", "listen"}
    PROVE  pcb[p].arg \in Slots /\ slot[pcb[p].arg].in_use /\ slot[pcb[p].arg].tcp_pcb = p
           /\ slot[pcb[p].arg].tcp_pcb # NoPcb
<1>1. pcb[p] \in PcbType /\ GoodPcb(p, pcb[p], slot) BY DEF IInv, TypeOK
<1>2. pcb[p].arg \in Slots \cup {NoSlot} BY <1>1 DEF PcbType
<1> QED BY <1>1, <1>2, Nulls DEF GoodPcb

\* A world that answers requests of the slot, put back in its place.
LEMMA BecomesKeeps ==
    ASSUME IInv, NEW s \in Slots, NEW v \in WorldType, Becomes(s, v), NEW w \in WorldType,
           w.ow = owed, w.sl.pending = slot[s].pending, Answers(w, v)
    PROVE  /\ v.sl \in SlotType /\ slot' = [slot EXCEPT ![s] = v.sl]
           /\ slot' \in [Slots -> SlotType] /\ slot'[s] = v.sl
           /\ owed' \in OwedType /\ GoodBuckets(slot', owed')
<1>1. v.sl \in SlotType /\ v.ow \in OwedType BY DEF WorldType
<1>2. slot' = [slot EXCEPT ![s] = v.sl] /\ owed' = v.ow BY DEF Becomes
<1>3. slot \in [Slots -> SlotType] BY DEF IInv, TypeOK
<1>4. /\ slot' \in [Slots -> SlotType] /\ slot'[s] = v.sl
      /\ \A t \in Slots \ {s} : slot'[t] = slot[t]
  BY <1>1, <1>2, <1>3
<1>5. GoodBuckets(slot', owed') BY <1>2, <1>4, AnswersKeep
<1> QED BY <1>1, <1>2, <1>4, <1>5

\* The pcb of a slot after the step.
LEMMA PcbAfter ==
    ASSUME IInv, NEW p \in Pcbs, NEW c \in PcbType, pcb' = [pcb EXCEPT ![p] = c]
    PROVE  pcb' \in [Pcbs -> PcbType] /\ pcb'[p] = c /\ \A q \in Pcbs \ {p} : pcb'[q] = pcb[q]
BY DEF IInv, TypeOK

\* A step on a slot and its own pcb, which it keeps.
LEMMA KeepPcbStep ==
    ASSUME IInv, NEW s \in Slots, slot[s].in_use, slot[s].tcp_pcb # NoPcb,
           NEW x \in SlotType, slot' = [slot EXCEPT ![s] = x],
           x.in_use, x.type = slot[s].type, x.tcp_pcb = slot[s].tcp_pcb, x.rx <= MaxRx,
           x.accept = slot[s].accept, x.accept # <<>> => x.tcp_state = "LISTENING",
           NEW c \in PcbType, pcb' = [pcb EXCEPT ![slot[s].tcp_pcb] = c],
           c.arg = s, c.cb = IF c.state = "listen" THEN "listen" ELSE "conn",
           c.refused => c.state \in {"close_wait", "last_ack"},
           Follows(x.tcp_state, c.state, c.refused), Sleepers(x),
           owed' \in OwedType, GoodBuckets(slot', owed')
    PROVE  IInv'
<1>1. PICK p \in Pcbs : p = slot[s].tcp_pcb BY OwnPcb
<1>2. x.type = "STREAM" /\ x.type \in Types BY OwnPcb DEF Plain
<1>3. slot \in [Slots -> SlotType] /\ pcb \in [Pcbs -> PcbType] BY DEF IInv, TypeOK
<1>4. slot'[s] = x /\ pcb'[p] = c BY <1>1, <1>3
<1>5. p # NoPcb /\ s # NoSlot BY Nulls
<1>6. Plain(x) BY <1>2 DEF Plain
<1>7. Circuit(s, x, pcb') BY <1>1, <1>2, <1>4, <1>5 DEF Circuit
<1>8. c.state \in {"closed", "syn_sent", "estab", "close_wait", "fin_wait", "last_ack", "listen"}
  BY DEF Follows
<1>9. GoodPcb(p, c, slot') BY <1>1, <1>4, <1>5, <1>8 DEF GoodPcb
<1>10. x.tcp_pcb = slot[s].tcp_pcb /\ c.arg = s /\ c.cb \in {"conn", "listen"} OBVIOUS
<1> HIDE DEF IInv
<1> QED BY <1>1, <1>6, <1>7, <1>9, <1>10, CircuitStep

\* The same when the slot gives the pcb up: lwIP has freed it or finishes it alone.
LEMMA LosePcbStep ==
    ASSUME IInv, NEW s \in Slots, slot[s].in_use, slot[s].tcp_pcb # NoPcb,
           NEW x \in SlotType, slot' = [slot EXCEPT ![s] = x],
           x.in_use, x.type = slot[s].type, x.tcp_pcb = NoPcb,
           x.tcp_state \in {"CLOSED", "PEER_CLOSED", "ERROR"},
           x.accept = slot[s].accept, x.accept = <<>>,
           NEW c \in PcbType, pcb' = [pcb EXCEPT ![slot[s].tcp_pcb] = c],
           c.arg = NoSlot, c.cb = "none", ~c.refused,
           c.state \in {"free", "fin_wait", "last_ack", "finished"}, Sleepers(x),
           owed' \in OwedType, GoodBuckets(slot', owed')
    PROVE  IInv'
<1>1. PICK p \in Pcbs : p = slot[s].tcp_pcb BY OwnPcb
<1>2. x.type = "STREAM" /\ x.type \in Types BY OwnPcb DEF Plain
<1>3. Plain(x) BY <1>2 DEF Plain
<1>4. Circuit(s, x, pcb') BY DEF Circuit
<1>5. GoodPcb(p, c, slot') BY DEF GoodPcb
<1>6. x.tcp_pcb = NoPcb /\ c.arg = NoSlot /\ c.cb = "none" OBVIOUS
<1>7. x.accept # <<>> => x.tcp_state = "LISTENING" OBVIOUS
<1> HIDE DEF IInv
<1> QED BY <1>1, <1>3, <1>4, <1>5, <1>6, <1>7, CircuitStep

\* connect() starts a handshake and parks a blocking caller.
LEMMA ConnectKeeps ==
    ASSUME IInv, NEW b \in Bases, NEW s \in Slots, tn_ipc_cmd_connect(b, s)
    PROVE  IInv'
<1> DEFINE y == slot[s]
           p == slot[s].tcp_pcb
           c == Pcb("syn_sent", "conn", s)
           w == [sl |-> [y EXCEPT !.tcp_state = "CONNECTING"], ow |-> owed]
           v == IF y.is_nonblocking THEN w ELSE Park(w, b, "connect")
<1>1. /\ MayCall(b, s) /\ y.in_use /\ owed[b] = "none" /\ y.type = "STREAM"
      /\ y.tcp_state = "CLOSED" /\ p # NoPcb
      /\ pcb' = [pcb EXCEPT ![p] = c]
  BY DEF tn_ipc_cmd_connect, MayCall
<1>2. /\ p \in Pcbs /\ y \in SlotType /\ World(s).sl = y /\ World(s).ow = owed
      /\ y.rx \in 0 .. MaxRx /\ Plain(y) /\ Sleepers(y) /\ Queue(s, y, pcb)
  BY <1>1, OwnPcb
<1>3. [World(s) EXCEPT !.sl.tcp_state = "CONNECTING"] = w BY DEF World
<1>4. Becomes(s, v) BY <1>3 DEF tn_ipc_cmd_connect
<1>5. owed \in OwedType /\ slot \in [Slots -> SlotType] BY DEF IInv, TypeOK, OwedType
<1> DEFINE z == [y EXCEPT !.tcp_state = "CONNECTING"]
<1>6. /\ z \in SlotType /\ z.in_use /\ z.type = "STREAM" /\ z.tcp_state = "CONNECTING"
      /\ z.tcp_pcb = p /\ z.rx = y.rx /\ z.accept = y.accept /\ z.pending = y.pending
  BY <1>1, <1>2 DEF SlotType, TcpStates
<1>7. y.pending \in [Buckets -> Bases \cup {NoBase}] BY <1>2 DEF SlotType
<1>8. \A k \in Buckets : y.pending[k] = NoBase BY <1>1, <1>2 DEF Sleepers, Buckets
<1>9. y.accept = <<>> BY <1>1, <1>2 DEF Queue
<1>10. "connect" \in Buckets /\ "connect" \in Requests /\ BucketOf("connect") = "connect"
  BY DEF Buckets, Requests, BucketOf
<1>11. c \in PcbType /\ c.arg = s /\ c.cb = "conn" /\ c.state = "syn_sent" /\ ~c.refused
  BY DEF Pcb, PcbType, PcbStates, Callbacks
<1>12. pcb'[p] = c BY <1>1, <1>2, <1>11, PcbAfter
<1> HIDE DEF z, c
<1>13. \E x \in SlotType :
         /\ slot' = [slot EXCEPT ![s] = x] /\ owed' \in OwedType /\ GoodBuckets(slot', owed')
         /\ x.in_use /\ x.type = "STREAM" /\ x.tcp_state = "CONNECTING" /\ x.tcp_pcb = p
         /\ x.rx = y.rx /\ x.accept = y.accept
         /\ \A k \in Buckets : k # "connect" => x.pending[k] = NoBase
  <2>1. CASE y.is_nonblocking
    <3>1. slot' = [slot EXCEPT ![s] = z] /\ owed' = owed BY <1>4, <2>1 DEF Becomes, z
    <3>2. \A t \in Slots : slot'[t].pending = slot[t].pending BY <1>5, <1>6, <3>1
    <3>3. GoodBuckets(slot', owed') BY <3>1, <3>2, BucketsStay
    <3> QED BY <1>5, <1>6, <1>8, <3>1, <3>3
  <2>2. CASE ~y.is_nonblocking
    <3> DEFINE x == [z EXCEPT !.pending = [y.pending EXCEPT !["connect"] = b]]
    <3>1. slot' = [slot EXCEPT ![s] = x] /\ owed' = [owed EXCEPT ![b] = "connect"]
      BY <1>4, <1>6, <1>10, <2>2 DEF Becomes, Park, z
    <3>2. /\ x \in SlotType /\ x.in_use /\ x.type = "STREAM" /\ x.tcp_state = "CONNECTING"
          /\ x.tcp_pcb = p /\ x.rx = y.rx /\ x.accept = y.accept
          /\ x.pending = [y.pending EXCEPT !["connect"] = b]
      BY <1>6, <1>7, <1>10 DEF SlotType
    <3> HIDE DEF x
    <3>3. /\ slot' \in [Slots -> SlotType] /\ slot'[s] = x
          /\ \A t \in Slots \ {s} : slot'[t] = slot[t]
      BY <1>5, <3>1, <3>2
    <3>4. GoodBuckets(slot', owed')
      <4>1. slot'[s].pending = [slot[s].pending EXCEPT ![BucketOf("connect")] = b]
        BY <1>10, <3>2, <3>3
      <4>2. slot[s].pending[BucketOf("connect")] = NoBase /\ owed[b] = "none" BY <1>1, <1>8, <1>10
      <4>3. \A t \in Slots \ {s} : slot'[t].pending = slot[t].pending BY <3>3
      <4> HIDE DEF y
      <4> QED BY <1>10, <3>1, <3>3, <4>1, <4>2, <4>3, ParkKeeps
    <3>5. owed' \in OwedType BY <1>5, <1>10, <3>1 DEF OwedType
    <3>6. \A k \in Buckets : k # "connect" => x.pending[k] = NoBase BY <1>7, <1>8, <3>2
    <3> QED BY <3>1, <3>2, <3>4, <3>5, <3>6
  <2> QED BY <2>1, <2>2
<1>14. PICK x \in SlotType :
         /\ slot' = [slot EXCEPT ![s] = x] /\ owed' \in OwedType /\ GoodBuckets(slot', owed')
         /\ x.in_use /\ x.type = "STREAM" /\ x.tcp_state = "CONNECTING" /\ x.tcp_pcb = p
         /\ x.rx = y.rx /\ x.accept = y.accept
         /\ \A k \in Buckets : k # "connect" => x.pending[k] = NoBase
  BY <1>13
<1>15. Sleepers(x) BY <1>14 DEF Sleepers, Buckets
<1>16. x.rx <= MaxRx BY <1>2, <1>14, Caps
<1>17. Follows(x.tcp_state, c.state, c.refused) BY <1>11, <1>14 DEF Follows
<1>18. /\ c.cb = IF c.state = "listen" THEN "listen" ELSE "conn"
       /\ c.refused => c.state \in {"close_wait", "last_ack"}
  BY <1>11
<1>19. /\ slot[s].in_use /\ slot[s].tcp_pcb # NoPcb /\ x.type = slot[s].type
       /\ x.accept = slot[s].accept /\ x.accept = <<>> /\ x.tcp_pcb = slot[s].tcp_pcb
       /\ pcb' = [pcb EXCEPT ![slot[s].tcp_pcb] = c]
  BY <1>1, <1>9, <1>14
<1> HIDE DEF IInv, p, y
<1> QED BY <1>11, <1>14, <1>15, <1>16, <1>17, <1>18, <1>19, KeepPcbStep

\* listen() makes a listener of a fresh pcb.
LEMMA ListenKeeps ==
    ASSUME IInv, NEW b \in Bases, NEW s \in Slots, tn_ipc_cmd_listen(b, s)
    PROVE  IInv'
<1> DEFINE y == slot[s]
           p == slot[s].tcp_pcb
           c == Pcb("listen", "listen", s)
           x == [y EXCEPT !.tcp_state = "LISTENING"]
<1>1. /\ y.in_use /\ y.type = "STREAM" /\ p # NoPcb /\ pcb[p].state = "closed"
      /\ pcb' = [pcb EXCEPT ![p] = c] /\ owed' = owed
      /\ slot' = [slot EXCEPT ![s].tcp_state = "LISTENING"]
  BY DEF tn_ipc_cmd_listen, MayCall
<1>2. /\ p \in Pcbs /\ y \in SlotType /\ Follows(y.tcp_state, pcb[p].state, pcb[p].refused)
      /\ y.rx \in 0 .. MaxRx /\ Plain(y) /\ Sleepers(y) /\ Queue(s, y, pcb)
  BY <1>1, OwnPcb
<1>3. y.tcp_state = "CLOSED" BY <1>1, <1>2 DEF Follows
<1>4. owed \in OwedType /\ slot \in [Slots -> SlotType] BY DEF IInv, TypeOK, OwedType
<1>5. slot' = [slot EXCEPT ![s] = x] BY <1>1, <1>4
<1>6. /\ x \in SlotType /\ x.in_use /\ x.type = "STREAM" /\ x.tcp_state = "LISTENING"
      /\ x.tcp_pcb = p /\ x.rx = y.rx /\ x.accept = y.accept /\ x.pending = y.pending
  BY <1>1, <1>2 DEF SlotType, TcpStates
<1>7. \A k \in Buckets : y.pending[k] = NoBase BY <1>1, <1>2, <1>3 DEF Sleepers, Buckets
<1>8. c \in PcbType /\ c.arg = s /\ c.cb = "listen" /\ c.state = "listen" /\ ~c.refused
  BY DEF Pcb, PcbType, PcbStates, Callbacks
<1>9. pcb'[p] = c BY <1>1, <1>2, <1>8, PcbAfter
<1> HIDE DEF x, c
<1>10. slot'[s] = x /\ \A t \in Slots : slot'[t].pending = slot[t].pending BY <1>4, <1>5, <1>6
<1>11. GoodBuckets(slot', owed') /\ owed' \in OwedType BY <1>1, <1>4, <1>10, BucketsStay
<1>12. Sleepers(x) BY <1>6, <1>7 DEF Sleepers, Buckets
<1>13. x.rx <= MaxRx BY <1>2, <1>6, Caps
<1>14. Follows(x.tcp_state, c.state, c.refused) BY <1>6, <1>8 DEF Follows
<1>15. /\ c.cb = IF c.state = "listen" THEN "listen" ELSE "conn"
       /\ c.refused => c.state \in {"close_wait", "last_ack"}
  BY <1>8
<1>16. /\ slot[s].in_use /\ slot[s].tcp_pcb # NoPcb /\ x.type = slot[s].type
       /\ x.accept = slot[s].accept /\ x.tcp_pcb = slot[s].tcp_pcb
       /\ pcb' = [pcb EXCEPT ![slot[s].tcp_pcb] = c]
  BY <1>1, <1>6
<1> HIDE DEF IInv, p, y
<1> QED BY <1>5, <1>6, <1>8, <1>11, <1>12, <1>13, <1>14, <1>15, <1>16, KeepPcbStep

\* The handshake ended: the parked connect is answered.
LEMMA ConnectedKeeps ==
    ASSUME IInv, NEW s \in Slots, NEW p \in Pcbs, tn_tcp_connected_cb(s, p)
    PROVE  IInv'
<1> DEFINE y == slot[s]
           c == [pcb[p] EXCEPT !.state = "estab"]
           w == [sl |-> [y EXCEPT !.tcp_state = "ESTABLISHED"], ow |-> owed]
           v == ReplyTo(w, "connect")
<1>1. /\ pcb[p].cb = "conn" /\ pcb[p].state = "syn_sent" /\ pcb[p].arg = s
      /\ pcb' = [pcb EXCEPT ![p].state = "estab"]
  BY DEF tn_tcp_connected_cb
<1>2. y.in_use /\ y.tcp_pcb = p /\ p # NoPcb BY <1>1, PcbOwner
<1>3. /\ pcb[p] \in PcbType /\ Follows(y.tcp_state, pcb[p].state, pcb[p].refused)
      /\ GoodPcb(p, pcb[p], slot) /\ y \in SlotType /\ World(s).sl = y /\ World(s).ow = owed
      /\ y.rx \in 0 .. MaxRx /\ Plain(y) /\ Sleepers(y) /\ Queue(s, y, pcb)
  BY <1>2, OwnPcb
<1>4. y.tcp_state = "CONNECTING" BY <1>1, <1>3 DEF Follows
<1>5. [World(s) EXCEPT !.sl.tcp_state = "ESTABLISHED"] = w BY DEF World
<1>6. Becomes(s, v) BY <1>2, <1>5 DEF tn_tcp_connected_cb, IsSlotsPcb
<1>7. owed \in OwedType /\ pcb \in [Pcbs -> PcbType] BY DEF IInv, TypeOK, OwedType
<1>8. [y EXCEPT !.tcp_state = "ESTABLISHED"] \in SlotType BY <1>3 DEF SlotType, TcpStates
<1>9. /\ w \in WorldType /\ w.ow = owed /\ w.sl.pending = y.pending /\ w.sl.tcp_state = "ESTABLISHED"
      /\ w.sl.in_use /\ w.sl.type = y.type /\ w.sl.tcp_pcb = p /\ w.sl.rx = y.rx
      /\ w.sl.accept = y.accept
  BY <1>2, <1>3, <1>7, <1>8 DEF WorldType, SlotType
<1> HIDE DEF w
<1>10. "connect" \in Buckets BY DEF Buckets
<1>11. /\ v \in WorldType /\ SameSocket(w.sl, v.sl) /\ v.sl.rx = w.sl.rx
       /\ v.sl.pending["connect"] = NoBase
       /\ \A j \in Buckets : j # "connect" => v.sl.pending[j] = w.sl.pending[j]
       /\ Answers(w, v)
  BY <1>9, <1>10, ReplyWorks
<1> HIDE DEF v
<1>12. /\ v.sl \in SlotType /\ slot' = [slot EXCEPT ![s] = v.sl] /\ slot'[s] = v.sl
       /\ owed' \in OwedType /\ GoodBuckets(slot', owed')
  BY <1>6, <1>9, <1>11, BecomesKeeps
<1>13. /\ v.sl.in_use /\ v.sl.type = y.type /\ v.sl.tcp_pcb = p /\ v.sl.rx = y.rx
       /\ v.sl.tcp_state = "ESTABLISHED" /\ v.sl.accept = y.accept
  BY <1>9, <1>11 DEF SameSocket
<1>14. Sleepers(v.sl)
  BY <1>3, <1>4, <1>9, <1>11, <1>13 DEF Sleepers, Buckets
<1>15. /\ c \in PcbType /\ c.arg = s /\ c.cb = "conn" /\ c.state = "estab"
       /\ c.refused = pcb[p].refused
  BY <1>1, <1>3 DEF PcbType, PcbStates
<1>16. ~pcb[p].refused BY <1>1, <1>3 DEF GoodPcb
<1>17. pcb' = [pcb EXCEPT ![p] = c] BY <1>1, <1>7
<1> HIDE DEF c
<1>18. v.sl.rx <= MaxRx BY <1>3, <1>13, Caps
<1>19. Follows(v.sl.tcp_state, c.state, c.refused) BY <1>13, <1>15 DEF Follows
<1>20. /\ c.cb = IF c.state = "listen" THEN "listen" ELSE "conn"
       /\ c.refused => c.state \in {"close_wait", "last_ack"}
  BY <1>15, <1>16
<1>21. y.accept = <<>> BY <1>3, <1>4 DEF Queue
<1>22. /\ slot[s].in_use /\ slot[s].tcp_pcb # NoPcb /\ v.sl.type = slot[s].type
       /\ v.sl.accept = slot[s].accept /\ v.sl.accept = <<>> /\ v.sl.tcp_pcb = slot[s].tcp_pcb
       /\ pcb' = [pcb EXCEPT ![slot[s].tcp_pcb] = c] /\ v.sl.in_use
  BY <1>2, <1>13, <1>17, <1>21
<1> HIDE DEF IInv, y
<1> QED BY <1>12, <1>14, <1>15, <1>18, <1>19, <1>20, <1>22, KeepPcbStep

\* recv_cb with data queues a packet and runs a parked recv, unless the reader shut down.
LEMMA DataWorks ==
    ASSUME NEW w \in WorldType, w.sl.rx <= MaxRx, NEW v \in DataCb(w)
    PROVE  /\ v \in WorldType /\ SameSocket(w.sl, v.sl)
           /\ IF w.sl.shut_rd THEN v.sl.rx = w.sl.rx ELSE v.sl.rx <= w.sl.rx + 1
           /\ \A j \in Buckets : j # "recv" => v.sl.pending[j] = w.sl.pending[j]
           /\ v.sl.pending["recv"] # NoBase => v.sl.rx = w.sl.rx /\ w.sl.pending["recv"] # NoBase
           /\ Answers(w, v)
<1>1. CASE w.sl.shut_rd
  <2>1. v = w BY <1>1 DEF DataCb
  <2> QED BY <1>1, <2>1 DEF SameSocket, Answers
<1>2. CASE ~w.sl.shut_rd
  <2>1. w.sl \in SlotType /\ w.ow \in OwedType BY DEF WorldType
  <2>2. PICK n \in 0 .. MaxRx + 1 : n = w.sl.rx + 1 /\ n > 0 BY <2>1, Caps DEF SlotType
  <2> DEFINE x == [w.sl EXCEPT !.rx = n]
             z == [sl |-> x, ow |-> w.ow]
  <2>3. [w EXCEPT !.sl.rx = @ + 1] = z BY <2>1, <2>2 DEF WorldType
  <2>4. v \in tn_service_pending_recv(z) BY <1>2, <2>3 DEF DataCb
  <2>5. x \in SlotType /\ x.rx = n /\ x.pending = w.sl.pending /\ SameSocket(w.sl, x)
    BY <2>1, <2>2 DEF SlotType, SameSocket
  <2> HIDE DEF x
  <2>6. z \in WorldType /\ z.sl = x /\ z.ow = w.ow BY <2>1, <2>5 DEF WorldType
  <2> HIDE DEF z
  <2>7. RecvAnswers(x) BY <2>2, <2>5 DEF RecvAnswers
  <2>8. /\ v \in WorldType /\ SameSocket(x, v.sl) /\ v.sl.rx <= n
        /\ \A j \in Buckets : j # "recv" => v.sl.pending[j] = x.pending[j]
        /\ v.sl.pending["recv"] = NoBase /\ Answers(z, v)
    BY <2>4, <2>5, <2>6, <2>7, ServiceWorks
  <2>9. Answers(w, v) BY <2>5, <2>6, <2>8 DEF Answers
  <2>10. SameSocket(w.sl, v.sl) BY <2>5, <2>8 DEF SameSocket
  <2> QED BY <1>2, <2>2, <2>5, <2>8, <2>9, <2>10
<1> QED BY <1>1, <1>2

\* recv_cb with the FIN: the slot is told, and lets go of a pcb lwIP has finished;
\* the parked recv is answered, and with the pcb goes the parked send.
LEMMA FinWorks ==
    ASSUME NEW w \in WorldType, w.sl.type = "STREAM", NEW c, NEW v \in FinCb(w, c)
    PROVE  /\ v \in WorldType /\ v.sl.in_use = w.sl.in_use /\ v.sl.type = w.sl.type
           /\ v.sl.accept = w.sl.accept /\ v.sl.tcp_state = "PEER_CLOSED"
           /\ v.sl.tcp_pcb = IF c.state = "finished" THEN NoPcb ELSE w.sl.tcp_pcb
           /\ v.sl.rx <= w.sl.rx
           /\ v.sl.pending["recv"] = NoBase
           /\ v.sl.pending["send"] = IF c.state = "finished" THEN NoBase ELSE w.sl.pending["send"]
           /\ v.sl.pending["accept"] = w.sl.pending["accept"]
           /\ v.sl.pending["connect"] = w.sl.pending["connect"]
           /\ Answers(w, v)
<1> DEFINE x == [w.sl EXCEPT !.tcp_state = "PEER_CLOSED"]
           z == [sl |-> x, ow |-> w.ow]
<1>1. w.sl \in SlotType /\ w.ow \in OwedType BY DEF WorldType
<1>2. [w EXCEPT !.sl.tcp_state = "PEER_CLOSED"] = z BY DEF WorldType
<1>3. /\ x \in SlotType /\ x.in_use = w.sl.in_use /\ x.type = "STREAM" /\ x.accept = w.sl.accept
      /\ x.tcp_state = "PEER_CLOSED" /\ x.tcp_pcb = w.sl.tcp_pcb /\ x.rx = w.sl.rx
      /\ x.pending = w.sl.pending
  BY <1>1 DEF SlotType, TcpStates
<1>4. \A k \in Buckets : k \in {"recv", "send", "accept", "connect"} BY DEF Buckets
<1>5. {"recv", "send", "accept", "connect"} \subseteq Buckets BY DEF Buckets
<1> HIDE DEF x
<1>6. z \in WorldType /\ z.sl = x /\ z.ow = w.ow BY <1>1, <1>3 DEF WorldType
<1>7. PICK y \in WorldType :
         /\ v \in tn_service_pending_recv(y)
         /\ y.sl.in_use = w.sl.in_use /\ y.sl.type = "STREAM" /\ y.sl.accept = w.sl.accept
         /\ y.sl.tcp_state = "PEER_CLOSED" /\ y.sl.rx = w.sl.rx
         /\ y.sl.tcp_pcb = IF c.state = "finished" THEN NoPcb ELSE w.sl.tcp_pcb
         /\ y.sl.pending["send"] = IF c.state = "finished" THEN NoBase ELSE w.sl.pending["send"]
         /\ \A j \in Buckets : j # "send" => y.sl.pending[j] = w.sl.pending[j]
         /\ Answers(w, y)
  <2>1. CASE c.state = "finished"
    <3> DEFINE u == [x EXCEPT !.tcp_pcb = NoPcb, !.shut_wr = TRUE]
               a == [sl |-> u, ow |-> w.ow]
    <3>1. [z EXCEPT !.sl.tcp_pcb = NoPcb, !.sl.shut_wr = TRUE] = a
      <4>1. [z EXCEPT !.sl.tcp_pcb = NoPcb] = [sl |-> [x EXCEPT !.tcp_pcb = NoPcb], ow |-> w.ow]
        OBVIOUS
      <4>2. [[sl |-> [x EXCEPT !.tcp_pcb = NoPcb], ow |-> w.ow] EXCEPT !.sl.shut_wr = TRUE] = a
        OBVIOUS
      <4> QED BY <4>1, <4>2
    <3>2. v \in tn_service_pending_recv(ReplyTo(a, "send"))
      BY <1>2, <2>1, <3>1 DEF FinCb, tn_tcp_detach_finished, tn_slot_reply_send
    <3>3. /\ u \in SlotType /\ u.in_use = x.in_use /\ u.type = x.type /\ u.accept = x.accept
          /\ u.tcp_state = x.tcp_state /\ u.tcp_pcb = NoPcb /\ u.rx = x.rx /\ u.pending = x.pending
      BY <1>3 DEF SlotType
    <3> HIDE DEF u
    <3>4. a \in WorldType /\ a.sl = u /\ a.ow = w.ow BY <1>1, <3>3 DEF WorldType
    <3> HIDE DEF a
    <3> DEFINE y == ReplyTo(a, "send")
    <3>5. /\ y \in WorldType /\ SameSocket(u, y.sl) /\ y.sl.rx = u.rx
          /\ y.sl.pending["send"] = NoBase
          /\ \A j \in Buckets : j # "send" => y.sl.pending[j] = u.pending[j]
          /\ Answers(a, y)
      BY <1>5, <3>4, ReplyWorks
    <3>6. Answers(w, y) BY <1>3, <3>3, <3>4, <3>5 DEF Answers
    <3> HIDE DEF y
    <3>7. v \in tn_service_pending_recv(y) BY <3>2 DEF y
    <3>8. /\ y.sl.in_use = w.sl.in_use /\ y.sl.type = "STREAM" /\ y.sl.accept = w.sl.accept
          /\ y.sl.tcp_state = "PEER_CLOSED" /\ y.sl.rx = w.sl.rx /\ y.sl.tcp_pcb = NoPcb
          /\ \A j \in Buckets : j # "send" => y.sl.pending[j] = w.sl.pending[j]
      BY <1>3, <3>3, <3>5 DEF SameSocket
    <3> QED BY <2>1, <3>5, <3>6, <3>7, <3>8
  <2>2. CASE c.state # "finished"
    <3>1. v \in tn_service_pending_recv(z) BY <1>2, <2>2 DEF FinCb
    <3>2. Answers(w, z) BY <1>3, <1>6 DEF Answers
    <3> HIDE DEF z
    <3> QED BY <1>3, <1>5, <1>6, <2>2, <3>1, <3>2
  <2> QED BY <2>1, <2>2
<1>8. RecvAnswers(y.sl) BY <1>7 DEF RecvAnswers
<1>9. /\ v \in WorldType /\ SameSocket(y.sl, v.sl) /\ v.sl.rx <= y.sl.rx
      /\ \A j \in Buckets : j # "recv" => v.sl.pending[j] = y.sl.pending[j]
      /\ v.sl.pending["recv"] = NoBase /\ Answers(y, v)
  BY <1>7, <1>8, ServiceWorks
<1>10. Answers(w, v) BY <1>7, <1>9, AnswersAdd
<1> QED BY <1>5, <1>7, <1>9, <1>10 DEF SameSocket

\* The FIN is delivered, after the data that may have come with it.
LEMMA FinStep ==
    ASSUME IInv, NEW s \in Slots, slot[s].in_use, slot[s].tcp_pcb # NoPcb,
           slot[s].tcp_state = "ESTABLISHED",
           NEW w \in WorldType, SameSocket(slot[s], w.sl), Answers(World(s), w),
           \A j \in Buckets : j # "recv" => w.sl.pending[j] = slot[s].pending[j],
           NEW c \in PcbType, c.arg = s, c.cb = "conn",
           c.state \in {"close_wait", "last_ack", "finished"},
           c.state = "finished" \/ w.sl.rx <= MaxRx,
           NEW v \in FinCb(w, c), Becomes(s, v),
           pcb' = [pcb EXCEPT ![slot[s].tcp_pcb] = AfterFin(c)]
    PROVE  IInv'
<1> DEFINE y == slot[s]
<1>1. /\ y \in SlotType /\ y.type = "STREAM" /\ World(s) \in WorldType /\ World(s).sl = y
      /\ World(s).ow = owed /\ Sleepers(y) /\ Queue(s, y, pcb)
  BY OwnPcb
<1>2. /\ y.pending["connect"] = NoBase /\ y.pending["accept"] = NoBase /\ y.accept = <<>>
  BY <1>1 DEF Sleepers, Queue
<1>3. {"recv", "send", "accept", "connect"} \subseteq Buckets BY DEF Buckets
<1>4. /\ w.sl.type = "STREAM" /\ w.sl.in_use /\ w.sl.tcp_pcb = y.tcp_pcb /\ w.sl.accept = <<>>
      /\ w.sl.pending["connect"] = NoBase /\ w.sl.pending["accept"] = NoBase
  BY <1>1, <1>2, <1>3 DEF SameSocket
<1>5. /\ v \in WorldType /\ v.sl.in_use /\ v.sl.type = "STREAM" /\ v.sl.accept = <<>>
      /\ v.sl.tcp_state = "PEER_CLOSED"
      /\ v.sl.tcp_pcb = IF c.state = "finished" THEN NoPcb ELSE y.tcp_pcb
      /\ v.sl.rx <= w.sl.rx /\ v.sl.pending["recv"] = NoBase
      /\ c.state = "finished" => v.sl.pending["send"] = NoBase
      /\ v.sl.pending["accept"] = NoBase /\ v.sl.pending["connect"] = NoBase
      /\ Answers(w, v)
  BY <1>4, FinWorks
<1>6. Answers(World(s), v) BY <1>5, AnswersAdd
<1>7. /\ v.sl \in SlotType /\ slot' = [slot EXCEPT ![s] = v.sl] /\ owed' \in OwedType
      /\ GoodBuckets(slot', owed')
  BY <1>1, <1>5, <1>6, BecomesKeeps
<1>8. Sleepers(v.sl) BY <1>5 DEF Sleepers
<1>9. CASE c.state = "finished"
  <2> DEFINE d == Pcb("finished", "none", NoSlot)
  <2>1. AfterFin(c) = d BY <1>9 DEF AfterFin
  <2>2. d \in PcbType /\ d.arg = NoSlot /\ d.cb = "none" /\ ~d.refused /\ d.state = "finished"
    BY DEF Pcb, PcbType, PcbStates, Callbacks
  <2> HIDE DEF d, IInv
  <2>3. pcb' = [pcb EXCEPT ![slot[s].tcp_pcb] = d] BY <2>1
  <2>4. /\ v.sl.type = slot[s].type /\ v.sl.accept = slot[s].accept /\ v.sl.tcp_pcb = NoPcb
        /\ v.sl.tcp_state \in {"CLOSED", "PEER_CLOSED", "ERROR"} /\ v.sl.accept = <<>>
        /\ d.state \in {"free", "fin_wait", "last_ack", "finished"} /\ v.sl.in_use
    BY <1>1, <1>2, <1>5, <1>9, <2>2
  <2> QED BY <1>7, <1>8, <2>2, <2>3, <2>4, LosePcbStep
<1>10. CASE c.state # "finished"
  <2> DEFINE d == [c EXCEPT !.refused = FALSE]
  <2>1. AfterFin(c) = d BY <1>10 DEF AfterFin
  <2>2. d \in PcbType /\ d.arg = s /\ d.cb = "conn" /\ ~d.refused /\ d.state = c.state
    BY DEF PcbType
  <2> HIDE DEF d, IInv
  <2>3. pcb' = [pcb EXCEPT ![slot[s].tcp_pcb] = d] BY <2>1
  <2>4. /\ v.sl.type = slot[s].type /\ v.sl.accept = slot[s].accept
        /\ v.sl.tcp_pcb = slot[s].tcp_pcb /\ v.sl.accept = <<>> /\ v.sl.in_use
        /\ d.cb = (IF d.state = "listen" THEN "listen" ELSE "conn")
        /\ d.refused => d.state \in {"close_wait", "last_ack"}
    BY <1>1, <1>2, <1>5, <1>10, <2>2
  <2>5. w.sl \in SlotType BY DEF WorldType
  <2>6. v.sl.rx <= MaxRx BY <1>5, <1>7, <1>10, <2>5, Caps DEF SlotType
  <2>7. Follows(v.sl.tcp_state, d.state, d.refused) BY <1>5, <1>10, <2>2 DEF Follows
  <2> QED BY <1>7, <1>8, <2>2, <2>3, <2>4, <2>6, <2>7, KeepPcbStep
<1> QED BY <1>9, <1>10

\* A segment reaches a connected slot.
LEMMA RecvCbKeeps ==
    ASSUME IInv, NEW s \in Slots, NEW p \in Pcbs, NEW data \in BOOLEAN, NEW fin \in BOOLEAN,
           tn_tcp_recv_cb(s, p, data, fin)
    PROVE  IInv'
<1> DEFINE y == slot[s]
           st == CASE fin /\ pcb[p].state = "estab"    -> "close_wait"
                   [] fin /\ pcb[p].state = "fin_wait" -> "finished"
                   [] OTHER -> pcb[p].state
           c == [pcb[p] EXCEPT !.state = st]
           ws == IF data THEN DataCb(World(s)) ELSE {World(s)}
<1>1. /\ pcb[p].cb = "conn" /\ pcb[p].state \in {"estab", "fin_wait"} /\ pcb[p].arg = s
      /\ y.in_use /\ y.tcp_pcb = p /\ (data \/ fin)
  BY DEF tn_tcp_recv_cb, IsSlotsPcb
<1>2. p # NoPcb BY Nulls
<1>3. /\ pcb[p] \in PcbType /\ Follows(y.tcp_state, pcb[p].state, pcb[p].refused)
      /\ GoodPcb(p, pcb[p], slot) /\ y \in SlotType /\ y.type = "STREAM" /\ y.rx \in 0 .. MaxRx
      /\ World(s) \in WorldType /\ World(s).sl = y /\ World(s).ow = owed
      /\ Plain(y) /\ Sleepers(y) /\ Queue(s, y, pcb)
  BY <1>1, <1>2, OwnPcb
<1>4. y.tcp_state = "ESTABLISHED" /\ ~pcb[p].refused BY <1>1, <1>3 DEF Follows, GoodPcb
<1>5. st = IF fin THEN (IF pcb[p].state = "estab" THEN "close_wait" ELSE "finished")
           ELSE pcb[p].state
  BY <1>1
<1>6. /\ c \in PcbType /\ c.arg = s /\ c.cb = "conn" /\ c.state = st /\ ~c.refused
  BY <1>1, <1>3, <1>4, <1>5 DEF PcbType, PcbStates
<1>7. y.rx <= MaxRx BY <1>3, Caps
<1>8. y.accept = <<>> BY <1>3, <1>4 DEF Queue
<1>9. \/ /\ data => TakesData(slot[s], c)
         /\ \E w \in ws : \E v \in IF fin THEN FinCb(w, c) ELSE {w} : Becomes(s, v)
         /\ pcb' = [pcb EXCEPT ![p] = IF fin THEN AfterFin(c) ELSE c]
      \/ /\ data /\ fin /\ ~TakesData(slot[s], c)
         /\ pcb' = [pcb EXCEPT ![p] = [c EXCEPT !.refused = TRUE]]
         /\ UNCHANGED <<slot, owed>>
  BY DEF tn_tcp_recv_cb
<1> HIDE DEF c, st
<1>10. ASSUME data => TakesData(slot[s], c), NEW w \in ws
       PROVE  /\ w \in WorldType /\ SameSocket(y, w.sl)
              /\ c.state = "finished" \/ w.sl.rx <= MaxRx
              /\ \A j \in Buckets : j # "recv" => w.sl.pending[j] = y.pending[j]
              /\ w.sl.pending["recv"] # NoBase => w.sl.rx = y.rx /\ y.pending["recv"] # NoBase
              /\ Answers(World(s), w)
  <2>1. CASE ~data
    <3>1. w = World(s) BY <2>1
    <3> QED BY <1>3, <1>7, <3>1 DEF SameSocket, Answers
  <2>2. CASE data
    <3>1. w \in DataCb(World(s)) BY <2>2
    <3>2. /\ w \in WorldType /\ SameSocket(y, w.sl)
          /\ IF y.shut_rd THEN w.sl.rx = y.rx ELSE w.sl.rx <= y.rx + 1
          /\ \A j \in Buckets : j # "recv" => w.sl.pending[j] = y.pending[j]
          /\ w.sl.pending["recv"] # NoBase => w.sl.rx = y.rx /\ y.pending["recv"] # NoBase
          /\ Answers(World(s), w)
      BY <1>3, <1>7, <3>1, DataWorks
    <3>3. w.sl \in SlotType BY <3>2 DEF WorldType
    <3>4. w.sl.rx \in Int /\ y.rx \in Int /\ MaxRx \in Int BY <1>3, <3>3, Caps DEF SlotType
    <3>5. c.state = "finished" \/ w.sl.rx <= MaxRx
      BY <1>7, <1>10, <2>2, <3>2, <3>4 DEF TakesData
    <3> QED BY <3>2, <3>5
  <2> QED BY <2>1, <2>2
<1>11. CASE /\ data => TakesData(slot[s], c)
            /\ \E w \in ws : \E v \in IF fin THEN FinCb(w, c) ELSE {w} : Becomes(s, v)
            /\ pcb' = [pcb EXCEPT ![p] = IF fin THEN AfterFin(c) ELSE c]
  <2>1. PICK w \in ws : \E v \in IF fin THEN FinCb(w, c) ELSE {w} : Becomes(s, v) BY <1>11
  <2>2. /\ w \in WorldType /\ SameSocket(y, w.sl)
        /\ c.state = "finished" \/ w.sl.rx <= MaxRx
        /\ \A j \in Buckets : j # "recv" => w.sl.pending[j] = y.pending[j]
        /\ w.sl.pending["recv"] # NoBase => w.sl.rx = y.rx /\ y.pending["recv"] # NoBase
        /\ Answers(World(s), w)
    BY <1>10, <1>11
  <2> HIDE DEF ws
  <2>3. CASE fin
    <3>1. PICK v \in FinCb(w, c) : Becomes(s, v) BY <2>1, <2>3
    <3>2. pcb' = [pcb EXCEPT ![slot[s].tcp_pcb] = AfterFin(c)] BY <1>1, <1>11, <2>3
    <3>3. c.state \in {"close_wait", "last_ack", "finished"} BY <1>5, <1>6, <2>3
    <3>4. slot[s].in_use /\ slot[s].tcp_pcb # NoPcb /\ slot[s].tcp_state = "ESTABLISHED"
      BY <1>1, <1>2, <1>4
    <3> HIDE DEF IInv
    <3> QED BY <1>6, <2>2, <3>1, <3>2, <3>3, <3>4, FinStep
  <2>4. CASE ~fin
    <3>1. Becomes(s, w) /\ pcb' = [pcb EXCEPT ![slot[s].tcp_pcb] = c] BY <1>1, <1>11, <2>1, <2>4
    <3>2. /\ w.sl \in SlotType /\ slot' = [slot EXCEPT ![s] = w.sl] /\ owed' \in OwedType
          /\ GoodBuckets(slot', owed')
      BY <1>3, <2>2, <3>1, BecomesKeeps
    <3>3. /\ w.sl.in_use /\ w.sl.type = slot[s].type /\ w.sl.tcp_pcb = slot[s].tcp_pcb
          /\ w.sl.accept = slot[s].accept /\ w.sl.accept = <<>>
          /\ w.sl.tcp_state = "ESTABLISHED" /\ w.sl.shut_rd = y.shut_rd /\ w.sl.shut_wr = y.shut_wr
      BY <1>1, <1>4, <1>8, <2>2 DEF SameSocket
    <3>4. Sleepers(w.sl) BY <1>2, <1>1, <1>3, <1>4, <2>2, <3>3 DEF Sleepers, Buckets
    <3>5. c.state = pcb[p].state BY <1>5, <1>6, <2>4
    <3>6. Follows(w.sl.tcp_state, c.state, c.refused) BY <1>1, <3>3, <3>5 DEF Follows
    <3>7. w.sl.rx <= MaxRx BY <1>1, <2>2, <3>5
    <3>8. /\ c.cb = (IF c.state = "listen" THEN "listen" ELSE "conn")
          /\ c.refused => c.state \in {"close_wait", "last_ack"}
          /\ slot[s].in_use /\ slot[s].tcp_pcb # NoPcb
      BY <1>1, <1>2, <1>6, <3>5
    <3> HIDE DEF IInv
    <3> QED BY <1>6, <3>1, <3>2, <3>3, <3>4, <3>6, <3>7, <3>8, KeepPcbStep
  <2> QED BY <2>3, <2>4
<1>12. CASE /\ data /\ fin /\ ~TakesData(slot[s], c)
            /\ pcb' = [pcb EXCEPT ![p] = [c EXCEPT !.refused = TRUE]]
            /\ UNCHANGED <<slot, owed>>
  <2> DEFINE d == [c EXCEPT !.refused = TRUE]
  <2>1. c.state = "close_wait" BY <1>5, <1>6, <1>12 DEF TakesData
  <2>2. d \in PcbType /\ d.arg = s /\ d.cb = "conn" /\ d.refused /\ d.state = "close_wait"
    BY <1>6, <2>1 DEF PcbType
  <2> HIDE DEF d
  <2>3. pcb' = [pcb EXCEPT ![slot[s].tcp_pcb] = d] BY <1>1, <1>12 DEF d
  <2>4. slot \in [Slots -> SlotType] /\ owed \in OwedType BY DEF IInv, TypeOK, OwedType
  <2>5. slot' = [slot EXCEPT ![s] = slot[s]] /\ owed' \in OwedType BY <1>12, <2>4
  <2>6. GoodBuckets(slot', owed') BY <1>12, BucketsStay
  <2>7. Follows(y.tcp_state, d.state, d.refused) BY <1>4, <2>2 DEF Follows
  <2>8. /\ d.cb = (IF d.state = "listen" THEN "listen" ELSE "conn")
        /\ slot[s].in_use /\ slot[s].tcp_pcb # NoPcb
        /\ slot[s].type = slot[s].type /\ slot[s].tcp_pcb = slot[s].tcp_pcb
        /\ slot[s].accept = slot[s].accept
    BY <1>1, <1>2, <2>2
  <2> HIDE DEF IInv
  <2> QED BY <1>3, <1>7, <1>8, <2>2, <2>3, <2>5, <2>6, <2>7, <2>8, KeepPcbStep
<1> QED BY <1>9, <1>11, <1>12

\* lwIP offers refused data, and the FIN behind it, again.
LEMMA RedeliverKeeps ==
    ASSUME IInv, NEW s \in Slots, NEW p \in Pcbs, Redeliver(s, p)
    PROVE  IInv'
<1> DEFINE y == slot[s]
           c == pcb[p]
<1>1. /\ c.cb = "conn" /\ c.refused /\ c.arg = s /\ y.in_use /\ y.tcp_pcb = p
      /\ TakesData(y, c) /\ pcb' = [pcb EXCEPT ![p] = AfterFin(c)]
  BY DEF Redeliver, IsSlotsPcb
<1>2. p # NoPcb /\ y.in_use /\ y.tcp_pcb = p BY <1>1, Nulls
<1>3. /\ c \in PcbType /\ Follows(y.tcp_state, c.state, c.refused) /\ GoodPcb(p, c, slot)
      /\ y \in SlotType /\ y.rx \in 0 .. MaxRx
      /\ World(s) \in WorldType /\ World(s).sl = y /\ World(s).ow = owed
  BY <1>2, OwnPcb
<1>4. c.state \in {"close_wait", "last_ack"} BY <1>1, <1>3 DEF GoodPcb
<1>5. y.tcp_state = "ESTABLISHED" BY <1>1, <1>3, <1>4 DEF Follows
<1>6. y.rx <= MaxRx BY <1>3, Caps
<1>7. PICK w \in DataCb(World(s)) : \E v \in FinCb(w, c) : Becomes(s, v) BY DEF Redeliver
<1>8. /\ w \in WorldType /\ SameSocket(y, w.sl)
      /\ IF y.shut_rd THEN w.sl.rx = y.rx ELSE w.sl.rx <= y.rx + 1
      /\ \A j \in Buckets : j # "recv" => w.sl.pending[j] = y.pending[j]
      /\ Answers(World(s), w)
  BY <1>3, <1>6, <1>7, DataWorks
<1>9. w.sl \in SlotType BY <1>8 DEF WorldType
<1>10. w.sl.rx \in Int /\ y.rx \in Int /\ MaxRx \in Int BY <1>3, <1>9, Caps DEF SlotType
<1>11. c.state = "finished" \/ w.sl.rx <= MaxRx BY <1>1, <1>4, <1>6, <1>8, <1>10 DEF TakesData
<1>12. PICK v \in FinCb(w, c) : Becomes(s, v) BY <1>7
<1>13. /\ pcb' = [pcb EXCEPT ![slot[s].tcp_pcb] = AfterFin(c)] /\ slot[s].in_use
       /\ slot[s].tcp_pcb # NoPcb /\ slot[s].tcp_state = "ESTABLISHED"
       /\ c.state \in {"close_wait", "last_ack", "finished"}
  BY <1>1, <1>2, <1>4, <1>5
<1> HIDE DEF IInv, c
<1> QED BY <1>1, <1>3, <1>8, <1>11, <1>12, <1>13, FinStep

\* The connection fails, or ends: everything parked on it is answered.
LEMMA ErrKeeps ==
    ASSUME IInv, NEW s \in Slots, NEW p \in Pcbs, NEW err, tn_tcp_err_cb(s, p, err)
    PROVE  IInv'
<1> DEFINE y == slot[s]
           x1 == [y EXCEPT !.tcp_pcb = NoPcb, !.tcp_state = "PEER_CLOSED", !.last_error = FALSE]
           x2 == [y EXCEPT !.tcp_pcb = NoPcb, !.tcp_state = "ERROR",
                           !.last_error = (y.pending["connect"] = NoBase)]
           w1 == [sl |-> x1, ow |-> owed]
           w2 == [sl |-> x2, ow |-> owed]
           clean == err = "CLSD" /\ y.tcp_state # "CONNECTING"
<1>1. /\ pcb[p].cb = "conn" /\ pcb[p].arg = s /\ pcb[p].state \in Active
      /\ pcb' = [pcb EXCEPT ![p] = FreePcb]
  BY DEF tn_tcp_err_cb, Active
<1>2. y.in_use /\ y.tcp_pcb = p /\ p # NoPcb BY <1>1, PcbOwner
<1>3. /\ Follows(y.tcp_state, pcb[p].state, pcb[p].refused) /\ y \in SlotType /\ y.type = "STREAM"
      /\ Sleepers(y) /\ Queue(s, y, pcb)
  BY <1>2, OwnPcb
<1>4. y.tcp_state \in {"CONNECTING", "ESTABLISHED", "PEER_CLOSED"}
  BY <1>1, <1>3 DEF Follows, Active
<1>5. y.accept = <<>> /\ y.pending["accept"] = NoBase BY <1>3, <1>4 DEF Queue, Sleepers
<1>6. owed \in OwedType BY DEF IInv, TypeOK, OwedType
<1>7. {"recv", "send", "accept", "connect"} \subseteq Buckets BY DEF Buckets
<1>8. PICK v \in tn_service_pending_recv(ReplyTo(IF clean THEN w1 ELSE ReplyTo(w2, "connect"), "send")) :
          Becomes(s, v)
  <2> DEFINE x0 == [y EXCEPT !.tcp_pcb = NoPcb]
             w0 == [sl |-> x0, ow |-> owed]
  <2>0. [World(s) EXCEPT !.sl.tcp_pcb = NoPcb] = w0 /\ w0.sl.pending = y.pending
    BY <1>3 DEF World, SlotType
  <2>1. [w0 EXCEPT !.sl.tcp_state = "PEER_CLOSED", !.sl.last_error = FALSE] = w1
    <3>1. [w0 EXCEPT !.sl.tcp_state = "PEER_CLOSED"]
            = [sl |-> [x0 EXCEPT !.tcp_state = "PEER_CLOSED"], ow |-> owed]
      OBVIOUS
    <3>2. [[sl |-> [x0 EXCEPT !.tcp_state = "PEER_CLOSED"], ow |-> owed]
              EXCEPT !.sl.last_error = FALSE] = w1
      OBVIOUS
    <3> QED BY <3>1, <3>2
  <2>2. [w0 EXCEPT !.sl.tcp_state = "ERROR", !.sl.last_error = (w0.sl.pending["connect"] = NoBase)]
          = w2
    <3>1. [w0 EXCEPT !.sl.tcp_state = "ERROR"]
            = [sl |-> [x0 EXCEPT !.tcp_state = "ERROR"], ow |-> owed]
      OBVIOUS
    <3>2. [[sl |-> [x0 EXCEPT !.tcp_state = "ERROR"], ow |-> owed]
              EXCEPT !.sl.last_error = (y.pending["connect"] = NoBase)] = w2
      OBVIOUS
    <3> QED BY <2>0, <3>1, <3>2
  <2>3. [World(s) EXCEPT !.sl.tcp_pcb = NoPcb].sl.tcp_state = y.tcp_state
    BY <1>3 DEF World, SlotType
  <2> HIDE DEF w0, w1, w2
  <2> QED BY <1>2, <2>0, <2>1, <2>2, <2>3 DEF tn_tcp_err_cb, tn_slot_reply_send
<1>9. /\ x1 \in SlotType /\ x1.in_use /\ x1.type = "STREAM" /\ x1.tcp_pcb = NoPcb
      /\ x1.tcp_state = "PEER_CLOSED" /\ x1.accept = y.accept /\ x1.pending = y.pending
  BY <1>2, <1>3 DEF SlotType, TcpStates
<1>10. /\ x2 \in SlotType /\ x2.in_use /\ x2.type = "STREAM" /\ x2.tcp_pcb = NoPcb
       /\ x2.tcp_state = "ERROR" /\ x2.accept = y.accept /\ x2.pending = y.pending
  BY <1>2, <1>3 DEF SlotType, TcpStates
<1> HIDE DEF x1, x2
<1>11. /\ w1 \in WorldType /\ w1.sl = x1 /\ w1.ow = owed
       /\ w2 \in WorldType /\ w2.sl = x2 /\ w2.ow = owed
  BY <1>6, <1>9, <1>10 DEF WorldType
<1> HIDE DEF w1, w2
<1>12. \E w, u \in WorldType :
          /\ v \in tn_service_pending_recv(ReplyTo(u, "send"))
          /\ w.ow = owed /\ w.sl.pending = y.pending /\ Answers(w, u)
          /\ u.sl.in_use /\ u.sl.type = "STREAM" /\ u.sl.tcp_pcb = NoPcb
          /\ u.sl.tcp_state \in {"PEER_CLOSED", "ERROR"} /\ u.sl.accept = y.accept
          /\ u.sl.pending["connect"] = NoBase /\ u.sl.pending["accept"] = NoBase
  <2>1. CASE clean
    <3>1. y.pending["connect"] = NoBase BY <1>3, <1>4, <2>1 DEF Sleepers
    <3>2. Answers(w1, w1) BY DEF Answers
    <3>3. v \in tn_service_pending_recv(ReplyTo(w1, "send")) BY <1>8, <2>1
    <3> QED BY <1>5, <1>9, <1>11, <3>1, <3>2, <3>3
  <2>2. CASE ~clean
    <3> DEFINE u == ReplyTo(w2, "connect")
    <3>1. /\ u \in WorldType /\ SameSocket(x2, u.sl) /\ u.sl.pending["connect"] = NoBase
          /\ \A j \in Buckets : j # "connect" => u.sl.pending[j] = x2.pending[j]
          /\ Answers(w2, u)
      BY <1>7, <1>11, ReplyWorks
    <3>2. v \in tn_service_pending_recv(ReplyTo(u, "send")) BY <1>8, <2>2
    <3> HIDE DEF u
    <3>3. /\ u.sl.in_use /\ u.sl.type = "STREAM" /\ u.sl.tcp_pcb = NoPcb
          /\ u.sl.tcp_state = "ERROR" /\ u.sl.accept = y.accept /\ u.sl.pending["accept"] = NoBase
      BY <1>5, <1>7, <1>10, <3>1 DEF SameSocket
    <3> QED BY <1>10, <1>11, <3>1, <3>2, <3>3
  <2> QED BY <2>1, <2>2
<1>13. PICK w, u \in WorldType :
          /\ v \in tn_service_pending_recv(ReplyTo(u, "send"))
          /\ w.ow = owed /\ w.sl.pending = y.pending /\ Answers(w, u)
          /\ u.sl.in_use /\ u.sl.type = "STREAM" /\ u.sl.tcp_pcb = NoPcb
          /\ u.sl.tcp_state \in {"PEER_CLOSED", "ERROR"} /\ u.sl.accept = y.accept
          /\ u.sl.pending["connect"] = NoBase /\ u.sl.pending["accept"] = NoBase
  BY <1>12
<1> DEFINE z == ReplyTo(u, "send")
<1>14. /\ z \in WorldType /\ SameSocket(u.sl, z.sl) /\ z.sl.pending["send"] = NoBase
       /\ \A j \in Buckets : j # "send" => z.sl.pending[j] = u.sl.pending[j]
       /\ Answers(u, z)
  BY <1>7, ReplyWorks
<1>15. v \in tn_service_pending_recv(z) BY <1>13
<1> HIDE DEF z
<1>16. RecvAnswers(z.sl) BY <1>13, <1>14 DEF RecvAnswers, SameSocket
<1>17. /\ v \in WorldType /\ SameSocket(z.sl, v.sl) /\ v.sl.pending["recv"] = NoBase
       /\ \A j \in Buckets : j # "recv" => v.sl.pending[j] = z.sl.pending[j]
       /\ Answers(z, v)
  BY <1>14, <1>15, <1>16, ServiceWorks
<1>18. Answers(w, v) BY <1>13, <1>14, <1>17, AnswersAdd
<1>19. /\ v.sl \in SlotType /\ slot' = [slot EXCEPT ![s] = v.sl] /\ owed' \in OwedType
       /\ GoodBuckets(slot', owed')
  BY <1>8, <1>13, <1>17, <1>18, BecomesKeeps
<1>20. \A k \in Buckets : v.sl.pending[k] = NoBase BY <1>13, <1>14, <1>17 DEF Buckets
<1>21. Sleepers(v.sl) BY <1>7, <1>20 DEF Sleepers
<1>22. /\ FreePcb \in PcbType /\ FreePcb.arg = NoSlot /\ FreePcb.cb = "none" /\ ~FreePcb.refused
       /\ FreePcb.state \in {"free", "fin_wait", "last_ack", "finished"}
  BY DEF FreePcb, Pcb, PcbType, PcbStates, Callbacks
<1>23. /\ v.sl.in_use /\ v.sl.type = slot[s].type /\ v.sl.tcp_pcb = NoPcb
       /\ v.sl.tcp_state \in {"CLOSED", "PEER_CLOSED", "ERROR"}
       /\ v.sl.accept = slot[s].accept /\ v.sl.accept = <<>>
       /\ slot[s].in_use /\ slot[s].tcp_pcb # NoPcb
       /\ pcb' = [pcb EXCEPT ![slot[s].tcp_pcb] = FreePcb]
  BY <1>1, <1>2, <1>3, <1>5, <1>13, <1>14, <1>17 DEF SameSocket
<1> HIDE DEF IInv
<1> QED BY <1>19, <1>21, <1>22, <1>23, LosePcbStep

\* After tcp_close the pcb is lwIP's alone, and one it will end.
LEMMA CloseWorks ==
    ASSUME NEW d, NEW c \in tcp_close(d)
    PROVE  /\ c \in PcbType /\ c.arg = NoSlot /\ c.cb = "none" /\ ~c.refused
           /\ c.state \in {"free", "fin_wait", "last_ack", "finished"}
<1>1. \E st \in {"free", "fin_wait", "last_ack"} : c = Pcb(st, "none", NoSlot)
  BY DEF tcp_close, FreePcb
<1> QED BY <1>1 DEF Pcb, PcbType, PcbStates, Callbacks

\* shutdown() sets the flags, and closes what is open.
LEMMA ShutdownKeeps ==
    ASSUME IInv, NEW b \in Bases, NEW s \in Slots, NEW how \in {"RD", "WR", "RDWR"},
           tn_ipc_cmd_shutdown(b, s, how)
    PROVE  IInv'
<1> DEFINE y == slot[s]
           p == y.tcp_pcb
<1>1. y.in_use BY DEF tn_ipc_cmd_shutdown, MayCall
<1>2. /\ y \in SlotType /\ World(s) \in WorldType /\ World(s).sl = y /\ World(s).ow = owed
      /\ Plain(y) /\ Sleepers(y) /\ Circuit(s, y, pcb) /\ Queue(s, y, pcb)
  BY <1>1, LiveSlot
<1>3. slot \in [Slots -> SlotType] /\ owed \in OwedType /\ pcb \in [Pcbs -> PcbType]
  BY DEF IInv, TypeOK, OwedType
<1>4. PICK rd \in BOOLEAN, wr \in BOOLEAN :
         rd = (y.shut_rd \/ how # "WR") /\ wr = (y.shut_wr \/ how # "RD")
  BY <1>2 DEF SlotType
<1> DEFINE x == [y EXCEPT !.shut_rd = rd, !.shut_wr = wr]
           w == [sl |-> x, ow |-> owed]
<1>5. [y EXCEPT !.shut_rd = @ \/ how # "WR", !.shut_wr = @ \/ how # "RD"] = x
  BY <1>2, <1>4 DEF SlotType
<1>6. /\ x \in SlotType /\ x.in_use = y.in_use /\ x.type = y.type /\ x.tcp_state = y.tcp_state
      /\ x.tcp_pcb = p /\ x.accept = y.accept /\ x.rx = y.rx /\ x.pending = y.pending
      /\ x.shut_rd = rd /\ x.shut_wr = wr
  BY <1>2 DEF SlotType
<1>7. /\ x.type = "STREAM" /\ x.tcp_state # "LISTENING"
      /\ \/ /\ x.tcp_pcb = NoPcb \/ x.tcp_state = "CLOSED"
            /\ Becomes(s, w) /\ UNCHANGED pcb
         \/ /\ x.tcp_pcb # NoPcb /\ x.tcp_state # "CLOSED" /\ how = "RDWR"
            /\ Becomes(s, ReplyTo([w EXCEPT !.sl.rx = 0, !.sl.tcp_pcb = NoPcb,
                                            !.sl.tcp_state = "CLOSED"], "send"))
            /\ \E c \in tcp_close(pcb[p]) : pcb' = [pcb EXCEPT ![p] = c]
         \/ /\ x.tcp_pcb # NoPcb /\ x.tcp_state # "CLOSED" /\ how = "RD"
            /\ Becomes(s, [w EXCEPT !.sl.rx = 0]) /\ UNCHANGED pcb
         \/ /\ x.tcp_pcb # NoPcb /\ x.tcp_state # "CLOSED" /\ how = "WR"
            /\ Becomes(s, w)
            /\ pcb' = [pcb EXCEPT ![p].state = CASE @ = "estab"      -> "fin_wait"
                                                 [] @ = "close_wait" -> "last_ack"
                                                 [] OTHER            -> @]
  <2>1. [World(s) EXCEPT !.sl = x] = w BY DEF World
  <2> HIDE DEF x, w
  <2>2. tn_ipc_cmd_shutdown(b, s, how) OBVIOUS
  <2> QED BY <1>5, <1>6, <2>1, <2>2 DEF tn_ipc_cmd_shutdown, tn_slot_reply_send
<1> HIDE DEF x
<1>8. y.rx \in Int /\ y.rx <= y.rx /\ 0 <= y.rx BY <1>2, Caps DEF SlotType
<1>9. CASE /\ x.tcp_pcb = NoPcb \/ x.tcp_state = "CLOSED"
           /\ Becomes(s, w) /\ UNCHANGED pcb
  <2>1. slot' = [slot EXCEPT ![s] = x] /\ UNCHANGED <<pcb, owed>> BY <1>9 DEF Becomes
  <2>2. Settles(slot[s], x) BY <1>4, <1>6, <1>8 DEF Settles
  <2>3. x.pending = slot[s].pending /\ slot[s].in_use BY <1>1, <1>6
  <2> HIDE DEF IInv
  <2> QED BY <1>6, <2>1, <2>2, <2>3, SilentStep
<1>10. CASE Becomes(s, [w EXCEPT !.sl.rx = 0]) /\ UNCHANGED pcb
  <2> DEFINE z == [x EXCEPT !.rx = 0]
  <2>1. slot' = [slot EXCEPT ![s] = z] /\ UNCHANGED <<pcb, owed>> BY <1>10 DEF Becomes
  <2>2. /\ z \in SlotType /\ z.in_use = y.in_use /\ z.type = y.type /\ z.tcp_state = y.tcp_state
        /\ z.tcp_pcb = p /\ z.accept = y.accept /\ z.rx = 0 /\ z.pending = y.pending
        /\ z.shut_rd = rd /\ z.shut_wr = wr
    <3>1. 0 \in 0 .. MaxRx + 1 BY Caps
    <3> QED BY <1>6, <3>1 DEF SlotType
  <2> HIDE DEF z
  <2>3. Settles(slot[s], z) BY <1>4, <1>8, <2>2 DEF Settles
  <2>4. z.pending = slot[s].pending /\ slot[s].in_use BY <1>1, <2>2
  <2> HIDE DEF IInv
  <2> QED BY <2>1, <2>2, <2>3, <2>4, SilentStep
<1>11. CASE /\ x.tcp_pcb # NoPcb /\ x.tcp_state # "CLOSED" /\ how = "WR"
            /\ Becomes(s, w)
            /\ pcb' = [pcb EXCEPT ![p].state = CASE @ = "estab"      -> "fin_wait"
                                                 [] @ = "close_wait" -> "last_ack"
                                                 [] OTHER            -> @]
  <2>1. p # NoPcb /\ p = slot[s].tcp_pcb BY <1>6, <1>11
  <2>2. /\ p \in Pcbs /\ pcb[p] \in PcbType /\ pcb[p].arg = s /\ pcb[p].cb \in {"conn", "listen"}
        /\ Follows(y.tcp_state, pcb[p].state, pcb[p].refused) /\ GoodPcb(p, pcb[p], slot)
        /\ y.rx \in 0 .. MaxRx
    BY <1>1, <2>1, OwnPcb
  <2>3. pcb[p].state \in {"syn_sent", "estab", "fin_wait", "close_wait", "last_ack"}
    BY <1>6, <1>7, <1>11, <2>2 DEF Follows
  <2>4. pcb[p].cb = "conn" BY <2>2, <2>3 DEF GoodPcb
  <2> DEFINE st == CASE pcb[p].state = "estab"      -> "fin_wait"
                     [] pcb[p].state = "close_wait" -> "last_ack"
                     [] OTHER                       -> pcb[p].state
             c == [pcb[p] EXCEPT !.state = st]
  <2>5. pcb' = [pcb EXCEPT ![p] = c] BY <1>3, <1>11, <2>2
  <2>6. st = IF pcb[p].state = "estab" THEN "fin_wait"
             ELSE IF pcb[p].state = "close_wait" THEN "last_ack" ELSE pcb[p].state
    OBVIOUS
  <2> HIDE DEF st
  <2>7. /\ c \in PcbType /\ c.arg = s /\ c.cb = "conn" /\ c.state = st
        /\ c.refused = pcb[p].refused
    BY <2>2, <2>3, <2>4, <2>6 DEF PcbType, PcbStates
  <2> HIDE DEF c
  <2>8. Follows(x.tcp_state, c.state, c.refused) BY <1>6, <2>2, <2>3, <2>6, <2>7 DEF Follows
  <2>9. /\ c.cb = (IF c.state = "listen" THEN "listen" ELSE "conn")
        /\ c.refused => c.state \in {"close_wait", "last_ack"}
    BY <2>2, <2>3, <2>6, <2>7 DEF GoodPcb
  <2>10. slot' = [slot EXCEPT ![s] = x] /\ owed' = owed BY <1>11 DEF Becomes
  <2>11. \A t \in Slots : slot'[t].pending = slot[t].pending BY <1>3, <1>6, <2>10
  <2>12. GoodBuckets(slot', owed') /\ owed' \in OwedType BY <1>3, <2>10, <2>11, BucketsStay
  <2>13. Sleepers(x) BY <1>2, <1>4, <1>6 DEF Sleepers, SlotType
  <2>14. x.rx <= MaxRx BY <1>6, <2>2, Caps
  <2>15. x.accept # <<>> => x.tcp_state = "LISTENING" BY <1>2, <1>6 DEF Queue
  <2>16. /\ slot[s].in_use /\ slot[s].tcp_pcb # NoPcb /\ x.in_use /\ x.type = slot[s].type
         /\ x.tcp_pcb = slot[s].tcp_pcb /\ x.accept = slot[s].accept
         /\ pcb' = [pcb EXCEPT ![slot[s].tcp_pcb] = c]
    BY <1>1, <1>6, <2>1, <2>5
  <2> HIDE DEF IInv, p, y
  <2> QED BY <1>6, <2>7, <2>8, <2>9, <2>10, <2>12, <2>13, <2>14, <2>15, <2>16, KeepPcbStep
<1>12. CASE /\ x.tcp_pcb # NoPcb /\ x.tcp_state # "CLOSED" /\ how = "RDWR"
            /\ Becomes(s, ReplyTo([w EXCEPT !.sl.rx = 0, !.sl.tcp_pcb = NoPcb,
                                            !.sl.tcp_state = "CLOSED"], "send"))
            /\ \E c \in tcp_close(pcb[p]) : pcb' = [pcb EXCEPT ![p] = c]
  <2>1. PICK c \in tcp_close(pcb[p]) : pcb' = [pcb EXCEPT ![p] = c] BY <1>12
  <2>2. /\ c \in PcbType /\ c.arg = NoSlot /\ c.cb = "none" /\ ~c.refused
        /\ c.state \in {"free", "fin_wait", "last_ack", "finished"}
    BY <2>1, CloseWorks
  <2> DEFINE x1 == [x EXCEPT !.rx = 0]
             x2 == [x1 EXCEPT !.tcp_pcb = NoPcb]
             z  == [x2 EXCEPT !.tcp_state = "CLOSED"]
             u  == [sl |-> z, ow |-> owed]
             v  == ReplyTo(u, "send")
  <2>3. [w EXCEPT !.sl.rx = 0, !.sl.tcp_pcb = NoPcb, !.sl.tcp_state = "CLOSED"] = u
    <3>1. [w EXCEPT !.sl.rx = 0] = [sl |-> x1, ow |-> owed] OBVIOUS
    <3>2. [[sl |-> x1, ow |-> owed] EXCEPT !.sl.tcp_pcb = NoPcb] = [sl |-> x2, ow |-> owed] OBVIOUS
    <3>3. [[sl |-> x2, ow |-> owed] EXCEPT !.sl.tcp_state = "CLOSED"] = u OBVIOUS
    <3> QED BY <3>1, <3>2, <3>3
  <2>4. /\ z \in SlotType /\ z.in_use = y.in_use /\ z.type = y.type /\ z.tcp_state = "CLOSED"
        /\ z.tcp_pcb = NoPcb /\ z.accept = y.accept /\ z.rx = 0 /\ z.pending = y.pending
        /\ z.shut_rd /\ z.shut_wr
    <3>1. 0 \in 0 .. MaxRx + 1 BY Caps
    <3>2. rd /\ wr BY <1>4, <1>12
    <3> QED BY <1>6, <3>1, <3>2 DEF SlotType, TcpStates
  <2> HIDE DEF z
  <2>5. u \in WorldType /\ u.sl = z /\ u.ow = owed BY <1>3, <2>4 DEF WorldType
  <2> HIDE DEF u
  <2>6. Becomes(s, v) BY <1>12, <2>3
  <2>7. "send" \in Buckets BY DEF Buckets
  <2>8. /\ v \in WorldType /\ SameSocket(z, v.sl) /\ v.sl.rx = z.rx
        /\ v.sl.pending["send"] = NoBase
        /\ \A j \in Buckets : j # "send" => v.sl.pending[j] = z.pending[j]
        /\ Answers(u, v)
    BY <2>5, <2>7, ReplyWorks
  <2> HIDE DEF v
  <2>9. /\ v.sl \in SlotType /\ slot' = [slot EXCEPT ![s] = v.sl] /\ owed' \in OwedType
        /\ GoodBuckets(slot', owed')
    BY <2>4, <2>5, <2>6, <2>8, BecomesKeeps
  <2>10. y.accept = <<>> /\ y.pending["accept"] = NoBase BY <1>2, <1>6, <1>7 DEF Queue, Sleepers
  <2>11. /\ v.sl.in_use /\ v.sl.tcp_state = "CLOSED" /\ v.sl.tcp_pcb = NoPcb /\ v.sl.rx = 0
         /\ v.sl.shut_rd /\ v.sl.shut_wr /\ v.sl.pending["accept"] = NoBase
         /\ v.sl.type = slot[s].type /\ v.sl.accept = slot[s].accept /\ v.sl.accept = <<>>
    BY <1>1, <2>4, <2>8, <2>10 DEF SameSocket, Buckets
  <2>12. Sleepers(v.sl) BY <2>8, <2>11 DEF Sleepers
  <2>13. /\ v.sl.tcp_state \in {"CLOSED", "PEER_CLOSED", "ERROR"}
         /\ slot[s].in_use /\ slot[s].tcp_pcb # NoPcb
         /\ pcb' = [pcb EXCEPT ![slot[s].tcp_pcb] = c]
    BY <1>1, <1>6, <1>12, <2>1, <2>11
  <2> HIDE DEF IInv, p, y
  <2> QED BY <2>2, <2>9, <2>11, <2>12, <2>13, LosePcbStep
<1> QED BY <1>7, <1>9, <1>10, <1>11, <1>12

-----------------------------------------------------------------------------
(***************************************************************************)
(* Slots and pcbs that come and go.                                        *)
(***************************************************************************)
\* A free slot and a free pcb have their types.
LEMMA FreeWorks ==
    /\ FreeSlot \in SlotType /\ ~FreeSlot.in_use /\ FreeSlot.accept = <<>>
    /\ FreeSlot.pending = [k \in Buckets |-> NoBase]
    /\ FreePcb \in PcbType /\ FreePcb.arg = NoSlot /\ FreePcb.cb = "none" /\ ~FreePcb.refused
    /\ FreePcb.state = "free"
<1>1. 0 \in 0 .. MaxRx + 1 BY Caps
<1>2. <<>> \in Seq(Entries) OBVIOUS
<1>3. [k \in Buckets |-> NoBase] \in [Buckets -> Bases \cup {NoBase}] OBVIOUS
<1>4. FreeSlot \in SlotType BY <1>1, <1>2, <1>3 DEF FreeSlot, SlotType, TcpStates
<1>5. ~FreeSlot.in_use /\ FreeSlot.accept = <<>> /\ FreeSlot.pending = [k \in Buckets |-> NoBase]
  BY DEF FreeSlot
<1>6. /\ FreePcb \in PcbType /\ FreePcb.arg = NoSlot /\ FreePcb.cb = "none" /\ ~FreePcb.refused
      /\ FreePcb.state = "free"
  BY DEF FreePcb, Pcb, PcbType, PcbStates, Callbacks
<1> QED BY <1>4, <1>5, <1>6

\* No pcb names a slot that is not in use.
LEMMA UnusedSlot ==
    ASSUME IInv, NEW s \in Slots, ~slot[s].in_use
    PROVE  slot[s] = FreeSlot /\ \A p \in Pcbs : pcb[p].arg # s
<1>1. slot[s] = FreeSlot BY DEF IInv, GoodSlot, Plain
<1>2. ASSUME NEW p \in Pcbs, pcb[p].arg = s PROVE FALSE
  <2>1. GoodPcb(p, pcb[p], slot) /\ pcb[p] \in PcbType BY DEF IInv, TypeOK
  <2>2. pcb[p].cb \in {"conn", "listen", "queued"}
    BY <1>2, <2>1, Nulls DEF GoodPcb, PcbType, Callbacks
  <2>3. slot[s].accept = <<>> BY <1>1, FreeWorks
  <2>4. DOMAIN slot[s].accept = {} BY <2>3
  <2> QED BY <1>2, <2>1, <2>2, <2>4 DEF GoodPcb
<1> QED BY <1>1, <1>2

\* A pcb lwIP may hand out names no slot.
LEMMA UnusedPcb ==
    ASSUME IInv, NEW p \in Pcbs, pcb[p].state = "free"
    PROVE  pcb[p].arg = NoSlot /\ pcb[p].cb = "none"
<1>1. GoodPcb(p, pcb[p], slot) /\ pcb[p] \in PcbType BY DEF IInv, TypeOK
<1> QED BY <1>1 DEF GoodPcb, PcbType, Callbacks

\* What a new slot holds.
LEMMA NewSlotWorks ==
    ASSUME NEW b \in Bases, NEW type \in Types, NEW p \in Pcbs \cup {NoPcb}
    PROVE  LET x == NewSlot(b, type, p) IN
           /\ x \in SlotType /\ x.in_use /\ x.type = type /\ x.tcp_pcb = p
           /\ x.tcp_state = "CLOSED" /\ x.rx = 0 /\ x.accept = <<>>
           /\ x.pending = [k \in Buckets |-> NoBase]
<1>1. NewSlot(b, type, p) \in SlotType BY FreeWorks DEF NewSlot, SlotType
<1> QED BY <1>1 DEF NewSlot, FreeSlot

\* A new slot is good when its pcb is.
LEMMA NewSlotGood ==
    ASSUME NEW n \in Slots, NEW x \in SlotType, NEW p \in Pcbs,
           x.in_use, x.type = "STREAM", x.type \in Types, x.tcp_pcb = p, x.rx <= MaxRx,
           x.accept = <<>>, x.pending = [k \in Buckets |-> NoBase],
           NEW q \in [Pcbs -> PcbType], q[p].arg = n, q[p].cb = "conn",
           Follows(x.tcp_state, q[p].state, q[p].refused)
    PROVE  GoodSlot(n, x, q)
<1>1. p # NoPcb BY Nulls
<1>2. Plain(x) BY <1>1 DEF Plain
<1>3. Sleepers(x)
  <2>1. \A k \in Buckets : x.pending[k] = NoBase OBVIOUS
  <2> QED BY <2>1 DEF Sleepers, Buckets
<1>4. Circuit(n, x, q) BY <1>1 DEF Circuit
<1>5. Queue(n, x, q) BY DEF Queue
<1> QED BY <1>2, <1>3, <1>4, <1>5 DEF GoodSlot

\* lwIP ends a pcb nobody knows.
LEMMA ExpireKeeps == ASSUME IInv, NEW p \in Pcbs, Expire(p) PROVE IInv'
<1>1. GoodPcb(p, pcb[p], slot) /\ pcb[p] \in PcbType BY DEF IInv, TypeOK
<1>2. pcb[p].cb = "none" /\ pcb[p].arg = NoSlot
  BY <1>1 DEF Expire, GoodPcb, PcbType, Callbacks
<1>3. pcb' = [pcb EXCEPT ![p] = FreePcb] /\ slot' = slot /\ owed' = owed BY DEF Expire
<1>4. /\ slot' \in [Slots -> SlotType] /\ owed' \in OwedType /\ pcb \in [Pcbs -> PcbType]
  BY <1>3 DEF IInv, TypeOK, OwedType
<1>5. pcb' \in [Pcbs -> PcbType] /\ pcb'[p] = FreePcb /\ \A q \in Pcbs \ {p} : pcb'[q] = pcb[q]
  BY <1>3, <1>4, FreeWorks
<1>6. GoodPcb(p, FreePcb, slot') BY FreeWorks DEF GoodPcb
<1>7. GoodBuckets(slot', owed') BY <1>3, BucketsStay
<1>8. {} \in SUBSET Slots /\ (\A s \in {} : GoodSlot(s, slot'[s], pcb')) OBVIOUS
<1>9. \A q \in Pcbs : \/ pcb'[q] = pcb[q] /\ pcb[q].arg \notin {}
                      \/ pcb[q].arg \in {} \cup {NoSlot} /\ GoodPcb(q, pcb'[q], slot')
  BY <1>2, <1>5, <1>6
<1>10. \A s \in Slots \ {} : slot'[s] = slot[s] BY <1>3
<1> HIDE DEF IInv
<1> QED BY <1>4, <1>5, <1>7, <1>8, <1>9, <1>10, StepKeeps

\* socket() takes a free slot, and a free pcb for a stream.
LEMMA SocketKeeps ==
    ASSUME IInv, NEW b \in Bases, NEW type \in Types, tn_ipc_cmd_socket(b, type)
    PROVE  IInv'
<1>1. PICK s \in Slots :
         /\ IsFreeSlot(s)
         /\ \/ /\ type = "STREAM"
               /\ \E p \in Pcbs :
                     /\ pcb[p].state = "free"
                     /\ slot' = [slot EXCEPT ![s] = NewSlot(b, type, p)]
                     /\ pcb'  = [pcb EXCEPT ![p] = Pcb("closed", "conn", s)]
            \/ /\ type # "STREAM"
               /\ slot' = [slot EXCEPT ![s] = NewSlot(b, type, NoPcb)]
               /\ UNCHANGED pcb
  BY DEF tn_ipc_cmd_socket
<1>2. owed' = owed BY DEF tn_ipc_cmd_socket
<1>3. slot[s] = FreeSlot /\ \A q \in Pcbs : pcb[q].arg # s BY <1>1, UnusedSlot DEF IsFreeSlot
<1>4. slot \in [Slots -> SlotType] /\ owed \in OwedType /\ pcb \in [Pcbs -> PcbType]
  BY DEF IInv, TypeOK, OwedType
<1>5. slot[s].pending = [k \in Buckets |-> NoBase] BY <1>3, FreeWorks
<1>6. {s} \in SUBSET Slots OBVIOUS
<1>7. ASSUME type = "STREAM", NEW p \in Pcbs, pcb[p].state = "free",
             slot' = [slot EXCEPT ![s] = NewSlot(b, type, p)],
             pcb'  = [pcb EXCEPT ![p] = Pcb("closed", "conn", s)]
      PROVE  IInv'
  <2> DEFINE c == Pcb("closed", "conn", s)
             x == NewSlot(b, "STREAM", p)
  <2>1. pcb[p].arg = NoSlot BY <1>7, UnusedPcb
  <2>2. c \in PcbType /\ c.arg = s /\ c.cb = "conn" /\ c.state = "closed" /\ ~c.refused
    BY DEF Pcb, PcbType, PcbStates, Callbacks
  <2> HIDE DEF c
  <2>3. pcb' \in [Pcbs -> PcbType] /\ pcb'[p] = c /\ \A q \in Pcbs \ {p} : pcb'[q] = pcb[q]
    BY <1>4, <1>7, <2>2 DEF c
  <2>4. /\ x \in SlotType /\ x.in_use /\ x.type = "STREAM" /\ x.tcp_pcb = p /\ x.type \in Types
        /\ x.tcp_state = "CLOSED" /\ x.rx = 0 /\ x.accept = <<>>
        /\ x.pending = [k \in Buckets |-> NoBase]
    BY <1>7, NewSlotWorks
  <2> HIDE DEF x
  <2>5. Follows(x.tcp_state, pcb'[p].state, pcb'[p].refused) BY <2>2, <2>3, <2>4 DEF Follows
  <2>6. x.rx <= MaxRx /\ pcb'[p].arg = s /\ pcb'[p].cb = "conn" BY <2>2, <2>3, <2>4, Caps
  <2>7. /\ x \in SlotType /\ x.in_use /\ x.tcp_pcb = p /\ GoodSlot(s, x, pcb')
        /\ x.pending = [k \in Buckets |-> NoBase]
    BY <2>3, <2>4, <2>5, <2>6, NewSlotGood
  <2>8. /\ slot' \in [Slots -> SlotType] /\ slot'[s] = x
        /\ \A t \in Slots \ {s} : slot'[t] = slot[t]
    BY <1>4, <1>7, <2>7 DEF x
  <2>9. \A t \in Slots : slot'[t].pending = slot[t].pending BY <1>5, <2>7, <2>8
  <2>10. GoodBuckets(slot', owed') /\ owed' \in OwedType BY <1>2, <1>4, <2>9, BucketsStay
  <2>11. GoodPcb(p, c, slot') BY <2>2, <2>7, <2>8, Nulls DEF GoodPcb
  <2>12. \A q \in Pcbs : \/ pcb'[q] = pcb[q] /\ pcb[q].arg \notin {s}
                         \/ pcb[q].arg \in {s} \cup {NoSlot} /\ GoodPcb(q, pcb'[q], slot')
    BY <1>3, <2>1, <2>3, <2>11
  <2>13. \A t \in {s} : GoodSlot(t, slot'[t], pcb') BY <2>7, <2>8
  <2> HIDE DEF IInv
  <2> QED BY <1>6, <2>3, <2>8, <2>10, <2>12, <2>13, StepKeeps
<1>8. ASSUME type # "STREAM", slot' = [slot EXCEPT ![s] = NewSlot(b, type, NoPcb)], UNCHANGED pcb
      PROVE  IInv'
  <2> DEFINE x == NewSlot(b, type, NoPcb)
  <2>1. /\ x \in SlotType /\ x.in_use /\ x.type = type /\ x.tcp_pcb = NoPcb /\ x.rx = 0
        /\ x.tcp_state = "CLOSED" /\ x.accept = <<>> /\ x.pending = [k \in Buckets |-> NoBase]
    BY NewSlotWorks
  <2> HIDE DEF x
  <2>2. Sleepers(x)
    <3>1. \A k \in Buckets : x.pending[k] = NoBase BY <2>1
    <3> QED BY <3>1 DEF Sleepers, Buckets
  <2>3. x.rx <= MaxRx BY <2>1, Caps
  <2>4. Plain(x) /\ Circuit(s, x, pcb') /\ Queue(s, x, pcb')
    BY <1>8, <2>1, <2>3 DEF Plain, Circuit, Queue
  <2>5. GoodSlot(s, x, pcb') BY <2>2, <2>4 DEF GoodSlot
  <2>6. /\ slot' \in [Slots -> SlotType] /\ slot'[s] = x
        /\ \A t \in Slots \ {s} : slot'[t] = slot[t]
    BY <1>4, <1>8, <2>1 DEF x
  <2>7. \A t \in Slots : slot'[t].pending = slot[t].pending BY <1>5, <2>1, <2>6
  <2>8. GoodBuckets(slot', owed') /\ owed' \in OwedType BY <1>2, <1>4, <2>7, BucketsStay
  <2>9. \A q \in Pcbs : \/ pcb'[q] = pcb[q] /\ pcb[q].arg \notin {s}
                        \/ pcb[q].arg \in {s} \cup {NoSlot} /\ GoodPcb(q, pcb'[q], slot')
    BY <1>3, <1>8
  <2>10. \A t \in {s} : GoodSlot(t, slot'[t], pcb') BY <2>5, <2>6
  <2>11. pcb' \in [Pcbs -> PcbType] BY <1>4, <1>8
  <2> HIDE DEF IInv
  <2> QED BY <1>6, <2>6, <2>8, <2>9, <2>10, <2>11, StepKeeps
<1> QED BY <1>1, <1>7, <1>8

\* A closing base has its own request answered, if the bucket holds it.
LEMMA OwnWorks ==
    ASSUME NEW w \in WorldType, NEW k \in Buckets, NEW b
    PROVE  LET v == IF w.sl.pending[k] = b THEN ReplyTo(w, k) ELSE w IN
           v \in WorldType /\ SameSocket(w.sl, v.sl) /\ v.sl.rx = w.sl.rx /\ Answers(w, v)
<1>1. CASE w.sl.pending[k] = b BY <1>1, ReplyWorks
<1>2. CASE w.sl.pending[k] # b BY <1>2 DEF SameSocket, Answers
<1> QED BY <1>1, <1>2

\* tn_slot_free: the last holder is gone, and with it everything the slot held.
LEMMA FreeKeeps ==
    ASSUME IInv, NEW s \in Slots, slot[s].in_use, NEW w \in WorldType, Answers(World(s), w),
           tn_slot_free(s, w)
    PROVE  IInv'
<1> DEFINE y == slot[s]
           mine == slot[s].tcp_pcb
           a1 == ReplyTo(w, "send")
           a2 == ReplyTo(a1, "recv")
           a3 == ReplyTo(a2, "accept")
           v == ReplyTo(a3, "connect")
<1>1. {"recv", "send", "accept", "connect"} \subseteq Buckets /\ Buckets \subseteq {"recv", "send", "accept", "connect"}
  BY DEF Buckets
<1>2. /\ slot' = [slot EXCEPT ![s] = FreeSlot] /\ owed' = v.ow
      /\ \E c \in IF mine = NoPcb THEN {FreePcb} ELSE tcp_close(pcb[mine]) :
              pcb' = [p \in Pcbs |-> IF p = mine THEN c
                                     ELSE IF p \in QueuedPcbs(s) THEN FreePcb ELSE pcb[p]]
  BY DEF tn_slot_free, tn_slot_reply_send
<1>3. /\ a1 \in WorldType /\ a1.sl.pending["send"] = NoBase
      /\ \A j \in Buckets : j # "send" => a1.sl.pending[j] = w.sl.pending[j]
      /\ Answers(w, a1)
  BY <1>1, ReplyWorks
<1> HIDE DEF a1
<1>4. /\ a2 \in WorldType /\ a2.sl.pending["recv"] = NoBase
      /\ \A j \in Buckets : j # "recv" => a2.sl.pending[j] = a1.sl.pending[j]
      /\ Answers(a1, a2)
  BY <1>1, <1>3, ReplyWorks
<1> HIDE DEF a2
<1>5. /\ a3 \in WorldType /\ a3.sl.pending["accept"] = NoBase
      /\ \A j \in Buckets : j # "accept" => a3.sl.pending[j] = a2.sl.pending[j]
      /\ Answers(a2, a3)
  BY <1>1, <1>4, ReplyWorks
<1> HIDE DEF a3
<1>6. /\ v \in WorldType /\ v.sl.pending["connect"] = NoBase
      /\ \A j \in Buckets : j # "connect" => v.sl.pending[j] = a3.sl.pending[j]
      /\ Answers(a3, v)
  BY <1>1, <1>5, ReplyWorks
<1> HIDE DEF v
<1>7. Answers(World(s), v)
  <2>1. Answers(World(s), a1) BY <1>3, AnswersAdd
  <2>2. Answers(World(s), a2) BY <1>4, <2>1, AnswersAdd
  <2>3. Answers(World(s), a3) BY <1>5, <2>2, AnswersAdd
  <2> QED BY <1>6, <2>3, AnswersAdd
<1>8. v.sl.pending = [k \in Buckets |-> NoBase]
  <2>1. v.sl.pending \in [Buckets -> Bases \cup {NoBase}] BY <1>6 DEF WorldType, SlotType
  <2>2. \A k \in Buckets : v.sl.pending[k] = NoBase BY <1>1, <1>3, <1>4, <1>5, <1>6
  <2> QED BY <2>1, <2>2
<1>9. slot \in [Slots -> SlotType] /\ owed \in OwedType /\ pcb \in [Pcbs -> PcbType]
  BY DEF IInv, TypeOK, OwedType
<1>10. /\ World(s) \in WorldType /\ World(s).sl = y /\ World(s).ow = owed
       /\ Queue(s, y, pcb) /\ y \in SlotType
  BY LiveSlot
<1>11. /\ slot' \in [Slots -> SlotType] /\ slot'[s] = FreeSlot
       /\ \A t \in Slots \ {s} : slot'[t] = slot[t]
  BY <1>2, <1>9, FreeWorks
<1>12. owed' \in OwedType BY <1>2, <1>6 DEF WorldType
<1>13. GoodBuckets(slot', owed')
  <2>1. slot'[s].pending = v.sl.pending BY <1>8, <1>11, FreeWorks
  <2>2. World(s).sl.pending = slot[s].pending BY <1>10
  <2> HIDE DEF y
  <2> QED BY <1>2, <1>6, <1>7, <1>10, <1>11, <2>1, <2>2, AnswersKeep
<1>14. PICK c \in IF mine = NoPcb THEN {FreePcb} ELSE tcp_close(pcb[mine]) :
              pcb' = [p \in Pcbs |-> IF p = mine THEN c
                                     ELSE IF p \in QueuedPcbs(s) THEN FreePcb ELSE pcb[p]]
  BY <1>2
<1>15. /\ c \in PcbType /\ c.arg = NoSlot /\ c.cb = "none" /\ ~c.refused
       /\ c.state \in {"free", "fin_wait", "last_ack", "finished"}
  <2>1. CASE mine = NoPcb BY <1>14, <2>1, FreeWorks
  <2>2. CASE mine # NoPcb BY <1>14, <2>2, CloseWorks
  <2> QED BY <2>1, <2>2
<1>16. \A p \in Pcbs : GoodPcb(p, c, slot') /\ GoodPcb(p, FreePcb, slot')
  BY <1>15, FreeWorks DEF GoodPcb
<1>17. pcb' \in [Pcbs -> PcbType] BY <1>9, <1>14, <1>15, FreeWorks
<1>18. ASSUME NEW p \in Pcbs
       PROVE  \/ pcb'[p] = pcb[p] /\ pcb[p].arg \notin {s}
              \/ pcb[p].arg \in {s} \cup {NoSlot} /\ GoodPcb(p, pcb'[p], slot')
  <2>1. CASE p = mine
    <3>1. mine # NoPcb BY <2>1, Nulls
    <3>2. pcb[p].arg = s BY <2>1, <3>1, OwnPcb
    <3>3. pcb'[p] = c BY <1>14, <2>1
    <3> QED BY <1>16, <3>2, <3>3
  <2>2. CASE p # mine /\ p \in QueuedPcbs(s)
    <3>1. pcb'[p] = FreePcb BY <1>14, <2>2
    <3>2. pcb[p].arg = s BY <1>10, <2>2 DEF QueuedPcbs, Queue, GoodEntry
    <3> QED BY <1>16, <3>1, <3>2
  <2>3. CASE p # mine /\ p \notin QueuedPcbs(s)
    <3>1. pcb'[p] = pcb[p] BY <1>14, <2>3
    <3>2. pcb[p].arg # s
      <4>1. GoodPcb(p, pcb[p], slot) /\ pcb[p] \in PcbType BY <1>9 DEF IInv
      <4>2. pcb[p].cb \in {"conn", "listen"} => pcb[p].arg # s BY <2>3, <4>1 DEF GoodPcb
      <4>3. pcb[p].cb = "queued" => pcb[p].arg # s BY <2>3, <4>1 DEF GoodPcb, QueuedPcbs
      <4>4. pcb[p].cb = "none" => pcb[p].arg # s BY <4>1, Nulls DEF GoodPcb
      <4> QED BY <4>1, <4>2, <4>3, <4>4 DEF PcbType, Callbacks
    <3> QED BY <3>1, <3>2
  <2> QED BY <2>1, <2>2, <2>3
<1>19. \A t \in {s} : GoodSlot(t, slot'[t], pcb') BY <1>11 DEF GoodSlot
<1>20. {s} \in SUBSET Slots OBVIOUS
<1> HIDE DEF IInv
<1> QED BY <1>11, <1>12, <1>13, <1>17, <1>18, <1>19, <1>20, StepKeeps

\* closesocket() answers the caller's own requests and drops its hold.
LEMMA CloseKeeps ==
    ASSUME IInv, NEW b \in Bases, NEW s \in Slots, tn_ipc_cmd_closesocket(b, s)
    PROVE  IInv'
<1> DEFINE y == slot[s]
           a == IF World(s).sl.pending["recv"] = b THEN ReplyTo(World(s), "recv") ELSE World(s)
           w == IF a.sl.pending["send"] = b THEN ReplyTo(a, "send") ELSE a
<1>1. y.in_use /\ DropHolder(b, s, w) BY DEF tn_ipc_cmd_closesocket, MayCall
<1>2. "recv" \in Buckets /\ "send" \in Buckets BY DEF Buckets
<1>3. World(s) \in WorldType /\ World(s).sl = y /\ World(s).ow = owed /\ y \in SlotType
  BY <1>1, LiveSlot
<1>4. a \in WorldType /\ SameSocket(y, a.sl) /\ a.sl.rx = y.rx /\ Answers(World(s), a)
  BY <1>2, <1>3, OwnWorks
<1> HIDE DEF a
<1>5. w \in WorldType /\ SameSocket(a.sl, w.sl) /\ w.sl.rx = a.sl.rx /\ Answers(a, w)
  BY <1>2, <1>4, OwnWorks
<1> HIDE DEF w
<1>6. Answers(World(s), w) BY <1>4, <1>5, AnswersAdd
<1>7. PICK h \in SUBSET Bases : h = w.sl.holders \ {b} BY <1>5 DEF WorldType, SlotType
<1> DEFINE x == [w.sl EXCEPT !.holders = h]
           v == [sl |-> x, ow |-> w.ow]
<1>8. w.sl \in SlotType /\ w.ow \in OwedType BY <1>5 DEF WorldType
<1>9. [w EXCEPT !.sl.holders = @ \ {b}] = v BY <1>5, <1>7 DEF WorldType
<1>10. /\ x \in SlotType /\ x.in_use = w.sl.in_use /\ x.type = w.sl.type
       /\ x.tcp_state = w.sl.tcp_state /\ x.tcp_pcb = w.sl.tcp_pcb /\ x.accept = w.sl.accept
       /\ x.shut_rd = w.sl.shut_rd /\ x.shut_wr = w.sl.shut_wr /\ x.rx = w.sl.rx
       /\ x.pending = w.sl.pending
  BY <1>8 DEF SlotType
<1> HIDE DEF x
<1>11. v \in WorldType /\ v.sl = x /\ v.ow = w.ow BY <1>8, <1>10 DEF WorldType
<1>12. tn_slot_free(s, v) \/ (Becomes(s, v) /\ UNCHANGED pcb) BY <1>1, <1>9 DEF DropHolder
<1> HIDE DEF v
<1>13. Answers(World(s), v) BY <1>6, <1>10, <1>11 DEF Answers
<1>14. CASE tn_slot_free(s, v) BY <1>1, <1>11, <1>13, <1>14, FreeKeeps
<1>15. CASE Becomes(s, v) /\ UNCHANGED pcb
  <2>1. y.rx <= y.rx BY <1>3, Caps DEF SlotType
  <2>2. \A k \in Buckets : v.sl.pending[k] = y.pending[k] \/ v.sl.pending[k] = NoBase
    BY <1>3, <1>13 DEF Answers
  <2>3. Settles(slot[s], v.sl) BY <1>4, <1>5, <1>10, <1>11, <2>1, <2>2 DEF Settles, SameSocket
  <2> HIDE DEF IInv
  <2> QED BY <1>1, <1>11, <1>13, <1>15, <2>3, AnswerStep
<1> QED BY <1>12, <1>14, <1>15

-----------------------------------------------------------------------------
(***************************************************************************)
(* The accept queue.                                                       *)
(***************************************************************************)
\* Of the pcbs q only p changes.
OnlyPcb(p, q, r) == \A c \in Pcbs \ {p} : r[c] = q[c]

\* Queue a of listener s is good in the pcbs q, and has the pcbs of queue old but p.
GoodQueue(s, old, a, p, q) ==
    /\ a \in Seq(Entries)
    /\ \A i \in DOMAIN a : GoodEntry(s, a[i], q)
    /\ \A i, j \in DOMAIN a : a[i].new_pcb = a[j].new_pcb => i = j
    /\ \A i \in DOMAIN old : old[i].new_pcb # p => \E j \in DOMAIN a : a[j].new_pcb = old[i].new_pcb

\* The pcbs that name s, but p, stay good.
PcbsKept(s, p) == \A c \in Pcbs \ {p} : pcb[c].arg = s => GoodPcb(c, pcb'[c], slot')

\* The queue of listener s becomes a, and of its pcbs only p changes.
LEMMA QueueKeeps ==
    ASSUME IInv, NEW s \in Slots, slot[s].in_use, slot[s].tcp_state = "LISTENING",
           slot[s].pending["accept"] = NoBase, NEW a,
           slot'[s] = [slot[s] EXCEPT !.accept = a], NEW p \in Pcbs, pcb[p].cb \in {"queued", "none"},
           OnlyPcb(p, pcb, pcb'), GoodQueue(s, slot[s].accept, a, p, pcb')
    PROVE  /\ slot'[s] \in SlotType /\ slot'[s].in_use /\ slot'[s].pending = slot[s].pending
           /\ slot'[s].accept = a /\ GoodSlot(s, slot'[s], pcb') /\ PcbsKept(s, p)
<1> DEFINE y == slot[s]
           x == slot'[s]
<1>0. /\ a \in Seq(Entries)
      /\ \A i \in DOMAIN a : GoodEntry(s, a[i], pcb')
      /\ \A i, j \in DOMAIN a : a[i].new_pcb = a[j].new_pcb => i = j
      /\ \A i \in DOMAIN slot[s].accept : slot[s].accept[i].new_pcb # p =>
              \E j \in DOMAIN a : a[j].new_pcb = slot[s].accept[i].new_pcb
      /\ \A q \in Pcbs \ {p} : pcb'[q] = pcb[q]
  BY DEF GoodQueue, OnlyPcb
<1>1. /\ y \in SlotType /\ Plain(y) /\ Sleepers(y) /\ Circuit(s, y, pcb)
  BY LiveSlot
<1>2. /\ x \in SlotType /\ x.in_use /\ x.type = y.type /\ x.tcp_state = "LISTENING"
      /\ x.tcp_pcb = y.tcp_pcb /\ x.rx = y.rx /\ x.accept = a /\ x.pending = y.pending
  BY <1>0, <1>1 DEF SlotType
<1>3. Plain(x) BY <1>1, <1>2 DEF Plain
<1>4. Sleepers(x) BY <1>1, <1>2 DEF Sleepers
<1>5. Circuit(s, x, pcb')
  <2>1. y.tcp_pcb # NoPcb /\ y.tcp_pcb \in Pcbs BY <1>1 DEF Circuit, SlotType
  <2>2. y.tcp_pcb # p BY <1>1, <2>1 DEF Circuit
  <2>3. pcb'[y.tcp_pcb] = pcb[y.tcp_pcb] BY <1>0, <2>1, <2>2
  <2> QED BY <1>1, <1>2, <2>3 DEF Circuit
<1>6. Queue(s, x, pcb') BY <1>0, <1>2 DEF Queue
<1>7. GoodSlot(s, x, pcb') BY <1>3, <1>4, <1>5, <1>6 DEF GoodSlot
<1>8. ASSUME NEW q \in Pcbs \ {p}, pcb[q].arg = s PROVE GoodPcb(q, pcb'[q], slot')
  <2>1. GoodPcb(q, pcb[q], slot) /\ pcb[q] \in PcbType BY DEF IInv, TypeOK
  <2>2. pcb[q].cb = "queued" => \E j \in DOMAIN a : a[j].new_pcb = q
    BY <1>0, <1>8, <2>1 DEF GoodPcb
  <2>3. slot'[s].in_use /\ slot'[s].tcp_pcb = slot[s].tcp_pcb /\ slot'[s].accept = a BY <1>2
  <2>4. GoodPcb(q, pcb[q], slot') BY <1>8, <2>1, <2>2, <2>3 DEF GoodPcb
  <2> QED BY <1>0, <2>4
<1> QED BY <1>2, <1>7, <1>8 DEF PcbsKept

\* A step on a listener's queue and one pcb in it, or new in it.
LEMMA QueueStep ==
    ASSUME IInv, NEW s \in Slots, slot[s].in_use, slot[s].tcp_state = "LISTENING",
           slot[s].pending["accept"] = NoBase, NEW a,
           slot' = [slot EXCEPT ![s] = [slot[s] EXCEPT !.accept = a]], UNCHANGED owed,
           NEW p \in Pcbs, pcb[p].cb \in {"queued", "none"}, pcb[p].arg \in {s} \cup {NoSlot},
           NEW c \in PcbType, pcb' = [pcb EXCEPT ![p] = c], GoodPcb(p, c, slot'),
           GoodQueue(s, slot[s].accept, a, p, pcb')
    PROVE  IInv'
<1> DEFINE x == [slot[s] EXCEPT !.accept = a]
<1>1. slot \in [Slots -> SlotType] /\ owed \in OwedType /\ pcb \in [Pcbs -> PcbType]
  BY DEF IInv, TypeOK, OwedType
<1>2. slot'[s] = x /\ \A t \in Slots \ {s} : slot'[t] = slot[t] BY <1>1
<1>3. pcb' \in [Pcbs -> PcbType] /\ pcb'[p] = c /\ \A q \in Pcbs \ {p} : pcb'[q] = pcb[q]
  BY <1>1
<1> HIDE DEF IInv
<1>4. /\ slot'[s] \in SlotType /\ slot'[s].pending = slot[s].pending
      /\ GoodSlot(s, slot'[s], pcb') /\ PcbsKept(s, p)
  <2>1. OnlyPcb(p, pcb, pcb') BY <1>3 DEF OnlyPcb
  <2>2. slot'[s] = [slot[s] EXCEPT !.accept = a] BY <1>2
  <2> QED BY <2>1, <2>2, QueueKeeps
<1> HIDE DEF x
<1>5. slot' \in [Slots -> SlotType] BY <1>1, <1>2, <1>4 DEF x
<1>6. \A t \in Slots : slot'[t].pending = slot[t].pending BY <1>2, <1>4
<1>7. GoodBuckets(slot', owed') /\ owed' \in OwedType BY <1>1, <1>6, BucketsStay
<1>8. \A t \in {s} : GoodSlot(t, slot'[t], pcb') BY <1>2, <1>4
<1>9. \A q \in Pcbs : \/ pcb'[q] = pcb[q] /\ pcb[q].arg \notin {s}
                      \/ pcb[q].arg \in {s} \cup {NoSlot} /\ GoodPcb(q, pcb'[q], slot')
  BY <1>3, <1>4 DEF PcbsKept
<1>10. {s} \in SUBSET Slots OBVIOUS
<1> QED BY <1>2, <1>3, <1>5, <1>7, <1>8, <1>9, <1>10, StepKeeps

\* A queue without its entry i holds the others, in their order.
LEMMA RemoveWorks ==
    ASSUME NEW q \in Seq(Entries), NEW i \in DOMAIN q
    PROVE  LET r == tn_accept_queue_remove(q, i) IN
           /\ r \in Seq(Entries)
           /\ \A j \in DOMAIN r : \E k \in DOMAIN q \ {i} : r[j] = q[k]
           /\ \A j \in DOMAIN q \ {i} : \E k \in DOMAIN r : r[k] = q[j]
           /\ (\A j, k \in DOMAIN q : q[j].new_pcb = q[k].new_pcb => j = k) =>
              (\A j, k \in DOMAIN r : r[j].new_pcb = r[k].new_pcb => j = k)
<1> DEFINE r == tn_accept_queue_remove(q, i)
<1>1. Len(q) \in Nat /\ DOMAIN q = 1 .. Len(q) /\ i \in 1 .. Len(q) OBVIOUS
<1>2. DOMAIN r = 1 .. (Len(q) - 1) /\ Len(q) - 1 \in Nat BY <1>1 DEF tn_accept_queue_remove
<1>3. \A j \in DOMAIN r : r[j] = q[IF j < i THEN j ELSE j + 1] BY DEF tn_accept_queue_remove
<1>4. \A j \in DOMAIN r : (IF j < i THEN j ELSE j + 1) \in DOMAIN q \ {i} BY <1>1, <1>2
<1>5. \A j \in DOMAIN q : q[j] \in Entries OBVIOUS
<1>6. \A j \in DOMAIN r : r[j] \in Entries BY <1>3, <1>4, <1>5
<1>7. r = [j \in 1 .. (Len(q) - 1) |-> r[j]] BY DEF tn_accept_queue_remove
<1> HIDE DEF r
<1>8. r \in [1 .. (Len(q) - 1) -> Entries] BY <1>2, <1>6, <1>7
<1>9. r \in Seq(Entries) BY <1>2, <1>8
<1>10. \A j \in DOMAIN q \ {i} : (IF j < i THEN j ELSE j - 1) \in DOMAIN r BY <1>1, <1>2
<1>11. ASSUME NEW j \in DOMAIN q \ {i} PROVE \E k \in DOMAIN r : r[k] = q[j]
  <2> DEFINE k == IF j < i THEN j ELSE j - 1
  <2>1. k \in DOMAIN r BY <1>10
  <2>2. (IF k < i THEN k ELSE k + 1) = j BY <1>1
  <2>3. r[k] = q[j] BY <1>3, <2>1, <2>2
  <2> QED BY <2>1, <2>3
<1>12. ASSUME \A j, k \in DOMAIN q : q[j].new_pcb = q[k].new_pcb => j = k,
              NEW j \in DOMAIN r, NEW k \in DOMAIN r, r[j].new_pcb = r[k].new_pcb
       PROVE  j = k
  <2>1. (IF j < i THEN j ELSE j + 1) = (IF k < i THEN k ELSE k + 1) BY <1>3, <1>4, <1>12
  <2>2. j \in Int /\ k \in Int /\ i \in Int BY <1>1, <1>2
  <2> QED BY <2>1, <2>2
<1>13. \A j \in DOMAIN r : \E k \in DOMAIN q \ {i} : r[j] = q[k] BY <1>3, <1>4
<1>14. \A j \in DOMAIN q \ {i} : \E k \in DOMAIN r : r[k] = q[j] BY <1>11
<1>15. (\A j, k \in DOMAIN q : q[j].new_pcb = q[k].new_pcb => j = k) =>
         (\A j, k \in DOMAIN r : r[j].new_pcb = r[k].new_pcb => j = k)
  BY <1>12
<1> QED BY <1>9, <1>13, <1>14, <1>15 DEF r

\* An entry of a listener's queue: its pcb is its own.
LEMMA EntryPcb ==
    ASSUME IInv, NEW s \in Slots, NEW i \in DOMAIN slot[s].accept
    PROVE  LET y == slot[s]
               e == slot[s].accept[i]
               p == slot[s].accept[i].new_pcb
           IN  /\ y.in_use /\ y.tcp_state = "LISTENING" /\ y.pending["accept"] = NoBase
               /\ y \in SlotType /\ y.accept \in Seq(Entries) /\ e \in Entries /\ p \in Pcbs
               /\ pcb[p] \in PcbType /\ pcb[p].cb = "queued" /\ pcb[p].arg = s
               /\ GoodEntry(s, e, pcb) /\ GoodPcb(p, pcb[p], slot)
               /\ Queue(s, y, pcb)
<1>1. slot[s] # FreeSlot BY FreeWorks
<1>2. slot[s].in_use BY <1>1 DEF IInv, GoodSlot, Plain
<1>3. slot[s] \in SlotType /\ Sleepers(slot[s]) /\ Queue(s, slot[s], pcb) BY <1>2, LiveSlot
<1>4. slot[s].accept \in Seq(Entries) BY <1>3 DEF SlotType
<1>5. slot[s].accept # <<>> BY <1>4
<1>6. slot[s].accept[i] \in Entries BY <1>4
<1>7. slot[s].accept[i].new_pcb \in Pcbs BY <1>6 DEF Entries
<1>8. slot[s].tcp_state = "LISTENING" /\ slot[s].pending["accept"] = NoBase
  BY <1>3, <1>5 DEF Queue, Sleepers
<1>9. GoodEntry(s, slot[s].accept[i], pcb) BY <1>3 DEF Queue
<1>10. pcb[slot[s].accept[i].new_pcb] \in PcbType
       /\ GoodPcb(slot[s].accept[i].new_pcb, pcb[slot[s].accept[i].new_pcb], slot)
  BY <1>7 DEF IInv, TypeOK
<1> QED BY <1>2, <1>3, <1>4, <1>6, <1>7, <1>8, <1>9, <1>10 DEF GoodEntry

\* Entry i leaves the queue: what is left is good.
LEMMA RemoveKeeps ==
    ASSUME IInv, NEW s \in Slots, NEW i \in DOMAIN slot[s].accept, NEW p \in Pcbs,
           p = slot[s].accept[i].new_pcb, OnlyPcb(p, pcb, pcb')
    PROVE  GoodQueue(s, slot[s].accept, tn_accept_queue_remove(slot[s].accept, i), p, pcb')
<1> DEFINE y == slot[s]
           a == tn_accept_queue_remove(slot[s].accept, i)
<1>1. y.accept \in Seq(Entries) /\ Queue(s, y, pcb) BY EntryPcb
<1>2. \A j, k \in DOMAIN y.accept : y.accept[j].new_pcb = y.accept[k].new_pcb => j = k
  BY <1>1 DEF Queue
<1>3. /\ a \in Seq(Entries)
      /\ \A j \in DOMAIN a : \E k \in DOMAIN y.accept \ {i} : a[j] = y.accept[k]
      /\ \A j \in DOMAIN y.accept \ {i} : \E k \in DOMAIN a : a[k] = y.accept[j]
      /\ (\A j, k \in DOMAIN y.accept : y.accept[j].new_pcb = y.accept[k].new_pcb => j = k) =>
              (\A j, k \in DOMAIN a : a[j].new_pcb = a[k].new_pcb => j = k)
  BY <1>1, RemoveWorks
<1> HIDE DEF a
<1>4. ASSUME NEW j \in DOMAIN a PROVE GoodEntry(s, a[j], pcb')
  <2>1. PICK k \in DOMAIN y.accept \ {i} : a[j] = y.accept[k] BY <1>3
  <2>2. y.accept[k].new_pcb # p BY <1>2, <2>1
  <2>3. y.accept[k] \in Entries BY <1>1
  <2>4. y.accept[k].new_pcb \in Pcbs BY <2>3 DEF Entries
  <2>5. pcb'[y.accept[k].new_pcb] = pcb[y.accept[k].new_pcb] BY <2>2, <2>4 DEF OnlyPcb
  <2>6. GoodEntry(s, y.accept[k], pcb) BY <1>1 DEF Queue
  <2> QED BY <2>1, <2>5, <2>6 DEF GoodEntry
<1>5. \A j \in DOMAIN y.accept : y.accept[j].new_pcb # p =>
         \E k \in DOMAIN a : a[k].new_pcb = y.accept[j].new_pcb
  BY <1>3
<1>6. \A j, k \in DOMAIN a : a[j].new_pcb = a[k].new_pcb => j = k BY <1>2, <1>3
<1>7. GoodQueue(s, y.accept, a, p, pcb') BY <1>3, <1>4, <1>5, <1>6 DEF GoodQueue
<1> QED BY <1>7 DEF a

\* A queued connection fails, or is refused to the program.
LEMMA DropEntryStep ==
    ASSUME IInv, NEW s \in Slots, NEW i \in DOMAIN slot[s].accept,
           slot' = [slot EXCEPT ![s].accept = tn_accept_queue_remove(slot[s].accept, i)],
           pcb' = [pcb EXCEPT ![slot[s].accept[i].new_pcb] = FreePcb], UNCHANGED owed
    PROVE  IInv'
<1> DEFINE y == slot[s]
           a == tn_accept_queue_remove(slot[s].accept, i)
<1>1. PICK p \in Pcbs : p = slot[s].accept[i].new_pcb BY EntryPcb
<1>2. /\ y.in_use /\ y.tcp_state = "LISTENING" /\ y.pending["accept"] = NoBase
      /\ pcb[p].cb = "queued" /\ pcb[p].arg = s
  BY <1>1, EntryPcb
<1>3. slot \in [Slots -> SlotType] /\ pcb \in [Pcbs -> PcbType] BY DEF IInv, TypeOK
<1>4. pcb' = [pcb EXCEPT ![p] = FreePcb] /\ \A q \in Pcbs \ {p} : pcb'[q] = pcb[q] BY <1>1, <1>3
<1>5. GoodQueue(s, slot[s].accept, a, p, pcb')
  <2>1. OnlyPcb(p, pcb, pcb') BY <1>4 DEF OnlyPcb
  <2> QED BY <1>1, <2>1, RemoveKeeps
<1> HIDE DEF a
<1>6. slot' = [slot EXCEPT ![s] = [slot[s] EXCEPT !.accept = a]] BY DEF a
<1>7. GoodPcb(p, FreePcb, slot') /\ FreePcb \in PcbType BY FreeWorks DEF GoodPcb
<1>8. pcb[p].cb \in {"queued", "none"} /\ pcb[p].arg \in {s} \cup {NoSlot} BY <1>2
<1> HIDE DEF IInv
<1> QED BY <1>2, <1>4, <1>5, <1>6, <1>7, <1>8, QueueStep

\* lwIP gives up a connection that nobody accepted yet.
LEMMA QueuedErrKeeps ==
    ASSUME IInv, NEW s \in Slots, NEW p \in Pcbs, tn_tcp_queued_err_cb(s, p)
    PROVE  IInv'
<1>1. PICK i \in DOMAIN slot[s].accept :
         /\ slot[s].accept[i].new_pcb = p
         /\ slot' = [slot EXCEPT ![s].accept = tn_accept_queue_remove(@, i)]
  BY DEF tn_tcp_queued_err_cb
<1>2. slot \in [Slots -> SlotType] BY DEF IInv, TypeOK
<1>3. slot' = [slot EXCEPT ![s].accept = tn_accept_queue_remove(slot[s].accept, i)]
  BY <1>1, <1>2
<1>4. pcb' = [pcb EXCEPT ![slot[s].accept[i].new_pcb] = FreePcb] /\ UNCHANGED owed
  BY <1>1 DEF tn_tcp_queued_err_cb
<1> QED BY <1>3, <1>4, DropEntryStep

\* The slot of an accepted connection.
LEMMA AcceptedWorks ==
    ASSUME NEW b \in Bases, NEW e \in Entries, "STREAM" \in Types
    PROVE  LET x == Accepted(b, e) IN
           /\ x \in SlotType /\ x.in_use /\ x.type = "STREAM" /\ x.tcp_pcb = e.new_pcb
           /\ x.rx <= MaxRx /\ x.accept = <<>> /\ x.pending = [k \in Buckets |-> NoBase]
           /\ x.tcp_state = IF e.peer_closed THEN "PEER_CLOSED" ELSE "ESTABLISHED"
<1>1. e.new_pcb \in Pcbs /\ e.early_rx \in 0 .. MaxRx BY DEF Entries
<1>2. e.early_rx \in 0 .. MaxRx + 1 /\ e.early_rx <= MaxRx BY <1>1, Caps
<1> DEFINE z == NewSlot(b, "STREAM", e.new_pcb)
<1>3. /\ z \in SlotType /\ z.in_use /\ z.type = "STREAM" /\ z.tcp_pcb = e.new_pcb
      /\ z.accept = <<>> /\ z.pending = [k \in Buckets |-> NoBase]
  BY <1>1, NewSlotWorks
<1> HIDE DEF z
<1>4. PICK st \in {"PEER_CLOSED", "ESTABLISHED"} :
         st = IF e.peer_closed THEN "PEER_CLOSED" ELSE "ESTABLISHED"
  OBVIOUS
<1>5. Accepted(b, e) = [z EXCEPT !.tcp_state = st, !.rx = e.early_rx] BY <1>4 DEF Accepted, z
<1> QED BY <1>2, <1>3, <1>4, <1>5 DEF SlotType, TcpStates

\* Listener s hands connection p over to the fresh slot n.
LEMMA HandOverStep ==
    ASSUME IInv, NEW s \in Slots, slot[s].in_use, NEW n \in Slots, ~slot[n].in_use,
           NEW x \in SlotType, NEW z \in SlotType, slot' = [slot EXCEPT ![s] = x, ![n] = z],
           NEW p \in Pcbs, pcb[p].arg \in {s} \cup {NoSlot},
           NEW c \in PcbType, pcb' = [pcb EXCEPT ![p] = c], c.arg = n, c.cb = "conn",
           c.refused => c.state \in {"close_wait", "last_ack"},
           z.in_use, z.type = "STREAM", z.type \in Types, z.tcp_pcb = p, z.rx <= MaxRx,
           z.accept = <<>>, z.pending = [k \in Buckets |-> NoBase],
           z.tcp_state \in {"ESTABLISHED", "PEER_CLOSED"},
           Follows(z.tcp_state, c.state, c.refused),
           GoodSlot(s, x, pcb'), PcbsKept(s, p), owed' \in OwedType, GoodBuckets(slot', owed')
    PROVE  IInv'
<1>1. slot \in [Slots -> SlotType] /\ pcb \in [Pcbs -> PcbType] BY DEF IInv, TypeOK
<1>2. s # n OBVIOUS
<1>3. /\ slot' \in [Slots -> SlotType] /\ slot'[s] = x /\ slot'[n] = z
      /\ \A t \in Slots \ {s, n} : slot'[t] = slot[t]
  BY <1>1, <1>2
<1>4. pcb' \in [Pcbs -> PcbType] /\ pcb'[p] = c /\ \A q \in Pcbs \ {p} : pcb'[q] = pcb[q]
  BY <1>1
<1>5. \A q \in Pcbs : pcb[q].arg # n BY UnusedSlot
<1>6. GoodSlot(n, z, pcb') BY <1>4, NewSlotGood
<1>7. GoodPcb(p, c, slot')
  <2>1. c.state \in {"estab", "fin_wait", "close_wait", "last_ack"} BY DEF Follows
  <2>2. n # NoSlot BY Nulls
  <2>3. slot'[c.arg].in_use /\ slot'[c.arg].tcp_pcb = p BY <1>3
  <2> QED BY <2>1, <2>2, <2>3 DEF GoodPcb
<1>8. \A t \in {s, n} : GoodSlot(t, slot'[t], pcb') BY <1>3, <1>6
<1>9. ASSUME NEW q \in Pcbs
      PROVE  \/ pcb'[q] = pcb[q] /\ pcb[q].arg \notin {s, n}
             \/ pcb[q].arg \in {s, n} \cup {NoSlot} /\ GoodPcb(q, pcb'[q], slot')
  <2>1. CASE q = p BY <1>4, <1>7, <2>1
  <2>2. CASE q # p BY <1>4, <1>5, <2>2 DEF PcbsKept
  <2> QED BY <2>1, <2>2
<1>10. {s, n} \in SUBSET Slots OBVIOUS
<1> HIDE DEF IInv
<1> QED BY <1>3, <1>4, <1>8, <1>9, <1>10, StepKeeps

\* accept() takes the head of the queue, drops it, or parks on an empty queue.
LEMMA AcceptKeeps ==
    ASSUME IInv, NEW b \in Bases, NEW s \in Slots, tn_ipc_cmd_accept(b, s)
    PROVE  IInv'
<1> DEFINE y == slot[s]
<1>1. MayCall(b, s) /\ y.in_use /\ y.tcp_state = "LISTENING" BY DEF tn_ipc_cmd_accept, MayCall
<1>2. y \in SlotType /\ y.accept \in Seq(Entries) /\ Plain(y) /\ Circuit(s, y, pcb)
  BY <1>1, LiveSlot DEF SlotType
<1>3. "STREAM" \in Types BY <1>1, <1>2 DEF Plain, Circuit
<1>4. slot \in [Slots -> SlotType] /\ owed \in OwedType /\ pcb \in [Pcbs -> PcbType]
  BY DEF IInv, TypeOK, OwedType
<1>5. CASE y.accept = <<>> /\ Becomes(s, Park(World(s), b, "accept")) /\ UNCHANGED pcb
  <2>1. "accept" \in Requests /\ BucketOf("accept") = "accept" BY DEF Requests, Buckets, BucketOf
  <2> QED BY <1>1, <1>5, <2>1, ParkStep
<1>6. CASE y.accept # <<>> /\ UNCHANGED owed
  <2> DEFINE e == Head(y.accept)
             p == e.new_pcb
             a == tn_accept_queue_remove(y.accept, 1)
             left == [slot EXCEPT ![s].accept = Tail(@)]
  <2>1. /\ 1 \in DOMAIN y.accept /\ e = y.accept[1] /\ Len(y.accept) \in Nat
        /\ DOMAIN y.accept = 1 .. Len(y.accept)
    BY <1>2, <1>6
  <2>2. Tail(y.accept) = a
    <3>1. DOMAIN Tail(y.accept) = 1 .. (Len(y.accept) - 1) BY <1>2, <1>6
    <3>2. \A j \in 1 .. (Len(y.accept) - 1) : Tail(y.accept)[j] = y.accept[j + 1] BY <1>2, <1>6
    <3>3. Tail(y.accept) \in Seq(Entries) BY <1>2, <1>6
    <3>5. Tail(y.accept) \in [1 .. (Len(y.accept) - 1) -> Entries]
      <4>1. PICK r \in Seq(Entries) : r = Tail(y.accept) BY <3>3
      <4>2. r \in [1 .. Len(r) -> Entries] /\ DOMAIN r = 1 .. Len(r) OBVIOUS
      <4> QED BY <3>1, <4>1, <4>2
    <3>4. a = [j \in 1 .. (Len(y.accept) - 1) |-> y.accept[j + 1]]
      <4>1. \A j \in 1 .. (Len(y.accept) - 1) : ~(j < 1) BY <2>1
      <4> QED BY <4>1 DEF tn_accept_queue_remove
    <3> QED BY <3>2, <3>4, <3>5
  <2>3. /\ e \in Entries /\ p \in Pcbs /\ pcb[p] \in PcbType /\ pcb[p].cb = "queued"
        /\ pcb[p].arg = s /\ GoodEntry(s, e, pcb) /\ y.pending["accept"] = NoBase
    <3>1. LET d == slot[s].accept[1] IN
          /\ d \in Entries /\ d.new_pcb \in Pcbs /\ pcb[d.new_pcb] \in PcbType
          /\ pcb[d.new_pcb].cb = "queued" /\ pcb[d.new_pcb].arg = s /\ GoodEntry(s, d, pcb)
          /\ slot[s].pending["accept"] = NoBase
      <4>1. PICK i \in DOMAIN slot[s].accept : i = 1 BY <2>1
      <4>2. LET d == slot[s].accept[i] IN
            /\ d \in Entries /\ d.new_pcb \in Pcbs /\ pcb[d.new_pcb] \in PcbType
            /\ pcb[d.new_pcb].cb = "queued" /\ pcb[d.new_pcb].arg = s /\ GoodEntry(s, d, pcb)
            /\ slot[s].pending["accept"] = NoBase
        BY EntryPcb
      <4> QED BY <4>1, <4>2
    <3> QED BY <2>1, <3>1
  <2> HIDE DEF a
  <2>4. left = [slot EXCEPT ![s] = [slot[s] EXCEPT !.accept = a]] BY <1>4, <2>2
  <2>5. UNCHANGED owed BY <1>6
  <2>6. \/ \E n \in Slots :
              /\ IsFreeSlot(n)
              /\ slot' = [left EXCEPT ![n] = Accepted(b, e)]
              /\ pcb'  = [pcb EXCEPT ![p].cb = "conn", ![p].arg = n]
        \/ slot' = left /\ pcb' = [pcb EXCEPT ![p] = FreePcb]
    BY <1>6 DEF tn_ipc_cmd_accept
  <2>7. CASE slot' = left /\ pcb' = [pcb EXCEPT ![p] = FreePcb]
    <3>1. slot' = [slot EXCEPT ![s].accept = tn_accept_queue_remove(slot[s].accept, 1)]
      BY <2>4, <2>7 DEF a
    <3>2. pcb' = [pcb EXCEPT ![slot[s].accept[1].new_pcb] = FreePcb] BY <2>1, <2>7
    <3> HIDE DEF IInv, left
    <3> QED BY <2>1, <2>5, <3>1, <3>2, DropEntryStep
  <2>8. ASSUME NEW n \in Slots, IsFreeSlot(n), slot' = [left EXCEPT ![n] = Accepted(b, e)],
               pcb' = [pcb EXCEPT ![p].cb = "conn", ![p].arg = n]
        PROVE  IInv'
    <3> DEFINE x == [slot[s] EXCEPT !.accept = a]
               z == Accepted(b, e)
               c == [pcb[p] EXCEPT !.cb = "conn", !.arg = n]
    <3>1. ~slot[n].in_use /\ n # s BY <1>1, <2>8 DEF IsFreeSlot
    <3>2. slot' = [slot EXCEPT ![s] = x, ![n] = z] BY <2>4, <2>8
    <3>3. /\ z \in SlotType /\ z.in_use /\ z.type = "STREAM" /\ z.tcp_pcb = p
          /\ z.rx <= MaxRx /\ z.accept = <<>> /\ z.pending = [k \in Buckets |-> NoBase]
          /\ z.tcp_state = IF e.peer_closed THEN "PEER_CLOSED" ELSE "ESTABLISHED"
      BY <1>3, <2>3, AcceptedWorks
    <3> HIDE DEF z
    <3>4. pcb' = [pcb EXCEPT ![p] = c] BY <1>4, <2>3, <2>8
    <3>5. /\ c \in PcbType /\ c.arg = n /\ c.cb = "conn" /\ c.state = pcb[p].state
          /\ c.refused = pcb[p].refused
      BY <2>3 DEF PcbType, Callbacks
    <3> HIDE DEF c
    <3>6. \/ c.state = "estab" /\ ~e.peer_closed /\ ~c.refused
          \/ c.state = "close_wait" /\ (e.peer_closed <=> ~c.refused)
      BY <2>3, <3>5 DEF GoodEntry
    <3>7. Follows(z.tcp_state, c.state, c.refused) BY <3>3, <3>6 DEF Follows
    <3>8. OnlyPcb(p, pcb, pcb') BY <1>4, <2>3, <3>4 DEF OnlyPcb
    <3>9. GoodQueue(s, slot[s].accept, a, p, pcb')
      <4>1. p = slot[s].accept[1].new_pcb BY <2>1
      <4> HIDE DEF IInv, p
      <4> QED BY <2>1, <2>3, <3>8, <4>1, RemoveKeeps DEF a
    <3>10. slot'[s] = [slot[s] EXCEPT !.accept = a] BY <1>4, <3>1, <3>2
    <3>11. /\ slot'[s] \in SlotType /\ slot'[s].pending = slot[s].pending
           /\ GoodSlot(s, slot'[s], pcb') /\ PcbsKept(s, p)
      <4>1. /\ slot[s].in_use /\ slot[s].tcp_state = "LISTENING"
            /\ slot[s].pending["accept"] = NoBase
            /\ p \in Pcbs /\ pcb[p].cb \in {"queued", "none"}
        BY <1>1, <2>3
      <4> HIDE DEF IInv, p
      <4> QED BY <3>8, <3>9, <3>10, <4>1, QueueKeeps
    <3>12. /\ slot'[n] = z /\ \A t \in Slots \ {s, n} : slot'[t] = slot[t]
      BY <1>4, <3>2
    <3>13. slot[n].pending = [k \in Buckets |-> NoBase] BY <3>1, UnusedSlot, FreeWorks
    <3>14. \A t \in Slots : slot'[t].pending = slot[t].pending BY <3>3, <3>11, <3>12, <3>13
    <3>15. GoodBuckets(slot', owed') /\ owed' \in OwedType BY <1>4, <2>5, <3>14, BucketsStay
    <3>16. x \in SlotType /\ GoodSlot(s, x, pcb') BY <3>10, <3>11
    <3> HIDE DEF x
    <3>17. /\ slot[s].in_use /\ p \in Pcbs /\ pcb[p].arg \in {s} \cup {NoSlot}
           /\ c.refused => c.state \in {"close_wait", "last_ack"}
           /\ z.type \in Types /\ z.tcp_state \in {"ESTABLISHED", "PEER_CLOSED"}
      BY <1>1, <1>3, <2>3, <3>3, <3>6
    <3> HIDE DEF IInv, p
    <3> QED BY <3>1, <3>2, <3>3, <3>4, <3>5, <3>7, <3>11, <3>15, <3>16, <3>17, HandOverStep
  <2> HIDE DEF IInv
  <2> QED BY <2>6, <2>7, <2>8
<1> QED BY <1>5, <1>6 DEF tn_ipc_cmd_accept

\* A connection reaches a listener: it goes to the parked accept, to the queue or away.
LEMMA AcceptCbKeeps ==
    ASSUME IInv, NEW s \in Slots, NEW p \in Pcbs, tn_tcp_accept_cb(s, p)
    PROVE  IInv'
<1> DEFINE y == slot[s]
           e == [new_pcb |-> p, early_rx |-> 0, peer_closed |-> FALSE]
           b == slot[s].pending["accept"]
           w == ReplyTo(World(s), "accept")
<1>1. pcb[p].state = "free" /\ y.in_use /\ y.tcp_state = "LISTENING" BY DEF tn_tcp_accept_cb
<1>2. pcb[p].arg = NoSlot /\ pcb[p].cb = "none" BY <1>1, UnusedPcb
<1>3. /\ y \in SlotType /\ World(s) \in WorldType /\ World(s).sl = y /\ World(s).ow = owed
      /\ Plain(y) /\ Circuit(s, y, pcb) /\ Queue(s, y, pcb)
  BY <1>1, LiveSlot
<1>4. "STREAM" \in Types BY <1>1, <1>3 DEF Plain, Circuit
<1>5. slot \in [Slots -> SlotType] /\ owed \in OwedType /\ pcb \in [Pcbs -> PcbType]
  BY DEF IInv, TypeOK, OwedType
<1>6. e \in Entries /\ e.new_pcb = p /\ ~e.peer_closed
  <2>1. 0 \in 0 .. MaxRx BY Caps
  <2> QED BY <2>1 DEF Entries
<1>7. "accept" \in Buckets BY DEF Buckets
<1>8. b \in Bases \cup {NoBase} BY <1>3, <1>7 DEF SlotType
<1> HIDE DEF e
<1>9. \/ /\ b # NoBase
         /\ \E n \in Slots :
               /\ IsFreeSlot(n)
               /\ slot' = [slot EXCEPT ![s] = w.sl, ![n] = Accepted(b, e)]
               /\ pcb'  = [pcb EXCEPT ![p] = Pcb("estab", "conn", n)]
         /\ owed' = w.ow
      \/ b # NoBase /\ Becomes(s, w) /\ UNCHANGED pcb
      \/ /\ b = NoBase
         /\ slot' = [slot EXCEPT ![s].accept = Append(@, e)]
         /\ pcb'  = [pcb EXCEPT ![p] = Pcb("estab", "queued", s)]
         /\ UNCHANGED owed
  BY DEF tn_tcp_accept_cb, e
<1>10. ASSUME b # NoBase, NEW n \in Slots, IsFreeSlot(n),
              slot' = [slot EXCEPT ![s] = w.sl, ![n] = Accepted(b, e)],
              pcb'  = [pcb EXCEPT ![p] = Pcb("estab", "conn", n)], owed' = w.ow
       PROVE  IInv'
  <2> DEFINE z == Accepted(b, e)
             c == Pcb("estab", "conn", n)
  <2>1. ~slot[n].in_use /\ n # s BY <1>1, <1>10 DEF IsFreeSlot
  <2>2. /\ z \in SlotType /\ z.in_use /\ z.type = "STREAM" /\ z.tcp_pcb = p
        /\ z.rx <= MaxRx /\ z.accept = <<>> /\ z.pending = [k \in Buckets |-> NoBase]
        /\ z.tcp_state = "ESTABLISHED"
    BY <1>4, <1>6, <1>8, <1>10, AcceptedWorks
  <2> HIDE DEF z
  <2>3. c \in PcbType /\ c.arg = n /\ c.cb = "conn" /\ c.state = "estab" /\ ~c.refused
    BY DEF Pcb, PcbType, PcbStates, Callbacks
  <2> HIDE DEF c
  <2>4. /\ w \in WorldType /\ SameSocket(y, w.sl) /\ w.sl.rx = y.rx
        /\ \A j \in Buckets : j # "accept" => w.sl.pending[j] = y.pending[j]
        /\ w.sl.pending["accept"] = NoBase /\ Answers(World(s), w)
    BY <1>3, <1>7, ReplyWorks
  <2> HIDE DEF w
  <2>5. w.sl \in SlotType /\ w.ow \in OwedType BY <2>4 DEF WorldType
  <2>6. y.rx <= y.rx BY <1>3, Caps DEF SlotType
  <2>7. Settles(slot[s], w.sl) BY <2>4, <2>6 DEF Settles, SameSocket
  <2>8. GoodSlot(s, w.sl, pcb) BY <1>1, <2>5, <2>7, SettleGood
  <2>9. slot' = [slot EXCEPT ![s] = w.sl, ![n] = z] /\ pcb' = [pcb EXCEPT ![p] = c]
    BY <1>10 DEF z, c
  <2>10. /\ slot' \in [Slots -> SlotType] /\ slot'[s] = w.sl /\ slot'[n] = z
         /\ \A t \in Slots \ {s, n} : slot'[t] = slot[t]
    BY <1>5, <2>1, <2>2, <2>5, <2>9
  <2>11. \A q \in Pcbs \ {p} : pcb'[q] = pcb[q] BY <1>5, <2>9
  <2>12. s # NoSlot BY Nulls
  <2>13. GoodSlot(s, w.sl, pcb')
    <3>1. \A q \in Pcbs : pcb[q].arg = s => pcb'[q] = pcb[q] BY <1>2, <2>11, <2>12
    <3> QED BY <2>5, <2>8, <3>1, SlotFrame
  <2>14. PcbsKept(s, p)
    <3>1. ASSUME NEW q \in Pcbs \ {p}, pcb[q].arg = s PROVE GoodPcb(q, pcb'[q], slot')
      <4>1. GoodPcb(q, pcb[q], slot) /\ pcb[q] \in PcbType BY <1>5 DEF IInv
      <4>2. /\ slot'[s].in_use = slot[s].in_use /\ slot'[s].tcp_pcb = slot[s].tcp_pcb
            /\ slot'[s].accept = slot[s].accept
        BY <2>4, <2>10 DEF SameSocket
      <4>3. GoodPcb(q, pcb[q], slot') BY <3>1, <4>1, <4>2, PcbFrame
      <4> QED BY <2>11, <4>3
    <3> QED BY <3>1 DEF PcbsKept
  <2>15. GoodBuckets(slot', owed')
    <3>1. slot[n].pending = [k \in Buckets |-> NoBase] BY <2>1, UnusedSlot, FreeWorks
    <3>2. \A t \in Slots \ {s} : slot'[t].pending = slot[t].pending BY <2>2, <2>10, <3>1
    <3>3. slot'[s].pending = w.sl.pending /\ owed' = w.ow /\ World(s).sl.pending = slot[s].pending
      BY <1>3, <1>10, <2>10
    <3> HIDE DEF IInv
    <3> QED BY <1>3, <2>4, <2>10, <3>2, <3>3, AnswersKeep
  <2>16. Follows(z.tcp_state, c.state, c.refused) BY <2>2, <2>3 DEF Follows
  <2>17. /\ z.tcp_state \in {"ESTABLISHED", "PEER_CLOSED"} /\ z.type \in Types
         /\ pcb[p].arg \in {s} \cup {NoSlot} /\ owed' \in OwedType /\ slot[s].in_use
    BY <1>1, <1>2, <1>4, <1>10, <2>2, <2>5
  <2> HIDE DEF IInv
  <2> QED BY <2>1, <2>2, <2>3, <2>5, <2>9, <2>13, <2>14, <2>15, <2>16, <2>17, HandOverStep
<1>11. CASE Becomes(s, w) /\ UNCHANGED pcb BY <1>1, <1>7, <1>11, OneAnswer
<1>12. CASE /\ b = NoBase
            /\ slot' = [slot EXCEPT ![s].accept = Append(@, e)]
            /\ pcb'  = [pcb EXCEPT ![p] = Pcb("estab", "queued", s)]
            /\ UNCHANGED owed
  <2> DEFINE a == Append(y.accept, e)
             c == Pcb("estab", "queued", s)
             L == Len(y.accept)
  <2>1. y.accept \in Seq(Entries) BY <1>3 DEF SlotType
  <2>2. /\ a \in Seq(Entries) /\ L \in Nat /\ DOMAIN y.accept = 1 .. L /\ DOMAIN a = 1 .. (L + 1)
        /\ a[L + 1] = e /\ \A i \in 1 .. L : a[i] = y.accept[i]
    BY <1>6, <2>1
  <2> HIDE DEF a
  <2>3. slot' = [slot EXCEPT ![s] = [slot[s] EXCEPT !.accept = a]] BY <1>5, <1>12 DEF a
  <2>4. c \in PcbType /\ c.arg = s /\ c.cb = "queued" /\ c.state = "estab" /\ ~c.refused
    BY DEF Pcb, PcbType, PcbStates, Callbacks
  <2> HIDE DEF c
  <2>5. pcb' = [pcb EXCEPT ![p] = c] BY <1>12 DEF c
  <2>6. pcb'[p] = c /\ \A q \in Pcbs \ {p} : pcb'[q] = pcb[q] BY <1>5, <2>5
  <2>7. slot'[s].accept = a BY <1>3, <1>5, <2>3 DEF SlotType
  <2>8. GoodPcb(p, c, slot')
    <3>1. L + 1 \in DOMAIN a /\ a[L + 1].new_pcb = p BY <1>6, <2>2
    <3>2. \E i \in DOMAIN slot'[s].accept : slot'[s].accept[i].new_pcb = p BY <2>7, <3>1
    <3>3. s # NoSlot BY Nulls
    <3> QED BY <2>4, <3>2, <3>3 DEF GoodPcb
  <2>9. ASSUME NEW i \in 1 .. L
        PROVE  /\ y.accept[i].new_pcb \in Pcbs \ {p} /\ GoodEntry(s, y.accept[i], pcb')
               /\ y.accept[i].new_pcb # p
    <3>1. GoodEntry(s, y.accept[i], pcb) BY <1>3, <2>2 DEF Queue
    <3>2. y.accept[i] \in Entries BY <2>1, <2>2
    <3>3. y.accept[i].new_pcb \in Pcbs \ {p} BY <1>2, <3>1, <3>2 DEF GoodEntry, Entries
    <3>4. pcb'[y.accept[i].new_pcb] = pcb[y.accept[i].new_pcb] BY <2>6, <3>3
    <3> QED BY <3>1, <3>3, <3>4 DEF GoodEntry
  <2>10. GoodEntry(s, e, pcb') BY <1>6, <2>4, <2>6 DEF GoodEntry
  <2>11. \A i \in DOMAIN a : i \in 1 .. L \/ i = L + 1 BY <2>2
  <2>12. \A i \in DOMAIN a : GoodEntry(s, a[i], pcb') BY <2>2, <2>9, <2>10, <2>11
  <2>13. ASSUME NEW i \in DOMAIN a, NEW j \in DOMAIN a, a[i].new_pcb = a[j].new_pcb PROVE i = j
    <3>1. CASE i \in 1 .. L /\ j \in 1 .. L BY <1>3, <2>2, <2>13, <3>1 DEF Queue
    <3>2. CASE i \in 1 .. L /\ j = L + 1 BY <1>6, <2>2, <2>9, <2>13, <3>2
    <3>3. CASE i = L + 1 /\ j \in 1 .. L BY <1>6, <2>2, <2>9, <2>13, <3>3
    <3> QED BY <2>11, <3>1, <3>2, <3>3
  <2>14. \A i \in DOMAIN y.accept : \E j \in DOMAIN a : a[j].new_pcb = y.accept[i].new_pcb
    BY <2>2
  <2>15. GoodQueue(s, slot[s].accept, a, p, pcb')
    BY <2>2, <2>12, <2>13, <2>14 DEF GoodQueue
  <2>16. /\ slot[s].in_use /\ slot[s].tcp_state = "LISTENING" /\ slot[s].pending["accept"] = NoBase
         /\ pcb[p].cb \in {"queued", "none"} /\ pcb[p].arg \in {s} \cup {NoSlot} /\ UNCHANGED owed
    BY <1>1, <1>2, <1>12
  <2> HIDE DEF IInv
  <2> QED BY <2>3, <2>4, <2>5, <2>8, <2>15, <2>16, QueueStep
<1> QED BY <1>9, <1>10, <1>11, <1>12

\* A segment reaches a connection nobody accepted yet.
LEMMA QueuedRecvKeeps ==
    ASSUME IInv, NEW s \in Slots, NEW p \in Pcbs, NEW data \in BOOLEAN, NEW fin \in BOOLEAN,
           tn_tcp_queued_recv_cb(s, p, data, fin)
    PROVE  IInv'
<1> DEFINE y == slot[s]
           c == [pcb[p] EXCEPT !.state = IF fin THEN "close_wait" ELSE @]
<1>1. PICK i \in DOMAIN slot[s].accept :
         LET e == slot[s].accept[i]
         IN  /\ pcb[p].cb = "queued" /\ pcb[p].arg = s /\ e.new_pcb = p
             /\ pcb[p].state = "estab" /\ (data \/ fin)
             /\ \/ /\ data => e.early_rx < MaxRx
                   /\ slot' = [slot EXCEPT ![s].accept[i] =
                                  [e EXCEPT !.early_rx = IF data THEN @ + 1 ELSE @,
                                            !.peer_closed = fin]]
                   /\ pcb' = [pcb EXCEPT ![p] = c]
                \/ /\ data /\ fin /\ e.early_rx = MaxRx
                   /\ pcb' = [pcb EXCEPT ![p] = [c EXCEPT !.refused = TRUE]]
                   /\ UNCHANGED slot
             /\ UNCHANGED owed
  BY DEF tn_tcp_queued_recv_cb
<1>2. PICK e \in Entries : e = slot[s].accept[i] BY EntryPcb
<1>3. /\ y.in_use /\ y.tcp_state = "LISTENING" /\ y.pending["accept"] = NoBase
      /\ y \in SlotType /\ y.accept \in Seq(Entries) /\ Queue(s, y, pcb) /\ GoodEntry(s, e, pcb)
  BY <1>2, EntryPcb
<1>4. slot \in [Slots -> SlotType] /\ pcb \in [Pcbs -> PcbType] BY DEF IInv, TypeOK
<1>5. pcb[p] \in PcbType /\ e.new_pcb = p /\ pcb[p].state = "estab" BY <1>1, <1>2, <1>4
<1>6. ~pcb[p].refused /\ ~e.peer_closed BY <1>3, <1>5 DEF GoodEntry
<1>7. PICK st \in {"estab", "close_wait"} : st = IF fin THEN "close_wait" ELSE "estab" OBVIOUS
<1>8. c = [pcb[p] EXCEPT !.state = st] BY <1>1, <1>7
<1>9. /\ c \in PcbType /\ c.arg = s /\ c.cb = "queued" /\ c.state = st /\ ~c.refused
  BY <1>1, <1>5, <1>6, <1>8 DEF PcbType, PcbStates
<1> HIDE DEF c
<1>10. \E d \in PcbType, f \in Entries :
          /\ slot' = [slot EXCEPT ![s] = [slot[s] EXCEPT !.accept = [slot[s].accept EXCEPT ![i] = f]]]
          /\ pcb' = [pcb EXCEPT ![p] = d]
          /\ d.arg = s /\ d.cb = "queued" /\ d.state \in {"estab", "close_wait"} /\ f.new_pcb = p
          /\ \/ d.state = "estab" /\ ~f.peer_closed /\ ~d.refused
             \/ d.state = "close_wait" /\ (f.peer_closed <=> ~d.refused)
  <2>1. CASE /\ data => e.early_rx < MaxRx
             /\ slot' = [slot EXCEPT ![s].accept[i] =
                                  [e EXCEPT !.early_rx = IF data THEN @ + 1 ELSE @,
                                            !.peer_closed = fin]]
             /\ pcb' = [pcb EXCEPT ![p] = c]
    <3>1. e.early_rx \in 0 .. MaxRx BY DEF Entries
    <3>2. PICK rx \in 0 .. MaxRx : rx = IF data THEN e.early_rx + 1 ELSE e.early_rx
      BY <2>1, <3>1, Caps
    <3> DEFINE f == [e EXCEPT !.early_rx = rx, !.peer_closed = fin]
    <3>3. f = [e EXCEPT !.early_rx = IF data THEN @ + 1 ELSE @, !.peer_closed = fin] BY <3>2
    <3>4. f \in Entries /\ f.new_pcb = p /\ f.peer_closed = fin BY <1>5 DEF Entries
    <3> HIDE DEF f
    <3>5. slot' = [slot EXCEPT ![s] = [slot[s] EXCEPT !.accept = [slot[s].accept EXCEPT ![i] = f]]]
      BY <2>1, <3>3
    <3> QED BY <1>7, <1>9, <2>1, <3>4, <3>5
  <2>2. CASE /\ data /\ fin
             /\ pcb' = [pcb EXCEPT ![p] = [c EXCEPT !.refused = TRUE]]
             /\ UNCHANGED slot
    <3> DEFINE d == [c EXCEPT !.refused = TRUE]
    <3>1. d \in PcbType /\ d.arg = s /\ d.cb = "queued" /\ d.state = "close_wait" /\ d.refused
      BY <1>7, <1>9, <2>2 DEF PcbType
    <3>2. slot' = [slot EXCEPT ![s] = [slot[s] EXCEPT !.accept = [slot[s].accept EXCEPT ![i] = e]]]
      <4>1. [y.accept EXCEPT ![i] = e] = y.accept BY <1>2, <1>3
      <4>2. [y EXCEPT !.accept = y.accept] = y BY <1>3 DEF SlotType
      <4>3. [slot EXCEPT ![s] = slot[s]] = slot BY <1>4
      <4> QED BY <2>2, <4>1, <4>2, <4>3
    <3> HIDE DEF d
    <3>3. pcb' = [pcb EXCEPT ![p] = d] BY <2>2 DEF d
    <3> QED BY <1>5, <1>6, <3>1, <3>2, <3>3
  <2> QED BY <1>1, <1>2, <2>1, <2>2
<1>11. PICK d \in PcbType, f \in Entries :
          /\ slot' = [slot EXCEPT ![s] = [slot[s] EXCEPT !.accept = [slot[s].accept EXCEPT ![i] = f]]]
          /\ pcb' = [pcb EXCEPT ![p] = d]
          /\ d.arg = s /\ d.cb = "queued" /\ d.state \in {"estab", "close_wait"} /\ f.new_pcb = p
          /\ \/ d.state = "estab" /\ ~f.peer_closed /\ ~d.refused
             \/ d.state = "close_wait" /\ (f.peer_closed <=> ~d.refused)
  BY <1>10
<1> DEFINE a == [y.accept EXCEPT ![i] = f]
<1>12. /\ a \in Seq(Entries) /\ DOMAIN a = DOMAIN y.accept /\ a[i] = f
       /\ \A j \in DOMAIN a \ {i} : a[j] = y.accept[j]
  BY <1>3
<1> HIDE DEF a
<1>13. slot' = [slot EXCEPT ![s] = [slot[s] EXCEPT !.accept = a]] BY <1>11 DEF a
<1>14. slot'[s].accept = a BY <1>3, <1>4, <1>13 DEF SlotType
<1>15. pcb'[p] = d /\ \A q \in Pcbs \ {p} : pcb'[q] = pcb[q] BY <1>4, <1>11
<1>16. \A j \in DOMAIN a : a[j].new_pcb = y.accept[j].new_pcb BY <1>1, <1>2, <1>5, <1>11, <1>12
<1>17. ASSUME NEW j \in DOMAIN a PROVE GoodEntry(s, a[j], pcb')
  <2>1. CASE j = i BY <1>11, <1>12, <1>15, <2>1 DEF GoodEntry
  <2>2. CASE j # i
    <3>1. GoodEntry(s, y.accept[j], pcb) BY <1>3, <1>12 DEF Queue
    <3>2. y.accept[j] \in Entries BY <1>3, <1>12
    <3>3. y.accept[j].new_pcb # p BY <1>1, <1>3, <1>12, <2>2 DEF Queue
    <3>4. y.accept[j].new_pcb \in Pcbs \ {p} BY <3>2, <3>3 DEF Entries
    <3>5. pcb'[y.accept[j].new_pcb] = pcb[y.accept[j].new_pcb] BY <1>15, <3>4
    <3>6. a[j] = y.accept[j] BY <1>12, <2>2
    <3> QED BY <3>1, <3>5, <3>6 DEF GoodEntry
  <2> QED BY <2>1, <2>2
<1>18. \A j, k \in DOMAIN a : a[j].new_pcb = a[k].new_pcb => j = k BY <1>3, <1>12, <1>16 DEF Queue
<1>19. \A j \in DOMAIN y.accept : \E k \in DOMAIN a : a[k].new_pcb = y.accept[j].new_pcb
  BY <1>12, <1>16
<1>20. GoodQueue(s, slot[s].accept, a, p, pcb') BY <1>12, <1>17, <1>18, <1>19 DEF GoodQueue
<1>21. GoodPcb(p, d, slot')
  <2>1. i \in DOMAIN slot'[s].accept /\ slot'[s].accept[i].new_pcb = p BY <1>11, <1>12, <1>14
  <2>2. s # NoSlot BY Nulls
  <2>3. d.refused => d.state = "close_wait" BY <1>11
  <2> QED BY <1>11, <2>1, <2>2, <2>3 DEF GoodPcb
<1>22. /\ slot[s].in_use /\ slot[s].tcp_state = "LISTENING" /\ slot[s].pending["accept"] = NoBase
       /\ pcb[p].cb \in {"queued", "none"} /\ pcb[p].arg \in {s} \cup {NoSlot} /\ UNCHANGED owed
  BY <1>1, <1>3
<1> HIDE DEF IInv
<1> QED BY <1>11, <1>13, <1>20, <1>21, <1>22, QueueStep

-----------------------------------------------------------------------------
(***************************************************************************)
(* The theorems.                                                           *)
(***************************************************************************)
\* The invariant holds at the start.
LEMMA InitHolds == Init => IInv
<1> SUFFICES ASSUME Init PROVE IInv OBVIOUS
<1>1. /\ slot = [s \in Slots |-> FreeSlot] /\ owed = [b \in Bases |-> "none"]
      /\ pcb = [p \in Pcbs |-> FreePcb]
  BY DEF Init
<1>2. TypeOK BY <1>1, FreeWorks DEF TypeOK
<1>3. \A s \in Slots : GoodSlot(s, slot[s], pcb) BY <1>1 DEF GoodSlot
<1>4. \A p \in Pcbs : GoodPcb(p, pcb[p], slot) BY <1>1, FreeWorks DEF GoodPcb
<1>5. GoodBuckets(slot, owed)
  <2>1. \A s \in Slots, k \in Buckets : slot[s].pending[k] = NoBase BY <1>1, FreeWorks
  <2>2. \A b \in Bases : owed[b] \notin Requests BY <1>1 DEF Requests, Buckets
  <2> QED BY <2>1, <2>2 DEF GoodBuckets
<1> QED BY <1>2, <1>3, <1>4, <1>5 DEF IInv

\* And every step keeps it.
LEMMA NextKeeps == IInv /\ [Next]_vars => IInv'
<1> SUFFICES ASSUME IInv, [Next]_vars PROVE IInv' OBVIOUS
<1>1. ASSUME NEW b \in Bases, Handlers(b) PROVE IInv'
  <2>1. CASE \E type \in Types : tn_ipc_cmd_socket(b, type) BY <2>1, SocketKeeps
  <2>2. CASE tn_ipc_cmd_cancel(b) BY <2>2, AnswersOne
  <2>3. ASSUME NEW s \in Slots,
               \/ tn_ipc_cmd_ioctl(b, s) \/ tn_ipc_cmd_getsockopt(b, s)
               \/ \E copy \in BOOLEAN : tn_ipc_cmd_releasesocket(b, s, copy)
               \/ tn_ipc_cmd_obtainsocket(b, s)
        PROVE  IInv'
    BY <2>3, FlagsKeep
  <2>4. ASSUME NEW s \in Slots, tn_ipc_cmd_connect(b, s) PROVE IInv' BY <2>4, ConnectKeeps
  <2>5. ASSUME NEW s \in Slots, tn_ipc_cmd_listen(b, s) PROVE IInv' BY <2>5, ListenKeeps
  <2>6. ASSUME NEW s \in Slots, tn_ipc_cmd_accept(b, s) PROVE IInv' BY <2>6, AcceptKeeps
  <2>7. ASSUME NEW s \in Slots, tn_tcp_send_stream(b, s) PROVE IInv' BY <2>7, SendKeeps
  <2>8. ASSUME NEW s \in Slots, NEW op \in {"recv", "recvmsg"}, tn_ipc_cmd_recv(b, s, op)
        PROVE  IInv'
    BY <2>8, RecvKeeps
  <2>9. ASSUME NEW s \in Slots, NEW how \in {"RD", "WR", "RDWR"}, tn_ipc_cmd_shutdown(b, s, how)
        PROVE  IInv'
    BY <2>9, ShutdownKeeps
  <2>10. ASSUME NEW s \in Slots, tn_ipc_cmd_closesocket(b, s) PROVE IInv' BY <2>10, CloseKeeps
  <2> HIDE DEF IInv
  <2> QED BY <1>1, <2>1, <2>2, <2>3, <2>4, <2>5, <2>6, <2>7, <2>8, <2>9, <2>10 DEF Handlers
<1>2. ASSUME NEW s \in Slots, Lwip(s) PROVE IInv'
  <2>1. CASE tn_slot_check_recv_timeouts(s) BY <2>1, AnswersOne
  <2>2. CASE tn_udp_recv_cb(s) BY <2>2, UdpKeeps
  <2>3. ASSUME NEW p \in Pcbs, tn_tcp_resume_send(s, p) PROVE IInv' BY <2>3, AnswersOne
  <2>4. ASSUME NEW p \in Pcbs, tn_tcp_connected_cb(s, p) PROVE IInv' BY <2>4, ConnectedKeeps
  <2>5. ASSUME NEW p \in Pcbs, NEW data \in BOOLEAN, NEW fin \in BOOLEAN,
               tn_tcp_recv_cb(s, p, data, fin)
        PROVE  IInv'
    BY <2>5, RecvCbKeeps
  <2>6. ASSUME NEW p \in Pcbs, Redeliver(s, p) PROVE IInv' BY <2>6, RedeliverKeeps
  <2>7. ASSUME NEW p \in Pcbs, NEW err \in {"CLSD", "RST"}, tn_tcp_err_cb(s, p, err) PROVE IInv'
    BY <2>7, ErrKeeps
  <2>8. ASSUME NEW p \in Pcbs, tn_tcp_accept_cb(s, p) PROVE IInv' BY <2>8, AcceptCbKeeps
  <2>9. ASSUME NEW p \in Pcbs, NEW data \in BOOLEAN, NEW fin \in BOOLEAN,
               tn_tcp_queued_recv_cb(s, p, data, fin)
        PROVE  IInv'
    BY <2>9, QueuedRecvKeeps
  <2>10. ASSUME NEW p \in Pcbs, tn_tcp_queued_err_cb(s, p) PROVE IInv' BY <2>10, QueuedErrKeeps
  <2> HIDE DEF IInv
  <2> QED BY <1>2, <2>1, <2>2, <2>3, <2>4, <2>5, <2>6, <2>7, <2>8, <2>9, <2>10 DEF Lwip
<1>3. ASSUME NEW p \in Pcbs, Expire(p) PROVE IInv' BY <1>3, ExpireKeeps
<1>4. CASE UNCHANGED vars
  BY <1>4 DEF vars, IInv, TypeOK, GoodBuckets
<1> QED BY <1>1, <1>2, <1>3, <1>4 DEF Next

\* Slots, pcbs and requests agree at all times, whatever the clients and lwIP do.
THEOREM Invariant == Spec => []IInv
BY InitHolds, NextKeeps, PTL DEF Spec

\* Every variable has its type; the receive queue passes its cap by one packet at
\* most (tn_tcp_recv_cb takes the last segment of a finished connection).
THEOREM TypeCorrect == Spec => []TypeOK
<1>1. IInv => TypeOK BY DEF IInv
<1> QED BY <1>1, Invariant, PTL

\* No client sleeps in recv, accept, send or connect without something that will
\* wake it, in any number of clients, slots and connections.
THEOREM SleepersWake == Spec => []NobodySleepsForNothing
<1>1. IInv => NobodySleepsForNothing
  <2> SUFFICES ASSUME IInv, NEW s \in Slots, slot[s].in_use
               PROVE  /\ Waits(s, "recv") => /\ slot[s].rx = 0
                                             /\ slot[s].tcp_state \notin {"LISTENING", "PEER_CLOSED", "ERROR"}
                      /\ Waits(s, "accept") => slot[s].tcp_state = "LISTENING" /\ slot[s].accept = <<>>
                      /\ Waits(s, "send") =>
                            /\ slot[s].tcp_pcb # NoPcb /\ pcb[slot[s].tcp_pcb].cb = "conn"
                            /\ pcb[slot[s].tcp_pcb].state \in Active \ {"syn_sent"}
                      /\ Waits(s, "connect") =>
                            \/ slot[s].tcp_state = "CONNECTING" /\ pcb[slot[s].tcp_pcb].state = "syn_sent"
                            \/ slot[s].tcp_state = "CLOSED" /\ slot[s].shut_rd /\ slot[s].shut_wr
    BY DEF NobodySleepsForNothing, NoRecvSleepsOnNews, NoAcceptSleepsOnQueue, ParkedSendHasCircuit,
           ParkedConnectHasHandshake, Live
  <2>1. Sleepers(slot[s]) /\ Circuit(s, slot[s], pcb) BY LiveSlot
  <2>2. Waits(s, "recv") => /\ slot[s].rx = 0
                            /\ slot[s].tcp_state \notin {"LISTENING", "PEER_CLOSED", "ERROR"}
    BY <2>1 DEF Waits, Sleepers
  <2>3. Waits(s, "accept") => slot[s].tcp_state = "LISTENING" /\ slot[s].accept = <<>>
    BY <2>1 DEF Waits, Sleepers
  <2>4. ASSUME Waits(s, "send")
        PROVE  /\ slot[s].tcp_pcb # NoPcb /\ pcb[slot[s].tcp_pcb].cb = "conn"
               /\ pcb[slot[s].tcp_pcb].state \in Active \ {"syn_sent"}
    <3>1. slot[s].tcp_pcb # NoPcb /\ slot[s].tcp_state \in {"ESTABLISHED", "PEER_CLOSED"}
      BY <2>1, <2>4 DEF Waits, Sleepers
    <3>2. LET c == pcb[slot[s].tcp_pcb] IN
          /\ c.cb \in {"conn", "listen"} /\ Follows(slot[s].tcp_state, c.state, c.refused)
          /\ GoodPcb(slot[s].tcp_pcb, c, slot)
      BY <3>1, OwnPcb
    <3>3. pcb[slot[s].tcp_pcb].state \in {"estab", "fin_wait", "close_wait", "last_ack"}
      BY <3>1, <3>2 DEF Follows
    <3>4. pcb[slot[s].tcp_pcb].cb = "conn" BY <3>2, <3>3 DEF GoodPcb
    <3> QED BY <3>1, <3>3, <3>4 DEF Active
  <2>5. ASSUME Waits(s, "connect")
        PROVE  \/ slot[s].tcp_state = "CONNECTING" /\ pcb[slot[s].tcp_pcb].state = "syn_sent"
               \/ slot[s].tcp_state = "CLOSED" /\ slot[s].shut_rd /\ slot[s].shut_wr
    <3>1. CASE slot[s].tcp_state = "CONNECTING" BY <2>1, <3>1 DEF Circuit, Follows
    <3>2. CASE slot[s].tcp_state # "CONNECTING" BY <2>1, <2>5, <3>2 DEF Waits, Sleepers
    <3> QED BY <3>1, <3>2
  <2> QED BY <2>2, <2>3, <2>4, <2>5
<1> QED BY <1>1, Invariant, PTL

\* Every pcb is some slot's, and they name one another, or it is lwIP's to end.
THEOREM PcbsSound == Spec => []PcbsAccountedFor
<1>1. IInv => PcbsAccountedFor
  <2> SUFFICES ASSUME IInv PROVE PcbsAccountedFor OBVIOUS
  <2>1. ASSUME NEW s \in Live, slot[s].tcp_pcb # NoPcb PROVE pcb[slot[s].tcp_pcb].arg = s
    BY <2>1, OwnPcb DEF Live
  <2>2. ASSUME NEW p \in Pcbs PROVE
          CASE pcb[p].cb \in {"conn", "listen"} -> IsSlotsPcb(pcb[p].arg, p)
            [] pcb[p].cb = "queued" -> pcb[p].arg \in Live /\ p \in QueuedPcbs(pcb[p].arg)
            [] OTHER -> \A s \in Live : slot[s].tcp_pcb # p /\ p \notin QueuedPcbs(s)
    <3>1. GoodPcb(p, pcb[p], slot) /\ pcb[p] \in PcbType BY DEF IInv, TypeOK
    <3>2. CASE pcb[p].cb \in {"conn", "listen"}
      <4>1. IsSlotsPcb(pcb[p].arg, p) BY <3>2, PcbOwner DEF IsSlotsPcb
      <4> QED BY <3>2, <4>1
    <3>3. CASE pcb[p].cb = "queued"
      <4>1. pcb[p].arg \in Slots BY <3>1, <3>3 DEF GoodPcb, PcbType
      <4>2. PICK i \in DOMAIN slot[pcb[p].arg].accept : slot[pcb[p].arg].accept[i].new_pcb = p
        BY <3>1, <3>3 DEF GoodPcb
      <4>3. slot[pcb[p].arg].in_use BY <4>1, <4>2, EntryPcb
      <4>4. pcb[p].arg \in Live /\ p \in QueuedPcbs(pcb[p].arg) BY <4>1, <4>2, <4>3 DEF Live, QueuedPcbs
      <4> QED BY <3>3, <4>4
    <3>4. CASE pcb[p].cb \notin {"conn", "listen", "queued"}
      <4>1. ASSUME NEW s \in Live PROVE slot[s].tcp_pcb # p /\ p \notin QueuedPcbs(s)
        <5>1. s \in Slots /\ slot[s].in_use BY DEF Live
        <5>2. slot[s].tcp_pcb # p
          <6>1. p # NoPcb BY Nulls
          <6> QED BY <3>4, <5>1, <6>1, OwnPcb
        <5>3. p \notin QueuedPcbs(s)
          <6>1. Queue(s, slot[s], pcb) BY <5>1, LiveSlot
          <6> QED BY <3>4, <6>1 DEF QueuedPcbs, Queue, GoodEntry
        <5> QED BY <5>2, <5>3
      <4> QED BY <3>4, <4>1
    <3> QED BY <3>2, <3>3, <3>4
  <2>3. NoPcbLeaks BY DEF IInv, GoodPcb, NoPcbLeaks
  <2> QED BY <2>1, <2>2, <2>3 DEF PcbsAccountedFor, PcbAndSlotAgree
<1> QED BY <1>1, Invariant, PTL

\* The slot's idea of its connection follows lwIP's.
THEOREM StatesAgree == Spec => []StateFollowsLwip
<1>1. IInv => StateFollowsLwip
  <2> SUFFICES ASSUME IInv, NEW s \in Slots, slot[s].in_use, slot[s].type = "STREAM"
               PROVE  LET t == slot[s].tcp_state
                          c == IF slot[s].tcp_pcb = NoPcb THEN [state |-> "gone", refused |-> FALSE]
                               ELSE pcb[slot[s].tcp_pcb]
                      IN  \/ t = "CLOSED"      /\ c.state \in {"closed", "gone"}
                          \/ t = "CONNECTING"  /\ c.state = "syn_sent"
                          \/ t = "LISTENING"   /\ c.state = "listen"
                          \/ t = "ESTABLISHED" /\ c.state \in {"estab", "fin_wait"}
                          \/ t = "ESTABLISHED" /\ c.state \in {"close_wait", "last_ack"} /\ c.refused
                          \/ t = "PEER_CLOSED" /\ c.state \in {"close_wait", "last_ack", "gone"} /\ ~c.refused
                          \/ t = "ERROR"       /\ c.state = "gone"
    BY DEF StateFollowsLwip, Live
  <2>1. Circuit(s, slot[s], pcb) BY LiveSlot
  <2>2. CASE slot[s].tcp_pcb = NoPcb BY <2>1, <2>2 DEF Circuit
  <2>3. CASE slot[s].tcp_pcb # NoPcb BY <2>1, <2>3 DEF Circuit, Follows
  <2> QED BY <2>2, <2>3
<1> QED BY <1>1, Invariant, PTL

\* A deferred request is answered once, and not forgotten before.
THEOREM RequestsSound == Spec => []AnsweredOnce
<1>1. IInv => AnsweredOnce
  <2> SUFFICES ASSUME IInv PROVE AnsweredOnce OBVIOUS
  <2>1. GoodBuckets(slot, owed) BY DEF IInv
  <2>2. ASSUME NEW s \in Slots, NEW k \in Buckets, Waits(s, k) PROVE s \in Live
    <3>1. slot[s] # FreeSlot BY <2>2, FreeWorks DEF Waits
    <3> QED BY <3>1 DEF IInv, GoodSlot, Plain, Live
  <2>3. NoRequestAnsweredTwice BY <2>1, <2>2 DEF NoRequestAnsweredTwice, GoodBuckets, Waits
  <2>4. RequestsKept BY <2>1 DEF RequestsKept, GoodBuckets
  <2> QED BY <2>3, <2>4 DEF AnsweredOnce
<1> QED BY <1>1, Invariant, PTL

=============================================================================
