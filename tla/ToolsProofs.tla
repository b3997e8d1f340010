---------------------------- MODULE ToolsProofs -----------------------------
(***************************************************************************)
(* Proofs about the commands, as parts of MCServices; laid out like         *)
(* ServicesProofs, which they do not need.                                  *)
(***************************************************************************)
EXTENDS MCServices, FiniteSetTheorems, TLAPS

\* No step turns one part into another (ServicesNext).
LEMMA PartStays == [ServicesNext]_services => part' = part
BY DEF ServicesNext, services

(* Probe: v1 pr_tool, v2 pr_step, v3 pr_at, v4 pr_sent, v5 pr_queue,        *)
(* v6 pr_tries, v7 pr_rows, v8 pr_sum, v9 pr_reached, v10 pr_rc.            *)

\* What Probe asks of its constants.
LEMMA ProbeConstants ==
    /\ PrCount \in Nat /\ PrDist \in Nat /\ PrQueue \in Nat
    /\ PrHops \in Nat \ {0} /\ PrQueries \in Nat \ {0}
<1>1. Pr!PrAssumption BY ServicesAssumption DEF ServicesAssumption
<1> QED BY <1>1 DEF Pr!PrAssumption

\* A mark is a number.
LEMMA MarkType == ASSUME Pr!PrTypeOK PROVE Pr!ProbeId(v3) \in Nat
<1>1. v3.hop \in 1..PrHops /\ v3.probe \in Nat BY DEF Pr!PrTypeOK
<1>2. (v3.hop - 1) * PrQueries + v3.probe \in Nat BY <1>1, ProbeConstants
<1> QED BY <1>1, <1>2 DEF Pr!ProbeId

\* So is the mark after a step.
LEMMA MarkTypeNext == ASSUME v3' \in [hop : 1..PrHops, probe : Nat] PROVE Pr!ProbeId(v3)' \in Nat
<1>1. v3'.hop \in 1..PrHops /\ v3'.probe \in Nat OBVIOUS
<1>2. (v3'.hop - 1) * PrQueries + v3'.probe \in Nat BY <1>1, ProbeConstants
<1> QED BY <1>1, <1>2 DEF Pr!ProbeId

\* What was sent bears a mark and a TTL.
LEMMA SentType ==
    ASSUME Pr!PrTypeOK
    PROVE  \A i \in DOMAIN v4 : v4[i].id \in Nat /\ v4[i].ttl \in 1..PrHops
<1> DEFINE T == [id : Nat, ttl : 1..PrHops]
<1>1. v4 \in Seq(T) BY DEF Pr!PrTypeOK
<1> SUFFICES ASSUME NEW i \in DOMAIN v4 PROVE v4[i].id \in Nat /\ v4[i].ttl \in 1..PrHops
  OBVIOUS
<1> HIDE DEF T
<1>2. v4[i] \in T BY <1>1
<1> QED BY <1>2 DEF T

\* The hop after this one begins beyond the last mark of this one.
LEMMA NextHopMark ==
    ASSUME NEW h \in Nat \ {0}, NEW p \in Nat, p < PrQueries
    PROVE  (h - 1) * PrQueries + p < ((h + 1) - 1) * PrQueries + 0
<1> USE ProbeConstants
<1>1. (h + 1) - 1 = (h - 1) + 1 OBVIOUS
<1>2. PICK k \in Nat : k = h - 1 OBVIOUS
<1>3. (k + 1) * PrQueries = k * PrQueries + PrQueries BY <1>2
<1>4. k * PrQueries \in Nat BY <1>2
<1> QED BY <1>1, <1>2, <1>3, <1>4

\* The loops of the commands go on to a larger mark, in the same or the next
\* hop, or end (AfterProbe).
Onward ==
    /\ v2' = "send" /\ v3' \in [hop : 1..PrHops, probe : Nat] /\ v3'.hop >= v3.hop
    /\ v1 = "traceroute" => v3'.probe < PrQueries /\ ~v9'
    /\ v1 \in {"ping", "traceroute"} => Pr!ProbeId(v3) < Pr!ProbeId(v3)'

\* What follows a probe.
LEMMA AfterProbeMoves ==
    ASSUME Pr!PrTypeOK, v1 = "traceroute" => v3.probe < PrQueries, v1' = v1,
           NEW a \in BOOLEAN, Pr!AfterProbe(a)
    PROVE  /\ v10' \in {-1, 0, 5, 10}
           /\ (v2' = "end" /\ v3' = v3) \/ Onward
<1> USE ProbeConstants
<1>1. v3.hop \in 1..PrHops /\ v3.probe \in Nat /\ v3 = [hop |-> v3.hop, probe |-> v3.probe]
  BY DEF Pr!PrTypeOK
<1>2. ASSUME Pr!NextProbe, v1 = "traceroute" => v3.probe < PrQueries - 1 /\ ~v9'
      PROVE  v10' \in {-1, 0, 5, 10} /\ Onward
  <2>1. v3' = [v3 EXCEPT !.probe = v3.probe + 1] /\ v2' = "send" /\ v10' = v10
    BY <1>2 DEF Pr!NextProbe, Pr!Goto
  <2>2. v3'.hop = v3.hop /\ v3'.probe = v3.probe + 1 /\ v3' \in [hop : 1..PrHops, probe : Nat]
    BY <1>1, <2>1
  <2>3. v1 \in {"ping", "traceroute"} => Pr!ProbeId(v3) < Pr!ProbeId(v3)'
    <3>1. PICK k \in Nat : k = (v3.hop - 1) * PrQueries BY <1>1
    <3>2. k + v3.probe < k + (v3.probe + 1) BY <1>1, <3>1
    <3> QED BY <1>1, <2>2, <3>1, <3>2 DEF Pr!ProbeId
  <2> QED BY <1>1, <1>2, <2>1, <2>2, <2>3 DEF Onward, Pr!PrTypeOK
<1>3. ASSUME NEW rc \in {0, 5, 10}, Pr!End(rc)
      PROVE  v10' \in {-1, 0, 5, 10} /\ v2' = "end" /\ v3' = v3
  BY <1>3 DEF Pr!End
<1>4. CASE v1 \in Pr!Pings
  <2>1. Pr!AfterPing BY <1>4 DEF Pr!AfterProbe, Pr!Pings
  <2>2. v1 # "traceroute" BY <1>4 DEF Pr!Pings
  <2>3. Pr!PingRc(v8') \in {0, 5, 10} BY DEF Pr!PingRc
  <2>4. Pr!End(Pr!PingRc(v8')) \/ Pr!NextProbe BY <2>1 DEF Pr!AfterPing
  <2> QED BY <1>2, <1>3, <2>2, <2>3, <2>4
<1>5. CASE v1 = "traceroute"
  <2>1. Pr!AfterHopProbe(a) BY <1>5 DEF Pr!AfterProbe, Pr!Pings
  <2>2. CASE v9'
    <3>1. PICK rc \in {0, 5} : Pr!End(rc) BY <2>1, <2>2 DEF Pr!AfterHopProbe
    <3> QED BY <1>3, <3>1
  <2>3. CASE ~v9' /\ ~a /\ v3.probe < PrQueries - 1
    <3>1. Pr!NextProbe BY <2>1, <2>3 DEF Pr!AfterHopProbe
    <3> QED BY <1>2, <2>3, <3>1
  <2>4. CASE ~v9' /\ ~(~a /\ v3.probe < PrQueries - 1) /\ v3.hop = PrHops
    <3>1. Pr!End(5) BY <2>1, <2>4 DEF Pr!AfterHopProbe
    <3> QED BY <1>3, <3>1
  <2>5. CASE ~v9' /\ ~(~a /\ v3.probe < PrQueries - 1) /\ v3.hop # PrHops
    <3>1. Pr!Goto([hop |-> v3.hop + 1, probe |-> 0]) BY <2>1, <2>5 DEF Pr!AfterHopProbe
    <3>2. v2' = "send" /\ v10' = v10 /\ v3' = [hop |-> v3.hop + 1, probe |-> 0]
      BY <3>1 DEF Pr!Goto
    <3>3. v3'.hop = v3.hop + 1 /\ v3'.probe = 0 /\ v3' \in [hop : 1..PrHops, probe : Nat]
      BY <1>1, <2>5, <3>2
    <3>4. (v3.hop - 1) * PrQueries + v3.probe < ((v3.hop + 1) - 1) * PrQueries + 0
      <4>1. v3.hop \in Nat \ {0} /\ v3.probe < PrQueries BY <1>1, <1>5
      <4> QED BY <1>1, <4>1, NextHopMark
    <3>5. Pr!ProbeId(v3) < Pr!ProbeId(v3)'
      BY <1>5, <3>3, <3>4 DEF Pr!ProbeId
    <3>6. v10 \in {-1, 0, 5, 10} BY DEF Pr!PrTypeOK
    <3>7. 0 < PrQueries /\ v3'.hop >= v3.hop BY <1>1, <3>3
    <3> QED BY <1>5, <2>5, <3>2, <3>3, <3>5, <3>6, <3>7 DEF Onward
  <2> QED BY <2>2, <2>3, <2>4, <2>5
<1>6. CASE v1 = "nslookup"
  <2>1. Pr!AfterTry(a) BY <1>6 DEF Pr!AfterProbe, Pr!Pings
  <2>2. Pr!End(0) \/ Pr!End(10) \/ Pr!NextProbe BY <2>1 DEF Pr!AfterTry
  <2> QED BY <1>2, <1>3, <1>6, <2>2
<1>7. CASE v1 = "sntp"
  <2>1. Pr!AfterQuery(a) BY <1>7 DEF Pr!AfterProbe, Pr!Pings
  <2>2. Pr!End(0) \/ Pr!End(5) BY <2>1 DEF Pr!AfterQuery
  <2> QED BY <1>3, <2>2
<1>8. v1 \in Pr!Pings \cup {"traceroute", "nslookup", "sntp"}
  BY DEF Pr!PrTypeOK, Pr!PrTools, Pr!Pings
<1> QED BY <1>4, <1>5, <1>6, <1>7, <1>8

\* Going on to a larger mark, every probe sent has a smaller one.
LEMMA OnwardMarks ==
    ASSUME Pr!PrTypeOK, v1 \in {"ping", "traceroute"}, Pr!MarksGrow, Onward, v4' = v4
    PROVE  Pr!MarksGrow'
<1>1. Pr!ProbeId(v3) < Pr!ProbeId(v3)' /\ Pr!ProbeId(v3) \in Nat BY MarkType DEF Onward
<1>2. Pr!ProbeId(v3)' \in Nat BY MarkTypeNext DEF Onward
<1>3. \A i \in DOMAIN v4 : v4[i].id \in Nat BY SentType
<1>4. \A i \in DOMAIN v4 : v4[i].id <= Pr!ProbeId(v3) BY DEF Pr!MarksGrow
<1>5. \A i \in DOMAIN v4 : v4[i].id <= Pr!ProbeId(v3)' /\ v4[i].id # Pr!ProbeId(v3)'
  BY <1>1, <1>2, <1>3, <1>4
<1> QED BY <1>5 DEF Pr!MarksGrow

\* A step that sends nothing and tells nothing keeps the invariant, wherever it
\* leaves the loop: where it was, at a later probe, waiting for a probe that did
\* not leave, or at the end.
LEMMA QuietProbe ==
    ASSUME Pr!PrInv, UNCHANGED <<v1, v4, v7, v8, v9>>,
           v5' \in Seq(Pr!PrPackets), v6' \in Nat, v10' \in {-1, 0, 5, 10},
           \A i \in DOMAIN v5' : (v5'[i].n = 0) <=> (v5'[i].kind \in {"alien", "runt"}),
           \/ UNCHANGED <<v2, v3>>
           \/ v2' = "end" /\ v3' = v3
           \/ v1 = "traceroute" /\ v2 = "send" /\ v2' = "wait" /\ v3' = v3
           \/ Onward
    PROVE  Pr!PrInv'
<1>1. Pr!PrTypeOK' BY DEF Pr!PrInv, Pr!PrTypeOK, Pr!PrPackets, Onward
<1>2. Pr!ProbeId(v3) \in Nat BY MarkType DEF Pr!PrInv
<1>3. v3' = v3 => Pr!ProbeId(v3)' = Pr!ProbeId(v3) BY DEF Pr!ProbeId
<1>4. v3.hop \in Nat /\ v3'.hop \in Nat /\ v3'.hop >= v3.hop
  <2>1. v3 \in [hop : 1..PrHops, probe : Nat] /\ PrHops \in Nat
    BY ProbeConstants DEF Pr!PrInv, Pr!PrTypeOK
  <2> QED BY <2>1 DEF Onward
<1>5. v9' => v3'.hop >= PrDist
  BY <1>4, ProbeConstants DEF Pr!PrInv, Pr!AnswersOwnProbe
<1>6. Pr!AnswersOwnProbe' BY <1>5 DEF Pr!PrInv, Pr!AnswersOwnProbe
<1>7. Pr!RowsKnown' BY DEF Pr!PrInv, Pr!RowsKnown
<1>8. v1' = "traceroute" => v3'.probe < PrQueries BY DEF Pr!PrInv, Onward
<1>9. ASSUME v1 \in {"ping", "traceroute"} PROVE Pr!MarksGrow'
  <2>1. Pr!MarksGrow BY <1>9 DEF Pr!PrInv
  <2>2. CASE v3' = v3 /\ ~Onward
    <3>1. v2' = "send" => v2 = "send" BY <2>2
    <3> QED BY <1>3, <2>1, <2>2, <3>1 DEF Pr!MarksGrow
  <2>3. CASE Onward
    BY <1>9, <2>1, <2>3, OnwardMarks DEF Pr!PrInv
  <2> QED BY <2>2, <2>3
<1>10. Pr!Outstanding' => v8'.acknowledged < v8'.transmitted
  <2> SUFFICES ASSUME Pr!Outstanding' PROVE v8.acknowledged < v8.transmitted
    OBVIOUS
  <2>1. v2' = "wait" /\ v3' = v3 BY DEF Pr!Outstanding, Onward, Pr!PrInv
  <2>2. CASE v2 = "wait"
    BY <1>3, <2>1, <2>2 DEF Pr!Outstanding, Pr!PrInv
  <2>3. CASE v2 # "wait"
    <3>1. v1 = "traceroute" /\ v2 = "send" BY <2>1, <2>3 DEF Onward
    <3>2. PICK i \in DOMAIN v4 : v4[i].id = Pr!ProbeId(v3)
      BY <1>3, <2>1, <3>1 DEF Pr!Outstanding
    <3> QED BY <3>1, <3>2 DEF Pr!PrInv, Pr!MarksGrow
  <2> QED BY <2>2, <2>3
<1> QED BY <1>1, <1>6, <1>7, <1>8, <1>9, <1>10 DEF Pr!PrInv

\* A sequence over a set is one over any larger set.
LEMMA WiderSeq == ASSUME NEW S, NEW T, S \subseteq T, NEW q \in Seq(S) PROVE q \in Seq(T)
<1>1. q \in [1..Len(q) -> T] /\ Len(q) \in Nat OBVIOUS
<1> QED BY <1>1

\* sendto(): the probe's mark is new, and one more is transmitted.
LEMMA SendProbeKeeps == ASSUME Pr!PrInv, Pr!SendProbe PROVE Pr!PrInv'
<1> DEFINE r == [id |-> Pr!ProbeId(v3), ttl |-> v3.hop]
<1>1. /\ v2 = "send" /\ v2' = "wait" /\ v4' = Append(v4, r) /\ v6' = 0
      /\ v8' = [v8 EXCEPT !.transmitted = @ + 1]
      /\ UNCHANGED <<v1, v3, v5, v7, v9, v10>>
  BY DEF Pr!SendProbe
<1>2. Pr!PrTypeOK BY DEF Pr!PrInv
<1>3. r.id \in Nat /\ r.ttl \in 1..PrHops /\ r.id = Pr!ProbeId(v3) /\ r.ttl = v3.hop
  BY <1>2, MarkType DEF Pr!PrTypeOK
<1>4. r \in [id : Nat, ttl : 1..PrHops] BY <1>3
<1>5. v4 \in Seq([id : Nat, ttl : 1..PrHops]) BY <1>2 DEF Pr!PrTypeOK
<1> HIDE DEF r
<1>6. /\ v4' \in Seq([id : Nat, ttl : 1..PrHops]) /\ Len(v4) \in Nat
      /\ Len(v4') = Len(v4) + 1 /\ DOMAIN v4 = 1..Len(v4) /\ DOMAIN v4' = 1..(Len(v4) + 1)
      /\ \A i \in DOMAIN v4 : v4'[i] = v4[i]
      /\ v4'[Len(v4) + 1] = r
  BY <1>1, <1>4, <1>5
<1>7. Pr!PrPackets \subseteq Pr!PrPackets'
  <2>1. 0..Len(v4) \subseteq 0..Len(v4') BY <1>6
  <2> QED BY <2>1 DEF Pr!PrPackets
<1>8. v5' \in Seq(Pr!PrPackets')
  <2>1. v5 \in Seq(Pr!PrPackets) BY <1>2 DEF Pr!PrTypeOK
  <2> QED BY <1>1, <1>7, <2>1, WiderSeq
<1>9. v7' \in Seq([hop : 1..PrHops, n : Nat, got : Pr!PrPackets'])
  <2> DEFINE A == [hop : 1..PrHops, n : Nat, got : Pr!PrPackets]
             B == [hop : 1..PrHops, n : Nat, got : Pr!PrPackets']
  <2>1. A \subseteq B BY <1>7
  <2>2. v7 \in Seq(A) BY <1>2 DEF Pr!PrTypeOK
  <2> HIDE DEF A, B
  <2>3. v7 \in Seq(B) BY <2>1, <2>2, WiderSeq
  <2> QED BY <1>1, <2>3 DEF B
<1>10. /\ v8'.transmitted = v8.transmitted + 1 /\ v8'.acknowledged = v8.acknowledged
       /\ v8.transmitted \in Nat /\ v8.acknowledged \in Nat
       /\ v8' \in [transmitted : Nat, acknowledged : Nat]
  <2>1. v8 \in [transmitted : Nat, acknowledged : Nat] BY <1>2 DEF Pr!PrTypeOK
  <2>2. v8' = [v8 EXCEPT !.transmitted = v8.transmitted + 1] BY <1>1
  <2> QED BY <2>1, <2>2
<1>11. Pr!PrTypeOK' BY <1>1, <1>2, <1>6, <1>8, <1>9, <1>10 DEF Pr!PrTypeOK
<1>12. v8.acknowledged <= v8.transmitted BY DEF Pr!PrInv, Pr!AnswersOwnProbe
<1>13. v8'.acknowledged < v8'.transmitted /\ v8'.acknowledged <= v8'.transmitted
  BY <1>10, <1>12
<1>14. Pr!RowsKnown'
  BY <1>1, <1>6 DEF Pr!PrInv, Pr!RowsKnown
<1>15. Pr!AnswersOwnProbe'
  BY <1>1, <1>6, <1>13 DEF Pr!PrInv, Pr!RowsKnown, Pr!AnswersOwnProbe
<1>16. ASSUME v1 \in {"ping", "traceroute"} PROVE Pr!MarksGrow'
  <2>1. Pr!MarksGrow BY <1>16 DEF Pr!PrInv
  <2>2. Pr!ProbeId(v3)' = Pr!ProbeId(v3) BY <1>1 DEF Pr!ProbeId
  <2>3. \A i \in DOMAIN v4 : v4[i].id < r.id
    <3>1. \A i \in DOMAIN v4 : v4[i].id <= r.id /\ v4[i].id # r.id
      BY <1>1, <1>3, <2>1 DEF Pr!MarksGrow
    <3>2. \A i \in DOMAIN v4 : v4[i].id \in Nat BY <1>2, SentType
    <3> QED BY <1>3, <3>1, <3>2
  <2>4. \A i, j \in DOMAIN v4' : i < j => v4'[i].id < v4'[j].id
    <3> SUFFICES ASSUME NEW i \in DOMAIN v4', NEW j \in DOMAIN v4', i < j
                 PROVE  v4'[i].id < v4'[j].id
      OBVIOUS
    <3>1. i \in DOMAIN v4 /\ v4'[i] = v4[i] BY <1>6
    <3>2. CASE j \in DOMAIN v4 BY <1>6, <2>1, <3>1, <3>2 DEF Pr!MarksGrow
    <3>3. CASE j = Len(v4) + 1
      <4>1. v4'[j] = r BY <1>6, <3>3
      <4> QED BY <2>3, <3>1, <4>1
    <3> QED BY <1>6, <3>2, <3>3
  <2>5. \A i \in DOMAIN v4' : v4'[i].id <= r.id /\ (v4'[i].id = r.id => v4'[i].ttl = v3.hop)
    <3> SUFFICES ASSUME NEW i \in DOMAIN v4'
                 PROVE  v4'[i].id <= r.id /\ (v4'[i].id = r.id => v4'[i].ttl = v3.hop)
      OBVIOUS
    <3>1. CASE i \in DOMAIN v4
      <4>1. v4'[i] = v4[i] /\ v4[i].id < r.id /\ v4[i].id \in Nat
        BY <1>2, <1>6, <2>3, <3>1, SentType
      <4> QED BY <1>3, <4>1
    <3>2. CASE i = Len(v4) + 1
      <4>1. v4'[i] = r BY <1>6, <3>2
      <4> QED BY <1>3, <4>1
    <3> QED BY <1>6, <3>1, <3>2
  <2> QED BY <1>1, <1>3, <2>2, <2>4, <2>5 DEF Pr!MarksGrow
<1> QED BY <1>1, <1>11, <1>13, <1>14, <1>15, <1>16 DEF Pr!PrInv

\* What answers the probe asked for was sent as that probe: it is the last one
\* sent, at this hop (EchoReply, tr_match), and it was not credited yet.
LEMMA AnswerIsOwn ==
    ASSUME Pr!PrInv, v2 = "wait", NEW p \in Pr!PrPackets, Pr!Answers(p),
           (p.n = 0) <=> (p.kind \in {"alien", "runt"})
    PROVE  /\ v8.acknowledged < v8.transmitted
           /\ v1 \notin {"udpping", "sntp"} => p.kind = "answer" /\ p.n \in DOMAIN v4
           /\ v1 \in {"ping", "traceroute"} => p.n = Len(v4)
           /\ v1 = "traceroute" => v4[p.n].ttl = v3.hop
<1>1. Pr!PrTypeOK BY DEF Pr!PrInv
<1>2. v4 \in Seq([id : Nat, ttl : 1..PrHops]) BY <1>1 DEF Pr!PrTypeOK
<1>3. DOMAIN v4 = 1..Len(v4) /\ Len(v4) \in Nat BY <1>2
<1>4. p.n \in 0..Len(v4) BY DEF Pr!PrPackets
<1>5. ASSUME v1 \notin {"udpping", "sntp"} PROVE p.kind = "answer" /\ p.n \in DOMAIN v4
  <2>1. p.kind = "answer"
    BY <1>1, <1>5 DEF Pr!Answers, Pr!EchoReply, Pr!tr_match, Pr!OwnTransaction, Pr!dns_parse_reply,
                      Pr!PrTypeOK, Pr!PrTools
  <2> QED BY <1>3, <1>4, <2>1
<1>6. ASSUME v1 \in {"ping", "traceroute"}
      PROVE  p.n = Len(v4) /\ v4[p.n].id = Pr!ProbeId(v3) /\ v4[p.n].ttl = v3.hop
  <2>1. v4[p.n].id = Pr!ProbeId(v3) /\ p.n \in DOMAIN v4
    BY <1>5, <1>6 DEF Pr!Answers, Pr!EchoReply, Pr!tr_match
  <2>2. Pr!MarksGrow BY <1>6 DEF Pr!PrInv
  <2>3. Len(v4) \in DOMAIN v4 /\ p.n <= Len(v4) /\ p.n \in Nat BY <1>3, <2>1
  <2>4. v4[Len(v4)].id <= Pr!ProbeId(v3) BY <2>2, <2>3 DEF Pr!MarksGrow
  <2>5. v4[p.n].id \in Nat /\ v4[Len(v4)].id \in Nat BY <1>1, <2>1, <2>3, SentType
  <2>6. ~(p.n < Len(v4))
    <3> SUFFICES ASSUME p.n < Len(v4) PROVE FALSE OBVIOUS
    <3>1. v4[p.n].id < v4[Len(v4)].id BY <2>1, <2>2, <2>3 DEF Pr!MarksGrow
    <3> QED BY <2>1, <2>4, <2>5, <3>1
  <2> QED BY <1>3, <2>1, <2>2, <2>3, <2>6 DEF Pr!MarksGrow
<1>7. v8.acknowledged < v8.transmitted
  <2>1. Pr!Outstanding BY <1>5, <1>6 DEF Pr!Outstanding
  <2> QED BY <2>1 DEF Pr!PrInv
<1> QED BY <1>5, <1>6, <1>7

\* The head of the queue is a packet like any other, and so is what is left.
LEMMA QueueTail ==
    ASSUME Pr!PrInv, v5 # <<>>
    PROVE  /\ Head(v5) \in Pr!PrPackets /\ Tail(v5) \in Seq(Pr!PrPackets)
           /\ (Head(v5).n = 0) <=> (Head(v5).kind \in {"alien", "runt"})
           /\ \A i \in DOMAIN Tail(v5) :
                 (Tail(v5)[i].n = 0) <=> (Tail(v5)[i].kind \in {"alien", "runt"})
<1>1. v5 \in Seq(Pr!PrPackets) BY DEF Pr!PrInv, Pr!PrTypeOK
<1>2. /\ Len(v5) \in Nat \ {0} /\ DOMAIN v5 = 1..Len(v5) /\ Head(v5) = v5[1]
      /\ Tail(v5) \in Seq(Pr!PrPackets) /\ DOMAIN Tail(v5) = 1..(Len(v5) - 1)
      /\ \A i \in DOMAIN Tail(v5) : Tail(v5)[i] = v5[i + 1]
  BY <1>1
<1>3. PICK k \in DOMAIN v5 : k = 1 BY <1>2
<1>4. Head(v5) \in Pr!PrPackets BY <1>1, <1>2, <1>3
<1>5. \A i \in DOMAIN v5 : (v5[i].n = 0) <=> (v5[i].kind \in {"alien", "runt"}) BY DEF Pr!PrInv
<1>6. \A i \in DOMAIN Tail(v5) : i + 1 \in DOMAIN v5 BY <1>2
<1> QED BY <1>2, <1>3, <1>4, <1>5, <1>6

\* recvfrom() returns the answer: it is told for its own probe, and counted once.
LEMMA CreditKeeps == ASSUME Pr!PrInv, Pr!PrCredit PROVE Pr!PrInv'
<1>1. PICK p : p = Head(v5) OBVIOUS
<1>2. /\ v2 = "wait" /\ v5 # <<>> /\ Pr!Answers(p) /\ v5' = Tail(v5)
      /\ v7' = Append(v7, [hop |-> v3.hop, n |-> Len(v4), got |-> p])
      /\ v8' = [v8 EXCEPT !.acknowledged = v8.acknowledged + 1]
      /\ v9' = (v9 \/ (v1 = "traceroute" /\ Pr!From(p) = PrDist))
      /\ UNCHANGED <<v1, v4, v6>> /\ Pr!AfterProbe(TRUE)
  BY <1>1 DEF Pr!PrCredit
<1>3. Pr!PrTypeOK /\ Pr!AnswersOwnProbe /\ (v1 = "traceroute" => v3.probe < PrQueries)
  BY DEF Pr!PrInv
<1>4. /\ p \in Pr!PrPackets /\ v5' \in Seq(Pr!PrPackets)
      /\ (p.n = 0) <=> (p.kind \in {"alien", "runt"})
      /\ \A i \in DOMAIN v5' : (v5'[i].n = 0) <=> (v5'[i].kind \in {"alien", "runt"})
  BY <1>1, <1>2, QueueTail
<1>5. v10' \in {-1, 0, 5, 10} /\ ((v2' = "end" /\ v3' = v3) \/ Onward)
  BY <1>2, <1>3, AfterProbeMoves
<1>6. /\ v8.acknowledged < v8.transmitted
      /\ v1 \notin {"udpping", "sntp"} => p.kind = "answer" /\ p.n \in DOMAIN v4
      /\ v1 \in {"ping", "traceroute"} => p.n = Len(v4)
      /\ v1 = "traceroute" => v4[p.n].ttl = v3.hop
  <2> HIDE DEF Pr!PrInv
  <2> QED BY <1>2, <1>4, AnswerIsOwn
<1>7. /\ v8'.transmitted = v8.transmitted /\ v8'.acknowledged = v8.acknowledged + 1
      /\ v8.transmitted \in Nat /\ v8.acknowledged \in Nat
      /\ v8' \in [transmitted : Nat, acknowledged : Nat]
  <2>1. v8 \in [transmitted : Nat, acknowledged : Nat] BY <1>3 DEF Pr!PrTypeOK
  <2> QED BY <1>2, <2>1
<1>8. v8'.acknowledged <= v8'.transmitted BY <1>6, <1>7
<1> DEFINE Rows == [hop : 1..PrHops, n : Nat, got : Pr!PrPackets]
           row == [hop |-> v3.hop, n |-> Len(v4), got |-> p]
<1>9. v7 \in Seq(Rows) /\ v4 \in Seq([id : Nat, ttl : 1..PrHops])
  BY <1>3 DEF Pr!PrTypeOK
<1>10. v3.hop \in 1..PrHops /\ v3.probe \in Nat BY <1>3 DEF Pr!PrTypeOK
<1>11. row \in Rows /\ row.got = p /\ row.n = Len(v4) /\ row.hop = v3.hop
  BY <1>4, <1>9, <1>10
<1> HIDE DEF Rows, row
<1>12. /\ v7' \in Seq(Rows) /\ Len(v7) \in Nat /\ DOMAIN v7 = 1..Len(v7)
       /\ DOMAIN v7' = 1..(Len(v7) + 1) /\ v7'[Len(v7) + 1] = row
       /\ \A i \in DOMAIN v7 : v7'[i] = v7[i]
  BY <1>2, <1>9, <1>11 DEF row
<1>13. Pr!PrPackets' = Pr!PrPackets BY <1>2 DEF Pr!PrPackets
<1>14. v2' \in {"send", "wait", "end"} /\ v3' \in [hop : 1..PrHops, probe : Nat]
  BY <1>3, <1>5 DEF Onward, Pr!PrTypeOK
<1>15. Pr!PrTypeOK'
  <2>1. v9' \in BOOLEAN BY <1>2
  <2> QED BY <1>2, <1>3, <1>4, <1>5, <1>7, <1>12, <1>13, <1>14, <2>1 DEF Pr!PrTypeOK, Rows
<1>16. ASSUME v1 \notin {"udpping", "sntp"}, NEW i \in DOMAIN v7'
       PROVE  /\ v7'[i].got.kind = "answer" /\ v7'[i].got.n \in DOMAIN v4
              /\ v1 = "nslookup" \/ v7'[i].got.n = v7'[i].n
              /\ v1 = "traceroute" => v4[v7'[i].got.n].ttl = v7'[i].hop
  <2>1. CASE i \in DOMAIN v7
    BY <1>3, <1>12, <1>16, <2>1 DEF Pr!AnswersOwnProbe, Pr!PrInv, Pr!RowsKnown
  <2>2. CASE i = Len(v7) + 1
    <3>1. v7'[i] = row BY <1>12, <2>2
    <3>2. v1 \in {"ping", "traceroute", "nslookup"} BY <1>3, <1>16 DEF Pr!PrTypeOK, Pr!PrTools
    <3> QED BY <1>6, <1>11, <1>16, <3>1, <3>2
  <2> QED BY <1>12, <2>1, <2>2
<1>17. v9' => v3'.hop >= PrDist
  <2> SUFFICES ASSUME v9' PROVE v3'.hop >= PrDist OBVIOUS
  <2>1. v3'.hop >= v3.hop /\ v3'.hop \in Nat /\ PrDist \in Nat
    BY <1>5, <1>10, <1>14, ProbeConstants DEF Onward
  <2>2. CASE v9 BY <1>3, <1>10, <2>1, <2>2 DEF Pr!AnswersOwnProbe
  <2>3. CASE v1 = "traceroute" /\ Pr!From(p) = PrDist
    <3>1. ~(v3.hop < PrDist)
      BY <1>6, <1>10, <2>1, <2>3 DEF Pr!From
    <3> QED BY <1>10, <2>1, <3>1
  <2> QED BY <1>2, <2>2, <2>3
<1>18. Pr!AnswersOwnProbe' BY <1>2, <1>8, <1>16, <1>17 DEF Pr!AnswersOwnProbe
<1>19. Pr!RowsKnown' BY <1>2, <1>16 DEF Pr!RowsKnown
<1>20. v1' = "traceroute" => v3'.probe < PrQueries BY <1>2, <1>3, <1>5 DEF Onward
<1>21. ~Pr!Outstanding' BY <1>5 DEF Pr!Outstanding, Onward
<1>22. ASSUME v1 \in {"ping", "traceroute"} PROVE Pr!MarksGrow'
  <2>1. Pr!MarksGrow BY <1>22 DEF Pr!PrInv
  <2>2. CASE v2' = "end" /\ v3' = v3
    <3>1. Pr!ProbeId(v3)' = Pr!ProbeId(v3) BY <1>2, <2>2 DEF Pr!ProbeId
    <3> QED BY <1>2, <2>1, <2>2, <3>1 DEF Pr!MarksGrow
  <2>3. CASE Onward
    BY <1>2, <1>3, <1>22, <2>1, <2>3, OnwardMarks
  <2> QED BY <1>5, <2>2, <2>3
<1> QED BY <1>2, <1>4, <1>15, <1>18, <1>19, <1>20, <1>21, <1>22 DEF Pr!PrInv

\* The steps that send nothing and tell nothing: a sendto() that fails, Ctrl-C, a
\* timeout, a packet thrown away, and a packet that arrives.
LEMMA QuietActions ==
    ASSUME Pr!PrInv,
           Pr!SendFails \/ Pr!PrBreak \/ Pr!PrTimeout \/ Pr!PrDiscard \/ Pr!PrArrive
    PROVE  Pr!PrInv'
<1>1. /\ Pr!PrTypeOK /\ (v1 = "traceroute" => v3.probe < PrQueries)
      /\ v5 \in Seq(Pr!PrPackets) /\ v6 \in Nat /\ v10 \in {-1, 0, 5, 10}
      /\ \A i \in DOMAIN v5 : (v5[i].n = 0) <=> (v5[i].kind \in {"alien", "runt"})
      /\ v1 \in Pr!Pings \cup {"traceroute", "nslookup", "sntp"}
  BY DEF Pr!PrInv, Pr!PrTypeOK, Pr!PrTools, Pr!Pings
<1>2. ASSUME NEW rc \in {0, 5, 10}, Pr!End(rc)
      PROVE  v10' \in {-1, 0, 5, 10} /\ v2' = "end" /\ v3' = v3
  BY <1>2 DEF Pr!End
<1>3. CASE Pr!SendFails
  <2>1. v2 = "send" /\ UNCHANGED <<v1, v4, v5, v7, v8, v9>> /\ v6' = 0
    BY <1>3 DEF Pr!SendFails
  <2>2. /\ v10' \in {-1, 0, 5, 10}
        /\ \/ v2' = "end" /\ v3' = v3
           \/ v1 = "traceroute" /\ v2 = "send" /\ v2' = "wait" /\ v3' = v3
           \/ Onward
    <3>1. CASE v1 \in Pr!Pings
      <4>1. Pr!AfterProbe(FALSE) BY <1>3, <3>1 DEF Pr!SendFails, Pr!Pings
      <4> QED BY <1>1, <2>1, <4>1, AfterProbeMoves
    <3>2. CASE v1 = "traceroute"
      BY <1>1, <1>3, <2>1, <3>2 DEF Pr!SendFails, Pr!Pings
    <3>3. CASE v1 \in {"nslookup", "sntp"}
      <4>1. Pr!End(10) BY <1>3, <3>3 DEF Pr!SendFails, Pr!Pings
      <4> QED BY <1>2, <4>1
    <3> QED BY <1>1, <3>1, <3>2, <3>3
  <2> HIDE DEF Pr!PrInv
  <2> QED BY <1>1, <2>1, <2>2, QuietProbe
<1>4. CASE Pr!PrBreak
  <2>1. UNCHANGED <<v1, v4, v5, v6, v7, v8, v9>> BY <1>4 DEF Pr!PrBreak
  <2>2. Pr!End(Pr!PingRc(v8)) \/ Pr!End(5) BY <1>4 DEF Pr!PrBreak
  <2>3. Pr!PingRc(v8) \in {0, 5, 10} BY DEF Pr!PingRc
  <2>4. v10' \in {-1, 0, 5, 10} /\ v2' = "end" /\ v3' = v3 BY <1>2, <2>2, <2>3
  <2> HIDE DEF Pr!PrInv
  <2> QED BY <1>1, <2>1, <2>4, QuietProbe
<1>5. CASE Pr!PrTimeout
  <2>1. UNCHANGED <<v1, v4, v5, v6, v7, v8, v9>> /\ Pr!AfterProbe(FALSE)
    BY <1>5 DEF Pr!PrTimeout
  <2>2. v10' \in {-1, 0, 5, 10} /\ ((v2' = "end" /\ v3' = v3) \/ Onward)
    BY <1>1, <2>1, AfterProbeMoves
  <2> HIDE DEF Pr!PrInv
  <2> QED BY <1>1, <2>1, <2>2, QuietProbe
<1>6. CASE Pr!PrDiscard
  <2>1. v5 # <<>> /\ v5' = Tail(v5) /\ UNCHANGED <<v1, v4, v7, v8, v9>> /\ v6' \in Nat
    BY <1>1, <1>6 DEF Pr!PrDiscard
  <2>2. /\ v5' \in Seq(Pr!PrPackets)
        /\ \A i \in DOMAIN v5' : (v5'[i].n = 0) <=> (v5'[i].kind \in {"alien", "runt"})
    BY <2>1, QueueTail
  <2>3. /\ v10' \in {-1, 0, 5, 10}
        /\ UNCHANGED <<v2, v3>> \/ (v2' = "end" /\ v3' = v3) \/ Onward
    <3>1. CASE Pr!AfterProbe(FALSE) BY <1>1, <2>1, <3>1, AfterProbeMoves
    <3>2. CASE UNCHANGED <<v2, v3, v10>> BY <1>1, <3>2
    <3>3. CASE Pr!End(10) BY <1>2, <3>3
    <3>4. Pr!AfterProbe(FALSE) \/ UNCHANGED <<v2, v3, v10>> \/ Pr!End(10)
      BY <1>1, <1>6 DEF Pr!PrDiscard, Pr!Pings
    <3> QED BY <3>1, <3>2, <3>3, <3>4
  <2> HIDE DEF Pr!PrInv
  <2> QED BY <2>1, <2>2, <2>3, QuietProbe
<1>7. CASE Pr!PrArrive
  <2>1. PICK p \in Pr!PrPackets :
          /\ (p.n = 0) <=> (p.kind \in {"alien", "runt"})
          /\ v5' = Append(v5, p)
    BY <1>7 DEF Pr!PrArrive
  <2>2. UNCHANGED <<v1, v2, v3, v4, v6, v7, v8, v9, v10>> BY <1>7 DEF Pr!PrArrive
  <2>3. /\ v5' \in Seq(Pr!PrPackets) /\ DOMAIN v5 = 1..Len(v5) /\ Len(v5) \in Nat
        /\ DOMAIN v5' = 1..(Len(v5) + 1) /\ v5'[Len(v5) + 1] = p
        /\ \A i \in DOMAIN v5 : v5'[i] = v5[i]
    BY <1>1, <2>1
  <2>4. \A i \in DOMAIN v5' : (v5'[i].n = 0) <=> (v5'[i].kind \in {"alien", "runt"})
    <3> SUFFICES ASSUME NEW i \in DOMAIN v5'
                 PROVE  (v5'[i].n = 0) <=> (v5'[i].kind \in {"alien", "runt"})
      OBVIOUS
    <3>1. CASE i \in DOMAIN v5 BY <1>1, <2>3, <3>1
    <3>2. CASE i = Len(v5) + 1 BY <2>1, <2>3, <3>2
    <3> QED BY <2>3, <3>1, <3>2
  <2> HIDE DEF Pr!PrInv
  <2> QED BY <1>1, <2>2, <2>3, <2>4, QuietProbe
<1> QED BY <1>3, <1>4, <1>5, <1>6, <1>7

\* No probe is sent and nothing is told.
LEMMA ProbeInit == ASSUME Pr!PrInit PROVE Pr!PrInv
<1>1. /\ v3 = [hop |-> 1, probe |-> IF v1 = "traceroute" THEN 0 ELSE 1]
      /\ v4 = <<>> /\ v5 = <<>> /\ v7 = <<>> /\ v6 = 0 /\ v9 = FALSE /\ v2 = "send"
      /\ v8 = [transmitted |-> 0, acknowledged |-> 0] /\ v10 = -1 /\ v1 \in Pr!PrTools
  BY DEF Pr!PrInit
<1>2. /\ v3 \in [hop : 1..PrHops, probe : Nat] /\ (v1 = "traceroute" => v3.probe < PrQueries)
  BY <1>1, ProbeConstants
<1>3. v8 \in [transmitted : Nat, acknowledged : Nat] /\ v8.acknowledged <= v8.transmitted
  BY <1>1
<1>4. \A S : <<>> \in Seq(S) OBVIOUS
<1>5. /\ v4 \in Seq([id : Nat, ttl : 1..PrHops]) /\ v5 \in Seq(Pr!PrPackets)
      /\ v7 \in Seq([hop : 1..PrHops, n : Nat, got : Pr!PrPackets])
  BY <1>1, <1>4
<1>6. v6 \in Nat /\ v9 \in BOOLEAN /\ v10 \in {-1, 0, 5, 10} /\ v2 \in {"send", "wait", "end"}
  BY <1>1
<1>7. Pr!PrTypeOK BY <1>1, <1>2, <1>3, <1>5, <1>6 DEF Pr!PrTypeOK
<1> QED BY <1>1, <1>2, <1>3, <1>7
        DEF Pr!PrInv, Pr!AnswersOwnProbe, Pr!RowsKnown, Pr!MarksGrow, Pr!Outstanding

\* Every step of Probe keeps its invariant.
LEMMA ProbeStep == ASSUME Pr!PrInv, [Pr!PrNext]_Pr!prvars PROVE Pr!PrInv'
<1>1. CASE UNCHANGED Pr!prvars
  BY <1>1 DEF Pr!prvars, Pr!PrInv, Pr!PrTypeOK, Pr!PrPackets, Pr!AnswersOwnProbe, Pr!RowsKnown,
              Pr!MarksGrow, Pr!Outstanding, Pr!ProbeId
<1> HIDE DEF Pr!PrInv
<1>2. CASE Pr!SendProbe BY <1>2, SendProbeKeeps
<1>3. CASE Pr!PrCredit BY <1>3, CreditKeeps
<1>4. CASE Pr!SendFails \/ Pr!PrBreak \/ Pr!PrTimeout \/ Pr!PrDiscard \/ Pr!PrArrive
  BY <1>4, QuietActions
<1> QED BY <1>1, <1>2, <1>3, <1>4 DEF Pr!PrNext

\* For every COUNT, MAXHOPS, QUERIES, distance and length of queue, and however
\* late, doubled or reordered the answers are: ping, traceroute and nslookup
\* credit an answer to the probe it answers, no more is acknowledged than was
\* transmitted, and traceroute reaches only the target (TolunnetPing.c,
\* traceroute.c, nslookup.c).
THEOREM OwnAnswers == ServicesSpec => []AnswersOwnProbe
<1> DEFINE I == part = "probe" => Pr!PrInv
<1>1. ServicesInit => I
  BY ProbeInit DEF ServicesInit
<1>2. I /\ [ServicesNext]_services => I'
  <2> SUFFICES ASSUME Pr!PrInv, part = "probe", [ServicesNext]_services PROVE Pr!PrInv'
    BY PartStays
  <2>1. [Pr!PrNext]_Pr!prvars BY DEF ServicesNext, services, Pr!prvars
  <2> HIDE DEF Pr!PrInv
  <2> QED BY <2>1, ProbeStep
<1>3. I => AnswersOwnProbe BY DEF AnswersOwnProbe, Pr!PrInv
<1> QED BY <1>1, <1>2, <1>3, PTL DEF ServicesSpec

----------------------------------------------------------------------------
(* Tftp: v1 tf_op, v2 tf_size, v3 tf_pc, v4 tf_waiting, v5 tf_tries,         *)
(* v6 tf_stray, v7 tf_tid, v8 tf_n, v9 tf_file, v10 tf_up, v11 tf_down,      *)
(* v12 tf_srv.                                                               *)

\* A number is a multiple of the modulus and a remainder.
LEMMA Remainder ==
    ASSUME NEW M \in Nat \ {0}, NEW a \in Nat
    PROVE  \E q \in Nat : a = (M * q) + (a % M) /\ a % M \in Nat
<1>1. a \div M \in Nat /\ a % M \in Nat OBVIOUS
<1>2. a = (M * (a \div M)) + (a % M) OBVIOUS
<1> QED BY <1>1, <1>2

\* A larger multiple is larger by the modulus at least.
LEMMA MultiplesApart ==
    ASSUME NEW M \in Nat \ {0}, NEW q \in Nat, NEW r \in Nat, q < r
    PROVE  M * r >= M * q + M
<1>1. PICK d \in Nat : r = q + 1 + d
  <2>1. r - q - 1 \in Nat OBVIOUS
  <2> QED BY <2>1
<1>2. M * r = M * q + M + M * d BY <1>1
<1>3. M * d \in Nat /\ M * q \in Nat OBVIOUS
<1> QED BY <1>2, <1>3

\* Two numbers less than the modulus apart differ on the wire.
LEMMA WireTells ==
    ASSUME NEW M \in Nat \ {0}, NEW a \in Nat, NEW b \in Nat,
           a % M = b % M, a <= b, b < a + M
    PROVE  a = b
<1>1. PICK q \in Nat : a = (M * q) + (a % M) /\ a % M \in Nat BY Remainder
<1>2. PICK r \in Nat : b = (M * r) + (b % M) /\ b % M \in Nat BY Remainder
<1>3. PICK x \in Nat : x = a % M /\ a = M * q + x /\ b = M * r + x BY <1>1, <1>2
<1>4. CASE q < r BY <1>3, <1>4, MultiplesApart
<1>5. CASE r < q BY <1>3, <1>5, MultiplesApart
<1>6. CASE r = q BY <1>3, <1>6
<1> QED BY <1>4, <1>5, <1>6

\* What Tftp asks of its constants.
LEMMA TftpConstants ==
    /\ TfSizes \subseteq Nat /\ TfModulus \in Nat \ {0} /\ TfLife \in Nat
    /\ TfLife + 2 <= TfModulus
<1>1. Tf!TfAssumption BY ServicesAssumption DEF ServicesAssumption
<1> QED BY <1>1 DEF Tf!TfAssumption

\* A block no newer than the expected one, and no older than the network's
\* memory, is the expected one if it looks so on the wire.
LEMMA OnlyTheExpected ==
    ASSUME NEW n \in Nat, NEW m \in Nat, NEW p \in Nat, Tf!Wire(p) = Tf!Wire(m),
           p <= m, m <= n + 1, n <= p + TfLife
    PROVE  p = m
<1>1. m < p + TfModulus BY TftpConstants
<1> QED BY <1>1, TftpConstants, WireTells DEF Tf!Wire

\* One more block makes a longer beginning of the file.
LEMMA OneMore ==
    ASSUME NEW n \in Nat, NEW blocks, Tf!Counted(blocks, n)
    PROVE  /\ Tf!Counted(Append(blocks, n + 1), n + 1)
           /\ blocks \in Seq(Nat) /\ Append(blocks, n + 1) \in Seq(Nat)
<1>1. blocks = [i \in 1..n |-> i] BY DEF Tf!Counted
<1>2. blocks \in Seq(Nat) /\ Len(blocks) = n BY <1>1
<1>3. DOMAIN Append(blocks, n + 1) = 1..(n + 1) BY <1>2
<1>4. \A i \in 1..(n + 1) : Append(blocks, n + 1)[i] = i BY <1>1, <1>2
<1>5. Append(blocks, n + 1) \in Seq(Nat) BY <1>2
<1>6. Append(blocks, n + 1) = [i \in 1..(n + 1) |-> i] BY <1>3, <1>4, <1>5
<1> QED BY <1>2, <1>5, <1>6 DEF Tf!Counted

\* A step that leaves the file and the sessions alone: packets get lost or are
\* delivered, the client sends to its session again, gives up or is broken off.
LEMMA SameBlocks ==
    ASSUME Tf!TfInv, UNCHANGED <<v1, v2, v7, v8, v9, v12>>, v3' \in {v3, "fail", "warn"},
           \A p \in v10' : p \in v10 \/ Tf!UpSound(p),
           \A p \in v11' : p \in v11 \/ Tf!DownSound(p)
    PROVE  Tf!TfInv'
<1>1. Tf!ClientSound' BY DEF Tf!TfInv, Tf!ClientSound, Tf!Sessions, Tf!LastBlock, Tf!Counted
<1>2. \A t \in Tf!Sessions' : Tf!SessionSound(t)'
  BY DEF Tf!TfInv, Tf!SessionSound, Tf!Sessions, Tf!LastBlock, Tf!Counted
<1>3. \A p \in v10' : Tf!UpSound(p)' BY DEF Tf!TfInv, Tf!UpSound
<1>4. \A p \in v11' : Tf!DownSound(p)' BY DEF Tf!TfInv, Tf!DownSound, Tf!Sessions
<1> QED BY <1>1, <1>2, <1>3, <1>4 DEF Tf!TfInv

\* The numbers of a session and of the client.
LEMMA TftpNumbers ==
    ASSUME Tf!TfInv
    PROVE  /\ v2 \in Nat /\ v8 \in Nat /\ v8 <= Tf!LastBlock /\ Tf!LastBlock \in Nat \ {0}
           /\ v1 \in {"GET", "PUT"} /\ v12 \in Seq([n : Nat, stored : Seq(Nat)])
           /\ DOMAIN v12 = 1..Len(v12) /\ Len(v12) \in Nat /\ v7 \in Nat
           /\ \A t \in Tf!Sessions : v12[t].n \in Nat /\ v12[t].n <= Tf!LastBlock
<1>1. v2 \in Nat BY TftpConstants DEF Tf!TfInv, Tf!ClientSound
<1>2. Tf!LastBlock \in Nat \ {0} BY <1>1 DEF Tf!LastBlock
<1>3. v8 \in 0..Tf!LastBlock /\ v1 \in {"GET", "PUT"} /\ v12 \in Seq([n : Nat, stored : Seq(Nat)])
  BY DEF Tf!TfInv, Tf!ClientSound
<1>4. DOMAIN v12 = 1..Len(v12) /\ Len(v12) \in Nat BY <1>3
<1>5. v7 \in Nat BY <1>4 DEF Tf!TfInv, Tf!ClientSound, Tf!Sessions
<1>6. \A t \in Tf!Sessions : v12[t].n \in 0..Tf!LastBlock BY DEF Tf!TfInv, Tf!SessionSound
<1> QED BY <1>1, <1>2, <1>3, <1>4, <1>5, <1>6

\* A DATA packet of the session that GET follows, or of any session before it
\* has one, carries no block beyond the next.
LEMMA DataNotAhead ==
    ASSUME Tf!TfInv, v1 = "GET", NEW p \in v11, p.op = "DATA", v7 = 0 \/ p.tid = v7
    PROVE  /\ p.tid \in Tf!Sessions /\ p.n \in Nat \ {0} /\ p.n <= v12[p.tid].n
           /\ v12[p.tid].n <= v8 + 1 /\ v8 <= v12[p.tid].n
<1>1. Tf!DownSound(p) BY DEF Tf!TfInv
<1>2. p.tid \in Tf!Sessions /\ p.n \in 0..v12[p.tid].n /\ p.n # 0
  BY <1>1 DEF Tf!DownSound
<1>3. v12[p.tid].n \in Nat /\ v8 \in Nat /\ p.tid # 0
  BY <1>2, TftpNumbers DEF Tf!Sessions
<1>4. Tf!SessionSound(p.tid) BY <1>2 DEF Tf!TfInv
<1>5. v7 = 0 => v8 = 0 BY DEF Tf!TfInv, Tf!ClientSound
<1>6. p.n \in Nat \ {0} /\ p.n <= v12[p.tid].n BY <1>2, <1>3
<1>7. CASE v7 = 0 BY <1>2, <1>3, <1>4, <1>5, <1>6, <1>7 DEF Tf!SessionSound
<1>8. CASE p.tid = v7 BY <1>2, <1>3, <1>4, <1>6, <1>8 DEF Tf!SessionSound
<1> QED BY <1>7, <1>8

\* GET locks onto the session of the packet p and is in phase pc, at block n of
\* its file, with at most the acknowledgment of that block sent.
LEMMA GetMoves ==
    ASSUME Tf!TfInv, v1 = "GET", NEW p \in v11, p.op = "DATA", v7 = 0 \/ p.tid = v7,
           UNCHANGED <<v1, v2, v12>>, v7' = p.tid, v8' \in Nat, v8 <= v8',
           v8' <= v12[p.tid].n, v12[p.tid].n <= v8' + 1, Tf!Counted(v9', v8'),
           v3' \in {"transfer", "fail"} \/ (v3' = "ok" /\ v8' = Tf!LastBlock),
           v11' \subseteq v11,
           \A q \in v10' : q \in v10 \/ (q.op = "ACK" /\ q.n \in 0..v8' /\ q.tid = p.tid)
    PROVE  Tf!TfInv'
<1>1. /\ p.tid \in Tf!Sessions /\ v12[p.tid].n \in Nat /\ v12[p.tid].n <= Tf!LastBlock
      /\ p.tid # 0 /\ v8 \in Nat /\ Tf!LastBlock \in Nat
  <2>1. p.tid \in Tf!Sessions BY DataNotAhead
  <2> QED BY <2>1, TftpNumbers DEF Tf!Sessions
<1>2. v8' \in 0..Tf!LastBlock BY <1>1
<1>3. Tf!Sessions' = Tf!Sessions /\ Tf!LastBlock' = Tf!LastBlock
  BY DEF Tf!Sessions, Tf!LastBlock
<1>4. Tf!ClientSound'
  BY <1>1, <1>2, <1>3 DEF Tf!TfInv, Tf!ClientSound, Tf!Counted
<1>5. ASSUME NEW t \in Tf!Sessions PROVE Tf!SessionSound(t)'
  <2>1. Tf!SessionSound(t) BY DEF Tf!TfInv
  <2>2. t # 0 BY TftpNumbers DEF Tf!Sessions
  <2>3. CASE t = p.tid
    BY <1>3, <2>1, <2>3 DEF Tf!SessionSound
  <2>4. CASE t # p.tid
    <3>1. t # v7 BY <2>2, <2>4
    <3> QED BY <1>3, <2>1, <2>4, <3>1 DEF Tf!SessionSound
  <2> QED BY <2>3, <2>4
<1>6. ASSUME NEW q \in v10' PROVE Tf!UpSound(q)'
  <2>1. CASE q \in v10
    <3>1. Tf!UpSound(q) BY <2>1 DEF Tf!TfInv
    <3>2. q.op # "REQ" => q.op = "ACK" /\ v7 # 0 /\ q.tid = v7 /\ q.n \in 0..v8'
      BY <1>1, <3>1 DEF Tf!UpSound
    <3> QED BY <1>1, <3>2 DEF Tf!UpSound
  <2>2. CASE q.op = "ACK" /\ q.n \in 0..v8' /\ q.tid = p.tid
    BY <1>1, <2>2 DEF Tf!UpSound
  <2> QED BY <2>1, <2>2
<1>7. ASSUME NEW q \in v11' PROVE Tf!DownSound(q)'
  <2>1. Tf!DownSound(q) BY DEF Tf!TfInv
  <2> QED BY <1>3, <2>1 DEF Tf!DownSound
<1>8. v12' \in Seq([n : Nat, stored : Seq(Nat)]) BY DEF Tf!TfInv
<1> QED BY <1>3, <1>4, <1>5, <1>6, <1>7, <1>8 DEF Tf!TfInv

\* One DATA packet (TakeData), of the first reply or of the session followed.
LEMMA TakeDataKeeps ==
    ASSUME Tf!TfInv, v1 = "GET", NEW p \in v11, p.op = "DATA", v7 = 0 \/ p.tid = v7,
           v8 <= p.n + TfLife, UNCHANGED <<v1, v2, v12>>, v7' = p.tid, v11' \subseteq v11,
           Tf!TakeData(p)
    PROVE  Tf!TfInv'
<1>1. /\ p.tid \in Tf!Sessions /\ p.n \in Nat \ {0} /\ p.n <= v12[p.tid].n
      /\ v12[p.tid].n <= v8 + 1 /\ v8 <= v12[p.tid].n
  BY DataNotAhead
<1>2. /\ v8 \in Nat /\ v12[p.tid].n \in Nat /\ v12[p.tid].n <= Tf!LastBlock
      /\ Tf!LastBlock \in Nat
  BY <1>1, TftpNumbers
<1>3. Tf!Counted(v9, v8) BY DEF Tf!TfInv, Tf!ClientSound
<1>4. ASSUME NEW n \in Nat, NEW q \in Tf!With(v10, Tf!Pkt("ACK", n, p.tid))
      PROVE  q \in v10 \/ (q.op = "ACK" /\ q.n = n /\ q.tid = p.tid)
  BY <1>4 DEF Tf!With, Tf!Pkt
<1> HIDE DEF Tf!TfInv
<1>5. CASE /\ Tf!IsNextBlock(p)
           /\ v9' = Append(v9, p.n) /\ v8' = v8 + 1
           /\ v10' = Tf!With(v10, Tf!Pkt("ACK", v8 + 1, p.tid))
           /\ v3' = IF p.n = Tf!LastBlock THEN "ok" ELSE "transfer"
  <2>1. p.n <= v8 + 1 /\ v8 + 1 \in Nat BY <1>1, <1>2
  <2>2. Tf!Wire(p.n) = Tf!Wire(v8 + 1) BY <1>5 DEF Tf!IsNextBlock
  <2>3. p.n = v8 + 1 BY <1>1, <1>2, <2>1, <2>2, OnlyTheExpected
  <2>4. Tf!Counted(v9', v8') BY <1>2, <1>3, <1>5, <2>3, OneMore
  <2>5. v8' \in Nat /\ v8 <= v8' /\ v8' <= v12[p.tid].n /\ v12[p.tid].n <= v8' + 1
    BY <1>1, <1>2, <1>5, <2>3
  <2>6. v3' \in {"transfer", "fail"} \/ (v3' = "ok" /\ v8' = Tf!LastBlock)
    BY <1>5, <2>3
  <2>7. \A q \in v10' : q \in v10 \/ (q.op = "ACK" /\ q.n \in 0..v8' /\ q.tid = p.tid)
    BY <1>4, <1>5, <2>5
  <2> QED BY <2>4, <2>5, <2>6, <2>7, GetMoves
<1>6. CASE Tf!IsNextBlock(p) /\ v3' = "fail" /\ UNCHANGED <<v9, v8, v10>>
  BY <1>1, <1>2, <1>3, <1>6, GetMoves
<1>7. CASE /\ v10' = Tf!With(v10, Tf!Pkt("ACK", v8, p.tid))
           /\ v3' = "transfer" /\ UNCHANGED <<v9, v8>>
  <2>1. \A q \in v10' : q \in v10 \/ (q.op = "ACK" /\ q.n \in 0..v8' /\ q.tid = p.tid)
    BY <1>2, <1>4, <1>7
  <2> QED BY <1>1, <1>2, <1>3, <1>7, <2>1, GetMoves
<1>8. CASE v3' = "transfer" /\ UNCHANGED <<v9, v8, v10>>
  BY <1>1, <1>2, <1>3, <1>8, GetMoves
<1> QED BY <1>5, <1>6, <1>7, <1>8 DEF Tf!TakeData

\* The first ACK of a PUT: the client locks onto its session and sends block 1.
LEMMA PutStarts ==
    ASSUME Tf!TfInv, v1 = "PUT", NEW p \in v11, p.op = "ACK", v7 = 0,
           UNCHANGED <<v1, v2, v9, v12>>, v7' = p.tid, v8' = 1, v3' = "transfer",
           v11' \subseteq v11, v10' = Tf!With(v10, Tf!Pkt("DATA", 1, p.tid))
    PROVE  Tf!TfInv'
<1>1. p.tid \in Tf!Sessions
  <2>1. Tf!DownSound(p) BY DEF Tf!TfInv
  <2> QED BY <2>1 DEF Tf!DownSound
<1>2. p.tid # 0 /\ Tf!LastBlock \in Nat \ {0} BY <1>1, TftpNumbers DEF Tf!Sessions
<1>3. Tf!Sessions' = Tf!Sessions /\ Tf!LastBlock' = Tf!LastBlock
  BY DEF Tf!Sessions, Tf!LastBlock
<1>4. v8' \in 0..Tf!LastBlock BY <1>2
<1>5. Tf!ClientSound'
  BY <1>1, <1>2, <1>3, <1>4 DEF Tf!TfInv, Tf!ClientSound
<1>6. ASSUME NEW t \in Tf!Sessions PROVE Tf!SessionSound(t)'
  <2>1. Tf!SessionSound(t) BY DEF Tf!TfInv
  <2>2. t # v7 BY TftpNumbers DEF Tf!Sessions
  <2>3. v12[t].n = 0 BY <2>1, <2>2 DEF Tf!SessionSound
  <2> QED BY <1>3, <2>1, <2>2, <2>3 DEF Tf!SessionSound, Tf!Counted
<1>7. ASSUME NEW q \in v10' PROVE Tf!UpSound(q)'
  <2>1. CASE q \in v10
    <3>1. Tf!UpSound(q) BY <2>1 DEF Tf!TfInv
    <3> QED BY <3>1 DEF Tf!UpSound
  <2>2. CASE q = Tf!Pkt("DATA", 1, p.tid)
    BY <1>2, <2>2 DEF Tf!UpSound, Tf!Pkt
  <2> QED BY <2>1, <2>2 DEF Tf!With
<1>8. ASSUME NEW q \in v11' PROVE Tf!DownSound(q)'
  <2>1. Tf!DownSound(q) BY DEF Tf!TfInv
  <2> QED BY <1>3, <2>1 DEF Tf!DownSound
<1>9. v12' \in Seq([n : Nat, stored : Seq(Nat)]) BY DEF Tf!TfInv
<1> QED BY <1>3, <1>5, <1>6, <1>7, <1>8, <1>9 DEF Tf!TfInv

\* An ACK that looks like the one PUT waits for is: the server has stored the
\* client's block.
LEMMA AckIsOurs ==
    ASSUME Tf!TfInv, v1 = "PUT", NEW p \in v11, p.tid = v7, v3 = "transfer",
           v8 <= p.n + TfLife, Tf!IsOurAck(p)
    PROVE  v7 \in Tf!Sessions /\ v7 # 0 /\ v12[v7].n = v8
<1>1. Tf!DownSound(p) BY DEF Tf!TfInv
<1>2. p.tid \in Tf!Sessions /\ p.n \in 0..v12[p.tid].n /\ Tf!Wire(p.n) = Tf!Wire(v8)
  BY <1>1 DEF Tf!DownSound, Tf!IsOurAck
<1>3. v8 \in Nat /\ v12[v7].n \in Nat /\ v7 # 0 BY <1>2, TftpNumbers DEF Tf!Sessions
<1>4. Tf!SessionSound(v7) BY <1>2 DEF Tf!TfInv
<1>5. v12[v7].n <= v8 BY <1>4 DEF Tf!SessionSound
<1>6. p.n \in Nat /\ p.n <= v12[v7].n BY <1>2, <1>3
<1>7. p.n <= v8 /\ v8 <= v8 + 1 BY <1>3, <1>5, <1>6
<1>8. p.n = v8 BY <1>2, <1>3, <1>6, <1>7, OnlyTheExpected
<1> QED BY <1>2, <1>3, <1>5, <1>6, <1>8

\* Our ACK: the next block is sent, or the command reports the file sent.
LEMMA PutMoves ==
    ASSUME Tf!TfInv, v1 = "PUT", NEW p \in v11, p.tid = v7, v3 = "transfer",
           v8 <= p.n + TfLife, Tf!IsOurAck(p), UNCHANGED <<v1, v2, v7, v9, v12>>,
           v11' \subseteq v11,
           \/ v8 = Tf!LastBlock /\ v3' = "ok" /\ UNCHANGED <<v8, v10>>
           \/ /\ v8 # Tf!LastBlock /\ v8' = v8 + 1 /\ UNCHANGED v3
              /\ v10' = Tf!With(v10, Tf!Pkt("DATA", v8 + 1, v7))
    PROVE  Tf!TfInv'
<1>1. v7 \in Tf!Sessions /\ v7 # 0 /\ v12[v7].n = v8 BY AckIsOurs
<1>2. v8 \in Nat /\ v8 <= Tf!LastBlock /\ Tf!LastBlock \in Nat BY TftpNumbers
<1>3. Tf!Sessions' = Tf!Sessions /\ Tf!LastBlock' = Tf!LastBlock
  BY DEF Tf!Sessions, Tf!LastBlock
<1>4. v8' \in 0..Tf!LastBlock /\ v8 <= v8' /\ v8' <= v8 + 1 /\ v8' \in Nat BY <1>2
<1>5. v8' # 0
  <2>1. v8 # 0 BY <1>1 DEF Tf!TfInv, Tf!ClientSound
  <2> QED BY <1>2, <1>4, <2>1
<1>6. Tf!ClientSound'
  BY <1>1, <1>3, <1>4, <1>5 DEF Tf!TfInv, Tf!ClientSound
<1>7. ASSUME NEW t \in Tf!Sessions PROVE Tf!SessionSound(t)'
  <2>1. Tf!SessionSound(t) BY DEF Tf!TfInv
  <2>2. CASE t = v7
    <3>1. v12[t].n <= v8' /\ v8' <= v12[t].n + 1 BY <1>1, <1>4, <2>2
    <3> QED BY <1>3, <2>1, <2>2, <3>1 DEF Tf!SessionSound, Tf!Counted
  <2>3. CASE t # v7 BY <1>3, <2>1, <2>3 DEF Tf!SessionSound, Tf!Counted
  <2> QED BY <2>2, <2>3
<1>8. ASSUME NEW q \in v10' PROVE Tf!UpSound(q)'
  <2>1. CASE q \in v10
    <3>1. Tf!UpSound(q) BY <2>1 DEF Tf!TfInv
    <3>2. q.op # "REQ" => q.op = "DATA" /\ v7 # 0 /\ q.tid = v7 /\ q.n \in 0..v8'
      BY <1>2, <1>4, <3>1 DEF Tf!UpSound
    <3> QED BY <3>2 DEF Tf!UpSound
  <2>2. CASE q = Tf!Pkt("DATA", v8 + 1, v7) /\ v8' = v8 + 1
    BY <1>1, <1>2, <1>4, <2>2 DEF Tf!UpSound, Tf!Pkt
  <2> QED BY <2>1, <2>2 DEF Tf!With
<1>9. ASSUME NEW q \in v11' PROVE Tf!DownSound(q)'
  <2>1. Tf!DownSound(q) BY DEF Tf!TfInv
  <2> QED BY <1>3, <2>1 DEF Tf!DownSound
<1>10. v12' \in Seq([n : Nat, stored : Seq(Nat)]) BY DEF Tf!TfInv
<1> QED BY <1>3, <1>6, <1>7, <1>8, <1>9, <1>10 DEF Tf!TfInv

\* Changing one element leaves a sequence of the same kind.
LEMMA SeqExcept ==
    ASSUME NEW S, NEW q \in Seq(S), NEW i, NEW x \in S
    PROVE  [q EXCEPT ![i] = x] \in Seq(S)
<1>1. q \in [1..Len(q) -> S] /\ Len(q) \in Nat OBVIOUS
<1>2. [q EXCEPT ![i] = x] \in [1..Len(q) -> S] BY <1>1
<1> QED BY <1>1, <1>2

\* The session followed has a number and a block.
LEMMA FollowedNumbers ==
    ASSUME Tf!TfInv, v7 \in Tf!Sessions
    PROVE  /\ v12 \in Seq([n : Nat, stored : Seq(Nat)]) /\ v12[v7].n \in Nat /\ v7 # 0
           /\ v1 \in {"GET", "PUT"} /\ Tf!LastBlock \in Nat /\ v8 \in Nat
BY TftpNumbers DEF Tf!Sessions

\* The session followed takes its next step, to block n with the blocks stored,
\* and replies with that block.
LEMMA SessionMoves ==
    ASSUME Tf!TfInv, v7 \in Tf!Sessions, NEW n \in Nat, NEW stored \in Seq(Nat),
           n = v12[v7].n + 1, n <= Tf!LastBlock,
           v1 = "GET" => stored = <<>> /\ v8 <= n /\ n <= v8 + 1,
           v1 = "PUT" => Tf!Counted(stored, n) /\ n <= v8 /\ v8 <= n + 1,
           UNCHANGED <<v1, v2, v3, v7, v8, v9>>, Tf!Session(v7, n, stored),
           v10' \subseteq v10,
           v11' = Tf!With(v11, Tf!Pkt(IF v1 = "GET" THEN "DATA" ELSE "ACK", n, v7))
    PROVE  Tf!TfInv'
<1>1. /\ v12 \in Seq([n : Nat, stored : Seq(Nat)]) /\ v12[v7].n \in Nat /\ v7 # 0
      /\ v1 \in {"GET", "PUT"} /\ Tf!LastBlock \in Nat /\ v8 \in Nat
  BY FollowedNumbers
<1>2. n # 0 /\ n \in 0..Tf!LastBlock
  <2>1. \A a, b, c \in Nat : b = a + 1 /\ b <= c => b # 0 /\ b \in 0..c OBVIOUS
  <2> QED BY <1>1, <2>1, Zenon
<1>3. PICK s \in [n : Nat, stored : Seq(Nat)] : s.n = n /\ s.stored = stored /\ v12' = [v12 EXCEPT ![v7] = s]
  <2>1. [n |-> n, stored |-> stored] \in [n : Nat, stored : Seq(Nat)] OBVIOUS
  <2> QED BY <2>1 DEF Tf!Session
<1>4. v12' \in Seq([n : Nat, stored : Seq(Nat)]) BY <1>1, <1>3, SeqExcept
<1>5. Tf!Sessions' = Tf!Sessions /\ Tf!LastBlock' = Tf!LastBlock
  BY <1>1, <1>3 DEF Tf!Sessions, Tf!LastBlock
<1>6. v12'[v7].n = n /\ v12'[v7].stored = stored
  BY <1>1, <1>3 DEF Tf!Sessions
<1>7. \A t \in Tf!Sessions : t # v7 => v12'[t] = v12[t] BY <1>1, <1>3 DEF Tf!Sessions
<1>8. Tf!ClientSound'
  <2>1. v1 = "PUT" => v3 # "ok"
    <3>1. v1 = "PUT" /\ v3 = "ok" => v12[v7].n = Tf!LastBlock
      BY DEF Tf!TfInv, Tf!ClientSound
    <3> QED BY <1>1, <3>1
  <2> QED BY <1>5, <2>1 DEF Tf!TfInv, Tf!ClientSound, Tf!Counted
<1>9. ASSUME NEW t \in Tf!Sessions PROVE Tf!SessionSound(t)'
  <2>1. CASE t = v7
    BY <1>1, <1>2, <1>5, <1>6, <2>1 DEF Tf!SessionSound, Tf!Counted
  <2>2. CASE t # v7
    <3>1. Tf!SessionSound(t) BY DEF Tf!TfInv
    <3>2. v12'[t] = v12[t] BY <1>7, <2>2
    <3> QED BY <1>5, <2>2, <3>1, <3>2 DEF Tf!SessionSound, Tf!Counted
  <2> QED BY <2>1, <2>2
<1>10. ASSUME NEW q \in v10' PROVE Tf!UpSound(q)'
  <2>1. Tf!UpSound(q) BY DEF Tf!TfInv
  <2> QED BY <2>1 DEF Tf!UpSound
<1>11. ASSUME NEW q \in v11' PROVE Tf!DownSound(q)'
  <2>1. CASE q \in v11 /\ q.op # "ERROR"
    <3>1. Tf!DownSound(q) BY <2>1 DEF Tf!TfInv
    <3>2. q.tid \in Tf!Sessions /\ q.n \in 0..v12[q.tid].n BY <2>1, <3>1 DEF Tf!DownSound
    <3>3. CASE q.tid = v7
      <4>1. q.n \in 0..v12[v7].n BY <3>2, <3>3
      <4>2. q.n \in 0..n BY <1>1, <4>1
      <4>3. q.n \in 0..v12'[q.tid].n BY <1>6, <3>3, <4>2
      <4> QED BY <1>5, <2>1, <3>1, <3>2, <4>3 DEF Tf!DownSound
    <3>4. CASE q.tid # v7
      <4>1. v12'[q.tid] = v12[q.tid] BY <1>7, <3>2, <3>4
      <4> QED BY <1>5, <3>1, <4>1 DEF Tf!DownSound
    <3> QED BY <3>3, <3>4
  <2>2. CASE q.op = "ERROR" BY <2>2 DEF Tf!DownSound
  <2>3. CASE q = Tf!Pkt(IF v1 = "GET" THEN "DATA" ELSE "ACK", n, v7)
    <3>1. q.tid = v7 /\ q.n = n /\ q.op = (IF v1 = "GET" THEN "DATA" ELSE "ACK")
      BY <2>3 DEF Tf!Pkt
    <3>2. q.n \in 0..v12'[q.tid].n BY <1>6, <3>1
    <3> QED BY <1>2, <1>5, <3>1, <3>2 DEF Tf!DownSound
  <2> QED BY <2>1, <2>2, <2>3 DEF Tf!With
<1> QED BY <1>4, <1>5, <1>8, <1>9, <1>10, <1>11 DEF Tf!TfInv

\* A request the server accepts opens a session of its own, at its beginning.
LEMMA SessionOpens ==
    ASSUME Tf!TfInv, UNCHANGED <<v1, v2, v3, v7, v8, v9>>,
           v12' = Append(v12, [n |-> IF v1 = "GET" THEN 1 ELSE 0, stored |-> <<>>]),
           v10' \subseteq v10,
           v11' = Tf!With(v11, IF v1 = "GET" THEN Tf!Pkt("DATA", 1, Len(v12) + 1)
                                             ELSE Tf!Pkt("ACK", 0, Len(v12) + 1))
    PROVE  Tf!TfInv'
<1> DEFINE s == [n |-> IF v1 = "GET" THEN 1 ELSE 0, stored |-> <<>>]
           new == Len(v12) + 1
<1>1. /\ v12 \in Seq([n : Nat, stored : Seq(Nat)]) /\ DOMAIN v12 = 1..Len(v12)
      /\ Len(v12) \in Nat /\ v1 \in {"GET", "PUT"} /\ Tf!LastBlock \in Nat \ {0}
  BY TftpNumbers
<1>2. \A S : <<>> \in Seq(S) OBVIOUS
<1>3. s \in [n : Nat, stored : Seq(Nat)] BY <1>1, <1>2
<1>4. /\ v12' \in Seq([n : Nat, stored : Seq(Nat)]) /\ Tf!Sessions' = Tf!Sessions \cup {new}
      /\ v12'[new] = s /\ \A t \in Tf!Sessions : v12'[t] = v12[t]
  BY <1>1, <1>3 DEF Tf!Sessions
<1>5. new \notin Tf!Sessions /\ new # 0 BY <1>1 DEF Tf!Sessions
<1>6. Tf!LastBlock' = Tf!LastBlock BY DEF Tf!LastBlock
<1>7. v7 # new /\ (v7 # 0 => v7 \in Tf!Sessions)
  BY <1>5 DEF Tf!TfInv, Tf!ClientSound
<1>8. Tf!ClientSound' BY <1>4, <1>6, <1>7 DEF Tf!TfInv, Tf!ClientSound, Tf!Counted
<1>9. ASSUME NEW t \in Tf!Sessions' PROVE Tf!SessionSound(t)'
  <2>1. CASE t = new
    <3>1. Tf!Counted(<<>>, 0) BY <1>2 DEF Tf!Counted
    <3>2. v12'[t].n = (IF v1 = "GET" THEN 1 ELSE 0) /\ v12'[t].stored = <<>>
      BY <1>4, <2>1
    <3>3. 0 \in 0..Tf!LastBlock /\ 1 \in 0..Tf!LastBlock BY <1>1
    <3>4. v12'[t].n \in 0..Tf!LastBlock BY <3>2, <3>3
    <3> QED BY <1>1, <1>6, <1>7, <2>1, <3>1, <3>2, <3>4 DEF Tf!SessionSound, Tf!Counted
  <2>2. CASE t \in Tf!Sessions
    <3>1. Tf!SessionSound(t) BY <2>2 DEF Tf!TfInv
    <3>2. v12'[t] = v12[t] BY <1>4, <2>2
    <3> QED BY <1>6, <3>1, <3>2 DEF Tf!SessionSound, Tf!Counted
  <2> QED BY <1>4, <2>1, <2>2
<1>10. ASSUME NEW q \in v10' PROVE Tf!UpSound(q)'
  <2>1. Tf!UpSound(q) BY DEF Tf!TfInv
  <2> QED BY <2>1 DEF Tf!UpSound
<1>11. ASSUME NEW q \in v11' PROVE Tf!DownSound(q)'
  <2>1. CASE q \in v11
    <3>1. Tf!DownSound(q) BY <2>1 DEF Tf!TfInv
    <3> QED BY <1>4, <3>1 DEF Tf!DownSound
  <2>2. CASE q = (IF v1 = "GET" THEN Tf!Pkt("DATA", 1, new) ELSE Tf!Pkt("ACK", 0, new))
    <3>1. v12'[new].n = (IF v1 = "GET" THEN 1 ELSE 0) BY <1>4
    <3> QED BY <1>1, <1>4, <2>2, <3>1 DEF Tf!DownSound, Tf!Pkt
  <2> QED BY <2>1, <2>2 DEF Tf!With
<1> QED BY <1>4, <1>8, <1>9, <1>10, <1>11 DEF Tf!TfInv

\* An ACK that looks like the one of the block a GET's session has sent is.
LEMMA GetAckMoves ==
    ASSUME Tf!TfInv, v1 = "GET", NEW p \in v10, p.op = "ACK", v8 <= p.n + TfLife,
           Tf!Wire(p.n) = Tf!Wire(v12[v7].n), v12[v7].n < Tf!LastBlock, v7 \in Tf!Sessions,
           UNCHANGED <<v1, v2, v3, v7, v8, v9>>, v10' \subseteq v10,
           Tf!Session(v7, v12[v7].n + 1, <<>>),
           Tf!Reply(Tf!Pkt("DATA", v12[v7].n + 1, v7))
    PROVE  Tf!TfInv'
<1>1. /\ v12[v7].n \in Nat /\ Tf!LastBlock \in Nat /\ v8 \in Nat BY FollowedNumbers
<1>2. p.n \in 0..v8
  <2>1. Tf!UpSound(p) BY DEF Tf!TfInv
  <2> QED BY <2>1 DEF Tf!UpSound
<1>3. v8 <= v12[v7].n /\ v12[v7].n <= v8 + 1
  <2>1. Tf!SessionSound(v7) BY DEF Tf!TfInv
  <2> QED BY <2>1 DEF Tf!SessionSound
<1>4. PICK m \in Nat : m = v12[v7].n BY <1>1
<1>5. p.n \in Nat /\ p.n <= m /\ m <= v8 + 1 BY <1>1, <1>2, <1>3, <1>4
<1>6. p.n = m BY <1>1, <1>4, <1>5, OnlyTheExpected
<1>7. m = v8 BY <1>1, <1>2, <1>3, <1>4, <1>6
<1>8. m + 1 \in Nat /\ m + 1 <= Tf!LastBlock /\ v8 <= m + 1 /\ m + 1 <= v8 + 1
  BY <1>1, <1>4, <1>7
<1>9. <<>> \in Seq(Nat) OBVIOUS
<1> HIDE DEF Tf!TfInv
<1> QED BY <1>4, <1>8, <1>9, SessionMoves DEF Tf!Reply

\* A DATA packet that looks like the next block of a PUT's session is, and the
\* session stores it.
LEMMA PutDataMoves ==
    ASSUME Tf!TfInv, NEW p \in v10, p.op = "DATA", v8 <= p.n + TfLife,
           p.tid \in Tf!Sessions, Tf!Wire(p.n) = Tf!Wire(v12[p.tid].n + 1),
           UNCHANGED <<v1, v2, v3, v7, v8, v9>>, v10' \subseteq v10,
           Tf!Session(p.tid, v12[p.tid].n + 1, Append(v12[p.tid].stored, p.n)),
           Tf!Reply(Tf!Pkt("ACK", v12[p.tid].n + 1, p.tid))
    PROVE  Tf!TfInv'
<1>1. p.tid = v7 /\ p.n \in 0..v8 /\ v1 = "PUT"
  <2>1. Tf!UpSound(p) /\ v1 \in {"GET", "PUT"} BY DEF Tf!TfInv, Tf!ClientSound
  <2> QED BY <2>1 DEF Tf!UpSound
<1>2. v7 \in Tf!Sessions BY <1>1
<1>3. /\ v12[v7].n \in Nat /\ Tf!LastBlock \in Nat /\ v8 \in Nat BY <1>2, FollowedNumbers
<1>4. v12[v7].n <= v8 /\ v8 <= v12[v7].n + 1 /\ Tf!Counted(v12[v7].stored, v12[v7].n)
  <2>1. Tf!SessionSound(v7) BY <1>2 DEF Tf!TfInv
  <2> QED BY <1>1, <2>1 DEF Tf!SessionSound
<1>5. PICK m \in Nat : m = v12[v7].n BY <1>3
<1>6. /\ p.n \in Nat /\ p.n <= m + 1 /\ m + 1 <= v8 + 1 /\ m + 1 \in Nat
  BY <1>1, <1>3, <1>4, <1>5
<1>7. p.n = m + 1 BY <1>1, <1>3, <1>5, <1>6, OnlyTheExpected
<1>8. v8 <= Tf!LastBlock BY TftpNumbers
<1>9. m + 1 <= Tf!LastBlock /\ m + 1 <= v8 /\ v8 <= m + 1 + 1
  BY <1>1, <1>3, <1>4, <1>5, <1>7, <1>8
<1>10. PICK stored : stored = v12[v7].stored OBVIOUS
<1>11. /\ Tf!Counted(Append(stored, m + 1), m + 1)
       /\ Append(stored, m + 1) \in Seq(Nat)
  BY <1>4, <1>5, <1>10, OneMore
<1>12. Tf!Session(v7, m + 1, Append(stored, m + 1)) BY <1>1, <1>5, <1>7, <1>10
<1>13. v11' = Tf!With(v11, Tf!Pkt(IF v1 = "GET" THEN "DATA" ELSE "ACK", m + 1, v7))
  BY <1>1, <1>5 DEF Tf!Reply
<1> HIDE DEF Tf!TfInv
<1> QED BY <1>1, <1>2, <1>5, <1>6, <1>9, <1>11, <1>12, <1>13, SessionMoves

\* Whatever the server receives (ServerTakes).
LEMMA ServerKeeps ==
    ASSUME Tf!TfInv, NEW p \in v10, p.op \in {"DATA", "ACK"} => v8 <= p.n + TfLife,
           UNCHANGED <<v1, v2, v3, v7, v8, v9>>, v10' \subseteq v10, Tf!ServerTakes(p)
    PROVE  Tf!TfInv'
<1>1. ASSUME NEW q, Tf!Reply(q), Tf!DownSound(q), UNCHANGED v12 PROVE Tf!TfInv'
  <2>1. \A x \in v11' : x \in v11 \/ Tf!DownSound(x) BY <1>1 DEF Tf!Reply, Tf!With
  <2> HIDE DEF Tf!TfInv
  <2> QED BY <1>1, <2>1, SameBlocks
<1>2. Tf!UpSound(p) BY DEF Tf!TfInv
<1>3. CASE /\ p.op = "REQ"
           /\ v12' = Append(v12, [n |-> IF v1 = "GET" THEN 1 ELSE 0, stored |-> <<>>])
           /\ Tf!Reply(IF v1 = "GET" THEN Tf!Pkt("DATA", 1, Len(v12) + 1)
                                     ELSE Tf!Pkt("ACK", 0, Len(v12) + 1))
  BY <1>3, SessionOpens DEF Tf!Reply
<1>4. CASE Tf!Reply(Tf!Pkt("ERROR", 0, Len(v12) + 1)) /\ UNCHANGED v12
  <2>1. Tf!DownSound(Tf!Pkt("ERROR", 0, Len(v12) + 1)) BY DEF Tf!DownSound, Tf!Pkt
  <2> QED BY <1>1, <1>4, <2>1
<1>5. CASE /\ p.op = "ACK" /\ p.tid \in Tf!Sessions /\ v1 = "GET"
           /\ Tf!Wire(p.n) = Tf!Wire(v12[p.tid].n) /\ v12[p.tid].n < Tf!LastBlock
           /\ Tf!Session(p.tid, v12[p.tid].n + 1, <<>>)
           /\ Tf!Reply(Tf!Pkt("DATA", v12[p.tid].n + 1, p.tid))
  <2>1. p.tid = v7 BY <1>2, <1>5 DEF Tf!UpSound
  <2> HIDE DEF Tf!TfInv
  <2> QED BY <1>5, <2>1, GetAckMoves
<1>6. CASE /\ p.op = "DATA" /\ p.tid \in Tf!Sessions
           /\ Tf!Wire(p.n) = Tf!Wire(v12[p.tid].n + 1)
           /\ Tf!Session(p.tid, v12[p.tid].n + 1, Append(v12[p.tid].stored, p.n))
           /\ Tf!Reply(Tf!Pkt("ACK", v12[p.tid].n + 1, p.tid))
  BY <1>6, PutDataMoves
<1>7. CASE /\ p.op = "DATA" /\ p.tid \in Tf!Sessions /\ UNCHANGED v12
           /\ Tf!Reply(Tf!Pkt("ACK", v12[p.tid].n, p.tid))
  <2>1. v1 = "PUT"
    <3>1. v1 \in {"GET", "PUT"} BY TftpNumbers
    <3> QED BY <1>2, <1>7, <3>1 DEF Tf!UpSound
  <2>2. v12[p.tid].n \in Nat BY <1>7, TftpNumbers
  <2>3. Tf!DownSound(Tf!Pkt("ACK", v12[p.tid].n, p.tid))
    BY <1>7, <2>1, <2>2 DEF Tf!DownSound, Tf!Pkt
  <2> QED BY <1>1, <1>7, <2>3
<1> QED BY <1>3, <1>4, <1>5, <1>6, <1>7 DEF Tf!ServerTakes

\* A round without an answer (IdleRound), and a PUT's timeout: the client's own
\* block is acknowledged or sent again, or the command gives up.
LEMMA AgainSound ==
    ASSUME Tf!TfInv, v3 = "transfer"
    PROVE  /\ v1 = "GET" => Tf!UpSound(Tf!Pkt("ACK", v8, v7))
           /\ v1 = "PUT" => Tf!UpSound(Tf!Pkt("DATA", v8, v7))
<1>1. v7 # 0 /\ v8 \in Nat BY TftpNumbers DEF Tf!TfInv, Tf!ClientSound
<1>2. v8 \in 0..v8 BY <1>1
<1> QED BY <1>1, <1>2 DEF Tf!UpSound, Tf!Pkt

\* IdleRound keeps the invariant, whether a timeout or a foreign packet ends it.
LEMMA IdleKeeps ==
    ASSUME Tf!TfInv, v1 = "GET", v3 = "transfer", Tf!IdleRound, UNCHANGED <<v1, v2, v12>>,
           v11' \subseteq v11
    PROVE  Tf!TfInv'
<1>1. Tf!UpSound(Tf!Pkt("ACK", v8, v7)) BY AgainSound
<1>2. \A q \in v10' : q \in v10 \/ Tf!UpSound(q) BY <1>1 DEF Tf!IdleRound, Tf!With
<1>3. v3' \in {v3, "fail", "warn"} /\ UNCHANGED <<v7, v8, v9>> BY DEF Tf!IdleRound
<1> HIDE DEF Tf!TfInv
<1> QED BY <1>2, <1>3, SameBlocks

\* A reply, of a packet the network still remembers (tftp_wait_packet).
LEMMA ClientKeeps ==
    ASSUME Tf!TfInv, NEW p \in v11, p.op \in {"DATA", "ACK"} => v8 <= p.n + TfLife,
           v11' \subseteq v11, UNCHANGED <<v1, v2, v12>>,
           Tf!FirstReply(p) \/ Tf!GetReply(p) \/ Tf!PutReply(p)
    PROVE  Tf!TfInv'
<1>1. ASSUME UNCHANGED <<v7, v8, v9, v10>>, v3' \in {v3, "fail", "warn"} PROVE Tf!TfInv'
  BY <1>1, SameBlocks
<1>2. v3 = "request" => v7 = 0 BY DEF Tf!TfInv, Tf!ClientSound
<1> HIDE DEF Tf!TfInv
<1>3. CASE v3 = "request" /\ v1 = "GET" /\ p.op = "DATA" /\ v7' = p.tid /\ Tf!TakeData(p)
  BY <1>2, <1>3, TakeDataKeeps
<1>4. CASE /\ v3 = "request" /\ v1 = "PUT" /\ p.op = "ACK" /\ v7' = p.tid
           /\ v3' = "transfer" /\ v8' = 1 /\ Tf!PutBlock(1, p.tid) /\ UNCHANGED v9
  BY <1>2, <1>4, PutStarts DEF Tf!PutBlock
<1>5. CASE v3' = "fail" /\ UNCHANGED <<v7, v8, v9, v10>> BY <1>1, <1>5
<1>6. CASE v3 = "transfer" /\ v1 = "GET" /\ Tf!IdleRound BY <1>6, IdleKeeps
<1>7. CASE v1 = "GET" /\ p.tid = v7 /\ p.op = "DATA" /\ Tf!TakeData(p) /\ UNCHANGED v7
  BY <1>7, TakeDataKeeps
<1>8. CASE /\ v3 = "transfer" /\ v1 = "PUT" /\ p.tid = v7 /\ Tf!IsOurAck(p)
           /\ IF v8 = Tf!LastBlock
              THEN v3' = "ok" /\ UNCHANGED <<v8, v10>>
              ELSE v8' = v8 + 1 /\ Tf!PutBlock(v8 + 1, v7) /\ UNCHANGED v3
           /\ UNCHANGED <<v7, v9>>
  <2>1. v8 <= p.n + TfLife BY <1>8 DEF Tf!IsOurAck
  <2>2. \/ v8 = Tf!LastBlock /\ v3' = "ok" /\ UNCHANGED <<v8, v10>>
        \/ /\ v8 # Tf!LastBlock /\ v8' = v8 + 1 /\ UNCHANGED v3
           /\ v10' = Tf!With(v10, Tf!Pkt("DATA", v8 + 1, v7))
    BY <1>8 DEF Tf!PutBlock
  <2> QED BY <1>8, <2>1, <2>2, PutMoves
<1>9. CASE /\ v3 = "transfer" /\ v3' = (IF v6 + 1 > STRAY_MAX THEN "fail" ELSE "transfer")
           /\ UNCHANGED <<v7, v8, v9, v10>>
  <2>1. v3' \in {v3, "fail", "warn"} BY <1>9
  <2> QED BY <1>1, <1>9, <2>1
<1>10. CASE Tf!FirstReply(p) BY <1>3, <1>4, <1>5, <1>10 DEF Tf!FirstReply
<1>11. CASE Tf!GetReply(p) BY <1>5, <1>6, <1>7, <1>11 DEF Tf!GetReply
<1>12. CASE Tf!PutReply(p)
  <2>1. v3 = "transfer" /\ v1 = "PUT" /\ UNCHANGED <<v7, v9>> BY <1>12 DEF Tf!PutReply
  <2> QED BY <1>5, <1>8, <1>9, <1>12, <2>1 DEF Tf!PutReply
<1> QED BY <1>10, <1>11, <1>12

\* A packet the network still remembers, while none has expired.
LEMMA Remembered ==
    ASSUME Tf!TfInv, NEW p \in v10 \cup v11, ~Tf!Expired(p), p.op \in {"DATA", "ACK"}
    PROVE  v8 <= p.n + TfLife
<1>1. v8 \in Nat /\ TfLife \in Nat BY TftpNumbers, TftpConstants
<1>2. p.n \in Nat
  <2>1. CASE p \in v10
    <3>1. Tf!UpSound(p) BY <2>1 DEF Tf!TfInv
    <3>2. p.n \in 0..v8 BY <3>1 DEF Tf!UpSound
    <3> QED BY <1>1, <3>2
  <2>2. CASE p \in v11
    <3>1. Tf!DownSound(p) BY <2>2 DEF Tf!TfInv
    <3>2. p.tid \in Tf!Sessions /\ p.n \in 0..v12[p.tid].n BY <3>1 DEF Tf!DownSound
    <3>3. v12[p.tid].n \in Nat BY <3>2, TftpNumbers
    <3> QED BY <3>2, <3>3
  <2> QED BY <2>1, <2>2
<1>3. ~(p.n + TfLife < v8) BY DEF Tf!Expired
<1> QED BY <1>1, <1>2, <1>3

\* Nothing has been sent.
LEMMA TftpInit == ASSUME Tf!TfInit PROVE Tf!TfInv
<1>1. \A S : <<>> \in Seq(S) /\ DOMAIN <<>> = {} OBVIOUS
<1>2. v12 \in Seq([n : Nat, stored : Seq(Nat)]) /\ Tf!Sessions = {} /\ v10 = {} /\ v11 = {}
  BY <1>1 DEF Tf!TfInit, Tf!Sessions
<1>3. v2 \in Nat BY TftpConstants DEF Tf!TfInit
<1>4. Tf!LastBlock \in Nat BY <1>3 DEF Tf!LastBlock
<1>5. v8 \in 0..Tf!LastBlock BY <1>4 DEF Tf!TfInit
<1>6. Tf!Counted(v9, v8)
  <2>1. 1..0 = {} OBVIOUS
  <2> QED BY <1>1, <2>1 DEF Tf!Counted, Tf!TfInit
<1>7. Tf!ClientSound BY <1>2, <1>5, <1>6 DEF Tf!ClientSound, Tf!TfInit
<1> QED BY <1>2, <1>7 DEF Tf!TfInv

\* Every step keeps the invariant.
LEMMA TftpStep == ASSUME Tf!TfInv, [Tf!TfNext]_Tf!tfvars PROVE Tf!TfInv'
<1>1. CASE UNCHANGED Tf!tfvars BY <1>1, SameBlocks DEF Tf!tfvars
<1>2. CASE /\ v10' = {p \in v10 : ~Tf!Expired(p)} /\ v11' = {p \in v11 : ~Tf!Expired(p)}
           /\ UNCHANGED v12 /\ Tf!client_UNCHANGED
  BY <1>2, SameBlocks DEF Tf!client_UNCHANGED
<1>3. ASSUME ~\E p \in v10 \cup v11 : Tf!Expired(p), NEW q \in v10 \cup v11
      PROVE  q.op \in {"DATA", "ACK"} => v8 <= q.n + TfLife
  BY <1>3, Remembered
<1>4. CASE Tf!tftp_request
  <2>1. Tf!UpSound(Tf!Pkt("REQ", 0, 0)) BY DEF Tf!UpSound, Tf!Pkt
  <2>2. \A q \in v10' : q \in v10 \/ Tf!UpSound(q)
    BY <1>4, <2>1 DEF Tf!tftp_request, Tf!With
  <2>3. v3' \in {v3, "fail", "warn"} /\ UNCHANGED <<v1, v2, v7, v8, v9, v11, v12>>
    BY <1>4 DEF Tf!tftp_request, Tf!tf_sent
  <2> HIDE DEF Tf!TfInv
  <2> QED BY <2>2, <2>3, SameBlocks
<1>5. CASE Tf!tftp_wait_packet /\ ~\E p \in v10 \cup v11 : Tf!Expired(p)
  <2>1. PICK p \in v11 : /\ v11' \in Tf!Taken(v11, p)
                         /\ Tf!FirstReply(p) \/ Tf!GetReply(p) \/ Tf!PutReply(p)
    BY <1>5 DEF Tf!tftp_wait_packet
  <2>2. v11' \subseteq v11 BY <2>1 DEF Tf!Taken
  <2>3. UNCHANGED <<v1, v2, v12>> BY <1>5 DEF Tf!tftp_wait_packet, Tf!tfserver
  <2>4. p.op \in {"DATA", "ACK"} => v8 <= p.n + TfLife BY <1>3, <1>5
  <2> HIDE DEF Tf!TfInv
  <2> QED BY <2>1, <2>2, <2>3, <2>4, ClientKeeps
<1>6. CASE Tf!tftp_timeout
  <2>1. UNCHANGED <<v1, v2, v11, v12>> BY <1>6 DEF Tf!tftp_timeout, Tf!tf_sent
  <2>2. CASE v3 = "transfer" /\ v1 = "GET" /\ Tf!IdleRound BY <2>1, <2>2, IdleKeeps
  <2>3. CASE UNCHANGED <<v3, v7, v8, v9, v10>> BY <2>1, <2>3, SameBlocks
  <2>4. CASE /\ v3 = "transfer" /\ v1 = "PUT"
             /\ \/ v3' = "fail" /\ UNCHANGED v10
                \/ Tf!PutBlock(v8, v7) /\ UNCHANGED v3
             /\ UNCHANGED <<v7, v8, v9>>
    <3>1. Tf!UpSound(Tf!Pkt("DATA", v8, v7)) BY <2>4, AgainSound
    <3>2. \A q \in v10' : q \in v10 \/ Tf!UpSound(q) BY <2>4, <3>1 DEF Tf!PutBlock, Tf!With
    <3> HIDE DEF Tf!TfInv
    <3> QED BY <2>1, <2>4, <3>2, SameBlocks
  <2> QED BY <1>6, <2>2, <2>3, <2>4 DEF Tf!tftp_timeout
<1>7. CASE Tf!tftp_break
  <2>1. v3' = "warn" /\ UNCHANGED <<v1, v2, v7, v8, v9, v10, v11, v12>>
    BY <1>7 DEF Tf!tftp_break, Tf!tf_sent
  <2> QED BY <2>1, SameBlocks
<1>8. CASE Tf!ServerReceives /\ ~\E p \in v10 \cup v11 : Tf!Expired(p)
  <2>1. PICK p \in v10 : v10' \in Tf!Taken(v10, p) /\ Tf!ServerTakes(p)
    BY <1>8 DEF Tf!ServerReceives
  <2>2. v10' \subseteq v10 BY <2>1 DEF Tf!Taken
  <2>3. UNCHANGED <<v1, v2, v3, v7, v8, v9>>
    BY <1>8 DEF Tf!ServerReceives, Tf!client_UNCHANGED
  <2>4. p.op \in {"DATA", "ACK"} => v8 <= p.n + TfLife BY <1>3, <1>8
  <2> HIDE DEF Tf!TfInv
  <2> QED BY <2>1, <2>2, <2>3, <2>4, ServerKeeps
<1>9. CASE Tf!ServerResends
  <2>1. PICK t \in Tf!Sessions : Tf!Reply(Tf!Pkt("DATA", v12[t].n, t))
    BY <1>9 DEF Tf!ServerResends
  <2>2. v1 = "GET" /\ UNCHANGED <<v1, v2, v3, v7, v8, v9, v10, v12>>
    BY <1>9 DEF Tf!ServerResends, Tf!client_UNCHANGED
  <2>3. Tf!SessionSound(t) /\ v12[t].n \in Nat BY TftpNumbers DEF Tf!TfInv
  <2>4. v12[t].n # 0 /\ v12[t].n \in 0..v12[t].n BY <2>2, <2>3 DEF Tf!SessionSound
  <2>5. Tf!DownSound(Tf!Pkt("DATA", v12[t].n, t)) BY <2>2, <2>4 DEF Tf!DownSound, Tf!Pkt
  <2>6. \A q \in v11' : q \in v11 \/ Tf!DownSound(q) BY <2>1, <2>5 DEF Tf!Reply, Tf!With
  <2> HIDE DEF Tf!TfInv
  <2> QED BY <2>2, <2>6, SameBlocks
<1>10. CASE Tf!NetworkLoses
  <2>1. UNCHANGED <<v1, v2, v3, v7, v8, v9, v12>> /\ v10' \subseteq v10 /\ v11' \subseteq v11
    BY <1>10 DEF Tf!NetworkLoses, Tf!client_UNCHANGED
  <2> QED BY <2>1, SameBlocks
<1> QED BY <1>1, <1>2, <1>4, <1>5, <1>6, <1>7, <1>8, <1>9, <1>10 DEF Tf!TfNext

\* What the receiving side has is the first blocks of the file, and a command
\* that reports success leaves the whole file there, for files of every length,
\* every modulus of the block counter and every network that forgets in time
\* (tftp.c: the block tests of do_get and do_put).
THEOREM Transfers == ServicesSpec => []TransferExact
<1> DEFINE I == part = "tftp" => Tf!TfInv
<1>1. ServicesInit => I BY TftpInit DEF ServicesInit
<1>2. I /\ [ServicesNext]_services => I'
  <2> SUFFICES ASSUME I, [ServicesNext]_services, part' = "tftp" PROVE Tf!TfInv' OBVIOUS
  <2>1. part = "tftp" BY PartStays
  <2>2. [Tf!TfNext]_Tf!tfvars BY <2>1 DEF ServicesNext, services, Tf!tfvars
  <2> QED BY <2>1, <2>2, TftpStep
<1>3. I => TransferExact
  <2> SUFFICES ASSUME Tf!TfInv PROVE Tf!TransferExact BY DEF TransferExact
  <2>1. Tf!LastBlock \in Nat \ {0} /\ v1 \in {"GET", "PUT"} BY TftpNumbers
  <2>2. ASSUME NEW blocks, NEW n, Tf!Counted(blocks, n) PROVE Tf!Prefix(blocks)
    BY <2>2 DEF Tf!Counted, Tf!Prefix
  <2>3. Tf!Prefix(<<>>) BY DEF Tf!Prefix
  <2>4. Tf!Prefix(v9) BY <2>1, <2>2, <2>3 DEF Tf!TfInv, Tf!ClientSound
  <2>5. \A t \in Tf!Sessions : Tf!Prefix(v12[t].stored)
    BY <2>1, <2>2, <2>3 DEF Tf!TfInv, Tf!SessionSound
  <2>6. ASSUME v3 = "ok" PROVE Tf!Whole(IF v1 = "GET" THEN v9 ELSE v12[v7].stored)
    <3>1. /\ v7 \in Tf!Sessions /\ v8 = Tf!LastBlock
          /\ v1 = "PUT" => v12[v7].n = Tf!LastBlock
          /\ v1 = "GET" => Tf!Counted(v9, v8)
      BY <2>6 DEF Tf!TfInv, Tf!ClientSound
    <3>2. v1 = "PUT" => Tf!Counted(v12[v7].stored, v12[v7].n)
      BY <3>1 DEF Tf!TfInv, Tf!SessionSound
    <3> QED BY <2>1, <3>1, <3>2 DEF Tf!Counted, Tf!Whole
  <2> QED BY <2>4, <2>5, <2>6 DEF Tf!TransferExact
<1> QED BY <1>1, <1>2, <1>3, PTL DEF ServicesSpec
=============================================================================
