----------------------------- MODULE PartProofs -----------------------------
(***************************************************************************)
(* Proofs about parts of MCServices, in each part's own variables: the     *)
(* initial states of a part satisfy its invariant, its steps keep it, and  *)
(* what the runs check follows.  ServicesProofs instantiates them.         *)
(***************************************************************************)
EXTENDS DnsPending, Sana2, Multicast, SocketOptions, Clock, Deadlines, Routes,
        PrefsStore, PrefsEditor, Wizard, HttpGet, Ftp, FiniteSetTheorems, SequenceTheorems,
        WellFoundedInduction, TLAPS

\* Scanning a table from its first slot finds the first of those wanted.
LEMMA Least ==
    ASSUME NEW S \in SUBSET Nat, S # {}
    PROVE  (CHOOSE j \in S : \A k \in S : j <= k) \in S
<1>1. PICK i \in S : \A j \in S : ~(<<j, i>> \in OpToRel(<, Nat))
  BY NatLessThanWellFounded, WFMin
<1>2. \A j \in S : ~(j < i) BY <1>1 DEF OpToRel
<1>3. \A j \in S : i <= j BY <1>2
<1> QED BY <1>3

----------------------------------------------------------------------------
(* DnsPending.                                                              *)

\* The records in use are finitely many, and lwIP's debts and the clients are
\* functions as declared.
LEMMA DnsBasics ==
    ASSUME DnsAssumption, DnsInv
    PROVE  /\ dns_pending \in [DnsSlots -> DnsRecord \cup {NoDns}] /\ NoDns \notin DnsRecord
           /\ RecordsInUse \subseteq DnsSlots /\ IsFiniteSet(RecordsInUse)
           /\ Cardinality(RecordsInUse) \in Nat
           /\ \A i \in RecordsInUse : dns_pending[i] \in DnsRecord
           /\ dns_client \in [DnsBases -> [state : DnsStates, name : DnsNames \cup {NoDns}]]
           /\ lwip_dns \in [DnsKeys -> 0 .. LwipRequests] /\ dns_eff \in DnsLimits
           /\ LwipRequests \in Nat /\ TN_DNS_PENDING_MAX \in Nat
<1>1. /\ dns_pending \in [DnsSlots -> DnsRecord \cup {NoDns}]
      /\ dns_client \in [DnsBases -> [state : DnsStates, name : DnsNames \cup {NoDns}]]
      /\ lwip_dns \in [DnsKeys -> 0 .. LwipRequests] /\ dns_eff \in DnsLimits
  BY DEF DnsInv, DnsTypeOK
<1>2. NoDns \notin DnsRecord /\ LwipRequests \in Nat /\ TN_DNS_PENDING_MAX \in Nat
  BY DEF DnsAssumption, DnsRecord
<1>3. RecordsInUse \subseteq DnsSlots BY DEF RecordsInUse
<1>4. IsFiniteSet(DnsSlots) BY <1>2, FS_Interval DEF DnsSlots
<1>5. IsFiniteSet(RecordsInUse) BY <1>3, <1>4, FS_Subset
<1>6. Cardinality(RecordsInUse) \in Nat BY <1>5, FS_CardinalityType
<1>7. \A i \in RecordsInUse : dns_pending[i] \in DnsRecord BY <1>1 DEF RecordsInUse
<1> QED BY <1>1, <1>2, <1>3, <1>5, <1>6, <1>7

\* There are never more records in use than slots.
LEMMA RecordsFit ==
    ASSUME DnsAssumption, NEW S \in SUBSET DnsSlots
    PROVE  IsFiniteSet(S) /\ Cardinality(S) \in 0 .. TN_DNS_PENDING_MAX
<1>1. TN_DNS_PENDING_MAX \in Nat /\ 1 \in Int BY DEF DnsAssumption
<1>2. IsFiniteSet(DnsSlots) /\ Cardinality(DnsSlots) = TN_DNS_PENDING_MAX
  BY <1>1, FS_Interval DEF DnsSlots
<1>3. IsFiniteSet(S) /\ Cardinality(S) <= Cardinality(DnsSlots) BY <1>2, FS_Subset
<1>4. Cardinality(S) \in Nat BY <1>3, FS_CardinalityType
<1> QED BY <1>1, <1>2, <1>3, <1>4

\* Taking records out of the table, with the count that goes with it.
LEMMA ReleasedCount ==
    ASSUME DnsAssumption, DnsInv, NEW R \in SUBSET RecordsInUse,
           dns_pending' = Released(R)
    PROVE  /\ RecordsInUse' = RecordsInUse \ R
           /\ \A i \in RecordsInUse' : dns_pending'[i] = dns_pending[i]
           /\ dns_pending' \in [DnsSlots -> DnsRecord \cup {NoDns}]
           /\ IsFiniteSet(R) /\ Cardinality(R) \in Nat
           /\ Cardinality(RecordsInUse)' = Cardinality(RecordsInUse) - Cardinality(R)
<1>1. dns_pending' = [i \in DnsSlots |-> IF i \in R THEN NoDns ELSE dns_pending[i]]
  BY DEF Released
<1>2. RecordsInUse' = RecordsInUse \ R BY <1>1 DEF RecordsInUse, DnsSlots
<1>3. \A i \in RecordsInUse' : dns_pending'[i] = dns_pending[i] BY <1>1, <1>2, DnsBasics
<1>4. dns_pending' \in [DnsSlots -> DnsRecord \cup {NoDns}] BY <1>1, DnsBasics
<1>5. RecordsInUse \cap R = R OBVIOUS
<1>6. IsFiniteSet(R) BY DnsBasics, FS_Subset
<1>7. Cardinality(RecordsInUse \ R) = Cardinality(RecordsInUse) - Cardinality(R)
  BY <1>5, DnsBasics, FS_Difference
<1>8. Cardinality(R) \in Nat BY <1>6, FS_CardinalityType
<1>9. Cardinality(RecordsInUse)' = Cardinality(RecordsInUse \ R) BY <1>2
<1> QED BY <1>2, <1>3, <1>4, <1>6, <1>7, <1>8, <1>9

\* CANCEL, CLOSE and the reap: the base's records go, it no longer waits.
LEMMA TakenBack ==
    ASSUME DnsAssumption, DnsInv, NEW b \in DnsBases, dns_pending' = Released(Of(b)),
           dns_pending_count' = dns_pending_count - Cardinality(Of(b)),
           NEW s \in DnsStates \ {"waiting"}, NEW n \in DnsNames \cup {NoDns},
           ClientIs(b, s, n), UNCHANGED <<dns_eff, lwip_dns>>
    PROVE  DnsInv'
<1>1. Of(b) \in SUBSET RecordsInUse BY DEF Of
<1>2. /\ RecordsInUse' = RecordsInUse \ Of(b)
      /\ \A i \in RecordsInUse' : dns_pending'[i] = dns_pending[i]
      /\ dns_pending' \in [DnsSlots -> DnsRecord \cup {NoDns}]
      /\ Cardinality(RecordsInUse)' = Cardinality(RecordsInUse) - Cardinality(Of(b))
  BY <1>1, ReleasedCount
<1>3. dns_client' = [dns_client EXCEPT ![b] = [state |-> s, name |-> n]] BY DEF ClientIs
<1>4. dns_client' \in [DnsBases -> [state : DnsStates, name : DnsNames \cup {NoDns}]]
  BY <1>3, DnsBasics
<1>5. dns_pending_count' = Cardinality(RecordsInUse)' BY <1>2 DEF DnsInv
<1>6. DnsTypeOK'
  <2>1. RecordsInUse' \in SUBSET DnsSlots BY <1>2, DnsBasics
  <2>2. Cardinality(RecordsInUse') \in 0 .. TN_DNS_PENDING_MAX BY <2>1, RecordsFit
  <2>3. DnsSlots' = DnsSlots /\ DnsRecord' = DnsRecord /\ DnsKeys' = DnsKeys
    BY DEF DnsSlots, DnsRecord, DnsKeys
  <2> QED BY <1>2, <1>4, <1>5, <2>2, <2>3, DnsBasics DEF DnsTypeOK
<1>7. Owed' = Owed BY DEF Owed
<1>8. ASSUME NEW i \in RecordsInUse' PROVE RecordSound(dns_pending[i])'
  <2>1. i \in RecordsInUse /\ i \notin Of(b) /\ dns_pending'[i] = dns_pending[i]
    BY <1>2, <1>8
  <2>2. RecordSound(dns_pending[i]) BY <2>1 DEF DnsInv
  <2>3. dns_pending[i].imsg # b BY <2>1, <2>2 DEF Of, RecordSound
  <2>4. dns_pending[i].imsg \in DnsBases BY <2>1, DnsBasics DEF DnsRecord
  <2>5. dns_client'[dns_pending[i].imsg] = dns_client[dns_pending[i].imsg]
    BY <1>3, <2>3, <2>4, DnsBasics
  <2> QED BY <1>7, <2>1, <2>2, <2>5 DEF RecordSound, tn_dns_matches
<1>9. \A i, j \in RecordsInUse' : dns_pending'[i].imsg = dns_pending'[j].imsg => i = j
  BY <1>2 DEF DnsInv
<1>10. ASSUME NEW c \in DnsBases, dns_client'[c].state = "waiting"
       PROVE  \E i \in RecordsInUse' : dns_pending'[i].imsg = c
  <2>1. c # b /\ dns_client[c].state = "waiting" BY <1>3, <1>10, DnsBasics
  <2>2. PICK i \in RecordsInUse : dns_pending[i].imsg = c BY <2>1 DEF DnsInv
  <2>3. i \notin Of(b) BY <2>1, <2>2 DEF DnsInv, Of, RecordSound
  <2> QED BY <1>2, <2>2, <2>3
<1> QED BY <1>5, <1>6, <1>8, <1>9, <1>10 DEF DnsInv

\* lwIP takes one more callback.
LEMMA LwipTakes ==
    ASSUME DnsAssumption, DnsInv, NEW b \in DnsBases, NEW n \in DnsNames, ~FullLwip,
           lwip_dns' = [lwip_dns EXCEPT ![<<b, n>>] = @ + 1]
    PROVE  /\ lwip_dns' \in [DnsKeys -> 0 .. LwipRequests]
           /\ Owed \subseteq Owed' /\ <<b, n>> \in Owed'
<1> DEFINE k == <<b, n>>
<1>1. k \in DnsKeys BY DEF DnsKeys
<1>2. LwipRequests \in Nat \ {0} BY DEF DnsAssumption
<1>3. lwip_dns[k] \in 0 .. LwipRequests BY <1>1, DnsBasics
<1>4. lwip_dns[k] < LwipRequests
  <2>1. CASE k \in Owed BY <1>2, <1>3, <2>1 DEF FullLwip
  <2>2. CASE k \notin Owed BY <1>1, <1>2, <1>3, <2>2 DEF Owed
  <2> QED BY <2>1, <2>2
<1>5. lwip_dns' = [lwip_dns EXCEPT ![k] = lwip_dns[k] + 1] BY <1>1, DnsBasics
<1>6. lwip_dns[k] + 1 \in 0 .. LwipRequests /\ lwip_dns[k] + 1 > 0 BY <1>2, <1>3, <1>4
<1>7. lwip_dns' \in [DnsKeys -> 0 .. LwipRequests] BY <1>1, <1>5, <1>6, DnsBasics
<1>8. \A j \in DnsKeys : lwip_dns'[j] = IF j = k THEN lwip_dns[k] + 1 ELSE lwip_dns[j]
  BY <1>5, DnsBasics
<1> HIDE DEF k
<1>9. Owed \subseteq Owed' /\ k \in Owed' BY <1>1, <1>6, <1>8 DEF Owed, DnsKeys
<1> QED BY <1>7, <1>9 DEF k

\* A client that does not wait has no record.
LEMMA NoRecord ==
    ASSUME DnsAssumption, DnsInv, NEW b \in DnsBases, dns_client[b].state # "waiting"
    PROVE  \A i \in RecordsInUse : dns_pending[i].imsg # b
<1>1. ASSUME NEW i \in RecordsInUse PROVE dns_client[dns_pending[i].imsg].state = "waiting"
  <2>1. dns_client[dns_pending[i].imsg] = [state |-> "waiting", name |-> dns_pending[i].name]
    BY <1>1 DEF DnsInv, RecordSound
  <2> QED BY <2>1
<1> QED BY <1>1

\* A client that does not wait goes on without waiting; lwIP owes no less.
LEMMA ClientMoves ==
    ASSUME DnsAssumption, DnsInv, NEW b \in DnsBases, dns_client[b].state # "waiting",
           NEW s \in DnsStates \ {"waiting"}, NEW n \in DnsNames \cup {NoDns},
           ClientIs(b, s, n), UNCHANGED <<dns_pending, dns_pending_count, dns_eff>>,
           lwip_dns' \in [DnsKeys -> 0 .. LwipRequests], Owed \subseteq Owed'
    PROVE  DnsInv'
<1>1. dns_client' = [dns_client EXCEPT ![b] = [state |-> s, name |-> n]] BY DEF ClientIs
<1>2. dns_client' \in [DnsBases -> [state : DnsStates, name : DnsNames \cup {NoDns}]]
  BY <1>1, DnsBasics
<1>3. RecordsInUse' = RecordsInUse BY DEF RecordsInUse, DnsSlots
<1>4. DnsTypeOK' BY <1>2 DEF DnsInv, DnsTypeOK, DnsSlots, DnsRecord, DnsKeys, DnsStates
<1>5. ASSUME NEW i \in RecordsInUse' PROVE RecordSound(dns_pending[i])'
  <2>1. RecordSound(dns_pending[i]) /\ dns_pending[i].imsg # b /\ dns_pending'[i] = dns_pending[i]
    BY <1>3, <1>5, NoRecord DEF DnsInv
  <2>2. dns_pending[i].imsg \in DnsBases BY <1>3, <1>5, DnsBasics DEF DnsRecord
  <2>3. dns_client'[dns_pending[i].imsg] = dns_client[dns_pending[i].imsg]
    BY <1>1, <2>1, <2>2, DnsBasics
  <2> QED BY <2>1, <2>3 DEF RecordSound, tn_dns_matches
<1>6. \A i, j \in RecordsInUse' : dns_pending'[i].imsg = dns_pending'[j].imsg => i = j
  BY <1>3 DEF DnsInv
<1>7. \A c \in DnsBases : dns_client'[c].state = "waiting" =>
          \E i \in RecordsInUse' : dns_pending'[i].imsg = c
  BY <1>1, <1>3, DnsBasics DEF DnsInv
<1>8. dns_pending_count' = Cardinality(RecordsInUse)' BY <1>3 DEF DnsInv
<1> QED BY <1>4, <1>5, <1>6, <1>7, <1>8 DEF DnsInv

\* A lookup is entered in a free record of the table.
LEMMA RecordMade ==
    ASSUME DnsAssumption, DnsInv, NEW b \in DnsBases, dns_client[b].state # "waiting",
           NEW n \in DnsNames, NEW i \in DnsSlots \ RecordsInUse, <<b, n>> \in Owed',
           dns_pending' = [dns_pending EXCEPT ![i] = [imsg |-> b, base |-> b, name |-> n]],
           dns_pending_count' = IF dns_pending_count < TN_DNS_PENDING_MAX
                                THEN dns_pending_count + 1 ELSE dns_pending_count,
           ClientIs(b, "waiting", n), UNCHANGED dns_eff,
           lwip_dns' \in [DnsKeys -> 0 .. LwipRequests], Owed \subseteq Owed'
    PROVE  DnsInv'
<1> DEFINE r == [imsg |-> b, base |-> b, name |-> n]
<1>1. r \in DnsRecord /\ r # NoDns BY DnsBasics DEF DnsRecord
<1>2. dns_client' = [dns_client EXCEPT ![b] = [state |-> "waiting", name |-> n]] BY DEF ClientIs
<1>3. dns_client' \in [DnsBases -> [state : DnsStates, name : DnsNames \cup {NoDns}]]
  BY <1>2, DnsBasics DEF DnsStates
<1>4. \A j \in DnsSlots : dns_pending'[j] = IF j = i THEN r ELSE dns_pending[j]
  BY DnsBasics
<1>5. dns_pending' \in [DnsSlots -> DnsRecord \cup {NoDns}] BY <1>1, DnsBasics
<1>6. RecordsInUse' = RecordsInUse \cup {i}
  <2>1. DnsSlots' = DnsSlots BY DEF DnsSlots
  <2> QED BY <1>1, <1>4, <2>1 DEF RecordsInUse
<1>7. dns_pending_count' = Cardinality(RecordsInUse)'
  <2>1. Cardinality(RecordsInUse \cup {i}) = Cardinality(RecordsInUse) + 1
    BY DnsBasics, FS_AddElement
  <2>2. RecordsInUse \cup {i} \in SUBSET DnsSlots BY DnsBasics
  <2>3. Cardinality(RecordsInUse \cup {i}) <= TN_DNS_PENDING_MAX BY <2>2, RecordsFit
  <2>4. dns_pending_count = Cardinality(RecordsInUse) BY DEF DnsInv
  <2>5. dns_pending_count < TN_DNS_PENDING_MAX BY <2>1, <2>3, <2>4, DnsBasics
  <2> QED BY <1>6, <2>1, <2>4, <2>5
<1>8. DnsTypeOK'
  <2>1. RecordsInUse' \in SUBSET DnsSlots BY <1>6, DnsBasics
  <2>2. Cardinality(RecordsInUse') \in 0 .. TN_DNS_PENDING_MAX BY <2>1, RecordsFit
  <2>3. DnsSlots' = DnsSlots /\ DnsRecord' = DnsRecord /\ DnsKeys' = DnsKeys
    BY DEF DnsSlots, DnsRecord, DnsKeys
  <2> QED BY <1>3, <1>5, <1>7, <2>2, <2>3, DnsBasics DEF DnsTypeOK
<1>9. ASSUME NEW j \in RecordsInUse' PROVE RecordSound(dns_pending[j])'
  <2>1. CASE j = i
    <3>1. dns_pending'[j] = r BY <1>4, <2>1
    <3>2. dns_client'[b] = [state |-> "waiting", name |-> n] BY <1>2, DnsBasics
    <3>3. tn_dns_matches(r, <<b, n>>[1], <<b, n>>[2]) BY DEF tn_dns_matches
    <3> QED BY <3>1, <3>2, <3>3 DEF RecordSound, tn_dns_matches
  <2>2. CASE j # i
    <3>1. j \in RecordsInUse /\ j \in DnsSlots BY <1>6, <1>9, <2>2, DnsBasics
    <3>2. /\ RecordSound(dns_pending[j]) /\ dns_pending[j].imsg # b
          /\ dns_pending'[j] = dns_pending[j]
      BY <1>4, <2>2, <3>1, NoRecord DEF DnsInv
    <3>3. dns_pending[j].imsg \in DnsBases BY <3>1, DnsBasics DEF DnsRecord
    <3>4. dns_client'[dns_pending[j].imsg] = dns_client[dns_pending[j].imsg]
      BY <1>2, <3>2, <3>3, DnsBasics
    <3> QED BY <3>2, <3>4 DEF RecordSound, tn_dns_matches
  <2> QED BY <2>1, <2>2
<1>10. \A j, k \in RecordsInUse' : dns_pending'[j].imsg = dns_pending'[k].imsg => j = k
  <2>1. \A j \in RecordsInUse : dns_pending'[j] = dns_pending[j] /\ dns_pending[j].imsg # b
    BY <1>4, NoRecord, DnsBasics
  <2>2. dns_pending'[i].imsg = b BY <1>4
  <2> QED BY <1>6, <2>1, <2>2 DEF DnsInv
<1>11. ASSUME NEW c \in DnsBases, dns_client'[c].state = "waiting"
       PROVE  \E j \in RecordsInUse' : dns_pending'[j].imsg = c
  <2>1. CASE c = b BY <1>4, <1>6, <2>1
  <2>2. CASE c # b
    <3>1. dns_client[c].state = "waiting" BY <1>2, <1>11, <2>2, DnsBasics
    <3>2. PICK j \in RecordsInUse : dns_pending[j].imsg = c BY <3>1 DEF DnsInv
    <3>3. j # i /\ j \in DnsSlots BY <3>2, DnsBasics
    <3> QED BY <1>4, <1>6, <3>2, <3>3
  <2> QED BY <2>1, <2>2
<1> QED BY <1>7, <1>8, <1>9, <1>10, <1>11 DEF DnsInv

\* A set of slots that is not empty has a first one.
LEMMA FirstSlot ==
    ASSUME DnsAssumption, NEW S \in SUBSET DnsSlots, S # {}
    PROVE  (CHOOSE j \in S : \A k \in S : j <= k) \in S
<1>1. S \in SUBSET Nat BY DEF DnsSlots
<1> QED BY <1>1, Least

\* gethostbyname: answered now, refused, or entered in the table.
LEMMA LookupKeeps ==
    ASSUME DnsAssumption, DnsInv, NEW b \in DnsBases, NEW n \in DnsNames, DnsLookup(b, n)
    PROVE  DnsInv'
<1>1. /\ dns_client[b].state # "waiting" /\ dns_eff' = dns_eff
      /\ {"answered", "failed"} \subseteq DnsStates \ {"waiting"}
  BY DEF DnsLookup, DnsStates
<1>2. CASE /\ ClientIs(b, "answered", n) \/ ClientIs(b, "failed", n)
           /\ UNCHANGED <<dns_pending, dns_pending_count, lwip_dns>>
  <2>1. lwip_dns' \in [DnsKeys -> 0 .. LwipRequests] /\ Owed \subseteq Owed'
    BY <1>2, DnsBasics DEF Owed, DnsKeys
  <2>2. PICK s \in {"answered", "failed"} : ClientIs(b, s, n) BY <1>2
  <2> QED BY <1>1, <1>2, <2>1, <2>2, ClientMoves
<1>3. CASE ~FullLwip /\ lwip_dns' = [lwip_dns EXCEPT ![<<b, n>>] = @ + 1]
  <2>1. /\ lwip_dns' \in [DnsKeys -> 0 .. LwipRequests]
        /\ Owed \subseteq Owed' /\ <<b, n>> \in Owed'
    BY <1>3, LwipTakes
  <2>2. CASE ClientIs(b, "failed", n) /\ UNCHANGED <<dns_pending, dns_pending_count>>
    BY <1>1, <2>1, <2>2, ClientMoves
  <2> DEFINE free == 1 .. dns_eff \ RecordsInUse
             i == CHOOSE j \in free : \A k \in free : j <= k
  <2>3. CASE /\ free # {} /\ ClientIs(b, "waiting", n)
             /\ dns_pending' = [dns_pending EXCEPT ![i] = [imsg |-> b, base |-> b, name |-> n]]
             /\ dns_pending_count' = IF dns_pending_count < TN_DNS_PENDING_MAX
                                     THEN dns_pending_count + 1 ELSE dns_pending_count
    <3>1. free \in SUBSET DnsSlots
      <4>1. dns_eff \in 1 .. TN_DNS_PENDING_MAX BY DnsBasics DEF DnsAssumption
      <4> QED BY <4>1, DnsBasics DEF DnsSlots
    <3>2. i \in free BY <2>3, <3>1, FirstSlot
    <3>3. i \in DnsSlots \ RecordsInUse BY <3>1, <3>2
    <3> HIDE DEF i, free
    <3> QED BY <1>1, <2>1, <2>3, <3>3, RecordMade
  <2> QED BY <1>1, <1>2, <1>3, <2>2, <2>3 DEF DnsLookup
<1> QED BY <1>2, <1>3 DEF DnsLookup

\* lwIP's callback: it completes the first record it matches, or none, and every
\* other record keeps a callback of its own.
LEMMA CallbackKeeps ==
    ASSUME DnsAssumption, DnsInv, tn_dns_found_cb PROVE DnsInv'
<1>1. PICK k \in Owed, found \in BOOLEAN :
        /\ lwip_dns' = [lwip_dns EXCEPT ![k] = @ - 1]
        /\ LET hits == {i \in RecordsInUse : tn_dns_matches(dns_pending[i], k[1], k[2])} IN
           \/ hits = {} /\ UNCHANGED <<dns_pending, dns_pending_count, dns_client>>
           \/ /\ hits # {}
              /\ LET i == CHOOSE j \in hits : \A h \in hits : j <= h IN
                 /\ dns_pending' = Released({i})
                 /\ ClientIs(dns_pending[i].imsg, IF found THEN "answered" ELSE "failed", k[2])
              /\ dns_pending_count' = dns_pending_count - 1
        /\ UNCHANGED dns_eff
  BY DEF tn_dns_found_cb
<1> DEFINE hits == {i \in RecordsInUse : tn_dns_matches(dns_pending[i], k[1], k[2])}
<1>2. k \in DnsKeys /\ k[2] \in DnsNames /\ lwip_dns[k] \in 1 .. LwipRequests
  BY DnsBasics DEF Owed, DnsKeys
<1>3. lwip_dns' = [lwip_dns EXCEPT ![k] = lwip_dns[k] - 1] BY <1>1, <1>2, DnsBasics
<1>4. lwip_dns[k] - 1 \in 0 .. LwipRequests BY <1>2, DnsBasics
<1>5. lwip_dns' \in [DnsKeys -> 0 .. LwipRequests] BY <1>2, <1>3, <1>4, DnsBasics
<1>6. \A h \in Owed : h # k => h \in Owed'
  <2>1. \A h \in DnsKeys : h # k => lwip_dns'[h] = lwip_dns[h] BY <1>3, DnsBasics
  <2> QED BY <2>1 DEF Owed, DnsKeys
<1>7. ASSUME NEW i \in RecordsInUse, i \notin hits
      PROVE  \E h \in Owed' : tn_dns_matches(dns_pending[i], h[1], h[2])
  <2>1. PICK h \in Owed : tn_dns_matches(dns_pending[i], h[1], h[2])
    BY <1>7 DEF DnsInv, RecordSound
  <2>2. h # k BY <1>7, <2>1
  <2> QED BY <1>6, <2>1, <2>2
<1>8. CASE hits = {} /\ UNCHANGED <<dns_pending, dns_pending_count, dns_client>>
  <2>1. RecordsInUse' = RecordsInUse BY <1>8 DEF RecordsInUse, DnsSlots
  <2>2. DnsTypeOK'
    BY <1>1, <1>5, <1>8 DEF DnsInv, DnsTypeOK, DnsSlots, DnsRecord, DnsKeys, DnsStates
  <2>3. ASSUME NEW i \in RecordsInUse' PROVE RecordSound(dns_pending[i])'
    <3>1. RecordSound(dns_pending[i]) BY <2>1, <2>3 DEF DnsInv
    <3>2. \E h \in Owed' : tn_dns_matches(dns_pending[i], h[1], h[2]) BY <1>7, <1>8, <2>1, <2>3
    <3> QED BY <1>8, <3>1, <3>2 DEF RecordSound, tn_dns_matches
  <2>4. dns_pending_count' = Cardinality(RecordsInUse)' BY <1>8, <2>1 DEF DnsInv
  <2>5. /\ \A i, j \in RecordsInUse' : dns_pending'[i].imsg = dns_pending'[j].imsg => i = j
        /\ \A b \in DnsBases : dns_client'[b].state = "waiting" =>
              \E i \in RecordsInUse' : dns_pending'[i].imsg = b
    BY <1>8, <2>1 DEF DnsInv
  <2> QED BY <2>2, <2>3, <2>4, <2>5 DEF DnsInv
<1> DEFINE first == CHOOSE j \in hits : \A h \in hits : j <= h
<1>9. CASE /\ hits # {} /\ dns_pending' = Released({first})
           /\ ClientIs(dns_pending[first].imsg, IF found THEN "answered" ELSE "failed", k[2])
           /\ dns_pending_count' = dns_pending_count - 1
  <2>1. hits \in SUBSET DnsSlots BY DnsBasics
  <2>2. first \in hits BY <1>9, <2>1, FirstSlot
  <2>3. first \in RecordsInUse /\ tn_dns_matches(dns_pending[first], k[1], k[2]) BY <2>2
  <2> DEFINE b == dns_pending[first].imsg
             s == IF found THEN "answered" ELSE "failed"
  <2>4. dns_pending' = Released({first}) /\ ClientIs(b, s, k[2]) BY <1>9
  <2>5. dns_pending_count' = dns_pending_count - 1 BY <1>9
  <2>6. b \in DnsBases /\ s \in DnsStates \ {"waiting"} BY <2>3, DnsBasics DEF DnsRecord, DnsStates
  <2>7. \A i \in hits : i = first
    <3>1. \A i \in hits : dns_pending[i].imsg = k[1] BY DEF tn_dns_matches
    <3> HIDE DEF hits, first
    <3>2. \A i \in hits : i \in RecordsInUse BY DEF hits
    <3> QED BY <2>2, <3>1, <3>2 DEF DnsInv
  <2> HIDE DEF first, hits, s
  <2>8. {first} \in SUBSET RecordsInUse BY <2>3
  <2>9. /\ RecordsInUse' = RecordsInUse \ {first}
        /\ \A i \in RecordsInUse' : dns_pending'[i] = dns_pending[i]
        /\ dns_pending' \in [DnsSlots -> DnsRecord \cup {NoDns}]
        /\ Cardinality(RecordsInUse)' = Cardinality(RecordsInUse) - Cardinality({first})
    BY <2>4, <2>8, ReleasedCount
  <2>10. Cardinality({first}) = 1 BY FS_Singleton
  <2>11. dns_pending_count' = Cardinality(RecordsInUse)' BY <2>5, <2>9, <2>10 DEF DnsInv
  <2>12. dns_client' = [dns_client EXCEPT ![b] = [state |-> s, name |-> k[2]]]
    BY <2>4 DEF ClientIs
  <2>13. DnsTypeOK'
    <3>1. RecordsInUse' \in SUBSET DnsSlots BY <2>9, DnsBasics
    <3>2. Cardinality(RecordsInUse') \in 0 .. TN_DNS_PENDING_MAX BY <3>1, RecordsFit
    <3>3. DnsSlots' = DnsSlots /\ DnsRecord' = DnsRecord /\ DnsKeys' = DnsKeys
      BY DEF DnsSlots, DnsRecord, DnsKeys
    <3>4. dns_client' \in [DnsBases -> [state : DnsStates, name : DnsNames \cup {NoDns}]]
      BY <1>2, <2>6, <2>12, DnsBasics
    <3>5. dns_eff' \in DnsLimits BY <1>1, DnsBasics
    <3> QED BY <1>5, <2>9, <2>11, <3>2, <3>3, <3>4, <3>5 DEF DnsTypeOK
  <2>14. ASSUME NEW i \in RecordsInUse' PROVE RecordSound(dns_pending[i])'
    <3>1. i \in RecordsInUse /\ i # first /\ dns_pending'[i] = dns_pending[i] BY <2>9, <2>14
    <3>2. RecordSound(dns_pending[i]) BY <3>1 DEF DnsInv
    <3>3. dns_pending[i].imsg # b BY <2>3, <3>1 DEF DnsInv
    <3>4. dns_pending[i].imsg \in DnsBases BY <3>1, DnsBasics DEF DnsRecord
    <3>5. dns_client'[dns_pending[i].imsg] = dns_client[dns_pending[i].imsg]
      BY <2>12, <3>3, <3>4, DnsBasics
    <3>6. \E h \in Owed' : tn_dns_matches(dns_pending[i], h[1], h[2]) BY <1>7, <2>7, <3>1
    <3> QED BY <3>1, <3>2, <3>5, <3>6 DEF RecordSound, tn_dns_matches
  <2>15. \A i, j \in RecordsInUse' : dns_pending'[i].imsg = dns_pending'[j].imsg => i = j
    BY <2>9 DEF DnsInv
  <2>16. ASSUME NEW c \in DnsBases, dns_client'[c].state = "waiting"
         PROVE  \E i \in RecordsInUse' : dns_pending'[i].imsg = c
    <3>1. c # b /\ dns_client[c].state = "waiting" BY <2>6, <2>12, <2>16, DnsBasics
    <3>2. PICK i \in RecordsInUse : dns_pending[i].imsg = c BY <3>1 DEF DnsInv
    <3> QED BY <2>9, <3>1, <3>2
  <2> QED BY <2>11, <2>13, <2>14, <2>15, <2>16 DEF DnsInv
<1> QED BY <1>1, <1>8, <1>9

\* The table is empty and nobody waits.
LEMMA DnsStarts == DnsAssumption /\ DnsInit => DnsInv
<1> SUFFICES ASSUME DnsAssumption, DnsInit PROVE DnsInv OBVIOUS
<1>1. RecordsInUse = {} BY DEF RecordsInUse, DnsInit
<1>2. Cardinality(RecordsInUse) = 0 BY <1>1, FS_EmptySet
<1>3. TN_DNS_PENDING_MAX \in Nat /\ LwipRequests \in Nat /\ TN_DNS_PENDING_MAX \in DnsLimits
  BY DEF DnsAssumption
<1>4. 0 \in 0 .. TN_DNS_PENDING_MAX /\ 0 \in 0 .. LwipRequests BY <1>3
<1>5. DnsTypeOK BY <1>3, <1>4 DEF DnsTypeOK, DnsInit, DnsStates
<1>6. \A b \in DnsBases : dns_client[b].state = "closed" BY DEF DnsInit
<1>7. dns_pending_count = 0 BY DEF DnsInit
<1> QED BY <1>1, <1>2, <1>5, <1>6, <1>7 DEF DnsInv

\* Every step keeps the invariant of the lookups.
LEMMA DnsKeeps == DnsAssumption /\ DnsInv /\ [DnsNext]_dnsvars => DnsInv'
<1> SUFFICES ASSUME DnsAssumption, DnsInv, [DnsNext]_dnsvars PROVE DnsInv' OBVIOUS
<1>1. CASE tn_ipc_cmd_gethostbyname BY <1>1, LookupKeeps DEF tn_ipc_cmd_gethostbyname
<1>2. CASE tn_dns_found_cb BY <1>2, CallbackKeeps
<1>3. CASE DnsCancel
  <2>1. PICK b \in DnsBases :
          /\ dns_pending' = Released(Of(b))
          /\ dns_pending_count' = dns_pending_count - Cardinality(Of(b))
          /\ ClientIs(b, "failed", dns_client[b].name)
          /\ UNCHANGED <<dns_eff, lwip_dns>>
    BY <1>3 DEF DnsCancel
  <2>2. dns_client[b].name \in DnsNames \cup {NoDns} BY DnsBasics
  <2>3. "failed" \in DnsStates \ {"waiting"} BY DEF DnsStates
  <2> QED BY <2>1, <2>2, <2>3, TakenBack
<1>4. CASE DnsClose
  <2>1. PICK b \in DnsBases :
          /\ dns_pending' = Released(Of(b))
          /\ dns_pending_count' = dns_pending_count - Cardinality(Of(b))
          /\ ClientIs(b, "closed", NoDns)
          /\ UNCHANGED <<dns_eff, lwip_dns>>
    BY <1>4 DEF DnsClose, tn_dns_cancel_for_base
  <2>2. "closed" \in DnsStates \ {"waiting"} BY DEF DnsStates
  <2> QED BY <2>1, <2>2, TakenBack
<1>5. CASE DnsOpen
  <2>1. PICK b \in DnsBases :
          /\ dns_client[b].state = "closed" /\ ClientIs(b, "idle", NoDns)
          /\ UNCHANGED <<dns_pending, dns_pending_count, dns_eff, lwip_dns>>
    BY <1>5 DEF DnsOpen
  <2>2. "idle" \in DnsStates \ {"waiting"} BY DEF DnsStates
  <2>3. lwip_dns' \in [DnsKeys -> 0 .. LwipRequests] /\ Owed \subseteq Owed'
    BY <2>1, DnsBasics DEF Owed, DnsKeys
  <2> QED BY <2>1, <2>2, <2>3, ClientMoves
<1>6. CASE DnsReconfig \/ UNCHANGED dnsvars
  <2>1. /\ UNCHANGED <<dns_pending, dns_pending_count, lwip_dns, dns_client>>
        /\ dns_eff' \in DnsLimits
    BY <1>6, DnsBasics DEF DnsReconfig, dnsvars
  <2> QED BY <2>1 DEF DnsInv, DnsTypeOK, RecordsInUse, RecordSound, Owed, tn_dns_matches,
                      DnsSlots, DnsRecord, DnsKeys, DnsStates
<1> QED BY <1>1, <1>2, <1>3, <1>4, <1>5, <1>6 DEF DnsNext

\* Whoever waits, and no one else, has one record and a callback that finds it.
LEMMA DnsTracked == DnsAssumption /\ DnsInv => WaitersTracked
<1> SUFFICES ASSUME DnsAssumption, DnsInv, NEW b \in DnsBases
             PROVE  LET recs == {i \in RecordsInUse : dns_pending[i].imsg = b} IN
                    IF dns_client[b].state = "waiting"
                    THEN /\ Cardinality(recs) = 1
                         /\ \A i \in recs : dns_pending[i].name = dns_client[b].name
                         /\ \E k \in Owed :
                               k[1] = b /\ DnsFold[k[2]] = DnsFold[dns_client[b].name]
                    ELSE recs = {}
  BY DEF WaitersTracked, DnsInv
<1> DEFINE recs == {i \in RecordsInUse : dns_pending[i].imsg = b}
<1>1. CASE dns_client[b].state # "waiting" BY <1>1, NoRecord
<1>2. CASE dns_client[b].state = "waiting"
  <2>1. PICK i \in RecordsInUse : dns_pending[i].imsg = b BY <1>2 DEF DnsInv
  <2>2. recs = {i} BY <2>1 DEF DnsInv
  <2>3. Cardinality(recs) = 1 BY <2>2, FS_Singleton
  <2>4. /\ dns_client[b] = [state |-> "waiting", name |-> dns_pending[i].name]
        /\ \E k \in Owed : k[1] = b /\ DnsFold[k[2]] = DnsFold[dns_pending[i].name]
    BY <2>1 DEF DnsInv, RecordSound, tn_dns_matches
  <2>5. dns_client[b].name = dns_pending[i].name BY <2>4
  <2> QED BY <1>2, <2>2, <2>3, <2>4, <2>5
<1> QED BY <1>1, <1>2

\* A callback completes only a lookup of the name it was asked.
LEMMA DnsFresh == DnsAssumption /\ DnsInv /\ [DnsNext]_dnsvars => NoStaleAnswer
<1> SUFFICES ASSUME DnsAssumption, DnsInv, [DnsNext]_dnsvars, NEW b \in DnsBases,
                    dns_client[b].state = "waiting",
                    dns_client'[b].state \in {"answered", "failed"}
             PROVE  DnsFold[dns_client'[b].name] = DnsFold[dns_client[b].name]
  BY DEF NoStaleAnswer
<1>1. ASSUME NEW c \in DnsBases, NEW s, NEW n, ClientIs(c, s, n)
      PROVE  \/ c = b /\ dns_client'[b] = [state |-> s, name |-> n]
             \/ c # b /\ dns_client'[b] = dns_client[b]
  BY <1>1, DnsBasics DEF ClientIs
<1>2. dns_client'[b] # dns_client[b] OBVIOUS
<1>3. CASE tn_ipc_cmd_gethostbyname
  <2>1. PICK c \in DnsBases, n \in DnsNames : DnsLookup(c, n)
    BY <1>3 DEF tn_ipc_cmd_gethostbyname
  <2>2. c # b /\ \E s : ClientIs(c, s, n) BY <2>1 DEF DnsLookup
  <2> QED BY <1>1, <1>2, <2>2
<1>4. CASE DnsCancel
  <2>1. PICK c \in DnsBases : ClientIs(c, "failed", dns_client[c].name) BY <1>4 DEF DnsCancel
  <2>2. c = b /\ dns_client'[b] = [state |-> "failed", name |-> dns_client[b].name]
    BY <1>1, <1>2, <2>1
  <2> QED BY <2>2
<1>5. CASE DnsClose \/ DnsOpen
  <2>1. PICK c \in DnsBases, s \in {"closed", "idle"} : ClientIs(c, s, NoDns)
    BY <1>5 DEF DnsClose, DnsOpen
  <2>2. dns_client'[b] = [state |-> s, name |-> NoDns] BY <1>1, <1>2, <2>1
  <2>3. dns_client'[b].state = s BY <2>2
  <2> QED BY <2>1, <2>3
<1>6. CASE tn_dns_found_cb
  <2>1. PICK k \in Owed, i \in RecordsInUse, s \in {"answered", "failed"} :
          tn_dns_matches(dns_pending[i], k[1], k[2]) /\ ClientIs(dns_pending[i].imsg, s, k[2])
    <3>1. PICK k \in Owed, found \in BOOLEAN :
            LET hits == {i \in RecordsInUse : tn_dns_matches(dns_pending[i], k[1], k[2])} IN
            \/ hits = {} /\ UNCHANGED <<dns_pending, dns_pending_count, dns_client>>
            \/ /\ hits # {}
               /\ LET i == CHOOSE j \in hits : \A h \in hits : j <= h IN
                  ClientIs(dns_pending[i].imsg, IF found THEN "answered" ELSE "failed", k[2])
      BY <1>6 DEF tn_dns_found_cb
    <3> DEFINE hits == {i \in RecordsInUse : tn_dns_matches(dns_pending[i], k[1], k[2])}
               first == CHOOSE j \in hits : \A h \in hits : j <= h
    <3>2. hits # {} BY <1>2, <3>1
    <3>3. hits \in SUBSET DnsSlots BY DnsBasics
    <3>4. first \in hits BY <3>2, <3>3, FirstSlot
    <3>5. \E s \in {"answered", "failed"} : ClientIs(dns_pending[first].imsg, s, k[2])
      BY <3>1, <3>2
    <3>6. first \in RecordsInUse /\ tn_dns_matches(dns_pending[first], k[1], k[2]) BY <3>4
    <3> HIDE DEF first, hits
    <3> QED BY <3>5, <3>6
  <2>2. dns_pending[i].imsg \in DnsBases BY DnsBasics DEF DnsRecord
  <2>3. dns_pending[i].imsg = b /\ dns_client'[b] = [state |-> s, name |-> k[2]]
    BY <1>1, <1>2, <2>1, <2>2
  <2>4. dns_client[b] = [state |-> "waiting", name |-> dns_pending[i].name]
    BY <2>3 DEF DnsInv, RecordSound
  <2>5. dns_client[b].name = dns_pending[i].name /\ dns_client'[b].name = k[2] BY <2>3, <2>4
  <2> QED BY <2>1, <2>5 DEF tn_dns_matches
<1> QED BY <1>2, <1>3, <1>4, <1>5, <1>6 DEF DnsNext, DnsReconfig, dnsvars

----------------------------------------------------------------------------
(* Sana2.                                                                   *)

\* A unit that is closed has no request.
LEMMA S2Starts == S2Assumption /\ S2Init => S2Inv
<1> SUFFICES ASSUME S2Assumption, S2Init PROVE S2Inv OBVIOUS
<1>1. S2TypeOK
  <2>1. /\ unit \in {"closed", "open", "online"} /\ ev \in ReqStates
        /\ event_strikes \in 0 .. EventStrikes /\ handled \in 0 .. EventBatch
        /\ mac \in StationAddrs \cup {"zero", "random"}
    BY DEF S2Assumption, S2Init, ReqStates
  <2>2. rd \in [S2Reads -> ReqStates] /\ wr \in [S2Writes -> ReqStates]
    BY DEF S2Init, ReqStates
  <2>3. /\ read_armed \in [S2Reads -> BOOLEAN] /\ tx_busy \in [S2Writes -> BOOLEAN]
        /\ link_down \in BOOLEAN /\ event_armed \in BOOLEAN /\ event_supported \in BOOLEAN
        /\ six \in BOOLEAN
    BY Zenon DEF S2Init
  <2> QED BY <2>1, <2>2, <2>3 DEF S2TypeOK
<1>2. RequestsAccounted
  BY DEF S2Init, RequestsAccounted, FlagsTellOwnership, StationAddressUsable, Ours
<1> QED BY <1>1, <1>2 DEF S2Assumption, S2Init, S2Inv

\* A usable address comes out of every combination the driver may report, or
\* the random one does (tn_s2_online).
LEMMA MacUsable ==
    ASSUME NEW cur \in StationAddrs, NEW factory \in StationAddrs, NEW reported \in StationAddrs,
           NEW n6 \in BOOLEAN
    PROVE  LET m == MacAfterConfig(ChosenMac(cur, factory, n6), reported, n6) IN
           (n6 => tn_s2_addr_usable(m, n6)) /\ m \in StationAddrs \cup {"zero", "random"}
BY DEF MacAfterConfig, ChosenMac, tn_s2_addr_usable

\* Sending again the reads that are not out (Rearmed).
LEMMA RearmKeeps ==
    ASSUME S2Inv, NEW down \in BOOLEAN, Rearmed(down)
    PROVE  /\ rd' \in [S2Reads -> ReqStates] /\ read_armed' \in [S2Reads -> BOOLEAN]
           /\ \A i \in S2Reads : read_armed'[i] <=> ~Ours(rd'[i])
           /\ \A i \in S2Reads : rd[i] = "none" => rd'[i] = "none"
           /\ ~down => \A i \in S2Reads : rd[i] # "none" => ~Ours(rd'[i])
<1> USE DEF S2Inv, S2TypeOK, RequestsAccounted, FlagsTellOwnership
<1>1. CASE down BY <1>1 DEF Rearmed, rdv
<1>2. CASE ~down
  <2>1. /\ rd' = [i \in S2Reads |-> IF rd[i] # "none" /\ ~read_armed[i] THEN "driver" ELSE rd[i]]
        /\ read_armed' = [i \in S2Reads |-> rd[i] # "none"]
    BY <1>2 DEF Rearmed
  <2>2. rd' \in [S2Reads -> ReqStates] BY <2>1 DEF ReqStates
  <2>3. read_armed' \in [S2Reads -> BOOLEAN] BY <2>1
  <2>4. ASSUME NEW i \in S2Reads
        PROVE  /\ read_armed'[i] <=> ~Ours(rd'[i])
               /\ rd[i] = "none" => rd'[i] = "none"
               /\ rd[i] # "none" => ~Ours(rd'[i])
    <3>1. read_armed'[i] <=> rd[i] # "none" BY <2>1
    <3>2. rd'[i] = IF rd[i] # "none" /\ ~read_armed[i] THEN "driver" ELSE rd[i] BY <2>1
    <3>3. read_armed[i] <=> ~Ours(rd[i]) OBVIOUS
    <3> QED BY <3>1, <3>2, <3>3 DEF Ours
  <2> QED BY <1>2, <2>2, <2>3, <2>4
<1> QED BY <1>1, <1>2

\* Taking back the writes that are done (tn_s2_tx_drain).
LEMMA DrainKeeps ==
    ASSUME S2Inv, tn_s2_tx_drain
    PROVE  /\ wr' \in [S2Writes -> ReqStates] /\ tx_busy' \in [S2Writes -> BOOLEAN]
           /\ \A i \in S2Writes : tx_busy'[i] <=> ~Ours(wr'[i])
           /\ \A i \in S2Writes : wr[i] = "none" => wr'[i] = "none"
BY DEF S2Inv, S2TypeOK, RequestsAccounted, FlagsTellOwnership, tn_s2_tx_drain, ReqStates, Ours, Replied

\* Every step of the task and of the driver keeps the flags true.
LEMMA S2Keeps == S2Assumption /\ S2Inv /\ [S2Next]_s2vars => S2Inv'
<1> SUFFICES ASSUME S2Assumption, S2Inv, [S2Next]_s2vars PROVE S2Inv' OBVIOUS
<1> USE DEF S2Inv, S2TypeOK, RequestsAccounted, FlagsTellOwnership, StationAddressUsable,
            rdv, wrv, evv
<1>1. CASE tn_s2_open BY <1>1 DEF tn_s2_open
<1>2. CASE tn_s2_online
  <2>1. (six' => tn_s2_addr_usable(mac', six')) /\ mac' \in StationAddrs \cup {"zero", "random"}
    BY <1>2, MacUsable DEF tn_s2_online
  <2> QED BY <1>2, <2>1 DEF tn_s2_online
<1>3. CASE tn_s2_tx_init BY <1>3 DEF tn_s2_tx_init, ReqStates, Ours
<1>4. CASE tn_s2_arm_reads BY <1>4 DEF tn_s2_arm_reads, ReqStates, Ours
<1>5. CASE tn_s2_arm_events BY <1>5 DEF tn_s2_arm_events, ReqStates, Ours
<1>6. CASE DriverRead BY <1>6 DEF DriverRead, ReqStates, Ours
<1>7. CASE DriverWrite BY <1>7 DEF DriverWrite, ReqStates, Ours
<1>8. CASE DriverEvent BY <1>8 DEF DriverEvent, ReqStates, Ours
<1>9. CASE tn_sana2_poll_input BY <1>9, ZenonT(60) DEF tn_sana2_poll_input, ReqStates, Ours, Replied
<1>10. CASE S2Tick
  <2>1. Rearmed(link_down) /\ tn_s2_tx_drain /\ link_down \in BOOLEAN
    BY <1>10 DEF S2Tick, tn_s2_rearm_reads
  <2> QED BY <1>10, <2>1, RearmKeeps, DrainKeeps DEF S2Tick
<1>11. CASE tn_s2_send
  <2>1. CASE tn_s2_tx_drain BY <1>11, <2>1, DrainKeeps DEF tn_s2_send
  <2>2. CASE \E i \in S2Writes : SendOn(i)
    BY <1>11, <2>2 DEF tn_s2_send, SendOn, ReqStates, Ours
  <2> QED BY <1>11, <2>1, <2>2 DEF tn_s2_send
<1>12. CASE tn_s2_poll_events
  <2>1. /\ rd' \in [S2Reads -> ReqStates] /\ read_armed' \in [S2Reads -> BOOLEAN]
        /\ \A i \in S2Reads : read_armed'[i] <=> ~Ours(rd'[i])
        /\ \A i \in S2Reads : rd[i] = "none" => rd'[i] = "none"
        /\ link_down' \in BOOLEAN
    BY <1>12, RearmKeeps DEF tn_s2_poll_events, tn_s2_handle_event_bits, LinkAfter
  <2>2. /\ ev' \in ReqStates /\ event_armed' \in BOOLEAN /\ event_supported' \in BOOLEAN
        /\ event_strikes' \in 0 .. EventStrikes /\ handled' \in 0 .. EventBatch
        /\ event_armed' <=> ~Ours(ev')
        /\ handled' < EventBatch /\ (ev' # "idle" => event_strikes' < EventStrikes)
    <3>1. CASE ev = "bad"
      <4>1. ev' = "idle" /\ handled' = 0 /\ event_strikes' = event_strikes
        BY <1>12, <3>1 DEF tn_s2_poll_events
      <4>2. event_armed' = FALSE /\ event_supported' = FALSE
        BY <1>12, <3>1 DEF tn_s2_poll_events
      <4>3. ev' \in ReqStates /\ Ours(ev') BY <4>1 DEF ReqStates, Ours
      <4>4. /\ event_strikes' \in 0 .. EventStrikes /\ handled' \in 0 .. EventBatch
            /\ handled' < EventBatch
        BY <4>1 DEF S2Assumption
      <4>5. event_armed' \in BOOLEAN /\ event_supported' \in BOOLEAN BY <4>2
      <4> QED BY <4>1, <4>2, <4>3, <4>4, <4>5
    <3>2. CASE ev = "done"
      <4> DEFINE full == handled + 1 >= EventBatch
                 strikes == IF full THEN event_strikes + 1 ELSE event_strikes
                 storm == full /\ strikes >= EventStrikes
      <4>1. /\ event_strikes' = strikes /\ handled' = IF full THEN 0 ELSE handled + 1
            /\ ev' = IF storm THEN "idle" ELSE "driver"
        BY <1>12, <3>2 DEF tn_s2_poll_events
      <4>2. event_armed' = ~storm /\ event_supported' = (event_supported /\ ~storm)
        BY <1>12, <3>2 DEF tn_s2_poll_events
      <4>3. event_strikes < EventStrikes /\ EventStrikes \in Nat /\ EventBatch \in Nat \ {0}
        BY <3>2 DEF S2Assumption
      <4>4. ev' \in ReqStates /\ (storm <=> Ours(ev')) BY <4>1 DEF ReqStates, Ours
      <4>5. event_armed' \in BOOLEAN /\ event_supported' \in BOOLEAN BY <4>2
      <4>6. /\ event_strikes' \in 0 .. EventStrikes /\ handled' \in 0 .. EventBatch
            /\ handled' < EventBatch /\ (~storm => event_strikes' < EventStrikes)
        BY <4>1, <4>3
      <4>7. ev' # "idle" => ~storm BY <4>1
      <4> HIDE DEF storm
      <4> QED BY <4>2, <4>4, <4>5, <4>6, <4>7
    <3> QED BY <1>12, <3>1, <3>2 DEF tn_s2_poll_events, Replied
  <2>3. ev # "none" /\ UNCHANGED <<unit, wr, tx_busy, mac, six>>
    BY <1>12 DEF tn_s2_poll_events, Replied
  <2> QED BY <2>1, <2>2, <2>3 DEF Ours, ReqStates
<1>13. CASE PollEnds BY <1>13 DEF PollEnds, S2Assumption
<1>14. CASE tn_s2_offline_close
  <2>1. /\ \A i \in S2Reads : rd[i] # "driver"
        /\ \A i \in S2Writes : wr[i] # "driver"
        /\ ev # "driver"
    BY <1>14 DEF tn_s2_offline_close, Retired, Ours
  <2>2. /\ unit' = "closed" /\ ev' = "none" /\ event_strikes' = 0 /\ handled' = 0
        /\ mac' = "zero"
    BY <1>14, <2>1 DEF tn_s2_offline_close
  <2>3. /\ rd' = [i \in S2Reads |-> "none"] /\ wr' = [i \in S2Writes |-> "none"]
    BY <1>14, <2>1 DEF tn_s2_offline_close
  <2>4. /\ read_armed' = [i \in S2Reads |-> FALSE] /\ tx_busy' = [i \in S2Writes |-> FALSE]
        /\ event_armed' = FALSE /\ event_supported' = FALSE /\ link_down' = FALSE
        /\ six' = FALSE
    BY <1>14 DEF tn_s2_offline_close
  <2>5. S2TypeOK'
    <3>1. rd' \in [S2Reads -> ReqStates] /\ wr' \in [S2Writes -> ReqStates]
      BY <2>3 DEF ReqStates
    <3>2. read_armed' \in [S2Reads -> BOOLEAN] /\ tx_busy' \in [S2Writes -> BOOLEAN] BY <2>4
    <3>3. /\ event_armed' \in BOOLEAN /\ event_supported' \in BOOLEAN /\ link_down' \in BOOLEAN
          /\ six' \in BOOLEAN
      BY <2>4
    <3>4. /\ unit' \in {"closed", "open", "online"} /\ ev' \in ReqStates
          /\ event_strikes' \in 0 .. EventStrikes /\ handled' \in 0 .. EventBatch
          /\ mac' \in StationAddrs \cup {"zero", "random"}
      BY <2>2 DEF S2Assumption, ReqStates
    <3> QED BY <3>1, <3>2, <3>3, <3>4
  <2>6. FlagsTellOwnership' BY <2>2, <2>3, <2>4 DEF Ours
  <2> QED BY <2>2, <2>5, <2>6 DEF S2Assumption
<1>15. CASE UNCHANGED s2vars BY <1>15 DEF s2vars
<1> QED BY <1>1, <1>2, <1>3, <1>4, <1>5, <1>6, <1>7, <1>8, <1>9, <1>10, <1>11, <1>12, <1>13,
           <1>14, <1>15 DEF S2Next

\* A tick with the link up sends every read that is not out (tn_s2_rearm_reads).
LEMMA S2Restores == S2Inv => TickRestoresReads
<1> SUFFICES ASSUME S2Inv, S2Tick, ~link_down
             PROVE  \A i \in S2Reads : rd[i] # "none" => ~Ours(rd'[i])
  BY DEF TickRestoresReads
<1>1. Rearmed(link_down) /\ link_down \in BOOLEAN
  BY DEF S2Tick, tn_s2_rearm_reads, S2Inv, S2TypeOK
<1> QED BY <1>1, RearmKeeps

----------------------------------------------------------------------------
(* Multicast.                                                               *)

\* The records of a group.
RecordsFor(g) == {i \in McRecords \ FreeRecords : mcast_joins[i][2] = g}

\* The records are finitely many.
LEMMA McFinite ==
    ASSUME McAssumption, NEW S \in SUBSET McRecords
    PROVE  IsFiniteSet(S) /\ Cardinality(S) \in 0 .. TN_MCAST_JOINS_MAX
<1>1. TN_MCAST_JOINS_MAX \in Nat /\ 1 \in Int BY DEF McAssumption
<1>2. IsFiniteSet(McRecords) /\ Cardinality(McRecords) = TN_MCAST_JOINS_MAX
  BY <1>1, FS_Interval DEF McRecords
<1>3. IsFiniteSet(S) /\ Cardinality(S) <= Cardinality(McRecords) BY <1>2, FS_Subset
<1>4. Cardinality(S) \in Nat BY <1>3, FS_CardinalityType
<1> QED BY <1>1, <1>2, <1>3, <1>4

\* No slot is open and no group joined.
LEMMA McStarts == McAssumption /\ McInit => McTypeOK /\ MembershipsHaveOwners
<1> SUFFICES ASSUME McAssumption, McInit PROVE McTypeOK /\ MembershipsHaveOwners OBVIOUS
<1>1. McTypeOK BY DEF McAssumption, McInit, McTypeOK
<1>2. McRecords \ FreeRecords = {} BY DEF McInit, FreeRecords
<1>3. Cardinality({}) = 0 BY FS_EmptySet
<1>4. \A g \in McGroups : {i \in McRecords \ FreeRecords : mcast_joins[i][2] = g} = {} BY <1>2
<1>5. \A g \in McGroups : igmp_use[g] = 0 /\ mc_stuck[g] = 0 BY DEF McInit
<1> QED BY <1>1, <1>2, <1>3, <1>4, <1>5 DEF MembershipsHaveOwners

\* A join takes the first free record, a drop frees one of the slot's own, and
\* freeing a slot frees all of its records, each with lwIP's count of the group.
LEMMA McKeeps ==
    McAssumption /\ McTypeOK /\ MembershipsHaveOwners /\ [McNext]_mcvars
      => (McTypeOK /\ MembershipsHaveOwners)'
<1> SUFFICES ASSUME McAssumption, McTypeOK, MembershipsHaveOwners, [McNext]_mcvars
             PROVE  (McTypeOK /\ MembershipsHaveOwners)'
  OBVIOUS
<1>1. /\ mcast_joins \in [McRecords -> McJoins \cup {NoJoin}]
      /\ NoJoin \notin McJoins /\ McUses \in Nat
      /\ igmp_use \in [McGroups -> 0 .. McUses] /\ mc_open \subseteq McSlots
      /\ mc_addr \in McAddrs /\ mc_stuck \in [McGroups -> Nat]
  BY DEF McTypeOK, McAssumption
<1>2. /\ \A g \in McGroups : igmp_use[g] <= Cardinality(RecordsFor(g)) + mc_stuck[g]
      /\ \A i \in McRecords \ FreeRecords : mcast_joins[i][1] \in mc_open
  BY DEF MembershipsHaveOwners, RecordsFor
<1>3. \A i \in McRecords \ FreeRecords : mcast_joins[i] \in McJoins
  BY <1>1 DEF FreeRecords
<1>4. FreeRecords \in SUBSET McRecords /\ McRecords \in SUBSET Nat
  BY DEF FreeRecords, McRecords, McAssumption
<1>5. \A g \in McGroups :
         /\ RecordsFor(g) \in SUBSET McRecords /\ IsFiniteSet(RecordsFor(g))
         /\ Cardinality(RecordsFor(g)) \in Nat
  BY McFinite DEF RecordsFor
<1> DEFINE Good ==
             /\ mcast_joins' \in [McRecords -> McJoins \cup {NoJoin}]
             /\ igmp_use' \in [McGroups -> 0 .. McUses] /\ mc_open' \subseteq McSlots
             /\ mc_addr' \in McAddrs /\ mc_stuck' \in [McGroups -> Nat]
             /\ \A g \in McGroups : igmp_use'[g] <= Cardinality(RecordsFor(g)') + mc_stuck'[g]
             /\ \A i \in McRecords \ FreeRecords' : mcast_joins'[i][1] \in mc_open'
<1>6. SUFFICES Good BY <1>6 DEF McTypeOK, MembershipsHaveOwners, RecordsFor
<1>7. ASSUME NEW s \in McSlots, NEW g \in McGroups, NEW a \in McAddrs \cup {McAny},
             IP_ADD_MEMBERSHIP(s, g, a)
      PROVE  Good
  <2>1. PICK f : f = First(FreeRecords) OBVIOUS
  <2>2. f \in FreeRecords BY <1>4, <1>7, <2>1, Least DEF IP_ADD_MEMBERSHIP, First
  <2>3. /\ mcast_joins' = [mcast_joins EXCEPT ![f] = <<s, g, a>>]
        /\ igmp_use' = [igmp_use EXCEPT ![g] = @ + 1] /\ mc_open' = mc_open /\ s \in mc_open
        /\ mc_addr' = mc_addr /\ mc_stuck' = mc_stuck /\ igmp_use[g] < McUses
    BY <1>7, <2>1 DEF IP_ADD_MEMBERSHIP, igmp_joingroup, Joinable
  <2>4. <<s, g, a>> \in McJoins /\ <<s, g, a>> # NoJoin BY <1>1 DEF McJoins
  <2>5. McRecords \ FreeRecords' = (McRecords \ FreeRecords) \cup {f}
    BY <1>1, <1>4, <2>2, <2>3, <2>4 DEF FreeRecords
  <2>6. /\ mcast_joins'[f] = <<s, g, a>>
        /\ \A i \in McRecords \ FreeRecords : mcast_joins'[i] = mcast_joins[i]
    BY <1>1, <1>4, <2>2, <2>3
  <2>7. RecordsFor(g)' = RecordsFor(g) \cup {f} /\ f \notin RecordsFor(g)
    BY <2>2, <2>5, <2>6 DEF RecordsFor
  <2>8. Cardinality(RecordsFor(g)') = Cardinality(RecordsFor(g)) + 1
    BY <1>5, <2>7, FS_AddElement
  <2>9. \A h \in McGroups \ {g} : RecordsFor(h)' = RecordsFor(h)
    BY <2>2, <2>5, <2>6 DEF RecordsFor
  <2>10. \A h \in McGroups : igmp_use'[h] <= Cardinality(RecordsFor(h)') + mc_stuck'[h]
    BY <1>1, <1>2, <1>5, <2>3, <2>8, <2>9
  <2>11. \A i \in McRecords \ FreeRecords' : mcast_joins'[i][1] \in mc_open'
    BY <1>2, <2>3, <2>5, <2>6
  <2>12. mcast_joins' \in [McRecords -> McJoins \cup {NoJoin}]
    BY <1>1, <2>3, <2>4
  <2>13. igmp_use' \in [McGroups -> 0 .. McUses] BY <1>1, <2>3
  <2> QED BY <1>1, <2>3, <2>10, <2>11, <2>12, <2>13
<1>8. ASSUME NEW s \in McSlots, NEW g \in McGroups, NEW a \in McAddrs \cup {McAny},
             IP_DROP_MEMBERSHIP(s, g, a)
      PROVE  Good
  <2> DEFINE own == {i \in RecordsOf(s) : mcast_joins[i] = <<s, g, a>>}
  <2>1. /\ igmp_use' = [igmp_use EXCEPT ![g] = @ - 1] /\ mc_open' = mc_open /\ igmp_use[g] > 0
        /\ mcast_joins' = IF own = {} THEN mcast_joins
                          ELSE [mcast_joins EXCEPT ![First(own)] = NoJoin]
        /\ mc_stuck' = IF own = {} /\ mc_stuck[g] > 0 THEN [mc_stuck EXCEPT ![g] = @ - 1]
                       ELSE mc_stuck
        /\ mc_addr' = mc_addr
    BY <1>8 DEF IP_DROP_MEMBERSHIP, igmp_leavegroup
  <2>2. igmp_use' \in [McGroups -> 0 .. McUses] /\ mc_stuck' \in [McGroups -> Nat]
    BY <1>1, <2>1
  <2>3. CASE own = {}
    <3>1. mcast_joins' = mcast_joins BY <2>1, <2>3
    <3>2. FreeRecords' = FreeRecords /\ \A h \in McGroups : RecordsFor(h)' = RecordsFor(h)
      BY <3>1 DEF FreeRecords, RecordsFor
    <3>3. \A h \in McGroups : igmp_use'[h] <= Cardinality(RecordsFor(h)') + mc_stuck'[h]
      <4> SUFFICES ASSUME NEW h \in McGroups
                   PROVE  igmp_use'[h] <= Cardinality(RecordsFor(h)) + mc_stuck'[h]
        BY <3>2
      <4>1. /\ igmp_use'[h] = IF h = g THEN igmp_use[h] - 1 ELSE igmp_use[h]
            /\ mc_stuck'[h] = IF h = g /\ mc_stuck[h] > 0 THEN mc_stuck[h] - 1 ELSE mc_stuck[h]
        BY <1>1, <2>1, <2>3
      <4> QED BY <1>1, <1>2, <1>5, <4>1
    <3> QED BY <1>1, <1>2, <2>1, <2>2, <3>1, <3>2, <3>3
  <2>4. CASE own # {}
    <3>1. own \in SUBSET RecordsFor(g) BY DEF RecordsOf, RecordsFor
    <3>2. own \in SUBSET Nat BY <1>4, <1>5, <3>1
    <3>3. PICK f : f = First(own) OBVIOUS
    <3>4. f \in own BY <2>4, <3>2, <3>3, Least DEF First
    <3>5. mcast_joins' = [mcast_joins EXCEPT ![f] = NoJoin] BY <2>1, <2>4, <3>3
    <3>6. f \in RecordsFor(g) /\ f \in McRecords \ FreeRecords BY <3>1, <3>4 DEF RecordsFor
    <3> HIDE DEF own
    <3>7. McRecords \ FreeRecords' = (McRecords \ FreeRecords) \ {f}
      BY <1>1, <3>5, <3>6 DEF FreeRecords
    <3>8. \A i \in McRecords \ FreeRecords' : mcast_joins'[i] = mcast_joins[i]
      BY <1>1, <3>5, <3>7
    <3>9. RecordsFor(g)' = RecordsFor(g) \ {f} BY <3>7, <3>8 DEF RecordsFor
    <3>10. Cardinality(RecordsFor(g)') = Cardinality(RecordsFor(g)) - 1
      BY <1>5, <3>6, <3>9, FS_RemoveElement
    <3>11. \A h \in McGroups \ {g} : RecordsFor(h)' = RecordsFor(h)
      BY <3>6, <3>7, <3>8 DEF RecordsFor
    <3>12. \A h \in McGroups : igmp_use'[h] <= Cardinality(RecordsFor(h)') + mc_stuck'[h]
      <4>1. mc_stuck' = mc_stuck BY <2>1, <2>4
      <4> QED BY <1>1, <1>2, <1>5, <2>1, <3>10, <3>11, <4>1
    <3>13. mcast_joins' \in [McRecords -> McJoins \cup {NoJoin}] BY <1>1, <3>5
    <3> QED BY <1>1, <1>2, <2>1, <2>2, <3>7, <3>8, <3>12, <3>13
  <2> QED BY <2>3, <2>4
<1>9. ASSUME NEW s \in McSlots, tn_mcast_leave_all(s) PROVE Good
  <2> DEFINE rec(g, r) == {i \in RecordsOf(s) : mcast_joins[i][2] = g
                                                /\ Reaches(mcast_joins[i][3]) = r}
             gone(g) == {i \in RecordsOf(s) : mcast_joins[i][2] = g}
  <2>1. /\ mcast_joins' = [i \in McRecords |->
                             IF i \in RecordsOf(s) THEN NoJoin ELSE mcast_joins[i]]
        /\ igmp_use' = [g \in McGroups |-> IF igmp_use[g] >= Cardinality(rec(g, TRUE))
                                           THEN igmp_use[g] - Cardinality(rec(g, TRUE)) ELSE 0]
        /\ mc_stuck' = [g \in McGroups |-> mc_stuck[g] + Cardinality(rec(g, FALSE))]
        /\ mc_open' = mc_open \ {s} /\ mc_addr' = mc_addr
    BY <1>9 DEF tn_mcast_leave_all
  <2>2. RecordsOf(s) \subseteq McRecords \ FreeRecords BY DEF RecordsOf
  <2>3. McRecords \ FreeRecords' = (McRecords \ FreeRecords) \ RecordsOf(s)
    BY <2>1, <2>2 DEF FreeRecords
  <2>4. \A i \in McRecords \ FreeRecords' : mcast_joins'[i] = mcast_joins[i]
    BY <2>1, <2>3
  <2>5. ASSUME NEW g \in McGroups
        PROVE  /\ igmp_use'[g] \in 0 .. McUses /\ mc_stuck'[g] \in Nat
               /\ igmp_use'[g] <= Cardinality(RecordsFor(g)') + mc_stuck'[g]
    <3>1. gone(g) \in SUBSET RecordsFor(g) BY <2>2 DEF RecordsFor
    <3>2. RecordsFor(g)' = RecordsFor(g) \ gone(g) BY <2>3, <2>4 DEF RecordsFor
    <3>3. IsFiniteSet(gone(g)) /\ Cardinality(gone(g)) \in Nat
      BY <1>5, <3>1, FS_Subset, FS_CardinalityType
    <3>4. RecordsFor(g) \cap gone(g) = gone(g) BY <3>1
    <3>5. Cardinality(RecordsFor(g) \ gone(g))
            = Cardinality(RecordsFor(g)) - Cardinality(RecordsFor(g) \cap gone(g))
      BY <1>5, <3>3, FS_Difference
    <3>6. PICK n : n = Cardinality(rec(g, TRUE)) OBVIOUS
    <3>7. PICK m : m = Cardinality(rec(g, FALSE)) OBVIOUS
    <3>8. n \in Nat /\ m \in Nat /\ Cardinality(gone(g)) = n + m
      <4>1. rec(g, TRUE) \cup rec(g, FALSE) = gone(g) BY DEF Reaches
      <4>2. rec(g, TRUE) \cap rec(g, FALSE) = {} OBVIOUS
      <4>3. rec(g, TRUE) \in SUBSET gone(g) /\ rec(g, FALSE) \in SUBSET gone(g) OBVIOUS
      <4> HIDE DEF rec, gone
      <4>4. IsFiniteSet(rec(g, TRUE)) /\ IsFiniteSet(rec(g, FALSE)) /\ n \in Nat /\ m \in Nat
        BY <3>3, <3>6, <3>7, <4>3, FS_Subset, FS_CardinalityType
      <4>5. Cardinality(rec(g, TRUE) \cup rec(g, FALSE))
              = n + m - Cardinality(rec(g, TRUE) \cap rec(g, FALSE))
        BY <3>6, <3>7, <4>4, FS_Union
      <4>6. Cardinality({}) = 0 BY FS_EmptySet
      <4>7. Cardinality(gone(g)) = n + m - 0 BY <4>1, <4>2, <4>5, <4>6
      <4> QED BY <4>4, <4>7
    <3>9. /\ igmp_use'[g] = IF igmp_use[g] >= n THEN igmp_use[g] - n ELSE 0
          /\ mc_stuck'[g] = mc_stuck[g] + m
      BY <2>1, <3>6, <3>7
    <3>10. Cardinality(RecordsFor(g)') \in Nat
      BY <1>5, <3>2, FS_Subset, FS_CardinalityType
    <3>11. Cardinality(RecordsFor(g)') = Cardinality(RecordsFor(g)) - (n + m)
      BY <3>2, <3>4, <3>5, <3>8
    <3>12. /\ igmp_use[g] \in 0 .. McUses /\ McUses \in Nat /\ mc_stuck[g] \in Nat
           /\ igmp_use[g] <= Cardinality(RecordsFor(g)) + mc_stuck[g]
           /\ Cardinality(RecordsFor(g)) \in Nat
      BY <1>1, <1>2, <1>5
    <3> HIDE DEF gone, rec
    <3> QED BY <3>8, <3>9, <3>10, <3>11, <3>12
  <2>6. \A i \in McRecords \ FreeRecords' : mcast_joins'[i][1] \in mc_open'
    BY <1>2, <2>1, <2>3, <2>4 DEF RecordsOf
  <2>7. mcast_joins' \in [McRecords -> McJoins \cup {NoJoin}] BY <1>1, <2>1
  <2>8. igmp_use' \in [McGroups -> 0 .. McUses] /\ mc_stuck' \in [McGroups -> Nat]
    BY <2>1, <2>5
  <2> QED BY <1>1, <2>1, <2>5, <2>6, <2>7, <2>8
<1>10. ASSUME UNCHANGED <<mcast_joins, igmp_use, mc_stuck>>, mc_addr' \in McAddrs,
              mc_open \subseteq mc_open', mc_open' \subseteq McSlots
       PROVE  Good
  <2>1. FreeRecords' = FreeRecords /\ \A h \in McGroups : RecordsFor(h)' = RecordsFor(h)
    BY <1>10 DEF FreeRecords, RecordsFor
  <2> QED BY <1>1, <1>2, <1>10, <2>1
<1>11. CASE \E s \in McSlots : McSocket(s) BY <1>1, <1>10, <1>11 DEF McSocket
<1>12. CASE UNCHANGED mcvars BY <1>1, <1>10, <1>12 DEF mcvars
<1>13. CASE McReaddress BY <1>1, <1>10, <1>13 DEF McReaddress
<1> QED BY <1>7, <1>8, <1>9, <1>11, <1>12, <1>13 DEF McNext

----------------------------------------------------------------------------
(* SocketOptions.                                                           *)

\* Seconds that setsockopt accepts become milliseconds without a carry out of
\* 32 bits, and come back as the same seconds.
LEMMA KeepIdle ==
    ASSUME OptAssumption, NEW a \in Int, a > 0, a <= (U32 - 1) \div MsPerSec
    PROVE  (a * MsPerSec) % U32 = a * MsPerSec /\ (a * MsPerSec) \div MsPerSec = a
<1>1. U32 \in Nat \ {0} /\ MsPerSec \in Nat \ {0} BY DEF OptAssumption
<1>2. a * MsPerSec \in Nat /\ a * MsPerSec <= U32 - 1 BY <1>1
<1>3. (a * MsPerSec) % U32 = a * MsPerSec BY <1>1, <1>2
<1>4. (a * MsPerSec) \div MsPerSec = a BY <1>1
<1> QED BY <1>3, <1>4

\* What is stored and written are integers.
LEMMA OptIntegers ==
    ASSUME OptAssumption
    PROVE  /\ StoredAtStart \in Int /\ LiveAtStart \in Int /\ NoOpt \notin Int
           /\ \A v \in OptInts : v \in Int /\ StoredAs(v) \in Int
           /\ \A v \in Int : v % U8 \in Int /\ v % U32 \in Int /\ v * MsPerSec \in Int
BY DEF OptAssumption, StoredAtStart, LiveAtStart, StoredAs

\* A record that is sound goes into its slot and leaves the others alone.
LEMMA PutKeeps ==
    ASSUME OptInv, NEW s \in OptSlots, NEW rec \in OptRecords, OptSound(rec), PutOpt(s, rec)
    PROVE  OptInv'
<1>1. oslot' = [oslot EXCEPT ![s] = rec] /\ opt_name' = opt_name BY DEF PutOpt
<1>2. oslot' \in [OptSlots -> OptRecords] BY <1>1 DEF OptInv
<1>3. \A t \in OptSlots : oslot'[t] = IF t = s THEN rec ELSE oslot[t] BY <1>1 DEF OptInv
<1>4. \A t \in OptSlots : OptSound(oslot[t])'
  BY <1>1, <1>3 DEF OptInv, OptSound, StoredFor, InForce
<1> QED BY <1>1, <1>2, <1>4 DEF OptInv

\* The accepted value is stored, and written where the pcb has the field.
LEMMA SetKeeps ==
    ASSUME OptAssumption, OptInv, NEW s \in OptSlots, NEW v \in OptInts,
           tn_ipc_cmd_setsockopt(s, v)
    PROVE  OptInv'
<1>1. PICK w : w = StoredAs(v) OBVIOUS
<1>2. PICK l : l = LiveAs(s, v) OBVIOUS
<1>3. PICK o : o = oslot[s] OBVIOUS
<1>4. o \in OptRecords /\ OptSound(o) /\ o.st # "free" /\ opt_name \in OptNames
  BY <1>3 DEF OptInv, tn_ipc_cmd_setsockopt
<1>5. w \in Int /\ v \in Int /\ NoOpt \notin Int BY <1>1, OptIntegers
<1>19. PICK y : y = IF o.st \in {"ESTABLISHED", "PEER_CLOSED"} THEN "on" ELSE "early" OBVIOUS
<1>6. PICK rec : rec = [o EXCEPT !.stored = w, !.live = l, !.asked = w, !.when = y] OBVIOUS
<1>7. PutOpt(s, rec)
  BY <1>1, <1>2, <1>3, <1>6, <1>19 DEF tn_ipc_cmd_setsockopt, Connected
<1>8. l = IF \/ opt_name = "SO_SNDBUF" \/ o.live = NoOpt
             \/ o.st = "LISTENING" /\ ~WritesListener
          THEN o.live ELSE IF opt_name = "TCP_KEEPIDLE" THEN (v * MsPerSec) % U32 ELSE w
  BY <1>1, <1>2, <1>3 DEF LiveAs
<1>9. (v * MsPerSec) % U32 \in Int BY <1>5, OptIntegers
<1>10. l \in Int \cup {NoOpt} /\ (l = NoOpt <=> o.live = NoOpt)
  BY <1>4, <1>5, <1>8, <1>9 DEF OptRecords
<1>11. rec \in OptRecords BY <1>4, <1>5, <1>6, <1>10, <1>19 DEF OptRecords
<1>12. /\ rec.st = o.st /\ rec.stored = w /\ rec.live = l /\ rec.mss = o.mss /\ rec.asked = w
       /\ rec.when = y
  BY <1>4, <1>6 DEF OptRecords
<1>13. ASSUME opt_name = "TCP_KEEPIDLE"
       PROVE  /\ w > 0 /\ w <= (U32 - 1) \div MsPerSec
              /\ l # NoOpt /\ o.st # "LISTENING" => l = w * MsPerSec
  <2>1. w = v /\ v > 0 /\ v <= (U32 - 1) \div MsPerSec
    BY <1>1, <1>13 DEF tn_ipc_cmd_setsockopt, AcceptsValue, StoredAs, Booleans
  <2>2. (v * MsPerSec) % U32 = v * MsPerSec BY <1>5, <2>1, KeepIdle
  <2> QED BY <1>8, <1>10, <1>13, <2>1, <2>2
<1>14. ASSUME opt_name = "TCP_MAXSEG", o.st \in {"ESTABLISHED", "PEER_CLOSED"}
       PROVE  l <= o.mss /\ l = w
  <2>1. o.live # NoOpt /\ o.live \in Int /\ o.mss \in Int /\ o.live <= o.mss
    BY <1>4, <1>14 DEF OptSound, OptRecords
  <2>2. v <= o.live /\ w = v
    BY <1>1, <1>3, <1>14, <2>1
    DEF tn_ipc_cmd_setsockopt, AcceptsValue, MaxSegLimit, Connected, StoredAs, Booleans
  <2>3. l = w BY <1>8, <1>14, <2>1
  <2> QED BY <1>5, <2>1, <2>2, <2>3
<1>15. ASSUME opt_name \in {"SO_KEEPALIVE", "SO_REUSEADDR", "IP_TTL"}, l # NoOpt PROVE l = w
  BY <1>8, <1>10, <1>15 DEF WritesListener
<1>16. ASSUME opt_name \in {"TCP_NODELAY", "TCP_MAXSEG"}, l # NoOpt, o.st # "LISTENING" PROVE l = w
  BY <1>8, <1>10, <1>16
<1>20. opt_name = "TCP_MAXSEG" => w > 0
  BY <1>1, <1>5 DEF tn_ipc_cmd_setsockopt, AcceptsValue, StoredAs, Booleans
<1>17. o.live = NoOpt <=> o.st \in {"free", "ERROR"} BY <1>4 DEF OptSound
<1>21. y \in {"on", "early"} /\ (y = "on" <=> o.st \in {"ESTABLISHED", "PEER_CLOSED"}) BY <1>19
<1>24. opt_name = "SO_SNDBUF" /\ l # NoOpt => l = 0 BY <1>4, <1>8 DEF OptSound
<1>22. rec.stored = StoredFor(rec) BY <1>12, <1>21 DEF StoredFor
<1>23. ASSUME l # NoOpt, o.st # "LISTENING" PROVE l = InForce(rec)
  <2>1. opt_name # "SO_SNDBUF" => l = w \/ (opt_name = "TCP_KEEPIDLE" /\ l = w * MsPerSec)
    BY <1>4, <1>13, <1>15, <1>16, <1>23 DEF OptNames, Booleans
  <2>2. y = "on" \/ o.st \in {"CLOSED", "CONNECTING"}
    BY <1>4, <1>10, <1>17, <1>21, <1>23 DEF OptRecords, OptStates, OptSound
  <2>3. CASE opt_name = "SO_SNDBUF"
    BY <1>4, <1>8, <1>23, <2>3 DEF InForce, OptSound
  <2>4. CASE opt_name # "SO_SNDBUF"
    BY <1>4, <1>12, <1>13, <1>15, <1>16, <1>21, <1>23, <2>1, <2>2, <2>4
    DEF InForce, OptNames, Booleans
  <2> QED BY <2>3, <2>4
<1>18. OptSound(rec)
  BY <1>4, <1>5, <1>10, <1>12, <1>13, <1>14, <1>15, <1>17, <1>20, <1>21, <1>22, <1>23, <1>24
  DEF OptSound
<1> QED BY <1>7, <1>11, <1>18, PutKeeps

\* The new slot inherits from the listener's slot and pcb.
LEMMA AcceptKeeps ==
    ASSUME OptAssumption, OptInv, NEW s \in OptSlots, OptAccept(s)
    PROVE  OptInv'
<1>1. PICK n \in OptSlots, mss \in 1 .. TCP_MSS :
        PutOpt(n, [st |-> "ESTABLISHED", stored |-> InheritStored(s),
                   live |-> InheritLive(s, mss), mss |-> mss,
                   asked |-> oslot[s].asked, when |-> "listener"])
  BY DEF OptAccept
<1>2. PICK o : o = oslot[s] OBVIOUS
<1>3. o \in OptRecords /\ OptSound(o) /\ o.st = "LISTENING" /\ opt_name \in OptNames
  BY <1>2 DEF OptInv, OptAccept
<1>4. PICK w : w = InheritStored(s) OBVIOUS
<1>5. PICK l : l = InheritLive(s, mss) OBVIOUS
<1>7. PICK rec : rec = [st |-> "ESTABLISHED", stored |-> w, live |-> l, mss |-> mss,
                        asked |-> o.asked, when |-> "listener"]
  OBVIOUS
<1>8. PutOpt(n, rec) BY <1>1, <1>2, <1>4, <1>5, <1>7
<1>9. /\ o.stored \in Int /\ o.live \in Int /\ mss \in Int /\ NoOpt \notin Int
      /\ o.asked \in Int \cup {NoOpt} /\ o.when = "early" /\ U8 - 1 \in Int
  BY <1>3, OptIntegers DEF OptRecords, OptSound, OptAssumption
<1>10. w \in Int BY <1>2, <1>4, <1>9, OptIntegers DEF InheritStored
<1>11. l \in Int
  <2>1. (o.stored * MsPerSec) % U32 \in Int BY <1>9, OptIntegers
  <2> QED BY <1>2, <1>5, <1>9, <2>1, OptIntegers DEF InheritLive
<1>12. rec \in OptRecords BY <1>7, <1>9, <1>10, <1>11 DEF OptRecords, OptStates
<1>13. /\ rec.st = "ESTABLISHED" /\ rec.stored = w /\ rec.live = l /\ rec.mss = mss
       /\ rec.asked = o.asked /\ rec.when = "listener"
  BY <1>7
<1>14. ASSUME o.asked # NoOpt PROVE o.asked = o.stored /\ o.asked \in Int
  BY <1>3, <1>9, <1>14 DEF OptSound, StoredFor
<1>15. ASSUME o.asked # NoOpt, opt_name = "TCP_KEEPIDLE"
       PROVE  /\ o.asked > 0 /\ o.asked <= (U32 - 1) \div MsPerSec
              /\ l = o.asked * MsPerSec
  <2>1. o.asked > 0 /\ o.asked <= (U32 - 1) \div MsPerSec BY <1>3, <1>15 DEF OptSound
  <2>2. l = (o.asked * MsPerSec) % U32 BY <1>2, <1>5, <1>14, <1>15, <2>1 DEF InheritLive
  <2> QED BY <1>14, <1>15, <2>1, <2>2, KeepIdle
<1>16. ASSUME o.asked # NoOpt, opt_name \in {"SO_KEEPALIVE", "SO_REUSEADDR"} PROVE l = o.asked
  BY <1>2, <1>3, <1>5, <1>9, <1>16 DEF InheritLive, OptSound
<1>17. ASSUME opt_name = "TCP_MAXSEG"
       PROVE  /\ l <= mss
              /\ o.asked # NoOpt => o.asked > 0 /\ l = IF o.asked < mss THEN o.asked ELSE mss
  <2>1. l = IF o.stored > 0 /\ o.stored < mss THEN o.stored ELSE mss
    BY <1>2, <1>5, <1>17 DEF InheritLive
  <2>2. o.asked # NoOpt => o.asked > 0 BY <1>3, <1>17 DEF OptSound
  <2> QED BY <1>9, <1>14, <2>1, <2>2
<1>18. ASSUME o.asked # NoOpt PROVE l = InForce(rec)
  <2>1. CASE opt_name \in {"SO_KEEPALIVE", "SO_REUSEADDR"}
    BY <1>13, <1>16, <1>18, <2>1 DEF InForce
  <2>2. CASE opt_name = "TCP_KEEPIDLE" BY <1>13, <1>15, <1>18, <2>2 DEF InForce
  <2>3. CASE opt_name = "TCP_MAXSEG" BY <1>13, <1>17, <1>18, <2>3 DEF InForce
  <2>4. CASE opt_name = "IP_TTL"
    BY <1>5, <1>13, <2>4 DEF InForce, InheritLive, LiveAtStart
  <2>5. CASE opt_name = "TCP_NODELAY" BY <1>5, <1>13, <2>5 DEF InForce, InheritLive
  <2>6. CASE opt_name = "SO_SNDBUF"
    BY <1>5, <1>13, <2>6 DEF InForce, InheritLive, LiveAtStart
  <2> QED BY <1>3, <2>1, <2>2, <2>3, <2>4, <2>5, <2>6 DEF OptNames, Booleans
<1>19. ASSUME o.asked # NoOpt PROVE w = StoredFor(rec)
  BY <1>2, <1>4, <1>13, <1>14, <1>19 DEF InheritStored, StoredFor, StoredAtStart, Booleans
<1>20. opt_name = "SO_SNDBUF" => l = 0 BY <1>5 DEF InheritLive, LiveAtStart
<1>21. OptSound(rec)
  BY <1>9, <1>11, <1>13, <1>15, <1>16, <1>17, <1>18, <1>19, <1>20 DEF OptSound
<1> QED BY <1>8, <1>12, <1>21, PutKeeps

\* No slot is in use.
LEMMA OptStarts == OptAssumption /\ OptInit => OptInv
<1> SUFFICES ASSUME OptAssumption, OptInit PROVE OptInv OBVIOUS
<1>1. FreeOpt \in OptRecords BY DEF FreeOpt, OptRecords, OptStates
<1>2. OptSound(FreeOpt) BY DEF FreeOpt, OptSound
<1> QED BY <1>1, <1>2 DEF OptInit, OptInv

\* Every call and every event of a connection keeps the options.
LEMMA OptKeeps == OptAssumption /\ OptInv /\ [OptNext]_optvars => OptInv'
<1> SUFFICES ASSUME OptAssumption, OptInv, [OptNext]_optvars PROVE OptInv' OBVIOUS
<1>0. CASE UNCHANGED optvars BY <1>0 DEF optvars, OptInv, OptSound, StoredFor, InForce
<1> SUFFICES ASSUME NEW s \in OptSlots,
                    \/ OptSocket(s) \/ OptConnect(s) \/ OptConnected(s) \/ OptListen(s)
                    \/ OptAccept(s) \/ OptPeer(s) \/ OptClose(s)
                    \/ \E v \in OptInts : tn_ipc_cmd_setsockopt(s, v)
             PROVE  OptInv'
  BY <1>0 DEF OptNext
<1>1. oslot[s] \in OptRecords /\ OptSound(oslot[s]) /\ NoOpt \notin Int
  BY OptIntegers DEF OptInv
<1>2. CASE OptSocket(s)
  <2>1. FreeOpt \in OptRecords BY DEF FreeOpt, OptRecords, OptStates
  <2>2. NewOpt \in OptRecords BY <2>1, OptIntegers DEF NewOpt, OptRecords, OptStates
  <2>3. NewOpt.st = "CLOSED" /\ NewOpt.live \in Int BY <2>1, OptIntegers DEF NewOpt, OptRecords
  <2>4. NewOpt.asked = FreeOpt.asked BY <2>1 DEF NewOpt, OptRecords
  <2>5. FreeOpt.asked = NoOpt BY DEF FreeOpt
  <2>7. NewOpt.when = "early" BY <2>1 DEF NewOpt, FreeOpt, OptRecords
  <2>8. opt_name = "SO_SNDBUF" => NewOpt.live = 0 BY <2>1 DEF NewOpt, LiveAtStart, OptRecords
  <2>6. OptSound(NewOpt) BY <2>3, <2>4, <2>5, <2>7, <2>8, OptIntegers DEF OptSound
  <2> QED BY <1>2, <2>2, <2>6, PutKeeps DEF OptSocket
<1>3. ASSUME NEW t \in {"CONNECTING", "LISTENING", "PEER_CLOSED"},
             oslot[s].st \in {"CLOSED", "ESTABLISHED"},
             oslot[s].live # NoOpt,
             oslot[s].st = IF t = "PEER_CLOSED" THEN "ESTABLISHED" ELSE "CLOSED",
             PutOpt(s, [oslot[s] EXCEPT !.st = t])
      PROVE  OptInv'
  <2>1. PICK o : o = oslot[s] OBVIOUS
  <2>2. PICK rec : rec = [o EXCEPT !.st = t] OBVIOUS
  <2>3. rec \in OptRecords BY <1>1, <2>1, <2>2 DEF OptRecords, OptStates
  <2>4. /\ rec.st = t /\ rec.stored = o.stored /\ rec.live = o.live /\ rec.mss = o.mss
        /\ rec.asked = o.asked /\ rec.when = o.when
    BY <1>1, <2>1, <2>2 DEF OptRecords
  <2>6. StoredFor(rec) = StoredFor(o) BY <2>4 DEF StoredFor
  <2>7. t # "LISTENING" => InForce(rec) = InForce(o) BY <1>3, <2>1, <2>4 DEF InForce
  <2>5. OptSound(rec) BY <1>1, <1>3, <2>1, <2>4, <2>6, <2>7 DEF OptSound
  <2> QED BY <1>3, <2>1, <2>2, <2>3, <2>5, PutKeeps
<1>4. CASE OptConnect(s) BY <1>3, <1>4 DEF OptConnect
<1>5. CASE OptListen(s) BY <1>3, <1>5 DEF OptListen
<1>6. CASE OptConnected(s)
  <2>1. PICK mss \in 1 .. TCP_MSS :
          PutOpt(s, [oslot[s] EXCEPT !.st = "ESTABLISHED", !.mss = mss,
                       !.live = CASE opt_name = "TCP_MAXSEG" -> mss
                                  [] opt_name = "TCP_NODELAY" -> 1
                                  [] OTHER -> oslot[s].live])
    BY <1>6 DEF OptConnected
  <2>2. PICK o : o = oslot[s] OBVIOUS
  <2>3. PICK l : l = CASE opt_name = "TCP_MAXSEG" -> mss
                       [] opt_name = "TCP_NODELAY" -> 1
                       [] OTHER -> o.live
    OBVIOUS
  <2>4. PICK rec : rec = [o EXCEPT !.st = "ESTABLISHED", !.mss = mss, !.live = l] OBVIOUS
  <2>5. PutOpt(s, rec) BY <2>1, <2>2, <2>3, <2>4
  <2>6. o.st = "CONNECTING" /\ o.live # NoOpt /\ o.live \in Int /\ mss \in Int
    <3>1. o.st = "CONNECTING" /\ o.live \in Int \cup {NoOpt}
      BY <1>1, <1>6, <2>2 DEF OptConnected, OptRecords
    <3>2. o.live # NoOpt BY <1>1, <2>2, <3>1 DEF OptSound
    <3>3. mss \in Int BY DEF OptAssumption
    <3> QED BY <3>1, <3>2, <3>3
  <2>7. l \in Int BY <2>3, <2>6
  <2>8. rec \in OptRecords BY <1>1, <2>2, <2>4, <2>6, <2>7 DEF OptRecords, OptStates
  <2>9. /\ rec.st = "ESTABLISHED" /\ rec.stored = o.stored /\ rec.live = l /\ rec.mss = mss
        /\ rec.asked = o.asked /\ rec.when = o.when
    BY <1>1, <2>2, <2>4 DEF OptRecords
  <2>10. /\ opt_name = "TCP_MAXSEG" => l = mss
         /\ opt_name = "TCP_NODELAY" => l = 1
         /\ opt_name \notin {"TCP_MAXSEG", "TCP_NODELAY"} => l = o.live
    BY <2>3
  <2>12. o.when = "early" /\ StoredFor(rec) = StoredFor(o)
    BY <1>1, <2>2, <2>6, <2>9 DEF OptSound, StoredFor
  <2>13. o.asked # NoOpt => o.live = InForce(o) BY <1>1, <2>2, <2>6 DEF OptSound
  <2>14. o.asked # NoOpt => l = InForce(rec)
    BY <2>6, <2>9, <2>10, <2>12, <2>13 DEF InForce
  <2>11. OptSound(rec) BY <1>1, <2>2, <2>6, <2>7, <2>9, <2>10, <2>12, <2>14 DEF OptSound
  <2> QED BY <2>5, <2>8, <2>11, PutKeeps
<1>7. CASE OptPeer(s)
  <2>1. CASE oslot[s].st = "ESTABLISHED" /\ PutOpt(s, [oslot[s] EXCEPT !.st = "PEER_CLOSED"])
    BY <1>1, <1>3, <2>1 DEF OptSound
  <2>2. CASE /\ oslot[s].st \in {"CONNECTING", "ESTABLISHED", "PEER_CLOSED"}
             /\ PutOpt(s, [oslot[s] EXCEPT !.st = "ERROR", !.live = NoOpt])
    <3>1. PICK o : o = oslot[s] OBVIOUS
    <3>2. PICK rec : rec = [o EXCEPT !.st = "ERROR", !.live = NoOpt] OBVIOUS
    <3>3. rec \in OptRecords BY <1>1, <3>1, <3>2 DEF OptRecords, OptStates
    <3>4. /\ rec.st = "ERROR" /\ rec.stored = o.stored /\ rec.live = NoOpt
          /\ rec.asked = o.asked /\ rec.when = o.when
      BY <1>1, <3>1, <3>2 DEF OptRecords
    <3>6. StoredFor(rec) = StoredFor(o) BY <3>4 DEF StoredFor
    <3>5. OptSound(rec) BY <1>1, <3>1, <3>4, <3>6 DEF OptSound
    <3> QED BY <2>2, <3>1, <3>2, <3>3, <3>5, PutKeeps
  <2> QED BY <1>7, <2>1, <2>2 DEF OptPeer
<1>8. CASE OptClose(s)
  <2>1. FreeOpt \in OptRecords BY DEF FreeOpt, OptRecords, OptStates
  <2>2. OptSound(FreeOpt) BY DEF FreeOpt, OptSound
  <2> QED BY <1>8, <2>1, <2>2, PutKeeps DEF OptClose
<1> QED BY <1>2, <1>4, <1>5, <1>6, <1>7, <1>8, SetKeeps, AcceptKeeps

\* What getsockopt reports and the pcb does is what was asked, or what the code
\* puts in its place.
LEMMA OptHolds == OptAssumption /\ OptInv => OptionInForce
<1> SUFFICES ASSUME OptAssumption, OptInv, NEW s \in OptSlots
             PROVE  /\ oslot[s].asked # NoOpt => Reported(s) = Answer(oslot[s])
                    /\ oslot[s].asked # NoOpt /\ oslot[s].live # NoOpt /\ oslot[s].st # "LISTENING" =>
                          oslot[s].live = InForce(oslot[s])
                    /\ opt_name = "TCP_MAXSEG" /\ Connected(s) => oslot[s].live <= oslot[s].mss
  BY DEF OptionInForce
<1>1. oslot[s] \in OptRecords /\ OptSound(oslot[s]) BY DEF OptInv
<1>2. ASSUME oslot[s].asked # NoOpt PROVE Reported(s) = Answer(oslot[s])
  <2>1. PICK r : r = oslot[s] OBVIOUS
  <2>2. r.asked \in Int /\ r.stored = StoredFor(r) /\ (r.live = NoOpt => r.st # "LISTENING")
    BY <1>1, <1>2, <2>1 DEF OptRecords, OptSound
  <2>3. r.live # NoOpt /\ r.st # "LISTENING" => r.live = InForce(r) BY <1>1, <1>2, <2>1 DEF OptSound
  <2>4. CASE opt_name = "TCP_KEEPIDLE" /\ r.st # "LISTENING" /\ r.live # NoOpt
    <3>1. /\ r.live = r.asked * MsPerSec /\ r.asked > 0
          /\ r.asked <= (U32 - 1) \div MsPerSec
      BY <1>1, <1>2, <2>1, <2>3, <2>4 DEF OptSound, InForce
    <3>2. r.live \div MsPerSec = r.asked BY <2>2, <3>1, KeepIdle
    <3>3. Reported(s) = r.asked BY <2>1, <2>4, <3>2 DEF Reported
    <3>4. Answer(r) = r.asked BY <2>4 DEF Answer
    <3> QED BY <2>1, <3>3, <3>4
  <2>5. CASE opt_name = "TCP_MAXSEG"
    <3>1. r.stored = r.asked /\ r.asked > 0 BY <1>1, <1>2, <2>1, <2>2, <2>5 DEF StoredFor, OptSound
    <3>2. CASE r.st = "LISTENING"
      <4>1. Reported(s) = r.asked BY <2>1, <2>2, <2>5, <3>1, <3>2 DEF Reported
      <4>2. Answer(r) = r.asked BY <2>2, <2>5, <3>2 DEF Answer
      <4> QED BY <2>1, <4>1, <4>2
    <3>3. CASE r.st # "LISTENING"
      <4>1. Reported(s) = IF r.live # NoOpt THEN r.live ELSE TCP_MSS
        BY <2>1, <2>5, <3>3 DEF Reported
      <4>2. Answer(r) = IF r.live = NoOpt THEN TCP_MSS ELSE InForce(r) BY <2>5, <3>3 DEF Answer
      <4> QED BY <2>1, <2>3, <3>3, <4>1, <4>2
    <3> QED BY <3>2, <3>3
  <2>6. CASE /\ ~(opt_name = "TCP_KEEPIDLE" /\ r.st # "LISTENING" /\ r.live # NoOpt)
             /\ opt_name # "TCP_MAXSEG"
    <3>1. Reported(s) = r.stored BY <2>1, <2>6 DEF Reported
    <3>2. Answer(r) = StoredFor(r) BY <2>6 DEF Answer, StoredFor
    <3> QED BY <2>1, <2>2, <3>1, <3>2
  <2> QED BY <2>4, <2>5, <2>6
<1> QED BY <1>1, <1>2 DEF OptSound, Connected

----------------------------------------------------------------------------
(* Arithmetic of counters that wrap.                                        *)

\* Division with remainder.
LEMMA DivMod ==
    ASSUME NEW M \in Nat \ {0}, NEW a \in Int
    PROVE  a \div M \in Int /\ a % M \in 0 .. M - 1 /\ a = M * (a \div M) + (a % M)
OBVIOUS

\* Multiplication distributes.
LEMMA Distributes ==
    ASSUME NEW M \in Nat, NEW i \in Int, NEW j \in Int
    PROVE  M * (i + j) = M * i + M * j
OBVIOUS

\* Where a multiple lies says which one it is.
LEMMA Multiples ==
    ASSUME NEW M \in Nat \ {0}, NEW e \in Int
    PROVE  (M * e > 0 - M => e > -1) /\ (M * e < 2 * M => e < 2)
<1>1. ASSUME e <= -1 PROVE M * e <= 0 - M BY <1>1
<1>2. ASSUME e >= 2 PROVE M * e >= 2 * M BY <1>2
<1>3. M * e \in Int OBVIOUS
<1> QED BY <1>1, <1>2, <1>3

\* The remainder is the only one.
LEMMA ModUnique ==
    ASSUME NEW M \in Nat \ {0}, NEW d \in 0 .. M - 1, NEW k \in Int
    PROVE  (d + M * k) % M = d
OBVIOUS

\* The difference of two counters that wrap, less than a turn apart.
LEMMA ModDiff ==
    ASSUME NEW M \in Nat \ {0}, NEW x \in Int, NEW y \in Int, NEW d \in 0 .. M - 1, x - y = d
    PROVE  ((x % M) - (y % M)) % M = d
<1>1. PICK i \in Int, a \in 0 .. M - 1 : x = M * i + a /\ a = x % M BY DivMod
<1>2. PICK j \in Int, b \in 0 .. M - 1 : y = M * j + b /\ b = y % M BY DivMod
<1>3. PICK k \in Int : k = j - i OBVIOUS
<1>4. M * k = M * j - M * i
  <2>1. M * j = M * k + M * i BY <1>3, Distributes
  <2>2. M * j \in Int /\ M * k \in Int /\ M * i \in Int OBVIOUS
  <2> QED BY <2>1, <2>2
<1>5. PICK p \in Int, q \in Int : p = M * i /\ q = M * j OBVIOUS
<1>6. a - b = d + M * k
  <2>1. x = p + a BY <1>1, <1>5
  <2>2. y = q + b BY <1>2, <1>5
  <2>3. M * k = q - p BY <1>4, <1>5
  <2>4. a \in Int /\ b \in Int /\ d \in Int OBVIOUS
  <2>5. a - b = d + (q - p) BY <2>1, <2>2, <2>4
  <2> QED BY <2>3, <2>5
<1>7. (a - b) % M = d BY <1>6, ModUnique
<1> QED BY <1>1, <1>2, <1>7

\* Adding to a remainder.
LEMMA ModAdd ==
    ASSUME NEW M \in Nat \ {0}, NEW x \in Int, NEW k \in Int
    PROVE  ((x % M) + k) % M = (x + k) % M
<1>1. PICK i \in Int, a \in 0 .. M - 1 : x = M * i + a /\ a = x % M BY DivMod
<1>0. PICK c \in Int : c = a + k OBVIOUS
<1>2. PICK j \in Int, b \in 0 .. M - 1 : c = M * j + b /\ b = c % M BY DivMod
<1>3. PICK n \in Int : n = i + j OBVIOUS
<1>4. M * n = M * i + M * j BY <1>3, Distributes
<1>5. PICK p \in Int, q \in Int : p = M * i /\ q = M * j OBVIOUS
<1>6. x + k = b + M * n
  <2>1. x = p + a BY <1>1, <1>5
  <2>2. a + k = q + b BY <1>0, <1>2, <1>5
  <2>3. M * n = p + q BY <1>4, <1>5
  <2>4. a \in Int /\ b \in Int OBVIOUS
  <2>5. x + k = b + (p + q) BY <2>1, <2>2, <2>4
  <2> QED BY <2>3, <2>5
<1>7. (x + k) % M = b BY <1>6, ModUnique, ZenonT(60)
<1> QED BY <1>0, <1>1, <1>2, <1>7

\* Rounding down apart or together differs by one at most.
LEMMA DivStep ==
    ASSUME NEW P \in Nat \ {0}, NEW a \in Nat, NEW d \in Nat
    PROVE  ((a + d) \div P) - (a \div P) - (d \div P) \in {0, 1}
<1>1. PICK i \in Int, x \in 0 .. P - 1 : a = P * i + x /\ i = a \div P BY DivMod
<1>2. PICK j \in Int, y \in 0 .. P - 1 : d = P * j + y /\ j = d \div P BY DivMod
<1>3. PICK k \in Int, z \in 0 .. P - 1 : a + d = P * k + z /\ k = (a + d) \div P BY DivMod
<1>4. PICK e \in Int : e = k - i - j OBVIOUS
<1>5. PICK p \in Int, q \in Int, r \in Int, s \in Int :
        p = P * i /\ q = P * j /\ r = P * k /\ s = P * e
  OBVIOUS
<1>6. r = s + p + q
  <2>1. e + i \in Int /\ k = (e + i) + j BY <1>4
  <2>2. P * k = P * (e + i) + P * j BY <2>1, Distributes
  <2>3. P * (e + i) = P * e + P * i BY Distributes
  <2> QED BY <1>5, <2>2, <2>3
<1>7. s = x + y - z
  <2>1. a = p + x /\ d = q + y /\ a + d = r + z BY <1>1, <1>2, <1>3, <1>5
  <2>2. x \in Int /\ y \in Int /\ z \in Int OBVIOUS
  <2> QED BY <1>6, <2>1, <2>2
<1>8. s > 0 - P /\ s < 2 * P BY <1>7
<1>9. e > -1 /\ e < 2 BY <1>5, <1>8, Multiples
<1> QED BY <1>1, <1>2, <1>3, <1>4, <1>9

\* Half a turn of a clock, in whole units, is less than a turn.
LEMMA Turn ==
    ASSUME NEW P \in Nat \ {0}, NEW M \in Nat \ {0, 1}, NEW a \in Nat, NEW d \in Nat,
           d <= (M * P) \div 2
    PROVE  ((a + d) \div P) - (a \div P) \in 0 .. M - 1
<1>1. PICK i \in Int, x \in 0 .. P - 1 : a = P * i + x /\ i = a \div P BY DivMod
<1>2. PICK k \in Int, z \in 0 .. P - 1 : a + d = P * k + z /\ k = (a + d) \div P BY DivMod
<1>3. PICK e \in Int : e = k - i OBVIOUS
<1>4. P * e = P * k - P * i
  <2>1. P * k = P * e + P * i BY <1>3, Distributes
  <2>2. P * k \in Int /\ P * e \in Int /\ P * i \in Int OBVIOUS
  <2> QED BY <2>1, <2>2
<1>5. PICK p \in Int, q \in Int : p = P * i /\ q = P * k OBVIOUS
<1>6. d = P * e + z - x
  <2>1. a = p + x BY <1>1, <1>5
  <2>2. a + d = q + z BY <1>2, <1>5
  <2>3. P * e = q - p BY <1>4, <1>5
  <2>4. x \in Int /\ z \in Int OBVIOUS
  <2>5. d = (q - p) + z - x BY <2>1, <2>2, <2>4
  <2> QED BY <2>3, <2>5
<1>7. e >= 0
  <2>1. PICK f \in Int : f = P * e OBVIOUS
  <2>2. d = f + z - x BY <1>6, <2>1
  <2>3. f > 0 - P BY <2>2
  <2> QED BY <2>1, <2>3, Multiples
<1>8. e <= M - 1
  <2>1. SUFFICES ASSUME e >= M PROVE FALSE BY <1>3
  <2>2. P * e >= P * M BY <2>1
  <2>3. PICK m \in Int : m = P * M OBVIOUS
  <2>4. m >= 2 * P BY <2>3
  <2>5. M * P = m BY <2>3
  <2>6. 2 * d <= m BY <2>5
  <2>7. P * e >= m BY <2>2, <2>3
  <2>8. PICK f \in Int : f = P * e OBVIOUS
  <2>9. d = f + z - x /\ f >= m BY <1>6, <2>7, <2>8
  <2> QED BY <2>4, <2>6, <2>9
<1> QED BY <1>1, <1>2, <1>3, <1>7, <1>8

\* A wrapped counter's signed comparison: of a deadline r ticks ahead of t, less
\* than half a turn, the next tick is past it when r is 1 and not before.
LEMMA Late ==
    ASSUME NEW T \in Nat \ {0}, NEW t \in 0 .. T - 1, NEW r \in Nat, r >= 1, r <= T \div 2
    PROVE  LET cur == (t + 1) % T
               d == (t + r) % T
           IN /\ (cur + T - d) % T < T \div 2 <=> r = 1
              /\ d = (cur + (r - 1)) % T
<1> DEFINE cur == (t + 1) % T
           d == (t + r) % T
<1>1. cur \in Int /\ d \in Int BY DivMod
<1>2. d = (cur + (r - 1)) % T
  <2>1. t + 1 \in Int /\ r - 1 \in Int /\ (t + 1) + (r - 1) = t + r OBVIOUS
  <2> QED BY <2>1, ModAdd
<1>3. (cur + T - d) % T = IF r = 1 THEN 0 ELSE T - (r - 1)
  <2>1. CASE r = 1
    <3>1. cur + T - d = 0 + T * 1 BY <1>1, <2>1
    <3>2. (0 + T * 1) % T = 0 BY ModUnique
    <3> QED BY <2>1, <3>1, <3>2
  <2>2. CASE r # 1
    <3>1. T - (r - 1) \in 0 .. T - 1 BY <2>2
    <3>2. t + 1 + T \in Int /\ t + r \in Int /\ (t + 1 + T) - (t + r) = T - (r - 1) OBVIOUS
    <3>3. (((t + 1 + T) % T) - ((t + r) % T)) % T = T - (r - 1) BY <3>1, <3>2, ModDiff
    <3>4. (t + 1 + T) % T = (cur + T) % T
      <4>1. t + 1 \in Int /\ T \in Int /\ (t + 1) + T = t + 1 + T OBVIOUS
      <4> QED BY <4>1, ModAdd
    <3>5. PICK n \in Int, e \in Int : n = cur + T /\ e = 0 - d
      <4> HIDE DEF cur, d
      <4>1. cur + T \in Int /\ 0 - d \in Int BY <1>1
      <4> QED BY <4>1
    <3>6. ((n % T) + e) % T = (n + e) % T BY ModAdd
    <3>7. n % T \in Int BY DivMod
    <3>8. (n % T) + e = (n % T) - d /\ n + e = cur + T - d BY <1>1, <3>5, <3>7
    <3>9. ((n % T) - d) % T = T - (r - 1) BY <3>3, <3>4, <3>5
    <3> HIDE DEF cur, d
    <3> QED BY <2>2, <3>6, <3>8, <3>9
  <2> QED BY <2>1, <2>2
<1>4. T \div 2 > 0 /\ T - (r - 1) >= T \div 2 /\ T \div 2 \in Int BY DivMod
<1> HIDE DEF cur, d
<1>5. (cur + T - d) % T < T \div 2 <=> r = 1 BY <1>3, <1>4
<1> QED BY <1>2, <1>5 DEF cur, d

----------------------------------------------------------------------------
(* Clock.                                                                   *)

\* The timer is closed.
LEMMA ClStarts == ClAssumption /\ ClInit => ClInv
<1> SUFFICES ASSUME ClAssumption, ClInit PROVE ClInv OBVIOUS
<1>1. cl_armed = FALSE /\ cl_clash = FALSE /\ cl_held = {} /\ cl_io = "none" /\ cl_pc = "off"
  BY DEF ClInit
<1>2. cl_io \notin {"device", "done"} BY <1>1
<1>3. cl_armed \in BOOLEAN /\ TimerRequestsOurs BY <1>1, <1>2 DEF TimerRequestsOurs
<1>4. cl_boot \in Nat /\ eclock \in Nat /\ cl_now \in Int /\ cl_at = -1
  BY DEF ClInit, ClAssumption
<1> QED BY <1>1, <1>3, <1>4 DEF ClInv

\* Every call of timers.c keeps the request's owner and the time sys_now told.
LEMMA ClKeeps == ClAssumption /\ ClInv /\ [ClNext]_clvars => ClInv'
<1> SUFFICES ASSUME ClAssumption, ClInv, [ClNext]_clvars PROVE ClInv' OBVIOUS
<1> USE DEF ClInv, TimerRequestsOurs
<1>1. CASE tn_timer_init
  <2>1. cl_armed' = FALSE BY <1>1 DEF tn_timer_init
  <2>2. cl_pc = "off" /\ cl_io = "none" /\ cl_held = {} /\ cl_at = -1 /\ ~cl_clash
    BY <1>1 DEF tn_timer_init
  <2>3. UNCHANGED <<eclock, cl_now, cl_at, cl_clash>> BY <1>1 DEF tn_timer_init
  <2>4. CASE UNCHANGED <<cl_pc, cl_held, cl_io, cl_boot>> BY <2>1, <2>2, <2>3, <2>4
  <2>5. CASE cl_io' = "idle" /\ cl_boot' = eclock /\ cl_pc' = "open"
    <3>1. cl_armed' \in BOOLEAN /\ (cl_armed' <=> cl_io' \in {"device", "done"}) BY <2>1, <2>5
    <3>2. TimerRequestsOurs' BY <2>2, <2>3, <2>5, <3>1
    <3> QED BY <2>2, <2>3, <2>5, <3>1, <3>2
  <2> QED BY <1>1, <2>4, <2>5 DEF tn_timer_init
<1>2. CASE tn_rand_init BY <1>2 DEF tn_rand_init, Asks
<1>3. CASE tn_timer_arm BY <1>3 DEF tn_timer_arm
<1>4. CASE TimerDone BY <1>4 DEF TimerDone
<1>5. CASE tn_timer_ack BY <1>5 DEF tn_timer_ack
<1>6. CASE tn_timer_fini
  <2>1. /\ cl_pc' = "off" /\ cl_io' = "none" /\ cl_held' = {} /\ cl_now' = 0 /\ cl_at' = -1
        /\ UNCHANGED <<cl_boot, eclock, cl_clash>>
    BY <1>6 DEF tn_timer_fini
  <2>2. cl_armed' = FALSE BY <1>6 DEF tn_timer_fini
  <2>3. cl_armed' \in BOOLEAN /\ (cl_armed' <=> cl_io' \in {"device", "done"}) BY <2>1, <2>2
  <2> QED BY <2>1, <2>3
<1>7. CASE sys_now
  <2>1. cl_now' = ((eclock - cl_boot) \div ClPerMs) % ClModulus /\ cl_at' = eclock
    BY <1>7 DEF sys_now, tn_eclock_to_ms
  <2>2. (eclock - cl_boot) \div ClPerMs \in Int BY DivMod DEF ClAssumption
  <2>3. cl_now' \in Int BY <2>1, <2>2, DivMod DEF ClAssumption
  <2>4. eclock - eclock <= (ClModulus * ClPerMs) \div 2
    <3>1. ClModulus * ClPerMs \in Nat BY DEF ClAssumption
    <3> QED BY <3>1
  <2> QED BY <1>7, <2>1, <2>3, <2>4 DEF sys_now
<1>8. CASE ClTick
  <2>1. (ClModulus * ClPerMs) \div 2 \in Int
    <3>1. ClModulus * ClPerMs \in Int BY DEF ClAssumption
    <3> QED BY <3>1
  <2> QED BY <1>8, <2>1 DEF ClTick
<1>9. CASE UNCHANGED clvars BY <1>9 DEF clvars
<1> QED BY <1>1, <1>2, <1>3, <1>4, <1>5, <1>6, <1>7, <1>8, <1>9 DEF ClNext

\* Two readings of sys_now differ by the time between them.
LEMMA ClRuns == ClAssumption /\ ClInv /\ [ClNext]_clvars => ClockAdvances
<1> SUFFICES ASSUME ClAssumption, ClInv, [ClNext]_clvars, cl_at # -1, cl_at' # -1
             PROVE  ((cl_now' - cl_now) % ClModulus) - ((cl_at' - cl_at) \div ClPerMs) \in {0, 1}
  BY DEF ClockAdvances
<1>0. ClModulus \in Nat \ {0, 1} /\ ClPerMs \in Nat \ {0} BY DEF ClAssumption
<1>1. CASE sys_now
  <2>1. PICK a \in Nat, d \in Nat : a = cl_at - cl_boot /\ d = eclock - cl_at
    <3>1. cl_at - cl_boot \in Nat /\ eclock - cl_at \in Nat BY DEF ClInv
    <3> QED BY <3>1
  <2>2. eclock - cl_boot = a + d /\ d <= (ClModulus * ClPerMs) \div 2 BY <2>1 DEF ClInv
  <2>3. PICK x \in Int, y \in Int : x = (a + d) \div ClPerMs /\ y = a \div ClPerMs
    <3>1. (a + d) \div ClPerMs \in Int /\ a \div ClPerMs \in Int BY <1>0
    <3> QED BY <3>1
  <2>4. cl_now' = x % ClModulus /\ cl_at' = eclock
    BY <1>1, <2>2, <2>3 DEF sys_now, tn_eclock_to_ms, ClInv
  <2>5. cl_now = y % ClModulus BY <2>1, <2>3 DEF ClInv
  <2>6. x - y \in 0 .. ClModulus - 1 BY <1>0, <2>2, <2>3, Turn
  <2>7. ((x % ClModulus) - (y % ClModulus)) % ClModulus = x - y
    <3>1. PICK e \in 0 .. ClModulus - 1 : e = x - y BY <2>6
    <3> QED BY <1>0, <3>1, ModDiff
  <2>8. x - y - (d \div ClPerMs) \in {0, 1} BY <1>0, <2>3, DivStep
  <2>9. (cl_now' - cl_now) % ClModulus = x - y BY <2>4, <2>5, <2>7
  <2>10. cl_at' - cl_at = d BY <2>1, <2>4
  <2> QED BY <2>8, <2>9, <2>10
<1>2. CASE UNCHANGED <<cl_now, cl_at>>
  <2>1. cl_now' - cl_now = 0 /\ cl_at' - cl_at = 0 BY <1>2 DEF ClInv
  <2>2. 0 % ClModulus = 0 /\ 0 \div ClPerMs = 0 BY <1>0
  <2> QED BY <2>1, <2>2
<1> QED BY <1>1, <1>2 DEF ClNext, clvars, tn_timer_init, tn_rand_init, tn_timer_arm, TimerDone,
                          tn_timer_ack, tn_timer_fini, ClTick

----------------------------------------------------------------------------
(* Deadlines.                                                               *)

\* A timeout is a number of ticks below half a turn of the counter, and 0 only
\* when there is none.
LEMMA TicksBounded ==
    ASSUME DlAssumption, NEW tv \in Nat \X Nat
    PROVE  /\ TicksOf(tv) \in 0 .. MostTicks /\ (TicksOf(tv) = 0 <=> tv = <<0, 0>>)
           /\ MostTicks \in Nat /\ MostTicks + 1 <= TickModulus \div 2 /\ TickModulus \in Nat \ {0, 1}
<1>1. MsPerSecond \in Nat /\ MsPerTick \in Nat \ {0} /\ MsModulus \in Nat \ {0}
  BY DEF DlAssumption
<1>2. tv[1] \in Nat /\ tv[2] \in Nat OBVIOUS
<1>3. PICK s \in Nat : s = tv[1] * MsPerSecond + tv[2]
  <2>1. tv[1] * MsPerSecond \in Nat BY <1>1, <1>2
  <2> QED BY <1>2, <2>1
<1>4. PICK ms \in 0 .. MsModulus - 1 : ms = s % MsModulus
  <2>1. s \in Int OBVIOUS
  <2> QED BY <1>1, <2>1, DivMod
<1>5. PICK k \in Int, x \in 0 .. MsPerTick - 1 :
        ms + MsPerTick - 1 = MsPerTick * k + x /\ k = (ms + MsPerTick - 1) \div MsPerTick
  <2>1. PICK n \in Int : n = ms + MsPerTick - 1 BY <1>1
  <2> QED BY <1>1, <2>1, DivMod
<1>6. PICK j \in Int, y \in 0 .. MsPerTick - 1 :
        MsModulus = MsPerTick * j + y /\ j = MsModulus \div MsPerTick
  <2>1. MsModulus \in Int BY <1>1
  <2> QED BY <1>1, <2>1, DivMod
<1>7. k >= 0 /\ k <= j + 1
  <2>1. k >= 0
    <3>1. SUFFICES ASSUME k <= -1 PROVE FALSE OBVIOUS
    <3>2. MsPerTick * k <= -MsPerTick BY <1>1, <3>1
    <3> QED BY <1>1, <1>5, <3>2
  <2>2. k <= j + 1
    <3>1. SUFFICES ASSUME k >= j + 2 PROVE FALSE OBVIOUS
    <3>2. PICK e \in Nat : k = j + 2 + e
      <4>1. k - j - 2 \in Nat BY <3>1
      <4> QED BY <4>1
    <3>3. MsPerTick * k = MsPerTick * j + 2 * MsPerTick + MsPerTick * e BY <1>1, <3>2
    <3>4. MsPerTick * e \in Nat /\ MsPerTick * j \in Int BY <1>1
    <3> QED BY <1>1, <1>4, <1>5, <1>6, <3>3, <3>4
  <2> QED BY <2>1, <2>2
<1>8. TicksOf(tv) = IF tv = <<0, 0>> THEN 0 ELSE IF k = 0 THEN 1 ELSE k
  BY <1>3, <1>4, <1>5 DEF TicksOf
<1>9. MostTicks = j + 1 /\ MostTicks < TickModulus \div 2 /\ TickModulus \in Nat \ {0}
  BY <1>6 DEF MostTicks, DlAssumption
<1>10. j >= 0
  <2>1. SUFFICES ASSUME j <= -1 PROVE FALSE OBVIOUS
  <2>2. MsPerTick * j <= -MsPerTick BY <1>1, <2>1
  <2> QED BY <1>1, <1>6, <2>2
<1>11. MostTicks \in Nat /\ MostTicks + 1 <= TickModulus \div 2 /\ TickModulus \in Nat \ {0, 1}
  BY <1>9, <1>10
<1> QED BY <1>7, <1>8, <1>9, <1>10, <1>11

\* A request that is parked, or given a new timeout, gets a deadline as far away
\* as its ticks; DeadlineOf moves the send's off 0.
LEMMA DeadlineSound ==
    ASSUME DlAssumption, DlInv, NEW w \in Ways, NEW tv \in Nat \X Nat, NEW d, NEW again,
           NEW zero,
           zero <=> tv # <<0, 0>> /\ (mainloop_ticks + TicksOf(tv)) % TickModulus = 0,
           \/ ~again /\ d = DeadlineOf(w, tv)
           \/ again /\ d = IF tv = <<0, 0>> THEN 0
                           ELSE (mainloop_ticks + TicksOf(tv)) % TickModulus
    PROVE  /\ d \in 0 .. TickModulus - 1
           /\ TicksOf(tv) = 0 => d = 0
           /\ TicksOf(tv) > 0 => (d = 0 <=> zero /\ (w = "recv" \/ again))
           /\ d # 0 => \E e \in {0, 1} : /\ e = 1 => zero
                                         /\ TicksOf(tv) + e >= 1
                                         /\ d = (mainloop_ticks + (TicksOf(tv) + e)) % TickModulus
<1>1. PICK n \in 0 .. MostTicks : n = TicksOf(tv) /\ (n = 0 <=> tv = <<0, 0>>) BY TicksBounded
<1>2. TickModulus \in Nat \ {0, 1} /\ mainloop_ticks \in Int /\ MostTicks \in Nat
  BY TicksBounded DEF DlInv
<1>3. PICK z : z = (mainloop_ticks + n) % TickModulus OBVIOUS
<1>4. z \in 0 .. TickModulus - 1
  <2>1. mainloop_ticks + n \in Int BY <1>2
  <2> QED BY <1>2, <1>3, <2>1, DivMod
<1>5. CASE n = 0
  <2>1. tv = <<0, 0>> BY <1>1, <1>5
  <2>2. d = 0 BY <2>1 DEF DeadlineOf
  <2> QED BY <1>1, <1>2, <1>5, <2>2
<1>6. CASE n > 0 /\ d = z
  <2>1. tv # <<0, 0>> BY <1>1, <1>6
  <2>2. d = 0 <=> zero /\ (w = "recv" \/ again)
    <3>1. zero <=> z = 0 BY <1>1, <1>3, <2>1
    <3>2. ~again /\ w # "recv" => d # 0
      BY <1>1, <1>3, <1>6, <2>1 DEF DeadlineOf, Nudged, Ways
    <3> QED BY <1>6, <3>1, <3>2
  <2>3. d = (mainloop_ticks + (n + 0)) % TickModulus BY <1>3, <1>6
  <2> QED BY <1>1, <1>4, <1>6, <2>2, <2>3
<1>7. CASE n > 0 /\ d # z
  <2>1. tv # <<0, 0>> BY <1>1, <1>7
  <2>2. d = 1 /\ z = 0 /\ w = "send" /\ ~again
    BY <1>1, <1>3, <1>7, <2>1 DEF DeadlineOf, Nudged
  <2>7. zero BY <1>1, <1>3, <2>1, <2>2
  <2>3. PICK c \in Int : c = mainloop_ticks + n BY <1>2
  <2>4. (z + 1) % TickModulus = (mainloop_ticks + (n + 1)) % TickModulus
    <3>0. TickModulus \in Nat \ {0} /\ 1 \in Int BY <1>2
    <3>1. ((c % TickModulus) + 1) % TickModulus = (c + 1) % TickModulus BY <3>0, ModAdd
    <3>2. c + 1 = mainloop_ticks + (n + 1) BY <1>2, <2>3
    <3> QED BY <1>3, <2>3, <3>1, <3>2
  <2>5. 1 % TickModulus = 1 BY <1>2
  <2>6. d = (mainloop_ticks + (n + 1)) % TickModulus BY <2>2, <2>4, <2>5
  <2> QED BY <1>1, <1>2, <1>7, <2>2, <2>6, <2>7
<1> QED BY <1>1, <1>5, <1>6, <1>7

\* Nobody waits.
LEMMA DlStarts == DlAssumption /\ DlInit => DlInv
<1> SUFFICES ASSUME DlAssumption, DlInit PROVE DlInv OBVIOUS
<1>1. MostTicks \in Nat /\ TickModulus \in Nat \ {0}
  <2>1. <<0, 0>> \in Nat \X Nat OBVIOUS
  <2> QED BY <2>1, TicksBounded
<1>2. /\ mainloop_ticks \in 0 .. TickModulus - 1 /\ deadline \in [Ways -> 0 .. TickModulus - 1]
      /\ waited \in [Ways -> Nat] /\ due \in [Ways -> 0 .. MostTicks]
  BY <1>1 DEF DlInit
<1>3. timeo \in [Ways -> Nat \X Nat] BY DEF DlInit
<1>4. /\ dpend \in [Ways -> BOOLEAN] /\ rearmed \in [Ways -> BOOLEAN]
      /\ onzero \in [Ways -> BOOLEAN]
  BY DEF DlInit
<1>5. \A w \in Ways : deadline[w] = 0 /\ due[w] = 0 BY DEF DlInit
<1>6. \A w \in Ways : DlSound(w) BY <1>5 DEF DlSound
<1> QED BY <1>2, <1>3, <1>4, <1>6 DEF DlInv

\* What one way keeps when only the other one is touched.
LEMMA WaySame ==
    ASSUME NEW w \in Ways, DlSound(w), mainloop_ticks' = mainloop_ticks,
           dpend'[w] = dpend[w], deadline'[w] = deadline[w], waited'[w] = waited[w],
           due'[w] = due[w], rearmed'[w] = rearmed[w], onzero'[w] = onzero[w]
    PROVE  DlSound(w)'
BY DEF DlSound, Running, TicksLeft, TakenForNone

\* A deadline just given is sound.
LEMMA WayGiven ==
    ASSUME DlAssumption, DlInv, NEW w \in Ways, NEW tv \in Nat \X Nat, NEW again \in BOOLEAN,
           mainloop_ticks' = mainloop_ticks, dpend'[w], waited'[w] = 0, due'[w] = TicksOf(tv),
           rearmed'[w] = again,
           onzero'[w] <=> tv # <<0, 0>> /\ (mainloop_ticks + TicksOf(tv)) % TickModulus = 0,
           \/ ~again /\ deadline'[w] = DeadlineOf(w, tv)
           \/ again /\ deadline'[w] = IF tv = <<0, 0>> THEN 0
                                      ELSE (mainloop_ticks + TicksOf(tv)) % TickModulus
    PROVE  DlSound(w)' /\ deadline'[w] \in 0 .. TickModulus - 1 /\ due'[w] \in 0 .. MostTicks
<1>1. PICK d : d = deadline'[w] OBVIOUS
<1>9. PICK zero \in BOOLEAN :
        /\ zero <=> onzero'[w]
        /\ zero <=> tv # <<0, 0>> /\ (mainloop_ticks + TicksOf(tv)) % TickModulus = 0
  OBVIOUS
<1>2. PICK n \in 0 .. MostTicks : n = TicksOf(tv) BY TicksBounded
<1>3. n \in Nat /\ mainloop_ticks \in Int BY TicksBounded DEF DlInv
<1>4. /\ d \in 0 .. TickModulus - 1 /\ (n = 0 => d = 0)
      /\ n > 0 => (d = 0 <=> zero /\ (w = "recv" \/ again))
      /\ d # 0 => \E e \in {0, 1} : /\ e = 1 => zero
                                    /\ n + e >= 1
                                    /\ d = (mainloop_ticks + (n + e)) % TickModulus
  <2>1. \/ ~again /\ d = DeadlineOf(w, tv)
        \/ again /\ d = IF tv = <<0, 0>> THEN 0
                        ELSE (mainloop_ticks + TicksOf(tv)) % TickModulus
    BY <1>1
  <2>2. /\ d \in 0 .. TickModulus - 1 /\ (TicksOf(tv) = 0 => d = 0)
        /\ TicksOf(tv) > 0 => (d = 0 <=> zero /\ (w = "recv" \/ again))
        /\ d # 0 => \E e \in {0, 1} :
                       /\ e = 1 => zero
                       /\ TicksOf(tv) + e >= 1
                       /\ d = (mainloop_ticks + (TicksOf(tv) + e)) % TickModulus
    BY <1>9, <2>1, DeadlineSound
  <2> QED BY <1>2, <2>2
<1>6. \A e \in {0, 1} : TicksLeft(w, e)' = n + e BY <1>2, <1>3 DEF TicksLeft
<1>7. d # 0 => \E e \in {0, 1} : Running(w, e)' BY <1>1, <1>4, <1>6, <1>9 DEF Running
<1>8. DlSound(w)' BY <1>1, <1>2, <1>3, <1>4, <1>7, <1>9 DEF DlSound, TakenForNone
<1> QED BY <1>1, <1>2, <1>4, <1>8

\* A tick ends exactly the waits that have one tick left.
LEMMA WayTicks ==
    ASSUME DlAssumption, DlInv, NEW w \in Ways, dpend[w], deadline[w] # 0, NEW e \in {0, 1},
           Running(w, e), mainloop_ticks' = (mainloop_ticks + 1) % TickModulus
    PROVE  /\ Past(mainloop_ticks', deadline[w]) <=> TicksLeft(w, e) = 1
           /\ deadline[w] = (mainloop_ticks' + (TicksLeft(w, e) - 1)) % TickModulus
<1>1. /\ waited[w] \in Nat /\ due[w] \in 0 .. MostTicks /\ mainloop_ticks \in 0 .. TickModulus - 1
  BY DEF DlInv
<1>2. MostTicks \in Nat /\ MostTicks + 1 <= TickModulus \div 2 /\ TickModulus \in Nat \ {0}
  <2>1. <<0, 0>> \in Nat \X Nat OBVIOUS
  <2> QED BY <2>1, TicksBounded
<1>3. PICK r \in Nat : r = TicksLeft(w, e) /\ r >= 1 /\ r <= TickModulus \div 2
  <2>1. TicksLeft(w, e) \in Nat /\ TicksLeft(w, e) >= 1 /\ TicksLeft(w, e) <= MostTicks + 1
    BY <1>1, <1>2 DEF Running, TicksLeft
  <2> QED BY <1>2, <2>1
<1>4. deadline[w] = (mainloop_ticks + r) % TickModulus BY <1>3 DEF Running
<1>5. /\ (((mainloop_ticks + 1) % TickModulus) + TickModulus - deadline[w]) % TickModulus
              < TickModulus \div 2 <=> r = 1
      /\ deadline[w] = (((mainloop_ticks + 1) % TickModulus) + (r - 1)) % TickModulus
  <2>1. /\ TickModulus \in Nat \ {0} /\ mainloop_ticks \in 0 .. TickModulus - 1
        /\ r \in Nat /\ r >= 1 /\ r <= TickModulus \div 2
    BY <1>1, <1>2, <1>3
  <2>2. /\ (((mainloop_ticks + 1) % TickModulus) + TickModulus
                - ((mainloop_ticks + r) % TickModulus)) % TickModulus
              < TickModulus \div 2 <=> r = 1
        /\ (mainloop_ticks + r) % TickModulus
              = (((mainloop_ticks + 1) % TickModulus) + (r - 1)) % TickModulus
    BY Zenon, <2>1, Late
  <2> QED BY Zenon, <1>4, <2>2
<1> QED BY <1>3, <1>5 DEF Past

\* Parking, setting a timeout, answers and ticks keep the deadlines.
LEMMA DlKeeps == DlAssumption /\ DlInv /\ [DlNext]_dlvars => DlInv'
<1> SUFFICES ASSUME DlAssumption, DlInv, [DlNext]_dlvars PROVE DlInv' OBVIOUS
<1>0. /\ mainloop_ticks \in 0 .. TickModulus - 1 /\ timeo \in [Ways -> Nat \X Nat]
      /\ dpend \in [Ways -> BOOLEAN] /\ deadline \in [Ways -> 0 .. TickModulus - 1]
      /\ waited \in [Ways -> Nat] /\ due \in [Ways -> 0 .. MostTicks]
      /\ rearmed \in [Ways -> BOOLEAN] /\ onzero \in [Ways -> BOOLEAN]
      /\ \A w \in Ways : DlSound(w)
      /\ MostTicks \in Nat /\ TickModulus \in Nat \ {0}
  <2>1. <<0, 0>> \in Nat \X Nat OBVIOUS
  <2> QED BY <2>1, TicksBounded DEF DlInv
<1>1. ASSUME NEW w \in Ways, NEW on \in BOOLEAN, NEW d \in 0 .. TickModulus - 1,
             NEW n \in 0 .. MostTicks, NEW again \in BOOLEAN, NEW zero \in BOOLEAN,
             dpend' = [dpend EXCEPT ![w] = on], deadline' = [deadline EXCEPT ![w] = d],
             waited' = [waited EXCEPT ![w] = 0], due' = [due EXCEPT ![w] = n],
             rearmed' = [rearmed EXCEPT ![w] = again], mainloop_ticks' = mainloop_ticks,
             onzero' = [onzero EXCEPT ![w] = zero],
             timeo' \in [Ways -> Nat \X Nat], DlSound(w)'
      PROVE  DlInv'
  <2>1. ASSUME NEW u \in Ways \ {w} PROVE DlSound(u)'
    BY <1>0, <1>1, <2>1, WaySame
  <2>2. /\ dpend' \in [Ways -> BOOLEAN] /\ deadline' \in [Ways -> 0 .. TickModulus - 1]
        /\ waited' \in [Ways -> Nat] /\ due' \in [Ways -> 0 .. MostTicks]
        /\ rearmed' \in [Ways -> BOOLEAN] /\ onzero' \in [Ways -> BOOLEAN]
    BY <1>0, <1>1
  <2>3. \A u \in Ways : DlSound(u)' BY <1>1, <2>1
  <2> QED BY <1>0, <1>1, <2>2, <2>3 DEF DlInv
<1>2. ASSUME NEW w \in Ways, DlPark(w) PROVE DlInv'
  <2>1. PICK tv \in Nat \X Nat : tv = timeo[w] BY <1>0
  <2>2. PICK d : d = DeadlineOf(w, tv) OBVIOUS
  <2>3. PICK n : n = TicksOf(tv) OBVIOUS
  <2>7. PICK zero \in BOOLEAN :
          zero = (tv # <<0, 0>> /\ (mainloop_ticks + TicksOf(tv)) % TickModulus = 0)
    OBVIOUS
  <2>4. /\ dpend' = [dpend EXCEPT ![w] = TRUE] /\ deadline' = [deadline EXCEPT ![w] = d]
        /\ waited' = [waited EXCEPT ![w] = 0] /\ due' = [due EXCEPT ![w] = n]
        /\ rearmed' = [rearmed EXCEPT ![w] = FALSE] /\ mainloop_ticks' = mainloop_ticks
        /\ timeo' = timeo /\ onzero' = [onzero EXCEPT ![w] = zero]
    BY <1>2, <2>1, <2>2, <2>3, <2>7 DEF DlPark, Tracked
  <2>5. /\ dpend'[w] /\ deadline'[w] = d /\ waited'[w] = 0 /\ due'[w] = n
        /\ rearmed'[w] = FALSE /\ onzero'[w] = zero
    BY <1>0, <2>4
  <2>6. DlSound(w)' /\ d \in 0 .. TickModulus - 1 /\ n \in 0 .. MostTicks
    BY <2>2, <2>3, <2>4, <2>5, <2>7, WayGiven
  <2> QED BY <1>0, <1>1, <2>4, <2>6
<1>3. ASSUME NEW w \in Ways, NEW tv \in Timevals, DlSet(w, tv) PROVE DlInv'
  <2>0. tv \in Nat \X Nat BY DEF Timevals, DlAssumption
  <2>1. timeo' \in [Ways -> Nat \X Nat] BY <1>0, <1>3, <2>0 DEF DlSet
  <2>2. CASE dpend[w]
    <3>1. PICK d : d = IF tv = <<0, 0>> THEN 0
                       ELSE (mainloop_ticks + TicksOf(tv)) % TickModulus
      OBVIOUS
    <3>2. PICK n : n = TicksOf(tv) OBVIOUS
    <3>7. PICK zero \in BOOLEAN :
            zero = (tv # <<0, 0>> /\ (mainloop_ticks + TicksOf(tv)) % TickModulus = 0)
      OBVIOUS
    <3>3. /\ deadline' = [deadline EXCEPT ![w] = d]
          /\ waited' = [waited EXCEPT ![w] = 0] /\ due' = [due EXCEPT ![w] = n]
          /\ rearmed' = [rearmed EXCEPT ![w] = TRUE] /\ mainloop_ticks' = mainloop_ticks
          /\ dpend' = dpend /\ onzero' = [onzero EXCEPT ![w] = zero]
      BY <1>3, <2>2, <3>1, <3>2, <3>7 DEF DlSet, Tracked
    <3>4. /\ dpend'[w] /\ deadline'[w] = d /\ waited'[w] = 0 /\ due'[w] = n
          /\ rearmed'[w] = TRUE /\ onzero'[w] = zero
      BY <1>0, <2>2, <3>3
    <3>5. DlSound(w)' /\ d \in 0 .. TickModulus - 1 /\ n \in 0 .. MostTicks
      BY <2>0, <3>1, <3>2, <3>3, <3>4, <3>7, WayGiven
    <3>6. dpend' = [dpend EXCEPT ![w] = TRUE] BY <1>0, <2>2, <3>3
    <3> QED BY <1>1, <2>1, <3>3, <3>5, <3>6
  <2>3. CASE ~dpend[w]
    <3>1. UNCHANGED <<deadline, waited, due, rearmed, onzero, mainloop_ticks, dpend>>
      BY <1>3, <2>3 DEF DlSet
    <3>2. \A u \in Ways : DlSound(u)' BY <1>0, <3>1, WaySame
    <3> QED BY <1>0, <2>1, <3>1, <3>2 DEF DlInv
  <2> QED BY <2>2, <2>3
<1>4. ASSUME NEW w \in Ways, DlAnswered(w) PROVE DlInv'
  <2>1. /\ dpend' = [dpend EXCEPT ![w] = FALSE] /\ deadline' = [deadline EXCEPT ![w] = 0]
        /\ waited' = [waited EXCEPT ![w] = 0] /\ due' = [due EXCEPT ![w] = 0]
        /\ rearmed' = [rearmed EXCEPT ![w] = FALSE] /\ mainloop_ticks' = mainloop_ticks
        /\ timeo' = timeo /\ onzero' = [onzero EXCEPT ![w] = FALSE]
    BY <1>4 DEF DlAnswered, Tracked
  <2>2. deadline'[w] = 0 /\ due'[w] = 0 BY <1>0, <2>1
  <2>3. DlSound(w)' BY <2>2 DEF DlSound
  <2>4. 0 \in 0 .. TickModulus - 1 /\ 0 \in 0 .. MostTicks BY <1>0
  <2> QED BY <1>0, <1>1, <2>1, <2>3, <2>4
<1>5. CASE DlTick
  <2> DEFINE out == {w \in Ways : dpend[w] /\ deadline[w] # 0 /\ Past(mainloop_ticks', deadline[w])}
  <2>1. /\ mainloop_ticks' = (mainloop_ticks + 1) % TickModulus
        /\ dpend' = [w \in Ways |-> dpend[w] /\ w \notin out]
        /\ deadline' = [w \in Ways |-> IF w \in out THEN 0 ELSE deadline[w]]
        /\ waited' = [w \in Ways |-> IF dpend[w] /\ due[w] > 0 /\ waited[w] < due[w] + 2
                                     THEN waited[w] + 1 ELSE waited[w]]
        /\ UNCHANGED <<due, timeo, rearmed, onzero>>
    BY <1>5 DEF DlTick
  <2>2. mainloop_ticks' \in 0 .. TickModulus - 1
    <3>1. mainloop_ticks + 1 \in Int BY <1>0
    <3> QED BY <1>0, <2>1, <3>1, DivMod
  <2>3. dpend' \in [Ways -> BOOLEAN] BY <2>1
  <2>4. deadline' \in [Ways -> 0 .. TickModulus - 1] BY <1>0, <2>1
  <2>5. waited' \in [Ways -> Nat] BY <1>0, <2>1
  <2>6. ASSUME NEW w \in Ways PROVE DlSound(w)'
    <3>1. /\ dpend'[w] <=> dpend[w] /\ w \notin out
          /\ deadline'[w] = IF w \in out THEN 0 ELSE deadline[w]
          /\ due'[w] = due[w] /\ rearmed'[w] = rearmed[w] /\ onzero'[w] = onzero[w]
          /\ waited'[w] = IF dpend[w] /\ due[w] > 0 /\ waited[w] < due[w] + 2
                          THEN waited[w] + 1 ELSE waited[w]
      BY <2>1
    <3>2. DlSound(w) /\ waited[w] \in Nat /\ due[w] \in Nat BY <1>0
    <3>3. CASE deadline[w] = 0
      <4>1. w \notin out BY <3>3
      <4> HIDE DEF out
      <4> QED BY <3>1, <3>2, <3>3, <4>1 DEF DlSound, TakenForNone
    <3>4. CASE deadline[w] # 0
      <4>1. dpend[w] /\ due[w] > 0 BY <3>2, <3>4 DEF DlSound
      <4>2. PICK e \in {0, 1} : Running(w, e) BY <3>2, <3>4 DEF DlSound
      <4>3. /\ Past(mainloop_ticks', deadline[w]) <=> TicksLeft(w, e) = 1
            /\ deadline[w] = (mainloop_ticks' + (TicksLeft(w, e) - 1)) % TickModulus
        BY <2>1, <3>4, <4>1, <4>2, WayTicks
      <4>4. TicksLeft(w, e) >= 1 /\ TicksLeft(w, e) \in Int /\ (e = 1 => onzero[w])
        BY <3>2, <4>2 DEF Running, TicksLeft
      <4>5. waited'[w] = waited[w] + 1
        BY <3>1, <3>2, <4>1, <4>4 DEF TicksLeft
      <4>6. TicksLeft(w, e)' = TicksLeft(w, e) - 1 BY <3>1, <3>2, <4>5 DEF TicksLeft
      <4>7. CASE w \in out
        <5> HIDE DEF out
        <5> QED BY <3>1, <4>7 DEF DlSound
      <4>8. CASE w \notin out
        <5>1. TicksLeft(w, e) # 1 BY <3>4, <4>1, <4>3, <4>8
        <5> HIDE DEF out
        <5>2. Running(w, e)' BY <3>1, <4>3, <4>4, <4>6, <4>8, <5>1 DEF Running
        <5> QED BY <3>1, <3>2, <3>4, <4>1, <4>8, <5>2 DEF DlSound, TakenForNone
      <4> QED BY <4>7, <4>8
    <3> QED BY <3>3, <3>4
  <2> HIDE DEF out
  <2> QED BY <1>0, <2>1, <2>2, <2>3, <2>4, <2>5, <2>6 DEF DlInv
<1>6. CASE UNCHANGED dlvars
  <2>1. \A u \in Ways : DlSound(u)' BY <1>0, <1>6, WaySame DEF dlvars
  <2> QED BY <1>0, <1>6, <2>1 DEF DlInv, dlvars
<1> QED BY <1>2, <1>3, <1>4, <1>5, <1>6 DEF DlNext

\* A wait is over when its ticks are.
LEMMA DlInTime == DlAssumption /\ DlInv => SleepsNoLonger
<1> SUFFICES ASSUME DlAssumption, DlInv, NEW w \in Ways, dpend[w], due[w] > 0,
                    DlSound(w)
             PROVE  IF TakenForNone(w) THEN deadline[w] = 0
                    ELSE waited[w] < due[w] + (IF onzero[w] THEN 1 ELSE 0)
  BY DEF SleepsNoLonger, DlInv
<1>1. waited[w] \in Nat /\ due[w] \in 0 .. MostTicks BY DEF DlInv
<1>2. deadline[w] = 0 <=> TakenForNone(w) BY DEF DlSound
<1>3. CASE deadline[w] # 0
  <2>1. PICK e \in {0, 1} : Running(w, e) BY <1>3 DEF DlSound
  <2> QED BY <1>1, <1>2, <1>3, <2>1 DEF Running, TicksLeft
<1> QED BY <1>2, <1>3

\* No tick ends a wait that has ticks left.
LEMMA DlNotEarly == DlAssumption /\ DlInv => NeverEarly
<1> SUFFICES ASSUME DlAssumption, DlInv, NEW w \in Ways, DlTick, dpend[w], ~dpend'[w]
             PROVE  waited'[w] >= due[w] /\ ~TakenForNone(w)
  BY DEF NeverEarly
<1>1. deadline[w] # 0 /\ Past(mainloop_ticks', deadline[w]) BY DEF DlTick
<1>2. DlSound(w) /\ waited[w] \in Nat /\ due[w] \in 0 .. MostTicks BY DEF DlInv
<1>3. PICK e \in {0, 1} : Running(w, e) BY <1>1, <1>2 DEF DlSound
<1>4. TicksLeft(w, e) = 1 BY <1>1, <1>3, WayTicks DEF DlTick
<1>5. waited'[w] = IF dpend[w] /\ due[w] > 0 /\ waited[w] < due[w] + 2
                   THEN waited[w] + 1 ELSE waited[w]
  BY DEF DlTick
<1>6. due[w] > 0 BY <1>1, <1>2 DEF DlSound
<1>7. ~TakenForNone(w) BY <1>1, <1>2, <1>6 DEF DlSound
<1> QED BY <1>2, <1>4, <1>5, <1>6, <1>7 DEF TicksLeft

----------------------------------------------------------------------------
(* Routes.                                                                  *)

\* No entry, and an interface without an address.
LEMMA RtStarts == RtAssumption /\ RtInit => RtInv
<1> SUFFICES ASSUME RtAssumption, RtInit PROVE RtInv OBVIOUS
<1>1. g_routes \in [Indices -> Routes \cup {NoRoute}] BY DEF RtInit
<1>2. {} \in Addr BY DEF Addr
<1>3. eth \in [addr : Addr, mask : Addr, gw : Addr, up : BOOLEAN, is_dhcp : BOOLEAN,
               client : BOOLEAN]
  BY <1>2 DEF RtInit
<1>4. RoutesInUse = {} BY DEF RoutesInUse, RtInit
<1>5. eth.is_dhcp = TRUE BY DEF RtInit
<1> QED BY <1>1, <1>3, <1>4, <1>5 DEF RtInv, RtTypeOK

\* The constants are addresses.
LEMMA RtAddresses ==
    ASSUME RtAssumption
    PROVE  /\ RtDests \subseteq Addr /\ RtGws \subseteq Addr /\ IfAddrs \subseteq Addr
           /\ IfMasks \subseteq Addr /\ IfGws \subseteq Addr /\ {} \in Addr /\ Bits \in Addr
           /\ NoRoute \notin Routes
BY DEF RtAssumption, Addr, Routes

\* An entry goes into the first slot that is free.
LEMMA AddKeeps ==
    ASSUME RtAssumption, RtInv, NEW d \in Addr, NEW m \in Addr, NEW g \in Addr,
           tn_route_add(d, m, g)
    PROVE  RtInv'
<1>1. PICK f : f = Lowest(Indices \ RoutesInUse) OBVIOUS
<1>2. f \in Indices \ RoutesInUse
  <2>1. Indices \ RoutesInUse # {} BY DEF tn_route_add, RoutesInUse
  <2>2. Indices \ RoutesInUse \in SUBSET Nat BY DEF Indices, RtAssumption
  <2> QED BY <1>1, <2>1, <2>2, Least DEF Lowest
<1>3. PICK r : r = [dest |-> d, mask |-> m, gw |-> g] OBVIOUS
<1>4. g_routes' = [g_routes EXCEPT ![f] = r] /\ eth' = eth BY <1>1, <1>3 DEF tn_route_add
<1>5. r \in Routes /\ r.dest = d /\ r.mask = m BY <1>3 DEF Routes
<1>6. g_routes \in [Indices -> Routes \cup {NoRoute}] BY DEF RtInv, RtTypeOK
<1>7. RoutesInUse' = RoutesInUse \cup {f}
  BY <1>2, <1>4, <1>5, <1>6, RtAddresses DEF RoutesInUse
<1>8. \A i \in RoutesInUse' : g_routes'[i] = IF i = f THEN r ELSE g_routes[i]
  BY <1>2, <1>4, <1>6 DEF RoutesInUse
<1>9. RtTypeOK' BY <1>4, <1>5, <1>6 DEF RtInv, RtTypeOK
<1>10. Installable(d, m) /\ \A i \in RoutesInUse : ~Same(i, d, m) BY DEF tn_route_add
<1>11. \A i \in RoutesInUse' : Installable(g_routes'[i].dest, g_routes'[i].mask)
  BY <1>5, <1>7, <1>8, <1>10 DEF RtInv
<1>12. ASSUME NEW i \in RoutesInUse', NEW j \in RoutesInUse',
              g_routes'[i].dest = g_routes'[j].dest, g_routes'[i].mask = g_routes'[j].mask
       PROVE  i = j
  BY <1>2, <1>5, <1>7, <1>8, <1>10, <1>12 DEF RtInv, Same
<1>13. \A i, j \in RoutesInUse' : Same(i, g_routes[j].dest, g_routes[j].mask)' => i = j
  BY <1>12 DEF Same
<1> QED BY <1>4, <1>9, <1>11, <1>13 DEF RtInv

\* An entry is taken out.
LEMMA DeleteKeeps ==
    ASSUME RtAssumption, RtInv, NEW d, NEW m, tn_route_delete(d, m)
    PROVE  RtInv'
<1>1. PICK k \in RoutesInUse : g_routes' = [g_routes EXCEPT ![k] = NoRoute] /\ eth' = eth
  BY DEF tn_route_delete
<1>2. g_routes \in [Indices -> Routes \cup {NoRoute}] BY DEF RtInv, RtTypeOK
<1>3. RoutesInUse' = RoutesInUse \ {k} BY <1>1, <1>2 DEF RoutesInUse
<1>4. \A i \in RoutesInUse' : i \in RoutesInUse /\ g_routes'[i] = g_routes[i]
  BY <1>1, <1>2, <1>3 DEF RoutesInUse
<1>5. RtTypeOK' BY <1>1, <1>2 DEF RtInv, RtTypeOK
<1> QED BY <1>1, <1>4, <1>5 DEF RtInv, Same

\* ROUTECTL, IFCTL and the DHCP client keep the table and the interface.
LEMMA RtKeeps == RtAssumption /\ RtInv /\ [RtNext]_rtvars => RtInv'
<1> SUFFICES ASSUME RtAssumption, RtInv, [RtNext]_rtvars PROVE RtInv' OBVIOUS
<1>1. CASE RouteCommand
  BY <1>1, AddKeeps, DeleteKeeps, RtAddresses DEF RouteCommand
<1>2. ASSUME g_routes' = g_routes,
             eth' \in [addr : Addr, mask : Addr, gw : Addr, up : BOOLEAN, is_dhcp : BOOLEAN,
                       client : BOOLEAN],
             ~eth'.is_dhcp => ~eth'.client
      PROVE  RtInv'
  <2>1. RoutesInUse' = RoutesInUse BY <1>2 DEF RoutesInUse
  <2> QED BY <1>2, <2>1 DEF RtInv, RtTypeOK, Same
<1>3. eth \in [addr : Addr, mask : Addr, gw : Addr, up : BOOLEAN, is_dhcp : BOOLEAN,
               client : BOOLEAN]
  BY DEF RtInv, RtTypeOK
<1>4. CASE IFCTL_UP \/ IFCTL_DOWN
  <2>1. PICK b \in BOOLEAN : eth' = [eth EXCEPT !.up = b] /\ g_routes' = g_routes
    BY <1>4 DEF IFCTL_UP, IFCTL_DOWN
  <2>2. eth'.is_dhcp = eth.is_dhcp /\ eth'.client = eth.client BY <1>3, <2>1
  <2> QED BY <1>2, <1>3, <2>1, <2>2 DEF RtInv
<1>5. ASSUME NEW a \in IfAddrs, NEW m \in IfMasks, NEW g \in IfGws, IFCTL_SET(a, m, g)
      PROVE  RtInv'
  <2>1. PICK x \in Addr, y \in Addr, z \in Addr :
          /\ eth' = [eth EXCEPT !.addr = x, !.mask = y, !.gw = z, !.is_dhcp = FALSE,
                                !.client = FALSE]
          /\ g_routes' = g_routes
    <3>1. Given(a, eth.addr) \in Addr /\ Given(m, eth.mask) \in Addr /\ Given(g, eth.gw) \in Addr
      BY <1>3, RtAddresses DEF Given
    <3> QED BY <1>5, <3>1 DEF IFCTL_SET
  <2>2. eth'.client = FALSE BY <1>3, <2>1
  <2> QED BY <1>2, <1>3, <2>1, <2>2
<1>6. ASSUME NEW x \in Addr, NEW y \in Addr, NEW z \in Addr, g_routes' = g_routes,
             eth' = [eth EXCEPT !.addr = x, !.mask = y, !.gw = z]
      PROVE  RtInv'
  <2>1. eth'.is_dhcp = eth.is_dhcp /\ eth'.client = eth.client BY <1>3, <1>6
  <2> QED BY <1>2, <1>3, <1>6, <2>1 DEF RtInv
<1>7. CASE \E a \in IfAddrs, m \in IfMasks, g \in IfGws : DhcpBound(a, m, g)
  BY <1>6, <1>7, RtAddresses DEF DhcpBound
<1>8. CASE DhcpLost BY <1>6, <1>8, RtAddresses DEF DhcpLost
<1>9. CASE UNCHANGED rtvars BY <1>2, <1>3, <1>9 DEF rtvars, RtInv
<1> QED BY <1>1, <1>4, <1>5, <1>7, <1>8, <1>9 DEF RtNext

\* The length of a mask that is contiguous is the number of its bits.
LEMMA PrefixLength ==
    ASSUME RtAssumption, NEW m \in Addr, mask_is_contiguous(m)
    PROVE  mask_prefix_len(m) = Cardinality(m) /\ IsFiniteSet(m) /\ Cardinality(m) \in Nat
<1>1. {i \in m : i .. W - 1 \subseteq m} = m BY DEF mask_is_contiguous
<1>2. IsFiniteSet(Bits)
  <2>1. 0 \in Int /\ W - 1 \in Int BY DEF RtAssumption
  <2> QED BY <2>1, FS_Interval DEF Bits
<1>3. IsFiniteSet(m) BY <1>2, FS_Subset DEF Addr
<1> QED BY <1>1, <1>3, FS_CardinalityType DEF mask_prefix_len

\* The entry that covers an address with the most specific mask is the only one
\* of that mask, and the one tn_route_lookup finds.
LEMMA LookupBest ==
    ASSUME RtAssumption, RtInv, NEW d \in Addr, NEW i \in RoutesInUse, Covering(i, d),
           \A j \in RoutesInUse : Covering(j, d) => g_routes[j].mask \subseteq g_routes[i].mask
    PROVE  /\ tn_route_lookup(d) = i
           /\ \A k \in RoutesInUse :
                /\ Covering(k, d)
                /\ \A j \in RoutesInUse : Covering(j, d) => g_routes[j].mask \subseteq g_routes[k].mask
                => k = i
<1> DEFINE hits == {k \in RoutesInUse : d \cap g_routes[k].mask = g_routes[k].dest}
           len(k) == mask_prefix_len(g_routes[k].mask)
           longest == {k \in hits : \A j \in hits : len(j) <= len(k)}
<1>1. i \in hits /\ \A j \in hits : g_routes[j].mask \subseteq g_routes[i].mask BY DEF Covering
<1>2. ASSUME NEW k \in hits, g_routes[k].mask = g_routes[i].mask PROVE k = i
  <2>1. g_routes[k].dest = g_routes[i].dest BY <1>1, <1>2
  <2> QED BY <1>1, <1>2, <2>1 DEF RtInv, Same
<1>3. ASSUME NEW k \in hits
      PROVE  /\ len(k) = Cardinality(g_routes[k].mask) /\ IsFiniteSet(g_routes[k].mask)
             /\ Cardinality(g_routes[k].mask) \in Nat
  <2>1. g_routes[k] \in Routes BY DEF RtInv, RtTypeOK, RoutesInUse
  <2>2. g_routes[k].mask \in Addr BY <2>1 DEF Routes
  <2>3. mask_is_contiguous(g_routes[k].mask) BY DEF RtInv, Installable
  <2> QED BY <2>2, <2>3, PrefixLength
<1>4. ASSUME NEW k \in hits PROVE len(k) <= len(i) /\ (len(i) <= len(k) => k = i)
  <2>1. /\ Cardinality(g_routes[k].mask) <= Cardinality(g_routes[i].mask)
        /\ Cardinality(g_routes[k].mask) = Cardinality(g_routes[i].mask)
             => g_routes[k].mask = g_routes[i].mask
    BY <1>1, <1>3, FS_Subset
  <2>2. /\ len(k) = Cardinality(g_routes[k].mask) /\ len(i) = Cardinality(g_routes[i].mask)
        /\ Cardinality(g_routes[k].mask) \in Nat /\ Cardinality(g_routes[i].mask) \in Nat
    BY <1>1, <1>3
  <2> HIDE DEF len
  <2>3. len(k) <= len(i) BY <2>1, <2>2
  <2>4. len(i) <= len(k) => Cardinality(g_routes[k].mask) = Cardinality(g_routes[i].mask)
    BY <2>1, <2>2
  <2> QED BY <1>2, <2>1, <2>3, <2>4
<1>5. longest = {i} BY <1>1, <1>4
<1>6. Lowest({i}) = i BY DEF Lowest, RoutesInUse, Indices, RtAssumption
<1>7. tn_route_lookup(d) = IF hits = {} THEN 0 ELSE Lowest(longest) BY DEF tn_route_lookup
<1>8. tn_route_lookup(d) = i BY <1>1, <1>5, <1>6, <1>7
<1>9. ASSUME NEW k \in RoutesInUse, Covering(k, d),
             \A j \in RoutesInUse : Covering(j, d) => g_routes[j].mask \subseteq g_routes[k].mask
      PROVE  k = i
  <2>1. k \in hits /\ g_routes[i].mask \subseteq g_routes[k].mask BY <1>9 DEF Covering
  <2>2. g_routes[k].mask \subseteq g_routes[i].mask BY <1>1, <2>1
  <2> QED BY <1>2, <2>1, <2>2
<1> QED BY <1>8, <1>9

\* The hooks and lwIP's routing around them send where the table says.
LEMMA RtRouted == RtAssumption /\ RtInv => RoutedAsListed
<1> SUFFICES ASSUME RtAssumption, RtInv PROVE RoutedAsListed OBVIOUS
<1> DEFINE best(d) == {i \in RoutesInUse : Covering(i, d) /\ \A j \in RoutesInUse :
                          Covering(j, d) => g_routes[j].mask \subseteq g_routes[i].mask}
<1>1. ASSUME NEW d \in Addr PROVE Cardinality(best(d)) <= 1
  <2>1. CASE best(d) = {}
    <3>1. Cardinality(best(d)) = 0 BY <2>1, FS_EmptySet
    <3> HIDE DEF best
    <3> QED BY <3>1
  <2>2. CASE best(d) # {}
    <3>1. PICK i \in RoutesInUse : i \in best(d) BY <2>2
    <3>2. best(d) = {i} BY <3>1, LookupBest
    <3>3. Cardinality({i}) = 1 BY FS_Singleton
    <3> QED BY <3>2, <3>3
  <2> QED BY <2>1, <2>2
<1>2. ASSUME NEW d \in Addr, eth.up, OnLink("eth", d)
      PROVE  ip4_route(d) = "eth" /\ NextHop(ip4_route(d), d) = d
  <2>1. ip4_route(d) = "eth" BY <1>2 DEF ip4_route, FirstOf, Netif
  <2> QED BY <1>2, <2>1 DEF NextHop
<1>3. ASSUME NEW d \in Addr, NEW i \in best(d), ~OnLink("eth", d), ~OnLink("lo", d),
             OnLink("eth", g_routes[i].gw), g_routes[i].gw # {}
      PROVE  ip4_route(d) = "eth" /\ NextHop(ip4_route(d), d) = g_routes[i].gw
  <2>1. tn_route_lookup(d) = i /\ i # 0
    BY <1>3, LookupBest DEF RoutesInUse, Indices, RtAssumption
  <2>2. tn_route_hook_src(d) = "eth" BY <1>3, <2>1 DEF tn_route_hook_src, FirstOf
  <2>3. ip4_route(d) = "eth" BY <1>3, <2>2 DEF ip4_route, FirstOf
  <2>4. tn_route_gw_get(d) = g_routes[i].gw BY <2>1 DEF tn_route_gw_get
  <2> QED BY <1>3, <2>3, <2>4 DEF NextHop
<1>4. \A i \in RoutesInUse : Covering(i, g_routes[i].dest)
  BY DEF RtInv, Installable, Covering
<1> QED BY <1>1, <1>2, <1>3, <1>4 DEF RoutedAsListed

\* Only IFCTL SET changes an address that DHCP does not own.
LEMMA RtStays == RtAssumption /\ RtInv /\ [RtNext]_rtvars => StaticAddressStays
<1> SUFFICES ASSUME RtInv, [RtNext]_rtvars, ~eth.is_dhcp
             PROVE  /\ ~eth'.is_dhcp
                    /\ eth'.addr # eth.addr =>
                          \E a \in IfAddrs, m \in IfMasks, g \in IfGws : IFCTL_SET(a, m, g)
  BY DEF StaticAddressStays
<1>1. /\ ~eth.client
      /\ eth \in [addr : Addr, mask : Addr, gw : Addr, up : BOOLEAN, is_dhcp : BOOLEAN,
                  client : BOOLEAN]
  BY DEF RtInv, RtTypeOK
<1>2. CASE UNCHANGED eth BY <1>2
<1>3. CASE IFCTL_UP \/ IFCTL_DOWN
  <2>1. PICK b \in BOOLEAN : eth' = [eth EXCEPT !.up = b] BY <1>3 DEF IFCTL_UP, IFCTL_DOWN
  <2>2. eth'.is_dhcp = eth.is_dhcp /\ eth'.addr = eth.addr BY <1>1, <2>1
  <2> QED BY <2>2
<1>4. CASE \E a \in IfAddrs, m \in IfMasks, g \in IfGws : IFCTL_SET(a, m, g)
  <2>1. PICK a, m, g : IFCTL_SET(a, m, g) BY <1>4
  <2>2. eth'.is_dhcp = FALSE BY <1>1, <2>1 DEF IFCTL_SET
  <2> QED BY <1>4, <2>2
<1>5. RouteCommand => UNCHANGED eth BY DEF RouteCommand, tn_route_add, tn_route_delete
<1>6. ~DhcpLost /\ \A a, m, g : ~DhcpBound(a, m, g) BY <1>1 DEF DhcpLost, DhcpBound
<1> QED BY <1>2, <1>3, <1>4, <1>5, <1>6 DEF RtNext, rtvars
----------------------------------------------------------------------------

(***************************************************************************)
(* PrefsStore: the saver is described by how far it has got.                *)
(***************************************************************************)
\* The states of a save.
Savers == [pc : {"idle", "open", "write", "delbak", "backup", "install"}, store : Stores,
           use : BOOLEAN, prefs : Prefs, text : Texts \cup {NoFile}, had : BOOLEAN]
\* While it has a text; with them the types.
Writing == {"write", "delbak", "backup", "install"}

PsTypes == PsTypeOK /\ saver \in Savers

\* A USE only writes ENV:.  What is being written is the whole of what the
\* program chose and keeps the lines of the file it replaces, and the temporary
\* file holds it once it is written.
Prepared ==
    /\ At("idle") \/ ~saver.use \/ saver.store = "ENV"
    /\ saver.had => At("install")
    /\ saver.pc \in Writing =>
         LET d == disk[saver.store] IN
         /\ saver.text # NoFile /\ saver.text.kind = "whole" /\ saver.text.known = saver.prefs.known
         /\ saver.text.date <= now
         /\ d["_tmp"] # NoFile
         /\ ~At("write") => d["_tmp"] = saver.text /\ (saver.store = "DEVS" => offered = saver.text)
         /\ ~saver.had => (d[""] # NoFile => d[""].odd \subseteq saver.text.odd)
         /\ saver.had => /\ d[""] = NoFile /\ d[".bak"] # NoFile
                         /\ d[".bak"].odd \subseteq saver.text.odd

\* The last file installed is in its place; or that place is empty and the whole
\* new text lies beside it, and while the save goes on the old one does too.
Guarded ==
    LET d == disk["DEVS"] IN
    kept # NoFile /\ ~exposed =>
       /\ d[""] = kept \/ (d[""] = NoFile /\ d["_tmp"] = offered /\ offered # NoFile)
       /\ saver.store = "DEVS" /\ saver.pc \in Writing =>
             IF saver.had THEN d[".bak"] = kept ELSE d[""] = kept

\* The last file installed is whole and in its place.
Reached == kept # NoFile /\ disk["DEVS"][""] = kept /\ kept.kind = "whole" /\ kept.date <= now

\* A save that has come to the later stores has installed its text in the first;
\* once it has come through, ENV: agrees or is the newer one, which is not read.
Spread ==
    /\ ~At("idle") /\ ~saver.use /\ saver.store # "DEVS" => Reached /\ kept.known = saver.prefs.known
    /\ settled => /\ At("idle") /\ Reached
                  /\ LET e == disk["ENV"][""] IN
                     e # NoFile => e.date >= kept.date \/ (e.kind = "whole" /\ e.known = kept.known)

\* Together.
PsInv == PsTypes /\ Prepared /\ Guarded /\ Spread

\* The saver when no save is under way.
LEMMA IdleSaver ==
    ASSUME PsAssumption
    PROVE  /\ Idle \in Savers /\ Idle.pc = "idle" /\ Idle.store = "DEVS" /\ Idle.use = FALSE
           /\ Idle.text = NoFile /\ Idle.had = FALSE
BY DEF Idle, Savers, Stores, Prefs, PsAssumption

\* The saver after a store: idle or at the next one.
LEMMA NextSaver ==
    ASSUME PsAssumption, saver \in Savers, NEW ok \in BOOLEAN, NEW n, n = NextStore(ok)
    PROVE  /\ n \in Savers /\ n.had = FALSE
           /\ \/ n.pc = "idle"
              \/ /\ n.pc = "open" /\ n.store # "DEVS" /\ n.use = saver.use /\ n.prefs = saver.prefs
                 /\ saver.store # "ENV" /\ (saver.store = "DEVS" => ok)
           /\ saver.store = "ENV" => n.pc = "idle"
<1>1. saver.store \in Stores BY DEF Savers
<1>2. CASE saver.store = "ENV" \/ (saver.store = "DEVS" /\ ~ok)
  <2>1. n = Idle BY <1>2 DEF NextStore
  <2> QED BY <1>2, <2>1, IdleSaver
<1>3. CASE ~(saver.store = "ENV" \/ (saver.store = "DEVS" /\ ~ok))
  <2>1. n = [saver EXCEPT !.pc = "open", !.store = IF saver.store = "DEVS" THEN "ENVARC" ELSE "ENV",
                       !.text = NoFile, !.had = FALSE] BY <1>3 DEF NextStore
  <2>2. n \in Savers BY <2>1, <1>1 DEF Savers, Stores
  <2>3. n.pc = "open" /\ n.store # "DEVS" /\ n.had = FALSE /\ n.use = saver.use /\ n.prefs = saver.prefs
    BY <2>1 DEF Savers
  <2> QED BY <1>3, <2>2, <2>3
<1> QED BY <1>2, <1>3

\* No save is under way and there is no file at first.
LEMMA PsStarts == ASSUME PsAssumption PROVE PsInit => PsInv
<1> SUFFICES ASSUME PsInit PROVE PsInv OBVIOUS
<1>1. saver = Idle /\ now = 0 /\ arc \in BOOLEAN /\ kept = NoFile /\ offered = NoFile
      /\ exposed = FALSE /\ settled = FALSE
      /\ disk = [s \in Stores |-> [x \in Suffixes |-> NoFile]] BY DEF PsInit
<1>2. PsTypes
  <2>1. saver \in Savers BY <1>1, IdleSaver
  <2>2. disk \in [Stores -> [Suffixes -> Texts \cup {NoFile}]] BY <1>1
  <2>3. now \in 0 .. MaxDate BY <1>1 DEF PsAssumption
  <2> QED BY <1>1, <2>1, <2>2, <2>3 DEF PsTypes, PsTypeOK, Savers
<1>3. saver.pc = "idle" /\ saver.had = FALSE BY <1>1, IdleSaver
<1>4. Prepared BY <1>3 DEF Prepared, At, Writing
<1>5. Guarded BY <1>1 DEF Guarded
<1>6. Spread BY <1>1, <1>3 DEF Spread, At
<1> QED BY <1>2, <1>4, <1>5, <1>6 DEF PsInv
\* Types of the saver's fields and of a directory entry.
LEMMA PsFields ==
    ASSUME PsTypes
    PROVE  /\ saver.store \in Stores /\ saver.use \in BOOLEAN /\ saver.had \in BOOLEAN
           /\ saver.prefs \in Prefs /\ saver.text \in Texts \cup {NoFile}
           /\ saver.pc \in {"idle", "open", "write", "delbak", "backup", "install"}
           /\ \A s \in Stores, x \in Suffixes : disk[s][x] \in Texts \cup {NoFile}
BY DEF PsTypes, PsTypeOK, Savers

\* What is loaded is the contents of a file or the defaults.
LEMMA LoadType == ASSUME PsAssumption, PsTypes PROVE tn_prefs_load \in Prefs
<1>1. tn_prefs_default \in Prefs BY DEF tn_prefs_default, Prefs, PsAssumption
<1>2. ASSUME NEW t \in Texts PROVE Parsed(t) \in Prefs
  BY <1>1 DEF Parsed, Prefs, Texts
<1>3. ASSUME NEW s \in Stores PROVE tn_prefs_open_recover(s) \in Texts \cup {NoFile}
  BY PsFields DEF tn_prefs_open_recover, Suffixes
<1>4. "DEVS" \in Stores /\ "ENVARC" \in Stores /\ "ENV" \in Stores /\ "" \in Suffixes
  BY DEF Stores, Suffixes
<1>5. tn_prefs_open_recover("DEVS") \in Texts \cup {NoFile} /\ disk["ENV"][""] \in Texts \cup {NoFile}
      /\ tn_prefs_open_recover("ENVARC") \in Texts \cup {NoFile} BY <1>3, <1>4, PsFields
<1> QED BY <1>1, <1>2, <1>5 DEF tn_prefs_load, Readable

\* A save begins: nothing on the disk changes.
LEMMA PsKeepsStart ==
    ASSUME PsAssumption, PsInv, NEW v \in Settings, NEW use \in BOOLEAN, StartSave(v, use)
    PROVE  PsInv'
<1> USE DEF PsInv
<1> DEFINE q == [tn_prefs_load EXCEPT !.known = v]
<1>1. q \in Prefs BY LoadType DEF Prefs
<1> HIDE DEF q
<1>2. saver' = [Idle EXCEPT !.pc = "open", !.store = IF use THEN "ENV" ELSE "DEVS", !.use = use, !.prefs = q]
  BY DEF StartSave, q
<1>3. saver' \in Savers BY <1>1, <1>2, IdleSaver DEF Savers, Stores
<1>4. saver'.pc = "open" /\ saver'.use = use /\ saver'.had = FALSE /\ saver'.store = IF use THEN "ENV" ELSE "DEVS"
  BY <1>2, IdleSaver DEF Savers
<1>5. UNCHANGED <<disk, now, arc, kept, offered, exposed>> /\ settled' = FALSE BY DEF StartSave
<1>6. PsTypes' BY <1>3, <1>5 DEF PsTypes, PsTypeOK, Savers
<1>7. Prepared' BY <1>4 DEF Prepared, At, Writing
<1>8. Guarded'
  <2>1. saver'.pc \notin Writing BY <1>4 DEF Writing
  <2> QED BY <1>5, <2>1 DEF Guarded
<1>9. Spread' BY <1>4, <1>5 DEF Spread
<1> QED BY <1>6, <1>7, <1>8, <1>9

\* What is not younger than a date is not younger than a later one.
LEMMA DatesOrdered ==
    ASSUME PsAssumption, NEW k \in 0 .. MaxDate, NEW n \in 0 .. MaxDate, NEW m \in 0 .. MaxDate,
           k <= n, n <= m
    PROVE  k <= m
BY DEF PsAssumption

\* A store that could not be written is left: the save ends, or goes on to the
\* next store when this was not the first.
LEMMA PsKeepsFailed ==
    ASSUME PsAssumption, PsInv, ~At("idle"), saver' = NextStore(FALSE),
           disk' \in [Stores -> [Suffixes -> Texts \cup {NoFile}]],
           now' \in 0 .. MaxDate, now <= now',
           UNCHANGED <<arc, kept, offered, exposed, settled>>,
           saver.store # "DEVS" => disk'["DEVS"] = disk["DEVS"],
           saver.store = "DEVS" /\ kept # NoFile /\ ~exposed =>
              \/ disk'["DEVS"][""] = kept
              \/ disk'["DEVS"][""] = NoFile /\ disk'["DEVS"]["_tmp"] = offered /\ offered # NoFile
    PROVE  PsInv'
<1> USE DEF PsInv
<1>1. /\ saver' \in Savers /\ saver'.had = FALSE
      /\ \/ saver'.pc = "idle"
         \/ /\ saver'.pc = "open" /\ saver'.store # "DEVS" /\ saver'.use = saver.use
            /\ saver'.prefs = saver.prefs /\ saver.store # "ENV" /\ saver.store # "DEVS"
  BY NextSaver DEF PsTypes
<1>2. PsTypes' BY <1>1 DEF PsTypes, PsTypeOK, Savers
<1>3. saver'.pc \notin Writing /\ ~settled BY <1>1 DEF Writing, Spread
<1>4. Prepared' BY <1>1, <1>3 DEF Prepared, At
<1>5. Guarded' BY <1>3 DEF Guarded
<1>6. Spread'
  <2>1. ASSUME saver'.pc # "idle", ~saver'.use PROVE (Reached /\ kept.known = saver.prefs.known)'
    <3>1. saver.store # "DEVS" /\ ~saver.use /\ saver'.prefs = saver.prefs BY <1>1, <2>1
    <3>2. Reached /\ kept.known = saver.prefs.known BY <3>1 DEF Spread
    <3>3. kept.date \in 0 .. MaxDate /\ now \in 0 .. MaxDate
      BY <3>2 DEF Reached, PsTypes, PsTypeOK, Texts
    <3>4. kept.date <= now BY <3>2 DEF Reached
    <3>6. kept.date <= now' BY <3>3, <3>4, DatesOrdered
    <3> QED BY <3>1, <3>2, <3>6 DEF Reached
  <2> QED BY <1>3, <2>1 DEF Spread, At
<1> QED BY <1>2, <1>4, <1>5, <1>6

\* The temporary file is opened, or cannot be.
LEMMA PsKeepsOpen == ASSUME PsAssumption, PsInv, OpenTmp PROVE PsInv'
<1> USE DEF PsInv
<1> USE PsFields
<1> DEFINE s == saver.store
           e == [kind |-> "empty", known |-> DefaultSetting, diag |-> FALSE, odd |-> {}, date |-> now']
           t == [tn_config_merge_preserve(saver.prefs, disk[s][""]) EXCEPT !.date = now']
<1>1. now' = now + 1 /\ now < MaxDate /\ saver.pc = "open" /\ now \in 0 .. MaxDate
      /\ UNCHANGED <<arc, kept, offered, settled>>
  BY DEF OpenTmp, At, PsTypes, PsTypeOK
<1>2. now' \in 0 .. MaxDate /\ now <= now' /\ now' \in Nat /\ now \in Nat BY <1>1 DEF PsAssumption
<1>3. ~settled BY <1>1 DEF Spread, At
<1>0. "DEVS" \in Stores /\ "ENV" \in Stores /\ "" \in Suffixes /\ "_tmp" \in Suffixes /\ ".bak" \in Suffixes
  BY DEF Stores, Suffixes
<1>4. CASE /\ PutFile(s, "_tmp", e)
           /\ saver' = [saver EXCEPT !.pc = "write", !.text = t]
           /\ exposed' = (exposed \/ (s = "DEVS" /\ disk[s][""] = NoFile))
  <2>1. disk[s][""] \in Texts \cup {NoFile} BY <1>0
  <2>2. e \in Texts BY <1>2 DEF Texts, PsAssumption
  <2>3. /\ t \in Texts /\ t.kind = "whole" /\ t.known = saver.prefs.known /\ t.date = now'
        /\ disk[s][""] # NoFile => disk[s][""].odd \subseteq t.odd
    BY <1>2, <2>1 DEF tn_config_merge_preserve, tn_config_format, Texts, Prefs, PsAssumption
  <2> HIDE DEF e, t
  <2>4. disk' = [disk EXCEPT ![s]["_tmp"] = e] BY <1>4 DEF PutFile
  <2>5. disk' \in [Stores -> [Suffixes -> Texts \cup {NoFile}]]
    BY <1>0, <2>2, <2>4 DEF PsTypes, PsTypeOK
  <2>6. disk'[s]["_tmp"] = e /\ \A r \in Stores, x \in Suffixes : r # s \/ x # "_tmp" => disk'[r][x] = disk[r][x]
    BY <1>0, <2>4 DEF PsTypes, PsTypeOK
  <2>7. saver' \in Savers BY <1>4, <2>3 DEF PsTypes, Savers
  <2>8. saver'.pc = "write" /\ saver'.text = t /\ saver'.store = s /\ saver'.use = saver.use
        /\ saver'.prefs = saver.prefs /\ saver'.had = saver.had
    BY <1>4 DEF PsTypes, Savers
  <2>9. PsTypes' BY <1>1, <1>2, <1>4, <2>5, <2>7 DEF PsTypes, PsTypeOK, Savers
  <2>10. saver.had = FALSE BY <1>1 DEF Prepared, At
  <2>11. Prepared'
    <3>1. disk'[s][""] = disk[s][""] BY <1>0, <2>6
    <3>2. e # NoFile /\ t # NoFile BY <2>2, <2>3 DEF PsAssumption
    <3>3. now' <= now' BY <1>2
    <3>4. ~saver'.use \/ saver'.store = "ENV" BY <1>1, <2>8 DEF Prepared, At
    <3> QED BY <2>3, <2>6, <2>8, <2>10, <3>1, <3>2, <3>3, <3>4 DEF Prepared, At
  <2>12. Guarded'
    <3> SUFFICES ASSUME kept # NoFile, ~exposed'
                 PROVE  /\ disk'["DEVS"][""] = kept
                           \/ (disk'["DEVS"][""] = NoFile /\ disk'["DEVS"]["_tmp"] = offered /\ offered # NoFile)
                        /\ s = "DEVS" => disk'["DEVS"][""] = kept
      BY <1>1, <2>8, <2>10 DEF Guarded
    <3>1. ~exposed /\ (s = "DEVS" => disk["DEVS"][""] # NoFile) BY <1>4
    <3>2. disk'["DEVS"][""] = disk["DEVS"][""] BY <1>0, <2>6
    <3>3. s # "DEVS" => disk'["DEVS"]["_tmp"] = disk["DEVS"]["_tmp"] BY <1>0, <2>6
    <3> QED BY <3>1, <3>2, <3>3 DEF Guarded
  <2>13. Spread'
    <3>1. ASSUME ~saver.use, s # "DEVS" PROVE (Reached /\ kept.known = saver.prefs.known)'
      <4>1. Reached /\ kept.known = saver.prefs.known BY <1>1, <3>1 DEF Spread, At
      <4>2. disk'["DEVS"][""] = disk["DEVS"][""] BY <1>0, <2>6
      <4>3. kept.date \in 0 .. MaxDate BY <4>1 DEF Reached, PsTypes, PsTypeOK, Texts
      <4>4. PICK k \in Nat : k = kept.date BY <4>3
      <4>5. k <= now BY <4>1, <4>4 DEF Reached
      <4>6. k <= now' BY <1>2, <4>5
      <4> QED BY <1>1, <2>8, <4>1, <4>2, <4>4, <4>6 DEF Reached
    <3> QED BY <1>1, <1>3, <2>8, <3>1 DEF Spread
  <2> QED BY <2>9, <2>11, <2>12, <2>13
<1>5. CASE saver' = NextStore(FALSE) /\ UNCHANGED <<disk, exposed>>
  <2>1. disk' \in [Stores -> [Suffixes -> Texts \cup {NoFile}]] BY <1>5 DEF PsTypes, PsTypeOK
  <2>2. kept # NoFile /\ ~exposed =>
              \/ disk'["DEVS"][""] = kept
              \/ disk'["DEVS"][""] = NoFile /\ disk'["DEVS"]["_tmp"] = offered /\ offered # NoFile
    BY <1>5 DEF Guarded
  <2> QED BY <1>1, <1>2, <1>5, <2>1, <2>2, PsKeepsFailed DEF At
<1> QED BY <1>4, <1>5 DEF OpenTmp, Done

\* The text is written and the file closed, or one of them fails.
LEMMA PsKeepsWrite == ASSUME PsAssumption, PsInv, WriteTmp PROVE PsInv'
<1> USE DEF PsInv
<1> USE PsFields
<1> DEFINE s == saver.store
<1>1. saver.pc = "write" /\ saver.pc \in Writing /\ UNCHANGED <<now, arc, kept, exposed, settled>>
      /\ now \in 0 .. MaxDate
  BY DEF WriteTmp, At, PsTypes, PsTypeOK, Writing
<1>2. ~settled /\ saver.had = FALSE BY <1>1 DEF Spread, At, Prepared
<1>3. "DEVS" \in Stores /\ "ENV" \in Stores /\ "" \in Suffixes /\ "_tmp" \in Suffixes /\ ".bak" \in Suffixes
  BY DEF Stores, Suffixes
<1>4. ASSUME NEW t \in Texts \cup {NoFile}, PutFile(s, "_tmp", t)
      PROVE  /\ disk' \in [Stores -> [Suffixes -> Texts \cup {NoFile}]]
             /\ disk'[s]["_tmp"] = t
             /\ \A r \in Stores, x \in Suffixes : r # s \/ x # "_tmp" => disk'[r][x] = disk[r][x]
             /\ s # "DEVS" => disk'["DEVS"] = disk["DEVS"]
  <2>1. disk' = [disk EXCEPT ![s]["_tmp"] = t] BY <1>4 DEF PutFile
  <2> QED BY <1>3, <2>1 DEF PsTypes, PsTypeOK
<1>5. CASE /\ PutFile(s, "_tmp", saver.text) /\ saver' = [saver EXCEPT !.pc = "delbak"]
           /\ offered' = IF s = "DEVS" THEN saver.text ELSE offered
  <2>1. /\ disk' \in [Stores -> [Suffixes -> Texts \cup {NoFile}]]
        /\ disk'[s]["_tmp"] = saver.text
        /\ \A r \in Stores, x \in Suffixes : r # s \/ x # "_tmp" => disk'[r][x] = disk[r][x]
    BY <1>4, <1>5
  <2>2. saver' \in Savers BY <1>5 DEF PsTypes, Savers
  <2>3. saver'.pc = "delbak" /\ saver'.text = saver.text /\ saver'.store = s /\ saver'.use = saver.use
        /\ saver'.prefs = saver.prefs /\ saver'.had = FALSE
    BY <1>2, <1>5 DEF PsTypes, Savers
  <2>4. PsTypes' BY <1>1, <1>5, <2>1, <2>2 DEF PsTypes, PsTypeOK, Savers
  <2>5. disk'[s][""] = disk[s][""] /\ disk'["DEVS"][""] = disk["DEVS"][""] BY <1>3, <2>1
  <2>6. Prepared' BY <1>1, <1>2, <1>5, <2>1, <2>3, <2>5 DEF Prepared, At
  <2>7. Guarded'
    <3>1. s # "DEVS" => disk'["DEVS"]["_tmp"] = disk["DEVS"]["_tmp"] /\ offered' = offered BY <1>3, <1>5, <2>1
    <3> QED BY <1>1, <1>2, <2>3, <2>5, <3>1 DEF Guarded
  <2>8. Spread' BY <1>1, <1>2, <2>3, <2>5 DEF Spread, Reached, At
  <2> QED BY <2>4, <2>6, <2>7, <2>8
<1>6. CASE PutFile(s, "_tmp", NoFile) /\ saver' = NextStore(FALSE) /\ UNCHANGED offered
  <2>1. /\ disk' \in [Stores -> [Suffixes -> Texts \cup {NoFile}]]
        /\ \A r \in Stores, x \in Suffixes : r # s \/ x # "_tmp" => disk'[r][x] = disk[r][x]
        /\ s # "DEVS" => disk'["DEVS"] = disk["DEVS"]
    BY <1>4, <1>6
  <2>2. s = "DEVS" /\ kept # NoFile /\ ~exposed => disk'["DEVS"][""] = kept
    BY <1>1, <1>2, <1>3, <2>1 DEF Guarded
  <2>3. now \in Nat /\ now <= now' /\ ~At("idle") BY <1>1 DEF At
  <2> QED BY <1>1, <1>6, <2>1, <2>2, <2>3, PsKeepsFailed
<1> QED BY <1>5, <1>6 DEF WriteTmp, Done

\* The backup of the save before is deleted.
LEMMA PsKeepsDelete == ASSUME PsAssumption, PsInv, DeleteBak PROVE PsInv'
<1> USE DEF PsInv
<1> USE PsFields
<1> DEFINE s == saver.store
<1>1. saver.pc = "delbak" /\ saver.pc \in Writing /\ UNCHANGED <<now, arc, kept, offered, exposed, settled>>
      /\ saver' = [saver EXCEPT !.pc = "backup"] /\ disk' = [disk EXCEPT ![s][".bak"] = NoFile]
  BY DEF DeleteBak, At, Writing, PutFile
<1>2. ~settled /\ saver.had = FALSE BY <1>1 DEF Spread, At, Prepared
<1>3. "DEVS" \in Stores /\ "ENV" \in Stores /\ "" \in Suffixes /\ "_tmp" \in Suffixes /\ ".bak" \in Suffixes
  BY DEF Stores, Suffixes
<1>4. /\ disk' \in [Stores -> [Suffixes -> Texts \cup {NoFile}]]
      /\ \A r \in Stores, x \in Suffixes : x # ".bak" => disk'[r][x] = disk[r][x]
  BY <1>1, <1>3 DEF PsTypes, PsTypeOK
<1>5. saver' \in Savers BY <1>1 DEF PsTypes, Savers
<1>6. saver'.pc = "backup" /\ saver'.text = saver.text /\ saver'.store = s /\ saver'.use = saver.use
      /\ saver'.prefs = saver.prefs /\ saver'.had = FALSE
  BY <1>1, <1>2 DEF PsTypes, Savers
<1>7. PsTypes' BY <1>1, <1>4, <1>5 DEF PsTypes, PsTypeOK, Savers
<1>8. \A r \in Stores : disk'[r][""] = disk[r][""] /\ disk'[r]["_tmp"] = disk[r]["_tmp"] BY <1>3, <1>4
<1>9. Prepared' BY <1>1, <1>2, <1>6, <1>8 DEF Prepared, At
<1>10. Guarded' BY <1>1, <1>2, <1>3, <1>6, <1>8 DEF Guarded
<1>11. Spread' BY <1>1, <1>2, <1>3, <1>6, <1>8 DEF Spread, Reached, At
<1> QED BY <1>7, <1>9, <1>10, <1>11

\* The old file becomes the backup, if there is one and the rename works.
LEMMA PsKeepsBackup == ASSUME PsAssumption, PsInv, RenameOld PROVE PsInv'
<1> USE DEF PsInv
<1> USE PsFields
<1> DEFINE s == saver.store
<1>1. saver.pc = "backup" /\ saver.pc \in Writing /\ UNCHANGED <<now, arc, kept, offered, exposed, settled>>
  BY DEF RenameOld, At, Writing
<1>2. ~settled /\ saver.had = FALSE BY <1>1 DEF Spread, At, Prepared
<1>3. "DEVS" \in Stores /\ "ENV" \in Stores /\ "" \in Suffixes /\ "_tmp" \in Suffixes /\ ".bak" \in Suffixes
  BY DEF Stores, Suffixes
<1>4. PICK old \in Texts \cup {NoFile} : old = disk[s][""] BY <1>3
<1>5. CASE /\ old # NoFile /\ disk' = [disk EXCEPT ![s][".bak"] = old, ![s][""] = NoFile]
           /\ saver' = [saver EXCEPT !.pc = "install", !.had = TRUE]
  <2>1. /\ disk' \in [Stores -> [Suffixes -> Texts \cup {NoFile}]]
        /\ disk'[s][".bak"] = old /\ disk'[s][""] = NoFile /\ disk'[s]["_tmp"] = disk[s]["_tmp"]
        /\ \A r \in Stores, x \in Suffixes : r # s => disk'[r][x] = disk[r][x]
    BY <1>3, <1>5 DEF PsTypes, PsTypeOK
  <2>2. saver' \in Savers BY <1>5 DEF PsTypes, Savers
  <2>3. saver'.pc = "install" /\ saver'.text = saver.text /\ saver'.store = s /\ saver'.use = saver.use
        /\ saver'.prefs = saver.prefs /\ saver'.had = TRUE
    BY <1>5 DEF PsTypes, Savers
  <2>4. PsTypes' BY <1>1, <2>1, <2>2 DEF PsTypes, PsTypeOK, Savers
  <2>5. Prepared' BY <1>1, <1>2, <1>4, <1>5, <2>1, <2>3 DEF Prepared, At
  <2>6. Guarded'
    <3>1. CASE s = "DEVS" BY <1>1, <1>2, <1>4, <2>1, <2>3, <3>1, ZenonT(60) DEF Guarded, Prepared, At
    <3>2. CASE s # "DEVS"
      <4>1. disk'["DEVS"][""] = disk["DEVS"][""] /\ disk'["DEVS"]["_tmp"] = disk["DEVS"]["_tmp"]
        BY <1>3, <2>1, <3>2
      <4> QED BY <1>1, <2>3, <3>2, <4>1 DEF Guarded
    <3> QED BY <3>1, <3>2
  <2>7. Spread'
    <3>1. s # "DEVS" => disk'["DEVS"][""] = disk["DEVS"][""] BY <1>3, <2>1
    <3> QED BY <1>1, <1>2, <2>3, <3>1 DEF Spread, Reached, At
  <2> QED BY <2>4, <2>5, <2>6, <2>7
<1>6. CASE UNCHANGED disk /\ saver' = [saver EXCEPT !.pc = "install"]
  <2>2. saver' \in Savers BY <1>6 DEF PsTypes, Savers
  <2>3. saver'.pc = "install" /\ saver'.text = saver.text /\ saver'.store = s /\ saver'.use = saver.use
        /\ saver'.prefs = saver.prefs /\ saver'.had = FALSE
    BY <1>2, <1>6 DEF PsTypes, Savers
  <2>4. PsTypes' BY <1>1, <1>6, <2>2 DEF PsTypes, PsTypeOK, Savers
  <2>5. Prepared' BY <1>1, <1>2, <1>6, <2>3 DEF Prepared, At
  <2>6. Guarded' BY <1>1, <1>2, <1>6, <2>3 DEF Guarded
  <2>7. Spread' BY <1>1, <1>2, <1>6, <2>3 DEF Spread, Reached, At
  <2> QED BY <2>4, <2>5, <2>6, <2>7
<1> QED BY <1>4, <1>5, <1>6 DEF RenameOld

\* The new file takes its place, or the old one comes back.
LEMMA PsKeepsInstall == ASSUME PsAssumption, PsInv, RenameNew PROVE PsInv'
<1> USE DEF PsInv
<1> USE PsFields
<1> DEFINE s == saver.store
<1>1. saver.pc = "install" /\ saver.pc \in Writing /\ UNCHANGED <<now, arc, offered>> /\ now \in 0 .. MaxDate
  BY DEF RenameNew, At, Writing, PsTypes, PsTypeOK
<1>2. ~settled /\ ~At("idle") BY <1>1 DEF Spread, At
<1>3. "DEVS" \in Stores /\ "ENV" \in Stores /\ "" \in Suffixes /\ "_tmp" \in Suffixes /\ ".bak" \in Suffixes
  BY DEF Stores, Suffixes
<1>4. PICK d \in [Suffixes -> Texts \cup {NoFile}] : d = disk[s] BY DEF PsTypes, PsTypeOK
<1>5. d["_tmp"] = saver.text /\ saver.text \in Texts /\ saver.text # NoFile /\ saver.text.kind = "whole"
      /\ saver.text.known = saver.prefs.known /\ saver.text.date <= now
      /\ (s = "DEVS" => offered = saver.text)
  BY <1>1, <1>4 DEF Prepared, At
<1>6. CASE /\ d[""] = NoFile
           /\ disk' = [disk EXCEPT ![s][""] = d["_tmp"], ![s]["_tmp"] = NoFile]
           /\ saver' = NextStore(TRUE)
           /\ kept' = IF s = "DEVS" THEN saver.text ELSE kept
           /\ exposed' = (exposed /\ s # "DEVS")
           /\ settled' = (s = "ENV" /\ ~saver.use)
  <2>1. /\ disk' \in [Stores -> [Suffixes -> Texts \cup {NoFile}]]
        /\ disk'[s][""] = saver.text
        /\ \A r \in Stores, x \in Suffixes : r # s => disk'[r][x] = disk[r][x]
    BY <1>3, <1>4, <1>5, <1>6 DEF PsTypes, PsTypeOK
  <2>2. /\ saver' \in Savers /\ saver'.had = FALSE
        /\ \/ saver'.pc = "idle"
           \/ /\ saver'.pc = "open" /\ saver'.store # "DEVS" /\ saver'.use = saver.use
              /\ saver'.prefs = saver.prefs /\ s # "ENV"
        /\ s = "ENV" => saver'.pc = "idle"
    BY <1>6, NextSaver DEF PsTypes
  <2>3. settled' \in BOOLEAN /\ exposed' \in BOOLEAN /\ kept' \in Texts \cup {NoFile}
    BY <1>5, <1>6 DEF PsTypes, PsTypeOK
  <2>4. PsTypes' BY <1>1, <2>1, <2>2, <2>3 DEF PsTypes, PsTypeOK, Savers
  <2>5. saver'.pc \notin Writing BY <2>2 DEF Writing
  <2>6. Prepared'
    <3>1. s # "ENV" => ~saver.use BY <1>1 DEF Prepared, At
    <3> QED BY <2>2, <2>5, <3>1 DEF Prepared, At
  <2>7. s # "DEVS" => disk'["DEVS"][""] = disk["DEVS"][""] /\ disk'["DEVS"]["_tmp"] = disk["DEVS"]["_tmp"]
    BY <1>3, <2>1
  <2>8. Guarded' BY <1>1, <1>6, <2>1, <2>5, <2>7 DEF Guarded
  <2>9. s # "ENV" => ~saver.use BY <1>1 DEF Prepared, At
  <2>11. ~saver.use => Reached' /\ kept'.known = saver.prefs.known
    BY <1>1, <1>2, <1>5, <1>6, <2>1, <2>7 DEF Reached, Spread
  <2>12. s = "ENV" => disk'["ENV"][""].kind = "whole" /\ disk'["ENV"][""].known = saver.prefs.known
    BY <1>5, <2>1
  <2>13. Spread' BY <1>6, <2>2, <2>9, <2>11, <2>12 DEF Spread, At
  <2> QED BY <2>4, <2>6, <2>8, <2>13
<1>7. CASE /\ IF saver.had
              THEN disk' = [disk EXCEPT ![s][""] = d[".bak"], ![s][".bak"] = NoFile, ![s]["_tmp"] = NoFile]
              ELSE PutFile(s, "_tmp", NoFile)
           /\ saver' = NextStore(FALSE) /\ UNCHANGED <<kept, exposed, settled>>
  <2>1. /\ disk' \in [Stores -> [Suffixes -> Texts \cup {NoFile}]]
        /\ disk'[s][""] = IF saver.had THEN d[".bak"] ELSE d[""]
        /\ s # "DEVS" => disk'["DEVS"] = disk["DEVS"]
    <3>1. CASE saver.had
      <4>1. disk' = [disk EXCEPT ![s][""] = d[".bak"], ![s][".bak"] = NoFile, ![s]["_tmp"] = NoFile]
        BY <1>7, <3>1
      <4>2. d[".bak"] \in Texts \cup {NoFile} BY <1>3, <1>4
      <4> QED BY <1>3, <3>1, <4>1, <4>2 DEF PsTypes, PsTypeOK
    <3>2. CASE ~saver.had
      <4>1. disk' = [disk EXCEPT ![s]["_tmp"] = NoFile] BY <1>7, <3>2 DEF PutFile
      <4> QED BY <1>3, <1>4, <3>2, <4>1 DEF PsTypes, PsTypeOK
    <3> QED BY <3>1, <3>2
  <2>2. s = "DEVS" /\ kept # NoFile /\ ~exposed => disk'["DEVS"][""] = kept
    BY <1>1, <1>4, <2>1 DEF Guarded
  <2>3. now <= now' BY <1>1 DEF PsAssumption
  <2> QED BY <1>1, <1>2, <1>7, <2>1, <2>2, <2>3, PsKeepsFailed
<1>8. \/ /\ d[""] = NoFile
         /\ disk' = [disk EXCEPT ![s][""] = d["_tmp"], ![s]["_tmp"] = NoFile]
         /\ saver' = NextStore(TRUE)
         /\ kept' = IF s = "DEVS" THEN saver.text ELSE kept
         /\ exposed' = (exposed /\ s # "DEVS")
         /\ settled' = (s = "ENV" /\ ~saver.use)
      \/ /\ IF saver.had
            THEN disk' = [disk EXCEPT ![s][""] = d[".bak"], ![s][".bak"] = NoFile, ![s]["_tmp"] = NoFile]
            ELSE PutFile(s, "_tmp", NoFile)
         /\ saver' = NextStore(FALSE) /\ UNCHANGED <<kept, exposed, settled>>
  BY <1>4 DEF RenameNew, Done
<1> QED BY <1>6, <1>7, <1>8

\* The power fails: a file being written may be cut, ENV: is made anew.
LEMMA PsKeepsCut == ASSUME PsAssumption, PsInv, PowerCut PROVE PsInv'
<1> USE DEF PsInv
<1> USE PsFields
<1>1. now' = now + 1 /\ now < MaxDate /\ now \in 0 .. MaxDate /\ saver' = Idle
      /\ settled' = (settled /\ At("idle")) /\ UNCHANGED <<arc, kept, offered, exposed>>
  BY DEF PowerCut, PsTypes, PsTypeOK
<1>2. now' \in 0 .. MaxDate /\ now \in Nat /\ now' \in Nat /\ now <= now' BY <1>1 DEF PsAssumption
<1>3. "DEVS" \in Stores /\ "ENV" \in Stores /\ "ENVARC" \in Stores
      /\ "" \in Suffixes /\ "_tmp" \in Suffixes /\ ".bak" \in Suffixes
  BY DEF Stores, Suffixes
<1>4. PICK cut \in {"empty", "part"} :
         LET left == IF At("write") /\ saver.store # "ENV"
                     THEN [disk EXCEPT ![saver.store]["_tmp"].kind = cut] ELSE disk
             env == IF arc /\ left["ENVARC"][""] # NoFile
                    THEN [left["ENVARC"][""] EXCEPT !.date = now'] ELSE NoFile
         IN disk' = [left EXCEPT !["ENV"] = [x \in Suffixes |-> IF x = "" THEN env ELSE NoFile]]
  BY DEF PowerCut
<1> DEFINE left == IF At("write") /\ saver.store # "ENV"
                   THEN [disk EXCEPT ![saver.store]["_tmp"].kind = cut] ELSE disk
<1>5. /\ left \in [Stores -> [Suffixes -> Texts \cup {NoFile}]]
      /\ left["DEVS"][""] = disk["DEVS"][""]
      /\ ~(At("write") /\ saver.store = "DEVS") => left["DEVS"] = disk["DEVS"]
  <2>1. CASE At("write") /\ saver.store # "ENV"
    <3>1. PICK t \in Texts : t = disk[saver.store]["_tmp"]
      BY <1>3, <2>1 DEF Prepared, At, Writing
    <3>2. PICK u \in Texts : u = [t EXCEPT !.kind = cut] BY DEF Texts
    <3>3. left = [disk EXCEPT ![saver.store]["_tmp"] = u] BY <2>1, <3>1, <3>2
    <3> HIDE DEF left
    <3> QED BY <1>3, <2>1, <3>3 DEF PsTypes, PsTypeOK
  <2>2. CASE ~(At("write") /\ saver.store # "ENV") BY <2>2 DEF PsTypes, PsTypeOK
  <2> QED BY <2>1, <2>2
<1> DEFINE env == IF arc /\ left["ENVARC"][""] # NoFile
                  THEN [left["ENVARC"][""] EXCEPT !.date = now'] ELSE NoFile
<1>6. disk' = [left EXCEPT !["ENV"] = [x \in Suffixes |-> IF x = "" THEN env ELSE NoFile]]
  BY <1>4
<1> HIDE DEF left
<1>7. env \in Texts \cup {NoFile} /\ (env # NoFile => env.date = now')
  <2>1. CASE arc /\ left["ENVARC"][""] # NoFile
    <3> HIDE DEF env
    <3>0. left["ENVARC"] \in [Suffixes -> Texts \cup {NoFile}] BY <1>3, <1>5
    <3>00. left["ENVARC"][""] \in Texts \cup {NoFile} BY <1>3, <3>0
    <3>1. PICK t \in Texts : t = left["ENVARC"][""] BY <2>1, <3>00
    <3>2. env = [t EXCEPT !.date = now'] BY <2>1, <3>1 DEF env
    <3> QED BY <1>2, <3>2 DEF Texts
  <2>2. CASE ~(arc /\ left["ENVARC"][""] # NoFile) BY <2>2
  <2> QED BY <2>1, <2>2
<1> HIDE DEF env
<1>8. disk' \in [Stores -> [Suffixes -> Texts \cup {NoFile}]] /\ disk'["DEVS"] = left["DEVS"] /\ disk'["ENV"][""] = env
  BY <1>3, <1>5, <1>6, <1>7
<1>9. saver' \in Savers /\ saver'.pc = "idle" /\ saver'.had = FALSE BY <1>1, IdleSaver
<1>10. saver'.pc \notin Writing BY <1>9 DEF Writing
<1>11. settled' \in BOOLEAN BY <1>1 DEF PsTypes, PsTypeOK
<1>12. PsTypes' BY <1>1, <1>2, <1>8, <1>9, <1>11 DEF PsTypes, PsTypeOK, Savers
<1>13. Prepared' BY <1>9, <1>10 DEF Prepared, At
<1>14. Guarded'
  <2>1. CASE At("write") /\ saver.store = "DEVS"
    <3>1. ~saver.had /\ saver.pc \in Writing BY <2>1 DEF Prepared, At, Writing
    <3> QED BY <1>1, <1>5, <1>8, <1>10, <2>1, <3>1 DEF Guarded
  <2>2. CASE ~(At("write") /\ saver.store = "DEVS")
    BY <1>1, <1>5, <1>8, <1>10, <2>2 DEF Guarded
  <2> QED BY <2>1, <2>2
<1>15. Spread'
  <2> SUFFICES ASSUME settled' PROVE Reached' /\ (env # NoFile => env.date >= kept'.date)
    BY <1>8, <1>9 DEF Spread, At
  <2>1. Reached BY <1>1 DEF Spread
  <2>2. kept.date \in 0 .. MaxDate BY <2>1 DEF Reached, PsTypes, PsTypeOK, Texts
  <2>3. PICK k \in Nat : k = kept.date BY <2>2
  <2>4. k <= now BY <2>1, <2>3 DEF Reached
  <2>5. k <= now' BY <1>2, <2>4
  <2>6. Reached' BY <1>1, <1>5, <1>8, <2>1, <2>3, <2>5 DEF Reached
  <2>7. now' >= k BY <1>2, <2>5
  <2> QED BY <1>1, <1>7, <2>3, <2>6, <2>7
<1> QED BY <1>12, <1>13, <1>14, <1>15

\* The user edits the file.
LEMMA PsKeepsEdit ==
    ASSUME PsAssumption, PsInv, NEW v \in Settings, NEW diag \in BOOLEAN, NEW odd \in SUBSET Odd,
           Edit(v, diag, odd)
    PROVE  PsInv'
<1> USE DEF PsInv
<1>1. now' = now + 1 /\ now < MaxDate /\ now \in 0 .. MaxDate /\ saver.pc = "idle"
      /\ exposed' = FALSE /\ settled' = FALSE /\ UNCHANGED <<arc, saver, offered>>
  BY DEF Edit, At, PsTypes, PsTypeOK
<1>2. now' \in 0 .. MaxDate BY <1>1 DEF PsAssumption
<1>3. PICK t \in Texts : /\ t = [kind |-> "whole", known |-> v, diag |-> diag, odd |-> odd, date |-> now']
  BY <1>2 DEF Texts
<1>4. disk' = [disk EXCEPT !["DEVS"][""] = t] /\ kept' = t BY <1>3 DEF Edit, PutFile
<1>5. disk' \in [Stores -> [Suffixes -> Texts \cup {NoFile}]] /\ disk'["DEVS"][""] = t
  BY <1>4 DEF PsTypes, PsTypeOK, Stores, Suffixes
<1>6. PsTypes' BY <1>1, <1>2, <1>4, <1>5 DEF PsTypes, PsTypeOK
<1>7. saver.pc \notin Writing /\ saver.had = FALSE BY <1>1, PsFields DEF Writing, Prepared, At
<1>8. Prepared' BY <1>1, <1>7 DEF Prepared, At
<1>9. Guarded' BY <1>1, <1>4, <1>5, <1>7 DEF Guarded
<1>10. Spread' BY <1>1 DEF Spread, At
<1> QED BY <1>6, <1>8, <1>9, <1>10

\* Every step preserves the invariant.
LEMMA PsKeeps == ASSUME PsAssumption, PsInv, [PsNext]_psvars PROVE PsInv'
<1>1. CASE UNCHANGED psvars
  <2> USE <1>1 DEF psvars, PsInv
  <2>1. PsTypes' BY DEF PsTypes, PsTypeOK
  <2>2. Prepared' BY DEF Prepared, At
  <2>3. Guarded' BY DEF Guarded
  <2>4. Spread' BY DEF Spread, Reached, At
  <2> QED BY <2>1, <2>2, <2>3, <2>4
<1>2. CASE PsNext
  BY <1>2, PsKeepsStart, PsKeepsOpen, PsKeepsWrite, PsKeepsDelete, PsKeepsBackup, PsKeepsInstall,
     PsKeepsCut, PsKeepsEdit DEF PsNext
<1> QED BY <1>1, <1>2

\* What the invariant says of a start and of a load.
LEMMA PsSurvives == ASSUME PsAssumption, PsInv PROVE ConfigSurvives
<1> USE DEF PsInv
<1>1. kept # NoFile /\ ~exposed => tn_prefs_open_recover("DEVS") \in {kept, offered}
  BY DEF Guarded, tn_prefs_open_recover
<1>2. ASSUME settled PROVE tn_prefs_load.known = kept.known
  <2>1. Reached BY <1>2 DEF Spread
  <2>2. PICK e : e = disk["ENV"][""] OBVIOUS
  <2>3. e # NoFile => e.date >= kept.date \/ (e.kind = "whole" /\ e.known = kept.known)
    BY <1>2, <2>2 DEF Spread
  <2>4. tn_prefs_open_recover("DEVS") = kept BY <2>1 DEF Reached, tn_prefs_open_recover
  <2>5. e \in Texts \cup {NoFile} /\ kept \in Texts
    BY <2>1, <2>2, PsFields DEF Reached, PsTypes, PsTypeOK, Stores, Suffixes
  <2>6. e # NoFile /\ Later(e, kept) => e.kind = "whole" /\ e.known = kept.known
    <3> SUFFICES ASSUME e # NoFile, Later(e, kept) PROVE e.kind = "whole" /\ e.known = kept.known
      OBVIOUS
    <3>1. PICK a \in Nat, b \in Nat : a = e.date /\ b = kept.date BY <2>5 DEF Texts
    <3>2. b > a BY <3>1 DEF Later
    <3>3. ~(a >= b) BY <3>1, <3>2
    <3> QED BY <2>3, <3>1, <3>3
  <2>7. kept # NoFile /\ kept.kind = "whole" BY <2>1 DEF Reached
  <2>8. CASE e # NoFile /\ Later(e, kept)
    <3>1. tn_prefs_load = Parsed(e) BY <2>2, <2>4, <2>6, <2>7, <2>8 DEF tn_prefs_load, Readable
    <3> QED BY <2>6, <2>8, <3>1 DEF Parsed
  <2>9. CASE ~(e # NoFile /\ Later(e, kept))
    <3>1. tn_prefs_load = Parsed(kept) BY <2>2, <2>4, <2>7, <2>9 DEF tn_prefs_load, Readable
    <3> QED BY <2>7, <3>1 DEF Parsed
  <2> QED BY <2>8, <2>9
<1> QED BY <1>1, <1>2 DEF ConfigSurvives

\* And of the rename that installs a text.
LEMMA PsSaves == ASSUME PsInv PROVE SaveKeepsSettings
<1> DEFINE s == saver.store
<1> SUFFICES ASSUME RenameNew, disk'[s][""] # NoFile, disk'[s][""] = disk[s]["_tmp"]
             PROVE  /\ disk'[s][""].known = saver.prefs.known
                    /\ saver.had => disk[s][".bak"].odd \subseteq disk'[s][""].odd
  BY DEF SaveKeepsSettings
<1>1. saver.pc = "install" /\ saver.pc \in Writing BY DEF RenameNew, At, Writing
<1> QED BY <1>1 DEF PsInv, Prepared, At

----------------------------------------------------------------------------

(***************************************************************************)
(* PrefsEditor.                                                             *)
(***************************************************************************)

\* The mode of the window is the mode of the preferences; the poll request and
\* everything else is returned at the end; and after a Save that wrote every
\* store the editor is on its way out, what is loaded is what the window showed,
\* and a daemon that was told, or started since, has loaded it.
PeInv ==
    /\ PeTypeOK
    /\ pe_prefs.dhcp = pe_win.dhcp
    /\ pe_pc = "start" => pe_timer = "none"
    /\ pe_pc = "out" => pe_held = {} /\ pe_timer = "none"
    /\ pe_wish # NoCfg => /\ pe_pc \in {"notify", "asks", "out"} /\ pe_last /\ Loaded = pe_wish
                          /\ pe_pc \in {"asks", "out"} => pe_daemon \in {NoCfg, pe_wish}

\* A configuration is not the mark of none, and what is loaded is one.
LEMMA LoadedCfg == ASSUME PeAssumption, PeTypeOK PROVE Loaded \in Cfgs /\ NoCfg \notin Cfgs
BY DEF PeAssumption, PeTypeOK, Loaded, Cfgs, NoCfg

\* No Save has been made at first.
LEMMA PeStarts == ASSUME PeAssumption PROVE PeInit => PeInv
<1> SUFFICES ASSUME PeInit PROVE PeInv OBVIOUS
<1>1. pe_devs \in Cfgs BY DEF PeInit, PeAssumption, Cfgs
<1>2. 0 \in 0 .. PeEdits BY DEF PeAssumption
<1>3. PeTypeOK BY <1>1, <1>2 DEF PeInit, PeTypeOK
<1> QED BY <1>3 DEF PeInit, PeInv

\* What a Save writes is what the window shows.
LEMMA GadgetsShown ==
    ASSUME PeAssumption, PeTypeOK, pe_prefs.dhcp = pe_win.dhcp
    PROVE  FromGadgets \in Cfgs /\ FromGadgets = Shown
<1>1. pe_win \in Cfgs /\ pe_prefs \in Cfgs BY DEF PeTypeOK
<1>2. PICK m \in Nat : m = pe_win.mtu /\ m \in PeMtus BY <1>1 DEF Cfgs, PeAssumption
<1>3. MtuLow \in Nat /\ MtuHigh \in Nat BY DEF PeAssumption
<1>4. m \in MtuLow .. MtuHigh <=> ~(m < MtuLow \/ m > MtuHigh) BY <1>2, <1>3
<1>5. 0 \in PeMtus BY DEF PeAssumption
<1>6. FromGadgets \in Cfgs BY <1>1, <1>2, <1>5 DEF FromGadgets, Cfgs
<1>7. Shown = [text |-> pe_win.text, dhcp |-> pe_win.dhcp,
               mtu |-> IF m < MtuLow \/ m > MtuHigh THEN 0 ELSE m]
  BY <1>1, <1>2 DEF Shown, Cfgs
<1> QED BY <1>1, <1>2, <1>4, <1>6, <1>7 DEF FromGadgets

\* The buttons can be pressed or not.
LEMMA ButtonsType == ASSUME NEW r \in BOOLEAN PROVE ButtonsFor(r) \in [start : BOOLEAN, stop : BOOLEAN]
<1>1. (~r) \in BOOLEAN OBVIOUS
<1> QED BY <1>1 DEF ButtonsFor

\* One more edit is within the bound.
LEMMA OneMoreEdit ==
    ASSUME PeAssumption, pe_edits \in 0 .. PeEdits, pe_edits < PeEdits, pe_edits' = pe_edits + 1
    PROVE  pe_edits' \in 0 .. PeEdits
BY DEF PeAssumption

\* Every step preserves the invariant.
LEMMA PeKeeps == ASSUME PeAssumption, PeInv, [PeNext]_pevars PROVE PeInv'
<1> USE DEF PeInv
<1>0. Loaded \in Cfgs /\ NoCfg \notin Cfgs BY LoadedCfg
<1>1. CASE UNCHANGED pevars BY <1>1 DEF pevars, PeTypeOK, Loaded
<1>2. CASE PeOpen
  <2>1. pe_win' \in Cfgs /\ pe_win'.dhcp = Loaded.dhcp
    BY <1>0, <1>2 DEF PeOpen, InterfaceGadgets, Cfgs, PeAssumption
  <2>2. pe_wish = NoCfg BY <1>2 DEF PeOpen
  <2>3. PeTypeOK'
    <3>1. pe_held' \subseteq Needed \cup {"icon", "timer port", "timer"} /\ pe_timer' \in {"none", "sent"}
      BY <1>2 DEF PeOpen
    <3>2. pe_buttons' \in [start : BOOLEAN, stop : BOOLEAN] BY <1>2, ButtonsType DEF PeOpen, daemon_running
    <3> QED BY <1>0, <1>2, <2>1, <3>1, <3>2 DEF PeOpen, PeTypeOK, stores
  <2> QED BY <1>2, <2>1, <2>2, <2>3 DEF PeOpen
<1>3. CASE PeOpenFails
  BY <1>3 DEF PeOpenFails, PeTypeOK, stores, Loaded
<1>4. CASE PeMode
  <2>1. pe_win' \in Cfgs /\ pe_prefs' \in Cfgs /\ pe_prefs'.dhcp = pe_win'.dhcp
    BY <1>4 DEF PeMode, PeTypeOK, Cfgs
  <2>2. pe_edits' \in 0 .. PeEdits BY <1>4, OneMoreEdit DEF PeMode, PeTypeOK
  <2>3. PeTypeOK' BY <1>4, <2>1, <2>2 DEF PeMode, PeTypeOK, stores
  <2> QED BY <1>4, <2>1, <2>3 DEF PeMode, stores, Loaded
<1>5. ASSUME NEW c \in Cfgs, PeType(c) PROVE PeInv'
  <2>1. pe_edits' \in 0 .. PeEdits BY <1>5, OneMoreEdit DEF PeType, PeTypeOK
  <2>2. PeTypeOK' BY <1>5, <2>1 DEF PeType, PeTypeOK, stores
  <2> QED BY <1>5, <2>2 DEF PeType, stores, Loaded
<1>6. ASSUME NEW use \in BOOLEAN, PeWrite(use) PROVE PeInv'
  <2>1. FromGadgets \in Cfgs /\ FromGadgets = Shown BY GadgetsShown
  <2>2. pe_wish = NoCfg /\ pe_last' = ~use /\ pe_pc' = "notify" /\ pe_prefs' = FromGadgets
        /\ UNCHANGED <<pe_held, pe_timer, pe_win, pe_daemon, pe_buttons, pe_edits>>
    BY <1>6 DEF PeWrite
  <2>3. pe_prefs'.dhcp = pe_win'.dhcp BY <2>2 DEF FromGadgets
  <2>4. \/ pe_wish' = NoCfg
        \/ ~use /\ pe_env' = FromGadgets /\ pe_devs' = FromGadgets /\ pe_newer' = FALSE /\ pe_wish' = Shown
    BY <1>6, <2>2 DEF PeWrite
  <2>5. PeTypeOK'
    <3>1. {pe_devs', pe_env'} \subseteq Cfgs /\ pe_newer' \in BOOLEAN /\ pe_last' \in BOOLEAN
      BY <1>6, <2>1 DEF PeWrite, PeTypeOK, stores
    <3>2. pe_wish' \in Cfgs \cup {NoCfg} BY <2>1, <2>4
    <3> QED BY <2>1, <2>2, <3>1, <3>2 DEF PeTypeOK
  <2> QED BY <2>1, <2>2, <2>3, <2>4, <2>5 DEF Loaded
<1>7. CASE after_save_use
  <2>1. PeTypeOK' BY <1>0, <1>7 DEF after_save_use, PeTypeOK, stores, Leaves, PeCleanup
  <2>2. Loaded' = Loaded BY <1>7 DEF after_save_use, stores, Loaded
  <2> QED BY <1>7, <2>1, <2>2 DEF after_save_use, Leaves, PeCleanup, daemon_running
<1>8. CASE PeAnswer
  <2>1. pe_daemon' \in {pe_daemon, Loaded} BY <1>8 DEF PeAnswer, daemon_start
  <2>2. pe_buttons' \in [start : BOOLEAN, stop : BOOLEAN]
    BY <1>8, ButtonsType DEF PeAnswer, update_daemon_buttons, PeTypeOK
  <2>3. PeTypeOK' BY <1>0, <1>8, <2>1, <2>2 DEF PeAnswer, PeTypeOK, stores, Leaves, PeCleanup
  <2>4. Loaded' = Loaded BY <1>8 DEF PeAnswer, stores, Loaded
  <2> QED BY <1>8, <2>1, <2>3, <2>4 DEF PeAnswer, Leaves, PeCleanup
<1>9. CASE PeStart
  <2>1. pe_daemon' \in {pe_daemon, Loaded} BY <1>9 DEF PeStart, daemon_start
  <2>2. pe_buttons' \in [start : BOOLEAN, stop : BOOLEAN]
    BY <1>9 DEF PeStart, update_daemon_buttons, ButtonsFor
  <2>3. PeTypeOK' BY <1>0, <1>9, <2>1, <2>2 DEF PeStart, PeTypeOK, stores
  <2> QED BY <1>9, <2>3 DEF PeStart
<1>10. CASE daemon_stop
  <2>2. pe_buttons' \in [start : BOOLEAN, stop : BOOLEAN]
    BY <1>10 DEF daemon_stop, update_daemon_buttons, ButtonsFor
  <2>3. PeTypeOK' BY <1>10, <2>2 DEF daemon_stop, PeTypeOK, stores
  <2> QED BY <1>10, <2>3 DEF daemon_stop
<1>11. CASE PePoll
  <2>1. pe_buttons' \in [start : BOOLEAN, stop : BOOLEAN] BY <1>11, ButtonsType DEF PePoll, daemon_running
  <2>2. PeTypeOK' BY <1>11, <2>1 DEF PePoll, PeTypeOK, stores
  <2> QED BY <1>11, <2>2 DEF PePoll
<1>12. CASE PeCancel
  <2>1. PeTypeOK' BY <1>12 DEF PeCancel, PeCleanup, PeTypeOK, stores
  <2> QED BY <1>12, <2>1 DEF PeCancel, PeCleanup
<1>13. CASE PollDue
  <2>1. PeTypeOK' BY <1>13 DEF PollDue, PeTypeOK, stores
  <2> QED BY <1>13, <2>1 DEF PollDue, stores, Loaded
<1>14. CASE DaemonComesAndGoes
  <2>1. pe_daemon' \in {NoCfg, Loaded} BY <1>14 DEF DaemonComesAndGoes
  <2>2. PeTypeOK' BY <1>0, <1>14, <2>1 DEF DaemonComesAndGoes, PeTypeOK, stores
  <2> QED BY <1>14, <2>1, <2>2 DEF DaemonComesAndGoes, stores, Loaded
<1> QED BY <1>1, <1>2, <1>3, <1>4, <1>5, <1>6, <1>7, <1>8, <1>9, <1>10, <1>11, <1>12, <1>13, <1>14
     DEF PeNext

\* The promise follows from the invariant.
LEMMA PeSaved == ASSUME PeInv PROVE SavedIsRun
BY DEF PeInv, SavedIsRun, daemon_running

----------------------------------------------------------------------------

(***************************************************************************)
(* Wizard: what the user wished is in the state or in a gadget that the     *)
(* next sync copies.                                                        *)
(***************************************************************************)
\* The texts, states, gadgets, messages and wishes of the wizard.
WzTexts == {EmptyText, "own", "bad", "word", "ok", "*", HiddenAp} \cup {WzNets[i] : i \in DOMAIN WzNets}
WzStates == [page : 0 .. PageTest, ssid : WzTexts, shown : WzTexts, pass : WzTexts, show : BOOLEAN,
             sel : Nat, nets : {<<>>, WzNets}, mode : {0, 1}, addr : WzTexts, wireless : BOOLEAN,
             passed : BOOLEAN, adv : BOOLEAN]
WzGadgets == [page : 0 .. PageTest, ssid : WzTexts, pass : WzTexts, masked : BOOLEAN,
              manual : BOOLEAN, addr : WzTexts]
WzRexxes == [sent : Nat, port : Nat, parked : BOOLEAN, done : BOOLEAN, cancel : BOOLEAN,
             replied : Nat, used : BOOLEAN]
WzWishes == [ssid : WzTexts, pass : WzTexts, addr : WzTexts, adv : BOOLEAN]

\* What the variables hold.
WzTypes ==
    /\ WzTypeOK /\ ws \in WzStates /\ wz_gad \in WzGadgets /\ wz_rexx \in WzRexxes
    /\ wz_wish \in WzWishes /\ wz_adv \in {"no", "set", "clear"}

\* The gadgets are those of the page, and the SSID that was put into its gadget
\* is the one of the state.
PageUp == wz_gad.page = ws.page /\ (ws.page = PageWifi => ws.shown = ws.ssid)

\* A state that holds the wishes u.
Holds(w, u) ==
    w.pass = u.pass /\ w.addr = u.addr /\ w.adv = u.adv /\ (u.ssid # EmptyText => w.ssid = u.ssid)

\* A sync brings the state to what the user wishes.
WishHeld == wz_finishes = 0 => Holds(Synced(ws), wz_wish)

\* Without ARexx nobody comes to the last page past an address that is not valid.
Checked ==
    wz_finishes = 0 /\ ~wz_rexx.used =>
        ~wz_rexx.done /\ (ws.page = PageTest => validate_address_page(ws))

\* Every message is on the port, parked or answered.
Counted ==
    wz_rexx.sent = IF wz_run = "out" THEN wz_rexx.replied
                   ELSE wz_rexx.replied + wz_rexx.port + (IF wz_rexx.parked THEN 1 ELSE 0)

\* Together.
WzInv == WzTypes /\ PageUp /\ WishHeld /\ Checked /\ Counted

\* A sync field by field.
LEMMA SyncFields ==
    ASSUME NEW w \in WzStates, NEW g \in WzGadgets, NEW r, r = sync_page_gadgets_to_state(w, g)
    PROVE  /\ r \in WzStates /\ r.page = w.page /\ r.show = w.show /\ r.sel = w.sel /\ r.nets = w.nets
           /\ r.mode = w.mode /\ r.wireless = w.wireless /\ r.passed = w.passed /\ r.adv = w.adv
           /\ r.pass = IF g.page = PageWifi /\ ~g.masked THEN g.pass ELSE w.pass
           /\ r.ssid = IF g.page = PageWifi /\ g.ssid # w.shown THEN g.ssid ELSE w.ssid
           /\ r.shown = IF g.page = PageWifi /\ g.ssid # w.shown THEN g.ssid ELSE w.shown
           /\ r.addr = IF g.page = PageAddress /\ g.manual THEN g.addr ELSE w.addr
<1> USE DEF PageWifi, PageAddress, PageTest
<1>1. CASE g.page = PageWifi
  <2>1. r = [w EXCEPT !.pass = IF g.masked THEN @ ELSE g.pass,
                      !.ssid = IF g.ssid # w.shown THEN g.ssid ELSE @,
                      !.shown = IF g.ssid # w.shown THEN g.ssid ELSE @]
    BY <1>1 DEF sync_page_gadgets_to_state
  <2>2. w.pass \in WzTexts /\ g.pass \in WzTexts /\ w.ssid \in WzTexts /\ g.ssid \in WzTexts /\ w.shown \in WzTexts
    BY DEF WzStates, WzGadgets
  <2>3. PICK p \in WzTexts : p = IF g.masked THEN w.pass ELSE g.pass BY <2>2
  <2>4. PICK i \in WzTexts : i = IF g.ssid # w.shown THEN g.ssid ELSE w.ssid BY <2>2
  <2>5. PICK h \in WzTexts : h = IF g.ssid # w.shown THEN g.ssid ELSE w.shown BY <2>2
  <2>6. r = [w EXCEPT !.pass = p, !.ssid = i, !.shown = h] BY <2>1, <2>3, <2>4, <2>5
  <2>7. /\ r \in WzStates /\ r.page = w.page /\ r.show = w.show /\ r.sel = w.sel /\ r.nets = w.nets
        /\ r.mode = w.mode /\ r.wireless = w.wireless /\ r.passed = w.passed /\ r.adv = w.adv
        /\ r.pass = p /\ r.ssid = i /\ r.shown = h /\ r.addr = w.addr
    BY <2>6 DEF WzStates
  <2> QED BY <1>1, <2>3, <2>4, <2>5, <2>7
<1>2. CASE g.page = PageAddress /\ g.manual
  <2>1. r = [w EXCEPT !.addr = g.addr] BY <1>2 DEF sync_page_gadgets_to_state
  <2> QED BY <1>2, <2>1 DEF WzStates, WzGadgets
<1>3. CASE g.page # PageWifi /\ ~(g.page = PageAddress /\ g.manual)
  <2>1. r = w BY <1>3 DEF sync_page_gadgets_to_state
  <2> QED BY <1>3, <2>1
<1> QED BY <1>1, <1>2, <1>3

\* The state a page is built from.
LEMMA FilledFields ==
    ASSUME NEW w \in WzStates, NEW r, r = Filled(w)
    PROVE  /\ r \in WzStates /\ r.page = w.page /\ r.show = w.show /\ r.mode = w.mode
           /\ r.wireless = w.wireless /\ r.passed = w.passed /\ r.adv = w.adv
           /\ r.pass = w.pass /\ r.addr = w.addr
           /\ w.ssid # EmptyText => r.ssid = w.ssid
           /\ w.page = PageWifi => r.shown = r.ssid
<1>1. CASE w.page = PageWifi /\ w.ssid = EmptyText /\ w.sel \in DOMAIN w.nets
  <2>0. w.nets \in {<<>>, WzNets} BY DEF WzStates
  <2>1. PICK n \in WzTexts : n = w.nets[w.sel] BY <1>1, <2>0 DEF WzTexts
  <2>2. r = [w EXCEPT !.ssid = n, !.shown = n] BY <1>1, <2>1 DEF Filled
  <2> QED BY <1>1, <2>2 DEF WzStates
<1>2. CASE ~(w.page = PageWifi /\ w.ssid = EmptyText /\ w.sel \in DOMAIN w.nets)
  <2>1. r = [w EXCEPT !.shown = IF w.page = PageWifi THEN w.ssid ELSE @] BY <1>2 DEF Filled
  <2> QED BY <2>1 DEF WzStates
<1> QED BY <1>1, <1>2

\* The gadgets built from a state.
LEMMA GadgetFields ==
    ASSUME NEW w \in WzStates, NEW g, g = GadgetsOf(w)
    PROVE  /\ g \in WzGadgets /\ g.page = w.page /\ g.ssid = w.ssid /\ g.addr = w.addr
           /\ ~g.masked => g.pass = w.pass
<1>1. g = [page |-> w.page, ssid |-> w.ssid, pass |-> IF w.show THEN w.pass ELSE "*",
           masked |-> ~w.show, manual |-> w.mode = 1, addr |-> w.addr] BY DEF GadgetsOf
<1>2. w.page \in 0 .. PageTest /\ w.ssid \in WzTexts /\ w.pass \in WzTexts /\ w.addr \in WzTexts
      /\ w.show \in BOOLEAN BY DEF WzStates
<1>3. (~w.show) \in BOOLEAN /\ (w.mode = 1) \in BOOLEAN BY <1>2, Zenon
<1>5. (IF w.show THEN w.pass ELSE "*") \in WzTexts BY <1>2 DEF WzTexts
<1>4. g \in WzGadgets BY <1>1, <1>2, <1>3, <1>5 DEF WzGadgets
<1>6. g.masked = (~w.show) BY <1>1
<1>7. g.pass = IF w.show THEN w.pass ELSE "*" BY <1>1
<1>8. ~g.masked => g.pass = w.pass BY <1>6, <1>7, Zenon
<1>9. g.page = w.page /\ g.ssid = w.ssid /\ g.addr = w.addr BY <1>1
<1> QED BY <1>4, <1>8, <1>9

\* A second sync changes nothing that matters.
LEMMA SyncTwice ==
    ASSUME NEW w \in WzStates, NEW g \in WzGadgets, NEW u,
           Holds(sync_page_gadgets_to_state(w, g), u)
    PROVE  Holds(sync_page_gadgets_to_state(sync_page_gadgets_to_state(w, g), g), u)
<1>1. PICK r \in WzStates : r = sync_page_gadgets_to_state(w, g) BY SyncFields
<1>2. PICK q \in WzStates : q = sync_page_gadgets_to_state(r, g) BY SyncFields
<1>3. q.pass = r.pass /\ q.addr = r.addr /\ q.adv = r.adv /\ q.ssid = r.ssid
  BY <1>1, <1>2, SyncFields
<1> QED BY <1>1, <1>2, <1>3 DEF Holds

\* A page built from a state that holds the wishes holds them.
LEMMA RebuildHolds ==
    ASSUME WzTypes, NEW w \in WzStates, rebuild_page_gadgets(w)
    PROVE  /\ ws' \in WzStates /\ wz_gad' \in WzGadgets /\ PageUp'
           /\ ws'.page = w.page /\ ws'.mode = w.mode /\ ws'.addr = Synced(w).addr
           /\ ws'.wireless = w.wireless
           /\ \A u \in WzWishes : Holds(Synced(w), u) => Holds(sync_page_gadgets_to_state(ws', wz_gad'), u)
<1>1. PICK r : r = Synced(w) OBVIOUS
<1>2. r \in WzStates /\ r.page = w.page /\ r.mode = w.mode /\ r.wireless = w.wireless
  BY <1>1, SyncFields DEF WzTypes, Synced
<1>3. ws' = Filled(r) /\ wz_gad' = GadgetsOf(ws') BY <1>1 DEF rebuild_page_gadgets
<1>4. /\ ws' \in WzStates /\ ws'.page = r.page /\ ws'.mode = r.mode
      /\ ws'.wireless = r.wireless /\ ws'.adv = r.adv
      /\ ws'.pass = r.pass /\ ws'.addr = r.addr
      /\ r.ssid # EmptyText => ws'.ssid = r.ssid
      /\ ws'.page = PageWifi => ws'.shown = ws'.ssid
  BY <1>2, <1>3, FilledFields
<1>5. /\ wz_gad' \in WzGadgets /\ wz_gad'.page = ws'.page /\ wz_gad'.ssid = ws'.ssid /\ wz_gad'.addr = ws'.addr
      /\ ~wz_gad'.masked => wz_gad'.pass = ws'.pass
  BY <1>3, <1>4, GadgetFields
<1>6. PICK q \in WzStates : q = sync_page_gadgets_to_state(ws', wz_gad') BY <1>4, <1>5, SyncFields
<1>7. q.pass = ws'.pass /\ q.addr = ws'.addr /\ q.adv = ws'.adv /\ q.ssid = ws'.ssid
  <2>1. /\ q.pass = IF wz_gad'.page = PageWifi /\ ~wz_gad'.masked THEN wz_gad'.pass ELSE ws'.pass
        /\ q.ssid = IF wz_gad'.page = PageWifi /\ wz_gad'.ssid # ws'.shown THEN wz_gad'.ssid ELSE ws'.ssid
        /\ q.addr = IF wz_gad'.page = PageAddress /\ wz_gad'.manual THEN wz_gad'.addr ELSE ws'.addr
        /\ q.adv = ws'.adv
    BY <1>4, <1>5, <1>6, SyncFields
  <2> QED BY <1>4, <1>5, <2>1
<1>8. \A u \in WzWishes : Holds(r, u) => Holds(q, u) BY <1>4, <1>7 DEF Holds
<1> QED BY <1>1, <1>2, <1>4, <1>5, <1>6, <1>8 DEF PageUp

\* What the invariant of a step that builds a page anew needs.
LEMMA WzKeepsBuilt ==
    ASSUME WzTypes, Counted, NEW w \in WzStates, rebuild_page_gadgets(w),
           wz_wish' \in WzWishes, wz_rexx' \in WzRexxes, UNCHANGED <<wz_adv, wz_left>>,
           wz_run' \in {"yes", "drain", "rexx"}, UNCHANGED wz_finishes, Counted',
           wz_finishes = 0 => Holds(Synced(w), wz_wish'),
           wz_finishes = 0 /\ ~wz_rexx'.used =>
              ~wz_rexx'.done /\ (w.page = PageTest /\ w.mode = 1 => Synced(w).addr = "ok")
    PROVE  WzInv'
<1>1. /\ ws' \in WzStates /\ wz_gad' \in WzGadgets /\ PageUp'
      /\ ws'.page = w.page /\ ws'.mode = w.mode /\ ws'.addr = Synced(w).addr
      /\ \A u \in WzWishes : Holds(Synced(w), u) => Holds(sync_page_gadgets_to_state(ws', wz_gad'), u)
  BY RebuildHolds
<1>2. ws'.page \in 0 .. PageTest BY <1>1 DEF WzStates
<1>3. WzTypes' BY <1>1, <1>2 DEF WzTypes, WzTypeOK
<1>4. WishHeld' BY <1>1 DEF WishHeld, Synced
<1>5. Checked' BY <1>1 DEF Checked, validate_address_page
<1> QED BY <1>1, <1>3, <1>4, <1>5 DEF WzInv

\* The program begins with empty gadgets.
LEMMA WzStarts == ASSUME WzAssumption PROVE WzInit => WzInv
<1> SUFFICES ASSUME WzInit PROVE WzInv OBVIOUS
<1>0. /\ ws = [page |-> 0, ssid |-> EmptyText, shown |-> EmptyText, pass |-> EmptyText, show |-> FALSE, sel |-> 1,
               nets |-> <<>>, mode |-> 0, addr |-> EmptyText, wireless |-> TRUE, passed |-> FALSE, adv |-> FALSE]
      /\ wz_rexx = [port |-> 0, parked |-> FALSE, done |-> FALSE, cancel |-> FALSE, replied |-> 0,
                    sent |-> 0, used |-> FALSE]
      /\ wz_run = "yes" /\ wz_left = WzEdits /\ wz_wish = NoWish /\ wz_finishes = 0
      /\ wz_gad = GadgetsOf(ws) /\ wz_adv = "no"
  BY DEF WzInit
<1>1. ws \in WzStates
  <2>1. EmptyText \in WzTexts /\ 0 \in 0 .. PageTest BY DEF PageTest, WzTexts
  <2> QED BY <1>0, <2>1 DEF WzStates
<1>2. /\ wz_gad \in WzGadgets /\ wz_gad.page = ws.page /\ wz_gad.ssid = ws.ssid /\ wz_gad.addr = ws.addr
  BY <1>0, <1>1, GadgetFields
<1>3. wz_rexx \in WzRexxes /\ wz_wish \in WzWishes BY <1>0 DEF WzRexxes, WzWishes, NoWish, WzTexts
<1>4. 0 \in 0 .. WzEdits /\ WzEdits \in 0 .. WzEdits BY DEF WzAssumption
<1>5. WzTypes
  <2>1. WzTypeOK BY <1>0, <1>4 DEF WzTypeOK, PageTest
  <2> QED BY <1>0, <1>1, <1>2, <1>3, <2>1 DEF WzTypes
<1>6. PageUp BY <1>0, <1>2 DEF PageUp, PageWifi
<1>7. WishHeld
  <2>1. PICK r : r = Synced(ws) OBVIOUS
  <2>2. r.pass = ws.pass /\ r.addr = ws.addr /\ r.adv = ws.adv
    <3>1. wz_gad.page = 0 BY <1>0, <1>2
    <3> QED BY <1>1, <1>2, <2>1, <3>1, SyncFields DEF Synced, PageWifi, PageAddress
  <2> QED BY <1>0, <2>1, <2>2 DEF WishHeld, Holds, NoWish
<1>8. Checked BY <1>0 DEF Checked, PageTest
<1>9. Counted BY <1>0 DEF Counted
<1> QED BY <1>5, <1>6, <1>7, <1>8, <1>9 DEF WzInv

\* The number of messages does not change when the messages and the run do not.
LEMMA CountKept ==
    ASSUME Counted, wz_rexx' = wz_rexx, wz_run # "out", wz_run' # "out" PROVE Counted'
BY DEF Counted

\* A step that leaves the gadgets and holds the wishes.
LEMMA WzKeepsQuiet ==
    ASSUME WzTypes, PageUp, ws' \in WzStates, UNCHANGED <<wz_gad, wz_finishes>>,
           wz_left' \in 0 .. WzEdits, wz_adv' \in {"no", "set", "clear"},
           wz_wish' \in WzWishes, wz_rexx' \in WzRexxes, wz_run' \in {"yes", "drain", "rexx", "out"}, Counted',
           ws'.page = ws.page, ws.page = PageWifi => ws'.shown = ws'.ssid,
           wz_finishes = 0 => Holds(sync_page_gadgets_to_state(ws', wz_gad), wz_wish'),
           Checked'
    PROVE  WzInv'
<1>1. ws'.page \in 0 .. PageTest BY DEF WzStates
<1>2. WzTypes' BY <1>1 DEF WzTypes, WzTypeOK
<1>3. PageUp' BY DEF PageUp
<1>4. WishHeld' BY DEF WishHeld, Synced
<1> QED BY <1>2, <1>3, <1>4 DEF WzInv

\* What the user types is in a gadget, or in the state behind a masked one.
LEMMA WzKeepsTypes == ASSUME WzAssumption, WzInv, Types PROVE WzInv'
<1> USE DEF WzInv
<1>1. /\ UNCHANGED <<wz_lock, wz_adv, wz_run, wz_rexx, wz_prefs, wz_config, wz_finishes>>
      /\ wz_run = "yes" /\ wz_left > 0 /\ wz_left' = wz_left - 1
  BY DEF Types, wzfiles
<1>2. wz_left' \in 0 .. WzEdits BY <1>1 DEF WzTypes, WzTypeOK, WzAssumption
<1>3. ws \in WzStates /\ wz_gad \in WzGadgets /\ wz_wish \in WzWishes BY DEF WzTypes
<1>4. Counted' BY <1>1, CountKept
<1>5. PICK r : r = sync_page_gadgets_to_state(ws, wz_gad) OBVIOUS
<1>0. /\ r.adv = ws.adv
      /\ r.pass = IF wz_gad.page = PageWifi /\ ~wz_gad.masked THEN wz_gad.pass ELSE ws.pass
      /\ r.ssid = IF wz_gad.page = PageWifi /\ wz_gad.ssid # ws.shown THEN wz_gad.ssid ELSE ws.ssid
      /\ r.addr = IF wz_gad.page = PageAddress /\ wz_gad.manual THEN wz_gad.addr ELSE ws.addr
  BY <1>3, <1>5, SyncFields
<1>6. wz_finishes = 0 => Holds(r, wz_wish) BY <1>5 DEF WishHeld, Synced
<1>7. "own" \in WzTexts /\ "bad" \in WzTexts /\ "word" \in WzTexts /\ "ok" \in WzTexts BY DEF WzTexts
<1>8. ASSUME wz_gad' \in WzGadgets, ws' \in WzStates, wz_wish' \in WzWishes, PageUp',
             wz_finishes = 0 => Holds(sync_page_gadgets_to_state(ws', wz_gad'), wz_wish'),
             ws'.page = ws.page, ws'.mode = ws.mode, ws'.addr = ws.addr
      PROVE  WzInv'
  <2>1. ws'.page \in 0 .. PageTest BY <1>8 DEF WzStates
  <2>2. WzTypes' BY <1>1, <1>2, <1>8, <2>1 DEF WzTypes, WzTypeOK
  <2>3. WishHeld' BY <1>1, <1>8 DEF WishHeld, Synced
  <2>4. Checked' BY <1>1, <1>8 DEF Checked, validate_address_page
  <2> QED BY <1>4, <1>8, <2>2, <2>3, <2>4
<1>9. ASSUME NEW s \in {"own"}, wz_gad.page = PageWifi, wz_gad' = [wz_gad EXCEPT !.ssid = s],
             wz_wish' = [wz_wish EXCEPT !.ssid = s], UNCHANGED ws
      PROVE  WzInv'
  <2>1. wz_gad' \in WzGadgets /\ wz_gad'.page = wz_gad.page /\ wz_gad'.ssid = s
        /\ wz_gad'.masked = wz_gad.masked /\ wz_gad'.pass = wz_gad.pass
        /\ wz_gad'.manual = wz_gad.manual /\ wz_gad'.addr = wz_gad.addr
    BY <1>3, <1>7, <1>9 DEF WzGadgets
  <2>2. wz_wish' \in WzWishes /\ wz_wish'.ssid = s /\ wz_wish'.pass = wz_wish.pass
        /\ wz_wish'.addr = wz_wish.addr /\ wz_wish'.adv = wz_wish.adv
    BY <1>3, <1>7, <1>9 DEF WzWishes
  <2>3. PICK q : q = sync_page_gadgets_to_state(ws', wz_gad') OBVIOUS
  <2>9. ws' \in WzStates BY <1>3, <1>9
  <2>30. /\ q.adv = ws'.adv
         /\ q.pass = IF wz_gad'.page = PageWifi /\ ~wz_gad'.masked THEN wz_gad'.pass ELSE ws'.pass
         /\ q.ssid = IF wz_gad'.page = PageWifi /\ wz_gad'.ssid # ws'.shown THEN wz_gad'.ssid ELSE ws'.ssid
         /\ q.addr = IF wz_gad'.page = PageAddress /\ wz_gad'.manual THEN wz_gad'.addr ELSE ws'.addr
    BY <2>1, <2>3, <2>9, SyncFields
  <2>4. q.pass = r.pass /\ q.addr = r.addr /\ q.adv = r.adv BY <1>0, <1>9, <2>1, <2>30
  <2>5. q.ssid = s
    <3>1. ws.shown = ws.ssid BY <1>9 DEF PageUp
    <3> QED BY <1>9, <2>1, <2>30, <3>1
  <2>6. wz_finishes = 0 => Holds(q, wz_wish') BY <1>6, <2>2, <2>4, <2>5 DEF Holds
  <2>7. PageUp' BY <1>9, <2>1 DEF PageUp
  <2> QED BY <1>3, <1>8, <1>9, <2>1, <2>2, <2>3, <2>6, <2>7
<1>10. ASSUME NEW p \in {"bad", "word"}, wz_gad.page = PageWifi, wz_wish' = [wz_wish EXCEPT !.pass = p],
              IF wz_gad.masked
              THEN ws' = [ws EXCEPT !.pass = p] /\ UNCHANGED wz_gad
              ELSE wz_gad' = [wz_gad EXCEPT !.pass = p] /\ UNCHANGED ws
       PROVE  WzInv'
  <2>1. wz_wish' \in WzWishes /\ wz_wish'.pass = p /\ wz_wish'.ssid = wz_wish.ssid
        /\ wz_wish'.addr = wz_wish.addr /\ wz_wish'.adv = wz_wish.adv
    BY <1>3, <1>7, <1>10 DEF WzWishes
  <2>2. wz_gad' \in WzGadgets /\ wz_gad'.page = wz_gad.page /\ wz_gad'.ssid = wz_gad.ssid
        /\ wz_gad'.masked = wz_gad.masked
        /\ wz_gad'.manual = wz_gad.manual /\ wz_gad'.addr = wz_gad.addr
    BY <1>3, <1>7, <1>10 DEF WzGadgets
  <2>3. ws' \in WzStates /\ ws'.page = ws.page /\ ws'.ssid = ws.ssid /\ ws'.shown = ws.shown
        /\ ws'.mode = ws.mode /\ ws'.addr = ws.addr /\ ws'.adv = ws.adv
    BY <1>3, <1>7, <1>10 DEF WzStates
  <2>4. wz_gad.masked => ws'.pass = p BY <1>3, <1>10 DEF WzStates
  <2>5. ~wz_gad.masked => wz_gad'.pass = p BY <1>3, <1>10 DEF WzGadgets
  <2>6. PICK q : q = sync_page_gadgets_to_state(ws', wz_gad') OBVIOUS
  <2>7. q.ssid = r.ssid /\ q.addr = r.addr /\ q.adv = r.adv
    BY <1>3, <1>5, <2>2, <2>3, <2>6, SyncFields, SMTT(40)
  <2>8. q.pass = p
    <3>1. q.pass = IF wz_gad'.page = PageWifi /\ ~wz_gad'.masked THEN wz_gad'.pass ELSE ws'.pass
      BY <2>2, <2>3, <2>6, SyncFields
    <3> QED BY <1>10, <2>2, <2>4, <2>5, <3>1
  <2>9. wz_finishes = 0 => Holds(q, wz_wish') BY <1>6, <2>1, <2>7, <2>8 DEF Holds
  <2>10. PageUp' BY <2>2, <2>3 DEF PageUp
  <2> QED BY <1>8, <2>1, <2>2, <2>3, <2>6, <2>9, <2>10
<1>11. ASSUME NEW a \in {"bad", "ok"}, wz_gad.page = PageAddress, wz_gad.manual,
              wz_gad' = [wz_gad EXCEPT !.addr = a], wz_wish' = [wz_wish EXCEPT !.addr = a], UNCHANGED ws
       PROVE  WzInv'
  <2>1. wz_gad' \in WzGadgets /\ wz_gad'.page = wz_gad.page /\ wz_gad'.ssid = wz_gad.ssid
        /\ wz_gad'.masked = wz_gad.masked /\ wz_gad'.pass = wz_gad.pass
        /\ wz_gad'.manual = wz_gad.manual /\ wz_gad'.addr = a
    BY <1>3, <1>7, <1>11 DEF WzGadgets
  <2>2. wz_wish' \in WzWishes /\ wz_wish'.ssid = wz_wish.ssid /\ wz_wish'.pass = wz_wish.pass
        /\ wz_wish'.addr = a /\ wz_wish'.adv = wz_wish.adv
    BY <1>3, <1>7, <1>11 DEF WzWishes
  <2>3. PICK q : q = sync_page_gadgets_to_state(ws', wz_gad') OBVIOUS
  <2>9. ws' \in WzStates BY <1>3, <1>11
  <2>30. /\ q.adv = ws'.adv
         /\ q.pass = IF wz_gad'.page = PageWifi /\ ~wz_gad'.masked THEN wz_gad'.pass ELSE ws'.pass
         /\ q.ssid = IF wz_gad'.page = PageWifi /\ wz_gad'.ssid # ws'.shown THEN wz_gad'.ssid ELSE ws'.ssid
         /\ q.addr = IF wz_gad'.page = PageAddress /\ wz_gad'.manual THEN wz_gad'.addr ELSE ws'.addr
    BY <2>1, <2>3, <2>9, SyncFields
  <2>4. q.pass = r.pass /\ q.ssid = r.ssid /\ q.adv = r.adv /\ q.addr = a
    BY <1>0, <1>11, <2>1, <2>30 DEF PageWifi, PageAddress
  <2>6. wz_finishes = 0 => Holds(q, wz_wish') BY <1>6, <2>2, <2>4 DEF Holds
  <2>7. PageUp' BY <1>11, <2>1 DEF PageUp
  <2> QED BY <1>3, <1>8, <1>11, <2>1, <2>2, <2>3, <2>6, <2>7
<1> QED BY <1>9, <1>10, <1>11 DEF Types

\* Two states that a sync treats alike.
Alike(w, v) ==
    w.pass = v.pass /\ w.addr = v.addr /\ w.adv = v.adv /\ w.ssid = v.ssid /\ w.shown = v.shown

\* They hold the same wishes.
LEMMA AlikeHolds ==
    ASSUME NEW w \in WzStates, NEW v \in WzStates, NEW g \in WzGadgets, NEW u, Alike(w, v),
           Holds(sync_page_gadgets_to_state(v, g), u)
    PROVE  Holds(sync_page_gadgets_to_state(w, g), u)
<1>1. PICK r \in WzStates : r = sync_page_gadgets_to_state(w, g) BY SyncFields
<1>2. PICK q \in WzStates : q = sync_page_gadgets_to_state(v, g) BY SyncFields
<1>3. /\ r.adv = w.adv
      /\ r.pass = IF g.page = PageWifi /\ ~g.masked THEN g.pass ELSE w.pass
      /\ r.ssid = IF g.page = PageWifi /\ g.ssid # w.shown THEN g.ssid ELSE w.ssid
      /\ r.addr = IF g.page = PageAddress /\ g.manual THEN g.addr ELSE w.addr
  BY <1>1, SyncFields
<1>4. /\ q.adv = v.adv
      /\ q.pass = IF g.page = PageWifi /\ ~g.masked THEN g.pass ELSE v.pass
      /\ q.ssid = IF g.page = PageWifi /\ g.ssid # v.shown THEN g.ssid ELSE v.ssid
      /\ q.addr = IF g.page = PageAddress /\ g.manual THEN g.addr ELSE v.addr
  BY <1>2, SyncFields
<1>5. r.pass = q.pass /\ r.addr = q.addr /\ r.adv = q.adv /\ r.ssid = q.ssid
  BY <1>3, <1>4 DEF Alike
<1> QED BY <1>1, <1>2, <1>5 DEF Holds

\* The page is built anew: the state is the old one, synced or not, but for
\* fields that are not the user's.
LEMMA WzKeepsRebuilt ==
    ASSUME WzInv, NEW w \in WzStates, Rebuilt(w), UNCHANGED wz_wish, wz_run = "yes",
           Alike(w, ws) \/ Alike(w, Synced(ws)),
           w.page # PageTest \/ (w.page = ws.page /\ w.mode = ws.mode /\ w.addr = ws.addr)
    PROVE  WzInv'
<1> USE DEF WzInv
<1>1. rebuild_page_gadgets(w) /\ UNCHANGED <<wz_adv, wz_left>> /\ UNCHANGED <<wz_run, wz_rexx, wz_finishes>>
  BY DEF Rebuilt, wzfiles
<1>2. ws \in WzStates /\ wz_gad \in WzGadgets /\ wz_wish \in WzWishes /\ wz_rexx \in WzRexxes BY DEF WzTypes
<1>3. PICK r \in WzStates : r = Synced(ws) BY <1>2, SyncFields DEF Synced
<1>4. ASSUME wz_finishes = 0 PROVE Holds(Synced(w), wz_wish)
  <2>1. Holds(Synced(ws), wz_wish) BY <1>4 DEF WishHeld
  <2>2. CASE Alike(w, ws) BY <1>2, <2>1, <2>2, AlikeHolds DEF Synced
  <2>3. CASE Alike(w, Synced(ws))
    <3>1. Holds(sync_page_gadgets_to_state(r, wz_gad), wz_wish)
      BY <1>2, <1>3, <2>1, SyncTwice DEF Synced
    <3> QED BY <1>2, <1>3, <2>3, <3>1, AlikeHolds DEF Synced
  <2> QED BY <2>2, <2>3
<1>5. wz_finishes = 0 /\ ~wz_rexx.used =>
         ~wz_rexx.done /\ (w.page = PageTest /\ w.mode = 1 => Synced(w).addr = "ok")
  <2>1. w.page = PageTest => Synced(w).addr = ws.addr
    <3> SUFFICES ASSUME w.page = PageTest PROVE Synced(w).addr = ws.addr OBVIOUS
    <3>1. wz_gad.page = PageTest /\ w.addr = ws.addr BY DEF PageUp
    <3> QED BY <1>2, <3>1, SyncFields DEF Synced, PageTest, PageAddress
  <2> QED BY <2>1 DEF Checked, validate_address_page
<1>6. Counted' BY <1>1, CountKept
<1> QED BY <1>1, <1>2, <1>4, <1>5, <1>6, WzKeepsBuilt

\* The gadgets of a page.
LEMMA WzKeepsGadgets ==
    ASSUME WzAssumption, WzInv,
           ShowPass \/ tn_wifi_scan \/ SetMode \/ SelectHw \/ RunTests \/ retreat_back_page
    PROVE  WzInv'
<1> USE DEF WzInv
<1>1. ws \in WzStates /\ wz_gad \in WzGadgets BY DEF WzTypes
<1>2. PICK r \in WzStates : r = Synced(ws) /\ r.page = ws.page BY <1>1, SyncFields DEF Synced
<1>3. wz_gad.page = ws.page BY DEF PageUp
<1>4. CASE ShowPass
  <2>1. PICK w : w = [r EXCEPT !.show = ~@] OBVIOUS
  <2>2. w \in WzStates /\ Alike(w, r) /\ w.page = r.page BY <2>1 DEF WzStates, Alike
  <2>3. wz_gad.page = PageWifi /\ wz_run = "yes" /\ UNCHANGED wz_wish /\ Rebuilt(w)
    BY <1>2, <1>4, <2>1 DEF ShowPass
  <2>4. w.page # PageTest BY <1>2, <1>3, <2>2, <2>3 DEF PageTest, PageWifi
  <2> QED BY <1>2, <2>2, <2>3, <2>4, WzKeepsRebuilt
<1>5. CASE tn_wifi_scan
  <2>1. PICK w : w = [ws EXCEPT !.nets = WzNets, !.sel = 1] OBVIOUS
  <2>2. w \in WzStates /\ Alike(w, ws) /\ w.page = ws.page BY <1>1, <2>1 DEF WzStates, Alike
  <2>3. wz_gad.page = PageWifi /\ wz_run = "yes" /\ UNCHANGED wz_wish /\ Rebuilt(w)
    BY <1>5, <2>1 DEF tn_wifi_scan
  <2>4. w.page # PageTest BY <1>3, <2>2, <2>3 DEF PageTest, PageWifi
  <2> QED BY <2>2, <2>3, <2>4, WzKeepsRebuilt
<1>6. CASE SetMode
  <2>1. PICK m \in {0, 1} : Rebuilt([ws EXCEPT !.mode = m]) /\ UNCHANGED wz_wish BY <1>6 DEF SetMode
  <2>2. PICK w : w = [ws EXCEPT !.mode = m] OBVIOUS
  <2>3. w \in WzStates /\ Alike(w, ws) /\ w.page = ws.page BY <1>1, <2>2 DEF WzStates, Alike
  <2>5. wz_gad.page = PageAddress /\ wz_run = "yes" BY <1>6 DEF SetMode
  <2>4. w.page # PageTest /\ wz_run = "yes" BY <1>3, <2>3, <2>5 DEF PageTest, PageAddress
  <2> QED BY <2>1, <2>2, <2>3, <2>4, WzKeepsRebuilt
<1>7. CASE SelectHw
  <2>1. PICK b \in BOOLEAN : Rebuilt([ws EXCEPT !.wireless = b]) /\ UNCHANGED wz_wish BY <1>7 DEF SelectHw
  <2>2. PICK w : w = [ws EXCEPT !.wireless = b] OBVIOUS
  <2>3. w \in WzStates /\ Alike(w, ws) /\ w.page = ws.page BY <1>1, <2>2 DEF WzStates, Alike
  <2>5. wz_gad.page = PageHw /\ wz_run = "yes" BY <1>7 DEF SelectHw
  <2>4. w.page # PageTest /\ wz_run = "yes" BY <1>3, <2>3, <2>5 DEF PageTest, PageHw
  <2> QED BY <2>1, <2>2, <2>3, <2>4, WzKeepsRebuilt
<1>8. CASE RunTests
  <2>1. PICK b \in BOOLEAN : Rebuilt([ws EXCEPT !.passed = b]) /\ UNCHANGED wz_wish BY <1>8 DEF RunTests
  <2>2. PICK w : w = [ws EXCEPT !.passed = b] OBVIOUS
  <2>3. w \in WzStates /\ Alike(w, ws) /\ w.page = ws.page /\ w.mode = ws.mode /\ w.addr = ws.addr
    BY <1>1, <2>2 DEF WzStates, Alike
  <2>4. wz_run = "yes" BY <1>8 DEF RunTests
  <2> QED BY <2>1, <2>2, <2>3, <2>4, WzKeepsRebuilt
<1>9. CASE retreat_back_page
  <2>1. ws.page \in 0 .. PageTest /\ ws.page > 0 BY <1>1, <1>9 DEF retreat_back_page, WzStates
  <2>2. PICK n : n = Backwards(ws) OBVIOUS
  <2>3. n \in 0 .. PageTest /\ n # PageTest BY <2>1, <2>2 DEF Backwards, PageHw, PageWifi, PageTest
  <2>4. PICK w : w = [r EXCEPT !.page = n] OBVIOUS
  <2>5. w \in WzStates /\ Alike(w, r) /\ w.page = n BY <2>3, <2>4 DEF WzStates, Alike
  <2>6. wz_run = "yes" /\ UNCHANGED wz_wish /\ Rebuilt(w) BY <1>2, <1>9, <2>2, <2>4 DEF retreat_back_page
  <2> QED BY <1>2, <2>3, <2>5, <2>6, WzKeepsRebuilt
<1> QED BY <1>4, <1>5, <1>6, <1>7, <1>8, <1>9

\* A network picked from the list.
LEMMA WzKeepsPick == ASSUME WzAssumption, WzInv, PickNet PROVE WzInv'
<1> USE DEF WzInv
<1>1. ws \in WzStates /\ wz_gad \in WzGadgets /\ wz_wish \in WzWishes /\ wz_rexx \in WzRexxes BY DEF WzTypes
<1>2. PICK i \in DOMAIN ws.nets :
         LET s == IF ws.nets[i] = HiddenAp THEN EmptyText ELSE ws.nets[i] IN
         /\ Rebuilt([Synced(ws) EXCEPT !.sel = i, !.ssid = s])
         /\ wz_wish' = [wz_wish EXCEPT !.ssid = s]
  BY DEF PickNet
<1>3. ws.nets \in {<<>>, WzNets} BY <1>1 DEF WzStates
<1>4. i \in Nat /\ ws.nets[i] \in WzTexts
  <2>1. DOMAIN <<>> = {} OBVIOUS
  <2>2. ws.nets = WzNets BY <1>3, <2>1
  <2>3. DOMAIN WzNets = 1 .. Len(WzNets) BY DEF WzAssumption
  <2>4. i \in 1 .. Len(WzNets) /\ Len(WzNets) \in Nat BY <2>2, <2>3 DEF WzAssumption
  <2> QED BY <2>2, <2>4 DEF WzTexts
<1>5. PICK s \in WzTexts : s = IF ws.nets[i] = HiddenAp THEN EmptyText ELSE ws.nets[i]
  BY <1>4 DEF WzTexts
<1>6. PICK r : r = Synced(ws) OBVIOUS
<1>7. /\ r \in WzStates /\ r.page = ws.page /\ r.adv = ws.adv
      /\ r.shown = IF wz_gad.page = PageWifi /\ wz_gad.ssid # ws.shown THEN wz_gad.ssid ELSE ws.shown
  BY <1>1, <1>6, SyncFields DEF Synced
<1>8. wz_gad.page = PageWifi /\ wz_run = "yes" BY DEF PickNet
<1>9. r.shown = wz_gad.ssid /\ r.page = PageWifi BY <1>7, <1>8 DEF PageUp
<1>10. PICK w : w = [r EXCEPT !.sel = i, !.ssid = s] OBVIOUS
<1>11. /\ w \in WzStates /\ w.page = PageWifi /\ w.ssid = s /\ w.shown = wz_gad.ssid
       /\ w.pass = r.pass /\ w.addr = r.addr /\ w.adv = r.adv
  BY <1>4, <1>7, <1>9, <1>10 DEF WzStates
<1>12. wz_wish' \in WzWishes /\ wz_wish'.ssid = s /\ wz_wish'.pass = wz_wish.pass
       /\ wz_wish'.addr = wz_wish.addr /\ wz_wish'.adv = wz_wish.adv
  BY <1>1, <1>2, <1>5 DEF WzWishes
<1>13. ASSUME wz_finishes = 0 PROVE Holds(Synced(w), wz_wish')
  <2>1. Holds(r, wz_wish) BY <1>6, <1>13 DEF WishHeld
  <2>2. Holds(sync_page_gadgets_to_state(r, wz_gad), wz_wish) BY <1>1, <1>6, <2>1, SyncTwice DEF Synced
  <2>3. PICK q : q = sync_page_gadgets_to_state(w, wz_gad) OBVIOUS
  <2>4. PICK t : t = sync_page_gadgets_to_state(r, wz_gad) OBVIOUS
  <2>5. q.adv = w.adv /\ q.ssid = s
        /\ q.pass = (IF wz_gad.page = PageWifi /\ ~wz_gad.masked THEN wz_gad.pass ELSE w.pass)
        /\ q.addr = (IF wz_gad.page = PageAddress /\ wz_gad.manual THEN wz_gad.addr ELSE w.addr)
    BY <1>1, <1>11, <2>3, SyncFields
  <2>6. t.adv = r.adv
        /\ t.pass = (IF wz_gad.page = PageWifi /\ ~wz_gad.masked THEN wz_gad.pass ELSE r.pass)
        /\ t.addr = (IF wz_gad.page = PageAddress /\ wz_gad.manual THEN wz_gad.addr ELSE r.addr)
    BY <1>1, <1>7, <2>4, SyncFields
  <2>7. q.adv = t.adv /\ q.pass = t.pass /\ q.addr = t.addr BY <1>11, <2>5, <2>6
  <2> QED BY <1>12, <2>2, <2>3, <2>4, <2>5, <2>7 DEF Holds, Synced
<1>14. Rebuilt(w) BY <1>2, <1>5, <1>6, <1>10
<1>15. rebuild_page_gadgets(w) /\ UNCHANGED <<wz_adv, wz_left>> /\ UNCHANGED <<wz_run, wz_rexx, wz_finishes>>
  BY <1>14 DEF Rebuilt, wzfiles
<1>16. Counted' BY <1>8, <1>15, CountKept
<1>17. wz_finishes = 0 /\ ~wz_rexx.used => ~wz_rexx.done BY DEF Checked
<1>18. w.page # PageTest BY <1>11 DEF PageWifi, PageTest
<1> QED BY <1>1, <1>8, <1>11, <1>12, <1>13, <1>15, <1>16, <1>17, <1>18, WzKeepsBuilt

\* After a Finish there are no more wishes to hold.
LEMMA WzKeepsFinish ==
    ASSUME WzTypes, PageUp, NEW w \in WzStates, w.page = ws.page, w.page = PageWifi => w.shown = w.ssid,
           apply_wizard_finish(w), UNCHANGED <<wz_gad, wz_left, wz_wish>>,
           wz_adv' \in {"no", "set", "clear"}, wz_rexx' \in WzRexxes, wz_run' \in {"drain", "out"}, Counted'
    PROVE  WzInv'
<1>1. wz_gad \in WzGadgets /\ wz_finishes \in 0 .. 2 BY DEF WzTypes, WzTypeOK
<1>2. PICK f : f = Synced(w) OBVIOUS
<1>3. /\ f \in WzStates /\ f.page = w.page
      /\ f.ssid = (IF wz_gad.page = PageWifi /\ wz_gad.ssid # w.shown THEN wz_gad.ssid ELSE w.ssid)
      /\ f.shown = (IF wz_gad.page = PageWifi /\ wz_gad.ssid # w.shown THEN wz_gad.ssid ELSE w.shown)
  BY <1>1, <1>2, SyncFields DEF Synced
<1>4. ws' = [f EXCEPT !.pass = EmptyText] BY <1>2 DEF apply_wizard_finish
<1>5. EmptyText \in WzTexts BY DEF WzTexts
<1>6. ws' \in WzStates /\ ws'.page = ws.page /\ ws'.ssid = f.ssid /\ ws'.shown = f.shown
  BY <1>3, <1>4, <1>5 DEF WzStates
<1>7. wz_finishes' = IF wz_finishes = 2 THEN 2 ELSE wz_finishes + 1 BY DEF apply_wizard_finish
<1>8. wz_finishes' \in 0 .. 2 /\ wz_finishes' # 0 BY <1>1, <1>7
<1>9. ws'.page \in 0 .. PageTest BY <1>6 DEF WzStates
<1>10. WzTypes' BY <1>1, <1>6, <1>8, <1>9 DEF WzTypes, WzTypeOK
<1>11. PageUp' BY <1>3, <1>6 DEF PageUp
<1>12. WishHeld' BY <1>8 DEF WishHeld
<1>13. Checked' BY <1>8 DEF Checked
<1> QED BY <1>10, <1>11, <1>12, <1>13 DEF WzInv

\* A state that was only synced holds the same wishes, and is as valid.
LEMMA SyncedKeeps ==
    ASSUME WzInv, NEW r, r = Synced(ws)
    PROVE  /\ r \in WzStates /\ r.page = ws.page /\ r.mode = ws.mode /\ r.wireless = ws.wireless
           /\ r.adv = ws.adv
           /\ ws.page = PageWifi => r.shown = r.ssid
           /\ wz_finishes = 0 => Holds(r, wz_wish) /\ Holds(Synced(r), wz_wish)
           /\ Synced(r).addr = r.addr
           /\ ws.page = PageTest => r.addr = ws.addr
<1> USE DEF WzInv
<1>1. ws \in WzStates /\ wz_gad \in WzGadgets /\ wz_gad.page = ws.page BY DEF WzTypes, PageUp
<1>2. /\ r \in WzStates /\ r.page = ws.page /\ r.mode = ws.mode /\ r.wireless = ws.wireless /\ r.adv = ws.adv
      /\ r.ssid = (IF wz_gad.page = PageWifi /\ wz_gad.ssid # ws.shown THEN wz_gad.ssid ELSE ws.ssid)
      /\ r.shown = (IF wz_gad.page = PageWifi /\ wz_gad.ssid # ws.shown THEN wz_gad.ssid ELSE ws.shown)
      /\ r.addr = (IF wz_gad.page = PageAddress /\ wz_gad.manual THEN wz_gad.addr ELSE ws.addr)
  BY <1>1, SyncFields DEF Synced
<1>3. PICK q : q = Synced(r) OBVIOUS
<1>4. q.addr = (IF wz_gad.page = PageAddress /\ wz_gad.manual THEN wz_gad.addr ELSE r.addr)
  BY <1>1, <1>2, <1>3, SyncFields DEF Synced
<1>5. q.addr = r.addr BY <1>2, <1>4
<1>6. wz_finishes = 0 => Holds(r, wz_wish) /\ Holds(Synced(r), wz_wish)
  BY <1>1, SyncTwice DEF WishHeld, Synced
<1>7. ws.page = PageTest => r.addr = ws.addr BY <1>1, <1>2 DEF PageTest, PageAddress
<1>8. ws.page = PageWifi => r.shown = r.ssid BY <1>2 DEF PageUp
<1> QED BY <1>2, <1>3, <1>5, <1>6, <1>7, <1>8

\* Next, RETURN and Finish.
LEMMA WzKeepsNext == ASSUME WzAssumption, WzInv, NextOrReturn PROVE WzInv'
<1> USE DEF WzInv
<1>1. wz_gad \in WzGadgets /\ wz_wish \in WzWishes /\ wz_rexx \in WzRexxes /\ wz_finishes \in 0 .. 2
      /\ wz_left \in 0 .. WzEdits /\ wz_adv \in {"no", "set", "clear"}
  BY DEF WzTypes, WzTypeOK
<1>2. PICK s : s = Synced(ws) OBVIOUS
<1>3. /\ s \in WzStates /\ s.page = ws.page /\ s.mode = ws.mode /\ s.wireless = ws.wireless
      /\ s.adv = ws.adv
      /\ ws.page = PageWifi => s.shown = s.ssid
      /\ wz_finishes = 0 => Holds(s, wz_wish) /\ Holds(Synced(s), wz_wish)
      /\ Synced(s).addr = s.addr
      /\ ws.page = PageTest => s.addr = ws.addr
  BY <1>2, SyncedKeeps
<1>4. wz_run \in {"yes", "drain"} /\ advance_next_page /\ UNCHANGED <<wz_adv, wz_left>> /\ UNCHANGED wz_wish
  BY DEF NextOrReturn, advance_next_page
<1>5. wz_finishes = 0 /\ ~wz_rexx.used => ~wz_rexx.done BY DEF Checked
<1>6. ASSUME ws' = s, UNCHANGED <<wz_gad, wz_finishes>>, UNCHANGED <<wz_rexx, wz_run>> PROVE WzInv'
  <2>1. Counted' BY <1>4, <1>6, CountKept
  <2>2. Checked' BY <1>3, <1>6 DEF Checked, validate_address_page
  <2>3. wz_finishes = 0 => Holds(sync_page_gadgets_to_state(ws', wz_gad), wz_wish') BY <1>3, <1>4, <1>6 DEF Synced
  <2>4. wz_left' \in 0 .. WzEdits /\ wz_adv' \in {"no", "set", "clear"} /\ wz_wish' \in WzWishes
        /\ wz_rexx' \in WzRexxes /\ wz_run' \in {"yes", "drain", "rexx", "out"}
    BY <1>1, <1>4, <1>6
  <2>5. ws' \in WzStates /\ ws'.page = ws.page /\ (ws.page = PageWifi => ws'.shown = ws'.ssid) BY <1>3, <1>6
  <2> QED BY <1>6, <2>1, <2>2, <2>3, <2>4, <2>5, WzKeepsQuiet
<1>7. ASSUME NEW n \in 0 .. PageTest, rebuild_page_gadgets([s EXCEPT !.page = n]),
             UNCHANGED <<wz_rexx, wz_run, wz_finishes>>,
             n = PageTest => validate_address_page(s)
      PROVE  WzInv'
  <2>1. PICK w : w = [s EXCEPT !.page = n] OBVIOUS
  <2>2. w \in WzStates /\ w.page = n /\ w.mode = s.mode /\ Alike(w, s)
    BY <1>3, <2>1 DEF WzStates, Alike
  <2>3. wz_finishes = 0 => Holds(Synced(w), wz_wish') BY <1>1, <1>3, <1>4, <2>2, AlikeHolds DEF Synced
  <2>4. Synced(w).addr = s.addr
    <3>1. PICK q : q = Synced(w) OBVIOUS
    <3>2. PICK t : t = Synced(s) OBVIOUS
    <3>3. q.addr = (IF wz_gad.page = PageAddress /\ wz_gad.manual THEN wz_gad.addr ELSE w.addr)
      BY <1>1, <2>2, <3>1, SyncFields DEF Synced
    <3>4. t.addr = (IF wz_gad.page = PageAddress /\ wz_gad.manual THEN wz_gad.addr ELSE s.addr)
      BY <1>1, <1>3, <3>2, SyncFields DEF Synced
    <3> QED BY <1>3, <2>2, <3>1, <3>2, <3>3, <3>4 DEF Alike
  <2>5. wz_finishes = 0 /\ ~wz_rexx'.used =>
              ~wz_rexx'.done /\ (w.page = PageTest /\ w.mode = 1 => Synced(w).addr = "ok")
    BY <1>5, <1>7, <2>2, <2>4 DEF validate_address_page
  <2>6. Counted' BY <1>4, <1>7, CountKept
  <2>7. wz_wish' \in WzWishes /\ wz_rexx' \in WzRexxes /\ wz_run' \in {"yes", "drain", "rexx"}
        /\ UNCHANGED wz_finishes
    BY <1>1, <1>4, <1>7
  <2>8. rebuild_page_gadgets(w) BY <1>7, <2>1
  <2> QED BY <1>4, <2>2, <2>3, <2>5, <2>6, <2>7, <2>8, WzKeepsBuilt
<1>8. CASE /\ s.page = PageWifi /\ s.wireless
           /\ \/ s.ssid # EmptyText /\ Writable(s) /\ rebuild_page_gadgets([s EXCEPT !.page = PageAddress])
              \/ ws' = s /\ UNCHANGED <<wz_gad, wz_lock>>
           /\ UNCHANGED <<wz_config, wz_finishes, wz_rexx, wz_run>>
  <2>1. PageAddress \in 0 .. PageTest /\ PageAddress # PageTest BY DEF PageAddress, PageTest
  <2> QED BY <1>6, <1>7, <1>8, <2>1
<1>9. CASE /\ s.page = PageAddress /\ ~validate_address_page(s)
           /\ ws' = s /\ UNCHANGED <<wz_gad, wz_lock, wzfiles, wz_rexx, wz_run>>
  BY <1>6, <1>9 DEF wzfiles
<1>10. CASE /\ s.page < PageTest /\ ~wz_rexx.done
            /\ ~(s.page = PageWifi /\ s.wireless) /\ (s.page = PageAddress => validate_address_page(s))
            /\ rebuild_page_gadgets([s EXCEPT !.page = Onwards(s)])
            /\ UNCHANGED <<wzfiles, wz_rexx, wz_run>>
  <2>1. PICK n : n = Onwards(s) OBVIOUS
  <2>2. s.page \in 0 .. PageTest BY <1>3 DEF WzStates
  <2>3. n \in 0 .. PageTest /\ (n = PageTest => s.page = PageAddress)
    BY <1>10, <2>1, <2>2 DEF Onwards, PageWifi, PageAddress, PageTest
  <2> QED BY <1>7, <1>10, <2>1, <2>3 DEF wzfiles
<1>11. CASE /\ s.page = PageTest \/ wz_rexx.done
            /\ apply_wizard_finish(s) /\ wz_rexx' = [wz_rexx EXCEPT !.done = TRUE]
            /\ wz_run' = "drain" /\ UNCHANGED <<wz_gad, wz_lock>>
  <2>1. wz_rexx' \in WzRexxes /\ wz_rexx'.sent = wz_rexx.sent /\ wz_rexx'.port = wz_rexx.port
        /\ wz_rexx'.replied = wz_rexx.replied /\ wz_rexx'.parked = wz_rexx.parked
    BY <1>1, <1>11 DEF WzRexxes
  <2>2. Counted' BY <1>4, <1>11, <2>1 DEF Counted
  <2>3. wz_adv' \in {"no", "set", "clear"} BY <1>1, <1>4
  <2> QED BY <1>3, <1>4, <1>11, <2>1, <2>2, <2>3, WzKeepsFinish
<1> QED BY <1>2, <1>4, <1>8, <1>9, <1>10, <1>11 DEF advance_next_page

\* A step that changes neither the state nor the gadgets nor the wishes.
LEMMA WzKeepsIdle ==
    ASSUME WzInv, UNCHANGED <<ws, wz_gad, wz_left, wz_wish, wz_finishes>>,
           wz_adv' \in {"no", "set", "clear"}, wz_rexx' \in WzRexxes,
           wz_run' \in {"yes", "drain", "rexx", "out"}, Counted',
           wz_rexx'.used \/ (~wz_rexx.used /\ wz_rexx'.done = wz_rexx.done)
    PROVE  WzInv'
<1> USE DEF WzInv
<1>1. WzTypes' BY DEF WzTypes, WzTypeOK
<1>2. PageUp' /\ WishHeld' BY DEF PageUp, WishHeld, Synced
<1>3. Checked' BY DEF Checked, validate_address_page
<1> QED BY <1>1, <1>2, <1>3

\* The messages that are left are answered at the end.
LEMMA AllAnswered ==
    ASSUME WzInv, wz_run # "out", wz_run' = "out", wz_rexx' = Answered
    PROVE  /\ wz_rexx' \in WzRexxes /\ Counted'
           /\ wz_rexx'.used = wz_rexx.used /\ wz_rexx'.done = wz_rexx.done
<1>1. wz_rexx \in WzRexxes BY DEF WzInv, WzTypes
<1>2. PICK p \in Nat : p = wz_rexx.port BY <1>1 DEF WzRexxes
<1>3. PICK a \in Nat : a = wz_rexx.replied BY <1>1 DEF WzRexxes
<1>4. PICK k \in Nat : k = IF wz_rexx.parked THEN 1 ELSE 0 BY Zenon
<1>5. PICK t \in Nat : t = a + p + k OBVIOUS
<1>6. wz_rexx' = [wz_rexx EXCEPT !.replied = t, !.port = 0, !.parked = FALSE]
  BY <1>2, <1>3, <1>4, <1>5 DEF Answered
<1>7. /\ wz_rexx' \in WzRexxes /\ wz_rexx'.replied = t /\ wz_rexx'.sent = wz_rexx.sent
      /\ wz_rexx'.used = wz_rexx.used /\ wz_rexx'.done = wz_rexx.done
  <2>4. PICK y \in WzRexxes : y = [wz_rexx EXCEPT !.replied = t, !.port = 0] BY <1>1 DEF WzRexxes
  <2>5. wz_rexx' = [y EXCEPT !.parked = FALSE] BY <1>1, <1>6, <2>4 DEF WzRexxes
  <2>1. wz_rexx' \in WzRexxes BY <2>4, <2>5 DEF WzRexxes
  <2>2. wz_rexx'.replied = t BY <1>1, <1>6 DEF WzRexxes
  <2>3. wz_rexx'.sent = wz_rexx.sent /\ wz_rexx'.used = wz_rexx.used /\ wz_rexx'.done = wz_rexx.done
    BY <1>1, <1>6 DEF WzRexxes
  <2> QED BY <2>1, <2>2, <2>3
<1>8. wz_rexx.sent = t BY <1>2, <1>3, <1>4, <1>5 DEF WzInv, Counted
<1> QED BY <1>7, <1>8 DEF Counted

\* The Advanced window, the close gadget and Ctrl-C, and a message sent.
LEMMA WzKeepsOther ==
    ASSUME WzAssumption, WzInv,
           Stop \/ open_advanced_window \/ AdvancedCheckbox \/ close_advanced_window \/ RexxSend \/ Quit
    PROVE  WzInv'
<1> USE DEF WzInv
<1>1. wz_gad \in WzGadgets /\ wz_wish \in WzWishes /\ wz_rexx \in WzRexxes /\ ws \in WzStates
      /\ wz_left \in 0 .. WzEdits /\ wz_adv \in {"no", "set", "clear"}
  BY DEF WzTypes, WzTypeOK
<1>2. CASE Stop \/ open_advanced_window \/ AdvancedCheckbox
  <2>1. /\ UNCHANGED <<ws, wz_gad, wz_left, wz_wish, wz_finishes>> /\ UNCHANGED wz_rexx
        /\ wz_adv' \in {"no", "set", "clear"} /\ wz_run = "yes" /\ wz_run' \in {"yes", "drain"}
    BY <1>1, <1>2 DEF Stop, open_advanced_window, AdvancedCheckbox, wzfiles
  <2>2. Counted' BY <2>1, CountKept
  <2>3. wz_rexx'.used \/ (~wz_rexx.used /\ wz_rexx'.done = wz_rexx.done) BY <2>1
  <2> QED BY <1>1, <2>1, <2>2, <2>3, WzKeepsIdle
<1>3. CASE close_advanced_window
  <2>1. /\ UNCHANGED <<wz_gad, wz_finishes>> /\ UNCHANGED <<wz_run, wz_rexx, wz_left>>
        /\ wz_run = "yes" /\ wz_adv' = "no"
    BY <1>3 DEF close_advanced_window, wzfiles
  <2>2. Counted' BY <2>1, CountKept
  <2>3. CASE UNCHANGED <<ws, wz_wish>>
    <3>1. wz_rexx'.used \/ (~wz_rexx.used /\ wz_rexx'.done = wz_rexx.done) BY <2>1
    <3>2. wz_run' \in {"yes", "drain", "rexx", "out"} /\ wz_rexx' \in WzRexxes BY <1>1, <2>1
    <3> QED BY <2>1, <2>2, <2>3, <3>1, <3>2, WzKeepsIdle
  <2>4. CASE ws' = [ws EXCEPT !.adv = (wz_adv = "set")] /\ wz_wish' = [wz_wish EXCEPT !.adv = (wz_adv = "set")]
    <3>1. PICK b \in BOOLEAN : b = (wz_adv = "set") BY Zenon
    <3>2. ws' = [ws EXCEPT !.adv = b] /\ wz_wish' = [wz_wish EXCEPT !.adv = b] BY <2>4, <3>1
    <3>3. /\ ws' \in WzStates /\ ws'.page = ws.page /\ ws'.ssid = ws.ssid /\ ws'.shown = ws.shown
          /\ ws'.pass = ws.pass /\ ws'.addr = ws.addr /\ ws'.adv = b /\ ws'.mode = ws.mode
      BY <1>1, <3>2 DEF WzStates
    <3>4. /\ wz_wish' \in WzWishes /\ wz_wish'.ssid = wz_wish.ssid /\ wz_wish'.pass = wz_wish.pass
          /\ wz_wish'.addr = wz_wish.addr /\ wz_wish'.adv = b
      BY <1>1, <3>2 DEF WzWishes
    <3>5. ASSUME wz_finishes = 0 PROVE Holds(sync_page_gadgets_to_state(ws', wz_gad), wz_wish')
      <4>1. PICK q : q = sync_page_gadgets_to_state(ws', wz_gad) OBVIOUS
      <4>2. PICK r : r = sync_page_gadgets_to_state(ws, wz_gad) OBVIOUS
      <4>3. /\ q.adv = ws'.adv
            /\ q.pass = (IF wz_gad.page = PageWifi /\ ~wz_gad.masked THEN wz_gad.pass ELSE ws'.pass)
            /\ q.ssid = (IF wz_gad.page = PageWifi /\ wz_gad.ssid # ws'.shown THEN wz_gad.ssid ELSE ws'.ssid)
            /\ q.addr = (IF wz_gad.page = PageAddress /\ wz_gad.manual THEN wz_gad.addr ELSE ws'.addr)
        BY <1>1, <3>3, <4>1, SyncFields
      <4>4. /\ r.pass = (IF wz_gad.page = PageWifi /\ ~wz_gad.masked THEN wz_gad.pass ELSE ws.pass)
            /\ r.ssid = (IF wz_gad.page = PageWifi /\ wz_gad.ssid # ws.shown THEN wz_gad.ssid ELSE ws.ssid)
            /\ r.addr = (IF wz_gad.page = PageAddress /\ wz_gad.manual THEN wz_gad.addr ELSE ws.addr)
        BY <1>1, <4>2, SyncFields
      <4>5. q.pass = r.pass /\ q.ssid = r.ssid /\ q.addr = r.addr /\ q.adv = b BY <3>3, <4>3, <4>4
      <4>6. Holds(r, wz_wish) BY <3>5, <4>2 DEF WishHeld, Synced
      <4> QED BY <3>4, <4>1, <4>5, <4>6 DEF Holds
    <3>6. Checked' BY <2>1, <3>3 DEF Checked, validate_address_page
    <3>7. ws.page = PageWifi => ws'.shown = ws'.ssid BY <3>3 DEF PageUp
    <3>8. wz_run' \in {"yes", "drain", "rexx", "out"} /\ wz_rexx' \in WzRexxes
          /\ wz_left' \in 0 .. WzEdits /\ wz_adv' \in {"no", "set", "clear"} BY <1>1, <2>1
    <3> QED BY <2>1, <2>2, <3>3, <3>4, <3>5, <3>6, <3>7, <3>8, WzKeepsQuiet
  <2> QED BY <1>3, <2>3, <2>4 DEF close_advanced_window
<1>4. CASE RexxSend
  <2>1. /\ UNCHANGED <<ws, wz_gad, wz_left, wz_wish, wz_finishes>> /\ UNCHANGED <<wz_adv, wz_run>>
        /\ wz_run = "yes" /\ wz_rexx' = [wz_rexx EXCEPT !.sent = @ + 1, !.port = @ + 1]
    BY <1>4 DEF RexxSend, wzfiles
  <2>2. PICK n \in Nat : n = wz_rexx.sent BY <1>1 DEF WzRexxes
  <2>3. PICK p \in Nat : p = wz_rexx.port BY <1>1 DEF WzRexxes
  <2>4. PICK a \in Nat : a = wz_rexx.replied BY <1>1 DEF WzRexxes
  <2>5. /\ wz_rexx' \in WzRexxes /\ wz_rexx'.sent = n + 1 /\ wz_rexx'.port = p + 1 /\ wz_rexx'.replied = a
        /\ wz_rexx'.parked = wz_rexx.parked /\ wz_rexx'.used = wz_rexx.used /\ wz_rexx'.done = wz_rexx.done
    <3>1. PICK m \in Nat : m = n + 1 BY <2>2
    <3>2. PICK l \in Nat : l = p + 1 BY <2>3
    <3>3. wz_rexx' = [wz_rexx EXCEPT !.sent = m, !.port = l] BY <2>1, <2>2, <2>3, <3>1, <3>2
    <3>4. wz_rexx' \in WzRexxes BY <1>1, <3>3 DEF WzRexxes
    <3>5. wz_rexx'.sent = m /\ wz_rexx'.port = l BY <1>1, <3>3 DEF WzRexxes
    <3>6. wz_rexx'.replied = wz_rexx.replied /\ wz_rexx'.parked = wz_rexx.parked
          /\ wz_rexx'.used = wz_rexx.used /\ wz_rexx'.done = wz_rexx.done
      BY <1>1, <3>3 DEF WzRexxes
    <3> QED BY <2>4, <3>1, <3>2, <3>4, <3>5, <3>6
  <2>6. PICK k \in Nat : k = IF wz_rexx.parked THEN 1 ELSE 0 BY Zenon
  <2>7. n = a + p + k BY <2>1, <2>2, <2>3, <2>4, <2>6 DEF Counted
  <2>8. n + 1 = a + (p + 1) + k BY <2>2, <2>3, <2>4, <2>6, <2>7
  <2>9. Counted' BY <2>1, <2>5, <2>6, <2>8 DEF Counted
  <2>10. wz_adv' \in {"no", "set", "clear"} /\ wz_run' \in {"yes", "drain", "rexx", "out"} BY <1>1, <2>1
  <2>11. wz_rexx'.used \/ (~wz_rexx.used /\ wz_rexx'.done = wz_rexx.done) BY <2>5
  <2> QED BY <2>1, <2>5, <2>9, <2>10, <2>11, WzKeepsIdle
<1>5. CASE Quit
  <2>1. /\ UNCHANGED <<ws, wz_gad, wz_left, wz_wish, wz_finishes>> /\ wz_adv' = "no"
        /\ wz_run # "out" /\ wz_run' = "out" /\ wz_rexx' = Answered
    BY <1>5 DEF Quit, wzfiles
  <2>2. /\ wz_rexx' \in WzRexxes /\ Counted'
        /\ wz_rexx'.used = wz_rexx.used /\ wz_rexx'.done = wz_rexx.done
    BY <2>1, AllAnswered
  <2>3. wz_rexx'.used \/ (~wz_rexx.used /\ wz_rexx'.done = wz_rexx.done) BY <2>2
  <2> QED BY <2>1, <2>2, <2>3, WzKeepsIdle
<1> QED BY <1>2, <1>3, <1>4, <1>5

\* One message is taken from the port and answered at once.
LEMMA OneAnswered ==
    ASSUME WzInv, wz_run # "out", wz_run' # "out", wz_rexx.port > 0,
           wz_rexx' \in WzRexxes, wz_rexx'.sent = wz_rexx.sent, wz_rexx'.port = wz_rexx.port - 1,
           \/ wz_rexx'.replied = wz_rexx.replied + 1 /\ wz_rexx'.parked = wz_rexx.parked
           \/ wz_rexx'.replied = wz_rexx.replied /\ ~wz_rexx.parked /\ wz_rexx'.parked
    PROVE  Counted'
<1>1. wz_rexx \in WzRexxes BY DEF WzInv, WzTypes
<1>2. PICK p \in Nat : p = wz_rexx.port BY <1>1 DEF WzRexxes
<1>3. PICK a \in Nat : a = wz_rexx.replied BY <1>1 DEF WzRexxes
<1>4. PICK k \in {0, 1} : k = IF wz_rexx.parked THEN 1 ELSE 0 BY Zenon
<1>5. wz_rexx.sent = a + p + k BY <1>2, <1>3, <1>4 DEF WzInv, Counted
<1>6. CASE wz_rexx'.replied = wz_rexx.replied + 1 /\ wz_rexx'.parked = wz_rexx.parked
  <2>1. a + p + k = (a + 1) + (p - 1) + k BY <1>2, <1>3, <1>4
  <2> QED BY <1>2, <1>3, <1>4, <1>5, <1>6, <2>1 DEF Counted
<1>7. CASE wz_rexx'.replied = wz_rexx.replied /\ ~wz_rexx.parked /\ wz_rexx'.parked
  <2>1. k = 0 BY <1>4, <1>7
  <2>2. a + p + 0 = a + (p - 1) + 1 BY <1>2, <1>3
  <2> QED BY <1>2, <1>3, <1>5, <1>7, <2>1, <2>2 DEF Counted
<1> QED BY <1>6, <1>7

\* The messages of the ARexx port.
LEMMA WzKeepsRexx == ASSUME WzAssumption, WzInv, tn_setup_rexx_process PROVE WzInv'
<1> USE DEF WzInv
<1>1. wz_gad \in WzGadgets /\ wz_wish \in WzWishes /\ wz_rexx \in WzRexxes /\ ws \in WzStates
      /\ wz_left \in 0 .. WzEdits /\ wz_adv \in {"no", "set", "clear"}
  BY DEF WzTypes, WzTypeOK
<1>2. /\ wz_run # "out" /\ wz_run' = "rexx" /\ wz_rexx.port > 0
      /\ UNCHANGED <<wz_adv, wz_left>> /\ UNCHANGED wz_finishes
  BY DEF tn_setup_rexx_process, wzfiles
<1>3. PICK p \in Nat : p = wz_rexx.port - 1 /\ p = p BY <1>1, <1>2 DEF WzRexxes
<1>4. PICK a \in Nat : a = wz_rexx.replied + 1 BY <1>1 DEF WzRexxes
<1>5. ASSUME wz_rexx' = [wz_rexx EXCEPT !.port = @ - 1, !.replied = @ + 1, !.used = TRUE]
      PROVE  wz_rexx' \in WzRexxes /\ wz_rexx'.used = TRUE /\ Counted'
  <2>1. PICK y \in WzRexxes : y = [wz_rexx EXCEPT !.port = p, !.replied = a] BY <1>1 DEF WzRexxes
  <2>2. wz_rexx' = [y EXCEPT !.used = TRUE] BY <1>1, <1>3, <1>4, <1>5, <2>1 DEF WzRexxes
  <2>3. wz_rexx' \in WzRexxes /\ wz_rexx'.used = TRUE BY <2>2 DEF WzRexxes
  <2>4. y.port = p /\ y.replied = a /\ y.sent = wz_rexx.sent /\ y.parked = wz_rexx.parked
    BY <1>1, <2>1 DEF WzRexxes
  <2>5. wz_rexx'.port = p /\ wz_rexx'.replied = a /\ wz_rexx'.sent = wz_rexx.sent /\ wz_rexx'.parked = wz_rexx.parked
    BY <2>2, <2>4 DEF WzRexxes
  <2>6. Counted' BY <1>2, <1>3, <1>4, <2>3, <2>5, OneAnswered
  <2> QED BY <2>3, <2>6
<1>6. ASSUME NEW w \in WzStates, rebuild_page_gadgets(w), wz_wish' \in WzWishes,
             wz_rexx' = [wz_rexx EXCEPT !.port = @ - 1, !.replied = @ + 1, !.used = TRUE],
             wz_finishes = 0 => Holds(Synced(w), wz_wish')
      PROVE  WzInv'
  <2>1. wz_rexx' \in WzRexxes /\ wz_rexx'.used = TRUE /\ Counted' BY <1>5, <1>6
  <2>2. wz_finishes = 0 /\ ~wz_rexx'.used =>
              ~wz_rexx'.done /\ (w.page = PageTest /\ w.mode = 1 => Synced(w).addr = "ok") BY <2>1
  <2>3. wz_run' \in {"yes", "drain", "rexx"} BY <1>2
  <2> QED BY <1>2, <1>6, <2>1, <2>2, <2>3, WzKeepsBuilt
<1>7. ASSUME NEW w \in WzStates, Alike(w, ws), RexxMoves(w) PROVE WzInv'
  <2>1. /\ rebuild_page_gadgets(w) /\ UNCHANGED wz_wish
        /\ wz_rexx' = [wz_rexx EXCEPT !.port = @ - 1, !.replied = @ + 1, !.used = TRUE]
    BY <1>7 DEF RexxMoves
  <2>2. wz_finishes = 0 => Holds(Synced(w), wz_wish)
    BY <1>1, <1>7, AlikeHolds DEF WishHeld, Synced
  <2> QED BY <1>1, <1>6, <2>1, <2>2
<1>8. ASSUME NEW n \in 0 .. PageTest, RexxMoves([ws EXCEPT !.page = n]) PROVE WzInv'
  <2>1. PICK w : w = [ws EXCEPT !.page = n] OBVIOUS
  <2>2. w \in WzStates /\ Alike(w, ws) BY <1>1, <2>1 DEF WzStates, Alike
  <2> QED BY <1>7, <1>8, <2>1, <2>2
<1>9. ws.page \in 0 .. PageTest BY <1>1 DEF WzStates
<1>10. CASE RexxMoves([ws EXCEPT !.page = IF @ < PageTest THEN Onwards(ws) ELSE @])
  <2>1. PICK n : n = IF ws.page < PageTest THEN Onwards(ws) ELSE ws.page OBVIOUS
  <2>2. n \in 0 .. PageTest BY <1>9, <2>1 DEF Onwards, PageWifi, PageAddress, PageTest
  <2>3. RexxMoves([ws EXCEPT !.page = n]) BY <1>10, <2>1
  <2> QED BY <1>8, <2>2, <2>3
<1>11. CASE RexxMoves([ws EXCEPT !.page = IF @ > 0 THEN Backwards(ws) ELSE @])
  <2>1. PICK n : n = IF ws.page > 0 THEN Backwards(ws) ELSE ws.page OBVIOUS
  <2>2. n \in 0 .. PageTest BY <1>9, <2>1 DEF Backwards, PageWifi, PageHw, PageTest
  <2>3. RexxMoves([ws EXCEPT !.page = n]) BY <1>11, <2>1
  <2> QED BY <1>8, <2>2, <2>3
<1>12. ASSUME NEW m \in {0, 1}, RexxMoves([ws EXCEPT !.mode = m]) PROVE WzInv'
  <2>1. PICK w : w = [ws EXCEPT !.mode = m] OBVIOUS
  <2>2. w \in WzStates /\ Alike(w, ws) BY <1>1, <2>1 DEF WzStates, Alike
  <2> QED BY <1>7, <1>12, <2>1, <2>2
<1>13. ASSUME NEW i \in DOMAIN ws.nets, ws.page = PageWifi,
              rebuild_page_gadgets([ws EXCEPT !.sel = i, !.ssid = ws.nets[i]]),
              wz_wish' = IF wz_gad.ssid # ws.shown THEN wz_wish
                         ELSE [wz_wish EXCEPT !.ssid = ws.nets[i]],
              wz_rexx' = [wz_rexx EXCEPT !.port = @ - 1, !.replied = @ + 1, !.used = TRUE]
       PROVE  WzInv'
  <2>1. ws.nets \in {<<>>, WzNets} BY <1>1 DEF WzStates
  <2>2. i \in Nat /\ ws.nets[i] \in WzTexts
    <3>1. DOMAIN <<>> = {} OBVIOUS
    <3>2. ws.nets = WzNets BY <1>13, <2>1, <3>1
    <3>3. DOMAIN WzNets = 1 .. Len(WzNets) BY DEF WzAssumption
    <3>4. i \in 1 .. Len(WzNets) /\ Len(WzNets) \in Nat BY <1>13, <3>2, <3>3 DEF WzAssumption
    <3> QED BY <1>13, <3>2, <3>4 DEF WzTexts
  <2>3. PICK n \in WzTexts : n = ws.nets[i] BY <2>2
  <2>4. PICK w : w = [ws EXCEPT !.sel = i, !.ssid = n] OBVIOUS
  <2>5. /\ w \in WzStates /\ w.ssid = n /\ w.shown = ws.shown /\ w.pass = ws.pass /\ w.addr = ws.addr
        /\ w.adv = ws.adv
    BY <1>1, <2>2, <2>4 DEF WzStates
  <2>6. wz_gad.page = PageWifi BY <1>13 DEF PageUp
  <2>7. PICK q : q = sync_page_gadgets_to_state(w, wz_gad) OBVIOUS
  <2>8. PICK r : r = sync_page_gadgets_to_state(ws, wz_gad) OBVIOUS
  <2>9. /\ q.adv = w.adv
        /\ q.pass = (IF wz_gad.page = PageWifi /\ ~wz_gad.masked THEN wz_gad.pass ELSE w.pass)
        /\ q.ssid = (IF wz_gad.page = PageWifi /\ wz_gad.ssid # w.shown THEN wz_gad.ssid ELSE w.ssid)
        /\ q.addr = (IF wz_gad.page = PageAddress /\ wz_gad.manual THEN wz_gad.addr ELSE w.addr)
    BY <1>1, <2>5, <2>7, SyncFields
  <2>10. /\ r.adv = ws.adv
         /\ r.pass = (IF wz_gad.page = PageWifi /\ ~wz_gad.masked THEN wz_gad.pass ELSE ws.pass)
         /\ r.ssid = (IF wz_gad.page = PageWifi /\ wz_gad.ssid # ws.shown THEN wz_gad.ssid ELSE ws.ssid)
         /\ r.addr = (IF wz_gad.page = PageAddress /\ wz_gad.manual THEN wz_gad.addr ELSE ws.addr)
    BY <1>1, <2>8, SyncFields
  <2>11. q.adv = r.adv /\ q.pass = r.pass /\ q.addr = r.addr
         /\ q.ssid = IF wz_gad.ssid # ws.shown THEN r.ssid ELSE n
    BY <2>5, <2>6, <2>9, <2>10
  <2>12. /\ wz_wish' \in WzWishes /\ wz_wish'.pass = wz_wish.pass /\ wz_wish'.addr = wz_wish.addr
         /\ wz_wish'.adv = wz_wish.adv
         /\ wz_wish'.ssid = IF wz_gad.ssid # ws.shown THEN wz_wish.ssid ELSE n
    <3>1. CASE wz_gad.ssid # ws.shown BY <1>1, <1>13, <3>1
    <3>2. CASE wz_gad.ssid = ws.shown
      <4>1. wz_wish' = [wz_wish EXCEPT !.ssid = n] BY <1>13, <2>3, <3>2
      <4> QED BY <1>1, <3>2, <4>1 DEF WzWishes
    <3> QED BY <3>1, <3>2
  <2>13. wz_finishes = 0 => Holds(q, wz_wish')
    <3> SUFFICES ASSUME wz_finishes = 0 PROVE Holds(q, wz_wish') OBVIOUS
    <3>1. Holds(r, wz_wish) BY <2>8 DEF WishHeld, Synced
    <3> QED BY <2>11, <2>12, <3>1 DEF Holds
  <2> QED BY <1>6, <1>13, <2>3, <2>4, <2>5, <2>7, <2>12, <2>13 DEF Synced
<1>14. ASSUME wz_rexx' = IF wz_rexx.parked THEN [wz_rexx EXCEPT !.port = @ - 1, !.replied = @ + 1]
                         ELSE [wz_rexx EXCEPT !.port = @ - 1, !.parked = TRUE, !.done = TRUE, !.used = TRUE],
              UNCHANGED <<ws, wz_gad, wz_lock, wz_wish>>
       PROVE  WzInv'
  <2>1. CASE wz_rexx.parked
    <3>1. wz_rexx' = [wz_rexx EXCEPT !.port = p, !.replied = a] BY <1>1, <1>3, <1>4, <1>14, <2>1 DEF WzRexxes
    <3>2. wz_rexx' \in WzRexxes BY <1>1, <3>1 DEF WzRexxes
    <3>3. wz_rexx'.port = p /\ wz_rexx'.replied = a /\ wz_rexx'.sent = wz_rexx.sent
          /\ wz_rexx'.parked = wz_rexx.parked /\ wz_rexx'.used = wz_rexx.used /\ wz_rexx'.done = wz_rexx.done
      BY <1>1, <3>1 DEF WzRexxes
    <3>4. Counted' BY <1>2, <1>3, <1>4, <3>2, <3>3, OneAnswered
    <3>5. wz_rexx'.used \/ (~wz_rexx.used /\ wz_rexx'.done = wz_rexx.done) BY <3>3
    <3>6. wz_run' \in {"yes", "drain", "rexx", "out"} /\ wz_adv' \in {"no", "set", "clear"} BY <1>1, <1>2
    <3> QED BY <1>2, <1>14, <3>2, <3>4, <3>5, <3>6, WzKeepsIdle
  <2>2. CASE ~wz_rexx.parked
    <3>1. PICK y \in WzRexxes : y = [wz_rexx EXCEPT !.port = p, !.parked = TRUE] BY <1>1 DEF WzRexxes
    <3>2. wz_rexx' = [y EXCEPT !.done = TRUE, !.used = TRUE] BY <1>1, <1>3, <1>14, <2>2, <3>1 DEF WzRexxes
    <3>3. wz_rexx' \in WzRexxes /\ wz_rexx'.used = TRUE BY <3>2 DEF WzRexxes
    <3>4. y.port = p /\ y.replied = wz_rexx.replied /\ y.sent = wz_rexx.sent /\ y.parked = TRUE
      BY <1>1, <3>1 DEF WzRexxes
    <3>5. wz_rexx'.port = p /\ wz_rexx'.replied = wz_rexx.replied /\ wz_rexx'.sent = wz_rexx.sent
          /\ wz_rexx'.parked = TRUE
      BY <3>2, <3>4 DEF WzRexxes
    <3>6. Counted' BY <1>2, <1>3, <2>2, <3>3, <3>5, OneAnswered
    <3>7. wz_run' \in {"yes", "drain", "rexx", "out"} /\ wz_adv' \in {"no", "set", "clear"} BY <1>1, <1>2
    <3> QED BY <1>2, <1>14, <3>3, <3>6, <3>7, WzKeepsIdle
  <2> QED BY <2>1, <2>2
<1>15. ASSUME wz_rexx' = [wz_rexx EXCEPT !.port = @ - 1, !.replied = @ + 1, !.cancel = TRUE],
              UNCHANGED <<ws, wz_gad, wz_lock, wz_wish>>
       PROVE  WzInv'
  <2>1. PICK y \in WzRexxes : y = [wz_rexx EXCEPT !.port = p, !.replied = a] BY <1>1 DEF WzRexxes
  <2>2. wz_rexx' = [y EXCEPT !.cancel = TRUE] BY <1>1, <1>3, <1>4, <1>15, <2>1 DEF WzRexxes
  <2>3. wz_rexx' \in WzRexxes BY <2>2 DEF WzRexxes
  <2>4. y.port = p /\ y.replied = a /\ y.sent = wz_rexx.sent /\ y.parked = wz_rexx.parked
        /\ y.used = wz_rexx.used /\ y.done = wz_rexx.done
    BY <1>1, <2>1 DEF WzRexxes
  <2>5. wz_rexx'.port = p /\ wz_rexx'.replied = a /\ wz_rexx'.sent = wz_rexx.sent
        /\ wz_rexx'.parked = wz_rexx.parked /\ wz_rexx'.used = wz_rexx.used /\ wz_rexx'.done = wz_rexx.done
    BY <2>2, <2>4 DEF WzRexxes
  <2>6. Counted' BY <1>2, <1>3, <1>4, <2>3, <2>5, OneAnswered
  <2>7. wz_rexx'.used \/ (~wz_rexx.used /\ wz_rexx'.done = wz_rexx.done) BY <2>5
  <2>8. wz_run' \in {"yes", "drain", "rexx", "out"} /\ wz_adv' \in {"no", "set", "clear"} BY <1>1, <1>2
  <2> QED BY <1>2, <1>15, <2>3, <2>6, <2>7, <2>8, WzKeepsIdle
<1> QED BY <1>8, <1>10, <1>11, <1>12, <1>13, <1>14, <1>15 DEF tn_setup_rexx_process

\* After the messages: Finish, the end or the loop.
LEMMA WzKeepsDone == ASSUME WzAssumption, WzInv, RexxDone PROVE WzInv'
<1> USE DEF WzInv
<1>1. wz_rexx \in WzRexxes /\ ws \in WzStates /\ wz_adv \in {"no", "set", "clear"} BY DEF WzTypes
<1>2. wz_run = "rexx" /\ wz_run # "out" /\ UNCHANGED <<wz_gad, wz_left, wz_wish>> BY DEF RexxDone
<1>3. CASE wz_run' = "out" /\ wz_rexx' = Answered /\ wz_adv' = "no" /\ apply_wizard_finish(ws)
  <2>1. wz_rexx' \in WzRexxes /\ Counted' BY <1>2, <1>3, AllAnswered
  <2>2. ws.page = PageWifi => ws.shown = ws.ssid BY DEF PageUp
  <2> QED BY <1>1, <1>2, <1>3, <2>1, <2>2, WzKeepsFinish
<1>4. CASE wz_run' = "out" /\ wz_rexx' = Answered /\ wz_adv' = "no" /\ UNCHANGED <<ws, wzfiles>>
  <2>1. /\ wz_rexx' \in WzRexxes /\ Counted'
        /\ wz_rexx'.used = wz_rexx.used /\ wz_rexx'.done = wz_rexx.done
    BY <1>2, <1>4, AllAnswered
  <2>2. UNCHANGED <<ws, wz_gad, wz_left, wz_wish, wz_finishes>> BY <1>2, <1>4 DEF wzfiles
  <2> QED BY <1>4, <2>1, <2>2, WzKeepsIdle
<1>5. CASE wz_run' = "yes" /\ UNCHANGED <<ws, wz_rexx, wz_adv, wzfiles>>
  <2>1. Counted' BY <1>2, <1>5, CountKept
  <2>2. UNCHANGED <<ws, wz_gad, wz_left, wz_wish, wz_finishes>> BY <1>2, <1>5 DEF wzfiles
  <2>3. wz_rexx' \in WzRexxes /\ wz_adv' \in {"no", "set", "clear"}
        /\ (wz_rexx'.used \/ (~wz_rexx.used /\ wz_rexx'.done = wz_rexx.done))
    BY <1>1, <1>5
  <2> QED BY <1>5, <2>1, <2>2, <2>3, WzKeepsIdle
<1> QED BY <1>3, <1>4, <1>5 DEF RexxDone

\* Every step preserves the invariant.
LEMMA WzKeeps == ASSUME WzAssumption, WzInv, [WzNext]_wzvars PROVE WzInv'
<1>1. CASE UNCHANGED wzvars
  <2> USE <1>1 DEF wzvars, WzInv
  <2>1. WzTypes' BY DEF WzTypes, WzTypeOK
  <2>2. PageUp' /\ WishHeld' BY DEF PageUp, WishHeld, Synced
  <2>3. Checked' BY DEF Checked, validate_address_page
  <2>4. Counted' BY DEF Counted
  <2> QED BY <2>1, <2>2, <2>3, <2>4
<1>2. CASE WzNext
  BY <1>2, WzKeepsTypes, WzKeepsGadgets, WzKeepsPick, WzKeepsNext, WzKeepsOther, WzKeepsRexx, WzKeepsDone
  DEF WzNext
<1> QED BY <1>1, <1>2

\* A Finish of a state that holds the wishes writes them.
LEMMA FinishWish ==
    ASSUME WzTypes, NEW w \in WzStates, w.wireless = ws.wireless, w.mode = ws.mode,
           apply_wizard_finish(w), Holds(Synced(w), wz_wish)
    PROVE  /\ ws.wireless /\ wz_wish.ssid \notin {EmptyText, HiddenAp} /\ wz_wish.pass # "bad"
                => wz_prefs' = [ssid |-> wz_wish.ssid, pass |-> wz_wish.pass]
           /\ wz_config'.addr = wz_wish.addr /\ wz_config'.adv = wz_wish.adv
           /\ wz_config'.mode = ws.mode
<1>1. wz_gad \in WzGadgets BY DEF WzTypes
<1>2. PICK f : f = Synced(w) OBVIOUS
<1>3. f \in WzStates /\ f.wireless = w.wireless /\ f.mode = w.mode /\ f.adv = w.adv
  BY <1>1, <1>2, SyncFields DEF Synced
<1>4. Holds(f, wz_wish) BY <1>2
<1>5. wz_config' = [mode |-> f.mode, addr |-> f.addr, adv |-> f.adv] BY <1>2 DEF apply_wizard_finish
<1>6. IF f.wireless THEN tn_wifi_write_prefs_multi(f) ELSE UNCHANGED wz_prefs
  BY <1>2 DEF apply_wizard_finish
<1>7. ASSUME ws.wireless, wz_wish.ssid \notin {EmptyText, HiddenAp}, wz_wish.pass # "bad"
      PROVE  wz_prefs' = [ssid |-> wz_wish.ssid, pass |-> wz_wish.pass]
  <2>1. f.ssid = wz_wish.ssid /\ f.pass = wz_wish.pass BY <1>4, <1>7 DEF Holds
  <2>2. Ssid(f) = f.ssid BY <1>7, <2>1 DEF Ssid
  <2>3. Writable(f) BY <1>7, <2>1, <2>2 DEF Writable
  <2> QED BY <1>3, <1>6, <1>7, <2>1, <2>2, <2>3 DEF tn_wifi_write_prefs_multi
<1>8. wz_config'.addr = f.addr /\ wz_config'.adv = f.adv /\ wz_config'.mode = f.mode BY <1>5
<1> QED BY <1>3, <1>4, <1>7, <1>8 DEF Holds

\* The promise of the wizard.
LEMMA WzFinish == ASSUME WzAssumption, WzInv, [WzNext]_wzvars PROVE FinishWrites
<1>1. WzInv' BY WzKeeps
<1>2. wz_run' = "out" => wz_rexx'.replied = wz_rexx'.sent BY <1>1 DEF WzInv, Counted
<1>3. ASSUME wz_finishes = 0, wz_finishes' = 1
      PROVE  /\ ws.wireless /\ wz_wish.ssid \notin {EmptyText, HiddenAp} /\ wz_wish.pass # "bad"
                  => wz_prefs' = [ssid |-> wz_wish.ssid, pass |-> wz_wish.pass]
             /\ wz_config'.addr = wz_wish.addr /\ wz_config'.adv = wz_wish.adv
             /\ ~wz_rexx.used /\ wz_config'.mode = 1 => wz_config'.addr = "ok"
  <2>1. PICK s : s = Synced(ws) OBVIOUS
  <2>2. /\ s \in WzStates /\ s.page = ws.page /\ s.mode = ws.mode /\ s.wireless = ws.wireless
        /\ Holds(s, wz_wish) /\ Holds(Synced(s), wz_wish)
        /\ ws.page = PageTest => s.addr = ws.addr
    BY <1>3, <2>1, SyncedKeeps
  <2>3. wz_finishes' # wz_finishes /\ WzNext BY <1>3 DEF wzvars
  <2>4. NextOrReturn \/ RexxDone
    BY <2>3 DEF WzNext, Types, ShowPass, PickNet, tn_wifi_scan, SetMode, SelectHw, RunTests, Rebuilt,
       retreat_back_page, Stop, open_advanced_window, AdvancedCheckbox, close_advanced_window, RexxSend,
       tn_setup_rexx_process, Quit, wzfiles
  <2>5. \/ apply_wizard_finish(s) /\ (s.page = PageTest \/ wz_rexx.done)
        \/ apply_wizard_finish(ws) /\ wz_rexx.done
    BY <2>1, <2>3, <2>4 DEF NextOrReturn, advance_next_page, RexxDone, wzfiles
  <2>6. ws \in WzStates /\ WzTypes BY DEF WzInv, WzTypes
  <2>7. /\ ws.wireless /\ wz_wish.ssid \notin {EmptyText, HiddenAp} /\ wz_wish.pass # "bad"
             => wz_prefs' = [ssid |-> wz_wish.ssid, pass |-> wz_wish.pass]
        /\ wz_config'.addr = wz_wish.addr /\ wz_config'.adv = wz_wish.adv /\ wz_config'.mode = ws.mode
    <3>1. CASE apply_wizard_finish(s) BY <2>2, <2>6, <3>1, FinishWish
    <3>2. CASE apply_wizard_finish(ws) BY <2>1, <2>2, <2>6, <3>2, FinishWish
    <3> QED BY <2>5, <3>1, <3>2
  <2>8. ASSUME ~wz_rexx.used, ws.mode = 1 PROVE wz_wish.addr = "ok"
    <3>1. ~wz_rexx.done /\ (ws.page = PageTest => validate_address_page(ws)) BY <1>3, <2>8 DEF WzInv, Checked
    <3>2. ws.page = PageTest BY <2>2, <2>5, <3>1
    <3>3. ws.addr = "ok" BY <2>8, <3>1, <3>2 DEF validate_address_page
    <3> QED BY <2>2, <3>2, <3>3 DEF Holds
  <2> QED BY <2>7, <2>8
<1> QED BY <1>2, <1>3 DEF FinishWrites

----------------------------------------------------------------------------
(***************************************************************************)
(* HttpGet: what the server still sends is a run of the chunk parser from  *)
(* where it is, to a last chunk that comes only after the last byte.       *)
(***************************************************************************)
\* The tokens of a chunked body.
Toks == [kind : {"size", "data", "eol"}, v : Nat]

\* Where the parser is, and how many bytes of the resource it has written.
Marks == [state : {"SIZE", "DATA", "CRLF", "DONE"}, rem : Nat, tot : Nat]
Mark(s, r, n) == [state |-> s, rem |-> r, tot |-> n]

\* The token that may follow when the resource has z bytes, and where the parser
\* is after it.
Expected(p, t, z) ==
    \/ p.state = "SIZE" /\ t.kind = "size" /\ (t.v = 0 => p.tot = z)
    \/ p.state = "DATA" /\ t.kind = "data" /\ t.v = p.tot + 1 /\ p.rem > 0
    \/ p.state = "CRLF" /\ t.kind = "eol"
\* Where it is then.
After(p, t) ==
    CASE p.state = "SIZE" -> IF t.v = 0 THEN Mark("DONE", 0, p.tot) ELSE Mark("DATA", t.v, p.tot)
      [] p.state = "DATA" -> IF p.rem = 1 THEN Mark("CRLF", 0, p.tot + 1)
                             ELSE Mark("DATA", p.rem - 1, p.tot + 1)
      [] OTHER -> Mark("SIZE", 0, p.tot)

\* The tokens w take the parser from p to q.
Runs(w, p, q, z) ==
    \E P \in [1 .. Len(w) + 1 -> Marks] :
       /\ P[1] = p /\ P[Len(w) + 1] = q
       /\ \A i \in 1 .. Len(w) : Expected(P[i], w[i], z) /\ P[i + 1] = After(P[i], w[i])

\* A run may be followed by another.
LEMMA RunsJoin ==
    ASSUME NEW w \in Seq(Toks), NEW v \in Seq(Toks), NEW p, NEW q, NEW r, Runs(w, p, q, ht_size), Runs(v, q, r, ht_size)
    PROVE  Runs(w \o v, p, r, ht_size)
<1>1. PICK P \in [1 .. Len(w) + 1 -> Marks] :
         /\ P[1] = p /\ P[Len(w) + 1] = q
         /\ \A i \in 1 .. Len(w) : Expected(P[i], w[i], ht_size) /\ P[i + 1] = After(P[i], w[i])
  BY DEF Runs
<1>2. PICK Q \in [1 .. Len(v) + 1 -> Marks] :
         /\ Q[1] = q /\ Q[Len(v) + 1] = r
         /\ \A i \in 1 .. Len(v) : Expected(Q[i], v[i], ht_size) /\ Q[i + 1] = After(Q[i], v[i])
  BY DEF Runs
<1>3. /\ Len(w) \in Nat /\ Len(v) \in Nat /\ Len(w \o v) = Len(w) + Len(v)
      /\ \A i \in 1 .. Len(w) + Len(v) : (w \o v)[i] = IF i <= Len(w) THEN w[i] ELSE v[i - Len(w)]
  BY ConcatProperties
<1>4. PICK m \in Nat, n \in Nat : m = Len(w) /\ n = Len(v) BY <1>3
<1> DEFINE R == [i \in 1 .. m + n + 1 |-> IF i <= m THEN P[i] ELSE Q[i - m]]
<1>5. R \in [1 .. m + n + 1 -> Marks]
  <2> SUFFICES ASSUME NEW i \in 1 .. m + n + 1 PROVE (IF i <= m THEN P[i] ELSE Q[i - m]) \in Marks OBVIOUS
  <2>1. CASE i <= m BY <1>1, <1>4, <2>1, SMTT(40)
  <2>2. CASE ~(i <= m)
    <3>1. i - m \in 1 .. n + 1 BY <2>2
    <3> QED BY <1>2, <1>4, <2>2, <3>1
  <2> QED BY <2>1, <2>2
<1>6. R[1] = p
  <2>1. CASE m = 0 BY <1>1, <1>2, <1>4, <2>1
  <2>2. CASE m # 0 BY <1>1, <1>4, <2>2
  <2> QED BY <2>1, <2>2
<1>7. R[m + n + 1] = r BY <1>2, <1>4
<1>8. ASSUME NEW i \in 1 .. m + n
      PROVE  Expected(R[i], (w \o v)[i], ht_size) /\ R[i + 1] = After(R[i], (w \o v)[i])
  <2>1. CASE i < m
    <3>1. (w \o v)[i] = w[i] /\ R[i] = P[i] /\ R[i + 1] = P[i + 1] BY <1>3, <1>4, <2>1
    <3> QED BY <1>1, <1>4, <2>1, <3>1
  <2>2. CASE i = m
    <3>1. (w \o v)[i] = w[i] /\ R[i] = P[i] /\ R[i + 1] = Q[1] /\ Q[1] = P[i + 1]
      BY <1>1, <1>2, <1>3, <1>4, <2>2
    <3> QED BY <1>1, <1>4, <2>2, <3>1
  <2>3. CASE i > m
    <3>1. PICK j \in 1 .. n : j = i - m BY <2>3
    <3>2. (w \o v)[i] = v[j] /\ R[i] = Q[j] /\ R[i + 1] = Q[j + 1] BY <1>3, <1>4, <2>3, <3>1
    <3> QED BY <1>2, <1>4, <3>1, <3>2
  <2>4. i < m \/ i = m \/ i > m OBVIOUS
  <2> HIDE DEF R
  <2> QED BY <2>1, <2>2, <2>3, <2>4
<1> HIDE DEF R
<1>9. m + n = Len(w \o v) BY <1>3, <1>4
<1> QED BY <1>5, <1>6, <1>7, <1>8, <1>9 DEF Runs

\* The beginning of a run is a run.
LEMMA RunsCut ==
    ASSUME NEW w \in Seq(Toks), NEW p, NEW q, Runs(w, p, q, ht_size), NEW c \in 0 .. Len(w)
    PROVE  \E r : Runs(SubSeq(w, 1, c), p, r, ht_size)
<1>1. PICK P \in [1 .. Len(w) + 1 -> Marks] :
         /\ P[1] = p /\ P[Len(w) + 1] = q
         /\ \A i \in 1 .. Len(w) : Expected(P[i], w[i], ht_size) /\ P[i + 1] = After(P[i], w[i])
  BY DEF Runs
<1>2. Len(w) \in Nat /\ c \in Nat OBVIOUS
<1>3. /\ Len(SubSeq(w, 1, c)) = c
      /\ \A i \in 1 .. c : SubSeq(w, 1, c)[i] = w[i]
  <2>1. \A i \in 1 .. c : w[i] \in Toks BY <1>2
  <2> QED BY <1>2, <2>1, SubSeqProperties
<1> DEFINE R == [i \in 1 .. c + 1 |-> P[i]]
<1>4. R \in [1 .. c + 1 -> Marks] BY <1>1, <1>2
<1>5. R[1] = p BY <1>1, <1>2
<1>6. \A i \in 1 .. c : Expected(R[i], w[i], ht_size) /\ R[i + 1] = After(R[i], w[i]) BY <1>1, <1>2
<1> HIDE DEF R
<1>7. Runs(SubSeq(w, 1, c), p, R[c + 1], ht_size) BY <1>3, <1>4, <1>5, <1>6, SMTT(40) DEF Runs
<1> QED BY <1>7

\* And so is what is left of it after a token.
LEMMA RunsTail ==
    ASSUME NEW w \in Seq(Toks), w # <<>>, NEW p, NEW q, Runs(w, p, q, ht_size)
    PROVE  /\ Expected(p, Head(w), ht_size) /\ p \in Marks /\ After(p, Head(w)) \in Marks
           /\ Runs(Tail(w), After(p, Head(w)), q, ht_size)
<1>1. PICK P \in [1 .. Len(w) + 1 -> Marks] :
         /\ P[1] = p /\ P[Len(w) + 1] = q
         /\ \A i \in 1 .. Len(w) : Expected(P[i], w[i], ht_size) /\ P[i + 1] = After(P[i], w[i])
  BY DEF Runs
<1>2. PICK n \in Nat : Len(w) = n + 1 BY EmptySeq
<1>3. /\ Len(Tail(w)) = n /\ Head(w) = w[1]
      /\ \A i \in 1 .. n : Tail(w)[i] = w[i + 1]
  BY <1>2, HeadTailProperties
<1>4. Expected(p, Head(w), ht_size) /\ P[2] = After(p, Head(w)) /\ p \in Marks /\ P[2] \in Marks BY <1>1, <1>2, <1>3
<1> DEFINE R == [i \in 1 .. n + 1 |-> P[i + 1]]
<1>5. R \in [1 .. n + 1 -> Marks] BY <1>1, <1>2
<1>6. R[1] = P[2] /\ R[n + 1] = q BY <1>1, <1>2
<1>7. ASSUME NEW i \in 1 .. n
      PROVE  Expected(R[i], Tail(w)[i], ht_size) /\ R[i + 1] = After(R[i], Tail(w)[i])
  <2>1. i + 1 \in 1 .. Len(w) /\ R[i] = P[i + 1] /\ R[i + 1] = P[(i + 1) + 1] BY <1>2
  <2> QED BY <1>1, <1>3, <2>1
<1> HIDE DEF R
<1>8. Runs(Tail(w), P[2], q, ht_size) BY <1>3, <1>5, <1>6, <1>7 DEF Runs
<1> QED BY <1>4, <1>8

\* Facts about Bytes.
LEMMA BytesAre ==
    ASSUME NEW a \in Nat, NEW n \in Nat
    PROVE  /\ Bytes(a + 1, a + n) = [i \in 1 .. n |-> a + i]
           /\ Bytes(a + 1, a + n) \in Seq(Nat) /\ Len(Bytes(a + 1, a + n)) = n
           /\ DOMAIN Bytes(a + 1, a + n) = 1 .. n
<1>1. (IF a + n >= a + 1 THEN a + n - (a + 1) + 1 ELSE 0) = n OBVIOUS
<1>2. Bytes(a + 1, a + n) = [i \in 1 .. n |-> a + 1 + i - 1] BY <1>1 DEF Bytes
<1>3. [i \in 1 .. n |-> a + 1 + i - 1] = [i \in 1 .. n |-> a + i] OBVIOUS
<1>4. [i \in 1 .. n |-> a + i] \in [1 .. n -> Nat] OBVIOUS
<1>5. [i \in 1 .. n |-> a + i] \in Seq(Nat) BY <1>4, SeqDef
<1>6. Len([i \in 1 .. n |-> a + i]) = n BY <1>5
<1> QED BY <1>2, <1>3, <1>5, <1>6

\* The next byte behind the bytes.
LEMMA BytesGrow ==
    ASSUME NEW a \in Nat, NEW n \in Nat
    PROVE  Append(Bytes(a + 1, a + n), a + n + 1) = Bytes(a + 1, a + (n + 1))
<1>1. PICK s \in Seq(Nat) : s = Bytes(a + 1, a + n) /\ Len(s) = n /\ s = [i \in 1 .. n |-> a + i] BY BytesAre
<1>2. PICK m \in Nat : m = n + 1 OBVIOUS
<1>3. PICK z \in Seq(Nat) : z = Bytes(a + 1, a + m) /\ Len(z) = m /\ z = [i \in 1 .. m |-> a + i]
  <2>1. Bytes(a + 1, a + m) \in Seq(Nat) /\ Len(Bytes(a + 1, a + m)) = m BY BytesAre
  <2>2. Bytes(a + 1, a + m) = [i \in 1 .. m |-> a + i] BY BytesAre
  <2> QED BY <2>1, <2>2
<1>4. Append(s, a + n + 1) \in Seq(Nat) /\ Len(Append(s, a + n + 1)) = m BY <1>1, <1>2
<1>5. ASSUME NEW i \in 1 .. m PROVE Append(s, a + n + 1)[i] = z[i]
  <2>1. z[i] = a + i BY <1>3
  <2>2. CASE i = m BY <1>1, <1>2, <2>1, <2>2
  <2>3. CASE i # m
    <3>1. i \in 1 .. n /\ s[i] = a + i BY <1>1, <1>2, <2>3
    <3> QED BY <1>1, <2>1, <3>1
  <2> QED BY <2>2, <2>3
<1>6. Append(s, a + n + 1) = z BY <1>3, <1>4, <1>5, SeqEqual
<1> QED BY <1>1, <1>2, <1>3, <1>6

\* The bytes as data tokens.
LEMMA DataAre ==
    ASSUME NEW a \in Nat, NEW n \in Nat
    PROVE  /\ Data(Bytes(a + 1, a + n)) \in Seq(Toks) /\ Len(Data(Bytes(a + 1, a + n))) = n
           /\ \A i \in 1 .. n : Data(Bytes(a + 1, a + n))[i] = Tok("data", a + i)
<1>1. Bytes(a + 1, a + n) = [i \in 1 .. n |-> a + i] BY BytesAre
<1>2. Data(Bytes(a + 1, a + n)) = [i \in 1 .. n |-> Tok("data", a + i)] BY <1>1 DEF Data
<1>3. [i \in 1 .. n |-> Tok("data", a + i)] \in [1 .. n -> Toks] BY DEF Tok, Toks
<1>4. PICK d \in Seq(Toks) : d = [i \in 1 .. n |-> Tok("data", a + i)] BY <1>3, SeqDef, ZenonT(60)
<1>5. Len(d) = n BY <1>4
<1> QED BY <1>2, <1>4, <1>5

\* A chunk of n bytes behind the first a.
LEMMA RunsChunk ==
    ASSUME NEW a \in Nat, NEW n \in Nat \ {0}
    PROVE  LET b == Bytes(a + 1, a + n)
               w == <<Tok("size", Len(b))>> \o Data(b) \o <<Tok("eol", 0)>>
           IN w \in Seq(Toks) /\ Runs(w, Mark("SIZE", 0, a), Mark("SIZE", 0, a + n), ht_size)
<1>1. Len(Bytes(a + 1, a + n)) = n BY BytesAre
<1>2. PICK d \in Seq(Toks) : d = Data(Bytes(a + 1, a + n)) BY DataAre
<1>3. Len(d) = n /\ \A i \in 1 .. n : d[i] = Tok("data", a + i) BY <1>2, DataAre
<1>4. PICK s \in Toks : s = Tok("size", n) BY DEF Toks, Tok
<1>5. PICK e \in Toks : e = Tok("eol", 0) BY DEF Toks, Tok
<1>6. PICK sd \in Seq(Toks) : sd = <<s>> \o d
  <2>1. <<s>> \in Seq(Toks) OBVIOUS
  <2> QED BY <2>1, ConcatProperties
<1>7. PICK w \in Seq(Toks) : w = sd \o <<e>>
  <2>1. <<e>> \in Seq(Toks) OBVIOUS
  <2> QED BY <2>1, ConcatProperties
<1>8. /\ Len(sd) = n + 1 /\ sd[1] = s /\ \A i \in 2 .. n + 1 : sd[i] = d[i - 1]
  <2>1. <<s>> \in Seq(Toks) /\ Len(<<s>>) = 1 /\ <<s>>[1] = s OBVIOUS
  <2>2. /\ Len(sd) = 1 + n
        /\ \A i \in 1 .. 1 + n : sd[i] = IF i <= 1 THEN <<s>>[i] ELSE d[i - 1]
    BY <1>3, <1>6, <2>1, ConcatProperties
  <2> QED BY <2>1, <2>2
<1>9. /\ Len(w) = n + 2 /\ w[n + 2] = e /\ \A i \in 1 .. n + 1 : w[i] = sd[i]
  <2>1. <<e>> \in Seq(Toks) /\ Len(<<e>>) = 1 /\ <<e>>[1] = e OBVIOUS
  <2>2. /\ Len(w) = n + 1 + 1
        /\ \A i \in 1 .. n + 1 + 1 : w[i] = IF i <= n + 1 THEN sd[i] ELSE <<e>>[i - (n + 1)]
    BY <1>7, <1>8, <2>1, ConcatProperties
  <2> QED BY <2>1, <2>2
<1> DEFINE P == [i \in 1 .. n + 3 |->
                   IF i = 1 THEN Mark("SIZE", 0, a)
                   ELSE IF i <= n + 1 THEN Mark("DATA", n - (i - 2), a + (i - 2))
                   ELSE IF i = n + 2 THEN Mark("CRLF", 0, a + n) ELSE Mark("SIZE", 0, a + n)]
<1>10. P \in [1 .. n + 3 -> Marks] BY DEF Marks, Mark
<1>11. P[1] = Mark("SIZE", 0, a) /\ P[n + 3] = Mark("SIZE", 0, a + n) OBVIOUS
<1>12. ASSUME NEW i \in 1 .. n + 2 PROVE Expected(P[i], w[i], ht_size) /\ P[i + 1] = After(P[i], w[i])
  <2>1. CASE i = 1
    <3>1. w[i] = Tok("size", n) /\ P[i] = Mark("SIZE", 0, a) /\ P[i + 1] = Mark("DATA", n, a)
      BY <1>4, <1>8, <1>9, <2>1
    <3> HIDE DEF P
    <3> QED BY <3>1 DEF Expected, After, Mark, Tok
  <2>2. CASE i \in 2 .. n + 1
    <3>1. PICK j \in 1 .. n : i = j + 1 BY <2>2
    <3>2. w[i] = Tok("data", a + j) BY <1>3, <1>8, <1>9, <2>2, <3>1
    <3>3. P[i] = Mark("DATA", n - (j - 1), a + (j - 1)) BY <2>2, <3>1
    <3>4. Expected(P[i], w[i], ht_size)
      <4> HIDE DEF P
      <4> QED BY <3>2, <3>3 DEF Expected, Mark, Tok
    <3>5. CASE j = n
      <4>1. P[i + 1] = Mark("CRLF", 0, a + n) BY <3>1, <3>5
      <4> HIDE DEF P
      <4> QED BY <3>2, <3>3, <3>4, <3>5, <4>1 DEF After, Mark, Tok
    <3>6. CASE j # n
      <4>1. P[i + 1] = Mark("DATA", n - j, a + j) BY <3>1, <3>6
      <4> HIDE DEF P
      <4> QED BY <3>2, <3>3, <3>4, <3>6, <4>1 DEF After, Mark, Tok
    <3> QED BY <3>5, <3>6
  <2>3. CASE i = n + 2
    <3>1. w[i] = Tok("eol", 0) /\ P[i] = Mark("CRLF", 0, a + n) /\ P[i + 1] = Mark("SIZE", 0, a + n)
      BY <1>5, <1>9, <2>3
    <3> HIDE DEF P
    <3> QED BY <3>1 DEF Expected, After, Mark, Tok
  <2> HIDE DEF P
  <2> QED BY <2>1, <2>2, <2>3
<1> HIDE DEF P
<1>13. Runs(w, Mark("SIZE", 0, a), Mark("SIZE", 0, a + n), ht_size)
  <2>1. n + 2 = Len(w) /\ (n + 2) + 1 = n + 3 BY <1>9
  <2> QED BY <1>10, <1>11, <1>12, <2>1 DEF Runs
<1> QED BY <1>1, <1>2, <1>4, <1>5, <1>6, <1>7, <1>13

\* A part of the bytes.
LEMMA BytesCut ==
    ASSUME NEW a \in Nat, NEW n \in Nat, NEW x \in 0 .. n, NEW y \in x .. n
    PROVE  SubSeq(Bytes(a + 1, a + n), x + 1, y) = Bytes(a + x + 1, a + y)
<1>1. PICK b \in Seq(Nat) : b = Bytes(a + 1, a + n) /\ Len(b) = n /\ b = [i \in 1 .. n |-> a + i] BY BytesAre
<1>2. \A i \in 1 .. n : b[i] = a + i BY <1>1
<1>3. PICK d \in Nat, z \in Nat : d = a + x /\ z = y - x /\ d + z = a + y OBVIOUS
<1>4. PICK c \in Seq(Nat) : c = Bytes(d + 1, d + z) /\ Len(c) = z /\ c = [i \in 1 .. z |-> d + i] BY BytesAre
<1>5. \A i \in x + 1 .. y : b[i] \in Nat BY <1>2
<1>6. PICK p \in Int : p = x + 1 OBVIOUS
<1>7. PICK e \in Seq(Nat) :
         /\ e = SubSeq(b, x + 1, y) /\ Len(e) = (IF x + 1 <= y THEN y - (x + 1) + 1 ELSE 0)
         /\ \A i \in 1 .. y - (x + 1) + 1 : e[i] = b[x + 1 + i - 1]
  <2>1. \A i \in p .. y : b[i] \in Nat BY <1>5, <1>6
  <2>2. y \in Int OBVIOUS
  <2>3. /\ SubSeq(b, p, y) \in Seq(Nat) /\ Len(SubSeq(b, p, y)) = (IF p <= y THEN y - p + 1 ELSE 0)
        /\ \A i \in 1 .. y - p + 1 : SubSeq(b, p, y)[i] = b[p + i - 1]
    BY <2>1, <2>2, SubSeqProperties
  <2> QED BY <1>6, <2>3
<1>8. Len(e) = z BY <1>3, <1>7, SMTT(40)
<1>9. ASSUME NEW i \in 1 .. z PROVE e[i] = c[i]
  <2>1. i \in 1 .. y - (x + 1) + 1 /\ x + 1 + i - 1 = x + i /\ x + i \in 1 .. n BY <1>3
  <2>2. e[i] = a + (x + i) BY <1>2, <1>7, <2>1
  <2>3. c[i] = d + i BY <1>4
  <2> QED BY <1>3, <2>2, <2>3
<1>10. e = c BY <1>4, <1>8, <1>9, SeqEqual
<1> QED BY <1>1, <1>3, <1>4, <1>7, <1>10

\* Nothing is a run, and so is the last chunk behind the last byte.
LEMMA RunsEnds ==
    ASSUME ht_size \in Nat
    PROVE  /\ \A p \in Marks : Runs(<<>>, p, p, ht_size)
           /\ Runs(<<Tok("size", 0)>>, Mark("SIZE", 0, ht_size), Mark("DONE", 0, ht_size), ht_size)
           /\ <<Tok("size", 0)>> \in Seq(Toks)
<1>1. ASSUME NEW p \in Marks PROVE Runs(<<>>, p, p, ht_size)
  <2>1. Len(<<>>) = 0 OBVIOUS
  <2> DEFINE P == [i \in 1 .. 1 |-> p]
  <2>2. P \in [1 .. 0 + 1 -> Marks] /\ P[1] = p /\ P[0 + 1] = p OBVIOUS
  <2> HIDE DEF P
  <2> QED BY <2>1, <2>2 DEF Runs
<1>2. PICK t \in Toks : t = Tok("size", 0) BY DEF Toks, Tok
<1>3. Len(<<t>>) = 1 /\ <<t>>[1] = t /\ <<t>> \in Seq(Toks) OBVIOUS
<1>4. PICK p \in Marks, q \in Marks : p = Mark("SIZE", 0, ht_size) /\ q = Mark("DONE", 0, ht_size)
  BY DEF Marks, Mark
<1>5. Expected(p, t, ht_size) /\ q = After(p, t) BY <1>2, <1>4 DEF Expected, After, Mark, Tok
<1> DEFINE P == [i \in 1 .. 1 + 1 |-> IF i = 1 THEN p ELSE q]
<1>6. P \in [1 .. 1 + 1 -> Marks] /\ P[1] = p /\ P[1 + 1] = q OBVIOUS
<1> HIDE DEF P
<1>7. \A i \in 1 .. 1 : Expected(P[i], <<t>>[i], ht_size) /\ P[i + 1] = After(P[i], <<t>>[i]) BY <1>3, <1>5, <1>6
<1>8. Runs(<<t>>, p, q, ht_size) BY <1>3, <1>6, <1>7 DEF Runs
<1> QED BY <1>1, <1>2, <1>3, <1>4, <1>8

\* A chunked body is a run to the end of the resource.
LEMMA RunsChunks ==
    ASSUME ht_size \in Nat, NEW a \in 0 .. ht_size, NEW k \in 1 .. 2
    PROVE  LET w == Chunks(Bytes(a + 1, ht_size), k)
           IN w \in Seq(Toks) /\ Runs(w, Mark("SIZE", 0, a), Mark("DONE", 0, ht_size), ht_size)
<1>0. a \in Nat OBVIOUS
<1>1. PICK n \in Nat : ht_size = a + n OBVIOUS
<1>2. PICK b : b = Bytes(a + 1, a + n) /\ Len(b) = n BY <1>0, BytesAre
<1>3. PICK c \in 0 .. n : c = IF k < Len(b) THEN k ELSE Len(b) BY <1>2
<1> DEFINE One(x) == <<Tok("size", Len(x))>> \o Data(x) \o <<Tok("eol", 0)>>
           A == IF c > 0 THEN One(SubSeq(b, 1, c)) ELSE <<>>
           B == IF c < Len(b) THEN One(SubSeq(b, c + 1, Len(b))) ELSE <<>>
<1>4. Chunks(b, k) = A \o B \o <<Tok("size", 0)>> BY <1>3 DEF Chunks
<1>5. \A d \in Nat, m \in Nat \ {0} :
         One(Bytes(d + 1, d + m)) \in Seq(Toks)
         /\ Runs(One(Bytes(d + 1, d + m)), Mark("SIZE", 0, d), Mark("SIZE", 0, d + m), ht_size)
  BY RunsChunk
<1>6. SubSeq(b, 1, c) = Bytes(a + 1, a + c)
  <2>1. PICK o \in 0 .. n : o = 0 OBVIOUS
  <2>2. c \in o .. n BY <2>1
  <2>3. SubSeq(Bytes(a + 1, a + n), o + 1, c) = Bytes(a + o + 1, a + c) BY <1>0, <2>2, BytesCut
  <2>4. o + 1 = 1 /\ a + o + 1 = a + 1 BY <1>0, <2>1
  <2> QED BY <1>2, <2>3, <2>4
<1>7. PICK e \in Nat, m \in Nat : e = a + c /\ m = n - c /\ e + m = a + n BY <1>3
<1>8. SubSeq(b, c + 1, Len(b)) = Bytes(e + 1, e + m)
  <2>1. n \in c .. n OBVIOUS
  <2>2. SubSeq(Bytes(a + 1, a + n), c + 1, n) = Bytes(a + c + 1, a + n) BY <1>0, <2>1, BytesCut
  <2> QED BY <1>2, <1>7, <2>2
<1> HIDE DEF One
<1>9. \A x \in Nat : Mark("SIZE", 0, x) \in Marks BY DEF Marks, Mark
<1>10. A \in Seq(Toks) /\ Runs(A, Mark("SIZE", 0, a), Mark("SIZE", 0, e), ht_size)
  <2>1. CASE c > 0
    <3>0. c \in Nat \ {0} BY <2>1
    <3>1. A = One(Bytes(a + 1, a + c)) BY <1>6, <2>1 DEF One
    <3> HIDE DEF A
    <3> QED BY <1>0, <1>5, <1>7, <3>0, <3>1
  <2>2. CASE ~(c > 0)
    <3>1. A = <<>> /\ e = a BY <1>7, <2>2
    <3> HIDE DEF A
    <3> QED BY <1>9, <3>1, RunsEnds
  <2> QED BY <2>1, <2>2
<1>11. B \in Seq(Toks) /\ Runs(B, Mark("SIZE", 0, e), Mark("SIZE", 0, ht_size), ht_size)
  <2>1. CASE c < n
    <3>0. m \in Nat \ {0} BY <1>7, <2>1
    <3>1. B = One(Bytes(e + 1, e + m)) BY <1>2, <1>8, <2>1 DEF One
    <3> HIDE DEF B
    <3> QED BY <1>1, <1>5, <1>7, <3>0, <3>1
  <2>2. CASE ~(c < n)
    <3>1. B = <<>> /\ e = ht_size BY <1>1, <1>2, <1>7, <2>2
    <3> HIDE DEF B
    <3> QED BY <1>9, <3>1, RunsEnds
  <2> QED BY <2>1, <2>2
<1> HIDE DEF A, B
<1>12. A \o B \in Seq(Toks) /\ Runs(A \o B, Mark("SIZE", 0, a), Mark("SIZE", 0, ht_size), ht_size)
  BY <1>10, <1>11, RunsJoin, ConcatProperties
<1>13. PICK z \in Seq(Toks) : z = <<Tok("size", 0)>> /\ Runs(z, Mark("SIZE", 0, ht_size), Mark("DONE", 0, ht_size), ht_size)
  BY RunsEnds
<1>14. PICK ab \in Seq(Toks) : ab = A \o B BY <1>12
<1>15. ab \o z \in Seq(Toks) /\ Runs(ab \o z, Mark("SIZE", 0, a), Mark("DONE", 0, ht_size), ht_size)
  BY <1>12, <1>13, <1>14, RunsJoin, ConcatProperties
<1> QED BY <1>1, <1>2, <1>4, <1>13, <1>14, <1>15

\* The int32_t of a count is not above the count.
LEMMA Int32Below ==
    ASSUME HtWrap \in Nat \ {0}, NEW n \in Nat
    PROVE  Int32(n) \in Int /\ Int32(n) <= n
<1>1. n \div HtWrap \in Int /\ n % HtWrap \in 0 .. HtWrap - 1 /\ n = HtWrap * (n \div HtWrap) + (n % HtWrap)
  BY DivMod
<1>2. PICK v \in Nat, q \in Int : v = n % HtWrap /\ v < HtWrap /\ n = HtWrap * q + v
  <2> DEFINE v == n % HtWrap
             q == n \div HtWrap
  <2>1. v \in 0 .. HtWrap - 1 /\ q \in Int /\ n = HtWrap * q + v BY <1>1
  <2> HIDE DEF q
  <2>2. v = n % HtWrap OBVIOUS
  <2> HIDE DEF v
  <2>3. v \in Nat /\ v < HtWrap BY <2>1
  <2> QED BY <2>1, <2>2, <2>3
<1>3. q >= 0
  <2> SUFFICES ASSUME q <= -1 PROVE FALSE BY <1>2
  <2>1. HtWrap * q <= HtWrap * (-1) OBVIOUS
  <2> QED BY <1>2, <2>1
<1>4. HtWrap * q >= 0 BY <1>3
<1>5. v <= n BY <1>2, <1>4
<1> QED BY <1>2, <1>5 DEF Int32

\* The byte before the first one in the file.
Base == IF status_code = 206 /\ resp_start = 0 THEN resume_offset ELSE 0

\* While the body of an answer that carries the resource comes in, the file holds
\* the bytes up to the one that is expected next, and the rest of the answer
\* follows.
InBody ==
    /\ ht_file = Bytes(Base + 1, Base + total_written) /\ framing \in {"length", "chunked", "close"}
    /\ Base + resp_start = (IF status_code = 206 THEN resume_offset ELSE 0)
    /\ framing = "chunked" =>
         /\ chunk.state = "DONE" => Base + total_written = ht_size
         /\ \E q : Runs(ht_wire, Mark(chunk.state, chunk.rem, Base + total_written), q, ht_size)
    /\ framing # "chunked" =>
         /\ resp_start <= total_written /\ Base + total_written + Len(ht_wire) <= ht_size
         /\ \A i \in 1 .. Len(ht_wire) : ht_wire[i] = Tok("data", Base + total_written + i)
         /\ framing = "length" => content_length \in Int
         /\ framing = "close" /\ ht_fin = "eof" => Base + total_written + Len(ht_wire) = ht_size

\* And while another answer comes in, there is nothing of it.
Foreign ==
    /\ framing # "chunked" /\ \A i \in 1 .. Len(ht_wire) : ht_wire[i] = Tok("data", 0)
    /\ ht_file \in Seq({0})

\* Before the answer the file is a beginning of the resource, and CONTINUE counts
\* all of it.
HtInv ==
    /\ ht_size \in Nat /\ resume_offset \in Nat /\ resp_start \in Nat /\ total_written \in Nat
    /\ ht_pc = "body" => ht_wire \in Seq(Toks)
    /\ ht_pc \in {"start", "request", "headers"} =>
         /\ resp_start = 0 /\ total_written = 0
         /\ \E k \in Nat : ht_file = Bytes(1, k) /\ resume_offset \in {0, k}
    /\ ht_pc = "body" /\ status_code \in {200, 206} => InBody
    /\ ht_pc = "body" /\ status_code \notin {200, 206} => Foreign
    /\ SuccessMeansWhole

\* The invariant at the start.
LEMMA HtStarts == ASSUME HtAssumption PROVE HtInit => HtInv
<1> SUFFICES ASSUME HtInit PROVE HtInv OBVIOUS
<1>1. ht_size \in Nat /\ ht_pc = "start" /\ resume_offset = 0 /\ resp_start = 0 /\ total_written = 0
      /\ ht_wire = <<>>
  BY DEF HtInit, HtAssumption
<1>2. PICK k \in 0 .. ht_size : ht_file = Bytes(1, k) BY DEF HtInit
<1>3. k \in Nat /\ <<>> \in Seq(Toks) BY <1>1
<1> QED BY <1>1, <1>2, <1>3 DEF HtInv, SuccessMeansWhole

\* One token through the parser is one step of a run.
LEMMA Fed ==
    ASSUME ChunkMax \in Nat, NEW c, NEW t \in Toks, NEW n \in Nat,
           Mark(c.state, c.rem, n) \in Marks, Expected(Mark(c.state, c.rem, n), t, ht_size),
           tn_chunk_feed(c, t).state # "ERROR"
    PROVE  LET d == tn_chunk_feed(c, t)
               m == IF c.state = "DATA" THEN n + 1 ELSE n
           IN /\ After(Mark(c.state, c.rem, n), t) = Mark(d.state, d.rem, m)
              /\ d.state = "DONE" => m = ht_size
              /\ c.state = "DATA" => t.v = n + 1
<1>1. c.state \in {"SIZE", "DATA", "CRLF", "DONE"} /\ c.rem \in Nat BY DEF Mark, Marks
<1>2. PICK d : d = tn_chunk_feed(c, t) OBVIOUS
<1>3. CASE c.state = "SIZE"
  <2>1. t.kind = "size" /\ t.v \in Nat /\ (t.v = 0 => n = ht_size) BY <1>3 DEF Expected, Mark, Toks
  <2>2. d = IF t.v > ChunkMax THEN Chunk("ERROR", 0)
            ELSE IF t.v = 0 THEN Chunk("DONE", 0) ELSE Chunk("DATA", t.v)
    BY <1>2, <1>3, <2>1 DEF tn_chunk_feed
  <2>3. d = IF t.v = 0 THEN Chunk("DONE", 0) ELSE Chunk("DATA", t.v) BY <1>2, <2>2 DEF Chunk
  <2>4. After(Mark(c.state, c.rem, n), t) = IF t.v = 0 THEN Mark("DONE", 0, n) ELSE Mark("DATA", t.v, n)
    BY <1>3 DEF After, Mark
  <2> QED BY <1>2, <1>3, <2>1, <2>3, <2>4 DEF Chunk, Mark
<1>4. CASE c.state = "DATA"
  <2>1. t.v = n + 1 /\ c.rem > 0 BY <1>4 DEF Expected, Mark
  <2>2. d = IF c.rem = 1 THEN Chunk("CRLF", 0) ELSE Chunk("DATA", c.rem - 1) BY <1>2, <1>4 DEF tn_chunk_feed
  <2>3. After(Mark(c.state, c.rem, n), t)
          = IF c.rem = 1 THEN Mark("CRLF", 0, n + 1) ELSE Mark("DATA", c.rem - 1, n + 1)
    BY <1>4 DEF After, Mark
  <2> QED BY <1>2, <1>4, <2>1, <2>2, <2>3 DEF Chunk, Mark
<1>5. CASE c.state = "CRLF"
  <2>1. t.kind = "eol" BY <1>5 DEF Expected, Mark
  <2>2. d = Chunk("SIZE", 0) BY <1>2, <1>5, <2>1 DEF tn_chunk_feed
  <2>3. After(Mark(c.state, c.rem, n), t) = Mark("SIZE", 0, n) BY <1>5 DEF After, Mark
  <2> QED BY <1>2, <1>5, <2>2, <2>3 DEF Chunk, Mark
<1>6. CASE c.state = "DONE" BY <1>6 DEF Expected, Mark
<1> QED BY <1>1, <1>3, <1>4, <1>5, <1>6

\* The answer to the request, in the file that is opened for it: in chunks,
LEMMA HtAnsweredChunks ==
    ASSUME ht_size \in Nat, UNCHANGED ht_size, NEW a \in 0 .. ht_size, NEW k \in 1 .. 2,
           NEW cut \in 0 .. Len(Chunks(Bytes(a + 1, ht_size), k)),
           ht_wire' = SubSeq(Chunks(Bytes(a + 1, ht_size), k), 1, cut),
           framing' = "chunked", chunk' = [state |-> "SIZE", rem |-> 0],
           Base' + total_written' = a, ht_file' = Bytes(Base' + 1, a),
           Base' + resp_start' = (IF status_code' = 206 THEN resume_offset' ELSE 0)
    PROVE  ht_wire' \in Seq(Toks) /\ InBody'
<1>1. PICK w \in Seq(Toks) : /\ w = Chunks(Bytes(a + 1, ht_size), k)
                             /\ Runs(w, Mark("SIZE", 0, a), Mark("DONE", 0, ht_size), ht_size)
  BY RunsChunks
<1>2. cut \in 0 .. Len(w) /\ ht_wire' = SubSeq(w, 1, cut) BY <1>1
<1>3. PICK q : Runs(SubSeq(w, 1, cut), Mark("SIZE", 0, a), q, ht_size) BY <1>1, <1>2, RunsCut
<1>4. SubSeq(w, 1, cut) \in Seq(Toks)
  <2>1. \A i \in 1 .. cut : w[i] \in Toks BY <1>2
  <2>2. 1 \in Int /\ cut \in Int BY <1>2
  <2> QED BY <2>1, <2>2, SubSeqProperties
<1>5. chunk'.state = "SIZE" /\ chunk'.rem = 0 OBVIOUS
<1> QED BY <1>2, <1>3, <1>4, <1>5 DEF InBody

\* or as it is.
LEMMA HtAnsweredPlain ==
    ASSUME ht_size \in Nat, UNCHANGED ht_size, NEW a \in 0 .. ht_size, NEW frame \in {"length", "close"},
           NEW cut \in 0 .. Len(Data(Bytes(a + 1, ht_size))),
           ht_wire' = SubSeq(Data(Bytes(a + 1, ht_size)), 1, cut),
           ht_fin' \in IF frame = "close" /\ cut < Len(Data(Bytes(a + 1, ht_size)))
                       THEN {"error"} ELSE {"eof", "error"},
           framing' = frame, frame = "length" => content_length' \in Int,
           Base' + total_written' = a, ht_file' = Bytes(Base' + 1, a), resp_start' <= total_written',
           Base' + resp_start' = (IF status_code' = 206 THEN resume_offset' ELSE 0)
    PROVE  ht_wire' \in Seq(Toks) /\ InBody'
<1>0. a \in Nat OBVIOUS
<1>1. PICK n \in Nat : ht_size = a + n OBVIOUS
<1>2. PICK w \in Seq(Toks) : /\ w = Data(Bytes(a + 1, ht_size)) /\ Len(w) = n
                             /\ \A i \in 1 .. n : w[i] = Tok("data", a + i)
  <2>1. Data(Bytes(a + 1, a + n)) \in Seq(Toks) BY <1>0, DataAre
  <2>2. Len(Data(Bytes(a + 1, a + n))) = n BY <1>0, DataAre
  <2>3. \A i \in 1 .. n : Data(Bytes(a + 1, a + n))[i] = Tok("data", a + i) BY <1>0, DataAre
  <2> QED BY <1>1, <2>1, <2>2, <2>3
<1>3. cut \in 0 .. n /\ (frame = "close" /\ ht_fin' = "eof" => cut = n) BY <1>2
<1>4. /\ SubSeq(w, 1, cut) \in Seq(Toks) /\ Len(SubSeq(w, 1, cut)) = cut
      /\ \A i \in 1 .. cut : SubSeq(w, 1, cut)[i] = w[i]
  <2>1. \A i \in 1 .. cut : w[i] \in Toks BY <1>2, <1>3
  <2>2. 1 \in Int /\ cut \in Int BY <1>3
  <2> QED BY <1>3, <2>1, <2>2, SubSeqProperties
<1>5. PICK v \in Seq(Toks) : v = ht_wire' /\ Len(v) = cut /\ \A i \in 1 .. cut : v[i] = Tok("data", a + i)
  <2>1. ht_wire' = SubSeq(w, 1, cut) BY <1>2
  <2>2. PICK v \in Seq(Toks) : v = SubSeq(w, 1, cut) /\ Len(v) = cut /\ \A i \in 1 .. cut : v[i] = w[i] BY <1>4
  <2>3. \A i \in 1 .. cut : v[i] = Tok("data", a + i) BY <1>2, <1>3, <2>2
  <2> QED BY <2>1, <2>2, <2>3
<1>6. \A i \in 1 .. Len(ht_wire') : ht_wire'[i] = Tok("data", Base' + total_written' + i) BY <1>5
<1>7. a + Len(ht_wire') <= ht_size' BY <1>0, <1>1, <1>3, <1>5
<1>8. framing' = "close" /\ ht_fin' = "eof" => a + Len(ht_wire') = ht_size'
  BY <1>0, <1>1, <1>3, <1>5
<1> QED BY <1>5, <1>6, <1>7, <1>8 DEF InBody

\* So the answer to a request for all but the first a bytes.
LEMMA HtAnswered ==
    ASSUME HtAssumption, HtInv, UNCHANGED ht_size, NEW a \in 0 .. ht_size, NEW code \in {200, 206},
           HttpAnswers(code, a + 1),
           Base' + total_written' = a, ht_file' = Bytes(Base' + 1, a), resp_start' <= total_written',
           Base' + resp_start' = (IF status_code' = 206 THEN resume_offset' ELSE 0)
    PROVE  ht_wire' \in Seq(Toks) /\ InBody'
<1>0. ht_size \in Nat BY DEF HtInv
<1>1. PICK frame \in {"length", "chunked", "close"}, k \in 1 .. 2 :
         LET bytes == Bytes(a + 1, ht_size)
             body == IF frame = "chunked" THEN Chunks(bytes, k) ELSE Data(bytes)
         IN /\ framing' = frame
            /\ content_length' = IF frame = "length" THEN Int32(Len(bytes)) ELSE 0
            /\ \E cut \in 0 .. Len(body) :
                 /\ ht_wire' = SubSeq(body, 1, cut)
                 /\ ht_fin' \in IF frame = "close" /\ cut < Len(body) THEN {"error"} ELSE {"eof", "error"}
            /\ chunk' = [state |-> "SIZE", rem |-> 0]
  BY DEF HttpAnswers
<1>2. CASE frame = "chunked"
  <2>1. PICK cut \in 0 .. Len(Chunks(Bytes(a + 1, ht_size), k)) :
           ht_wire' = SubSeq(Chunks(Bytes(a + 1, ht_size), k), 1, cut)
    BY <1>1, <1>2
  <2> QED BY <1>0, <1>1, <1>2, <2>1, HtAnsweredChunks
<1>3. CASE frame # "chunked"
  <2>1. PICK cut \in 0 .. Len(Data(Bytes(a + 1, ht_size))) :
           /\ ht_wire' = SubSeq(Data(Bytes(a + 1, ht_size)), 1, cut)
           /\ ht_fin' \in IF frame = "close" /\ cut < Len(Data(Bytes(a + 1, ht_size)))
                          THEN {"error"} ELSE {"eof", "error"}
    BY <1>1, <1>3
  <2>2. frame \in {"length", "close"} /\ framing' = frame BY <1>1, <1>3
  <2>3. frame = "length" => content_length' \in Int
    <3>1. PICK n \in Nat : ht_size = a + n BY <1>0
    <3>2. Len(Bytes(a + 1, ht_size)) \in Nat
      <4>1. a \in Nat BY <1>0
      <4>2. Len(Bytes(a + 1, a + n)) = n BY <4>1, BytesAre
      <4> QED BY <3>1, <4>2
    <3>3. Int32(Len(Bytes(a + 1, ht_size))) \in Int BY <3>2, Int32Below DEF HtAssumption
    <3> QED BY <1>1, <3>3
  <2> QED BY <1>0, <2>1, <2>2, <2>3, HtAnsweredPlain
<1> QED BY <1>2, <1>3

\* An answer that carries nothing of the resource, in a file opened as a new one.
LEMMA HtAnsweredOther ==
    ASSUME NEW n \in 0 .. 1, ht_wire' = [i \in 1 .. n |-> Tok("data", 0)], framing' # "chunked", ht_file' = <<>>
    PROVE  ht_wire' \in Seq(Toks) /\ Foreign'
<1>1. [i \in 1 .. n |-> Tok("data", 0)] \in [1 .. n -> Toks] BY DEF Tok, Toks
<1>2. PICK w \in Seq(Toks) : w = [i \in 1 .. n |-> Tok("data", 0)]
  <2>1. n \in Nat OBVIOUS
  <2> QED BY <1>1, <2>1, SeqDef, ZenonT(60)
<1>3. Len(w) = n BY <1>2
<1>4. \A i \in 1 .. Len(ht_wire') : ht_wire'[i] = Tok("data", 0) BY <1>2, <1>3
<1>5. <<>> \in Seq({0}) OBVIOUS
<1> QED BY <1>2, <1>4, <1>5 DEF Foreign

\* The chunk size that is refused, as a body.
LEMMA HtAnsweredBig ==
    ASSUME ht_size' \in Nat, ChunkMax \in Nat, status_code' = 200, resp_start' = 0, total_written' = 0,
           ht_file' = <<>>, framing' = "chunked", ht_wire' = <<Tok("size", ChunkMax + 1)>>,
           chunk' = [state |-> "SIZE", rem |-> 0]
    PROVE  ht_wire' \in Seq(Toks) /\ InBody'
<1>0. PICK m \in Nat : m = ChunkMax + 1 OBVIOUS
<1>1. PICK t \in Toks : t = Tok("size", m) BY DEF Toks, Tok
<1>2. Len(<<t>>) = 1 /\ <<t>>[1] = t /\ <<t>> \in Seq(Toks) OBVIOUS
<1>3. PICK p \in Marks, q \in Marks : p = Mark("SIZE", 0, 0) /\ q = Mark("DATA", m, 0)
  BY DEF Marks, Mark
<1>4. Expected(p, t, ht_size') /\ q = After(p, t) BY <1>0, <1>1, <1>3 DEF Expected, After, Mark, Tok
<1> DEFINE P == [i \in 1 .. 1 + 1 |-> IF i = 1 THEN p ELSE q]
<1>5. P \in [1 .. 1 + 1 -> Marks] /\ P[1] = p /\ P[1 + 1] = q OBVIOUS
<1> HIDE DEF P
<1>6. \A i \in 1 .. 1 : Expected(P[i], <<t>>[i], ht_size') /\ P[i + 1] = After(P[i], <<t>>[i])
  BY <1>2, <1>4, <1>5
<1>7. Runs(<<t>>, p, q, ht_size') BY <1>2, <1>5, <1>6 DEF Runs
<1>8. chunk'.state = "SIZE" /\ chunk'.rem = 0 /\ ht_wire' = <<t>> BY <1>0, <1>1
<1>9. Base' = 0 BY DEF Base
<1>10. ht_file' = Bytes(0 + 1, 0 + 0)
  <2>1. Bytes(0 + 1, 0 + 0) = [i \in 1 .. 0 |-> 0 + i] BY BytesAre
  <2> QED BY <2>1
<1> QED BY <1>2, <1>3, <1>7, <1>8, <1>9, <1>10 DEF InBody

\* The response headers.
LEMMA HtKeepsHeaders == ASSUME HtAssumption, HtInv, Headers PROVE HtInv'
<1>0. /\ ht_pc = "headers" /\ ht_size' = ht_size /\ ht_size \in Nat /\ resume_offset \in Nat
      /\ resp_start = 0 /\ total_written = 0 /\ ChunkMax \in Nat
  BY DEF HtInv, Headers, HtAssumption
<1>1. PICK k \in Nat : ht_file = Bytes(1, k) /\ resume_offset \in {0, k} BY <1>0 DEF HtInv
<1>2. ASSUME ExitsWith(20), UNCHANGED counts PROVE HtInv'
  BY <1>0, <1>2 DEF HtInv, SuccessMeansWhole, counts, ExitsWith
<1>3. CASE ExitsWith(20) /\ UNCHANGED <<ht_url, redirect_count, counts, ht_file, response>> BY <1>2, <1>3
<1>4. CASE Redirected /\ UNCHANGED <<counts, ht_file, response>>
  <2>1. CASE ExitsWith(20) BY <1>2, <1>4, <2>1
  <2>2. CASE ht_pc' = "request" BY <1>0, <1>1, <1>4, <2>2 DEF HtInv, SuccessMeansWhole, counts
  <2> QED BY <1>4, <2>1, <2>2 DEF Redirected
<1>5. \A b \in Nat : Bytes(b + 1, b) = <<>> /\ Bytes(b + 1, b + 0) = <<>> BY DEF Bytes
<1>6. ASSUME ht_pc' = "body", resume_offset' \in Nat, resp_start' \in Nat, total_written' \in Nat,
             ht_wire' \in Seq(Toks), status_code' \in {200, 206} => InBody',
             status_code' \notin {200, 206} => Foreign'
      PROVE  HtInv'
  BY <1>0, <1>6 DEF HtInv, SuccessMeansWhole
<1>7. CASE HttpAnswers(200, 1) /\ OpenOutput(200)
  <2>1. PICK a \in 0 .. ht_size : a = 0 /\ a + 1 = 1 BY <1>0
  <2>2. HttpAnswers(200, a + 1) /\ status_code' = 200
    <3>1. HttpAnswers(200, 1) => status_code' = 200 BY DEF HttpAnswers
    <3> QED BY <1>7, <2>1, <3>1
  <2>3. CASE ht_file' = <<>> /\ total_written' = 0 /\ ht_pc' = "body" /\ UNCHANGED <<resume_offset, resp_start>>
    <3>1. Base' = 0 BY <2>2 DEF Base
    <3>2. /\ Base' + total_written' = a /\ ht_file' = Bytes(Base' + 1, a) /\ resp_start' <= total_written'
          /\ Base' + resp_start' = (IF status_code' = 206 THEN resume_offset' ELSE 0)
      BY <1>0, <1>5, <2>1, <2>2, <2>3, <3>1
    <3>3. ht_wire' \in Seq(Toks) /\ InBody' BY <1>0, <2>2, <3>2, HtAnswered
    <3> QED BY <1>0, <1>6, <2>2, <2>3, <3>3
  <2>4. CASE ExitsWith(20) /\ UNCHANGED <<ht_file, counts>> BY <1>2, <2>4
  <2> QED BY <1>7, <2>3, <2>4 DEF OpenOutput
<1>8. CASE /\ resume_offset > 0 /\ resume_offset < ht_size
           /\ HttpAnswers(206, resume_offset + 1) /\ OpenOutput(206)
  <2>1. PICK a \in 0 .. ht_size : a = resume_offset BY <1>0, <1>8
  <2>2. HttpAnswers(206, a + 1) /\ ht_file = Bytes(1, a) /\ status_code' = 206
    <3>1. HttpAnswers(206, resume_offset + 1) => status_code' = 206 BY DEF HttpAnswers
    <3> QED BY <1>0, <1>1, <1>8, <2>1, <3>1
  <2>3. CASE /\ resp_start' = resume_offset /\ total_written' = resume_offset
             /\ ht_pc' = "body" /\ UNCHANGED <<ht_file, resume_offset>>
    <3>1. Base' = 0 BY <1>0, <1>8, <2>3 DEF Base
    <3>2. /\ Base' + total_written' = a /\ ht_file' = Bytes(Base' + 1, a) /\ resp_start' <= total_written'
          /\ Base' + resp_start' = (IF status_code' = 206 THEN resume_offset' ELSE 0)
      BY <1>0, <2>1, <2>2, <2>3, <3>1
    <3>3. ht_wire' \in Seq(Toks) /\ InBody' BY <1>0, <2>2, <3>2, HtAnswered
    <3> QED BY <1>0, <1>6, <2>2, <2>3, <3>3
  <2>4. CASE ht_file' = <<>> /\ total_written' = 0 /\ ht_pc' = "body" /\ UNCHANGED <<resume_offset, resp_start>>
    <3>1. Base' = a BY <1>0, <2>1, <2>2, <2>4 DEF Base
    <3>2. /\ Base' + total_written' = a /\ ht_file' = Bytes(Base' + 1, a) /\ resp_start' <= total_written'
          /\ Base' + resp_start' = (IF status_code' = 206 THEN resume_offset' ELSE 0)
      BY <1>0, <1>5, <2>1, <2>2, <2>4, <3>1
    <3>3. ht_wire' \in Seq(Toks) /\ InBody' BY <1>0, <2>2, <3>2, HtAnswered
    <3> QED BY <1>0, <1>6, <2>2, <2>4, <3>3
  <2>5. CASE ExitsWith(20) /\ UNCHANGED <<ht_file, counts>> BY <1>2, <2>5
  <2> QED BY <1>8, <2>3, <2>4, <2>5 DEF OpenOutput
<1>9. CASE OddAnswer /\ OpenOutput(200)
  <2>1. CASE ExitsWith(20) /\ UNCHANGED <<ht_file, counts>> BY <1>2, <2>1
  <2>2. CASE ht_file' = <<>> /\ total_written' = 0 /\ ht_pc' = "body" /\ UNCHANGED <<resume_offset, resp_start>>
    <3>1. CASE /\ status_code' = 200 /\ framing' = "chunked" /\ ht_wire' = <<Tok("size", ChunkMax + 1)>>
               /\ chunk' = [state |-> "SIZE", rem |-> 0]
      <4>1. ht_wire' \in Seq(Toks) /\ InBody' BY <1>0, <2>2, <3>1, HtAnsweredBig
      <4> QED BY <1>0, <1>6, <2>2, <3>1, <4>1
    <3>2. CASE status_code' = 0 /\ framing' = "close" /\ ht_wire' = <<Tok("data", 0)>>
      <4>1. ht_wire' = [i \in 1 .. 1 |-> Tok("data", 0)] BY <3>2
      <4>2. ht_wire' \in Seq(Toks) /\ Foreign' BY <2>2, <3>2, <4>1, HtAnsweredOther
      <4> QED BY <1>0, <1>6, <2>2, <3>2, <4>2
    <3> QED BY <1>9, <3>1, <3>2 DEF OddAnswer
  <2> QED BY <1>9, <2>1, <2>2 DEF OpenOutput
<1>10. CASE \E code \in {100, 204, 304} : OtherAnswer(code) /\ OpenOutput(code)
  <2>0. PICK code \in {100, 204, 304} : OtherAnswer(code) /\ OpenOutput(code) BY <1>10
  <2>1. CASE ExitsWith(20) /\ UNCHANGED <<ht_file, counts>> BY <1>2, <2>1
  <2>2. CASE ht_file' = <<>> /\ total_written' = 0 /\ ht_pc' = "body" /\ UNCHANGED <<resume_offset, resp_start>>
    <3>1. PICK n \in 0 .. 1 : ht_wire' = [i \in 1 .. n |-> Tok("data", 0)] /\ framing' # "chunked" /\ status_code' = code
      BY <2>0 DEF OtherAnswer
    <3>2. ht_wire' \in Seq(Toks) /\ Foreign' BY <2>2, <3>1, HtAnsweredOther
    <3> QED BY <1>0, <1>6, <2>0, <2>2, <3>1, <3>2
  <2> QED BY <2>0, <2>1, <2>2 DEF OpenOutput
<1> QED BY <1>3, <1>4, <1>7, <1>8, <1>9, <1>10 DEF Headers

\* A token of the body.
LEMMA HtKeepsFeed == ASSUME HtAssumption, HtInv, Feed PROVE HtInv'
<1>0. /\ ht_pc = "body" /\ ht_wire \in Seq(Toks) /\ ht_wire # <<>>
      /\ UNCHANGED <<ht_size, resume_offset, resp_start, status_code, framing, content_length, ht_fin>>
      /\ ht_size \in Nat /\ resume_offset \in Nat /\ resp_start \in Nat /\ total_written \in Nat
      /\ ChunkMax \in Nat
  BY DEF HtInv, Feed, HtAssumption
<1>1. PICK t : t = Head(ht_wire) OBVIOUS
<1>2. PICK c : c = IF framing = "chunked" THEN tn_chunk_feed(chunk, t) ELSE chunk OBVIOUS
<1>3. /\ t \in Toks /\ Tail(ht_wire) \in Seq(Toks) /\ Len(Tail(ht_wire)) = Len(ht_wire) - 1
      /\ \A i \in 1 .. Len(Tail(ht_wire)) : Tail(ht_wire)[i] = ht_wire[i + 1]
      /\ Len(ht_wire) \in Nat \ {0} /\ t = ht_wire[1]
  BY <1>0, <1>1, HeadTailProperties, EmptySeq
<1>4. /\ ht_wire' = Tail(ht_wire) /\ chunk' = c
      /\ \/ ExitsWith(20) /\ UNCHANGED <<ht_file, total_written>>
         \/ /\ c.state # "ERROR" /\ Writes(t)
            /\ ht_file' = Append(ht_file, t.v) /\ total_written' = total_written + 1
            /\ UNCHANGED <<ht_pc, exit_code>>
         \/ c.state # "ERROR" /\ ~Writes(t) /\ UNCHANGED <<ht_file, total_written, ht_pc, exit_code>>
  BY <1>1, <1>2 DEF Feed
<1>5. CASE ExitsWith(20) /\ UNCHANGED <<ht_file, total_written>>
  BY <1>0, <1>5 DEF HtInv, SuccessMeansWhole, ExitsWith
<1>6. ASSUME ht_pc' = "body", total_written' \in Nat, status_code \in {200, 206} => InBody',
             status_code \notin {200, 206} => Foreign'
      PROVE  HtInv'
  BY <1>0, <1>3, <1>4, <1>6 DEF HtInv, SuccessMeansWhole
<1>b. PICK b \in Nat : b = Base /\ b = Base' BY <1>0 DEF Base
<1>7. CASE /\ c.state # "ERROR" /\ Writes(t)
           /\ ht_file' = Append(ht_file, t.v) /\ total_written' = total_written + 1
           /\ UNCHANGED <<ht_pc, exit_code>>
  <2>1. ASSUME status_code \in {200, 206} PROVE InBody'
    <3>0. InBody BY <1>0, <2>1 DEF HtInv
    <3>1. ASSUME t.v = b + total_written + 1 PROVE ht_file' = Bytes(b + 1, b + total_written')
      BY <1>0, <1>b, <1>7, <3>0, <3>1, BytesGrow DEF InBody
    <3>2. CASE framing = "chunked"
      <4>0. PICK n \in Nat : n = b + total_written BY <1>0
      <4>1. PICK q : Runs(ht_wire, Mark(chunk.state, chunk.rem, n), q, ht_size) BY <1>b, <3>0, <3>2, <4>0 DEF InBody
      <4>2. PICK p : p = Mark(chunk.state, chunk.rem, n) OBVIOUS
      <4>3. Expected(p, t, ht_size) /\ p \in Marks /\ Runs(Tail(ht_wire), After(p, t), q, ht_size)
        BY <1>0, <1>1, <4>1, <4>2, RunsTail
      <4>4. chunk.state = "DATA" /\ c = tn_chunk_feed(chunk, t) BY <1>2, <1>7, <3>2 DEF Writes
      <4>5. /\ After(p, t) = Mark(c.state, c.rem, n + 1)
            /\ c.state = "DONE" => n + 1 = ht_size
            /\ t.v = n + 1
        BY <1>0, <1>3, <1>7, <4>2, <4>3, <4>4, Fed
      <4>6. n + 1 = b + total_written' BY <1>0, <1>7, <4>0
      <4>7. ht_file' = Bytes(b + 1, b + total_written') BY <3>1, <4>0, <4>5
      <4> QED BY <1>0, <1>b, <1>4, <1>7, <3>0, <3>2, <4>3, <4>5, <4>6, <4>7 DEF InBody
    <3>3. CASE framing # "chunked"
      <4>1. t = Tok("data", b + total_written + 1) BY <1>b, <1>3, <3>0, <3>3 DEF InBody
      <4>2. t.v = b + total_written + 1 BY <4>1 DEF Tok
      <4>3. \A i \in 1 .. Len(ht_wire') : ht_wire'[i] = Tok("data", b + total_written' + i)
        <5> TAKE i \in 1 .. Len(ht_wire')
        <5>1. i + 1 \in 1 .. Len(ht_wire) /\ ht_wire'[i] = ht_wire[i + 1] BY <1>3, <1>4
        <5>2. ht_wire[i + 1] = Tok("data", b + total_written + (i + 1)) BY <1>b, <3>0, <3>3, <5>1 DEF InBody
        <5>3. b + total_written + (i + 1) = b + total_written' + i BY <1>0, <1>3, <1>4, <1>7
        <5> QED BY <5>1, <5>2, <5>3
      <4>4. b + total_written' + Len(ht_wire') = b + total_written + Len(ht_wire) BY <1>0, <1>3, <1>4, <1>7
      <4>5. resp_start' <= total_written' BY <1>0, <1>7, <3>0, <3>3 DEF InBody
      <4>6. ht_file' = Bytes(b + 1, b + total_written') BY <3>1, <4>2
      <4> QED BY <1>0, <1>b, <3>0, <3>3, <4>3, <4>4, <4>5, <4>6 DEF InBody
    <3> QED BY <3>2, <3>3
  <2>2. ASSUME status_code \notin {200, 206} PROVE Foreign'
    <3>0. Foreign BY <1>0, <2>2 DEF HtInv
    <3>1. t = Tok("data", 0) /\ t.v = 0 BY <1>3, <3>0 DEF Foreign, Tok
    <3>2. ht_file' \in Seq({0}) BY <1>7, <3>0, <3>1 DEF Foreign
    <3>3. \A i \in 1 .. Len(ht_wire') : ht_wire'[i] = Tok("data", 0) BY <1>3, <1>4, <3>0 DEF Foreign
    <3> QED BY <1>0, <3>0, <3>2, <3>3 DEF Foreign
  <2> QED BY <1>0, <1>6, <1>7, <2>1, <2>2
<1>8. CASE c.state # "ERROR" /\ ~Writes(t) /\ UNCHANGED <<ht_file, total_written, ht_pc, exit_code>>
  <2>0. framing = "chunked" /\ chunk.state # "DATA" /\ c = tn_chunk_feed(chunk, t) BY <1>2, <1>8 DEF Writes
  <2>1. ASSUME status_code \in {200, 206} PROVE InBody'
    <3>0. InBody BY <1>0, <2>1 DEF HtInv
    <3>1. PICK n \in Nat : n = b + total_written BY <1>0
    <3>2. PICK q : Runs(ht_wire, Mark(chunk.state, chunk.rem, n), q, ht_size) BY <1>b, <2>0, <3>0, <3>1 DEF InBody
    <3>3. PICK p : p = Mark(chunk.state, chunk.rem, n) OBVIOUS
    <3>4. Expected(p, t, ht_size) /\ p \in Marks /\ Runs(Tail(ht_wire), After(p, t), q, ht_size)
      BY <1>0, <1>1, <3>2, <3>3, RunsTail
    <3>5. After(p, t) = Mark(c.state, c.rem, n) /\ (c.state = "DONE" => n = ht_size)
      BY <1>0, <1>3, <1>8, <2>0, <3>3, <3>4, Fed
    <3> QED BY <1>0, <1>b, <1>4, <1>8, <2>0, <3>0, <3>1, <3>4, <3>5 DEF InBody
  <2>2. status_code \in {200, 206} BY <1>0, <2>0 DEF HtInv, Foreign
  <2> QED BY <1>0, <1>6, <1>8, <2>1, <2>2
<1> QED BY <1>4, <1>5, <1>7, <1>8

\* The end of the body.
LEMMA HtKeepsEnds == ASSUME HtAssumption, HtInv, BodyEnds PROVE HtInv'
<1>0. /\ ht_pc = "body" /\ ht_wire \in Seq(Toks) /\ ht_pc' = "done"
      /\ ht_size \in Nat /\ resume_offset \in Nat /\ resp_start \in Nat /\ total_written \in Nat
      /\ HtWrap \in Nat \ {0} /\ UNCHANGED <<ht_size, counts, ht_file, response>>
  BY DEF HtInv, BodyEnds, ExitsWith, HtAssumption
<1>1. ASSUME exit_code' = 0, status_code \in {200, 206}
      PROVE  IF framing # "length" \/ content_length = AnswerLen
             THEN ht_file = Bytes(FirstByte, ht_size)
             ELSE /\ \E k \in 0 .. ht_size : ht_file = Bytes(FirstByte, k)
                  /\ content_length > 0 => Len(ht_file) - resp_start >= content_length
  <2>0. InBody /\ Len(ht_wire) \in Nat BY <1>0, <1>1 DEF HtInv
  <2>b. PICK b \in Nat : b = Base /\ FirstByte = b + 1 BY <1>0 DEF Base, FirstByte
  <2>f. ht_file = Bytes(b + 1, b + total_written) /\ Len(ht_file) = total_written
    <3>1. ht_file = Bytes(b + 1, b + total_written) BY <2>0, <2>b DEF InBody
    <3> QED BY <1>0, <3>1, BytesAre
  <2>e. BodyDone \/ (ht_wire = <<>> /\ ht_fin = "eof" /\ EofOk) BY <1>1 DEF BodyEnds, ExitsWith
  <2>1. CASE framing = "chunked"
    <3>1. b + total_written = ht_size BY <2>0, <2>b, <2>e, <2>1 DEF InBody, BodyDone, EofOk
    <3> QED BY <2>b, <2>f, <2>1, <3>1
  <2>2. CASE framing = "close"
    <3>1. Len(ht_wire) = 0 /\ ht_fin = "eof" BY <2>e, <2>2 DEF BodyDone
    <3>2. b + total_written = ht_size BY <1>0, <2>0, <2>b, <2>2, <3>1 DEF InBody
    <3> QED BY <2>b, <2>f, <2>2, <3>2
  <2>3. CASE framing = "length"
    <3>1. /\ resp_start <= total_written /\ b + total_written <= ht_size /\ content_length \in Int
          /\ AnswerLen = ht_size - (b + resp_start)
      BY <1>0, <2>0, <2>b, <2>3 DEF InBody, AnswerLen
    <3>2. PICK n \in Nat : n = total_written - resp_start BY <1>0, <3>1
    <3>3. Int32(n) \in Int /\ Int32(n) <= n BY <1>0, Int32Below
    <3>4. content_length <= 0 \/ content_length <= n
      <4>1. CASE BodyDone BY <2>3, <3>1, <3>2, <3>3, <4>1 DEF BodyDone
      <4>2. CASE EofOk BY <4>2 DEF EofOk
      <4> QED BY <2>e, <4>1, <4>2
    <3>5. CASE content_length = AnswerLen
      <4>1. b + total_written = ht_size BY <1>0, <3>1, <3>2, <3>4, <3>5
      <4> QED BY <2>b, <2>f, <3>5, <4>1
    <3>6. CASE content_length # AnswerLen
      <4>1. b + total_written \in 0 .. ht_size BY <1>0, <3>1
      <4>2. \E k \in 0 .. ht_size : ht_file = Bytes(FirstByte, k) BY <2>b, <2>f, <4>1
      <4>3. content_length > 0 => Len(ht_file) - resp_start >= content_length BY <2>f, <3>1, <3>2, <3>4
      <4> QED BY <2>3, <3>6, <4>2, <4>3
    <3> QED BY <3>5, <3>6
  <2> QED BY <2>0, <2>1, <2>2, <2>3 DEF InBody
<1>2. ASSUME status_code \notin {200, 206} PROVE \A i \in DOMAIN ht_file : ht_file[i] = 0
  <2>1. ht_file \in Seq({0}) BY <1>0, <1>2 DEF HtInv, Foreign
  <2> QED BY <2>1
<1>3. SuccessMeansWhole'
  <2>1. FirstByte' = FirstByte /\ AnswerLen' = AnswerLen BY <1>0 DEF FirstByte, AnswerLen, counts, response
  <2>2. UNCHANGED <<ht_size, ht_file, status_code, framing, content_length, resp_start>>
    BY <1>0 DEF counts, response
  <2> QED BY <1>1, <1>2, <2>1, <2>2 DEF SuccessMeansWhole
<1> QED BY <1>0, <1>3 DEF HtInv, counts, response

\* Every step keeps the invariant.
LEMMA HtKeeps == ASSUME HtAssumption, HtInv, [HtNext]_htvars PROVE HtInv'
<1>1. CASE UNCHANGED htvars BY <1>1 DEF htvars, HtInv, InBody, Foreign, Base, SuccessMeansWhole, FirstByte, AnswerLen
<1>2. CASE Resume
  <2>1. PICK k \in Nat : ht_file = Bytes(1, k) BY <1>2 DEF HtInv, Resume
  <2>2. Len(ht_file) = k
    <3>1. 0 + 1 = 1 /\ 0 + k = k OBVIOUS
    <3>2. Len(Bytes(0 + 1, 0 + k)) = k BY BytesAre
    <3> QED BY <2>1, <3>1, <3>2
  <2> QED BY <1>2, <2>1, <2>2 DEF HtInv, Resume, SuccessMeansWhole
<1>3. CASE Connect BY <1>3 DEF HtInv, Connect, ExitsWith, SuccessMeansWhole, counts
<1>4. CASE Headers BY <1>4, HtKeepsHeaders
<1>5. CASE Feed BY <1>5, HtKeepsFeed
<1>6. CASE BodyEnds BY <1>6, HtKeepsEnds
<1> QED BY <1>1, <1>2, <1>3, <1>4, <1>5, <1>6 DEF HtNext

----------------------------------------------------------------------------
(***************************************************************************)
(* Ftp: a reply says nothing of the command it answers, but the data       *)
(* connection is one transfer's: what the server told since it was made    *)
(* was told of that transfer.                                              *)
(***************************************************************************)
\* Commands, replies, the server and the data connection.
FtVerbs == {"USER", "PASS", "TYPE", "PASV", "QUIT", "simple", "get", "put", "ls"}
FtCodes == {"pre", "ok", "pasv", "need", "err"}
FtReply == [code : FtCodes, port : Nat]
FtJobs == {"no", "get", "put", "ls"}
FtServer == [port : Nat, last : Nat, job : FtJobs, what : FtJobs, done : Nat]
FtData == [up : Nat, down : Nat, server : BOOLEAN, client : BOOLEAN]
Speaks == {"USER", "PASS", "TYPE", "PASV", "XFER", "QUIT", "simple"}

\* What the variables hold.
FtTypes ==
    /\ ft_pc \in Speaks \cup {"closed", "prompt", "greet", "connect", "create", "copy", "final"}
    /\ ft_said \in BOOLEAN /\ ft_kind \in {"get", "put", "ls"} /\ ft_port \in Nat /\ ft_count \in Nat
    /\ ft_xrc \in {0, 1, -1, -2} /\ ft_told \in BOOLEAN /\ ft_lost \in BOOLEAN /\ ft_missed \in BOOLEAN
    /\ ft_verbs \in Seq(FtVerbs) /\ ft_replies \in Seq(FtReply)
    /\ ft_srv \in FtServer /\ ft_data \in FtData
    /\ ft_said => ft_pc \in Speaks

\* A running transfer has the data connection, and took the port with it.
ServerSound ==
    /\ ft_srv.port <= ft_srv.last
    /\ ft_srv.job # "no" => /\ ft_srv.job = ft_srv.what /\ ft_data.server /\ ft_srv.port = 0 /\ ~ft_lost
    /\ ft_lost => ~ft_data.server

\* The replies given since the last 227 are those that carry its port, and none
\* of them opens a transfer.
PortsOrdered ==
    /\ \A i \in DOMAIN ft_replies :
         /\ ft_replies[i].port <= ft_srv.last /\ (ft_replies[i].code = "pre" => ft_replies[i].port = 0)
         /\ ft_replies[i].port = ft_srv.port /\ ft_srv.port # 0 =>
              \A k \in DOMAIN ft_replies : i <= k => ft_replies[k].port = ft_srv.port
    /\ ft_pc = "connect" =>
         /\ ft_port <= ft_srv.last
         /\ ft_port = ft_srv.port /\ ft_srv.port # 0 =>
              \A k \in DOMAIN ft_replies : ft_replies[k].port = ft_srv.port

\* What was counted on one side was counted on the other.
Gets(k) == k \in {"get", "ls"}
Flow ==
    /\ Gets(ft_kind) /\ Gets(ft_srv.what) /\ ft_pc # "final" => ft_count + ft_data.down = ft_srv.done
    /\ ft_kind = "put" /\ ft_srv.what = "put" => ft_srv.done + ft_data.up = ft_count

\* The transfer that had this data connection ended well.
EndedWell ==
    /\ ft_srv.job = "no" /\ ~ft_data.server /\ Flow
    /\ Gets(ft_srv.what) => ft_srv.done = FtSize
    /\ ~Gets(ft_srv.what) => ft_data.up = 0 /\ ft_pc = "final" /\ ft_srv.what = "put"
    /\ ft_pc = "final" /\ Gets(ft_kind) /\ ft_xrc = 0 => ft_count = FtSize

\* Between the connection and the first reply: a 1xx is the opening of the
\* transfer on it or of one that was refused.
Asked ==
    ft_pc = "XFER" =>
      /\ ft_data.client /\ ft_count = 0 /\ ft_data.up = 0
      /\ ft_srv.job = "no" /\ ft_data.server => ft_data.down = 0
      /\ ft_srv.job # "no" => Flow
      /\ \A i \in DOMAIN ft_replies : ft_replies[i].code = "pre" =>
           /\ ft_srv.job = "no" => ~ft_data.server
           /\ \/ i = Len(ft_replies) /\ (ft_srv.job # "no" \/ ft_lost)
              \/ i < Len(ft_replies) /\ ft_replies[i + 1].code = "err" /\ ft_srv.job = "no"
              \/ i < Len(ft_replies) /\ ft_replies[i + 1].code = "ok" /\ EndedWell

\* After it: the next reply is the end of that transfer.
Opened ==
    ft_pc \in {"create", "copy", "final"} =>
      /\ ft_pc # "final" => ft_data.client
      /\ ft_pc = "final" => ~ft_data.client
      /\ ft_srv.job # "no" => Flow
      /\ ft_srv.job = "no" => ~ft_data.server
      /\ ft_pc = "final" /\ Gets(ft_kind) /\ ft_xrc = 0 => ft_srv.job = "no"
      /\ ft_pc = "final" /\ ft_kind = "put" /\ ft_xrc = 0 => ft_count = FtSize
      /\ \/ ft_replies = <<>> /\ (ft_srv.job # "no" \/ ft_lost)
         \/ ft_replies # <<>> /\ ft_srv.job = "no" /\ ft_replies[1].code = "err"
         \/ ft_replies # <<>> /\ ft_replies[1].code = "ok" /\ EndedWell

\* As long as no reply was left unread, each is read by the command it answers.
InStep ==
    ~ft_missed /\ ft_pc # "closed" =>
      /\ ft_pc = "greet" => ft_verbs = <<>> /\ ft_srv.job = "no" /\ Len(ft_replies) <= 1
      /\ ~ft_said /\ ft_pc \notin {"greet", "create", "copy", "final"} =>
           ft_verbs = <<>> /\ ft_srv.job = "no" /\ ft_replies = <<>>
      /\ ft_said /\ ft_pc # "XFER" =>
           /\ ft_srv.job = "no" /\ Len(ft_verbs) + Len(ft_replies) <= 1
           /\ ft_verbs # <<>> => ft_verbs[1] = ft_pc
      /\ ft_said /\ ft_pc = "XFER" =>
           /\ ft_verbs # <<>> => ft_verbs = <<ft_kind>> /\ ft_replies = <<>> /\ ft_srv.job = "no"
           /\ Len(ft_replies) <= 2
           /\ Len(ft_replies) = 2 => ft_replies[1].code = "pre" /\ ft_srv.job = "no"
           /\ ft_srv.job # "no" => ft_srv.what = ft_kind /\ Len(ft_replies) = 1 /\ ft_replies[1].code = "pre"
           /\ Len(ft_replies) = 2 /\ ft_replies[2].code = "ok" => ft_srv.what = ft_kind
      /\ ft_pc \in {"create", "copy", "final"} =>
           /\ ft_verbs = <<>> /\ Len(ft_replies) <= 1 /\ (ft_srv.job # "no" => ft_srv.what = ft_kind)
           /\ ft_replies # <<>> /\ ft_replies[1].code = "ok" => ft_srv.what = ft_kind

\* A report was made on the connection that carried the file.
Told ==
    ft_told => /\ ft_pc = "prompt" /\ ft_srv.job = "no" /\ ~ft_data.server /\ FtReportTrue

\* Together.
FtInv == FtTypes /\ ServerSound /\ PortsOrdered /\ Asked /\ Opened /\ InStep /\ Told

\* What the invariant speaks of.
FtParts == <<ft_pc, ft_said, ft_kind, ft_port, ft_count, ft_xrc, ft_told, ft_verbs, ft_replies, ft_srv,
             ft_data, ft_lost, ft_missed>>

\* The fields of the records.
LEMMA FtFields ==
    ASSUME FtTypes
    PROVE  /\ ft_srv.port \in Nat /\ ft_srv.last \in Nat /\ ft_srv.job \in FtJobs /\ ft_srv.what \in FtJobs
           /\ ft_srv.done \in Nat /\ ft_data.up \in Nat /\ ft_data.down \in Nat
           /\ ft_data.server \in BOOLEAN /\ ft_data.client \in BOOLEAN
           /\ Len(ft_replies) \in Nat /\ DOMAIN ft_replies = 1 .. Len(ft_replies)
           /\ \A i \in DOMAIN ft_replies : ft_replies[i].port \in Nat /\ ft_replies[i] \in FtReply
           /\ (ft_replies = <<>> <=> Len(ft_replies) = 0)
<1>1. /\ ft_srv.port \in Nat /\ ft_srv.last \in Nat /\ ft_srv.job \in FtJobs /\ ft_srv.what \in FtJobs
      /\ ft_srv.done \in Nat
  BY DEF FtTypes, FtServer
<1>2. ft_data.up \in Nat /\ ft_data.down \in Nat /\ ft_data.server \in BOOLEAN /\ ft_data.client \in BOOLEAN
  BY DEF FtTypes, FtData
<1>3. ft_replies \in Seq(FtReply) BY DEF FtTypes
<1>4. Len(ft_replies) \in Nat /\ DOMAIN ft_replies = 1 .. Len(ft_replies) BY <1>3
<1>5. \A i \in DOMAIN ft_replies : ft_replies[i].port \in Nat /\ ft_replies[i] \in FtReply
  <2> TAKE i \in DOMAIN ft_replies
  <2>1. ft_replies[i] \in FtReply BY <1>3, <1>4
  <2> QED BY <2>1 DEF FtReply, FtCodes
<1>6. ft_replies = <<>> <=> Len(ft_replies) = 0 BY <1>3, EmptySeq
<1> QED BY <1>1, <1>2, <1>4, <1>5, <1>6

\* What only moves the user's bounds keeps everything.
LEMMA FtKeepsQuiet == ASSUME FtInv, UNCHANGED FtParts PROVE FtInv'
<1> USE DEF FtInv, FtParts
<1>1. FtTypes' BY DEF FtTypes
<1>2. ServerSound' BY DEF ServerSound
<1>3. PortsOrdered' BY DEF PortsOrdered
<1>4. Asked' BY DEF Asked, EndedWell, Flow
<1>5. Opened' BY DEF Opened, EndedWell, Flow
<1>6. InStep' BY DEF InStep
<1>7. Told' BY DEF Told, FtReportTrue
<1> QED BY <1>1, <1>2, <1>3, <1>4, <1>5, <1>6, <1>7

\* The invariant at the start.
LEMMA FtStarts == FtInit => FtInv
<1> SUFFICES ASSUME FtInit PROVE FtInv OBVIOUS
<1>1. /\ ft_pc = "closed" /\ ft_said = FALSE /\ ft_kind = "get" /\ ft_port = 0 /\ ft_count = 0
      /\ ft_xrc = 0 /\ ft_told = FALSE /\ ft_verbs = <<>> /\ ft_replies = <<>> /\ ft_lost = FALSE
      /\ ft_missed = FALSE
  BY DEF FtInit
<1>2. ft_srv \in FtServer /\ ft_srv.port = 0 /\ ft_srv.last = 0 /\ ft_srv.job = "no"
  BY DEF FtInit, Idles, FtServer, FtJobs
<1>3. ft_data \in FtData BY DEF FtInit, NoData, FtData
<1>4. FtTypes
  <2>1. <<>> \in Seq(FtVerbs) /\ <<>> \in Seq(FtReply) OBVIOUS
  <2>2. ft_xrc \in {0, 1, -1, -2} /\ ft_port \in Nat /\ ft_count \in Nat BY <1>1
  <2> QED BY <1>1, <1>2, <1>3, <2>1, <2>2 DEF FtTypes
<1> QED BY <1>1, <1>2, <1>4 DEF FtInv, ServerSound, PortsOrdered, Asked, Opened, InStep, Told

\* A command at the prompt.
LEMMA FtKeepsCommand == ASSUME FtInv, Command PROVE FtInv'
<1> USE DEF FtInv
<1>1. /\ ft_pc = "prompt" /\ ft_pc' \in {"simple", "QUIT", "TYPE"} /\ ft_told' = FALSE
      /\ UNCHANGED <<ft_said, ft_port, ft_count, ft_xrc, ft_replies, ft_verbs, ft_srv, ft_data, ft_lost, ft_missed>>
      /\ ft_kind' \in {"get", "put", "ls"}
  BY DEF Command, ftnet, FtTypes
<1>2. FtTypes' /\ ~ft_said BY <1>1 DEF FtTypes, Speaks
<1>3. ServerSound' BY <1>1 DEF ServerSound
<1>4. PortsOrdered' BY <1>1 DEF PortsOrdered
<1>5. InStep' BY <1>1, <1>2 DEF InStep
<1> QED BY <1>1, <1>2, <1>3, <1>4, <1>5 DEF Asked, Opened, Told

\* What follows a reply, or none, when the transfer is not at its end.
LEMMA FtGoesOn ==
    ASSUME FtTypes, ft_pc \in Speaks \cup {"greet"}, NEW c, GoOn(c)
    PROVE  /\ ft_pc' \in {"closed", "USER", "PASS", "PASV", "prompt", "connect", "create", "copy"}
           /\ ft_pc' = "connect" => ft_pc = "PASV" /\ c = "pasv"
           /\ ft_pc' \in {"create", "copy"} => ft_pc = "XFER" /\ c = "pre"
           /\ UNCHANGED ft_told /\ ft_said' = FALSE /\ ft_data' \in FtData
           /\ ft_data' = ft_data \/ (ft_data' = ClosedByClient /\ ft_pc' = "prompt" /\ ft_pc = "XFER")
           /\ ft_data'.server = ft_data.server
<1>1. ft_pc # "final" BY DEF Speaks
<1>2. /\ ft_pc' = AfterReplyTo(ft_pc, c) /\ UNCHANGED ft_told /\ ft_said' = FALSE
      /\ ft_data' = IF ft_pc = "XFER" /\ c # "pre" THEN ClosedByClient ELSE ft_data
  BY <1>1 DEF GoOn
<1>3. /\ ft_pc' \in {"closed", "USER", "PASS", "PASV", "prompt", "connect", "create", "copy"}
      /\ ft_pc' = "connect" => ft_pc = "PASV" /\ c = "pasv"
      /\ ft_pc' \in {"create", "copy"} => ft_pc = "XFER" /\ c = "pre"
      /\ ft_pc = "XFER" /\ c # "pre" => ft_pc' = "prompt"
  BY <1>2 DEF AfterReplyTo, Speaks
<1>4. ft_data \in FtData BY DEF FtTypes
<1>5. ClosedByClient \in FtData /\ ClosedByClient.server = ft_data.server BY <1>4 DEF ClosedByClient, FtData
<1> QED BY <1>2, <1>3, <1>4, <1>5

\* A command is sent, or cannot be.
LEMMA FtKeepsSay == ASSUME FtInv, Say PROVE FtInv'
<1> USE DEF FtInv
<1>1. /\ ft_pc \in Speaks /\ ~ft_said
      /\ UNCHANGED <<ft_kind, ft_port, ft_count, ft_xrc, ft_replies, ft_srv, ft_lost, ft_missed>>
  BY DEF Say, Speaks
<1>2. ft_told = FALSE BY <1>1 DEF Told, Speaks, FtTypes
<1>3. CASE /\ ft_said' = TRUE /\ ft_verbs' = Append(ft_verbs, IF ft_pc = "XFER" THEN ft_kind ELSE ft_pc)
           /\ UNCHANGED <<ft_pc, ft_told, ft_rc, ft_data>>
  <2>1. PICK v \in FtVerbs : v = IF ft_pc = "XFER" THEN ft_kind ELSE ft_pc
    BY <1>1 DEF FtTypes, Speaks, FtVerbs
  <2>2. ft_verbs' = Append(ft_verbs, v) /\ ft_verbs \in Seq(FtVerbs) BY <1>3, <2>1 DEF FtTypes
  <2>3. ft_verbs' \in Seq(FtVerbs) BY <2>2
  <2>4. FtTypes' BY <1>1, <1>3, <2>3 DEF FtTypes
  <2>5. ServerSound' /\ PortsOrdered' BY <1>1, <1>3 DEF ServerSound, PortsOrdered
  <2>6. Asked' BY <1>1, <1>3 DEF Asked, EndedWell, Flow
  <2>7. Opened' BY <1>1, <1>3 DEF Opened, Speaks
  <2>8. ASSUME ~ft_missed PROVE InStep'
    <3>1. ft_verbs = <<>> /\ ft_srv.job = "no" /\ ft_replies = <<>> BY <1>1, <2>8 DEF InStep, Speaks
    <3>2. ft_verbs' = <<v>> BY <2>2, <3>1
    <3>3. Len(ft_verbs') = 1 /\ ft_verbs'[1] = v /\ Len(ft_replies') = 0 BY <1>1, <3>1, <3>2
    <3> QED BY <1>1, <1>3, <2>1, <3>1, <3>2, <3>3 DEF InStep, Speaks
  <2>9. InStep' BY <1>1, <2>8 DEF InStep, FtTypes
  <2> QED BY <1>2, <1>3, <2>4, <2>5, <2>6, <2>7, <2>9 DEF Told
<1>4. CASE GoOn("none") /\ UNCHANGED ft_verbs
  <2>1. /\ ft_pc' \in {"closed", "USER", "PASS", "PASV", "prompt"}
        /\ UNCHANGED ft_told /\ ft_said' = FALSE /\ ft_data' \in FtData /\ ft_data'.server = ft_data.server
    <3>1. PICK c : c = "none" OBVIOUS
    <3>2. GoOn(c) /\ FtTypes /\ ft_pc \in Speaks \cup {"greet"} BY <1>1, <1>4, <3>1
    <3>3. /\ ft_pc' \in {"closed", "USER", "PASS", "PASV", "prompt", "connect", "create", "copy"}
          /\ ft_pc' = "connect" => c = "pasv"
          /\ ft_pc' \in {"create", "copy"} => c = "pre"
          /\ UNCHANGED ft_told /\ ft_said' = FALSE /\ ft_data' \in FtData /\ ft_data'.server = ft_data.server
      BY <3>2, FtGoesOn
    <3> QED BY <3>1, <3>3
  <2>2. FtTypes' BY <1>1, <1>4, <2>1 DEF FtTypes, Speaks
  <2>3. ServerSound' /\ PortsOrdered' BY <1>1, <2>1 DEF ServerSound, PortsOrdered
  <2>4. InStep' BY <1>1, <1>4, <2>1 DEF InStep, Speaks
  <2> QED BY <1>2, <2>1, <2>2, <2>3, <2>4 DEF Asked, Opened, Told
<1> QED BY <1>3, <1>4 DEF Say

\* The reply that is read, and those behind it.
LEMMA FtPops ==
    ASSUME FtTypes, ft_replies # <<>>, ft_replies' = Tail(ft_replies)
    PROVE  /\ Head(ft_replies) = ft_replies[1] /\ 1 \in DOMAIN ft_replies
           /\ ft_replies' \in Seq(FtReply) /\ Len(ft_replies') = Len(ft_replies) - 1
           /\ DOMAIN ft_replies' = 1 .. Len(ft_replies')
           /\ \A i \in DOMAIN ft_replies' : i + 1 \in DOMAIN ft_replies /\ ft_replies'[i] = ft_replies[i + 1]
           /\ Len(ft_replies) \in Nat \ {0}
           /\ Len(ft_replies) = 1 => ft_replies' = <<>>
           /\ Len(ft_replies) > 1 => ft_replies' # <<>>
<1>1. ft_replies \in Seq(FtReply) BY DEF FtTypes
<1>2. PICK n \in Nat : Len(ft_replies) = n + 1 BY <1>1, EmptySeq
<1>3. PICK q \in Seq(FtReply) :
         /\ q = Tail(ft_replies) /\ Len(q) = Len(ft_replies) - 1
         /\ \A i \in 1 .. Len(q) : q[i] = ft_replies[i + 1]
  BY <1>1, HeadTailProperties
<1>4. Len(q) = n /\ ft_replies' = q BY <1>2, <1>3
<1>5. DOMAIN ft_replies = 1 .. n + 1 BY <1>1, <1>2
<1>6. Head(ft_replies) = ft_replies[1] BY <1>1
<1>7. q = <<>> <=> n = 0 BY <1>4, EmptySeq
<1> QED BY <1>2, <1>3, <1>4, <1>5, <1>6, <1>7

\* A reply that is read.
LEMMA FtPopsPorts ==
    ASSUME FtTypes, PortsOrdered, UNCHANGED ft_srv, ft_replies # <<>>, ft_replies' = Tail(ft_replies),
           ft_pc' = "connect" => ft_port' = Head(ft_replies).port
    PROVE  PortsOrdered'
<1> USE FtPops, FtFields
<1>1. ASSUME NEW i \in DOMAIN ft_replies'
      PROVE  /\ ft_replies'[i].port <= ft_srv'.last /\ (ft_replies'[i].code = "pre" => ft_replies'[i].port = 0)
             /\ ft_replies'[i].port = ft_srv'.port /\ ft_srv'.port # 0 =>
                  \A k \in DOMAIN ft_replies' : i <= k => ft_replies'[k].port = ft_srv'.port
  <2>1. i + 1 \in DOMAIN ft_replies /\ ft_replies'[i] = ft_replies[i + 1] BY <1>1
  <2>2. /\ ft_replies[i + 1].port <= ft_srv.last /\ (ft_replies[i + 1].code = "pre" => ft_replies[i + 1].port = 0)
        /\ ft_replies[i + 1].port = ft_srv.port /\ ft_srv.port # 0 =>
             \A k \in DOMAIN ft_replies : i + 1 <= k => ft_replies[k].port = ft_srv.port
    BY <2>1 DEF PortsOrdered
  <2>3. ASSUME ft_replies'[i].port = ft_srv'.port, ft_srv'.port # 0, NEW k \in DOMAIN ft_replies', i <= k
        PROVE  ft_replies'[k].port = ft_srv'.port
    <3>1. k + 1 \in DOMAIN ft_replies /\ ft_replies'[k] = ft_replies[k + 1] /\ k \in Nat /\ i \in Nat BY <2>3, SMTT(40)
    <3>2. i + 1 <= k + 1 BY <2>3, <3>1
    <3> QED BY <2>1, <2>2, <2>3, <3>1, <3>2
  <2> QED BY <2>1, <2>2, <2>3
<1>2. ASSUME ft_pc' = "connect"
      PROVE  /\ ft_port' <= ft_srv'.last
             /\ ft_port' = ft_srv'.port /\ ft_srv'.port # 0 =>
                  \A k \in DOMAIN ft_replies' : ft_replies'[k].port = ft_srv'.port
  <2>1. 1 \in DOMAIN ft_replies /\ ft_port' = ft_replies[1].port BY <1>2
  <2>2. /\ ft_replies[1].port <= ft_srv.last
        /\ ft_replies[1].port = ft_srv.port /\ ft_srv.port # 0 =>
             \A k \in DOMAIN ft_replies : 1 <= k => ft_replies[k].port = ft_srv.port
    BY <2>1 DEF PortsOrdered
  <2>3. ASSUME ft_port' = ft_srv'.port, ft_srv'.port # 0, NEW k \in DOMAIN ft_replies'
        PROVE  ft_replies'[k].port = ft_srv'.port
    <3>1. k + 1 \in DOMAIN ft_replies /\ ft_replies'[k] = ft_replies[k + 1] /\ k \in Nat BY <2>3
    <3>2. 1 <= k + 1 BY <3>1
    <3> QED BY <2>1, <2>2, <2>3, <3>1, <3>2
  <2> QED BY <2>1, <2>2, <2>3
<1> QED BY <1>1, <1>2 DEF PortsOrdered

\* The closing reply of a transfer.
LEMMA FtKeepsFinal == ASSUME FtAssumption, FtInv, Hear, ft_pc = "final" PROVE FtInv'
<1> USE DEF FtInv
<1> USE FtFields
<1>0. /\ UNCHANGED <<ft_kind, ft_count, ft_xrc, ft_verbs, ft_srv, ft_lost>> /\ FtSize \in Nat
      /\ ft_xrc \in {0, 1, -1, -2} /\ ft_told = FALSE
  BY DEF Hear, FtTypes, FtAssumption, Told
<1>1. ASSUME NEW c, GoOn(c)
      PROVE  /\ ft_pc' = "prompt" /\ UNCHANGED ft_data /\ ft_said' = FALSE
             /\ ft_told' = (ft_xrc = 0 /\ c \in {"ok", "pasv"} /\ ft_kind # "ls")
  BY <1>1 DEF GoOn, Complete
<1>2. CASE GoOn("none") /\ ft_missed' = TRUE /\ UNCHANGED <<ft_replies, ft_port>>
  <2>1. ft_pc' = "prompt" /\ UNCHANGED ft_data /\ ft_said' = FALSE /\ ft_told' = FALSE
    <3>1. PICK c : c = "none" OBVIOUS
    <3>2. GoOn(c) BY <1>2, <3>1
    <3>3. /\ ft_pc' = "prompt" /\ UNCHANGED ft_data /\ ft_said' = FALSE
          /\ ft_told' = (ft_xrc = 0 /\ c \in {"ok", "pasv"} /\ ft_kind # "ls")
      BY <1>1, <3>2
    <3>4. c \notin {"ok", "pasv"} BY <3>1
    <3> QED BY <3>3, <3>4
  <2>2. FtTypes' BY <1>0, <1>2, <2>1 DEF FtTypes
  <2>3. ServerSound' /\ PortsOrdered' BY <1>0, <1>2, <2>1 DEF ServerSound, PortsOrdered
  <2> QED BY <1>2, <2>1, <2>2, <2>3 DEF Asked, Opened, InStep, Told
<1>3. CASE /\ ft_replies # <<>> /\ ft_replies' = Tail(ft_replies) /\ GoOn(Head(ft_replies).code)
           /\ ft_port' = ft_port /\ UNCHANGED ft_missed
  <2>1. PICK c : c = ft_replies[1].code /\ GoOn(c) BY <1>3, FtPops
  <2>2. /\ ft_pc' = "prompt" /\ UNCHANGED ft_data /\ ft_said' = FALSE
        /\ ft_told' = (ft_xrc = 0 /\ c \in {"ok", "pasv"} /\ ft_kind # "ls")
    BY <1>1, <2>1
  <2>3. ft_told' \in BOOLEAN BY <2>2
  <2>4. FtTypes' BY <1>0, <1>3, <2>2, <2>3, FtPops DEF FtTypes
  <2>5. ServerSound' BY <1>0, <2>2 DEF ServerSound
  <2>6. PortsOrdered' BY <1>0, <1>3, <2>2, FtPopsPorts
  <2>7. /\ ft_srv.job = "no"
        /\ c = "err" \/ (c = "ok" /\ EndedWell)
    BY <1>3, <2>1 DEF Opened, EndedWell
  <2>8. ASSUME ~ft_missed' PROVE InStep'
    <3>1. ft_verbs = <<>> /\ Len(ft_replies) <= 1 BY <1>3, <2>8 DEF InStep
    <3>2. ft_replies' = <<>> BY <1>3, <3>1, FtPops
    <3> QED BY <1>0, <2>2, <2>7, <3>1, <3>2 DEF InStep
  <2>9. InStep' BY <2>8 DEF InStep
  <2>10. ASSUME ft_told' PROVE FtReportTrue' /\ ~ft_data'.server
    <3>1. ft_xrc = 0 /\ c = "ok" /\ EndedWell /\ ft_kind \in {"get", "put"} BY <2>2, <2>7, <2>10 DEF FtTypes
    <3>2. ~ft_missed => ft_srv.what = ft_kind BY <1>3, <2>1, <3>1 DEF InStep
    <3>3. CASE ft_kind = "get" BY <1>0, <1>3, <2>2, <3>1, <3>2, <3>3 DEF EndedWell, FtReportTrue, Gets
    <3>4. CASE ft_kind = "put"
      <4>1. ft_count = FtSize BY <3>1, <3>4 DEF Opened
      <4>2. CASE Gets(ft_srv.what) BY <1>0, <1>3, <2>2, <3>1, <3>2, <3>4, <4>2 DEF EndedWell, FtReportTrue
      <4>3. CASE ~Gets(ft_srv.what)
        <5>1. ft_data.up = 0 /\ ft_srv.done + ft_data.up = ft_count BY <3>1, <3>4, <4>3 DEF EndedWell, Flow
        <5>2. ft_srv.done = FtSize BY <1>0, <4>1, <5>1
        <5> QED BY <1>0, <1>3, <2>2, <3>1, <3>2, <3>4, <5>2 DEF FtReportTrue, EndedWell
      <4> QED BY <4>2, <4>3
    <3> QED BY <3>1, <3>3, <3>4
  <2>11. Told' BY <1>0, <2>2, <2>7, <2>10 DEF Told
  <2> QED BY <2>2, <2>4, <2>5, <2>6, <2>9, <2>11 DEF Asked, Opened
<1> QED BY <1>2, <1>3 DEF Hear

\* The first 1xx read on a data connection opens the transfer on it.
LEMMA FtOpens ==
    ASSUME FtTypes, Asked, ft_replies # <<>>, ft_replies' = Tail(ft_replies), ft_replies[1].code = "pre",
           ft_pc = "XFER", ft_pc' \in {"create", "copy"},
           UNCHANGED <<ft_kind, ft_count, ft_xrc, ft_srv, ft_data, ft_lost>>
    PROVE  Opened'
<1> USE FtPops, FtFields
<1>1. 1 \in DOMAIN ft_replies /\ Len(ft_replies) \in Nat \ {0} OBVIOUS
<1>2. /\ ft_data.client /\ (ft_srv.job # "no" => Flow)
      /\ ft_srv.job = "no" => ~ft_data.server
      /\ \/ 1 = Len(ft_replies) /\ (ft_srv.job # "no" \/ ft_lost)
         \/ 1 < Len(ft_replies) /\ ft_replies[1 + 1].code = "err" /\ ft_srv.job = "no"
         \/ 1 < Len(ft_replies) /\ ft_replies[1 + 1].code = "ok" /\ EndedWell
  BY <1>1 DEF Asked
<1>3. /\ ft_data'.client /\ (ft_srv'.job # "no" => Flow') /\ (ft_srv'.job = "no" => ~ft_data'.server)
      /\ ft_pc' # "final"
  BY <1>2 DEF Flow
<1>4. EndedWell => EndedWell' BY DEF EndedWell, Flow
<1>5. CASE 1 = Len(ft_replies) /\ (ft_srv.job # "no" \/ ft_lost)
  <2>1. ft_replies' = <<>> BY <1>5
  <2> QED BY <1>3, <1>5, <2>1 DEF Opened
<1>6. CASE 1 < Len(ft_replies)
  <2>1. ft_replies' # <<>> /\ 1 \in DOMAIN ft_replies' BY <1>1, <1>6
  <2>2. ft_replies'[1] = ft_replies[1 + 1] BY <2>1
  <2> QED BY <1>2, <1>3, <1>4, <1>6, <2>1, <2>2 DEF Opened
<1> QED BY <1>2, <1>5, <1>6

\* On a connection of which no reply was left unread the reply read is the one asked for.
LEMMA FtStaysInStep ==
    ASSUME FtTypes, InStep, ft_said \/ ft_pc = "greet", ft_pc \in Speaks \cup {"greet"}, ~ft_missed,
           ft_replies # <<>>, ft_replies' = Tail(ft_replies),
           ft_pc' \in {"closed", "USER", "PASS", "PASV", "prompt", "connect", "create", "copy"},
           ft_pc = "XFER" => ft_pc' \in {"prompt", "create", "copy"} /\ (ft_pc' = "prompt" => ft_replies[1].code # "pre"),
           ft_pc' \in {"create", "copy"} => ft_pc = "XFER",
           ~ft_said', UNCHANGED <<ft_kind, ft_verbs, ft_srv, ft_missed>>
    PROVE  InStep'
<1> USE FtPops, FtFields
<1>1. PICK n \in Nat \ {0} : n = Len(ft_replies) OBVIOUS
<1>2. PICK v \in Nat : v = Len(ft_verbs) /\ (ft_verbs = <<>> <=> v = 0)
  <2>1. ft_verbs \in Seq(FtVerbs) BY DEF FtTypes
  <2> QED BY <2>1, EmptySeq
<1>3. CASE ft_pc # "XFER"
  <2>1. ft_srv.job = "no" /\ v = 0 /\ n = 1
    <3>1. CASE ft_pc = "greet" BY <1>1, <1>2, <3>1 DEF InStep
    <3>2. CASE ft_pc # "greet"
      <4>1. ft_said /\ ft_pc # "closed" BY <3>2 DEF Speaks
      <4>2. ft_srv.job = "no" /\ v + n <= 1 BY <1>1, <1>2, <1>3, <4>1 DEF InStep
      <4> QED BY <4>2
    <3> QED BY <3>1, <3>2
  <2>2. ft_replies' = <<>> /\ ft_verbs = <<>> BY <1>1, <1>2, <2>1
  <2> QED BY <1>3, <2>1, <2>2 DEF InStep
<1>4. CASE ft_pc = "XFER"
  <2>1. /\ ft_verbs = <<>> /\ n <= 2 /\ (n = 2 => ft_replies[1].code = "pre" /\ ft_srv.job = "no")
        /\ ft_srv.job # "no" => ft_srv.what = ft_kind /\ n = 1 /\ ft_replies[1].code = "pre"
        /\ n = 2 /\ ft_replies[2].code = "ok" => ft_srv.what = ft_kind
    BY <1>1, <1>4 DEF InStep
  <2>2. CASE ft_pc' = "prompt"
    <3>1. n = 1 /\ ft_srv.job = "no" BY <1>1, <1>4, <2>1, <2>2
    <3>2. ft_replies' = <<>> BY <1>1, <3>1
    <3> QED BY <2>1, <2>2, <3>1, <3>2 DEF InStep
  <2>3. CASE ft_pc' \in {"create", "copy"}
    <3>1. Len(ft_replies') <= 1 BY <1>1, <2>1
    <3>2. ft_replies' # <<>> => n = 2 /\ ft_replies'[1] = ft_replies[2]
      <4> SUFFICES ASSUME ft_replies' # <<>> PROVE n = 2 /\ ft_replies'[1] = ft_replies[2] OBVIOUS
      <4>1. n = 2 BY <1>1, <2>1
      <4>2. 1 \in DOMAIN ft_replies' BY <1>1, <4>1
      <4>3. ft_replies'[1] = ft_replies[1 + 1] BY <4>2
      <4> QED BY <4>1, <4>3
    <3> QED BY <1>4, <2>1, <2>3, <3>1, <3>2 DEF InStep
  <2> QED BY <1>4, <2>2, <2>3
<1> QED BY <1>3, <1>4

\* A reply is read, or none comes.
LEMMA FtKeepsHear == ASSUME FtInv, Hear, ft_pc # "final" PROVE FtInv'
<1> USE DEF FtInv
<1>1. /\ ft_said \/ ft_pc = "greet"
      /\ ft_pc \in Speaks \cup {"greet"}
      /\ UNCHANGED <<ft_kind, ft_count, ft_xrc, ft_verbs, ft_srv, ft_lost>>
  BY DEF Hear, FtTypes
<1>2. ft_told = FALSE BY <1>1 DEF Told, Speaks, FtTypes
<1>3. CASE GoOn("none") /\ ft_missed' = TRUE /\ UNCHANGED <<ft_replies, ft_port>>
  <2>1. /\ ft_pc' \in {"closed", "USER", "PASS", "PASV", "prompt"}
        /\ UNCHANGED ft_told /\ ft_said' = FALSE /\ ft_data' \in FtData /\ ft_data'.server = ft_data.server
    <3>1. PICK c : c = "none" OBVIOUS
    <3>2. GoOn(c) /\ FtTypes /\ ft_pc \in Speaks \cup {"greet"} BY <1>1, <1>3, <3>1
    <3>3. /\ ft_pc' \in {"closed", "USER", "PASS", "PASV", "prompt", "connect", "create", "copy"}
          /\ ft_pc' = "connect" => c = "pasv"
          /\ ft_pc' \in {"create", "copy"} => c = "pre"
          /\ UNCHANGED ft_told /\ ft_said' = FALSE /\ ft_data' \in FtData /\ ft_data'.server = ft_data.server
      BY <3>2, FtGoesOn
    <3> QED BY <3>1, <3>3
  <2>2. FtTypes' BY <1>1, <1>3, <2>1 DEF FtTypes, Speaks
  <2>3. ServerSound' /\ PortsOrdered' BY <1>1, <1>3, <2>1 DEF ServerSound, PortsOrdered
  <2> QED BY <1>2, <1>3, <2>1, <2>2, <2>3 DEF Asked, Opened, InStep, Told
<1>4. CASE /\ ft_replies # <<>> /\ ft_replies' = Tail(ft_replies) /\ GoOn(Head(ft_replies).code)
           /\ ft_port' = (IF ft_pc = "PASV" THEN Head(ft_replies).port ELSE ft_port)
           /\ UNCHANGED ft_missed
  <2>1. PICK c : c = ft_replies[1].code /\ GoOn(c) BY <1>4, FtPops
  <2>2. /\ ft_pc' \in {"closed", "USER", "PASS", "PASV", "prompt", "connect", "create", "copy"}
        /\ ft_pc' = "connect" => ft_pc = "PASV" /\ c = "pasv"
        /\ ft_pc' \in {"create", "copy"} => ft_pc = "XFER" /\ c = "pre"
        /\ UNCHANGED ft_told /\ ft_said' = FALSE /\ ft_data' \in FtData
        /\ ft_data' = ft_data \/ (ft_data' = ClosedByClient /\ ft_pc' = "prompt" /\ ft_pc = "XFER")
        /\ ft_data'.server = ft_data.server
    BY <1>1, <2>1, FtGoesOn
  <2>3. ft_replies' \in Seq(FtReply) /\ 1 \in DOMAIN ft_replies /\ Head(ft_replies) = ft_replies[1]
    BY <1>4, FtPops
  <2>4. ft_replies[1].port \in Nat BY <2>3, FtFields
  <2>5. ft_port' \in Nat BY <1>4, <2>3, <2>4 DEF FtTypes
  <2>6. FtTypes' BY <1>1, <1>4, <2>2, <2>3, <2>5 DEF FtTypes, Speaks
  <2>7. ServerSound' BY <1>1, <2>2 DEF ServerSound
  <2>8. PortsOrdered' BY <1>1, <1>4, <2>2, FtPopsPorts
  <2>9. Opened'
    <3>1. CASE ft_pc' \in {"create", "copy"}
      <4>1. ft_pc = "XFER" /\ ft_replies[1].code = "pre" /\ UNCHANGED ft_data BY <2>1, <2>2, <3>1
      <4> QED BY <1>1, <1>4, <3>1, <4>1, FtOpens
    <3>2. CASE ft_pc' \notin {"create", "copy"} BY <2>2, <3>2 DEF Opened
    <3> QED BY <3>1, <3>2
  <2>10. InStep'
    <3>1. CASE ft_missed BY <1>4, <3>1 DEF InStep
    <3>2. CASE ~ft_missed
      <4>1. ft_pc = "XFER" => ft_pc' \in {"prompt", "create", "copy"} /\ (ft_pc' = "prompt" => c # "pre")
        <5>1. ft_pc # "final" /\ ft_pc' = AfterReplyTo(ft_pc, c) BY <2>1 DEF GoOn
        <5> QED BY <5>1 DEF AfterReplyTo
      <4> QED BY <1>1, <1>4, <2>1, <2>2, <3>2, <4>1, FtStaysInStep
    <3> QED BY <3>1, <3>2
  <2> QED BY <1>2, <2>2, <2>6, <2>7, <2>8, <2>9, <2>10 DEF Asked, Told
<1> QED BY <1>3, <1>4 DEF Hear

\* The data connection is made to the port the server listens on: no transfer runs,
\* and no reply on the way opens one.
LEMMA FtKeepsConnect == ASSUME FtInv, ftp_data_connect PROVE FtInv'
<1> USE DEF FtInv
<1>1. /\ ft_pc = "connect" /\ ft_pc' \in {"XFER", "prompt"}
      /\ UNCHANGED <<ft_said, ft_kind, ft_port, ft_xrc, ft_told, ft_replies, ft_verbs, ft_srv, ft_lost, ft_missed>>
  BY DEF ftp_data_connect
<1>2. ft_told = FALSE /\ ft_said = FALSE BY <1>1 DEF Told, FtTypes, Speaks
<1>3. PortsOrdered' BY <1>1 DEF PortsOrdered
<1>4. InStep' BY <1>1, <1>2 DEF InStep
<1>5. CASE ft_pc' = "prompt" /\ UNCHANGED <<ft_count, ft_data>>
  <2>1. FtTypes' BY <1>1, <1>2, <1>5 DEF FtTypes
  <2>2. ServerSound' BY <1>1, <1>5 DEF ServerSound
  <2> QED BY <1>1, <1>2, <1>3, <1>4, <1>5, <2>1, <2>2 DEF Asked, Opened, Told
<1>6. CASE /\ ft_port # 0 /\ ft_port = ft_srv.port /\ ~ft_lost /\ ft_count' = 0
           /\ ft_data' = [up |-> 0, down |-> 0, server |-> TRUE, client |-> (ft_pc' = "XFER")]
  <2>1. /\ ft_data' \in FtData /\ ft_data'.up = 0 /\ ft_data'.down = 0 /\ ft_data'.server = TRUE
        /\ ft_data'.client = (ft_pc' = "XFER")
    <3>1. PICK b \in BOOLEAN : b = (ft_pc' = "XFER") BY <1>1
    <3>2. ft_data' = [up |-> 0, down |-> 0, server |-> TRUE, client |-> b] BY <1>6, <3>1
    <3>3. ft_data' \in FtData BY <3>2 DEF FtData
    <3>4. /\ ft_data'.up = 0 /\ ft_data'.down = 0 /\ ft_data'.server = TRUE /\ ft_data'.client = b
      BY <3>2
    <3> QED BY <3>1, <3>3, <3>4
  <2>2. ft_srv.job = "no" BY <1>6, FtFields DEF ServerSound
  <2>3. \A k \in DOMAIN ft_replies : ft_replies[k].code # "pre"
    <3> TAKE k \in DOMAIN ft_replies
    <3>1. ft_replies[k].port = ft_srv.port BY <1>1, <1>6 DEF PortsOrdered
    <3> QED BY <1>6, <3>1 DEF PortsOrdered
  <2>4. ft_count' \in Nat BY <1>6
  <2>5. FtTypes' BY <1>1, <1>2, <2>1, <2>4 DEF FtTypes, Speaks
  <2>6. ServerSound' BY <1>1, <1>6, <2>2 DEF ServerSound
  <2>7. Asked' BY <1>1, <1>6, <2>1, <2>2, <2>3 DEF Asked
  <2> QED BY <1>1, <1>2, <1>3, <1>4, <2>5, <2>6, <2>7 DEF Opened, Told
<1> QED BY <1>5, <1>6 DEF ftp_data_connect

\* The client closes its end of the data connection.
LEMMA FtCloses ==
    ASSUME FtTypes
    PROVE  /\ ClosedByClient \in FtData /\ ClosedByClient.client = FALSE /\ ClosedByClient.down = 0
           /\ ClosedByClient.up = ft_data.up /\ ClosedByClient.server = ft_data.server
<1>1. ft_data \in FtData BY DEF FtTypes
<1> QED BY <1>1 DEF ClosedByClient, FtData

\* get opens the local file, or cannot.
LEMMA FtKeepsCreate == ASSUME FtInv, CreateLocal PROVE FtInv'
<1> USE DEF FtInv
<1>1. /\ ft_pc = "create"
      /\ UNCHANGED <<ft_said, ft_kind, ft_port, ft_count, ft_xrc, ft_told, ft_replies, ft_verbs, ft_srv, ft_lost>>
  BY DEF CreateLocal
<1>2. ft_told = FALSE /\ ft_said = FALSE BY <1>1 DEF Told, FtTypes, Speaks
<1>3. CASE ft_pc' = "copy" /\ UNCHANGED <<ft_data, ft_missed>>
  <2>1. FtTypes' BY <1>1, <1>2, <1>3 DEF FtTypes
  <2>2. ServerSound' /\ PortsOrdered' BY <1>1, <1>3 DEF ServerSound, PortsOrdered
  <2>3. Opened' BY <1>1, <1>3 DEF Opened, EndedWell, Flow
  <2>4. InStep' BY <1>1, <1>3 DEF InStep
  <2> QED BY <1>1, <1>2, <1>3, <2>1, <2>2, <2>3, <2>4 DEF Asked, Told
<1>4. CASE ft_pc' = "prompt" /\ ft_data' = ClosedByClient /\ ft_missed' = TRUE
  <2>1. FtTypes' BY <1>1, <1>2, <1>4, FtCloses DEF FtTypes
  <2>2. ServerSound' BY <1>1, <1>4, FtCloses DEF ServerSound
  <2>3. PortsOrdered' BY <1>1, <1>4 DEF PortsOrdered
  <2> QED BY <1>1, <1>2, <1>4, <2>1, <2>2, <2>3 DEF Asked, Opened, InStep, Told
<1> QED BY <1>3, <1>4 DEF CreateLocal

\* The copy ends: a download that reached the end of the file has all that was sent.
LEMMA FtKeepsEnds ==
    ASSUME FtAssumption, FtInv, ft_pc = "copy", NEW x \in {0, 1, -1, -2}, TransferEnds(x),
           x = 0 /\ Gets(ft_kind) => ft_data.down = 0 /\ ~ft_data.server,
           x = 0 /\ ft_kind = "put" => ft_count = FtSize,
           UNCHANGED <<ft_said, ft_kind, ft_port, ft_count, ft_told, ft_replies, ft_verbs, ft_srv, ft_lost, ft_missed>>
    PROVE  FtInv'
<1> USE DEF FtInv
<1> USE FtFields, FtCloses
<1>1. ft_pc' = "final" /\ ft_xrc' = x /\ ft_data' = ClosedByClient BY DEF TransferEnds
<1>2. ft_told = FALSE /\ ft_said = FALSE BY DEF Told, FtTypes, Speaks
<1>3. FtTypes' BY <1>1, <1>2 DEF FtTypes
<1>4. ServerSound' BY <1>1 DEF ServerSound
<1>5. PortsOrdered' BY <1>1 DEF PortsOrdered
<1>6. InStep' BY <1>1, <1>2 DEF InStep
<1>7. Flow => Flow' BY <1>1 DEF Flow
<1>8. ASSUME EndedWell PROVE EndedWell'
  <2>1. ft_srv.job = "no" /\ ~ft_data.server /\ Flow /\ Gets(ft_srv.what) /\ ft_srv.done = FtSize
    BY <1>8 DEF EndedWell
  <2>2. x = 0 /\ Gets(ft_kind) => ft_count = FtSize
    <3> SUFFICES ASSUME x = 0, Gets(ft_kind) PROVE ft_count = FtSize OBVIOUS
    <3>1. ft_count + ft_data.down = FtSize /\ ft_data.down = 0 BY <2>1 DEF Flow
    <3>2. ft_count \in Nat BY DEF FtTypes
    <3> QED BY <3>1, <3>2
  <2> QED BY <1>1, <1>7, <2>1, <2>2 DEF EndedWell, Gets
<1>9. Opened'
  <2>1. ft_srv.job # "no" => ft_data.server BY DEF ServerSound
  <2>2. /\ ft_srv.job # "no" => Flow
        /\ ft_srv.job = "no" => ~ft_data.server
        /\ \/ ft_replies = <<>> /\ (ft_srv.job # "no" \/ ft_lost)
           \/ ft_replies # <<>> /\ ft_srv.job = "no" /\ ft_replies[1].code = "err"
           \/ ft_replies # <<>> /\ ft_replies[1].code = "ok" /\ EndedWell
    BY DEF Opened
  <2>3. /\ ft_srv'.job # "no" => Flow'
        /\ ft_srv'.job = "no" => ~ft_data'.server
        /\ ~ft_data'.client
    BY <1>1, <1>7, <2>2
  <2>4. /\ \/ ft_replies' = <<>> /\ (ft_srv'.job # "no" \/ ft_lost')
           \/ ft_replies' # <<>> /\ ft_srv'.job = "no" /\ ft_replies'[1].code = "err"
           \/ ft_replies' # <<>> /\ ft_replies'[1].code = "ok" /\ EndedWell'
    BY <1>8, <2>2
  <2>5. /\ Gets(ft_kind') /\ ft_xrc' = 0 => ft_srv'.job = "no"
        /\ ft_kind' = "put" /\ ft_xrc' = 0 => ft_count' = FtSize
    BY <1>1, <2>1
  <2> QED BY <1>1, <2>3, <2>4, <2>5 DEF Opened
<1> QED BY <1>1, <1>2, <1>3, <1>4, <1>5, <1>6, <1>9 DEF Asked, Told

\* A block is received or sent.
LEMMA FtKeepsBlock ==
    ASSUME FtInv, ft_pc = "copy", ft_count' = ft_count + 1,
           \/ /\ Gets(ft_kind) /\ ft_data.down > 0 /\ ft_data' = [ft_data EXCEPT !.down = @ - 1]
           \/ ft_kind = "put" /\ ft_data' = [ft_data EXCEPT !.up = @ + 1],
           UNCHANGED <<ft_pc, ft_xrc, ft_said, ft_kind, ft_port, ft_told, ft_replies, ft_verbs, ft_srv, ft_lost,
                       ft_missed>>
    PROVE  FtInv'
<1> USE DEF FtInv
<1> USE FtFields
<1>1. /\ ft_data' \in FtData /\ ft_data'.server = ft_data.server /\ ft_data'.client = ft_data.client
      /\ \/ Gets(ft_kind) /\ ft_data'.down = ft_data.down - 1 /\ ft_data'.up = ft_data.up
         \/ ft_kind = "put" /\ ft_data'.down = ft_data.down /\ ft_data'.up = ft_data.up + 1
  <2>1. ft_data \in FtData BY DEF FtTypes
  <2>2. CASE Gets(ft_kind) /\ ft_data.down > 0 /\ ft_data' = [ft_data EXCEPT !.down = @ - 1]
    <3>1. PICK n \in Nat : n = ft_data.down - 1 BY <2>2
    <3>2. ft_data' = [ft_data EXCEPT !.down = n] BY <2>2, <3>1
    <3> QED BY <2>1, <2>2, <3>1, <3>2 DEF FtData
  <2>3. CASE ft_kind = "put" /\ ft_data' = [ft_data EXCEPT !.up = @ + 1]
    <3>1. PICK n \in Nat : n = ft_data.up + 1 OBVIOUS
    <3>2. ft_data' = [ft_data EXCEPT !.up = n] BY <2>3, <3>1
    <3> QED BY <2>1, <2>3, <3>1, <3>2 DEF FtData
  <2> QED BY <2>2, <2>3
<1>2. ft_count \in Nat /\ ft_count' \in Nat BY DEF FtTypes
<1>3. FtTypes' BY <1>1, <1>2 DEF FtTypes
<1>4. ServerSound' BY <1>1 DEF ServerSound
<1>5. PortsOrdered' BY DEF PortsOrdered
<1>6. InStep' BY DEF InStep
<1>7. Flow => Flow'
  <2>1. CASE Gets(ft_kind)
    <3>1. ft_kind # "put" /\ ft_data'.down = ft_data.down - 1 BY <1>1, <2>1 DEF Gets
    <3>2. ft_count' + ft_data'.down = ft_count + ft_data.down BY <1>2, <3>1, SMTT(40)
    <3> QED BY <2>1, <3>1, <3>2 DEF Flow
  <2>2. CASE ft_kind = "put" BY <1>1, <1>2, <2>2 DEF Flow, Gets
  <2> QED BY <2>1, <2>2 DEF FtTypes, Gets
<1>8. EndedWell => EndedWell' BY <1>1, <1>7 DEF EndedWell
<1>9. Opened' BY <1>1, <1>7, <1>8 DEF Opened
<1> QED BY <1>3, <1>4, <1>5, <1>6, <1>9 DEF Asked, Told

\* The copy of a download.
LEMMA FtKeepsReceive == ASSUME FtAssumption, FtInv, ftp_recv_to PROVE FtInv'
<1>1. /\ ft_pc = "copy" /\ Gets(ft_kind) /\ ft_kind # "put"
      /\ UNCHANGED <<ft_said, ft_kind, ft_port, ft_told, ft_replies, ft_verbs, ft_srv, ft_lost, ft_missed>>
  BY DEF ftp_recv_to, Gets
<1>2. CASE /\ ft_data.down > 0 /\ ft_data' = [ft_data EXCEPT !.down = @ - 1] /\ ft_count' = ft_count + 1
           /\ UNCHANGED <<ft_pc, ft_xrc>>
  BY <1>1, <1>2, FtKeepsBlock
<1>3. CASE \E x \in {0, 1, -1, -2} : /\ TransferEnds(x) /\ UNCHANGED ft_count
                                     /\ x = 0 => ft_data.down = 0 /\ ~ft_data.server
  BY <1>1, <1>3, FtKeepsEnds
<1> QED BY <1>2, <1>3 DEF ftp_recv_to

\* The copy of an upload.
LEMMA FtKeepsPut == ASSUME FtAssumption, FtInv, PutLoop PROVE FtInv'
<1>1. /\ ft_pc = "copy" /\ ~Gets(ft_kind) /\ ft_kind = "put"
      /\ UNCHANGED <<ft_said, ft_kind, ft_port, ft_told, ft_replies, ft_verbs, ft_srv, ft_lost, ft_missed>>
  BY DEF PutLoop, Gets
<1>2. CASE ft_data' = [ft_data EXCEPT !.up = @ + 1] /\ ft_count' = ft_count + 1 /\ UNCHANGED <<ft_pc, ft_xrc>>
  BY <1>1, <1>2, FtKeepsBlock
<1>3. CASE \E x \in {0, 1, -1, -2} : TransferEnds(x) /\ UNCHANGED ft_count /\ (x = 0 => ft_count = FtSize)
  BY <1>1, <1>3, FtKeepsEnds
<1> QED BY <1>2, <1>3 DEF PutLoop

\* A new connection.
LEMMA FtKeepsOpen == ASSUME FtInv, OpenHost PROVE FtInv'
<1> USE DEF FtInv
<1>1. /\ ft_pc = "closed"
      /\ UNCHANGED <<ft_said, ft_kind, ft_port, ft_count, ft_xrc, ft_told, ft_data, ft_lost>>
  BY DEF OpenHost
<1>2. ft_told = FALSE /\ ft_said = FALSE BY <1>1 DEF Told, FtTypes, Speaks
<1>3. CASE UNCHANGED <<ft_pc, ft_verbs, ft_replies, ft_srv, ft_missed>>
  BY <1>1, <1>3, FtKeepsQuiet DEF FtParts
<1>4. CASE /\ ~ft_lost /\ ft_pc' = "greet" /\ ft_verbs' = <<>> /\ ft_srv' = Idles /\ ft_missed' = FALSE
           /\ \E c \in {"ok", "err"} : ft_replies' = <<[code |-> c, port |-> 0]>>
  <2>1. PICK c \in {"ok", "err"} : ft_replies' = <<[code |-> c, port |-> 0]>> BY <1>4
  <2>2. PICK r \in FtReply : r = [code |-> c, port |-> 0] BY DEF FtReply, FtCodes
  <2>3. ft_replies' = <<r>> /\ r.port = 0 /\ r.code # "pre" BY <2>1, <2>2
  <2>4. ft_replies' \in Seq(FtReply) /\ Len(ft_replies') = 1 /\ DOMAIN ft_replies' = {1} /\ ft_replies'[1] = r
    BY <2>2, <2>3
  <2>5. ft_srv' \in FtServer /\ ft_srv'.port = 0 /\ ft_srv'.last = 0 /\ ft_srv'.job = "no"
    BY <1>4 DEF Idles, FtServer, FtJobs
  <2>6. <<>> \in Seq(FtVerbs) OBVIOUS
  <2>7. FtTypes' BY <1>1, <1>2, <1>4, <2>4, <2>5, <2>6 DEF FtTypes
  <2>8. ServerSound' BY <1>1, <1>4, <2>5 DEF ServerSound
  <2>9. PortsOrdered' BY <1>4, <2>3, <2>4, <2>5 DEF PortsOrdered
  <2>10. InStep' BY <1>1, <1>2, <1>4, <2>4, <2>5 DEF InStep
  <2> QED BY <1>1, <1>2, <1>4, <2>7, <2>8, <2>9, <2>10 DEF Asked, Opened, Told
<1> QED BY <1>3, <1>4 DEF OpenHost

\* The answers the server gives.
LEMMA FtCodeSeqs ==
    /\ \A c \in FtCodes : <<c>> \in Seq(FtCodes) /\ Len(<<c>>) = 1 /\ <<c>>[1] = c
    /\ <<"pre", "err">> \in Seq(FtCodes) /\ Len(<<"pre", "err">>) = 2
    /\ <<"pre", "err">>[1] = "pre" /\ <<"pre", "err">>[2] = "err"
    /\ {"pre", "ok", "pasv", "need", "err"} \subseteq FtCodes
BY DEF FtCodes

\* The server's replies go behind those on the way.
LEMMA FtAdds ==
    ASSUME FtTypes, NEW codes \in Seq(FtCodes), FtpAnswers(codes), ft_srv'.port \in Nat
    PROVE  /\ ft_replies' \in Seq(FtReply) /\ Len(ft_replies') = Len(ft_replies) + Len(codes)
           /\ DOMAIN ft_replies' = 1 .. Len(ft_replies) + Len(codes)
           /\ \A i \in 1 .. Len(ft_replies) : ft_replies'[i] = ft_replies[i]
           /\ \A i \in 1 .. Len(codes) : /\ ft_replies'[Len(ft_replies) + i].code = codes[i]
                                         /\ ft_replies'[Len(ft_replies) + i].port = ft_srv'.port
<1> DEFINE q == [i \in DOMAIN codes |-> [code |-> codes[i], port |-> ft_srv'.port]]
<1>1. ft_replies' = ft_replies \o q BY DEF FtpAnswers
<1>2. DOMAIN codes = 1 .. Len(codes) /\ Len(codes) \in Nat OBVIOUS
<1>3. q \in [1 .. Len(codes) -> FtReply]
  <2> SUFFICES ASSUME NEW i \in 1 .. Len(codes) PROVE [code |-> codes[i], port |-> ft_srv'.port] \in FtReply
    BY <1>2
  <2>1. codes[i] \in FtCodes BY <1>2
  <2> QED BY <2>1 DEF FtReply
<1>4. \A i \in 1 .. Len(codes) : q[i].code = codes[i] /\ q[i].port = ft_srv'.port BY <1>2
<1> HIDE DEF q
<1>5. q \in Seq(FtReply) /\ Len(q) = Len(codes) BY <1>2, <1>3
<1>6. ft_replies \in Seq(FtReply) /\ Len(ft_replies) \in Nat BY FtFields DEF FtTypes
<1>7. /\ ft_replies \o q \in Seq(FtReply) /\ Len(ft_replies \o q) = Len(ft_replies) + Len(q)
      /\ \A i \in 1 .. Len(ft_replies) + Len(q) :
           (ft_replies \o q)[i] = IF i <= Len(ft_replies) THEN ft_replies[i] ELSE q[i - Len(ft_replies)]
  BY <1>5, <1>6, ConcatProperties
<1>8. PICK r \in Seq(FtReply) : r = ft_replies \o q BY <1>7
<1>9. ft_replies' = r /\ DOMAIN r = 1 .. Len(r) BY <1>1, <1>8
<1>10. PICK n \in Nat : n = Len(ft_replies) BY <1>6
<1>11. PICK m \in Nat : m = Len(codes) BY <1>2
<1>12. /\ Len(r) = n + m
       /\ \A i \in 1 .. n + m : r[i] = IF i <= n THEN ft_replies[i] ELSE q[i - n]
  BY <1>5, <1>7, <1>8, <1>10, <1>11
<1>13. \A i \in 1 .. n : r[i] = ft_replies[i] BY <1>12
<1>14. \A i \in 1 .. m : r[n + i].code = codes[i] /\ r[n + i].port = ft_srv'.port
  <2> TAKE i \in 1 .. m
  <2>1. n + i \in 1 .. n + m /\ ~(n + i <= n) /\ (n + i) - n = i OBVIOUS
  <2>2. r[n + i] = q[i] BY <1>12, <2>1
  <2> QED BY <1>4, <1>11, <2>2
<1> QED BY <1>9, <1>10, <1>11, <1>12, <1>13, <1>14

\* Replies that open no transfer change nothing for the one at hand.
LEMMA FtServerSpeaks ==
    ASSUME FtInv, ~ft_lost, ft_srv.job = "no", ft_srv'.job = "no",
           ft_srv'.what = ft_srv.what, ft_srv'.done = ft_srv.done,
           ft_data'.up = ft_data.up, ft_data'.down = ft_data.down, ft_data'.client = ft_data.client,
           ft_data'.server => ft_data.server,
           UNCHANGED <<ft_pc, ft_kind, ft_count, ft_xrc, ft_lost>>,
           NEW n \in Nat, NEW m \in Nat, n = Len(ft_replies), Len(ft_replies') = m, n < m,
           DOMAIN ft_replies' = 1 .. m,
           \A i \in 1 .. n : ft_replies'[i] = ft_replies[i],
           \A i \in n + 1 .. m : ft_replies'[i].code = "pre" =>
              ~ft_data'.server /\ i < m /\ ft_replies'[i + 1].code = "err"
    PROVE  Asked' /\ Opened'
<1> USE DEF FtInv
<1> USE FtFields
<1>1. Flow => Flow' BY DEF Flow
<1>2. EndedWell => EndedWell' BY <1>1 DEF EndedWell
<1>3. ASSUME ft_pc = "XFER" PROVE Asked'
  <2>1. /\ ft_data'.client /\ ft_count' = 0 /\ ft_data'.up = 0
        /\ ft_data'.server => ft_data'.down = 0
    BY <1>3 DEF Asked
  <2>2. ASSUME NEW i \in DOMAIN ft_replies', ft_replies'[i].code = "pre"
        PROVE  /\ ~ft_data'.server
               /\ \/ i < Len(ft_replies') /\ ft_replies'[i + 1].code = "err" /\ ft_srv'.job = "no"
                  \/ i < Len(ft_replies') /\ ft_replies'[i + 1].code = "ok" /\ EndedWell'
    <3>1. CASE i \in 1 .. n
      <4>1. i \in DOMAIN ft_replies /\ ft_replies[i].code = "pre" BY <2>2, <3>1
      <4>2. /\ ~ft_data.server
            /\ \/ i < n /\ ft_replies[i + 1].code = "err"
               \/ i < n /\ ft_replies[i + 1].code = "ok" /\ EndedWell
        BY <1>3, <4>1 DEF Asked
      <4>3. i + 1 \in 1 .. n /\ i < m BY <3>1, <4>2
      <4>4. ft_replies'[i + 1] = ft_replies[i + 1] BY <4>3
      <4> QED BY <1>2, <4>2, <4>3, <4>4
    <3>2. CASE i \in n + 1 .. m BY <2>2, <3>2
    <3> QED BY <2>2, <3>1, <3>2
  <2> QED BY <2>1, <2>2 DEF Asked
<1>4. ASSUME ft_pc \in {"create", "copy", "final"} PROVE Opened'
  <2>1. ft_replies # <<>> /\ ~ft_data.server BY <1>4 DEF Opened
  <2>2. 1 \in 1 .. n /\ ft_replies'[1] = ft_replies[1] /\ ft_replies' # <<>>
    <3>1. 1 \in 1 .. n BY <2>1
    <3>2. 1 \in DOMAIN ft_replies' BY <3>1
    <3> QED BY <3>1, <3>2
  <2>3. \/ ft_replies'[1].code = "err"
        \/ ft_replies'[1].code = "ok" /\ EndedWell'
    BY <1>2, <1>4, <2>1, <2>2 DEF Opened
  <2>4. /\ ft_pc' # "final" => ft_data'.client
        /\ ft_pc' = "final" => ~ft_data'.client
        /\ ft_pc' = "final" /\ ft_kind' = "put" /\ ft_xrc' = 0 => ft_count' = FtSize
    BY <1>4 DEF Opened
  <2> QED BY <2>1, <2>2, <2>3, <2>4 DEF Opened
<1> QED BY <1>3, <1>4 DEF Asked, Opened

\* The server takes the next command.
LEMMA FtTakes ==
    ASSUME FtTypes, ft_verbs # <<>>, ft_verbs' = Tail(ft_verbs)
    PROVE  /\ Head(ft_verbs) = ft_verbs[1] /\ Head(ft_verbs) \in FtVerbs
           /\ ft_verbs' \in Seq(FtVerbs) /\ Len(ft_verbs) \in Nat \ {0} /\ Len(ft_verbs') = Len(ft_verbs) - 1
           /\ Len(ft_verbs) = 1 => ft_verbs' = <<>>
<1>1. ft_verbs \in Seq(FtVerbs) BY DEF FtTypes
<1>2. PICK q \in Seq(FtVerbs) : q = Tail(ft_verbs) /\ Len(q) = Len(ft_verbs) - 1
  BY <1>1, HeadTailProperties
<1>3. Len(ft_verbs) \in Nat \ {0} BY <1>1, EmptySeq
<1>4. Head(ft_verbs) = ft_verbs[1] /\ Head(ft_verbs) \in FtVerbs BY <1>1, <1>3
<1>5. Len(q) = 0 => q = <<>> BY EmptySeq
<1> QED BY <1>2, <1>3, <1>4, <1>5

\* It opens the transfer it has a data connection for.
LEMMA FtKeepsAccept ==
    ASSUME FtInv, ~ft_lost, ft_srv.job = "no", ft_verbs # <<>>, ft_verbs' = Tail(ft_verbs),
           NEW v \in {"get", "put", "ls"}, v = Head(ft_verbs), ft_srv.port # 0, ft_data.server,
           ft_srv' = [ft_srv EXCEPT !.port = 0, !.job = v, !.what = v, !.done = 0],
           FtpAnswers(<<"pre">>), UNCHANGED <<ftclient, ft_lost, ft_data>>
    PROVE  FtInv'
<1> USE DEF FtInv
<1> USE FtFields, FtTakes
<1>1. UNCHANGED <<ft_pc, ft_said, ft_kind, ft_port, ft_count, ft_xrc, ft_told, ft_missed>> BY DEF ftclient
<1>2. /\ ft_srv' \in FtServer /\ ft_srv'.port = 0 /\ ft_srv'.last = ft_srv.last /\ ft_srv'.job = v
      /\ ft_srv'.what = v /\ ft_srv'.done = 0 /\ v # "no"
  <2>1. ft_srv \in FtServer BY DEF FtTypes
  <2> QED BY <2>1 DEF FtServer, FtJobs
<1>3. PICK n \in Nat : n = Len(ft_replies) OBVIOUS
<1>4. /\ ft_replies' \in Seq(FtReply) /\ Len(ft_replies') = n + 1 /\ DOMAIN ft_replies' = 1 .. n + 1
      /\ \A i \in 1 .. n : ft_replies'[i] = ft_replies[i]
      /\ ft_replies'[n + 1].code = "pre" /\ ft_replies'[n + 1].port = 0
  <2>1. PICK codes \in Seq(FtCodes) : codes = <<"pre">> BY FtCodeSeqs
  <2>2. FtpAnswers(codes) /\ Len(codes) = 1 /\ codes[1] = "pre" /\ ft_srv'.port \in Nat BY <1>2, <2>1
  <2>3. /\ ft_replies' \in Seq(FtReply) /\ Len(ft_replies') = Len(ft_replies) + Len(codes)
        /\ DOMAIN ft_replies' = 1 .. Len(ft_replies) + Len(codes)
        /\ \A i \in 1 .. Len(ft_replies) : ft_replies'[i] = ft_replies[i]
        /\ \A i \in 1 .. Len(codes) : /\ ft_replies'[Len(ft_replies) + i].code = codes[i]
                                      /\ ft_replies'[Len(ft_replies) + i].port = ft_srv'.port
    BY <2>2, FtAdds
  <2>4. 1 \in 1 .. Len(codes) BY <2>2
  <2> QED BY <1>2, <1>3, <2>2, <2>3, <2>4
<1>5. FtTypes' BY <1>1, <1>2, <1>4 DEF FtTypes
<1>6. ServerSound' BY <1>2 DEF ServerSound
<1>7. PortsOrdered'
  <2>1. ASSUME NEW i \in DOMAIN ft_replies'
        PROVE  ft_replies'[i].port <= ft_srv'.last /\ (ft_replies'[i].code = "pre" => ft_replies'[i].port = 0)
    <3>1. CASE i \in 1 .. n
      <4>1. i \in DOMAIN ft_replies /\ ft_replies'[i] = ft_replies[i] BY <1>3, <1>4, <3>1
      <4> QED BY <1>2, <4>1 DEF PortsOrdered
    <3>2. CASE i = n + 1 BY <1>2, <1>4, <3>2
    <3> QED BY <1>4, <2>1, <3>1, <3>2
  <2> QED BY <1>1, <1>2, <2>1 DEF PortsOrdered
<1>8. Asked'
  <2> SUFFICES ASSUME ft_pc = "XFER" PROVE Asked' BY <1>1 DEF Asked
  <2>1. ft_data.client /\ ft_count = 0 /\ ft_data.up = 0 /\ ft_data.down = 0 BY DEF Asked
  <2>2. Flow' BY <1>1, <1>2, <2>1 DEF Flow
  <2>3. ASSUME NEW i \in DOMAIN ft_replies', ft_replies'[i].code = "pre" PROVE i = n + 1
    <3> SUFFICES ASSUME i \in 1 .. n PROVE FALSE BY <1>4, <2>3
    <3>1. i \in DOMAIN ft_replies /\ ft_replies'[i] = ft_replies[i] BY <1>3, <1>4
    <3> QED BY <2>3, <3>1 DEF Asked
  <2> QED BY <1>1, <1>2, <1>4, <2>1, <2>2, <2>3 DEF Asked
<1>9. Opened' BY <1>1 DEF Opened
<1>10. InStep'
  <2> SUFFICES ASSUME ~ft_missed, ft_pc # "closed" PROVE InStep' BY <1>1 DEF InStep
  <2>1. ft_pc = "XFER" /\ ft_said /\ ft_verbs = <<ft_kind>> /\ ft_replies = <<>>
    <3>1. ft_pc # "greet" /\ ft_pc \notin {"create", "copy", "final"} BY DEF InStep
    <3>2. ft_said BY <3>1 DEF InStep
    <3>3. ft_pc \in Speaks BY <3>2 DEF FtTypes
    <3>4. ft_pc = "XFER" BY <3>2, <3>3 DEF InStep, Speaks
    <3> QED BY <3>2, <3>4 DEF InStep
  <2>2. n = 0 /\ Len(ft_verbs) = 1 /\ ft_verbs[1] = ft_kind BY <1>3, <2>1
  <2>3. ft_verbs' = <<>> /\ v = ft_kind BY <2>2
  <2> QED BY <1>1, <1>2, <1>4, <2>1, <2>2, <2>3 DEF InStep
<1>11. Told' BY <1>1 DEF Told
<1> QED BY <1>5, <1>6, <1>7, <1>8, <1>9, <1>10, <1>11

\* It refuses one, before or after opening it.
LEMMA FtKeepsRefuse ==
    ASSUME FtInv, ~ft_lost, ft_srv.job = "no", ft_verbs # <<>>, ft_verbs' = Tail(ft_verbs),
           Head(ft_verbs) \in {"get", "put", "ls"},
           NEW a, a \in {<<"err">>, <<"pre", "err">>}, ft_srv' = [ft_srv EXCEPT !.port = 0], FtpAnswers(a),
           ft_data' = [ft_data EXCEPT !.server = FALSE], UNCHANGED <<ftclient, ft_lost>>
    PROVE  FtInv'
<1> USE DEF FtInv
<1> USE FtFields, FtTakes
<1>1. UNCHANGED <<ft_pc, ft_said, ft_kind, ft_port, ft_count, ft_xrc, ft_told, ft_missed>> BY DEF ftclient
<1>2. /\ ft_srv' \in FtServer /\ ft_srv'.port = 0 /\ ft_srv'.last = ft_srv.last /\ ft_srv'.job = "no"
      /\ ft_srv'.what = ft_srv.what /\ ft_srv'.done = ft_srv.done
  <2>1. ft_srv \in FtServer BY DEF FtTypes
  <2> QED BY <2>1 DEF FtServer, FtJobs
<1>3. /\ ft_data' \in FtData /\ ft_data'.server = FALSE /\ ft_data'.client = ft_data.client
      /\ ft_data'.up = ft_data.up /\ ft_data'.down = ft_data.down
  <2>1. ft_data \in FtData BY DEF FtTypes
  <2> QED BY <2>1 DEF FtData
<1>4. PICK n \in Nat : n = Len(ft_replies) OBVIOUS
<1>5. PICK m \in {n + 1, n + 2} :
        /\ ft_replies' \in Seq(FtReply) /\ Len(ft_replies') = m /\ DOMAIN ft_replies' = 1 .. m
        /\ \A i \in 1 .. n : ft_replies'[i] = ft_replies[i]
        /\ \A i \in n + 1 .. m : ft_replies'[i].port = 0
        /\ ft_replies'[m].code = "err" /\ (m = n + 2 => ft_replies'[n + 1].code = "pre")
  <2>1. PICK codes \in Seq(FtCodes) : codes = a
    <3>1. a \in Seq(FtCodes) BY FtCodeSeqs
    <3> QED BY <3>1
  <2>2. FtpAnswers(codes) /\ ft_srv'.port \in Nat BY <1>2, <2>1
  <2>3. /\ ft_replies' \in Seq(FtReply) /\ Len(ft_replies') = n + Len(codes)
        /\ DOMAIN ft_replies' = 1 .. n + Len(codes)
        /\ \A i \in 1 .. n : ft_replies'[i] = ft_replies[i]
        /\ \A i \in 1 .. Len(codes) : ft_replies'[n + i].code = codes[i] /\ ft_replies'[n + i].port = 0
    BY <1>2, <1>4, <2>2, FtAdds
  <2>4. CASE a = <<"err">>
    <3>1. Len(codes) = 1 /\ codes[1] = "err" BY <2>1, <2>4
    <3>2. ft_replies'[n + 1].code = "err" /\ ft_replies'[n + 1].port = 0 BY <2>3, <3>1
    <3>3. \A i \in n + 1 .. n + 1 : i = n + 1 OBVIOUS
    <3> WITNESS n + 1 \in {n + 1, n + 2}
    <3> QED BY <2>3, <3>1, <3>2, <3>3
  <2>5. CASE a = <<"pre", "err">>
    <3>1. Len(codes) = 2 /\ codes[1] = "pre" /\ codes[2] = "err" BY <2>1, <2>5
    <3>2. /\ ft_replies'[n + 1].code = "pre" /\ ft_replies'[n + 1].port = 0
          /\ ft_replies'[n + 2].code = "err" /\ ft_replies'[n + 2].port = 0
      BY <2>3, <3>1
    <3>3. \A i \in n + 1 .. n + 2 : i = n + 1 \/ i = n + 2 BY SMTT(40)
    <3> WITNESS n + 2 \in {n + 1, n + 2}
    <3> QED BY <2>3, <3>1, <3>2, <3>3
  <2> QED BY <2>4, <2>5
<1>6. FtTypes' BY <1>1, <1>2, <1>3, <1>5 DEF FtTypes
<1>7. ServerSound' BY <1>2, <1>3 DEF ServerSound
<1>8. PortsOrdered'
  <2>1. ASSUME NEW i \in DOMAIN ft_replies'
        PROVE  ft_replies'[i].port <= ft_srv'.last /\ (ft_replies'[i].code = "pre" => ft_replies'[i].port = 0)
    <3>1. CASE i \in 1 .. n
      <4>1. i \in DOMAIN ft_replies /\ ft_replies'[i] = ft_replies[i] BY <1>4, <1>5, <3>1
      <4> QED BY <1>2, <4>1 DEF PortsOrdered
    <3>2. CASE i \in n + 1 .. m BY <1>2, <1>5, <3>2
    <3> QED BY <1>5, <2>1, <3>1, <3>2
  <2> QED BY <1>1, <1>2, <2>1 DEF PortsOrdered
<1>9. Asked' /\ Opened'
  <2>1. \A i \in n + 1 .. m : ft_replies'[i].code = "pre" => i < m /\ ft_replies'[i + 1].code = "err"
    BY <1>5
  <2>2. m \in Nat /\ n < m OBVIOUS
  <2>3. ~ft_data'.server /\ (ft_data'.server => ft_data.server) BY <1>3
  <2> QED BY <1>1, <1>2, <1>3, <1>4, <1>5, <2>1, <2>2, <2>3, FtServerSpeaks
<1>10. InStep'
  <2> SUFFICES ASSUME ~ft_missed, ft_pc # "closed" PROVE InStep' BY <1>1 DEF InStep
  <2>1. ft_pc = "XFER" /\ ft_said /\ ft_verbs = <<ft_kind>> /\ ft_replies = <<>>
    <3>1. ft_pc # "greet" /\ ft_pc \notin {"create", "copy", "final"} BY DEF InStep
    <3>2. ft_said BY <3>1 DEF InStep
    <3>3. ft_pc \in Speaks BY <3>2 DEF FtTypes
    <3>4. ft_pc = "XFER" BY <3>2, <3>3 DEF InStep, Speaks
    <3> QED BY <3>2, <3>4 DEF InStep
  <2>2. n = 0 /\ Len(ft_verbs) = 1 BY <1>4, <2>1
  <2>3. ft_verbs' = <<>> /\ m \in {1, 2} BY <2>2
  <2>4. m = 2 => ft_replies'[1].code = "pre" /\ ft_replies'[2].code = "err" BY <1>5, <2>2
  <2> QED BY <1>1, <1>2, <1>5, <2>1, <2>3, <2>4 DEF InStep
<1>11. Told' BY <1>1, <1>2, <1>3 DEF Told, FtReportTrue
<1> QED BY <1>6, <1>7, <1>8, <1>9, <1>10, <1>11

\* A single reply that opens nothing: 227 with a new port, or the answer of a command
\* that touches no data connection.
LEMMA FtKeepsAnswer ==
    ASSUME FtInv, ~ft_lost, ft_srv.job = "no", ft_verbs # <<>>, ft_verbs' = Tail(ft_verbs),
           Head(ft_verbs) \notin {"get", "put", "ls"}, NEW c \in {"ok", "err", "need", "pasv"}, FtpAnswers(<<c>>),
           \/ UNCHANGED ft_srv
           \/ ft_srv' = [ft_srv EXCEPT !.port = ft_srv.last + 1, !.last = @ + 1],
           UNCHANGED <<ftclient, ft_lost, ft_data>>
    PROVE  FtInv'
<1> USE DEF FtInv
<1> USE FtFields, FtTakes
<1>1. UNCHANGED <<ft_pc, ft_said, ft_kind, ft_port, ft_count, ft_xrc, ft_told, ft_missed>> BY DEF ftclient
<1>2. /\ ft_srv' \in FtServer /\ ft_srv'.job = "no" /\ ft_srv'.what = ft_srv.what /\ ft_srv'.done = ft_srv.done
      /\ ft_srv'.port \in Nat /\ ft_srv'.last \in Nat
      /\ \/ ft_srv'.port = ft_srv.port /\ ft_srv'.last = ft_srv.last
         \/ ft_srv'.port = ft_srv.last + 1 /\ ft_srv'.last = ft_srv.last + 1
  <2>1. ft_srv \in FtServer BY DEF FtTypes
  <2>2. CASE UNCHANGED ft_srv BY <2>1, <2>2
  <2>3. CASE ft_srv' = [ft_srv EXCEPT !.port = ft_srv.last + 1, !.last = @ + 1]
    <3>1. PICK p \in Nat : p = ft_srv.last + 1 OBVIOUS
    <3>2. ft_srv' = [ft_srv EXCEPT !.port = p, !.last = p] BY <2>3, <3>1
    <3> QED BY <2>1, <3>1, <3>2 DEF FtServer
  <2> QED BY <2>2, <2>3
<1>3. PICK n \in Nat : n = Len(ft_replies) OBVIOUS
<1>4. /\ ft_replies' \in Seq(FtReply) /\ Len(ft_replies') = n + 1 /\ DOMAIN ft_replies' = 1 .. n + 1
      /\ \A i \in 1 .. n : ft_replies'[i] = ft_replies[i]
      /\ ft_replies'[n + 1].code = c /\ ft_replies'[n + 1].port = ft_srv'.port
  <2>1. PICK codes \in Seq(FtCodes) : codes = <<c>> /\ Len(codes) = 1 /\ codes[1] = c BY FtCodeSeqs, ZenonT(60)
  <2>2. FtpAnswers(codes) /\ Len(codes) = 1 /\ codes[1] = c BY <2>1
  <2>3. /\ ft_replies' \in Seq(FtReply) /\ Len(ft_replies') = n + Len(codes)
        /\ DOMAIN ft_replies' = 1 .. n + Len(codes)
        /\ \A i \in 1 .. n : ft_replies'[i] = ft_replies[i]
        /\ \A i \in 1 .. Len(codes) : ft_replies'[n + i].code = codes[i] /\ ft_replies'[n + i].port = ft_srv'.port
    BY <1>2, <1>3, <2>2, FtAdds
  <2>4. 1 \in 1 .. Len(codes) BY <2>2
  <2> QED BY <2>2, <2>3, <2>4
<1>5. FtTypes' BY <1>1, <1>2, <1>4 DEF FtTypes
<1>6. ServerSound' BY <1>2 DEF ServerSound
<1>7. PortsOrdered'
  <2>1. ASSUME NEW i \in DOMAIN ft_replies'
        PROVE  /\ ft_replies'[i].port <= ft_srv'.last /\ (ft_replies'[i].code = "pre" => ft_replies'[i].port = 0)
               /\ ft_replies'[i].port = ft_srv'.port /\ ft_srv'.port # 0 =>
                    \A k \in DOMAIN ft_replies' : i <= k => ft_replies'[k].port = ft_srv'.port
    <3>1. CASE i = n + 1
      <4>1. c # "pre" /\ ft_srv'.port <= ft_srv'.last BY <1>6 DEF ServerSound
      <4>2. \A k \in DOMAIN ft_replies' : i <= k => k = n + 1 BY <1>4, <3>1
      <4> QED BY <1>4, <3>1, <4>1, <4>2
    <3>2. CASE i \in 1 .. n
      <4>1. i \in DOMAIN ft_replies /\ ft_replies'[i] = ft_replies[i] BY <1>3, <1>4, <3>2
      <4>2. /\ ft_replies[i].port <= ft_srv.last /\ (ft_replies[i].code = "pre" => ft_replies[i].port = 0)
            /\ ft_replies[i].port = ft_srv.port /\ ft_srv.port # 0 =>
                 \A k \in DOMAIN ft_replies : i <= k => ft_replies[k].port = ft_srv.port
        BY <4>1 DEF PortsOrdered
      <4>3. ft_replies[i].port \in Nat BY <4>1
      <4>4. ft_replies[i].port <= ft_srv'.last BY <1>2, <4>2, <4>3
      <4>5. ASSUME ft_replies[i].port = ft_srv'.port, ft_srv'.port # 0, NEW k \in DOMAIN ft_replies', i <= k
            PROVE  ft_replies'[k].port = ft_srv'.port
        <5>1. ft_srv'.port = ft_srv.port BY <1>2, <4>2, <4>3, <4>5
        <5>2. CASE k = n + 1 BY <1>4, <5>2
        <5>3. CASE k \in 1 .. n
          <6>1. k \in DOMAIN ft_replies /\ ft_replies'[k] = ft_replies[k] BY <1>3, <1>4, <5>3
          <6> QED BY <4>2, <4>5, <5>1, <6>1
        <5> QED BY <1>4, <4>5, <5>2, <5>3
      <4> QED BY <4>1, <4>2, <4>4, <4>5
    <3> QED BY <1>4, <2>1, <3>1, <3>2
  <2>2. ASSUME ft_pc' = "connect"
        PROVE  /\ ft_port' <= ft_srv'.last
               /\ ft_port' = ft_srv'.port /\ ft_srv'.port # 0 =>
                    \A k \in DOMAIN ft_replies' : ft_replies'[k].port = ft_srv'.port
    <3>1. /\ ft_port <= ft_srv.last /\ ft_port \in Nat
          /\ ft_port = ft_srv.port /\ ft_srv.port # 0 =>
               \A k \in DOMAIN ft_replies : ft_replies[k].port = ft_srv.port
      BY <1>1, <2>2 DEF PortsOrdered, FtTypes
    <3>2. ft_port <= ft_srv'.last BY <1>2, <3>1
    <3>3. ASSUME ft_port = ft_srv'.port, ft_srv'.port # 0, NEW k \in DOMAIN ft_replies'
          PROVE  ft_replies'[k].port = ft_srv'.port
      <4>1. ft_srv'.port = ft_srv.port BY <1>2, <3>1, <3>3
      <4>2. CASE k = n + 1 BY <1>4, <4>2
      <4>3. CASE k \in 1 .. n
        <5>1. k \in DOMAIN ft_replies /\ ft_replies'[k] = ft_replies[k] BY <1>3, <1>4, <4>3
        <5> QED BY <3>1, <3>3, <4>1, <5>1
      <4> QED BY <1>4, <3>3, <4>2, <4>3
    <3> QED BY <1>1, <3>2, <3>3
  <2> QED BY <2>1, <2>2 DEF PortsOrdered
<1>8. Asked' /\ Opened'
  <2>1. PICK m \in Nat : m = n + 1 OBVIOUS
  <2>2. /\ Len(ft_replies') = m /\ n < m /\ DOMAIN ft_replies' = 1 .. m
        /\ \A i \in n + 1 .. m : ft_replies'[i].code = "pre" =>
              ~ft_data'.server /\ i < m /\ ft_replies'[i + 1].code = "err"
    <3>1. \A i \in n + 1 .. m : i = n + 1 BY <2>1
    <3>2. c # "pre" OBVIOUS
    <3> QED BY <1>4, <2>1, <3>1, <3>2
  <2>3. /\ ft_data'.up = ft_data.up /\ ft_data'.down = ft_data.down /\ ft_data'.client = ft_data.client
        /\ (ft_data'.server => ft_data.server)
    OBVIOUS
  <2> QED BY <1>1, <1>2, <1>3, <1>4, <2>2, <2>3, FtServerSpeaks
<1>9. InStep'
  <2> SUFFICES ASSUME ~ft_missed, ft_pc # "closed" PROVE InStep' BY <1>1 DEF InStep
  <2>1. ft_said /\ ft_pc \in Speaks /\ ft_pc # "XFER"
    <3>1. ft_pc # "greet" /\ ft_pc \notin {"create", "copy", "final"} BY DEF InStep
    <3>2. ft_said BY <3>1 DEF InStep
    <3>3. ft_pc \in Speaks BY <3>2 DEF FtTypes
    <3>4. ASSUME ft_pc = "XFER" PROVE FALSE
      <4>1. ft_verbs = <<ft_kind>> BY <3>2, <3>4 DEF InStep
      <4>2. ft_verbs[1] = ft_kind /\ ft_kind \in {"get", "put", "ls"} BY <4>1 DEF FtTypes
      <4> QED BY <4>2
    <3> QED BY <3>2, <3>3, <3>4
  <2>2. Len(ft_verbs) + n <= 1 BY <1>3, <2>1 DEF InStep
  <2>3. Len(ft_verbs) = 1 /\ n = 0 BY <2>2
  <2>4. ft_verbs' = <<>> /\ Len(ft_verbs') = 0 /\ Len(ft_replies') = 1 BY <1>4, <2>3
  <2> QED BY <1>1, <1>2, <2>1, <2>4 DEF InStep, Speaks
<1>10. Told' BY <1>1, <1>2 DEF Told, FtReportTrue
<1> QED BY <1>5, <1>6, <1>7, <1>8, <1>9, <1>10

\* The server takes a command.
LEMMA FtKeepsServer == ASSUME FtInv, ServerCommand PROVE FtInv'
<1> USE DEF FtInv
<1>1. /\ ~ft_lost /\ ft_srv.job = "no" /\ ft_verbs # <<>> /\ ft_verbs' = Tail(ft_verbs)
      /\ ft_data' = (IF Head(ft_verbs) \in {"get", "put", "ls"} /\ ft_srv'.job = "no"
                     THEN [ft_data EXCEPT !.server = FALSE] ELSE ft_data)
      /\ UNCHANGED <<ftclient, ft_lost>>
  BY DEF ServerCommand
<1>2. ft_srv \in FtServer BY DEF FtTypes
<1>3. CASE /\ Head(ft_verbs) \in {"get", "put", "ls"} /\ ft_srv.port # 0 /\ ft_data.server
           /\ ft_srv' = [ft_srv EXCEPT !.port = 0, !.job = Head(ft_verbs), !.what = Head(ft_verbs), !.done = 0]
           /\ FtpAnswers(<<"pre">>)
  <2>1. PICK v \in {"get", "put", "ls"} : v = Head(ft_verbs) BY <1>3
  <2>2. ft_srv' = [ft_srv EXCEPT !.port = 0, !.job = v, !.what = v, !.done = 0] BY <1>3, <2>1
  <2>3. ft_srv'.job = v BY <1>2, <2>2 DEF FtServer
  <2>4. UNCHANGED ft_data BY <1>1, <2>3
  <2> QED BY <1>1, <1>3, <2>1, <2>2, <2>4, FtKeepsAccept
<1>4. CASE /\ Head(ft_verbs) \in {"get", "put", "ls"} /\ ft_srv' = [ft_srv EXCEPT !.port = 0]
           /\ \E a \in {<<"err">>, <<"pre", "err">>} : FtpAnswers(a)
  <2>1. PICK a : a \in {<<"err">>, <<"pre", "err">>} /\ FtpAnswers(a) BY <1>4
  <2>2. ft_srv'.job = "no" BY <1>1, <1>2, <1>4 DEF FtServer
  <2>3. ft_data' = [ft_data EXCEPT !.server = FALSE] BY <1>1, <1>4, <2>2
  <2> QED BY <1>1, <1>4, <2>1, <2>3, FtKeepsRefuse
<1>5. CASE /\ Head(ft_verbs) = "PASV" /\ FtpAnswers(<<"pasv">>)
           /\ ft_srv' = [ft_srv EXCEPT !.port = ft_srv.last + 1, !.last = @ + 1]
  <2>1. PICK c \in {"ok", "err", "need", "pasv"} : c = "pasv" OBVIOUS
  <2>2. FtpAnswers(<<c>>) /\ Head(ft_verbs) \notin {"get", "put", "ls"} BY <1>5, <2>1
  <2> QED BY <1>1, <1>5, <2>2, FtKeepsAnswer
<1>6. CASE /\ Head(ft_verbs) \notin {"get", "put", "ls"} /\ UNCHANGED ft_srv
           /\ \E c \in {"ok", "err", "need"} : FtpAnswers(<<c>>)
  <2>1. PICK c \in {"ok", "err", "need", "pasv"} : FtpAnswers(<<c>>) BY <1>6
  <2> QED BY <1>1, <1>6, <2>1, FtKeepsAnswer
<1> QED BY <1>3, <1>4, <1>5, <1>6 DEF ServerCommand

\* The server copies a block.
LEMMA FtKeepsCopies == ASSUME FtInv, ServerCopies PROVE FtInv'
<1> USE DEF FtInv
<1> USE FtFields
<1>1. /\ ~ft_lost /\ ft_srv.job # "no" /\ UNCHANGED <<ft_replies, ft_verbs, ft_lost>>
      /\ UNCHANGED <<ft_pc, ft_said, ft_kind, ft_port, ft_count, ft_xrc, ft_told, ft_missed>>
      /\ ft_srv' = [ft_srv EXCEPT !.done = @ + 1]
  BY DEF ServerCopies, ftclient
<1>2. /\ ft_srv' \in FtServer /\ ft_srv'.port = ft_srv.port /\ ft_srv'.last = ft_srv.last /\ ft_srv'.job = ft_srv.job
      /\ ft_srv'.what = ft_srv.what /\ ft_srv'.done = ft_srv.done + 1
  <2>1. ft_srv \in FtServer BY DEF FtTypes
  <2>2. PICK d \in Nat : d = ft_srv.done + 1 OBVIOUS
  <2>3. ft_srv' = [ft_srv EXCEPT !.done = d] BY <1>1, <2>2
  <2> QED BY <2>1, <2>2, <2>3 DEF FtServer
<1>3. /\ ft_srv.job = ft_srv.what /\ ft_data.server /\ ft_srv.port = 0 BY <1>1 DEF ServerSound
<1>4. /\ ft_data' \in FtData /\ ft_data'.server = ft_data.server /\ ft_data'.client = ft_data.client
      /\ ft_srv.job = "put" => ft_data.up > 0 /\ ft_data'.up = ft_data.up - 1 /\ ft_data'.down = ft_data.down
      /\ ft_srv.job # "put" => /\ ft_data'.up = ft_data.up
                               /\ ft_data.client => ft_data'.down = ft_data.down + 1
  <2>1. ft_data \in FtData BY DEF FtTypes
  <2>2. CASE ft_srv.job = "put"
    <3>1. ft_data.up > 0 /\ ft_data' = [ft_data EXCEPT !.up = @ - 1] BY <2>2 DEF ServerCopies
    <3>2. PICK u \in Nat : u = ft_data.up - 1 BY <3>1
    <3>3. ft_data' = [ft_data EXCEPT !.up = u] BY <3>1, <3>2
    <3> QED BY <2>1, <2>2, <3>1, <3>2, <3>3 DEF FtData
  <2>3. CASE ft_srv.job # "put"
    <3>1. ft_data' = [ft_data EXCEPT !.down = IF ft_data.client THEN @ + 1 ELSE 0] BY <2>3 DEF ServerCopies
    <3>2. PICK d \in Nat : d = IF ft_data.client THEN ft_data.down + 1 ELSE 0 OBVIOUS
    <3>3. ft_data' = [ft_data EXCEPT !.down = d] BY <3>1, <3>2
    <3> QED BY <2>1, <2>3, <3>2, <3>3 DEF FtData
  <2> QED BY <2>2, <2>3
<1>5. FtTypes' BY <1>1, <1>2, <1>4 DEF FtTypes
<1>6. ServerSound' BY <1>1, <1>2, <1>4 DEF ServerSound
<1>7. PortsOrdered' BY <1>1, <1>2 DEF PortsOrdered
<1>8. InStep' BY <1>1, <1>2 DEF InStep
<1>9. ft_told = FALSE BY <1>1 DEF Told, FtTypes
<1>10. ASSUME Flow, ft_data.client \/ ft_pc = "final" PROVE Flow'
  <2>1. ft_count \in Nat BY DEF FtTypes
  <2>2. CASE ft_srv.job = "put" BY <1>1, <1>2, <1>3, <1>4, <1>10, <2>1, <2>2 DEF Flow, Gets
  <2>3. CASE ft_srv.job # "put"
    <3>1. ft_srv'.what # "put" BY <1>2, <1>3, <2>3
    <3>2. ASSUME Gets(ft_kind'), Gets(ft_srv'.what), ft_pc' # "final" PROVE ft_count' + ft_data'.down = ft_srv'.done
      <4>1. ft_data'.down = ft_data.down + 1 BY <1>1, <1>4, <1>10, <2>3, <3>2
      <4>2. ft_count + ft_data.down = ft_srv.done BY <1>1, <1>2, <1>10, <3>2 DEF Flow
      <4> QED BY <1>1, <1>2, <2>1, <4>1, <4>2
    <3> QED BY <3>1, <3>2 DEF Flow
  <2> QED BY <2>2, <2>3
<1>11. Asked'
  <2> SUFFICES ASSUME ft_pc = "XFER" PROVE Asked' BY <1>1 DEF Asked
  <2>1. ft_data.client /\ ft_count = 0 /\ ft_data.up = 0 /\ Flow BY <1>1 DEF Asked
  <2>2. ft_srv.job # "put" BY <1>4, <2>1
  <2>3. \A i \in DOMAIN ft_replies : ft_replies[i].code = "pre" => i = Len(ft_replies)
    BY <1>1 DEF Asked, EndedWell
  <2>4. Flow' BY <1>10, <2>1
  <2> QED BY <1>1, <1>2, <1>4, <2>1, <2>2, <2>3, <2>4 DEF Asked
<1>12. Opened'
  <2> SUFFICES ASSUME ft_pc \in {"create", "copy", "final"} PROVE Opened' BY <1>1 DEF Opened
  <2>1. Flow /\ ft_replies = <<>> /\ (ft_data.client \/ ft_pc = "final") BY <1>1 DEF Opened, EndedWell
  <2>2. Flow' BY <1>10, <2>1
  <2>3. /\ ft_pc # "final" => ft_data.client
        /\ ft_pc = "final" => ~ft_data.client
        /\ ~(ft_pc = "final" /\ Gets(ft_kind) /\ ft_xrc = 0)
        /\ ft_pc = "final" /\ ft_kind = "put" /\ ft_xrc = 0 => ft_count = FtSize
    BY <1>1 DEF Opened
  <2> QED BY <1>1, <1>2, <1>4, <2>1, <2>2, <2>3 DEF Opened
<1> QED BY <1>1, <1>5, <1>6, <1>7, <1>8, <1>9, <1>11, <1>12 DEF Told

\* The server ends the transfer: a good ending says that all went over.
LEMMA FtKeepsServerEnds == ASSUME FtInv, ServerEnds PROVE FtInv'
<1> USE DEF FtInv
<1> USE FtFields
<1>1. /\ ~ft_lost /\ ft_srv.job # "no" /\ UNCHANGED <<ft_verbs, ft_lost>>
      /\ UNCHANGED <<ft_pc, ft_said, ft_kind, ft_port, ft_count, ft_xrc, ft_told, ft_missed>>
      /\ ft_srv' = [ft_srv EXCEPT !.job = "no"] /\ ft_data' = [ft_data EXCEPT !.server = FALSE]
  BY DEF ServerEnds, ftclient
<1>2. /\ ft_srv' \in FtServer /\ ft_srv'.port = ft_srv.port /\ ft_srv'.last = ft_srv.last /\ ft_srv'.job = "no"
      /\ ft_srv'.what = ft_srv.what /\ ft_srv'.done = ft_srv.done
  <2>1. ft_srv \in FtServer BY DEF FtTypes
  <2> QED BY <1>1, <2>1 DEF FtServer, FtJobs
<1>3. /\ ft_data' \in FtData /\ ft_data'.server = FALSE /\ ft_data'.client = ft_data.client
      /\ ft_data'.up = ft_data.up /\ ft_data'.down = ft_data.down
  <2>1. ft_data \in FtData BY DEF FtTypes
  <2> QED BY <1>1, <2>1 DEF FtData
<1>4. /\ ft_srv.job = ft_srv.what /\ ft_data.server /\ ft_srv.port = 0 BY <1>1 DEF ServerSound
<1>5. PICK c \in {"ok", "err"} :
         /\ FtpAnswers(<<c>>)
         /\ c = "ok" => IF ft_srv.job = "put" THEN ft_data.up = 0 /\ ~ft_data.client ELSE ft_srv.done = FtSize
  BY DEF ServerEnds
<1>6. PICK n \in Nat : n = Len(ft_replies) OBVIOUS
<1>7. /\ ft_replies' \in Seq(FtReply) /\ Len(ft_replies') = n + 1 /\ DOMAIN ft_replies' = 1 .. n + 1
      /\ \A i \in 1 .. n : ft_replies'[i] = ft_replies[i]
      /\ ft_replies'[n + 1].code = c /\ ft_replies'[n + 1].port = 0
  <2>1. PICK codes \in Seq(FtCodes) : codes = <<c>> /\ Len(codes) = 1 /\ codes[1] = c BY FtCodeSeqs
  <2>2. FtpAnswers(codes) /\ ft_srv'.port \in Nat BY <1>2, <1>5, <2>1
  <2>3. /\ ft_replies' \in Seq(FtReply) /\ Len(ft_replies') = n + Len(codes)
        /\ DOMAIN ft_replies' = 1 .. n + Len(codes)
        /\ \A i \in 1 .. n : ft_replies'[i] = ft_replies[i]
        /\ \A i \in 1 .. Len(codes) : ft_replies'[n + i].code = codes[i] /\ ft_replies'[n + i].port = ft_srv'.port
    BY <1>6, <2>2, FtAdds
  <2>4. 1 \in 1 .. Len(codes) BY <2>1
  <2> QED BY <1>2, <1>4, <2>1, <2>3, <2>4
<1>8. FtTypes' BY <1>1, <1>2, <1>3, <1>7 DEF FtTypes
<1>9. ServerSound' BY <1>1, <1>2, <1>3 DEF ServerSound
<1>10. PortsOrdered'
  <2>1. ASSUME NEW i \in DOMAIN ft_replies'
        PROVE  ft_replies'[i].port <= ft_srv'.last /\ (ft_replies'[i].code = "pre" => ft_replies'[i].port = 0)
    <3>1. CASE i \in 1 .. n
      <4>1. i \in DOMAIN ft_replies /\ ft_replies'[i] = ft_replies[i] BY <1>6, <1>7, <3>1
      <4> QED BY <1>2, <4>1 DEF PortsOrdered
    <3>2. CASE i = n + 1 BY <1>2, <1>7, <3>2
    <3> QED BY <1>7, <2>1, <3>1, <3>2
  <2> QED BY <1>1, <1>2, <1>4, <2>1 DEF PortsOrdered
<1>11. ASSUME c = "ok", Flow, ft_data.client <=> ft_pc # "final",
              ~(ft_pc = "final" /\ Gets(ft_kind) /\ ft_xrc = 0)
       PROVE  EndedWell'
  <2>1. Flow' BY <1>1, <1>2, <1>3, <1>11 DEF Flow
  <2>2. Gets(ft_srv.what) => ft_srv.done = FtSize BY <1>4, <1>5, <1>11 DEF Gets
  <2>3. ~Gets(ft_srv.what) => ft_srv.what = "put" BY <1>1, <1>4 DEF Gets, FtJobs
  <2>4. ~Gets(ft_srv.what) => ft_data.up = 0 /\ ft_pc = "final" BY <1>4, <1>5, <1>11, <2>3
  <2> QED BY <1>1, <1>2, <1>3, <1>11, <2>1, <2>2, <2>3, <2>4 DEF EndedWell
<1>12. Asked'
  <2> SUFFICES ASSUME ft_pc = "XFER" PROVE Asked' BY <1>1 DEF Asked
  <2>1. ft_data.client /\ ft_count = 0 /\ ft_data.up = 0 /\ Flow BY <1>1 DEF Asked
  <2>2. c = "ok" => EndedWell' BY <1>11, <2>1
  <2>3. ASSUME NEW i \in DOMAIN ft_replies', ft_replies'[i].code = "pre" PROVE i = n
    <3>1. i \in 1 .. n BY <1>7, <2>3
    <3>2. i \in DOMAIN ft_replies /\ ft_replies'[i] = ft_replies[i] BY <1>6, <1>7, <3>1
    <3> QED BY <1>1, <1>6, <2>3, <3>2 DEF Asked, EndedWell
  <2>4. n < Len(ft_replies') BY <1>7
  <2>5. ASSUME NEW i \in DOMAIN ft_replies', ft_replies'[i].code = "pre"
        PROVE  \/ i < Len(ft_replies') /\ ft_replies'[i + 1].code = "err"
               \/ i < Len(ft_replies') /\ ft_replies'[i + 1].code = "ok" /\ EndedWell'
    BY <1>7, <2>2, <2>3, <2>4, <2>5
  <2> QED BY <1>1, <1>2, <1>3, <2>1, <2>5 DEF Asked
<1>13. ASSUME ft_pc \in {"create", "copy", "final"} PROVE Opened' /\ n = 0
  <2>1. Flow /\ ft_replies = <<>> /\ (ft_data.client <=> ft_pc # "final") BY <1>1, <1>13 DEF Opened, EndedWell
  <2>2. /\ ~(ft_pc = "final" /\ Gets(ft_kind) /\ ft_xrc = 0)
        /\ ft_pc = "final" /\ ft_kind = "put" /\ ft_xrc = 0 => ft_count = FtSize
    BY <1>1, <1>13 DEF Opened
  <2>3. n = 0 BY <1>6, <2>1
  <2>4. ft_replies' # <<>> /\ ft_replies'[1].code = c
    <3>1. 1 \in DOMAIN ft_replies' BY <1>7, <2>3
    <3>2. ft_replies' # <<>> BY <3>1
    <3>3. n + 1 = 1 BY <2>3
    <3>4. ft_replies'[1].code = c BY <1>7, <3>3
    <3> QED BY <3>2, <3>4
  <2>5. c = "ok" => EndedWell' BY <1>11, <2>1, <2>2
  <2> QED BY <1>1, <1>2, <1>3, <2>1, <2>2, <2>3, <2>4, <2>5 DEF Opened
<1>14. Opened' BY <1>1, <1>13 DEF Opened
<1>15. InStep'
  <2> SUFFICES ASSUME ~ft_missed, ft_pc # "closed" PROVE InStep' BY <1>1 DEF InStep
  <2>1. \/ ft_pc \in {"create", "copy", "final"}
        \/ ft_pc = "XFER" /\ ft_said
    BY <1>1 DEF InStep
  <2>2. CASE ft_pc = "XFER" /\ ft_said
    <3>1. ft_verbs = <<>> /\ ft_srv.what = ft_kind /\ n = 1 /\ ft_replies[1].code = "pre"
      BY <1>1, <1>6, <2>2 DEF InStep
    <3>2. Len(ft_replies') = 2 /\ ft_replies'[1].code = "pre" BY <1>7, <3>1
    <3> QED BY <1>1, <1>2, <2>2, <3>1, <3>2 DEF InStep
  <2>3. CASE ft_pc \in {"create", "copy", "final"}
    <3>1. ft_verbs = <<>> /\ ft_srv.what = ft_kind BY <1>1, <2>3 DEF InStep
    <3>2. Len(ft_replies') = 1 BY <1>7, <1>13, <2>3
    <3>3. ft_said = FALSE BY <2>3 DEF FtTypes, Speaks
    <3> QED BY <1>1, <1>2, <2>3, <3>1, <3>2, <3>3 DEF InStep
  <2> QED BY <2>1, <2>2, <2>3
<1>16. Told' BY <1>1 DEF Told
<1> QED BY <1>8, <1>9, <1>10, <1>12, <1>14, <1>15, <1>16

\* The server goes away.
LEMMA FtKeepsGone == ASSUME FtInv, ServerGone PROVE FtInv'
<1> USE DEF FtInv
<1> USE FtFields
<1>1. /\ ft_lost' = TRUE /\ ft_verbs' = <<>>
      /\ UNCHANGED <<ft_pc, ft_said, ft_kind, ft_port, ft_count, ft_xrc, ft_told, ft_missed, ft_replies>>
      /\ ft_srv' = [ft_srv EXCEPT !.job = "no", !.port = 0] /\ ft_data' = [ft_data EXCEPT !.server = FALSE]
  BY DEF ServerGone, ftclient
<1>2. /\ ft_srv' \in FtServer /\ ft_srv'.port = 0 /\ ft_srv'.last = ft_srv.last /\ ft_srv'.job = "no"
      /\ ft_srv'.what = ft_srv.what /\ ft_srv'.done = ft_srv.done
  <2>1. ft_srv \in FtServer BY DEF FtTypes
  <2> QED BY <1>1, <2>1 DEF FtServer, FtJobs
<1>3. /\ ft_data' \in FtData /\ ft_data'.server = FALSE /\ ft_data'.client = ft_data.client
      /\ ft_data'.up = ft_data.up /\ ft_data'.down = ft_data.down
  <2>1. ft_data \in FtData BY DEF FtTypes
  <2> QED BY <1>1, <2>1 DEF FtData
<1>4. <<>> \in Seq(FtVerbs) /\ Len(<<>>) = 0 OBVIOUS
<1>5. FtTypes' BY <1>1, <1>2, <1>3, <1>4 DEF FtTypes
<1>6. ServerSound' BY <1>1, <1>2, <1>3 DEF ServerSound
<1>7. PortsOrdered' BY <1>1, <1>2 DEF PortsOrdered
<1>8. Flow => Flow' BY <1>1, <1>2, <1>3 DEF Flow
<1>9. EndedWell => EndedWell' BY <1>1, <1>2, <1>3, <1>8 DEF EndedWell
<1>10. Asked' BY <1>1, <1>2, <1>3, <1>9 DEF Asked
<1>11. Opened' BY <1>1, <1>2, <1>3, <1>9 DEF Opened
<1>12. InStep'
  <2> SUFFICES ASSUME ~ft_missed, ft_pc # "closed" PROVE InStep' BY <1>1 DEF InStep
  <2>1. /\ ft_pc = "greet" => Len(ft_replies) <= 1
        /\ ~ft_said /\ ft_pc \notin {"greet", "create", "copy", "final"} => ft_replies = <<>>
        /\ ft_said /\ ft_pc = "XFER" =>
             /\ Len(ft_replies) <= 2 /\ (Len(ft_replies) = 2 => ft_replies[1].code = "pre")
             /\ Len(ft_replies) = 2 /\ ft_replies[2].code = "ok" => ft_srv.what = ft_kind
        /\ ft_pc \in {"create", "copy", "final"} =>
             /\ Len(ft_replies) <= 1
             /\ ft_replies # <<>> /\ ft_replies[1].code = "ok" => ft_srv.what = ft_kind
    BY DEF InStep
  <2>2. ft_said /\ ft_pc # "XFER" => Len(ft_verbs') + Len(ft_replies) <= 1
    <3> SUFFICES ASSUME ft_said, ft_pc # "XFER" PROVE Len(ft_verbs') + Len(ft_replies) <= 1 OBVIOUS
    <3>1. Len(ft_verbs) + Len(ft_replies) <= 1 BY DEF InStep
    <3>2. Len(ft_verbs) \in Nat BY DEF FtTypes
    <3> QED BY <1>1, <1>4, <3>1, <3>2
  <2> QED BY <1>1, <1>2, <2>1, <2>2 DEF InStep
<1>13. Told' BY <1>1, <1>2, <1>3 DEF Told, FtReportTrue
<1> QED BY <1>5, <1>6, <1>7, <1>10, <1>11, <1>12, <1>13

\* Every step keeps the invariant.
LEMMA FtKeeps == ASSUME FtAssumption, FtInv, [FtNext]_ftvars PROVE FtInv'
<1>1. CASE UNCHANGED ftvars BY <1>1, FtKeepsQuiet DEF ftvars, FtParts
<1>2. CASE Say BY <1>2, FtKeepsSay
<1>3. CASE Hear BY <1>3, FtKeepsHear, FtKeepsFinal
<1>4. CASE ftp_data_connect BY <1>4, FtKeepsConnect
<1>5. CASE CreateLocal BY <1>5, FtKeepsCreate
<1>6. CASE ftp_recv_to BY <1>6, FtKeepsReceive
<1>7. CASE PutLoop BY <1>7, FtKeepsPut
<1>8. CASE Prompt BY <1>8, FtKeepsQuiet DEF Prompt, ftnet, FtParts
<1>9. CASE Command BY <1>9, FtKeepsCommand
<1>10. CASE OpenHost BY <1>10, FtKeepsOpen
<1>11. CASE PressCtrlC BY <1>11, FtKeepsQuiet DEF PressCtrlC, ftnet, FtParts
<1>12. CASE ServerCommand BY <1>12, FtKeepsServer
<1>13. CASE ServerCopies BY <1>13, FtKeepsCopies
<1>14. CASE ServerEnds BY <1>14, FtKeepsServerEnds
<1>15. CASE ServerGone BY <1>15, FtKeepsGone
<1> QED
  BY <1>1, <1>2, <1>3, <1>4, <1>5, <1>6, <1>7, <1>8, <1>9, <1>10, <1>11, <1>12, <1>13, <1>14, <1>15 DEF FtNext

\* A file reported went over.
LEMMA FtReports == ASSUME FtInv PROVE FtReportTrue
BY DEF FtInv, Told, FtReportTrue

=============================================================================
