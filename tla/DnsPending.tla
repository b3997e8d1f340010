----------------------------- MODULE DnsPending -----------------------------
(***************************************************************************)
(* Deferred host lookups: the pending table of src/task/ipc_netdb.c, its   *)
(* completion by lwIP's callback, and the three ways a request is taken    *)
(* back (CANCEL, CLOSE, the reap of a dead client).                        *)
(*                                                                         *)
(* A message is named by the base it is embedded in: a client reuses the   *)
(* same message for its next call, and a base allocated where a closed one *)
(* was has the same message address.  lwIP has no way to remove a lookup,  *)
(* so its callback for a request taken back still comes.                   *)
(***************************************************************************)
EXTENDS Naturals, FiniteSets

CONSTANTS DnsBases,       \* bases, and the message embedded in each
          DnsNames,       \* the host names asked for
          DnsFold,        \* [DnsNames -> ...]: a name without its letter case
          TN_DNS_PENDING_MAX,
          DnsLimits,      \* values of the DNS_PENDING preference
          LwipRequests,   \* lookups lwIP can have outstanding
          NoDns           \* NULL

\* What the constants must satisfy.
DnsAssumption ==
    /\ TN_DNS_PENDING_MAX \in Nat \ {0} /\ LwipRequests \in Nat \ {0}
    /\ DnsLimits \subseteq 1 .. TN_DNS_PENDING_MAX /\ TN_DNS_PENDING_MAX \in DnsLimits
    /\ DOMAIN DnsFold = DnsNames /\ NoDns \notin DnsBases \cup DnsNames
    /\ NoDns \notin [imsg : DnsBases, base : DnsBases, name : DnsNames]

VARIABLES dns_pending,        \* [slot -> NULL or the request kept there]
          dns_pending_count,
          dns_eff,            \* prefs.dns_pending_max, as the handler bounds it
          lwip_dns,           \* callbacks lwIP owes: [base, name] -> how many
          dns_client          \* [state, name] of each base

dnsvars == <<dns_pending, dns_pending_count, dns_eff, lwip_dns, dns_client>>

DnsSlots  == 1 .. TN_DNS_PENDING_MAX
DnsKeys   == DnsBases \X DnsNames
DnsRecord == [imsg : DnsBases, base : DnsBases, name : DnsNames]
RecordsInUse     == {i \in DnsSlots : dns_pending[i] # NoDns}
Of(b)     == {i \in RecordsInUse : dns_pending[i].base = b}
Owed      == {k \in DnsKeys : lwip_dns[k] > 0}
FullLwip  == Cardinality(Owed) >= LwipRequests \/ \E k \in Owed : lwip_dns[k] >= LwipRequests

\* result is what the client's call returned: an answer for a name, or an error.
ClientIs(b, s, result) == dns_client' = [dns_client EXCEPT ![b] = [state |-> s, name |-> result]]

\* Matching that trusts the message address alone.
MatchAddressOnly(rec, b, n) == rec.imsg = b

\* The message and, regardless of case, the name.
tn_dns_matches(rec, b, n) == rec.imsg = b /\ DnsFold[rec.name] = DnsFold[n]

Released(slots) == [i \in DnsSlots |-> IF i \in slots THEN NoDns ELSE dns_pending[i]]

DnsLookup(b, n) ==
    /\ dns_client[b].state \in {"idle", "answered", "failed"}
    /\ \/ \* a dotted address, a cached name, or no name server: answered now
          /\ \/ ClientIs(b, "answered", n)
             \/ ClientIs(b, "failed", n)
          /\ UNCHANGED <<dns_pending, dns_pending_count, lwip_dns>>
       \/ \* lwIP has taken the callback before the table is looked at
          /\ ~FullLwip
          /\ lwip_dns' = [lwip_dns EXCEPT ![<<b, n>>] = @ + 1]
          /\ LET window == 1 .. dns_eff
                 same == {i \in window \cap RecordsInUse : dns_pending[i].name = n}
                 free == window \ RecordsInUse
             IN \/ /\ same # {} \/ free = {}      \* EAGAIN
                   /\ ClientIs(b, "failed", n)
                   /\ UNCHANGED <<dns_pending, dns_pending_count>>
                \/ /\ same = {} /\ free # {}
                   /\ LET i == CHOOSE j \in free : \A k \in free : j <= k IN
                      dns_pending' = [dns_pending EXCEPT ![i] =
                                        [imsg |-> b, base |-> b, name |-> n]]
                   /\ dns_pending_count' = IF dns_pending_count < TN_DNS_PENDING_MAX
                                           THEN dns_pending_count + 1 ELSE dns_pending_count
                   /\ ClientIs(b, "waiting", n)
    /\ UNCHANGED dns_eff
tn_ipc_cmd_gethostbyname == \E b \in DnsBases, n \in DnsNames : DnsLookup(b, n)

\* lwIP calls back, with an address or without one.
tn_dns_found_cb ==
    \E k \in Owed, found \in BOOLEAN :
        /\ lwip_dns' = [lwip_dns EXCEPT ![k] = @ - 1]
        /\ LET hits == {i \in RecordsInUse : tn_dns_matches(dns_pending[i], k[1], k[2])} IN
           \/ hits = {} /\ UNCHANGED <<dns_pending, dns_pending_count, dns_client>>
           \/ /\ hits # {}
              /\ LET i == CHOOSE j \in hits : \A h \in hits : j <= h IN
                 /\ dns_pending' = Released({i})
                 /\ ClientIs(dns_pending[i].imsg, IF found THEN "answered" ELSE "failed", k[2])
              /\ dns_pending_count' = dns_pending_count - 1
        /\ UNCHANGED dns_eff

\* Ctrl-C in the client: CANCEL takes its request back and answers it EINTR.
DnsCancel ==
    \E b \in DnsBases :
        /\ dns_client[b].state = "waiting"
        /\ dns_pending' = Released(Of(b))
        /\ dns_pending_count' = dns_pending_count - Cardinality(Of(b))
        /\ ClientIs(b, "failed", dns_client[b].name)
        /\ UNCHANGED <<dns_eff, lwip_dns>>

\* A cancel that leaves the record behind.
CancelForgetsRecord(b) == UNCHANGED <<dns_pending, dns_pending_count>>

\* A cancel that counts a record down whether the base has one or not.
CancelCountsBlindly(b) ==
    dns_pending' = Released(Of(b)) /\ dns_pending_count' = dns_pending_count - 1

\* CLOSE and reap: every record of the base goes.
tn_dns_cancel_for_base(b) ==
    /\ dns_pending' = Released(Of(b))
    /\ dns_pending_count' = dns_pending_count - Cardinality(Of(b))

\* The base closes (its last call may have been abandoned by the watchdog, so
\* it may still be waiting), or its task dies and is reaped.
DnsClose ==
    \E b \in DnsBases :
        /\ dns_client[b].state # "closed"
        /\ tn_dns_cancel_for_base(b)
        /\ ClientIs(b, "closed", NoDns)
        /\ UNCHANGED <<dns_eff, lwip_dns>>

\* A new base at the same address.
DnsOpen ==
    \E b \in DnsBases :
        /\ dns_client[b].state = "closed"
        /\ ClientIs(b, "idle", NoDns)
        /\ UNCHANGED <<dns_pending, dns_pending_count, dns_eff, lwip_dns>>

\* RECONFIG applies DNS_PENDING.
DnsReconfig ==
    \E e \in DnsLimits :
        /\ dns_eff' = e
        /\ UNCHANGED <<dns_pending, dns_pending_count, lwip_dns, dns_client>>

DnsInit ==
    /\ dns_pending = [i \in DnsSlots |-> NoDns] /\ dns_pending_count = 0
    /\ dns_eff = TN_DNS_PENDING_MAX
    /\ lwip_dns = [k \in DnsKeys |-> 0]
    /\ dns_client = [b \in DnsBases |-> [state |-> "closed", name |-> NoDns]]

DnsNext == \/ tn_ipc_cmd_gethostbyname \/ tn_dns_found_cb \/ DnsCancel \/ DnsClose
           \/ DnsOpen \/ DnsReconfig

----------------------------------------------------------------------------
DnsStates == {"closed", "idle", "waiting", "answered", "failed"}

\* The table, the counter and the clients are well formed.
DnsTypeOK ==
    /\ dns_pending \in [DnsSlots -> DnsRecord \cup {NoDns}]
    /\ dns_pending_count \in 0 .. TN_DNS_PENDING_MAX /\ dns_eff \in DnsLimits
    /\ lwip_dns \in [DnsKeys -> 0 .. LwipRequests]
    /\ dns_client \in [DnsBases -> [state : DnsStates, name : DnsNames \cup {NoDns}]]

\* Whoever waits for a lookup, and no one else, has exactly one record in the
\* table, for the name it asked, and lwIP still owes the callback that will
\* find that record: no waiter is forgotten, and no late callback can touch
\* the message or the base of a client that is gone (TNET-150).
WaitersTracked ==
    /\ \A b \in DnsBases :
         LET recs == {i \in RecordsInUse : dns_pending[i].imsg = b} IN
         IF dns_client[b].state = "waiting"
         THEN /\ Cardinality(recs) = 1
              /\ \A i \in recs : dns_pending[i].name = dns_client[b].name
              /\ \E k \in Owed : k[1] = b /\ DnsFold[k[2]] = DnsFold[dns_client[b].name]
         ELSE recs = {}
    /\ dns_pending_count = Cardinality(RecordsInUse)

\* An answer is an answer to the question asked: a callback that comes after
\* its request was taken back never completes a later lookup of another name
\* that the client makes with the same message.
NoStaleAnswer ==
    \A b \in DnsBases :
        dns_client[b].state = "waiting" /\ dns_client'[b].state \in {"answered", "failed"} =>
            DnsFold[dns_client'[b].name] = DnsFold[dns_client[b].name]

\* Every lookup under way is tracked, and every answer given is its own.
DnsAnswersOwn == []WaitersTracked /\ [][NoStaleAnswer]_dnsvars
----------------------------------------------------------------------------
(* The strengthening of WaitersTracked that every step keeps. *)

\* A record is its client's: the client waits for that name, and lwIP owes a
\* callback that matches the record.
RecordSound(r) ==
    /\ r.base = r.imsg /\ dns_client[r.imsg] = [state |-> "waiting", name |-> r.name]
    /\ \E k \in Owed : tn_dns_matches(r, k[1], k[2])

DnsInv ==
    /\ DnsTypeOK
    /\ \A i \in RecordsInUse : RecordSound(dns_pending[i])
    /\ \A i, j \in RecordsInUse : dns_pending[i].imsg = dns_pending[j].imsg => i = j
    /\ \A b \in DnsBases : dns_client[b].state = "waiting" =>
          \E i \in RecordsInUse : dns_pending[i].imsg = b
    /\ dns_pending_count = Cardinality(RecordsInUse)
=============================================================================
