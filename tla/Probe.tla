-------------------------------- MODULE Probe --------------------------------
(***************************************************************************)
(* The commands that ask the network a question and wait for the answer:   *)
(* ping (ICMP, and UDP), traceroute, nslookup with a server, and sntp      *)
(* (src/src/cmds/TolunnetPing.c, traceroute.c, nslookup.c, sntp.c).        *)
(*                                                                         *)
(* Each sends numbered probes on an unconnected socket.  Answers may be    *)
(* lost, late, duplicated or reordered, and the socket also receives what  *)
(* is no answer: its own echo request (lwIP hands every ICMP packet to a   *)
(* RAW socket), the replies of another program, a runt.                    *)
(***************************************************************************)
EXTENDS Integers, Sequences

CONSTANTS
    PrCount,    \* ping's COUNT: probes of a run
    PrHops,     \* traceroute's MAXHOPS
    PrQueries,  \* traceroute's QUERIES: probes of one hop
    PrDist,     \* how many hops away the target is
    PrRunts,    \* rx_tries beyond which ping gives a probe up: after a runt,
    PrOthers,   \* and after a packet that is not the reply
    PrQueue     \* bound on the packets waiting at the socket

\* What the constants must satisfy.
PrAssumption ==
    /\ \A n \in {PrCount, PrDist, PrRunts, PrOthers, PrQueue} : n \in Nat
    /\ PrHops \in Nat \ {0} /\ PrQueries \in Nat \ {0}   \* traceroute.c:96-99

VARIABLES
    pr_tool,    \* the command
    pr_step,    \* "send", "wait" for an answer, "end"
    pr_at,      \* [hop, probe]: the loop counters; hop stays 1 but in traceroute
    pr_sent,    \* every probe sent so far: [id, ttl]
    pr_queue,   \* packets at the socket: [kind, n], n indexes pr_sent
    pr_tries,   \* rx_tries
    pr_rows,    \* what was told: [hop, n: the probe waited for, got: the packet]
    pr_sum,     \* [transmitted, acknowledged]
    pr_reached, \* traceroute: the target answered
    pr_rc       \* exit code, -1 while running
prvars == <<pr_tool, pr_step, pr_at, pr_sent, pr_queue, pr_tries, pr_rows, pr_sum,
            pr_reached, pr_rc>>

PrTools == {"ping", "udpping", "traceroute", "nslookup", "sntp"}
Pings == {"ping", "udpping"}
PrPackets == [kind : {"answer", "norecord", "own", "alien", "runt"}, n : 0..Len(pr_sent)]

----------------------------------------------------------------------------
\* The mark by which an answer names its probe: ICMP sequence, destination
\* port (less UDP_PROBE_PORT), or the txid both tries of nslookup share.
PortPerQuery(at) == at.probe
ProbeId(at) ==
    CASE pr_tool = "traceroute" -> (at.hop - 1) * PrQueries + at.probe
      [] pr_tool = "nslookup"   -> 1
      [] OTHER                  -> at.probe

\* The address an answer comes from: the router where the TTL ran out.
From(p) == IF pr_sent[p.n].ttl < PrDist THEN pr_sent[p.n].ttl ELSE PrDist

\* Does this packet answer the probe waited for?  An echo reply with our id
\* and this sequence; an ICMP error quoting the datagram to this port; a DNS
\* answer from the server asked, with our txid and a record of the type asked
\* for; with UDP ping and sntp, whatever comes first and is long enough.
AnyPort(p) == p.kind = "answer"
EchoReply(p) == p.kind = "answer" /\ pr_sent[p.n].id = ProbeId(pr_at)
tr_match(p) == p.kind = "answer" /\ pr_sent[p.n].id = ProbeId(pr_at)
OwnTransaction(p) == p.kind \in {"answer", "norecord"} /\ pr_sent[p.n].id = ProbeId(pr_at)
dns_parse_reply(p) == p.kind = "answer"
FirstDatagram(p) == p.kind # "runt"
Answers(p) ==
    CASE pr_tool = "ping"       -> EchoReply(p)
      [] pr_tool = "traceroute" -> tr_match(p)
      [] pr_tool = "nslookup"   -> OwnTransaction(p) /\ dns_parse_reply(p)
      [] OTHER                  -> FirstDatagram(p)

\* ping counts every packet it throws away; a runt has a limit of its own.
GivesUp(p) == pr_tries + 1 > IF p.kind = "runt" THEN PrRunts ELSE PrOthers

----------------------------------------------------------------------------
\* The exit code at the end of the loop.
PingRc(sum) == IF sum.acknowledged > 0 THEN 0 ELSE 5
End(rc) == pr_step' = "end" /\ pr_rc' = rc /\ UNCHANGED pr_at
Goto(at) == pr_step' = "send" /\ pr_at' = at /\ UNCHANGED pr_rc

\* The probe is over, answered or not: the next one, the next hop, or the end.
NextProbe == Goto([pr_at EXCEPT !.probe = @ + 1])
AfterPing == IF pr_at.probe = PrCount THEN End(PingRc(pr_sum')) ELSE NextProbe
AfterHopProbe(answered) ==
    IF pr_reached' THEN \E rc \in {0, 5} : End(rc)  \* 5: Ctrl-C meanwhile
    ELSE IF ~answered /\ pr_at.probe < PrQueries - 1 THEN NextProbe
    ELSE IF pr_at.hop = PrHops THEN End(5)
    ELSE Goto([hop |-> pr_at.hop + 1, probe |-> 0])
AfterTry(answered) == IF answered THEN End(0) ELSE IF pr_at.probe = 2 THEN End(10) ELSE NextProbe
AfterQuery(answered) == End(IF answered THEN 0 ELSE 5)
AfterProbe(answered) ==
    CASE pr_tool \in Pings       -> AfterPing
      [] pr_tool = "traceroute"  -> AfterHopProbe(answered)
      [] pr_tool = "nslookup"    -> AfterTry(answered)
      [] pr_tool = "sntp"        -> AfterQuery(answered)

\* sendto(): the probe leaves.  A RAW socket gets its own echo request back.
SendProbe ==
    /\ pr_step = "send"
    /\ pr_sent' = Append(pr_sent, [id |-> ProbeId(pr_at), ttl |-> pr_at.hop])
    /\ pr_sum' = [pr_sum EXCEPT !.transmitted = @ + 1]
    /\ pr_step' = "wait" /\ pr_tries' = 0
    /\ UNCHANGED <<pr_tool, pr_at, pr_queue, pr_rows, pr_reached, pr_rc>>

\* sendto() fails: ping goes on, nslookup and sntp stop; traceroute does not
\* look and waits all the same.
SendFails ==
    /\ pr_step = "send"
    /\ UNCHANGED <<pr_tool, pr_sent, pr_queue, pr_rows, pr_sum, pr_reached>>
    /\ pr_tries' = 0
    /\ CASE pr_tool \in Pings       -> AfterProbe(FALSE)
         [] pr_tool = "traceroute"  -> pr_step' = "wait" /\ UNCHANGED <<pr_at, pr_rc>>
         [] OTHER                   -> End(10)

\* Ctrl-C, looked for before each probe: ping sums up, traceroute warns.
PrBreak ==
    /\ pr_step = "send" /\ pr_tool \in Pings \cup {"traceroute"}
    /\ End(IF pr_tool \in Pings THEN PingRc(pr_sum) ELSE 5)
    /\ UNCHANGED <<pr_tool, pr_sent, pr_queue, pr_tries, pr_rows, pr_sum, pr_reached>>

\* WaitSelect() runs into the timeout, or traceroute's deadline has passed.
PrTimeout ==
    /\ pr_step = "wait" /\ (pr_queue = <<>> \/ pr_tool = "traceroute")
    /\ UNCHANGED <<pr_tool, pr_sent, pr_queue, pr_tries, pr_rows, pr_sum, pr_reached>>
    /\ AfterProbe(FALSE)

\* recvfrom() returns an answer to the probe: it is told, and counted.
PrCredit ==
    /\ pr_step = "wait" /\ pr_queue # <<>> /\ Answers(Head(pr_queue))
    /\ pr_queue' = Tail(pr_queue)
    /\ pr_rows' = Append(pr_rows, [hop |-> pr_at.hop, n |-> Len(pr_sent), got |-> Head(pr_queue)])
    /\ pr_sum' = [pr_sum EXCEPT !.acknowledged = @ + 1]
    /\ pr_reached' = (pr_reached \/ (pr_tool = "traceroute" /\ From(Head(pr_queue)) = PrDist))
    /\ UNCHANGED <<pr_tool, pr_sent, pr_tries>>
    /\ AfterProbe(TRUE)

\* It returns anything else.  ping and traceroute throw it away and wait on;
\* nslookup has one packet per try, and sntp one packet.
PrDiscard ==
    /\ pr_step = "wait" /\ pr_queue # <<>> /\ ~Answers(Head(pr_queue))
    /\ pr_queue' = Tail(pr_queue)
    /\ pr_tries' = IF pr_tool \in Pings THEN pr_tries + 1 ELSE pr_tries
    /\ UNCHANGED <<pr_tool, pr_sent, pr_rows, pr_sum, pr_reached>>
    /\ CASE pr_tool \in Pings       -> IF GivesUp(Head(pr_queue)) THEN AfterProbe(FALSE)
                                       ELSE UNCHANGED <<pr_step, pr_at, pr_rc>>
         [] pr_tool = "traceroute"  -> UNCHANGED <<pr_step, pr_at, pr_rc>>
         [] pr_tool = "nslookup"    -> AfterProbe(FALSE)
         [] pr_tool = "sntp"        -> End(10)

\* The network: an answer to any probe ever sent, at any time and any number
\* of times; the probe itself on a RAW socket; somebody else's packet.
PrArrive ==
    /\ pr_step # "end" /\ Len(pr_queue) < PrQueue
    /\ \E p \in PrPackets :
          /\ (p.n = 0) <=> (p.kind \in {"alien", "runt"})
          /\ p.kind = "own" => pr_tool = "ping"
          /\ p.kind = "norecord" => pr_tool = "nslookup"  \* an answer that says no
          /\ pr_queue' = Append(pr_queue, p)
    /\ UNCHANGED <<pr_tool, pr_step, pr_at, pr_sent, pr_tries, pr_rows, pr_sum, pr_reached, pr_rc>>

PrInit ==
    /\ pr_tool \in PrTools
    /\ pr_at = [hop |-> 1, probe |-> IF pr_tool = "traceroute" THEN 0 ELSE 1]
    /\ pr_step = "send" /\ pr_sent = <<>> /\ pr_queue = <<>> /\ pr_tries = 0
    /\ pr_rows = <<>> /\ pr_sum = [transmitted |-> 0, acknowledged |-> 0]
    /\ pr_reached = FALSE /\ pr_rc = -1
PrNext == SendProbe \/ SendFails \/ PrBreak \/ PrTimeout \/ PrCredit \/ PrDiscard \/ PrArrive

----------------------------------------------------------------------------
PrTypeOK ==
    /\ pr_tool \in PrTools /\ pr_step \in {"send", "wait", "end"}
    /\ pr_at \in [hop : 1..PrHops, probe : Nat]
    /\ pr_sent \in Seq([id : Nat, ttl : 1..PrHops]) /\ pr_queue \in Seq(PrPackets)
    /\ pr_tries \in Nat /\ pr_reached \in BOOLEAN /\ pr_rc \in {-1, 0, 5, 10}
    /\ pr_sum \in [transmitted : Nat, acknowledged : Nat]
    /\ pr_rows \in Seq([hop : 1..PrHops, n : Nat, got : PrPackets])

\* Every line told is the answer to the probe it is told for, however late,
\* doubled or reordered the answers are: a late reply belongs to no probe
\* (TolunnetPing.c:337), a hop names the router at that distance, nslookup
\* believes its own transaction only.  UDP ping and sntp, which take the
\* first datagram, are left out.  No more is acknowledged than transmitted
\* (the loss is unsigned), and traceroute reaches only the target.
AnswersOwnProbe ==
    /\ pr_tool \notin {"udpping", "sntp"} => \A i \in DOMAIN pr_rows :
          LET row == pr_rows[i] IN
          /\ row.got.kind = "answer"
          /\ pr_tool = "nslookup" \/ row.got.n = row.n
          /\ pr_tool = "traceroute" => pr_sent[row.got.n].ttl = row.hop
    /\ pr_sum.acknowledged <= pr_sum.transmitted
    /\ pr_reached => pr_at.hop >= PrDist

----------------------------------------------------------------------------
(* The strengthening of AnswersOwnProbe that every step keeps.              *)

\* The marks of ping and traceroute grow, the probe now asked for has the
\* largest, and a probe that bears it was sent at this hop.
MarksGrow ==
    /\ \A i, j \in DOMAIN pr_sent : i < j => pr_sent[i].id < pr_sent[j].id
    /\ \A i \in DOMAIN pr_sent :
          /\ pr_sent[i].id <= ProbeId(pr_at)
          /\ pr_step = "send" => pr_sent[i].id # ProbeId(pr_at)
          /\ pr_sent[i].id = ProbeId(pr_at) => pr_sent[i].ttl = pr_at.hop

\* The probe now asked for did leave; traceroute does not look whether it did.
Outstanding == pr_step = "wait" /\ (pr_tool = "traceroute" =>
                   \E i \in DOMAIN pr_sent : pr_sent[i].id = ProbeId(pr_at))

\* What was told is about probes that were sent.
RowsKnown == pr_tool \notin {"udpping", "sntp"} =>
                \A i \in DOMAIN pr_rows : pr_rows[i].got.n \in DOMAIN pr_sent

PrInv ==
    /\ PrTypeOK /\ AnswersOwnProbe /\ RowsKnown
    /\ pr_tool = "traceroute" => pr_at.probe < PrQueries
    /\ pr_tool \in {"ping", "traceroute"} => MarksGrow
    /\ \A i \in DOMAIN pr_queue : (pr_queue[i].n = 0) <=> (pr_queue[i].kind \in {"alien", "runt"})
    /\ Outstanding => pr_sum.acknowledged < pr_sum.transmitted
=============================================================================
