-------------------------------- MODULE Tftp --------------------------------
(***************************************************************************)
(* The tftp command, src/cmds/tftp.c: GET and PUT of one file in octet     *)
(* mode over a network that loses, duplicates, delays and reorders, with   *)
(* a server that opens a new transfer ID for every request it sees.        *)
(*                                                                         *)
(* A file is its blocks 1 .. size + 1, the last one short (or empty).  A   *)
(* packet carries the block's true number n as history; the programs see   *)
(* n % TfModulus, the UWORD block counter.  A packet older than TfLife     *)
(* blocks is gone from the network: no protocol with a wrapping counter    *)
(* survives older ones.                                                    *)
(***************************************************************************)
EXTENDS Naturals, Sequences, FiniteSets

CONSTANTS TfSizes,    \* full blocks in the file
          TfModulus,  \* 2^16, scaled
          TfLife,     \* blocks a delayed packet survives
          TfNet,      \* packets in flight in each direction
          TfRetries,  \* RETRIES
          STRAY_MAX

\* What the constants must satisfy.
TfAssumption ==
    /\ TfSizes \subseteq Nat /\ TfModulus \in Nat \ {0} /\ TfNet \in Nat
    /\ TfLife \in 0 .. TfModulus - 2 /\ TfRetries \in Nat /\ STRAY_MAX \in Nat

VARIABLES tf_op, tf_size,        \* "GET" or "PUT"; full blocks of the file
          tf_pc,                 \* "request", "transfer", or how the command ended
          tf_waiting, tf_tries, tf_stray,
          tf_tid,                \* the transfer ID locked onto, 0 before
          tf_n,                  \* blocks written and acknowledged, or the block sent
          tf_file,               \* GET: blocks written
          tf_up, tf_down,        \* packets to the server and to the client
          tf_srv                 \* the server's sessions: block reached, blocks stored

tfvars == <<tf_op, tf_size, tf_pc, tf_waiting, tf_tries, tf_stray, tf_tid, tf_n, tf_file,
            tf_up, tf_down, tf_srv>>
tfserver == <<tf_op, tf_size, tf_srv>>

Wire(n) == n % TfModulus
Pkt(op, n, tid) == [op |-> op, n |-> n, tid |-> tid]
LastBlock == tf_size + 1
Sessions == DOMAIN tf_srv

\* What is in flight after p is sent, when the network has room for it.
With(net, p) == IF Cardinality(net \cup {p}) > TfNet THEN net ELSE net \cup {p}
\* What may be left of it after p is delivered: a duplicate, or nothing.
Taken(net, p) == {net, net \ {p}}

----------------------------------------------------------------------------
\* The client.
tf_sent == <<tf_op, tf_size, tf_srv, tf_down>>

\* RRQ or WRQ, RETRIES times.
tftp_request ==
    /\ tf_pc = "request" /\ ~tf_waiting
    /\ IF tf_tries < TfRetries
       THEN /\ tf_waiting' = TRUE /\ tf_tries' = tf_tries + 1
            /\ tf_up' = With(tf_up, Pkt("REQ", 0, 0)) /\ UNCHANGED tf_pc
       ELSE tf_pc' = "fail" /\ UNCHANGED <<tf_waiting, tf_tries, tf_up>>
    /\ UNCHANGED <<tf_sent, tf_stray, tf_tid, tf_n, tf_file>>

\* A GET that takes whatever block it has not just acknowledged.
AnyNewBlock(p) == Wire(p.n) # Wire(tf_n)

IsNextBlock(p) == Wire(p.n) = Wire(tf_n + 1)

\* One DATA packet: the next block is written and acknowledged, the last one
\* again acknowledged, any other dropped.  Write() may fail.
TakeData(p) ==
    \/ /\ IsNextBlock(p)
       /\ tf_file' = Append(tf_file, p.n) /\ tf_n' = tf_n + 1
       /\ tf_up' = With(tf_up, Pkt("ACK", tf_n + 1, p.tid))
       /\ tf_pc' = IF p.n = LastBlock THEN "ok" ELSE "transfer"
    \/ /\ IsNextBlock(p) /\ tf_pc' = "fail" /\ UNCHANGED <<tf_file, tf_n, tf_up>>
    \/ /\ ~IsNextBlock(p) /\ Wire(p.n) = Wire(tf_n)
       /\ tf_up' = With(tf_up, Pkt("ACK", tf_n, p.tid))
       /\ tf_pc' = "transfer" /\ UNCHANGED <<tf_file, tf_n>>
    \/ /\ ~IsNextBlock(p) /\ Wire(p.n) # Wire(tf_n)
       /\ tf_pc' = "transfer" /\ UNCHANGED <<tf_file, tf_n, tf_up>>

\* Send block n of the file from the client.
PutBlock(n, tid) == tf_up' = With(tf_up, Pkt("DATA", n, tid))

\* The first reply decides the transfer ID.
FirstReply(p) ==
    /\ tf_pc = "request" /\ tf_waiting
    /\ \/ /\ tf_op = "GET" /\ p.op = "DATA"
          /\ tf_tid' = p.tid /\ TakeData(p)
       \/ /\ tf_op = "PUT" /\ p.op = "ACK"
          /\ tf_tid' = p.tid /\ tf_pc' = "transfer"
          /\ tf_n' = 1 /\ PutBlock(1, p.tid) /\ UNCHANGED tf_file
       \/ /\ p.op = "ERROR" \/ p.op # (IF tf_op = "GET" THEN "DATA" ELSE "ACK")
          /\ tf_pc' = "fail" /\ UNCHANGED <<tf_tid, tf_n, tf_file, tf_up>>
    /\ tf_tries' = 0 /\ UNCHANGED <<tf_waiting, tf_stray>>

\* A round without an answer: acknowledge again, RETRIES times.
IdleRound ==
    /\ tf_tries' = tf_tries + 1
    /\ IF tf_tries + 1 > TfRetries
       THEN tf_pc' = "fail" /\ UNCHANGED tf_up
       ELSE tf_up' = With(tf_up, Pkt("ACK", tf_n, tf_tid)) /\ UNCHANGED tf_pc
    /\ UNCHANGED <<tf_tid, tf_n, tf_file, tf_waiting, tf_stray>>

\* A packet from another transfer ID ends the wait like a timeout.
GetReply(p) ==
    /\ tf_pc = "transfer" /\ tf_op = "GET"
    /\ \/ p.tid # tf_tid /\ IdleRound
       \/ /\ p.tid = tf_tid /\ p.op = "ERROR" /\ tf_pc' = "fail"
          /\ UNCHANGED <<tf_tries, tf_tid, tf_n, tf_file, tf_up, tf_waiting, tf_stray>>
       \/ /\ p.tid = tf_tid /\ p.op = "DATA" /\ TakeData(p) /\ tf_tries' = 0
          /\ UNCHANGED <<tf_tid, tf_waiting, tf_stray>>

\* A PUT that takes any ACK of its session for the one it waits for.
AnyAck(p) == p.op = "ACK"

IsOurAck(p) == p.op = "ACK" /\ Wire(p.n) = Wire(tf_n)

\* Our ACK moves on to the next block; a stale or foreign packet before the
\* deadline neither resends nor restarts the timer.
PutReply(p) ==
    /\ tf_pc = "transfer" /\ tf_op = "PUT"
    /\ \/ /\ p.tid = tf_tid /\ IsOurAck(p)
          /\ IF tf_n = LastBlock
             THEN tf_pc' = "ok" /\ UNCHANGED <<tf_n, tf_up>>
             ELSE tf_n' = tf_n + 1 /\ PutBlock(tf_n + 1, tf_tid) /\ UNCHANGED tf_pc
          /\ tf_tries' = 0 /\ tf_stray' = 0
       \/ /\ p.tid = tf_tid /\ p.op = "ERROR"
          /\ tf_pc' = "fail" /\ UNCHANGED <<tf_n, tf_up, tf_tries, tf_stray>>
       \/ /\ p.tid # tf_tid \/ (p.op # "ERROR" /\ ~IsOurAck(p))
          /\ tf_stray' = tf_stray + 1
          /\ tf_pc' = IF tf_stray + 1 > STRAY_MAX THEN "fail" ELSE "transfer"
          /\ UNCHANGED <<tf_n, tf_up, tf_tries>>
    /\ UNCHANGED <<tf_tid, tf_file, tf_waiting>>

tftp_wait_packet ==
    /\ \E p \in tf_down :
         /\ tf_down' \in Taken(tf_down, p)
         /\ FirstReply(p) \/ GetReply(p) \/ PutReply(p)
    /\ UNCHANGED tfserver

tftp_timeout ==
    /\ \/ /\ tf_pc = "request" /\ tf_waiting /\ tf_waiting' = FALSE
          /\ UNCHANGED <<tf_pc, tf_tries, tf_stray, tf_tid, tf_n, tf_file, tf_up>>
       \/ tf_pc = "transfer" /\ tf_op = "GET" /\ IdleRound
       \/ /\ tf_pc = "transfer" /\ tf_op = "PUT" /\ tf_tries' = tf_tries + 1
          /\ IF tf_tries + 1 > TfRetries
             THEN tf_pc' = "fail" /\ UNCHANGED tf_up
             ELSE PutBlock(tf_n, tf_tid) /\ UNCHANGED tf_pc
          /\ UNCHANGED <<tf_waiting, tf_stray, tf_tid, tf_n, tf_file>>
    /\ UNCHANGED <<tf_sent>>

tftp_break ==
    /\ tf_pc \in {"request", "transfer"} /\ tf_pc' = "warn"
    /\ UNCHANGED <<tf_sent, tf_waiting, tf_tries, tf_stray, tf_tid, tf_n, tf_file, tf_up>>

----------------------------------------------------------------------------
\* The server, as RFC 1350 has it, and the network.
client_UNCHANGED == UNCHANGED <<tf_op, tf_size, tf_pc, tf_waiting, tf_tries, tf_stray, tf_tid,
                                tf_n, tf_file>>
Reply(p) == tf_down' = With(tf_down, p)
Session(t, n, stored) == tf_srv' = [tf_srv EXCEPT ![t] = [n |-> n, stored |-> stored]]

ServerTakes(p) ==
    \/ /\ p.op = "REQ" /\ Len(tf_srv) < 2
       /\ LET t == Len(tf_srv) + 1 IN
          \/ /\ tf_srv' = Append(tf_srv, [n |-> IF tf_op = "GET" THEN 1 ELSE 0, stored |-> <<>>])
             /\ Reply(IF tf_op = "GET" THEN Pkt("DATA", 1, t) ELSE Pkt("ACK", 0, t))
          \/ Reply(Pkt("ERROR", 0, t)) /\ UNCHANGED tf_srv
    \/ /\ p.op = "ACK" /\ p.tid \in Sessions /\ tf_op = "GET"
       /\ Wire(p.n) = Wire(tf_srv[p.tid].n) /\ tf_srv[p.tid].n < LastBlock
       /\ Session(p.tid, tf_srv[p.tid].n + 1, <<>>)
       /\ Reply(Pkt("DATA", tf_srv[p.tid].n + 1, p.tid))
    \/ /\ p.op = "DATA" /\ p.tid \in Sessions
       /\ LET s == tf_srv[p.tid]
              new == Wire(p.n) = Wire(s.n + 1)
          IN /\ new \/ Wire(p.n) = Wire(s.n)
             /\ IF new THEN Session(p.tid, s.n + 1, Append(s.stored, p.n)) ELSE UNCHANGED tf_srv
             /\ Reply(Pkt("ACK", IF new THEN s.n + 1 ELSE s.n, p.tid))

ServerReceives ==
    /\ \E p \in tf_up : tf_up' \in Taken(tf_up, p) /\ ServerTakes(p)
    /\ client_UNCHANGED

ServerResends ==
    /\ tf_op = "GET"
    /\ \E t \in Sessions : Reply(Pkt("DATA", tf_srv[t].n, t))
    /\ UNCHANGED <<tf_up, tf_srv>> /\ client_UNCHANGED

Expired(p) == p.op \in {"DATA", "ACK"} /\ p.n + TfLife < tf_n
NetworkLoses ==
    /\ \/ \E p \in tf_up : tf_up' = tf_up \ {p} /\ UNCHANGED tf_down
       \/ \E p \in tf_down : tf_down' = tf_down \ {p} /\ UNCHANGED tf_up
    /\ UNCHANGED tf_srv /\ client_UNCHANGED

TfInit ==
    /\ tf_op \in {"GET", "PUT"} /\ tf_size \in TfSizes
    /\ tf_pc = "request" /\ tf_waiting = FALSE /\ tf_tries = 0 /\ tf_stray = 0
    /\ tf_tid = 0 /\ tf_n = 0 /\ tf_file = <<>>
    /\ tf_up = {} /\ tf_down = {} /\ tf_srv = <<>>

\* What has outlived TfLife is dropped before anything else happens.
TfNext ==
    IF \E p \in tf_up \cup tf_down : Expired(p)
    THEN /\ tf_up' = {p \in tf_up : ~Expired(p)} /\ tf_down' = {p \in tf_down : ~Expired(p)}
         /\ UNCHANGED tf_srv /\ client_UNCHANGED
    ELSE \/ tftp_request \/ tftp_wait_packet \/ tftp_timeout \/ tftp_break
         \/ ServerReceives \/ ServerResends \/ NetworkLoses

----------------------------------------------------------------------------
TfTypeOK ==
    /\ tf_op \in {"GET", "PUT"} /\ tf_size \in TfSizes
    /\ tf_pc \in {"request", "transfer", "ok", "fail", "warn"} /\ tf_waiting \in BOOLEAN
    /\ tf_tries \in 0 .. TfRetries + 1 /\ tf_stray \in 0 .. STRAY_MAX + 1
    /\ tf_n \in 0 .. LastBlock /\ tf_tid \in 0 .. 2

Whole(blocks) == blocks = [i \in 1 .. LastBlock |-> i]
Prefix(blocks) == \A i \in DOMAIN blocks : blocks[i] = i

\* What the receiving side has is always the first blocks of the file, each
\* once and in order, and a command that reports "received" or "sent" leaves
\* the whole file there: through lost, repeated and late packets, a request
\* the server answered twice, and the wrap of the block counter.
TransferExact ==
    /\ Prefix(tf_file) /\ \A t \in Sessions : Prefix(tf_srv[t].stored)
    /\ tf_pc = "ok" =>
          Whole(IF tf_op = "GET" THEN tf_file ELSE tf_srv[tf_tid].stored)

----------------------------------------------------------------------------
(* The strengthening of TransferExact that every step keeps.                *)

Counted(blocks, n) == blocks = [i \in 1 .. n |-> i]

\* The client sends to the session it has locked onto only, and nothing newer
\* than its own block.
UpSound(p) ==
    p.op # "REQ" => /\ p.op = (IF tf_op = "GET" THEN "ACK" ELSE "DATA")
                    /\ tf_tid # 0 /\ p.tid = tf_tid /\ p.n \in 0 .. tf_n

\* A session sends nothing newer than the block it has reached.
DownSound(p) ==
    p.op # "ERROR" => /\ p.op = (IF tf_op = "GET" THEN "DATA" ELSE "ACK")
                      /\ p.tid \in Sessions /\ p.n \in 0 .. tf_srv[p.tid].n
                      /\ tf_op = "GET" => p.n # 0

\* The session locked onto is at the client's block or one step from it; the
\* other one never left its beginning.
SessionSound(t) ==
    LET s == tf_srv[t] IN
    /\ s.n \in 0 .. LastBlock
    /\ tf_op = "GET" => /\ s.stored = <<>> /\ s.n # 0
                        /\ IF t = tf_tid THEN tf_n <= s.n /\ s.n <= tf_n + 1 ELSE s.n = 1
    /\ tf_op = "PUT" => /\ Counted(s.stored, s.n)
                        /\ IF t = tf_tid THEN s.n <= tf_n /\ tf_n <= s.n + 1 ELSE s.n = 0

ClientSound ==
    /\ tf_op \in {"GET", "PUT"} /\ tf_size \in TfSizes
    /\ tf_tid \in Sessions \cup {0} /\ tf_n \in 0 .. LastBlock
    /\ tf_pc = "request" => tf_tid = 0
    /\ tf_pc = "transfer" => tf_tid # 0
    /\ tf_tid = 0 => tf_n = 0
    /\ tf_op = "GET" => Counted(tf_file, tf_n)
    /\ tf_op = "PUT" => tf_file = <<>> /\ (tf_tid # 0 => tf_n # 0)
    /\ tf_pc = "ok" => /\ tf_tid # 0 /\ tf_n = LastBlock
                       /\ tf_op = "PUT" => tf_srv[tf_tid].n = LastBlock

TfInv ==
    /\ tf_srv \in Seq([n : Nat, stored : Seq(Nat)]) /\ ClientSound
    /\ \A t \in Sessions : SessionSound(t)
    /\ \A p \in tf_up : UpSound(p)
    /\ \A p \in tf_down : DownSound(p)
=============================================================================
