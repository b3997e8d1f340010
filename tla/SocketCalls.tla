----------------------------- MODULE SocketCalls -----------------------------
(***************************************************************************)
(* The blocking socket calls inside the daemon: connect, accept, recv and  *)
(* send are requests the daemon either answers at once or keeps in one of  *)
(* the slot's four pending_*_msg fields until an lwIP callback, a timeout, *)
(* a CANCEL or another request answers them.                               *)
(*                                                                         *)
(* The daemon is one task, so a handler and a callback are one step each.  *)
(* A handler that drains the loopback runs callbacks in its middle; what   *)
(* they do to the slot is what the same callbacks do just before or just   *)
(* after the handler, and so they are steps of their own.                  *)
(*                                                                         *)
(* Left to SlotTable: descriptors and reference counts (a base holds a     *)
(* slot or does not), owners, dup2, deaths.  Data is a count of queued     *)
(* packets.  SOCK_RAW slots behave as SOCK_DGRAM ones.  SO_RCVTIMEO and    *)
(* SO_SNDTIMEO are free, so a parked recv or send may time out any time.   *)
(* A call that only reports an error changes nothing and is not a step.    *)
(***************************************************************************)
EXTENDS Integers, Sequences, FiniteSets

CONSTANTS
    Bases,      \* the clients, one request each at a time
    NoBase,     \* a null pending_*_msg
    Slots,      \* the socket table
    NoSlot,     \* tcp_arg(pcb, NULL)
    Pcbs,       \* lwIP's TCP control blocks
    NoPcb,      \* a null tcp_pcb
    Types,      \* the socket types opened, subset of STREAM, DGRAM
    MaxOpened,  \* bound: socket() is called while fewer slots are in use
    MaxRx,      \* TN_MAX_RX_QUEUE_PER_SOCKET
    Backlog     \* the listen_backlog programs ask for

ASSUME Nulls  == NoBase \notin Bases /\ NoSlot \notin Slots /\ NoPcb \notin Pcbs
ASSUME Tables == /\ Slots \subseteq Nat /\ IsFiniteSet(Slots)
                 /\ Types \subseteq {"STREAM", "DGRAM"}
ASSUME Caps   == MaxRx \in Nat \ {0} /\ Backlog \in Nat \ {0}

VARIABLES
    slot,  \* the socket table
    owed,  \* per base: the deferred request the daemon owes it a reply for
    pcb    \* lwIP's control blocks: state, callbacks, data it was refused

vars == <<slot, owed, pcb>>

Buckets  == {"connect", "accept", "recv", "send"}
Requests == Buckets \cup {"recvmsg"}
BucketOf(op) == IF op = "recvmsg" THEN "recv" ELSE op

TcpStates == {"CLOSED", "CONNECTING", "LISTENING", "ESTABLISHED", "PEER_CLOSED", "ERROR"}

\* States of a pcb in lwIP.  "fin_wait" stands for FIN_WAIT_1 and 2,
\* "finished" for CLOSING and TIME_WAIT (tn_tcp_pcb_finished).
PcbStates == {"free", "closed", "listen", "syn_sent", "estab", "close_wait",
              "fin_wait", "last_ack", "finished"}
Active    == {"syn_sent", "estab", "close_wait", "fin_wait", "last_ack"}

\* Which callbacks are registered, and the slot tcp_arg names.  "conn" are
\* the callbacks of a slot, "queued" those of an accept-queue entry.
Callbacks == {"none", "conn", "listen", "queued"}
Pcb(state, cb, s) == [state |-> state, cb |-> cb, arg |-> s, refused |-> FALSE]
FreePcb == Pcb("free", "none", NoSlot)

FreeSlot == [in_use |-> FALSE, type |-> "none", tcp_state |-> "CLOSED", tcp_pcb |-> NoPcb,
             shut_rd |-> FALSE, shut_wr |-> FALSE, is_nonblocking |-> FALSE,
             last_error |-> FALSE, rx |-> 0, accept |-> <<>>, is_parked |-> FALSE,
             holders |-> {}, pending |-> [k \in Buckets |-> NoBase]]

\* An entry of the accept queue: a connection nobody accepted yet, with
\* the data and the FIN that came early.
Entries == [new_pcb : Pcbs, early_rx : 0..MaxRx, peer_closed : BOOLEAN]

SlotType == [in_use : BOOLEAN, type : {"none"} \cup Types, tcp_state : TcpStates,
             tcp_pcb : Pcbs \cup {NoPcb}, shut_rd : BOOLEAN, shut_wr : BOOLEAN,
             is_nonblocking : BOOLEAN, last_error : BOOLEAN, rx : 0..(MaxRx + 1),
             accept : Seq(Entries), is_parked : BOOLEAN, holders : SUBSET Bases,
             pending : [Buckets -> Bases \cup {NoBase}]]

PcbType == [state : PcbStates, cb : Callbacks, arg : Slots \cup {NoSlot}, refused : BOOLEAN]

Init == /\ slot = [s \in Slots |-> FreeSlot]
        /\ owed = [b \in Bases |-> "none"]
        /\ pcb  = [p \in Pcbs |-> FreePcb]

-----------------------------------------------------------------------------
(***************************************************************************)
(* What handlers and callbacks share.  w is the slot at work, sl, with the *)
(* owed replies, ow.                                                       *)
(***************************************************************************)

World(s) == [sl |-> slot[s], ow |-> owed]
Becomes(s, w) == slot' = [slot EXCEPT ![s] = w.sl] /\ owed' = w.ow

\* Mutant of ReplyTo: the answered request stays in its bucket.
ReplyAndKeep(w, k) ==
    IF w.sl.pending[k] = NoBase THEN w ELSE [w EXCEPT !.ow[w.sl.pending[k]] = "none"]

\* ReplyMsg of the request parked in bucket k, if there is one.
ReplyTo(w, k) ==
    LET b == w.sl.pending[k]
    IN  IF b = NoBase THEN w
        ELSE [sl |-> [w.sl EXCEPT !.pending[k] = NoBase], ow |-> [w.ow EXCEPT ![b] = "none"]]

tn_slot_reply_send(w) == ReplyTo(w, "send")

\* The request op of base b is kept in its bucket: TN_IPC_DEFER.
Park(w, b, op) == [sl |-> [w.sl EXCEPT !.pending[BucketOf(op)] = b],
                   ow |-> [w.ow EXCEPT ![b] = op]]

\* recv, recvfrom and recvmsg answer at once in these states.
RecvAnswers(sl) ==
    \/ sl.rx > 0
    \/ sl.type = "STREAM" /\ (sl.shut_rd \/ sl.tcp_state \notin {"CONNECTING", "ESTABLISHED"})

\* The slot after recv answered: a packet is consumed, or only part of it,
\* or peeked at; recvmsg may fill its iovecs from several.  A failure is
\* reported once by recv, while recvmsg leaves it to be reported again.
RecvResults(sl, op) ==
    CASE sl.rx > 0 -> {[sl EXCEPT !.rx = @ - n] : n \in 0..(IF op = "recvmsg" THEN sl.rx ELSE 1)}
      [] sl.rx = 0 /\ ~sl.shut_rd /\ sl.tcp_state = "ERROR" /\ op = "recv"
                   -> {[sl EXCEPT !.last_error = FALSE]}
      [] OTHER     -> {sl}

\* The parked recv is run again; the worlds it may leave.
tn_service_pending_recv(w) ==
    LET b == w.sl.pending["recv"]
    IN  IF b = NoBase \/ ~(RecvAnswers(w.sl) \/ w.sl.is_nonblocking) THEN {w}
        ELSE {ReplyTo([w EXCEPT !.sl = r], "recv") : r \in RecvResults(w.sl, w.ow[b])}

\* Mutant of tcp_close: a close that fails is not followed by tcp_abort.
CloseMayFail(c) ==
    {FreePcb, Pcb(IF c.state = "estab" THEN "estab" ELSE "last_ack", "none", NoSlot)}

\* What tcp_close makes of a pcb whose callbacks were taken away: it is
\* freed, or lwIP finishes it alone; unread data turns the FIN into a RST,
\* and an error turns it into tcp_abort.
tcp_close(c) ==
    CASE c.state = "estab"      -> {FreePcb, Pcb("fin_wait", "none", NoSlot)}
      [] c.state = "close_wait" -> {FreePcb, Pcb("last_ack", "none", NoSlot)}
      [] c.state \in {"fin_wait", "last_ack"} -> {Pcb(c.state, "none", NoSlot)}
      [] OTHER                  -> {FreePcb}

\* Entries of s's accept queue lose their pcbs with the queue.
QueuedPcbs(s) == {slot[s].accept[i].new_pcb : i \in DOMAIN slot[s].accept}

\* The last holder left: everything parked is answered EBADF, the pcb is
\* closed and the queued connections are aborted.
tn_slot_free(s, w) ==
    LET done == ReplyTo(ReplyTo(ReplyTo(tn_slot_reply_send(w), "recv"), "accept"), "connect")
        mine == slot[s].tcp_pcb
    IN  /\ slot' = [slot EXCEPT ![s] = FreeSlot]
        /\ owed' = done.ow
        /\ \E c \in IF mine = NoPcb THEN {FreePcb} ELSE tcp_close(pcb[mine]) :
              pcb' = [p \in Pcbs |-> IF p = mine THEN c
                                     ELSE IF p \in QueuedPcbs(s) THEN FreePcb ELSE pcb[p]]

\* Base b may call on slot s: it holds it and waits for nothing.
MayCall(b, s) == owed[b] = "none" /\ slot[s].in_use /\ b \in slot[s].holders

IsFreeSlot(s) == ~slot[s].in_use /\ \A t \in Slots : t < s => slot[t].in_use

NewSlot(b, type, p) == [FreeSlot EXCEPT !.in_use = TRUE, !.type = type,
                                        !.tcp_pcb = p, !.holders = {b}]

-----------------------------------------------------------------------------
(***************************************************************************)
(* The handlers.                                                           *)
(***************************************************************************)

tn_ipc_cmd_socket(b, type) ==
    /\ owed[b] = "none"
    /\ Cardinality({s \in Slots : slot[s].in_use}) < MaxOpened
    /\ \E s \in Slots :
          /\ IsFreeSlot(s)
          /\ \/ /\ type = "STREAM"
                /\ \E p \in Pcbs :
                      /\ pcb[p].state = "free"
                      /\ slot' = [slot EXCEPT ![s] = NewSlot(b, type, p)]
                      /\ pcb'  = [pcb EXCEPT ![p] = Pcb("closed", "conn", s)]
             \/ /\ type # "STREAM"
                /\ slot' = [slot EXCEPT ![s] = NewSlot(b, type, NoPcb)]
                /\ UNCHANGED pcb
    /\ UNCHANGED owed

\* FIONBIO
tn_ipc_cmd_ioctl(b, s) ==
    /\ MayCall(b, s)
    /\ slot' = [slot EXCEPT ![s].is_nonblocking = ~@]
    /\ UNCHANGED <<owed, pcb>>

\* SO_ERROR; connect() and send() on a failed socket report it the same
\* way, once.  (send() reports EPIPE instead after a shutdown.)
tn_ipc_cmd_getsockopt(b, s) ==
    /\ MayCall(b, s)
    /\ slot[s].last_error
    /\ slot' = [slot EXCEPT ![s].last_error = FALSE]
    /\ UNCHANGED <<owed, pcb>>

\* A fresh pcb is set connecting; tcp_connect may refuse, which changes
\* nothing.  A blocking call is parked until the handshake ends.
tn_ipc_cmd_connect(b, s) ==
    LET w == [World(s) EXCEPT !.sl.tcp_state = "CONNECTING"]
        p == slot[s].tcp_pcb
    IN  /\ MayCall(b, s)
        /\ slot[s].type = "STREAM" /\ slot[s].tcp_state = "CLOSED" /\ p # NoPcb
        /\ Becomes(s, IF slot[s].is_nonblocking THEN w ELSE Park(w, b, "connect"))
        /\ pcb' = [pcb EXCEPT ![p] = Pcb("syn_sent", "conn", s)]

tn_ipc_cmd_listen(b, s) ==
    LET p == slot[s].tcp_pcb
    IN  /\ MayCall(b, s)
        /\ slot[s].type = "STREAM" /\ p # NoPcb /\ pcb[p].state = "closed"
        /\ slot' = [slot EXCEPT ![s].tcp_state = "LISTENING"]
        /\ pcb'  = [pcb EXCEPT ![p] = Pcb("listen", "listen", s)]
        /\ UNCHANGED owed

\* An accepted connection gets slot n, with what came early.
Accepted(b, e) == [NewSlot(b, "STREAM", e.new_pcb) EXCEPT
                      !.tcp_state = IF e.peer_closed THEN "PEER_CLOSED" ELSE "ESTABLISHED",
                      !.rx = e.early_rx]

\* Mutant of tn_ipc_cmd_accept: it parks without a look at the queue.
AcceptParksBlindly(b, s) ==
    /\ MayCall(b, s) /\ slot[s].tcp_state = "LISTENING"
    /\ Becomes(s, Park(World(s), b, "accept"))
    /\ UNCHANGED pcb

\* The head of the queue is accepted, or refused for want of a slot or a
\* descriptor; an empty queue parks the call.
tn_ipc_cmd_accept(b, s) ==
    /\ MayCall(b, s) /\ slot[s].tcp_state = "LISTENING"
    /\ \/ /\ slot[s].accept # <<>>
          /\ LET e    == Head(slot[s].accept)
                 left == [slot EXCEPT ![s].accept = Tail(@)]
             IN  \/ \E n \in Slots :
                       /\ IsFreeSlot(n)
                       /\ slot' = [left EXCEPT ![n] = Accepted(b, e)]
                       /\ pcb'  = [pcb EXCEPT ![e.new_pcb].cb = "conn", ![e.new_pcb].arg = n]
                 \/ /\ slot' = left
                    /\ pcb'  = [pcb EXCEPT ![e.new_pcb] = FreePcb]
          /\ UNCHANGED owed
       \/ /\ slot[s].accept = <<>> /\ ~slot[s].is_nonblocking
          /\ Becomes(s, Park(World(s), b, "accept"))
          /\ UNCHANGED pcb

\* Mutant of tn_tcp_send_stream: a second send takes the bucket of the first.
SendOvertakes(b, s) ==
    /\ MayCall(b, s) /\ slot[s].type = "STREAM"
    /\ ~slot[s].shut_wr /\ slot[s].tcp_pcb # NoPcb
    /\ slot[s].tcp_state \in {"ESTABLISHED", "PEER_CLOSED"}
    /\ Becomes(s, Park(World(s), b, "send"))
    /\ UNCHANGED pcb

\* send, sendto and sendmsg on a stream park when the send buffer is full
\* and the call blocks; nothing overtakes a parked send.
tn_tcp_send_stream(b, s) ==
    LET sl == slot[s]
    IN  /\ MayCall(b, s) /\ sl.type = "STREAM"
        /\ ~sl.shut_wr /\ sl.tcp_pcb # NoPcb
        /\ sl.tcp_state \in {"ESTABLISHED", "PEER_CLOSED"}
        /\ sl.pending["send"] = NoBase
        /\ ~sl.is_nonblocking
        /\ Becomes(s, Park(World(s), b, "send"))
        /\ UNCHANGED pcb

\* recv, recvfrom (op = "recv") and recvmsg.  MSG_DONTWAIT only reports
\* EWOULDBLOCK where a blocking call parks.
tn_ipc_cmd_recv(b, s, op) ==
    /\ MayCall(b, s)
    /\ \/ /\ RecvAnswers(slot[s])
          /\ \E r \in RecvResults(slot[s], op) : slot' = [slot EXCEPT ![s] = r]
          /\ UNCHANGED owed
       \/ /\ ~RecvAnswers(slot[s]) /\ ~slot[s].is_nonblocking
          /\ slot[s].pending["recv"] = NoBase
          /\ Becomes(s, Park(World(s), b, op))
    /\ UNCHANGED pcb

\* The flags are set whatever follows.  Shutting both ways drops what is
\* queued and closes the pcb; SHUT_RD drops what is queued; SHUT_WR sends
\* the FIN where lwIP can.
tn_ipc_cmd_shutdown(b, s, how) ==
    LET sl == [slot[s] EXCEPT !.shut_rd = @ \/ how # "WR", !.shut_wr = @ \/ how # "RD"]
        w  == [World(s) EXCEPT !.sl = sl]
        p  == sl.tcp_pcb
    IN  /\ MayCall(b, s)
        /\ sl.type = "STREAM" /\ sl.tcp_state # "LISTENING"
        /\ \/ /\ p = NoPcb \/ sl.tcp_state = "CLOSED"
              /\ Becomes(s, w) /\ UNCHANGED pcb
           \/ /\ p # NoPcb /\ sl.tcp_state # "CLOSED" /\ how = "RDWR"
              /\ Becomes(s, tn_slot_reply_send([w EXCEPT !.sl.rx = 0, !.sl.tcp_pcb = NoPcb,
                                                         !.sl.tcp_state = "CLOSED"]))
              /\ \E c \in tcp_close(pcb[p]) : pcb' = [pcb EXCEPT ![p] = c]
           \/ /\ p # NoPcb /\ sl.tcp_state # "CLOSED" /\ how = "RD"
              /\ Becomes(s, [w EXCEPT !.sl.rx = 0]) /\ UNCHANGED pcb
           \/ /\ p # NoPcb /\ sl.tcp_state # "CLOSED" /\ how = "WR"
              /\ Becomes(s, w)
              /\ pcb' = [pcb EXCEPT ![p].state = CASE @ = "estab"      -> "fin_wait"
                                                   [] @ = "close_wait" -> "last_ack"
                                                   [] OTHER            -> @]

\* The descriptor goes; the slot goes with its last reference.
DropHolder(b, s, w) ==
    LET gone == [w EXCEPT !.sl.holders = @ \ {b}]
    IN  IF gone.sl.holders = {} /\ ~gone.sl.is_parked THEN tn_slot_free(s, gone)
        ELSE Becomes(s, gone) /\ UNCHANGED pcb

tn_ipc_cmd_closesocket(b, s) ==
    LET Own(w, k) == IF w.sl.pending[k] = b THEN ReplyTo(w, k) ELSE w
    IN  MayCall(b, s) /\ DropHolder(b, s, Own(Own(World(s), "recv"), "send"))

\* ReleaseSocket, or with copy ReleaseCopyOfSocket
tn_ipc_cmd_releasesocket(b, s, copy) ==
    /\ MayCall(b, s) /\ ~slot[s].is_parked
    /\ slot' = [slot EXCEPT ![s].is_parked = TRUE,
                            ![s].holders = IF copy THEN @ ELSE @ \ {b}]
    /\ UNCHANGED <<owed, pcb>>

tn_ipc_cmd_obtainsocket(b, s) ==
    /\ owed[b] = "none" /\ slot[s].in_use /\ slot[s].is_parked
    /\ b \notin slot[s].holders      \* a second descriptor is dup2's case
    /\ slot' = [slot EXCEPT ![s].is_parked = FALSE, ![s].holders = @ \cup {b}]
    /\ UNCHANGED <<owed, pcb>>

\* A break signal: the client has its request answered EINTR.  A request
\* no bucket holds is taken for one that was just answered.
tn_ipc_cmd_cancel(b) ==
    /\ owed[b] # "none"
    /\ \E s \in Slots, k \in Buckets :
          slot[s].in_use /\ slot[s].pending[k] = b /\ Becomes(s, ReplyTo(World(s), k))
    /\ UNCHANGED pcb

\* SO_RCVTIMEO and SO_SNDTIMEO
tn_slot_check_recv_timeouts(s) ==
    /\ \E k \in {"recv", "send"} :
          slot[s].pending[k] # NoBase /\ Becomes(s, ReplyTo(World(s), k))
    /\ UNCHANGED pcb

-----------------------------------------------------------------------------
(***************************************************************************)
(* The callbacks.  c is the pcb lwIP calls for, as lwIP has set it.        *)
(***************************************************************************)

\* Every callback but err_cb first checks that the slot still is the pcb's.
IsSlotsPcb(s, p) == s \in Slots /\ slot[s].in_use /\ slot[s].tcp_pcb = p

\* Space in the send buffer, or the poll retry: the parked send goes on,
\* to its end or not.
tn_tcp_resume_send(s, p) ==
    /\ pcb[p].cb = "conn" /\ pcb[p].state \in Active \ {"syn_sent"} /\ pcb[p].arg = s
    /\ IsSlotsPcb(s, p) /\ slot[s].pending["send"] # NoBase
    /\ Becomes(s, tn_slot_reply_send(World(s)))
    /\ UNCHANGED pcb

\* Mutant of tn_tcp_connected_cb: the parked connect is forgotten.
ConnectNotAnswered(s, p) ==
    /\ pcb[p].cb = "conn" /\ pcb[p].state = "syn_sent" /\ pcb[p].arg = s
    /\ pcb' = [pcb EXCEPT ![p].state = "estab"]
    /\ slot' = [slot EXCEPT ![s].tcp_state = "ESTABLISHED"]
    /\ UNCHANGED owed

tn_tcp_connected_cb(s, p) ==
    /\ pcb[p].cb = "conn" /\ pcb[p].state = "syn_sent" /\ pcb[p].arg = s
    /\ pcb' = [pcb EXCEPT ![p].state = "estab"]
    /\ Becomes(s, IF IsSlotsPcb(s, p)
                  THEN ReplyTo([World(s) EXCEPT !.sl.tcp_state = "ESTABLISHED"], "connect")
                  ELSE World(s))

\* Mutant of TakesData: the cap is not looked at.
TakesAnyData(sl, c) == TRUE

\* recv_cb with data.  The cap holds, except for a pcb lwIP has finished:
\* that data is never offered again.
TakesData(sl, c) == sl.shut_rd \/ sl.rx < MaxRx \/ c.state = "finished"

\* Mutant of DataCb: the parked recv is not run again.
DataCbQueuesOnly(w) == IF w.sl.shut_rd THEN {w} ELSE {[w EXCEPT !.sl.rx = @ + 1]}

DataCb(w) == IF w.sl.shut_rd THEN {w}
             ELSE tn_service_pending_recv([w EXCEPT !.sl.rx = @ + 1])

\* Mutant of tn_tcp_detach_finished: the parked send is forgotten.
DetachForgetsSend(w) == [w EXCEPT !.sl.tcp_pcb = NoPcb, !.sl.shut_wr = TRUE]

\* The slot lets go of a pcb lwIP finishes alone.
tn_tcp_detach_finished(w) ==
    tn_slot_reply_send([w EXCEPT !.sl.tcp_pcb = NoPcb, !.sl.shut_wr = TRUE])

\* Mutants of FinCb: the pcb lwIP finished is kept (TNET-156); the slot stays open.
FinCbKeepsPcb(w, c) == tn_service_pending_recv([w EXCEPT !.sl.tcp_state = "PEER_CLOSED"])
FinCbStaysOpen(w, c) == tn_service_pending_recv(IF c.state = "finished" THEN tn_tcp_detach_finished(w) ELSE w)

\* recv_cb with NULL, the peer's FIN.
FinCb(w, c) ==
    LET seen == [w EXCEPT !.sl.tcp_state = "PEER_CLOSED"]
    IN  tn_service_pending_recv(IF c.state = "finished" THEN tn_tcp_detach_finished(seen)
                                ELSE seen)

AfterFin(c) == IF c.state = "finished" THEN Pcb("finished", "none", NoSlot)
               ELSE [c EXCEPT !.refused = FALSE]

\* A segment with data, a FIN, or both.  Data that is refused stays with
\* lwIP, and a FIN that came with it waits too: then lwIP alone knows that
\* the peer closed.
tn_tcp_recv_cb(s, p, data, fin) ==
    LET c == [pcb[p] EXCEPT !.state = CASE fin /\ @ = "estab"    -> "close_wait"
                                        [] fin /\ @ = "fin_wait" -> "finished"
                                        [] OTHER -> @]
        ws == IF data THEN DataCb(World(s)) ELSE {World(s)}
    IN  /\ pcb[p].cb = "conn" /\ pcb[p].state \in {"estab", "fin_wait"} /\ pcb[p].arg = s
        /\ IsSlotsPcb(s, p) /\ (data \/ fin)
        /\ \/ /\ data => TakesData(slot[s], c)
              /\ \E w \in ws : \E v \in IF fin THEN FinCb(w, c) ELSE {w} : Becomes(s, v)
              /\ pcb' = [pcb EXCEPT ![p] = IF fin THEN AfterFin(c) ELSE c]
           \/ /\ data /\ fin /\ ~TakesData(slot[s], c)
              /\ pcb' = [pcb EXCEPT ![p] = [c EXCEPT !.refused = TRUE]]
              /\ UNCHANGED <<slot, owed>>

\* lwIP offers refused data again, and then the FIN that waited behind it.
Redeliver(s, p) ==
    /\ pcb[p].cb = "conn" /\ pcb[p].refused /\ pcb[p].arg = s
    /\ IsSlotsPcb(s, p) /\ TakesData(slot[s], pcb[p])
    /\ \E w \in DataCb(World(s)) : \E v \in FinCb(w, pcb[p]) : Becomes(s, v)
    /\ pcb' = [pcb EXCEPT ![p] = AfterFin(pcb[p])]

\* The end of a passive close (ERR_CLSD) is a clean end; a reset or an
\* abort fails the socket and everything parked on it.
tn_tcp_err_cb(s, p, err) ==
    LET w      == [World(s) EXCEPT !.sl.tcp_pcb = NoPcb]
        clean  == [w EXCEPT !.sl.tcp_state = "PEER_CLOSED", !.sl.last_error = FALSE]
        failed == ReplyTo([w EXCEPT !.sl.tcp_state = "ERROR",
                                    !.sl.last_error = (w.sl.pending["connect"] = NoBase)],
                          "connect")
    IN  /\ pcb[p].cb = "conn" /\ pcb[p].arg = s
        /\ IF err = "CLSD" THEN pcb[p].state = "last_ack" ELSE pcb[p].state \in Active
        /\ \E v \in tn_service_pending_recv(tn_slot_reply_send(
                        IF err = "CLSD" /\ w.sl.tcp_state # "CONNECTING" THEN clean ELSE failed)) :
              Becomes(s, IF slot[s].in_use THEN v ELSE World(s))
        /\ pcb' = [pcb EXCEPT ![p] = FreePcb]

\* A connection reaches a listener: the parked accept gets it, or it is
\* queued, or aborted when there is no room.
tn_tcp_accept_cb(s, p) ==
    LET e == [new_pcb |-> p, early_rx |-> 0, peer_closed |-> FALSE]
        b == slot[s].pending["accept"]
        w == ReplyTo(World(s), "accept")
    IN  /\ pcb[p].state = "free"
        /\ slot[s].in_use /\ slot[s].tcp_state = "LISTENING"
        /\ \/ /\ b # NoBase
              /\ \E n \in Slots :
                    /\ IsFreeSlot(n)
                    /\ slot' = [slot EXCEPT ![s] = w.sl, ![n] = Accepted(b, e)]
                    /\ pcb'  = [pcb EXCEPT ![p] = Pcb("estab", "conn", n)]
              /\ owed' = w.ow
           \/ /\ b # NoBase       \* ENFILE or EMFILE, the connection is aborted
              /\ Becomes(s, w)
              /\ UNCHANGED pcb
           \/ /\ b = NoBase /\ Len(slot[s].accept) < Backlog
              /\ slot' = [slot EXCEPT ![s].accept = Append(@, e)]
              /\ pcb'  = [pcb EXCEPT ![p] = Pcb("estab", "queued", s)]
              /\ UNCHANGED owed

\* What happens to a connection while it waits in the accept queue.
tn_tcp_queued_recv_cb(s, p, data, fin) ==
    \E i \in DOMAIN slot[s].accept :
        LET e == slot[s].accept[i]
            c == [pcb[p] EXCEPT !.state = IF fin THEN "close_wait" ELSE @]
        IN  /\ pcb[p].cb = "queued" /\ pcb[p].arg = s /\ e.new_pcb = p
            /\ pcb[p].state = "estab" /\ (data \/ fin)
            /\ \/ /\ data => e.early_rx < MaxRx
                  /\ slot' = [slot EXCEPT ![s].accept[i] =
                                 [e EXCEPT !.early_rx = IF data THEN @ + 1 ELSE @,
                                           !.peer_closed = fin]]
                  /\ pcb' = [pcb EXCEPT ![p] = c]
               \/ /\ data /\ fin /\ e.early_rx = MaxRx
                  /\ pcb' = [pcb EXCEPT ![p] = [c EXCEPT !.refused = TRUE]]
                  /\ UNCHANGED slot
            /\ UNCHANGED owed

\* The queue q without its entry i.
tn_accept_queue_remove(q, i) == [j \in 1..(Len(q) - 1) |-> q[IF j < i THEN j ELSE j + 1]]

tn_tcp_queued_err_cb(s, p) ==
    /\ pcb[p].cb = "queued" /\ pcb[p].arg = s
    /\ \E i \in DOMAIN slot[s].accept :
          /\ slot[s].accept[i].new_pcb = p
          /\ slot' = [slot EXCEPT ![s].accept = tn_accept_queue_remove(@, i)]
    /\ pcb'  = [pcb EXCEPT ![p] = FreePcb]
    /\ UNCHANGED owed

\* UDP and raw sockets: a datagram is queued, or dropped at the cap.
tn_udp_recv_cb(s) ==
    /\ slot[s].in_use /\ slot[s].type = "DGRAM" /\ slot[s].rx < MaxRx
    /\ \E w \in tn_service_pending_recv([World(s) EXCEPT !.sl.rx = @ + 1]) : Becomes(s, w)
    /\ UNCHANGED pcb

\* lwIP ends a pcb without a word: one the daemon closed, and TIME_WAIT.
Expire(p) ==
    /\ \/ pcb[p].state = "finished"
       \/ pcb[p].state \in {"fin_wait", "last_ack"} /\ pcb[p].cb = "none"
    /\ pcb' = [pcb EXCEPT ![p] = FreePcb]
    /\ UNCHANGED <<slot, owed>>

-----------------------------------------------------------------------------
Handlers(b) ==
    \/ \E type \in Types : tn_ipc_cmd_socket(b, type)
    \/ tn_ipc_cmd_cancel(b)
    \/ \E s \in Slots :
          \/ tn_ipc_cmd_ioctl(b, s)
          \/ tn_ipc_cmd_getsockopt(b, s)
          \/ tn_ipc_cmd_connect(b, s)
          \/ tn_ipc_cmd_listen(b, s)
          \/ tn_ipc_cmd_accept(b, s)
          \/ tn_tcp_send_stream(b, s)
          \/ \E op \in {"recv", "recvmsg"} : tn_ipc_cmd_recv(b, s, op)
          \/ \E how \in {"RD", "WR", "RDWR"} : tn_ipc_cmd_shutdown(b, s, how)
          \/ tn_ipc_cmd_closesocket(b, s)
          \/ \E copy \in BOOLEAN : tn_ipc_cmd_releasesocket(b, s, copy)
          \/ tn_ipc_cmd_obtainsocket(b, s)

Lwip(s) ==
    \/ tn_slot_check_recv_timeouts(s)
    \/ tn_udp_recv_cb(s)
    \/ \E p \in Pcbs :
          \/ tn_tcp_resume_send(s, p)
          \/ tn_tcp_connected_cb(s, p)
          \/ \E data, fin \in BOOLEAN : tn_tcp_recv_cb(s, p, data, fin)
          \/ Redeliver(s, p)
          \/ \E err \in {"CLSD", "RST"} : tn_tcp_err_cb(s, p, err)
          \/ tn_tcp_accept_cb(s, p)
          \/ \E data, fin \in BOOLEAN : tn_tcp_queued_recv_cb(s, p, data, fin)
          \/ tn_tcp_queued_err_cb(s, p)

Next == (\E b \in Bases : Handlers(b)) \/ (\E s \in Slots : Lwip(s)) \/ (\E p \in Pcbs : Expire(p))

Spec == Init /\ [][Next]_vars

-----------------------------------------------------------------------------
(***************************************************************************)
(* The properties.                                                         *)
(***************************************************************************)

Live == {s \in Slots : slot[s].in_use}
Waits(s, k) == slot[s].pending[k] # NoBase

\* Every variable has its type, the receive queue never passes its cap by
\* more than the last segment of a finished connection.
TypeOK == /\ slot \in [Slots -> SlotType]
          /\ owed \in [Bases -> {"none"} \cup Requests]
          /\ pcb \in [Pcbs -> PcbType]

\* No client sleeps in recv() on a socket that has data, has failed or has
\* seen the peer close: whatever callback brought the news ran the parked
\* call again (tn_service_pending_recv), in every order of data, FIN,
\* shutdown and sharing.  (A shutdown by another holder is no news: SHUT_RD
\* and SHUT_RDWR wake nobody.)
NoRecvSleepsOnNews ==
    \A s \in Live : Waits(s, "recv") =>
        slot[s].rx = 0 /\ slot[s].tcp_state \notin {"LISTENING", "PEER_CLOSED", "ERROR"}

\* No client sleeps in accept() while a connection waits in the queue, nor
\* on a socket that does not listen.
NoAcceptSleepsOnQueue ==
    \A s \in Live : Waits(s, "accept") => slot[s].tcp_state = "LISTENING" /\ slot[s].accept = <<>>

\* A parked send always has an open circuit whose sent or poll callback
\* will resume it: every path that takes the pcb from the slot (RST, the
\* end of a passive close, detaching, SHUT_RDWR) has answered it.
ParkedSendHasCircuit ==
    \A s \in Live : Waits(s, "send") =>
        LET p == slot[s].tcp_pcb
        IN  p # NoPcb /\ pcb[p].cb = "conn" /\ pcb[p].state \in Active \ {"syn_sent"}

\* A parked connect has a handshake under way that will answer it, unless
\* another holder shut the socket down both ways meanwhile.
ParkedConnectHasHandshake ==
    \A s \in Live : Waits(s, "connect") =>
        \/ slot[s].tcp_state = "CONNECTING" /\ pcb[slot[s].tcp_pcb].state = "syn_sent"
        \/ slot[s].tcp_state = "CLOSED" /\ slot[s].shut_rd /\ slot[s].shut_wr

\* Together: no client sleeps in a call that nothing will wake.
NobodySleepsForNothing ==
    /\ NoRecvSleepsOnNews /\ NoAcceptSleepsOnQueue
    /\ ParkedSendHasCircuit /\ ParkedConnectHasHandshake

\* lwIP never calls back for a slot that is not the pcb's any more: a pcb
\* names a slot exactly when that slot, or an entry of its accept queue,
\* points back, so no slot touches a pcb lwIP has freed (TNET-156) and
\* err_cb, which does not compare pcbs, never fails another's socket.
PcbAndSlotAgree ==
    /\ \A p \in Pcbs :
          CASE pcb[p].cb \in {"conn", "listen"} -> IsSlotsPcb(pcb[p].arg, p)
            [] pcb[p].cb = "queued" -> pcb[p].arg \in Live /\ p \in QueuedPcbs(pcb[p].arg)
            [] OTHER -> \A s \in Live : slot[s].tcp_pcb # p /\ p \notin QueuedPcbs(s)
    /\ \A s \in Live : slot[s].tcp_pcb # NoPcb => pcb[slot[s].tcp_pcb].arg = s

\* A pcb nobody in the daemon knows is one lwIP itself will end: no open,
\* connecting or listening pcb is left behind by a close, a refused accept
\* or a failed connection.
NoPcbLeaks ==
    \A p \in Pcbs : pcb[p].cb = "none" =>
        pcb[p].state \in {"free", "fin_wait", "last_ack", "finished"}

\* Together: every pcb is either some slot's, and they agree, or lwIP's to end.
PcbsAccountedFor == PcbAndSlotAgree /\ NoPcbLeaks

\* The slot's idea of the connection follows lwIP's: no state survives the
\* pcb it describes, and only a FIN that waits behind refused data is
\* known to lwIP alone.
StateFollowsLwip ==
    \A s \in Live : slot[s].type = "STREAM" =>
        LET t == slot[s].tcp_state
            c == IF slot[s].tcp_pcb = NoPcb THEN [state |-> "gone", refused |-> FALSE]
                 ELSE pcb[slot[s].tcp_pcb]
        IN  \/ t = "CLOSED"      /\ c.state \in {"closed", "gone"}
            \/ t = "CONNECTING"  /\ c.state = "syn_sent"
            \/ t = "LISTENING"   /\ c.state = "listen"
            \/ t = "ESTABLISHED" /\ c.state \in {"estab", "fin_wait"}
            \/ t = "ESTABLISHED" /\ c.state \in {"close_wait", "last_ack"} /\ c.refused
            \/ t = "PEER_CLOSED" /\ c.state \in {"close_wait", "last_ack", "gone"} /\ ~c.refused
            \/ t = "ERROR"       /\ c.state = "gone"

\* A bucket holds only a request that is still owed its reply, and no
\* request is in two: no client gets a second reply to a message it may
\* already have reused.
NoRequestAnsweredTwice ==
    /\ \A s \in Slots, k \in Buckets :
          Waits(s, k) => s \in Live /\ BucketOf(owed[slot[s].pending[k]]) = k
    /\ \A s, t \in Slots : s # t => \A k \in Buckets :
          Waits(s, k) => slot[s].pending[k] # slot[t].pending[k]

\* A deferred connect, recv or send stays in the slot until it is
\* answered: no other call, shutdown, release or close of the socket by
\* another holder drops it.
RequestsKept ==
    \A b \in Bases : owed[b] \in Requests \ {"accept"} =>
        \E s \in Slots : slot[s].pending[BucketOf(owed[b])] = b

\* Together: a deferred request is answered once, and not forgotten before.
AnsweredOnce == NoRequestAnsweredTwice /\ RequestsKept

\* "deferred handlers keep the TnIpcMsg * in the slot (pending_*_msg) and
\* reply from a callback" (ipc_dispatch.c), said of accept.
AcceptsKept ==
    \A b \in Bases : owed[b] = "accept" => \E s \in Slots : slot[s].pending["accept"] = b

\* "ERR_CLSD is lwIP's normal end of a passive close [...] the peer's FIN
\* was already seen, so recv() keeps returning EOF" (tn_tcp_err_cb): a
\* passive close ends only on a slot that was told of the FIN, and so got
\* everything before it.
FinSeenBeforeClosed ==
    [][\A s \in Live :
          /\ slot[s].tcp_pcb # NoPcb /\ slot'[s].tcp_pcb = NoPcb
          /\ pcb[slot[s].tcp_pcb].state = "last_ack"
          /\ slot'[s].tcp_state = "PEER_CLOSED"
          => slot[s].tcp_state = "PEER_CLOSED"]_vars

=============================================================================
