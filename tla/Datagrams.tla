------------------------------ MODULE Datagrams ------------------------------
(***************************************************************************)
(* A UDP or RAW socket: bind, connect, the two send paths sendto           *)
(* (src/task/ipc_dgram.c) and sendmsg (src/task/ipc_msg.c), the receive    *)
(* queue bounded in datagrams and in bytes, recvfrom and recvmsg, FIONREAD,*)
(* getsockname and getpeername (src/task/ipc_socket.c).  SocketCalls has   *)
(* the waiting; this module has the data.  An address is a small number,   *)
(* 0 is INADDR_ANY; so is a port.                                          *)
(***************************************************************************)
EXTENDS Integers, Sequences, FiniteSetsExt

CONSTANTS DgAddrs, DgPorts,   \* 0 and others
          DgLens,             \* payload lengths
          MaxUdp,             \* 65507
          RcvBufs,            \* values of SO_RCVBUF; 0 is none
          TN_MAX_RX_QUEUE_PER_SOCKET,
          DgTotal             \* bound: datagrams accepted

\* What the constants must satisfy.
DgAssumption ==
    /\ 0 \in DgAddrs \cap DgPorts /\ DgAddrs \cup DgPorts \subseteq Nat
    /\ DgLens \subseteq Nat /\ RcvBufs \subseteq Nat
    /\ MaxUdp \in Nat /\ TN_MAX_RX_QUEUE_PER_SOCKET \in Nat \ {0} /\ DgTotal \in Nat

VARIABLES kind,              \* "udp", "raw"
          local, remote,     \* the pcb: [addr, port]
          opt_rcvbuf, dg_rx,    \* the queue of [id, len]
          accepted, taken,   \* history: datagrams queued, datagrams received
          widest             \* history: largest opt_rcvbuf since the queue was empty
dgvars == <<kind, local, remote, opt_rcvbuf, dg_rx, accepted, taken, widest>>
queuev == <<opt_rcvbuf, dg_rx, accepted, taken, widest>>

Endpoint == [addr : DgAddrs, port : DgPorts]
NoName == [addr |-> -1, port |-> -1]      \* the NULL destination
\* The bytes in a queue, added up from its head.
QueuedIn(q) == LET Sum[i \in 0 .. Len(q)] == IF i = 0 THEN 0 ELSE Sum[i - 1] + q[i].len
               IN Sum[Len(q)]
Queued == QueuedIn(dg_rx)

----------------------------------------------------------------------------
(* Naming the ends.  raw_bind and raw_connect take no port; udp_connect     *)
(* binds a socket that has no port yet.                                     *)

OfKind(e) == IF kind = "raw" THEN [e EXCEPT !.port = 0] ELSE e

\* EADDRINUSE comes from lwIP; the socket is then unchanged.
tn_ipc_cmd_bind(e) ==
    /\ local' = OfKind(e) /\ UNCHANGED <<kind, remote, queuev>>

tn_ipc_cmd_connect(e) ==
    /\ remote' = OfKind(e)
    /\ local' \in IF kind = "udp" /\ local.port = 0
                  THEN {[local EXCEPT !.port = p] : p \in DgPorts \ {0}} ELSE {local}
    /\ UNCHANGED <<kind, queuev>>

is_connected == remote.addr # 0 /\ (kind = "udp" => remote.port # 0)

\* The name a query returns.
tn_ipc_cmd_getsockname == local
tn_ipc_cmd_getpeername == IF kind = "udp" /\ remote.port = 0 THEN NoName ELSE remote   \* ENOTCONN

----------------------------------------------------------------------------
(* Where a datagram goes: an error, or [to, len]. *)

Sent(e, len) == [err |-> "", to |-> e, len |-> len]
Refused(err) == [err |-> err, to |-> NoName, len |-> 0]
\* Both paths cut a RAW payload off at 16 bits, 65535 = MaxUdp + 28, and report that length.
send_len(len) == IF len > MaxUdp + 28 THEN MaxUdp + 28 ELSE len
\* The destination and the length handed to udp_sendto or raw_sendto.
Handed(to, len) == Sent(IF to = NoName THEN remote ELSE OfKind(to), send_len(len))

\* sendto looks neither at its flags nor at the length of the name.
tn_ipc_cmd_sendto(to, len) ==
    IF to # NoName /\ is_connected THEN Refused("EISCONN")
    ELSE IF to = NoName /\ ~is_connected THEN Refused("EDESTADDRREQ")
    ELSE IF kind = "udp" /\ len > MaxUdp THEN Refused("EMSGSIZE")
    ELSE Handed(to, len)

\* sendmsg: MSG_OOB and a name shorter than a sockaddr_in are refused first, then
\* the checks of sendto a second time, for UDP only.
tn_ipc_cmd_sendmsg(to, len, oob, short) ==
    IF oob THEN Refused("EOPNOTSUPP")
    ELSE IF to # NoName /\ short THEN Refused("EINVAL")
    ELSE IF kind = "udp" /\ to # NoName /\ is_connected THEN Refused("EISCONN")
    ELSE IF kind = "udp" /\ to = NoName /\ ~is_connected THEN Refused("EDESTADDRREQ")
    ELSE IF kind = "udp" /\ len > MaxUdp THEN Refused("EMSGSIZE")
    ELSE Handed(to, len)

----------------------------------------------------------------------------
(* The receive queue. *)

\* A bound that does not count the datagram at the door.
FullAfter(len) == opt_rcvbuf # 0 /\ dg_rx # <<>> /\ Queued > opt_rcvbuf

\* An empty queue takes one datagram of any size.
tn_dgram_rcvbuf_full(len) == opt_rcvbuf # 0 /\ dg_rx # <<>> /\ Queued + len > opt_rcvbuf

\* Dropped silently when there is no room, or no memory for the copy.
DgArrives(len) ==
    /\ accepted < DgTotal
    /\ Len(dg_rx) < TN_MAX_RX_QUEUE_PER_SOCKET /\ ~tn_dgram_rcvbuf_full(len)
    /\ accepted' = accepted + 1
    /\ dg_rx' = Append(dg_rx, [id |-> accepted', len |-> len])
    /\ widest' = IF dg_rx = <<>> THEN opt_rcvbuf ELSE widest
    /\ UNCHANGED <<kind, local, remote, opt_rcvbuf, taken>>

\* recvfrom and recvmsg: one datagram, the rest of a long one is thrown away;
\* MSG_PEEK leaves it where it is.
tn_ipc_cmd_recvfrom(peek) ==
    /\ dg_rx # <<>>
    /\ dg_rx' = IF peek THEN dg_rx ELSE Tail(dg_rx)
    /\ taken' = IF peek THEN taken ELSE Append(taken, Head(dg_rx).id)
    /\ UNCHANGED <<kind, local, remote, opt_rcvbuf, accepted, widest>>

SetRcvBuf(n) ==
    /\ n # opt_rcvbuf /\ opt_rcvbuf' = n
    /\ widest' = IF n = 0 \/ widest = 0 THEN 0 ELSE Max({n, widest})
    /\ UNCHANGED <<kind, local, remote, dg_rx, accepted, taken>>

FIONREAD == Queued

DgInit ==
    /\ kind \in {"udp", "raw"}
    /\ local = [addr |-> 0, port |-> 0] /\ remote = [addr |-> 0, port |-> 0]
    /\ opt_rcvbuf \in RcvBufs /\ dg_rx = <<>> /\ accepted = 0 /\ taken = <<>>
    /\ widest = opt_rcvbuf

DgNext ==
    \/ \E e \in Endpoint : tn_ipc_cmd_bind(e) \/ tn_ipc_cmd_connect(e)
    \/ \E n \in DgLens : DgArrives(n)
    \/ \E peek \in BOOLEAN : tn_ipc_cmd_recvfrom(peek)
    \/ \E n \in RcvBufs : SetRcvBuf(n)

----------------------------------------------------------------------------
DgTypeOK ==
    /\ kind \in {"udp", "raw"} /\ local \in Endpoint /\ remote \in Endpoint
    /\ opt_rcvbuf \in RcvBufs /\ dg_rx \in Seq([id : 1 .. DgTotal, len : DgLens])
    /\ accepted \in 0 .. DgTotal /\ taken \in Seq(1 .. DgTotal) /\ widest \in RcvBufs

\* The two send paths, written twice, decide alike where their code means to,
\* whatever bind and connect came before, and differ in exactly three ways.
\* sendmsg refuses MSG_OOB (EOPNOTSUPP) and a short name (EINVAL) whatever else
\* is wrong, which sendto does not look at.  Past that a UDP datagram is accepted
\* by both, for the same destination, or refused by both with the same error.
\* For RAW, whatever sendto accepts sendmsg sends alike; but where sendto refuses,
\* sendmsg sends all the same: to the name given, on a connected socket, and to
\* INADDR_ANY on an unconnected one.  A UDP datagram never goes to INADDR_ANY
\* unless the caller wrote that address, and a UDP socket with a peer that has an
\* address can send without a name exactly when getpeername names that peer.
SendPathsAgree ==
    /\ \A to \in Endpoint \cup {NoName}, len \in DgLens, oob, short \in BOOLEAN :
         LET a == tn_ipc_cmd_sendto(to, len)
             b == tn_ipc_cmd_sendmsg(to, len, oob, short)
         IN /\ oob => b = Refused("EOPNOTSUPP")
            /\ ~oob /\ to # NoName /\ short => b = Refused("EINVAL")
            /\ ~oob /\ ~(to # NoName /\ short) =>
                 /\ kind = "udp" \/ a.err = "" => a = b
                 /\ kind = "raw" /\ a.err # "" =>
                      /\ b.err = ""
                      /\ b.to.addr = IF to = NoName THEN 0 ELSE to.addr
            /\ kind = "udp" /\ b.err = "" => b.to.addr # 0 \/ b.to = to
    /\ kind = "udp" /\ remote.addr # 0 =>
         (tn_ipc_cmd_getpeername = NoName) = (tn_ipc_cmd_sendto(NoName, 0).err = "EDESTADDRREQ")

\* Datagrams are received in the order they came, each once and none skipped,
\* however peeks, receives and changes of SO_RCVBUF interleave with arrivals;
\* and the queue holds no more than its two bounds allow, one datagram that is
\* larger than SO_RCVBUF apart.
DatagramsInOrder ==
    /\ taken \o [i \in DOMAIN dg_rx |-> dg_rx[i].id] = [i \in 1 .. accepted |-> i]
    /\ Len(dg_rx) <= TN_MAX_RX_QUEUE_PER_SOCKET
    /\ Len(dg_rx) > 1 /\ widest # 0 => Queued <= Max({widest, dg_rx[1].len})

\* Datagrams leave by the rules of SendPathsAgree, and arrive in order.
DatagramsExact == SendPathsAgree /\ DatagramsInOrder
=============================================================================
