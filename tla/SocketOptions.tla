--------------------------- MODULE SocketOptions ---------------------------
(***************************************************************************)
(* Socket options: what setsockopt keeps in the slot, what it writes to    *)
(* the pcb, what a listener passes on to the connections it accepts, and   *)
(* what getsockopt reports.  src/task/ipc_setsockopt.c,                    *)
(* src/task/ipc_getsockopt.c and the inheritance in src/task/ipc_tcp.c.    *)
(*                                                                         *)
(* Options do not interact, so a behaviour follows ONE of them, chosen     *)
(* in the initial state.  SO_KEEPALIVE stands for SO_BROADCAST, IP_HDRINCL *)
(* and IP_MULTICAST_LOOP; TCP_KEEPIDLE for TCP_KEEPINTVL and TCP_KEEPCNT;  *)
(* IP_TTL for IP_TOS and IP_MULTICAST_TTL; SO_SNDBUF for SO_RCVBUF,        *)
(* SO_LINGER and SO_OOBINLINE, which no pcb sees.                          *)
(***************************************************************************)
EXTENDS Integers

CONSTANTS OptSlots,   \* socket slots
          OptInts,    \* the ints programs pass
          U8, U32,    \* 2^8 and 2^32, scaled
          MsPerSec,   \* 1000, scaled
          TCP_MSS,    \* the largest segment of this build
          NoOpt       \* no pcb, nothing asked

\* What the constants must satisfy.
OptAssumption ==
    /\ OptInts \subseteq Int /\ U8 \in Nat \ {0} /\ U32 \in Nat \ {0}
    /\ MsPerSec \in Nat \ {0} /\ TCP_MSS \in Nat \ {0} /\ NoOpt \notin Int

VARIABLES opt_name,   \* the option this behaviour is about
          oslot       \* the slots
optvars == <<opt_name, oslot>>

Booleans == {"SO_KEEPALIVE", "SO_REUSEADDR", "TCP_NODELAY"}
OptNames == Booleans \cup {"TCP_MAXSEG", "TCP_KEEPIDLE", "IP_TTL", "SO_SNDBUF"}

\* A slot: its state, the stored option, the pcb's field (NoOpt without a
\* pcb), the segment size lwIP negotiated, and, as history, what the program
\* asked for last on this socket, or on the listener it was accepted from, and
\* when: before the connection ("early"), on it ("on"), or on the listener.
StoredAtStart ==
    CASE opt_name \in Booleans \cup {"TCP_MAXSEG"} -> 0
      [] opt_name = "TCP_KEEPIDLE" -> 1
      [] OTHER -> 2
\* lwIP's own defaults: INITIAL_MSS is a placeholder, TCP_TTL is 255 to the
\* slot's 64.
LiveAtStart ==
    CASE opt_name = "TCP_KEEPIDLE" -> MsPerSec
      [] opt_name = "IP_TTL" -> U8 - 1
      [] opt_name = "TCP_MAXSEG" -> 1
      [] OTHER -> 0
FreeOpt == [st |-> "free", stored |-> 0, live |-> NoOpt, mss |-> 0,
            asked |-> NoOpt, when |-> "early"]
NewOpt  == [FreeOpt EXCEPT !.st = "CLOSED", !.stored = StoredAtStart, !.live = LiveAtStart]

Connected(s) == oslot[s].st \in {"ESTABLISHED", "PEER_CLOSED"}
PutOpt(s, rec)  == oslot' = [oslot EXCEPT ![s] = rec] /\ UNCHANGED opt_name

OptSocket(s) == oslot[s].st = "free" /\ PutOpt(s, NewOpt)

----------------------------------------------------------------------------
\* What setsockopt accepts, and what it stores.
MaxSegLimit(s) ==
    IF oslot[s].live # NoOpt /\ Connected(s) THEN oslot[s].live
    ELSE IF oslot[s].stored # 0 THEN oslot[s].stored ELSE TCP_MSS

AcceptsValue(s, v) ==
    CASE opt_name = "TCP_MAXSEG"   -> v >= 1 /\ v <= MaxSegLimit(s)
      [] opt_name = "TCP_KEEPIDLE" -> v > 0 /\ v <= (U32 - 1) \div MsPerSec
      [] OTHER -> TRUE

StoredAs(v) ==
    CASE opt_name \in Booleans -> IF v # 0 THEN 1 ELSE 0
      [] opt_name = "IP_TTL"   -> v % U8
      [] OTHER -> v

\* What the pcb's field becomes; keep_* and mss do not exist in a LISTEN pcb.
WritesListener == opt_name \in {"SO_KEEPALIVE", "SO_REUSEADDR", "IP_TTL"}
LiveAs(s, v) ==
    IF \/ opt_name = "SO_SNDBUF" \/ oslot[s].live = NoOpt
       \/ oslot[s].st = "LISTENING" /\ ~WritesListener
    THEN oslot[s].live
    ELSE IF opt_name = "TCP_KEEPIDLE" THEN (v * MsPerSec) % U32 ELSE StoredAs(v)

\* A refused value, or an optlen too short for it, changes nothing.
tn_ipc_cmd_setsockopt(s, v) ==
    /\ oslot[s].st # "free" /\ AcceptsValue(s, v)
    /\ PutOpt(s, [oslot[s] EXCEPT !.stored = StoredAs(v), !.live = LiveAs(s, v),
                               !.asked = StoredAs(v),
                               !.when = IF Connected(s) THEN "on" ELSE "early"])

\* The value getsockopt reports.
Reported(s) ==
    CASE opt_name = "TCP_MAXSEG" /\ oslot[s].st = "LISTENING" ->
            IF oslot[s].stored # 0 THEN oslot[s].stored ELSE TCP_MSS
      [] opt_name = "TCP_MAXSEG" /\ oslot[s].st # "LISTENING" ->
            IF oslot[s].live # NoOpt THEN oslot[s].live ELSE TCP_MSS
      [] opt_name = "TCP_KEEPIDLE" /\ oslot[s].st # "LISTENING" /\ oslot[s].live # NoOpt ->
            oslot[s].live \div MsPerSec
      [] OTHER -> oslot[s].stored

----------------------------------------------------------------------------
OptConnect(s) ==
    /\ oslot[s].st = "CLOSED" /\ oslot[s].live # NoOpt
    /\ PutOpt(s, [oslot[s] EXCEPT !.st = "CONNECTING"])

\* lwIP takes the peer's segment size, and the callback disables Nagle.
OptConnected(s) ==
    /\ oslot[s].st = "CONNECTING"
    /\ \E mss \in 1 .. TCP_MSS :
         PutOpt(s, [oslot[s] EXCEPT !.st = "ESTABLISHED", !.mss = mss,
                   !.live = CASE opt_name = "TCP_MAXSEG" -> mss
                              [] opt_name = "TCP_NODELAY" -> 1
                              [] OTHER -> @])

OptListen(s) ==
    /\ oslot[s].st = "CLOSED" /\ oslot[s].live # NoOpt
    /\ PutOpt(s, [oslot[s] EXCEPT !.st = "LISTENING"])

\* An inheritance that leaves the listener's value in the slot only.
InheritStoredOnly(s, mss) ==
    IF opt_name = "TCP_MAXSEG" THEN mss ELSE LiveAtStart

\* The pcb of an accepted connection: so_options come with the listener's
\* pcb, Nagle is off, keep_* and a smaller mss come from the listener's slot.
InheritLive(s, mss) ==
    CASE opt_name \in {"SO_KEEPALIVE", "SO_REUSEADDR"} -> oslot[s].live
      [] opt_name = "TCP_NODELAY" -> 1
      [] opt_name = "TCP_KEEPIDLE" ->
            IF oslot[s].stored > 0 THEN (oslot[s].stored * MsPerSec) % U32 ELSE LiveAtStart
      [] opt_name = "TCP_MAXSEG" ->
            IF oslot[s].stored > 0 /\ oslot[s].stored < mss THEN oslot[s].stored ELSE mss
      [] OTHER -> LiveAtStart

\* SO_REUSEADDR and IP_TTL are not copied to the new slot.
InheritStored(s) ==
    CASE opt_name = "TCP_NODELAY" -> 1
      [] opt_name \in {"SO_REUSEADDR", "IP_TTL"} -> StoredAtStart
      [] OTHER -> oslot[s].stored

OptAccept(s) ==
    /\ oslot[s].st = "LISTENING"
    /\ \E n \in OptSlots, mss \in 1 .. TCP_MSS :
         /\ oslot[n].st = "free"
         /\ PutOpt(n, [st |-> "ESTABLISHED", stored |-> InheritStored(s),
                    live |-> InheritLive(s, mss), mss |-> mss,
                    asked |-> oslot[s].asked, when |-> "listener"])

\* The peer's FIN, or an error that takes the pcb.
OptPeer(s) ==
    \/ oslot[s].st = "ESTABLISHED" /\ PutOpt(s, [oslot[s] EXCEPT !.st = "PEER_CLOSED"])
    \/ /\ oslot[s].st \in {"CONNECTING", "ESTABLISHED", "PEER_CLOSED"}
       /\ PutOpt(s, [oslot[s] EXCEPT !.st = "ERROR", !.live = NoOpt])

OptClose(s) == oslot[s].st # "free" /\ PutOpt(s, FreeOpt)

OptInit == opt_name \in OptNames /\ oslot = [s \in OptSlots |-> FreeOpt]

OptNext ==
    \E s \in OptSlots :
        \/ OptSocket(s) \/ OptConnect(s) \/ OptConnected(s) \/ OptListen(s)
        \/ OptAccept(s) \/ OptPeer(s) \/ OptClose(s)
        \/ \E v \in OptInts : tn_ipc_cmd_setsockopt(s, v)

----------------------------------------------------------------------------
OptStates == {"free", "CLOSED", "CONNECTING", "ESTABLISHED", "LISTENING",
              "PEER_CLOSED", "ERROR"}
OptTypeOK ==
    /\ opt_name \in OptNames
    /\ \A s \in OptSlots :
         /\ oslot[s].st \in OptStates /\ oslot[s].stored \in Int
         /\ oslot[s].live = NoOpt \/ oslot[s].live \in 0 .. U32 - 1
         /\ oslot[s].mss \in 0 .. TCP_MSS
         /\ oslot[s].live = NoOpt => oslot[s].st \in {"free", "ERROR"}

\* What is in force on a socket with a pcb of its own after a was asked for,
\* and what is reported.  Where they differ from the question is where the code
\* does not keep it: the end of the handshake turns Nagle off and replaces the
\* segment size, accept() turns Nagle off and copies neither SO_REUSEADDR to the
\* slot nor IP_TTL to either, and without a pcb no segment size is known.
InForce(r) ==
    CASE opt_name \in {"SO_KEEPALIVE", "SO_REUSEADDR"} -> r.asked
      [] opt_name = "IP_TTL" -> IF r.when = "listener" THEN U8 - 1 ELSE r.asked
      [] opt_name = "TCP_KEEPIDLE" -> r.asked * MsPerSec
      [] opt_name = "TCP_NODELAY" ->
            IF r.when = "on" \/ r.st \in {"CLOSED", "CONNECTING"} THEN r.asked ELSE 1
      [] opt_name = "TCP_MAXSEG" ->
            IF r.when = "on" \/ r.st \in {"CLOSED", "CONNECTING"} THEN r.asked
            ELSE IF r.when = "listener" /\ r.asked < r.mss THEN r.asked ELSE r.mss
      [] OTHER -> 0

Answer(r) ==
    CASE opt_name = "TCP_MAXSEG" /\ r.live = NoOpt -> TCP_MSS
      [] opt_name = "TCP_MAXSEG" /\ r.live # NoOpt /\ r.st # "LISTENING" -> InForce(r)
      [] opt_name = "TCP_NODELAY" /\ r.when = "listener" -> 1
      [] opt_name = "SO_REUSEADDR" /\ r.when = "listener" -> 0
      [] opt_name = "IP_TTL" /\ r.when = "listener" -> 2
      [] OTHER -> r.asked

\* Every option a program asked for, on the socket or on the listener it was
\* accepted from, is reported by getsockopt and in force on the connection as
\* Answer and InForce say, through every order of set, listen, connect, accept
\* and loss of the pcb; and no segment is ever larger than what the peer agreed
\* to receive.
OptionInForce ==
    \A s \in OptSlots :
        /\ oslot[s].asked # NoOpt => Reported(s) = Answer(oslot[s])
        /\ oslot[s].asked # NoOpt /\ oslot[s].live # NoOpt /\ oslot[s].st # "LISTENING" =>
              oslot[s].live = InForce(oslot[s])
        /\ opt_name = "TCP_MAXSEG" /\ Connected(s) => oslot[s].live <= oslot[s].mss

----------------------------------------------------------------------------
(* The strengthening of OptionInForce that every step keeps, slot by slot:    *)
(* what was asked on a socket is what its slot stores (an accepted connection *)
(* inherits the listener's stored value, not its report), a value asked for   *)
(* fits the pcb's field, a request is early until there is a connection, and  *)
(* only a slot without a connection has no pcb.                               *)

OptRecords == [st : OptStates, stored : Int, live : Int \cup {NoOpt}, mss : Int,
               asked : Int \cup {NoOpt}, when : {"early", "on", "listener"}]

StoredFor(r) ==
    CASE r.when = "listener" /\ opt_name = "TCP_NODELAY" -> 1
      [] r.when = "listener" /\ opt_name = "SO_REUSEADDR" -> 0
      [] r.when = "listener" /\ opt_name = "IP_TTL" -> 2
      [] OTHER -> r.asked

OptSound(r) ==
    /\ r.live = NoOpt <=> r.st \in {"free", "ERROR"}
    /\ r.st \in {"free", "CLOSED", "CONNECTING", "LISTENING"} => r.when = "early"
    /\ r.st = "free" => r.asked = NoOpt
    /\ r.asked # NoOpt => r.stored = StoredFor(r)
    /\ r.asked # NoOpt /\ opt_name = "TCP_KEEPIDLE" =>
          r.asked > 0 /\ r.asked <= (U32 - 1) \div MsPerSec
    /\ r.asked # NoOpt /\ opt_name = "TCP_MAXSEG" => r.asked > 0
    /\ r.asked # NoOpt /\ r.live # NoOpt =>
          /\ r.st # "LISTENING" => r.live = InForce(r)
          /\ opt_name \in {"SO_KEEPALIVE", "SO_REUSEADDR"} => r.live = r.asked
    /\ opt_name = "TCP_MAXSEG" /\ r.st \in {"ESTABLISHED", "PEER_CLOSED"} => r.live <= r.mss
    /\ opt_name = "SO_SNDBUF" /\ r.live # NoOpt => r.live = 0

OptInv ==
    /\ opt_name \in OptNames /\ oslot \in [OptSlots -> OptRecords]
    /\ \A s \in OptSlots : OptSound(oslot[s])
=============================================================================
