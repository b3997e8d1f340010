----------------------------- MODULE SlotTable -----------------------------
(***************************************************************************)
(* The socket table of the tolunnet daemon and the descriptor tables of    *)
(* its clients: who holds which socket, and when a socket is destroyed.    *)
(*                                                                         *)
(* One daemon task owns every slot and handles one request at a time, so   *)
(* each IPC handler is one atomic action.  A client (a "base": one opened  *)
(* instance of bsdsocket.library) reaches a slot through its fd_map; a     *)
(* slot may be shared by several descriptors of several bases, and may be  *)
(* parked under an id (ReleaseSocket) while no base holds it.              *)
(*                                                                         *)
(* Of the requests a slot holds back only the accept is kept, because it   *)
(* ends in a new descriptor; the others are those of SocketCalls, and the  *)
(* selectors a base has armed those of SelectWait.                         *)
(***************************************************************************)
EXTENDS Integers, FiniteSets

CONSTANTS
    Bases,            \* clients of the library
    NoBase,           \* a null owner_base
    MaxSockets,       \* TN_MAX_GLOBAL_SOCKETS
    MinFds,           \* the smallest descriptor table SBTC_DTABLESIZE grants
    MaxFds,           \* TN_MAX_FDS_PER_TASK
    DefaultFds,       \* TN_DEFAULT_DTABLESIZE
    ClientBasesMax,   \* TN_CLIENT_BASES_MAX
    MaxParkId,        \* the largest park id before next_park_id wraps
    SockTypes,        \* the socket types modelled, subset of STREAM, DGRAM, RAW
    AskedIds,         \* the explicit ids programs pass to ReleaseSocket
    Listeners,        \* bound: the slots whose stream sockets may listen
    MaxStrays         \* bound: no accept is parked any more once so many bases left one

ASSUME BasesFinite   == IsFiniteSet(Bases) /\ NoBase \notin Bases
ASSUME TableSizes    == /\ MaxSockets \in Nat /\ ClientBasesMax \in Nat
                        /\ MinFds \in Nat /\ MaxFds \in Nat /\ DefaultFds \in Nat
                        /\ MinFds <= DefaultFds /\ DefaultFds <= MaxFds
ASSUME ParkIdsSuffice == MaxParkId \in Nat /\ MaxSockets < MaxParkId
                         /\ AskedIds \subseteq 0 .. MaxParkId
ASSUME KnownTypes    == SockTypes # {} /\ SockTypes \subseteq {"STREAM", "DGRAM", "RAW"}

VARIABLES
    sockets,       \* the slot table
    fd_map,        \* per base: descriptor -> slot index, or -1
    dtablesize,    \* per base: size of its descriptor table
    open_bases,    \* the registry of open bases
    next_park_id,  \* the next id UNIQUE_ID hands out
    client,        \* per base: "closed", "open", or "dead" (task gone, base not closed)
    accepting,     \* per slot: the base of its pending_accept_msg, or NoBase
    strays         \* history: bases that left the registry with an accept still parked

vars == <<sockets, fd_map, dtablesize, open_bases, next_park_id, client, accepting, strays>>

Slots == 0 .. MaxSockets - 1
Fds   == 0 .. MaxFds - 1
UNIQUE_ID == -1
InvalidId == -2          \* stands for every other negative id

(***************************************************************************)
(* A slot.  Only the fields that decide its life are kept.                 *)
(***************************************************************************)
SlotType == [in_use : BOOLEAN, type : SockTypes,
             ref_count : Nat, is_parked : BOOLEAN, park_id : Nat,
             owner_base : Bases \cup {NoBase}]

tn_init_socket_slot(b, type) ==
    [in_use |-> TRUE, type |-> type, ref_count |-> 1,
     is_parked |-> FALSE, park_id |-> 0, owner_base |-> b]

\* Mutant of tn_slot_free: the owner is kept.
FreeKeepsOwner(slot) ==
    [slot EXCEPT !.in_use = FALSE, !.ref_count = 0, !.is_parked = FALSE, !.park_id = 0]

\* What tn_slot_free leaves behind: type and TCP state stay stale.
tn_slot_free(slot) ==
    [slot EXCEPT !.in_use = FALSE, !.ref_count = 0, !.is_parked = FALSE,
                 !.park_id = 0, !.owner_base = NoBase]

\* Mutant of tn_slot_ref: the reference is not counted.
RefNotCounted(slot) == slot

tn_slot_ref(slot) == [slot EXCEPT !.ref_count = @ + 1]

\* n calls of tn_slot_unref: the slot goes with its last reference.
tn_slot_unref(slot, n) ==
    IF slot.in_use /\ n > 0
    THEN IF slot.ref_count <= n THEN tn_slot_free(slot)
                                ELSE [slot EXCEPT !.ref_count = @ - n]
    ELSE slot

\* Mutants of tn_slot_clear_owner_base: it is not called; it takes the sockets along.
OwnerKept(slot, gone) == slot
OwnerTakesAll(slot, gone) == IF slot.owner_base \in gone THEN tn_slot_free(slot) ELSE slot

tn_slot_clear_owner_base(slot, gone) ==
    IF slot.owner_base \in gone THEN [slot EXCEPT !.owner_base = NoBase] ELSE slot

FreeSlots == {s \in Slots : ~sockets[s].in_use}

\* tn_slot_alloc scans from index 0.
FirstFreeSlot(s) == s \in FreeSlots /\ \A t \in FreeSlots : s <= t

FreeFds(b) == {f \in Fds : f < dtablesize[b] /\ fd_map[b][f] = -1}

\* A preferred descriptor that is not free counts as none (-1), and none as the
\* lowest free one.
Prefs(b) == IF FreeFds(b) = {} THEN {-1} ELSE FreeFds(b)

\* The descriptor a new socket gets: the one the client's callback prefers
\* when it is free, else the lowest free one.
ChosenFd(b, f) == \E pref \in Prefs(b) :
    /\ f \in FreeFds(b)
    /\ IF pref \in FreeFds(b) THEN f = pref ELSE \A g \in FreeFds(b) : f <= g

\* Whether descriptor f of b names a slot in use.
tn_slot_lookup(b, f) ==
    f < dtablesize[b] /\ fd_map[b][f] >= 0 /\ sockets[fd_map[b][f]].in_use

\* The descriptors, of any base, that map m directs to slot s.
HandlesIn(m, s) == {h \in Bases \X Fds : m[h[1]][h[2]] = s}
Handles(s)      == HandlesIn(fd_map, s)

ParkedUnder(s, id) == sockets[s].in_use /\ sockets[s].is_parked /\ sockets[s].park_id = id
IdTaken(id) == \E s \in Slots : ParkedUnder(s, id)

\* tn_slot_free answers the accept its slot holds back, and tn_init_socket_slot
\* starts without one.
AcceptsEndWithSlot ==
    accepting' = [s \in Slots |-> IF sockets'[s].in_use THEN accepting[s] ELSE NoBase]

\* The errors the handlers below reply.  The error number reaches only the
\* caller; in the daemon a refused request leaves every table as it was.
ErrNos == {"EBADF", "EINVAL", "EMFILE", "ENFILE", "ENOBUFS", "EBUSY", "ENOENT", "EADDRINUSE",
           "EPROTOTYPE", "EOPNOTSUPP", "EAFNOSUPPORT", "EPROTONOSUPPORT", "ESOCKTNOSUPPORT"}
Refuse(err_no) == err_no \in ErrNos /\ UNCHANGED vars

-----------------------------------------------------------------------------
(***************************************************************************)
(* Leaving: tn_ipc_cmd_close of every base in "gone".  Descriptors are     *)
(* dropped, the base leaves the registry and owns nothing any more.        *)
(***************************************************************************)
DeadBases == {b \in open_bases : client[b] = "dead"}

\* How many descriptors of the leaving bases name slot s.
DroppedRefs(gone, s) ==
    Cardinality({h \in Handles(s) : h[1] \in gone /\ h[2] < dtablesize[h[1]]})

\* The reap forgets the accepts parked on slots a dead base owns, whoever asked
\* for them; those of a dead base on a slot somebody else owns stay.
ReapedAccepts(gone, s) ==
    IF sockets[s].owner_base \in gone \cap DeadBases THEN NoBase ELSE accepting[s]

Leave(gone) ==
    /\ sockets' = [s \in Slots |->
          tn_slot_clear_owner_base(tn_slot_unref(sockets[s], DroppedRefs(gone, s)), gone)]
    /\ fd_map' = [b \in Bases |-> IF b \in gone THEN [f \in Fds |-> -1] ELSE fd_map[b]]
    /\ accepting' = [s \in Slots |->
          IF sockets'[s].in_use THEN ReapedAccepts(gone, s) ELSE NoBase]
    /\ strays' = strays \cup {b \in gone : \E s \in Slots : accepting'[s] = b}

\* The tables of the bases that left go with them, unless an accept may still
\* write into them.
TablesLeft(gone) ==
    [b \in Bases |-> IF b \in gone \ strays' THEN DefaultFds ELSE dtablesize[b]]

tn_ipc_cmd_close(b) ==
    /\ client[b] = "open"
    /\ Leave({b})
    /\ open_bases' = open_bases \ {b}
    /\ client' = [client EXCEPT ![b] = "closed"]
    /\ dtablesize' = TablesLeft({b})
    /\ UNCHANGED next_park_id

\* Ctrl-C, STOP and the shutdown gate sweep the registry for dead tasks.
tn_reap_dead_clients ==
    /\ DeadBases # {}
    /\ Leave(DeadBases)
    /\ open_bases' = open_bases \ DeadBases
    /\ client' = [b \in Bases |-> IF b \in DeadBases THEN "closed" ELSE client[b]]
    /\ dtablesize' = TablesLeft(DeadBases)
    /\ UNCHANGED next_park_id

\* A client task that ends without CloseLibrary.
TaskDies(b) ==
    /\ client[b] = "open"
    /\ client' = [client EXCEPT ![b] = "dead"]
    /\ UNCHANGED <<sockets, fd_map, dtablesize, open_bases, next_park_id, accepting, strays>>

(***************************************************************************)
(* OpenLibrary: a fresh base registers; a full registry is swept once for  *)
(* dead tasks before the open is refused.  The memory of a reaped base is  *)
(* never freed, so a stray is no new base's address.                       *)
(***************************************************************************)
\* Mutant of Register: the registry is filled one beyond its size.
RegisterOneMore(b, gone) ==
    LET kept == open_bases \ gone IN
    /\ open_bases' = IF Cardinality(kept) <= ClientBasesMax THEN kept \cup {b} ELSE kept
    /\ client' = [c \in Bases |-> IF c = b THEN "open"
                                  ELSE IF c \in gone THEN "closed" ELSE client[c]]
    /\ dtablesize' = [TablesLeft(gone) EXCEPT ![b] = DefaultFds]

Register(b, gone) ==
    LET kept == open_bases \ gone IN
    IF Cardinality(kept) < ClientBasesMax
    THEN /\ open_bases' = kept \cup {b}
         /\ client' = [c \in Bases |-> IF c = b THEN "open"
                                       ELSE IF c \in gone THEN "closed" ELSE client[c]]
         /\ dtablesize' = [TablesLeft(gone) EXCEPT ![b] = DefaultFds]
    ELSE /\ open_bases' = kept
         /\ client' = [c \in Bases |-> IF c \in gone THEN "closed" ELSE client[c]]
         /\ dtablesize' = TablesLeft(gone)

tn_ipc_cmd_open(b) ==
    /\ client[b] = "closed" /\ b \notin strays
    /\ LET gone == IF Cardinality(open_bases) < ClientBasesMax THEN {} ELSE DeadBases
       IN  Leave(gone) /\ Register(b, gone)
    /\ UNCHANGED next_park_id

-----------------------------------------------------------------------------
(***************************************************************************)
(* socket(): a descriptor first, then a slot, then the lwIP control block; *)
(* the slot is given back when lwIP has no memory for the block.           *)
(***************************************************************************)
ArgErrors == {"EAFNOSUPPORT", "EPROTONOSUPPORT", "ESOCKTNOSUPPORT"}

tn_ipc_cmd_socket(b, type) ==
    /\ client[b] = "open"
    /\ \/ ArgErrors \subseteq ErrNos /\ UNCHANGED vars
       \/ FreeFds(b) = {} /\ Refuse("EMFILE")
       \/ FreeFds(b) # {} /\ FreeSlots = {} /\ Refuse("ENFILE")
       \/ \E f \in Fds, s \in Slots :
            /\ ChosenFd(b, f) /\ FirstFreeSlot(s)
            /\ \/ /\ sockets' = [sockets EXCEPT ![s] = tn_init_socket_slot(b, type)]
                  /\ fd_map'  = [fd_map EXCEPT ![b][f] = s]
               \/ /\ sockets' = [sockets EXCEPT ![s] = tn_slot_free(tn_init_socket_slot(b, type))]
                  /\ UNCHANGED fd_map
            /\ UNCHANGED <<dtablesize, open_bases, next_park_id, client, accepting, strays>>

(***************************************************************************)
(* accept(): with a connection in the queue it is handed over at once, else *)
(* the request is parked on the slot, in the place of one already there,   *)
(* and tn_tcp_accept_cb hands the next connection over.  The slot comes    *)
(* first and is given back when the base has no descriptor left.  Whether  *)
(* a stream slot listens is state of SocketCalls: here it may.             *)
(***************************************************************************)
GiveConnection(b) ==
    /\ \/ FreeSlots = {} /\ UNCHANGED <<sockets, fd_map>>
       \/ \E s \in Slots :
            /\ FirstFreeSlot(s)
            /\ \/ \E f \in Fds :
                    /\ ChosenFd(b, f)
                    /\ sockets' = [sockets EXCEPT ![s] = tn_init_socket_slot(b, "STREAM")]
                    /\ fd_map'  = [fd_map EXCEPT ![b][f] = s]
               \/ /\ FreeFds(b) = {}
                  /\ sockets' = [sockets EXCEPT ![s] =
                                    tn_slot_free(tn_init_socket_slot(b, "STREAM"))]
                  /\ UNCHANGED fd_map
    /\ UNCHANGED <<dtablesize, open_bases, next_park_id, client, strays>>

tn_ipc_cmd_accept(b, lf) ==
    /\ client[b] = "open"
    /\ IF ~tn_slot_lookup(b, lf) THEN Refuse("EBADF")
       ELSE \/ Refuse("EINVAL")
            \/ /\ sockets[fd_map[b][lf]].type = "STREAM"
               /\ \/ GiveConnection(b) /\ UNCHANGED accepting
                  \/ /\ fd_map[b][lf] \in Listeners /\ Cardinality(strays) < MaxStrays
                     /\ accepting' = [accepting EXCEPT ![fd_map[b][lf]] = b]
                     /\ UNCHANGED <<sockets, fd_map, dtablesize, open_bases, next_park_id,
                                    client, strays>>

\* The base of the parked request gets the connection, whether or not it is
\* still registered.
tn_tcp_accept_cb(t) ==
    /\ accepting[t] # NoBase
    /\ GiveConnection(accepting[t])
    /\ accepting' = [accepting EXCEPT ![t] = NoBase]

\* A break or a time-out takes the client's own accept back.
tn_ipc_cmd_cancel(b, t) ==
    /\ client[b] = "open" /\ accepting[t] = b
    /\ accepting' = [accepting EXCEPT ![t] = NoBase]
    /\ UNCHANGED <<sockets, fd_map, dtablesize, open_bases, next_park_id, client, strays>>

tn_ipc_cmd_closesocket(b, f) ==
    /\ client[b] = "open"
    /\ IF ~tn_slot_lookup(b, f) THEN Refuse("EBADF")
       ELSE /\ sockets' = [sockets EXCEPT ![fd_map[b][f]] = tn_slot_unref(@, 1)]
            /\ fd_map'  = [fd_map EXCEPT ![b][f] = -1]
            /\ AcceptsEndWithSlot
            /\ UNCHANGED <<dtablesize, open_bases, next_park_id, client, strays>>

\* Mutant of Redirect: what new named is not released.
RedirectLeaks(b, old, new) ==
    /\ sockets' = [sockets EXCEPT ![fd_map[b][old]] = tn_slot_ref(@)]
    /\ fd_map'  = [fd_map EXCEPT ![b][new] = fd_map[b][old]]

\* Dup2Socket: whatever new named is released before new takes the slot of old.
Redirect(b, old, new) ==
    LET s == fd_map[b][old]
        t == fd_map[b][new]
        released == IF t >= 0 THEN [sockets EXCEPT ![t] = tn_slot_unref(@, 1)] ELSE sockets
    IN  /\ sockets' = [released EXCEPT ![s] = tn_slot_ref(@)]
        /\ fd_map'  = [fd_map EXCEPT ![b][new] = s]

tn_ipc_cmd_dup2(b, old, new) ==
    /\ client[b] = "open"
    /\ IF ~tn_slot_lookup(b, old) \/ new >= dtablesize[b] THEN Refuse("EBADF")
       ELSE IF old = new THEN UNCHANGED vars
       ELSE /\ Redirect(b, old, new)
            /\ AcceptsEndWithSlot
            /\ UNCHANGED <<dtablesize, open_bases, next_park_id, client, strays>>

-----------------------------------------------------------------------------
(***************************************************************************)
(* Passing a socket between programs.                                      *)
(***************************************************************************)
NextId(id) == IF id = MaxParkId THEN 1 ELSE id + 1

\* The ids from "first" up to (not including) "id" in the order UNIQUE_ID tries them.
IdsBefore(first, id) ==
    IF first <= id THEN first .. id - 1 ELSE (first .. MaxParkId) \cup (1 .. id - 1)

\* Mutant of ParkId: a wrapped counter is trusted to be free.
ParkIdUnchecked(req, id, next) ==
    \/ req = UNIQUE_ID /\ id = next_park_id /\ next = NextId(id)
    \/ req >= 0 /\ ~IdTaken(id) /\ id = req /\ next = next_park_id

\* Which id a request for req gets, and where the next UNIQUE_ID search starts.
ParkId(req, id, next) ==
    /\ ~IdTaken(id)
    /\ \/ /\ req = UNIQUE_ID
          /\ id \in 1 .. MaxParkId
          /\ \A earlier \in IdsBefore(next_park_id, id) : IdTaken(earlier)
          /\ next = NextId(id)
       \/ req >= 0 /\ id = req /\ next = next_park_id

Parked(slot, id)  == [slot EXCEPT !.is_parked = TRUE, !.park_id = id]
Obtained(slot, b) == [slot EXCEPT !.is_parked = FALSE, !.park_id = 0, !.owner_base = b]

\* A copy adds a reference; otherwise the descriptor's reference moves to the park.
tn_ipc_cmd_releasesocket(b, f, req) ==
    /\ client[b] = "open"
    /\ IF ~tn_slot_lookup(b, f) THEN Refuse("EBADF")
       ELSE IF sockets[fd_map[b][f]].is_parked THEN Refuse("EBUSY")
       ELSE IF req = InvalidId THEN Refuse("EINVAL")
       ELSE IF req >= 0 /\ IdTaken(req) THEN Refuse("EADDRINUSE")
       ELSE \E id \in 0 .. MaxParkId, next \in 1 .. MaxParkId, copy \in BOOLEAN :
              /\ ParkId(req, id, next)
              /\ sockets' = [sockets EXCEPT ![fd_map[b][f]] =
                               Parked(IF copy THEN tn_slot_ref(@) ELSE @, id)]
              /\ fd_map' = IF copy THEN fd_map ELSE [fd_map EXCEPT ![b][f] = -1]
              /\ next_park_id' = next
              /\ UNCHANGED <<dtablesize, open_bases, client, accepting, strays>>

\* type = "ANY" is the wildcard 0.
tn_ipc_cmd_obtainsocket(b, id, type) ==
    /\ client[b] = "open"
    /\ \/ ~IdTaken(id) /\ Refuse("ENOENT")
       \/ \E s \in Slots :
            /\ ParkedUnder(s, id)
            /\ IF type # "ANY" /\ type # sockets[s].type
               THEN Refuse("EPROTOTYPE")
               ELSE IF FreeFds(b) = {} THEN Refuse("EMFILE")
               ELSE \E f \in Fds :
                      /\ ChosenFd(b, f)
                      /\ fd_map'  = [fd_map EXCEPT ![b][f] = s]
                      /\ sockets' = [sockets EXCEPT ![s] = Obtained(@, b)]
                      /\ UNCHANGED <<dtablesize, open_bases, next_park_id, client, accepting,
                                     strays>>

\* Mutants of SetDTableSize: no look at the open descriptors; room for one more.
ShrinkBlindly(b, n) ==
    /\ client[b] = "open"
    /\ dtablesize' = [dtablesize EXCEPT ![b] = n]
    /\ UNCHANGED <<sockets, fd_map, open_bases, next_park_id, client, accepting, strays>>

OneEntryTooMany(b, n) ==
    /\ client[b] = "open"
    /\ dtablesize' = [dtablesize EXCEPT ![b] = n + 1]
    /\ UNCHANGED <<sockets, fd_map, open_bases, next_park_id, client, accepting, strays>>

(***************************************************************************)
(* SocketBaseTags(SBTC_DTABLESIZE), done by the client under Forbid: the   *)
(* table never shrinks below an open descriptor; when the new tables cannot *)
(* be allocated the old ones stay.                                         *)
(***************************************************************************)
SetDTableSize(b, n) ==
    /\ client[b] = "open"
    /\ IF \E f \in Fds : n <= f /\ f < dtablesize[b] /\ fd_map[b][f] >= 0
       THEN Refuse("EINVAL")
       ELSE /\ dtablesize' = [dtablesize EXCEPT ![b] = n]
            /\ fd_map' = [fd_map EXCEPT ![b] =
                             [f \in Fds |-> IF f < n /\ f < dtablesize[b] THEN @[f] ELSE -1]]
            /\ UNCHANGED <<sockets, open_bases, next_park_id, client, accepting, strays>>

-----------------------------------------------------------------------------
\* tn_slot_table_init; MEMF_CLEAR slots, of no particular type.
Init ==
    /\ sockets = [s \in Slots |->
          [in_use |-> FALSE, type |-> CHOOSE t \in SockTypes : TRUE,
           ref_count |-> 0, is_parked |-> FALSE, park_id |-> 0, owner_base |-> NoBase]]
    /\ fd_map = [b \in Bases |-> [f \in Fds |-> -1]]
    /\ dtablesize = [b \in Bases |-> DefaultFds]
    /\ open_bases = {}
    /\ next_park_id = 1
    /\ client = [b \in Bases |-> "closed"]
    /\ accepting = [s \in Slots |-> NoBase]
    /\ strays = {}

Ids == 0 .. MaxParkId

\* The type asked for matters only when the id is taken.
AskedTypes(id) == IF IdTaken(id) THEN {"ANY", "STREAM", "DGRAM"} ELSE {"ANY"}

ClientStep(b) ==
    \/ tn_ipc_cmd_open(b)
    \/ tn_ipc_cmd_close(b)
    \/ TaskDies(b)
    \/ \E type \in SockTypes : tn_ipc_cmd_socket(b, type)
    \/ \E lf \in Fds : tn_ipc_cmd_accept(b, lf)
    \/ \E t \in Slots : tn_ipc_cmd_cancel(b, t)
    \/ \E f \in Fds : tn_ipc_cmd_closesocket(b, f)
    \/ \E old, new \in Fds : tn_ipc_cmd_dup2(b, old, new)
    \/ \E f \in Fds, req \in AskedIds \cup {UNIQUE_ID, InvalidId} :
          tn_ipc_cmd_releasesocket(b, f, req)
    \/ \E id \in Ids : \E type \in AskedTypes(id) :
          tn_ipc_cmd_obtainsocket(b, id, type)
    \/ \E n \in MinFds .. MaxFds : SetDTableSize(b, n)

Next ==
    \/ tn_reap_dead_clients
    \/ \E t \in Slots : tn_tcp_accept_cb(t)
    \/ \E b \in Bases : ClientStep(b)

Spec == Init /\ [][Next]_vars

-----------------------------------------------------------------------------
(***************************************************************************)
(* Correctness.                                                            *)
(***************************************************************************)
\* Types of the tables: slots, descriptor maps, table sizes, registry, park counter.
TypeOK ==
    /\ sockets \in [Slots -> SlotType]
    /\ fd_map \in [Bases -> [Fds -> Slots \cup {-1}]]
    /\ dtablesize \in [Bases -> MinFds .. MaxFds]
    /\ open_bases \subseteq Bases
    /\ next_park_id \in 1 .. MaxParkId
    /\ client \in [Bases -> {"closed", "open", "dead"}]
    /\ accepting \in [Slots -> Bases \cup {NoBase}]
    /\ strays \subseteq Bases

ParkRefs(s) == IF sockets[s].is_parked THEN 1 ELSE 0

\* ref_count of a slot in use is the number of descriptors of all bases that
\* name it, plus one while it is parked, and it is never zero: neither a leak
\* nor an early tn_slot_free (ipc_dispatch.c, invariant 2).
RefCountExact ==
    \A s \in Slots : sockets[s].in_use =>
        /\ sockets[s].ref_count = Cardinality(Handles(s)) + ParkRefs(s)
        /\ sockets[s].ref_count >= 1

\* A freed slot is named by nobody: no descriptor, no park id, no owner, no accept.  A slot
\* index reused by tn_slot_alloc can therefore never be reached through an old handle.
FreeSlotUnreachable ==
    \A s \in FreeSlots :
        /\ Handles(s) = {} /\ ~sockets[s].is_parked
        /\ sockets[s].owner_base = NoBase /\ accepting[s] = NoBase

\* Two parked slots never share an id, whatever mix of UNIQUE_ID, explicit ids
\* and wrap-around of next_park_id: ObtainSocket finds the socket that was released.
ParkIdsUnique ==
    \A s, t \in Slots, id \in Ids : ParkedUnder(s, id) /\ ParkedUnder(t, id) => s = t

\* The base a slot signals, or an accept parked on it will serve, is registered,
\* so that neither points to a base its client has freed (bugtrack 3.7) - or it is
\* a stray: it left the registry while an accept of its own stayed parked, for CLOSE
\* takes none back and the reap only those on slots the dead base owns.
OwnerRegistered ==
    \A s \in Slots : \A b \in {sockets[s].owner_base, accepting[s]} \ {NoBase} :
        b \in open_bases \cup strays

\* A registered base is open or dead, never closed, and a stray is closed; only
\* these hold descriptors, and only inside their descriptor table (SBTC_DTABLESIZE
\* never cuts off an open one, which CLOSE would then leak).
DescriptorsAccountedFor ==
    /\ \A b \in Bases : b \in open_bases <=> client[b] # "closed"
    /\ strays \cap open_bases = {}
    /\ \A b \in Bases, f \in Fds :
          fd_map[b][f] # -1 => b \in open_bases \cup strays /\ f < dtablesize[b]

\* The registry never exceeds TN_CLIENT_BASES_MAX entries, also when an OPEN that
\* finds it full sweeps dead clients away and registers in their place.
RegistryBounded == Cardinality(open_bases) <= ClientBasesMax

\* Together: nobody reaches a socket through a handle, an id, an owner entry or
\* a descriptor that is no longer, or not yet, theirs, and the registry holds the
\* bases that can - all but those that left it with an accept still parked, which
\* the next connection makes holders of a socket nobody will ever close.
TablesSound ==
    /\ FreeSlotUnreachable /\ ParkIdsUnique /\ OwnerRegistered
    /\ DescriptorsAccountedFor /\ RegistryBounded

-----------------------------------------------------------------------------
\* A parked socket waits for its ObtainSocket: no close, death or reap of any
\* base, and no reuse of its slot, can take it out of the park.  It leaves the
\* park alive, and with its reference turned into a new descriptor of its new owner.
ParkedUntilObtained ==
    [][\A s \in Slots :
          sockets[s].is_parked /\ ~sockets'[s].is_parked =>
            /\ sockets'[s].in_use
            /\ \E f \in Fds : LET b == sockets'[s].owner_base IN
                  b \in open_bases /\ fd_map[b][f] = -1 /\ fd_map'[b][f] = s]_vars

\* The table implements the promise of SocketHandles: slots in use are the
\* sockets that exist, -1 is no handle.
Handle == INSTANCE SocketHandles WITH
    Programs <- Bases, Descriptors <- Fds, Sockets <- Slots,
    ParkNames <- Ids, Nothing <- -1,
    holds <- fd_map,
    parked <- [s \in Slots |-> IF sockets[s].is_parked THEN sockets[s].park_id ELSE -1],
    exists <- {s \in Slots : sockets[s].in_use}

\* Every behaviour of the slot table is one of the handle service: a socket
\* exists exactly as long as a descriptor or a park id names it.
ImplementsHandles == Handle!HSpec
=============================================================================
