-------------------------- MODULE SlotTableProofs --------------------------
(***************************************************************************)
(* Proofs about SlotTable, for any number of clients, slots, descriptors   *)
(* and park ids.                                                           *)
(*                                                                         *)
(* The argument is local to a slot.  SlotCounted(slot, H) says what a slot *)
(* record owes to the set H of descriptors that name it; one lemma per     *)
(* primitive (init, ref, unref, park, obtain, clear owner) says how the    *)
(* primitive moves the pair, and each handler is then a matter of saying   *)
(* which descriptors it adds and removes.                                  *)
(***************************************************************************)
EXTENDS SlotTable, FiniteSetTheorems, TLAPS

ParkRef(slot) == IF slot.is_parked THEN 1 ELSE 0

SlotCounted(slot, H) ==
    IF slot.in_use
    THEN slot.ref_count = Cardinality(H) + ParkRef(slot) /\ slot.ref_count >= 1
    ELSE H = {} /\ ~slot.is_parked /\ slot.owner_base = NoBase

Counted == \A s \in Slots : SlotCounted(sockets[s], Handles(s))

\* The types but that of the parked accepts, and the owners of the slots.
TypeTables ==
    /\ sockets \in [Slots -> SlotType]
    /\ fd_map \in [Bases -> [Fds -> Slots \cup {-1}]]
    /\ dtablesize \in [Bases -> MinFds .. MaxFds]
    /\ open_bases \subseteq Bases
    /\ next_park_id \in 1 .. MaxParkId
    /\ client \in [Bases -> {"closed", "open", "dead"}]
    /\ strays \subseteq Bases

OwnersKnown ==
    \A s \in Slots : sockets[s].owner_base # NoBase =>
        sockets[s].owner_base \in open_bases \cup strays

\* What the tables owe each other, and what the parked accepts owe the tables.
TInv == TypeTables /\ Counted /\ ParkIdsUnique /\ OwnersKnown /\ DescriptorsAccountedFor

Accepts ==
    /\ accepting \in [Slots -> Bases \cup {NoBase}]
    /\ \A s \in Slots : accepting[s] # NoBase =>
          /\ sockets[s].in_use /\ "STREAM" \in SockTypes
          /\ accepting[s] \in open_bases \cup strays

IInv == TInv /\ Accepts

tvars == <<sockets, fd_map, dtablesize, open_bases, next_park_id, client, strays>>


-----------------------------------------------------------------------------
\* The descriptors that name a slot are finitely many (tn_slot_lookup's tables
\* are finite), so reference counts can be compared with their number.
LEMMA HandlesFinite ==
    ASSUME NEW m, NEW s
    PROVE  IsFiniteSet(HandlesIn(m, s)) /\ Cardinality(HandlesIn(m, s)) \in Nat
<1>1. IsFiniteSet(Bases) BY BasesFinite
<1>2. IsFiniteSet(Fds) BY FS_Interval, TableSizes DEF Fds
<1>3. IsFiniteSet(Bases \X Fds) BY <1>1, <1>2, FS_Product
<1>4. HandlesIn(m, s) \subseteq Bases \X Fds BY DEF HandlesIn
<1>5. IsFiniteSet(HandlesIn(m, s)) BY <1>3, <1>4, FS_Subset
<1> QED BY <1>5, FS_CardinalityType

\* -1 is no slot.
LEMMA NoSlot == \A s \in Slots : s # -1 /\ s >= 0 /\ s \in Int
BY TableSizes DEF Slots

\* Writing v into descriptor f of b adds it to the handles of v and takes it
\* from every other slot.
LEMMA SetDescriptor ==
    ASSUME NEW b \in Bases, NEW f \in Fds, NEW v \in Slots \cup {-1},
           fd_map \in [Bases -> [Fds -> Slots \cup {-1}]],
           fd_map' = [fd_map EXCEPT ![b][f] = v]
    PROVE  \A s : Handles(s)' = IF s = v THEN Handles(s) \cup {<<b, f>>}
                                         ELSE Handles(s) \ {<<b, f>>}
<1>1. \A h \in Bases \X Fds : fd_map'[h[1]][h[2]] =
                                IF h = <<b, f>> THEN v ELSE fd_map[h[1]][h[2]]
  OBVIOUS
<1>2. <<b, f>> \in Bases \X Fds OBVIOUS
<1> QED BY <1>1, <1>2 DEF Handles, HandlesIn

-----------------------------------------------------------------------------
\* A fresh slot is counted by its one descriptor (tn_init_socket_slot).
LEMMA CountedInit ==
    ASSUME NEW b, NEW type, NEW h
    PROVE  SlotCounted(tn_init_socket_slot(b, type), {h})
<1>1. Cardinality({h}) = 1 BY FS_Singleton
<1> QED BY <1>1 DEF SlotCounted, ParkRef, tn_init_socket_slot

\* A freed slot is counted by no descriptor (tn_slot_free).
LEMMA CountedFree ==
    ASSUME NEW slot \in SlotType
    PROVE  tn_slot_free(slot) \in SlotType /\ ~tn_slot_free(slot).in_use
           /\ SlotCounted(tn_slot_free(slot), {})
BY DEF SlotCounted, SlotType, tn_slot_free

\* Dropping the descriptors D of a slot with as many calls of tn_slot_unref keeps
\* it counted; the slot goes away exactly when nothing else names it.
LEMMA CountedUnref ==
    ASSUME NEW slot \in SlotType, NEW H, IsFiniteSet(H), NEW D, D \subseteq H,
           SlotCounted(slot, H)
    PROVE  /\ tn_slot_unref(slot, Cardinality(D)) \in SlotType
           /\ SlotCounted(tn_slot_unref(slot, Cardinality(D)), H \ D)
           /\ slot.in_use /\ (H # D \/ slot.is_parked) =>
                 tn_slot_unref(slot, Cardinality(D)).in_use
           /\ slot.is_parked => tn_slot_unref(slot, Cardinality(D)).is_parked
           /\ tn_slot_unref(slot, Cardinality(D)).is_parked =>
                 slot.is_parked /\ tn_slot_unref(slot, Cardinality(D)).park_id = slot.park_id
           /\ tn_slot_unref(slot, Cardinality(D)).in_use => slot.in_use
           /\ tn_slot_unref(slot, Cardinality(D)).owner_base \in {slot.owner_base, NoBase}
<1> DEFINE n == Cardinality(D)
<1>1. IsFiniteSet(D) /\ n \in Nat /\ n <= Cardinality(H) /\ (n = Cardinality(H) => D = H)
  BY FS_Subset, FS_CardinalityType
<1>2. Cardinality(H) \in Nat BY FS_CardinalityType
<1>3. n = 0 <=> D = {} BY <1>1, FS_EmptySet
<1>4. Cardinality(H \ D) = Cardinality(H) - n
  <2>1. H \cap D = D OBVIOUS
  <2> QED BY <2>1, FS_Difference
<1>5. H \ D = {} <=> H = D OBVIOUS
<1> HIDE DEF n
<1>6. CASE ~slot.in_use \/ n = 0
  <2>1. tn_slot_unref(slot, n) = slot BY <1>6, <1>1 DEF tn_slot_unref
  <2>2. D = {} BY <1>6, <1>3 DEF SlotCounted
  <2>3. H \ D = H BY <2>2
  <2> QED BY <2>1, <2>3 DEF n, SlotCounted, SlotType
<1>7. CASE slot.in_use /\ n > 0 /\ slot.ref_count <= n
  <2>1. tn_slot_unref(slot, n) = tn_slot_free(slot) BY <1>7 DEF tn_slot_unref
  <2>2. ~slot.is_parked /\ Cardinality(H) = n
    BY <1>1, <1>2, <1>7 DEF SlotCounted, ParkRef, SlotType
  <2>3. H \ D = {} /\ H = D BY <2>2, <1>1
  <2> QED BY <2>1, <2>2, <2>3, CountedFree DEF n, SlotCounted, tn_slot_free, SlotType
<1>8. CASE slot.in_use /\ n > 0 /\ slot.ref_count > n
  <2>1. tn_slot_unref(slot, n) = [slot EXCEPT !.ref_count = @ - n]
    BY <1>1, <1>8 DEF tn_slot_unref, SlotType
  <2>2. slot.ref_count - n \in Nat /\ slot.ref_count - n >= 1 BY <1>1, <1>8 DEF SlotType
  <2>3. slot.ref_count - n = Cardinality(H \ D) + ParkRef(slot)
    BY <1>1, <1>2, <1>4, <1>8 DEF SlotCounted, ParkRef, SlotType
  <2>4. tn_slot_unref(slot, n) \in SlotType BY <2>1, <2>2 DEF SlotType
  <2>5. SlotCounted(tn_slot_unref(slot, n), H \ D)
    BY <2>1, <2>2, <2>3, <1>8 DEF SlotCounted, ParkRef, SlotType
  <2> QED BY <2>1, <2>4, <2>5, <1>8 DEF n, SlotType
<1> QED BY <1>6, <1>7, <1>8, <1>1 DEF SlotType

\* One more descriptor, one more reference (tn_slot_ref).
LEMMA CountedRef ==
    ASSUME NEW slot \in SlotType, NEW H, IsFiniteSet(H), NEW h, h \notin H,
           slot.in_use, SlotCounted(slot, H)
    PROVE  tn_slot_ref(slot) \in SlotType /\ SlotCounted(tn_slot_ref(slot), H \cup {h})
<1>1. Cardinality(H \cup {h}) = Cardinality(H) + 1 /\ Cardinality(H) \in Nat
  BY FS_AddElement, FS_CardinalityType
<1> QED BY <1>1 DEF tn_slot_ref, SlotCounted, ParkRef, SlotType

\* Parking a copy adds a reference for the park; parking a descriptor hands its
\* reference over.
LEMMA CountedPark ==
    ASSUME NEW slot \in SlotType, NEW H, IsFiniteSet(H), NEW h \in H, NEW id \in Nat,
           slot.in_use, ~slot.is_parked, SlotCounted(slot, H)
    PROVE  /\ Parked(tn_slot_ref(slot), id) \in SlotType
           /\ Parked(slot, id) \in SlotType
           /\ SlotCounted(Parked(tn_slot_ref(slot), id), H)
           /\ SlotCounted(Parked(slot, id), H \ {h})
           /\ \A p \in {Parked(tn_slot_ref(slot), id), Parked(slot, id)} :
                 p.in_use /\ p.is_parked /\ p.park_id = id /\ p.owner_base = slot.owner_base
<1>1. Cardinality(H \ {h}) = Cardinality(H) - 1 /\ Cardinality(H) \in Nat
  BY FS_RemoveElement, FS_CardinalityType
<1>2. Parked(tn_slot_ref(slot), id) =
        [slot EXCEPT !.ref_count = @ + 1, !.is_parked = TRUE, !.park_id = id]
  BY DEF Parked, tn_slot_ref, SlotType
<1>3. Parked(slot, id) = [slot EXCEPT !.is_parked = TRUE, !.park_id = id] BY DEF Parked
<1>4. slot.ref_count = Cardinality(H) /\ slot.ref_count >= 1 /\ slot.ref_count \in Nat
  BY <1>1 DEF SlotCounted, ParkRef, SlotType
<1>5. Parked(tn_slot_ref(slot), id) \in SlotType /\ Parked(slot, id) \in SlotType
  <2>1. slot.ref_count + 1 \in Nat BY <1>4
  <2>2. tn_slot_ref(slot) \in SlotType BY <2>1 DEF SlotType, tn_slot_ref
  <2>3. \A r \in SlotType : Parked(r, id) \in SlotType BY DEF SlotType, Parked
  <2> QED BY <2>2, <2>3
<1>6. SlotCounted(Parked(tn_slot_ref(slot), id), H)
  BY <1>1, <1>2, <1>4 DEF SlotCounted, ParkRef, SlotType
<1>7. SlotCounted(Parked(slot, id), H \ {h})
  BY <1>1, <1>3, <1>4 DEF SlotCounted, ParkRef, SlotType
<1> QED BY <1>2, <1>3, <1>5, <1>6, <1>7 DEF SlotType

\* Obtaining turns the reference of the park into that of a new descriptor.
LEMMA CountedObtain ==
    ASSUME NEW slot \in SlotType, NEW H, IsFiniteSet(H), NEW h, h \notin H, NEW b \in Bases,
           slot.in_use, slot.is_parked, SlotCounted(slot, H)
    PROVE  /\ Obtained(slot, b) \in SlotType
           /\ SlotCounted(Obtained(slot, b), H \cup {h})
           /\ Obtained(slot, b).in_use /\ ~Obtained(slot, b).is_parked
           /\ Obtained(slot, b).owner_base = b
<1>1. Cardinality(H \cup {h}) = Cardinality(H) + 1 /\ Cardinality(H) \in Nat
  BY FS_AddElement, FS_CardinalityType
<1>2. Obtained(slot, b) \in SlotType BY DEF Obtained, SlotType
<1>3. /\ Obtained(slot, b).in_use = slot.in_use /\ Obtained(slot, b).is_parked = FALSE
      /\ Obtained(slot, b).owner_base = b /\ Obtained(slot, b).ref_count = slot.ref_count
  BY DEF Obtained, SlotType
<1>4. slot.ref_count = Cardinality(H) + 1 /\ slot.ref_count >= 1
  BY DEF SlotCounted, ParkRef
<1> QED BY <1>1, <1>2, <1>3, <1>4 DEF SlotCounted, ParkRef

\* Forgetting the owner changes nothing that is counted.
LEMMA CountedClearOwner ==
    ASSUME NEW slot \in SlotType, NEW H, SlotCounted(slot, H), NEW gone
    PROVE  LET cleared == tn_slot_clear_owner_base(slot, gone)
           IN  /\ cleared \in SlotType
               /\ SlotCounted(cleared, H)
               /\ cleared.in_use = slot.in_use
               /\ cleared.is_parked = slot.is_parked
               /\ cleared.park_id = slot.park_id
               /\ cleared.owner_base \in {slot.owner_base, NoBase}
               /\ cleared.owner_base \notin gone \ {NoBase}
BY DEF tn_slot_clear_owner_base, SlotCounted, ParkRef, SlotType

-----------------------------------------------------------------------------
\* A descriptor that is not -1 names a slot in use, and is one of its handles.
LEMMA DescriptorNamesSlot ==
    ASSUME TInv, NEW b \in Bases, NEW f \in Fds, fd_map[b][f] # -1
    PROVE  /\ fd_map[b][f] \in Slots
           /\ <<b, f>> \in Handles(fd_map[b][f])
           /\ sockets[fd_map[b][f]].in_use
           /\ b \in open_bases \cup strays /\ f < dtablesize[b]
<1>1. fd_map[b][f] \in Slots BY DEF TInv, TypeTables
<1>2. <<b, f>> \in Handles(fd_map[b][f]) BY DEF Handles, HandlesIn
<1>3. sockets[fd_map[b][f]].in_use BY <1>1, <1>2 DEF TInv, Counted, SlotCounted
<1> QED BY <1>1, <1>2, <1>3 DEF TInv, DescriptorsAccountedFor

\* The invariant holds of tn_slot_table_init's empty tables.
LEMMA InitIInv == ASSUME Init PROVE IInv
<1>1. TypeTables
  <2>1. (CHOOSE t \in SockTypes : TRUE) \in SockTypes BY KnownTypes
  <2> QED BY <2>1, TableSizes, ParkIdsSuffice, BasesFinite DEF Init, TypeTables, SlotType
<1>2. \A s \in Slots : Handles(s) = {}
  BY TableSizes DEF Init, Handles, HandlesIn, Slots
<1>3. Counted BY <1>2 DEF Init, Counted, SlotCounted
<1>4. ParkIdsUnique BY DEF Init, ParkIdsUnique, ParkedUnder
<1>5. OwnersKnown BY DEF Init, OwnersKnown
<1>6. DescriptorsAccountedFor BY DEF Init, DescriptorsAccountedFor
<1>7. Accepts BY DEF Init, Accepts
<1> QED BY <1>1, <1>3, <1>4, <1>5, <1>6, <1>7 DEF IInv, TInv

\* Leaving: what the departure of any set of bases does to the tables.  The
\* handles of every slot lose exactly the descriptors of the leaving bases, and
\* the parked slots stay parked.
LEMMA LeaveStep ==
    ASSUME TInv, NEW gone \in SUBSET Bases, Leave(gone)
    PROVE  /\ sockets' \in [Slots -> SlotType]
           /\ fd_map' \in [Bases -> [Fds -> Slots \cup {-1}]]
           /\ Counted'
           /\ ParkIdsUnique'
           /\ \A s \in Slots : sockets'[s].owner_base # NoBase =>
                  sockets'[s].owner_base = sockets[s].owner_base
                  /\ sockets'[s].owner_base \notin gone
           /\ \A b \in Bases, f \in Fds :
                  fd_map'[b][f] = IF b \in gone THEN -1 ELSE fd_map[b][f]
           /\ \A s \in Slots : sockets[s].is_parked =>
                  sockets'[s].is_parked /\ sockets'[s].park_id = sockets[s].park_id
           /\ \A s \in Slots : sockets'[s].is_parked => sockets[s].is_parked
           /\ strays \subseteq strays' /\ strays' \subseteq strays \cup gone
           /\ TablesLeft(gone) \in [Bases -> MinFds .. MaxFds]
           /\ \A b \in Bases \ gone : TablesLeft(gone)[b] = dtablesize[b]
<1>1. fd_map' \in [Bases -> [Fds -> Slots \cup {-1}]]
  BY DEF TInv, TypeTables, Leave
<1>2. \A b \in Bases, f \in Fds :
        fd_map'[b][f] = IF b \in gone THEN -1 ELSE fd_map[b][f]
  BY DEF TInv, TypeTables, Leave
<1>3. ASSUME NEW s \in Slots
      PROVE  /\ sockets'[s] \in SlotType
             /\ SlotCounted(sockets'[s], Handles(s)')
             /\ sockets'[s].owner_base # NoBase =>
                  sockets'[s].owner_base = sockets[s].owner_base
                  /\ sockets'[s].owner_base \notin gone
             /\ sockets[s].is_parked => sockets'[s].is_parked
             /\ sockets'[s].is_parked =>
                   sockets[s].is_parked /\ sockets'[s].park_id = sockets[s].park_id
             /\ sockets'[s].in_use => sockets[s].in_use
  <2> DEFINE H == Handles(s)
             D == {h \in H : h[1] \in gone /\ h[2] < dtablesize[h[1]]}
             dropped == tn_slot_unref(sockets[s], Cardinality(D))
  <2>1. IsFiniteSet(H) BY HandlesFinite DEF Handles
  <2>2. sockets[s] \in SlotType /\ SlotCounted(sockets[s], H) BY DEF TInv, TypeTables, Counted
  <2>3. \A h \in H : h[2] < dtablesize[h[1]]
    BY DEF TInv, DescriptorsAccountedFor, Handles, HandlesIn, Slots
  <2>4. Handles(s)' = H \ D
    <3>1. Handles(s)' = {h \in Bases \X Fds : fd_map'[h[1]][h[2]] = s} BY DEF Handles, HandlesIn
    <3>2. \A h \in Bases \X Fds : fd_map'[h[1]][h[2]] = s <=> h \in H /\ h[1] \notin gone
      BY <1>2 DEF Handles, HandlesIn, Slots
    <3>3. H \subseteq Bases \X Fds BY DEF Handles, HandlesIn
    <3>4. \A h \in H : h \in D <=> h[1] \in gone BY <2>3
    <3> HIDE DEF H, D
    <3> QED BY <3>1, <3>2, <3>3, <3>4
  <2>5. sockets'[s] = tn_slot_clear_owner_base(dropped, gone) BY DEF Leave, DroppedRefs
  <2>6. D \subseteq H OBVIOUS
  <2> HIDE DEF H, D
  <2>7. /\ dropped \in SlotType
        /\ SlotCounted(dropped, H \ D)
        /\ sockets[s].is_parked => dropped.is_parked
        /\ dropped.is_parked => sockets[s].is_parked /\ dropped.park_id = sockets[s].park_id
        /\ dropped.in_use => sockets[s].in_use
        /\ dropped.owner_base \in {sockets[s].owner_base, NoBase}
    BY <2>1, <2>2, <2>6, CountedUnref
  <2> HIDE DEF dropped
  <2>8. /\ sockets'[s] \in SlotType
        /\ SlotCounted(sockets'[s], H \ D)
        /\ sockets'[s].in_use = dropped.in_use
        /\ sockets'[s].is_parked = dropped.is_parked
        /\ sockets'[s].park_id = dropped.park_id
        /\ sockets'[s].owner_base \in {dropped.owner_base, NoBase}
        /\ sockets'[s].owner_base \notin gone \ {NoBase}
    BY <2>5, <2>7, CountedClearOwner
  <2> QED BY <2>4, <2>7, <2>8
<1>4. sockets' \in [Slots -> SlotType] BY <1>3 DEF Leave
<1>5. Counted' BY <1>3 DEF Counted
<1>6. ParkIdsUnique' BY <1>3 DEF TInv, ParkIdsUnique, ParkedUnder
<1>7. strays \subseteq strays' /\ strays' \subseteq strays \cup gone BY DEF Leave
<1>8. /\ TablesLeft(gone) \in [Bases -> MinFds .. MaxFds]
      /\ \A b \in Bases \ gone : TablesLeft(gone)[b] = dtablesize[b]
  BY TableSizes DEF TInv, TypeTables, TablesLeft
<1> QED BY <1>1, <1>2, <1>3, <1>4, <1>5, <1>6, <1>7, <1>8

-----------------------------------------------------------------------------
\* CLOSE keeps the invariant.
LEMMA CloseStep ==
    ASSUME TInv, NEW b \in Bases, tn_ipc_cmd_close(b)
    PROVE  TInv'
<1>1. Leave({b}) /\ open_bases' = open_bases \ {b} /\ dtablesize' = TablesLeft({b})
      /\ next_park_id' = next_park_id /\ client' = [client EXCEPT ![b] = "closed"]
  BY DEF tn_ipc_cmd_close
<1>0. {b} \in SUBSET Bases OBVIOUS
<1>2. TypeTables'
  <2>1. /\ sockets' \in [Slots -> SlotType]
        /\ fd_map' \in [Bases -> [Fds -> Slots \cup {-1}]]
        /\ strays' \subseteq strays \cup {b}
        /\ TablesLeft({b}) \in [Bases -> MinFds .. MaxFds]
    BY <1>0, <1>1, LeaveStep
  <2>2. dtablesize' \in [Bases -> MinFds .. MaxFds] BY <1>1, <2>1
  <2> QED BY <1>1, <2>1, <2>2 DEF TInv, TypeTables
<1>3. OwnersKnown' BY <1>0, <1>1, LeaveStep DEF TInv, OwnersKnown
<1>4. DescriptorsAccountedFor'
  <2>1. /\ \A c \in Bases, f \in Fds : fd_map'[c][f] = IF c \in {b} THEN -1 ELSE fd_map[c][f]
        /\ strays \subseteq strays' /\ strays' \subseteq strays \cup {b}
        /\ \A c \in Bases \ {b} : TablesLeft({b})[c] = dtablesize[c]
    BY <1>0, <1>1, LeaveStep
  <2>2. \A c \in Bases : c \in open_bases' <=> client'[c] # "closed"
    BY <1>1 DEF TInv, TypeTables, DescriptorsAccountedFor
  <2>3. \A c \in Bases, f \in Fds : fd_map'[c][f] # -1 =>
           c # b /\ c \in open_bases \cup strays /\ f < dtablesize[c]
    BY <2>1 DEF TInv, DescriptorsAccountedFor
  <2>4. \A c \in Bases \ {b} : dtablesize'[c] = dtablesize[c] BY <1>1, <2>1
  <2>5. strays' \cap open_bases' = {} BY <1>1, <2>1 DEF TInv, DescriptorsAccountedFor
  <2> QED BY <1>1, <2>1, <2>2, <2>3, <2>4, <2>5 DEF DescriptorsAccountedFor
<1> QED BY <1>0, <1>1, <1>2, <1>3, <1>4, LeaveStep DEF TInv

\* Reaping dead clients keeps the invariant.
LEMMA ReapStep ==
    ASSUME TInv, tn_reap_dead_clients
    PROVE  TInv'
<1>1. DeadBases \in SUBSET Bases BY DEF DeadBases, TInv, TypeTables
<1>2. Leave(DeadBases) /\ open_bases' = open_bases \ DeadBases
      /\ dtablesize' = TablesLeft(DeadBases)
      /\ next_park_id' = next_park_id
      /\ client' = [b \in Bases |-> IF b \in DeadBases THEN "closed" ELSE client[b]]
  BY DEF tn_reap_dead_clients
<1>3. TypeTables' BY <1>1, <1>2, LeaveStep DEF TInv, TypeTables
<1>4. OwnersKnown' BY <1>1, <1>2, LeaveStep DEF TInv, OwnersKnown
<1>5. DescriptorsAccountedFor'
  <2>1. /\ \A c \in Bases, f \in Fds :
              fd_map'[c][f] = IF c \in DeadBases THEN -1 ELSE fd_map[c][f]
        /\ strays \subseteq strays' /\ strays' \subseteq strays \cup DeadBases
        /\ \A c \in Bases \ DeadBases : dtablesize'[c] = dtablesize[c]
    BY <1>1, <1>2, LeaveStep
  <2>2. \A c \in DeadBases : c \in open_bases /\ client[c] = "dead" BY DEF DeadBases
  <2>3. \A c \in Bases : c \in open_bases' <=> client'[c] # "closed"
    BY <1>2, <2>2 DEF TInv, TypeTables, DescriptorsAccountedFor
  <2>4. \A c \in Bases, f \in Fds : fd_map'[c][f] # -1 =>
           c \notin DeadBases /\ c \in open_bases \cup strays /\ f < dtablesize[c]
    BY <2>1 DEF TInv, DescriptorsAccountedFor
  <2>5. strays' \cap open_bases' = {}
    BY <1>2, <2>1 DEF TInv, DescriptorsAccountedFor
  <2> QED BY <1>2, <2>1, <2>3, <2>4, <2>5 DEF DescriptorsAccountedFor
<1> QED BY <1>1, <1>2, <1>3, <1>4, <1>5, LeaveStep DEF TInv

\* OPEN keeps the invariant, whether the registry had room, was swept, or refused.
LEMMA OpenStep ==
    ASSUME TInv, NEW b \in Bases, tn_ipc_cmd_open(b)
    PROVE  TInv'
<1> DEFINE gone == IF Cardinality(open_bases) < ClientBasesMax THEN {} ELSE DeadBases
<1>1. gone \in SUBSET Bases /\ gone \subseteq DeadBases BY DEF DeadBases, TInv, TypeTables
<1>2. Leave(gone) /\ Register(b, gone) /\ next_park_id' = next_park_id /\ client[b] = "closed"
      /\ b \notin strays
  BY DEF tn_ipc_cmd_open
<1> HIDE DEF gone
<1>3. DefaultFds \in MinFds .. MaxFds BY TableSizes
<1>4. TypeTables'
  BY <1>1, <1>2, <1>3, LeaveStep DEF TInv, TypeTables, Register
<1>5. open_bases \ gone \subseteq open_bases' BY <1>2 DEF Register
<1>6. OwnersKnown' BY <1>1, <1>2, <1>5, LeaveStep DEF TInv, OwnersKnown
<1>7. b \notin open_bases BY <1>2 DEF TInv, DescriptorsAccountedFor
<1>8. \A f \in Fds : fd_map'[b][f] = -1
  BY <1>1, <1>2, <1>7, LeaveStep DEF TInv, DescriptorsAccountedFor
<1>9. DescriptorsAccountedFor'
  <2>1. gone \subseteq open_bases /\ \A c \in gone : client[c] = "dead" BY <1>1 DEF DeadBases
  <2>2. \A c \in Bases : c \in open_bases' <=> client'[c] # "closed"
    BY <1>2, <1>7, <2>1 DEF TInv, TypeTables, DescriptorsAccountedFor, Register
  <2>3. \A c \in Bases \ ({b} \cup gone) : dtablesize'[c] = dtablesize[c]
    BY <1>1, <1>2, LeaveStep DEF TInv, TypeTables, Register
  <2>4. \A c \in Bases, f \in Fds : fd_map'[c][f] = IF c \in gone THEN -1 ELSE fd_map[c][f]
    BY <1>1, <1>2, LeaveStep
  <2>5. \A c \in Bases, f \in Fds : fd_map'[c][f] # -1 =>
           c # b /\ c \notin gone /\ c \in open_bases \cup strays /\ f < dtablesize[c]
    BY <1>8, <2>4 DEF TInv, DescriptorsAccountedFor
  <2>6. strays \subseteq strays' /\ strays' \subseteq strays \cup gone BY <1>1, <1>2, LeaveStep
  <2>7. strays' \cap open_bases' = {}
    <3>1. open_bases' \subseteq (open_bases \ gone) \cup {b} BY <1>2 DEF Register
    <3>2. b \notin gone BY <1>7, <2>1
    <3> QED BY <1>2, <2>6, <3>1, <3>2 DEF TInv, DescriptorsAccountedFor
  <2> QED BY <1>5, <2>2, <2>3, <2>5, <2>6, <2>7 DEF DescriptorsAccountedFor
<1> QED BY <1>1, <1>2, <1>4, <1>6, <1>9, LeaveStep DEF TInv

\* A task that dies without closing changes no table.
LEMMA DieStep ==
    ASSUME TInv, NEW b \in Bases, TaskDies(b)
    PROVE  TInv'
<1>1. UNCHANGED <<sockets, fd_map, dtablesize, open_bases, next_park_id, strays>>
      /\ client' = [client EXCEPT ![b] = "dead"] /\ client[b] = "open"
  BY DEF TaskDies
<1>2. TypeTables' BY <1>1 DEF TInv, TypeTables
<1>3. Counted' BY <1>1 DEF TInv, Counted, Handles
<1>4. ParkIdsUnique' BY <1>1 DEF TInv, ParkIdsUnique, ParkedUnder
<1>5. OwnersKnown' BY <1>1 DEF TInv, OwnersKnown
<1>6. DescriptorsAccountedFor' BY <1>1 DEF TInv, TypeTables, DescriptorsAccountedFor
<1> QED BY <1>2, <1>3, <1>4, <1>5, <1>6 DEF TInv

-----------------------------------------------------------------------------
\* A slot taken by tn_slot_alloc and named by one free descriptor: socket() and
\* accept() that succeed.
LEMMA NewSocketStep ==
    ASSUME TInv, NEW b \in Bases, b \in open_bases \cup strays, NEW type \in SockTypes,
           NEW f \in FreeFds(b), NEW s \in FreeSlots,
           sockets' = [sockets EXCEPT ![s] = tn_init_socket_slot(b, type)],
           fd_map' = [fd_map EXCEPT ![b][f] = s],
           UNCHANGED <<dtablesize, open_bases, next_park_id, client, strays>>
    PROVE  TInv'
<1>1. f \in Fds /\ f < dtablesize[b] /\ fd_map[b][f] = -1 BY DEF FreeFds
<1>2. s \in Slots /\ ~sockets[s].in_use BY DEF FreeSlots
<1>3. tn_init_socket_slot(b, type) \in SlotType BY DEF tn_init_socket_slot, SlotType
<1>4. TypeTables' BY <1>1, <1>2, <1>3 DEF TInv, TypeTables
<1>6. \A t \in Slots : Handles(t)' = IF t = s THEN Handles(t) \cup {<<b, f>>}
                                            ELSE Handles(t) \ {<<b, f>>}
  BY <1>1, <1>2, SetDescriptor DEF TInv, TypeTables
<1>7. \A t \in Slots : t # s => Handles(t)' = Handles(t)
  BY <1>1, <1>6 DEF Handles, HandlesIn, Slots
<1>8. Handles(s)' = {<<b, f>>}
  BY <1>2, <1>6 DEF TInv, Counted, SlotCounted
<1>9. Counted'
  <2> SUFFICES ASSUME NEW t \in Slots PROVE SlotCounted(sockets'[t], Handles(t)')
    BY DEF Counted
  <2>1. CASE t = s
    <3>1. sockets'[s] = tn_init_socket_slot(b, type) BY <1>2 DEF TInv, TypeTables
    <3>2. SlotCounted(tn_init_socket_slot(b, type), {<<b, f>>}) BY CountedInit
    <3>3. SlotCounted(sockets'[s], Handles(s)') BY <3>1, <3>2, <1>8
    <3> QED BY <2>1, <3>3
  <2>2. CASE t # s
    <3>1. sockets'[t] = sockets[t] BY <2>2 DEF TInv, TypeTables
    <3> QED BY <2>2, <3>1, <1>7 DEF TInv, Counted
  <2> QED BY <2>1, <2>2
<1>10. ParkIdsUnique'
  BY <1>2 DEF TInv, TypeTables, ParkIdsUnique, ParkedUnder, tn_init_socket_slot
<1>12. OwnersKnown'
  BY <1>2 DEF TInv, TypeTables, OwnersKnown, tn_init_socket_slot
<1>13. DescriptorsAccountedFor'
  BY <1>1 DEF TInv, TypeTables, DescriptorsAccountedFor
<1> QED BY <1>4, <1>9, <1>10, <1>12, <1>13 DEF TInv

\* A slot taken and given back at once (no lwIP control block, no descriptor).
LEMMA GivenBackStep ==
    ASSUME TInv, NEW b \in Bases, NEW type \in SockTypes, NEW s \in FreeSlots,
           sockets' = [sockets EXCEPT ![s] = tn_slot_free(tn_init_socket_slot(b, type))],
           UNCHANGED <<fd_map, dtablesize, open_bases, next_park_id, client, strays>>
    PROVE  TInv'
<1>1. s \in Slots /\ ~sockets[s].in_use BY DEF FreeSlots
<1>2. tn_init_socket_slot(b, type) \in SlotType BY DEF tn_init_socket_slot, SlotType
<1>3. tn_slot_free(tn_init_socket_slot(b, type)) \in SlotType BY <1>2, CountedFree
<1>4. /\ ~tn_slot_free(tn_init_socket_slot(b, type)).in_use
      /\ SlotCounted(tn_slot_free(tn_init_socket_slot(b, type)), {})
      /\ tn_slot_free(tn_init_socket_slot(b, type)).owner_base = NoBase
  BY <1>2, CountedFree DEF SlotCounted
<1>5. TypeTables' BY <1>1, <1>3 DEF TInv, TypeTables
<1>6. Handles(s) = {} BY <1>1 DEF TInv, Counted, SlotCounted
<1>7. Counted' BY <1>1, <1>4, <1>6 DEF TInv, Counted, TypeTables, Handles
<1>8. ParkIdsUnique' BY <1>1, <1>4 DEF TInv, TypeTables, ParkIdsUnique, ParkedUnder
<1>9. OwnersKnown' BY <1>1, <1>4 DEF TInv, TypeTables, OwnersKnown
<1>10. DescriptorsAccountedFor' BY DEF TInv, DescriptorsAccountedFor
<1> QED BY <1>5, <1>7, <1>8, <1>9, <1>10 DEF TInv

\* A refused request changes nothing, and one about accepts only these.
LEMMA StutterStep == ASSUME TInv, UNCHANGED tvars PROVE TInv'
BY DEF tvars, TInv, TypeTables, Counted, Handles, ParkIdsUnique, ParkedUnder, OwnersKnown,
       DescriptorsAccountedFor

\* A connection handed over, at once or by tn_tcp_accept_cb, to a base that is
\* registered or a stray.
LEMMA GiveStep ==
    ASSUME TInv, NEW b \in Bases, b \in open_bases \cup strays, "STREAM" \in SockTypes,
           GiveConnection(b)
    PROVE  TInv'
<1>1. CASE UNCHANGED <<sockets, fd_map>>
  <2>1. UNCHANGED tvars BY <1>1 DEF GiveConnection, tvars
  <2> QED BY <2>1, StutterStep
<1>2. ASSUME NEW f \in Fds, NEW s \in Slots, ChosenFd(b, f), FirstFreeSlot(s),
             sockets' = [sockets EXCEPT ![s] = tn_init_socket_slot(b, "STREAM")],
             fd_map' = [fd_map EXCEPT ![b][f] = s],
             UNCHANGED <<dtablesize, open_bases, next_park_id, client, strays>>
      PROVE  TInv'
  BY <1>2, NewSocketStep DEF ChosenFd, FirstFreeSlot
<1>3. ASSUME NEW s \in Slots, FirstFreeSlot(s),
             sockets' = [sockets EXCEPT ![s] = tn_slot_free(tn_init_socket_slot(b, "STREAM"))],
             UNCHANGED <<fd_map, dtablesize, open_bases, next_park_id, client, strays>>
      PROVE  TInv'
  BY <1>3, GivenBackStep DEF FirstFreeSlot
<1> QED BY <1>1, <1>2, <1>3 DEF GiveConnection

\* CloseSocket drops one descriptor and one reference.
LEMMA CloseSocketStep ==
    ASSUME TInv, NEW b \in Bases, NEW f \in Fds, tn_slot_lookup(b, f),
           sockets' = [sockets EXCEPT ![fd_map[b][f]] = tn_slot_unref(@, 1)],
           fd_map' = [fd_map EXCEPT ![b][f] = -1],
           UNCHANGED <<dtablesize, open_bases, next_park_id, client, strays>>
    PROVE  TInv'
<1> DEFINE s == fd_map[b][f]
<1>1. s # -1 BY DEF tn_slot_lookup, TInv, TypeTables, Slots
<1>2. s \in Slots /\ <<b, f>> \in Handles(s) /\ sockets[s].in_use BY <1>1, DescriptorNamesSlot
<1>3. \A t \in Slots : Handles(t)' = Handles(t) \ {<<b, f>>}
  <2>1. \A t : Handles(t)' = IF t = -1 THEN Handles(t) \cup {<<b, f>>}
                                       ELSE Handles(t) \ {<<b, f>>}
    BY SetDescriptor DEF TInv, TypeTables
  <2> QED BY <2>1, NoSlot
<1>4. \A t \in Slots \ {s} : Handles(t)' = Handles(t)
  <2>1. \A t \in Slots \ {s} : <<b, f>> \notin Handles(t) BY DEF Handles, HandlesIn
  <2> QED BY <1>3, <2>1
<1> DEFINE dropped == tn_slot_unref(sockets[s], 1)
<1>5. Cardinality({<<b, f>>}) = 1 BY FS_Singleton
<1>6. sockets[s] \in SlotType /\ SlotCounted(sockets[s], Handles(s)) /\ IsFiniteSet(Handles(s))
  BY <1>2, HandlesFinite DEF TInv, TypeTables, Counted, Handles
<1>7. /\ dropped \in SlotType
      /\ SlotCounted(dropped, Handles(s) \ {<<b, f>>})
      /\ sockets[s].is_parked => dropped.is_parked
      /\ dropped.is_parked => sockets[s].is_parked /\ dropped.park_id = sockets[s].park_id
      /\ dropped.owner_base \in {sockets[s].owner_base, NoBase}
  <2> DEFINE D == {<<b, f>>}
  <2>1. D \subseteq Handles(s) BY <1>2
  <2>2. dropped = tn_slot_unref(sockets[s], Cardinality(D)) BY <1>5
  <2> HIDE DEF D, s, dropped
  <2> QED BY <1>6, <2>1, <2>2, CountedUnref DEF D
<1>8. sockets' = [sockets EXCEPT ![s] = dropped] OBVIOUS
<1> HIDE DEF s, dropped
<1>9. TypeTables' BY <1>2, <1>7, <1>8 DEF TInv, TypeTables
<1>10. sockets'[s] = dropped /\ \A t \in Slots \ {s} : sockets'[t] = sockets[t]
  BY <1>2, <1>8 DEF TInv, TypeTables
<1>11. Counted' BY <1>2, <1>3, <1>4, <1>7, <1>10 DEF TInv, Counted
<1>12. ParkIdsUnique' BY <1>2, <1>7, <1>10 DEF TInv, ParkIdsUnique, ParkedUnder
<1>13. OwnersKnown' BY <1>2, <1>7, <1>10 DEF TInv, OwnersKnown
<1>14. DescriptorsAccountedFor' BY DEF TInv, TypeTables, DescriptorsAccountedFor
<1> QED BY <1>9, <1>11, <1>12, <1>13, <1>14 DEF TInv

\* ReleaseSocket: the reference of the descriptor moves to the park, or a copy
\* adds one; the id given is free.
LEMMA ReleaseStep ==
    ASSUME TInv, NEW b \in Bases, NEW f \in Fds, NEW copy \in BOOLEAN,
           NEW s \in Slots, fd_map[b][f] = s, ~sockets[s].is_parked,
           NEW id \in Ids, NEW next \in 1 .. MaxParkId, ~IdTaken(id),
           sockets' = [sockets EXCEPT ![s] =
                          Parked(IF copy THEN tn_slot_ref(@) ELSE @, id)],
           fd_map' = IF copy THEN fd_map ELSE [fd_map EXCEPT ![b][f] = -1],
           next_park_id' = next,
           UNCHANGED <<dtablesize, open_bases, client, strays>>
    PROVE  TInv'
<1> DEFINE parkd == Parked(IF copy THEN tn_slot_ref(sockets[s]) ELSE sockets[s], id)
<1>1. <<b, f>> \in Handles(s) /\ sockets[s].in_use BY NoSlot, DescriptorNamesSlot
<1>2. sockets[s] \in SlotType /\ SlotCounted(sockets[s], Handles(s)) /\ IsFiniteSet(Handles(s))
  BY HandlesFinite DEF TInv, TypeTables, Counted, Handles
<1>3. \A t \in Slots : Handles(t)' = IF copy THEN Handles(t) ELSE Handles(t) \ {<<b, f>>}
  <2>1. CASE copy BY <2>1 DEF Handles
  <2>2. CASE ~copy
    <3>1. \A t : Handles(t)' = IF t = -1 THEN Handles(t) \cup {<<b, f>>}
                                         ELSE Handles(t) \ {<<b, f>>}
      BY <2>2, SetDescriptor DEF TInv, TypeTables
    <3> QED BY <2>2, <3>1, NoSlot
  <2> QED BY <2>1, <2>2
<1>4. \A t \in Slots \ {s} : Handles(t)' = Handles(t)
  <2>1. \A t \in Slots \ {s} : <<b, f>> \notin Handles(t) BY DEF Handles, HandlesIn
  <2>2. \A t \in Slots : <<b, f>> \notin Handles(t) => Handles(t)' = Handles(t) BY <1>3
  <2> QED BY <2>1, <2>2
<1>5. /\ parkd \in SlotType /\ SlotCounted(parkd, Handles(s)')
      /\ parkd.in_use /\ parkd.is_parked /\ parkd.park_id = id
      /\ parkd.owner_base = sockets[s].owner_base
  <2> DEFINE H == Handles(s)
             slot == sockets[s]
  <2>1. id \in Nat BY DEF Ids
  <2>2. /\ slot \in SlotType /\ IsFiniteSet(H) /\ <<b, f>> \in H /\ slot.in_use
        /\ ~slot.is_parked /\ SlotCounted(slot, H)
    BY <1>1, <1>2
  <2>3. copy  => parkd = Parked(tn_slot_ref(slot), id) OBVIOUS
  <2>4. ~copy => parkd = Parked(slot, id) OBVIOUS
  <2>5. Handles(s)' = IF copy THEN H ELSE H \ {<<b, f>>} BY <1>3
  <2> HIDE DEF H, slot, parkd
  <2>6. /\ Parked(tn_slot_ref(slot), id) \in SlotType
        /\ Parked(slot, id) \in SlotType
        /\ SlotCounted(Parked(tn_slot_ref(slot), id), H)
        /\ SlotCounted(Parked(slot, id), H \ {<<b, f>>})
        /\ \A p \in {Parked(tn_slot_ref(slot), id), Parked(slot, id)} :
              p.in_use /\ p.is_parked /\ p.park_id = id /\ p.owner_base = slot.owner_base
    BY ONLY <2>1, <2>2, CountedPark
  <2>7. CASE copy BY <2>7, <2>3, <2>5, <2>6 DEF slot
  <2>8. CASE ~copy BY <2>8, <2>4, <2>5, <2>6 DEF slot
  <2> QED BY <2>7, <2>8
<1>6. sockets' = [sockets EXCEPT ![s] = parkd] OBVIOUS
<1> HIDE DEF parkd
<1>7. sockets'[s] = parkd /\ \A t \in Slots \ {s} : sockets'[t] = sockets[t]
  BY <1>6 DEF TInv, TypeTables
<1>8. TypeTables' BY <1>5, <1>6 DEF TInv, TypeTables
<1>9. Counted' BY <1>4, <1>5, <1>7 DEF TInv, Counted
<1>10. ParkIdsUnique' BY <1>5, <1>7 DEF TInv, ParkIdsUnique, ParkedUnder, IdTaken
<1>11. OwnersKnown' BY <1>5, <1>7 DEF TInv, OwnersKnown
<1>12. DescriptorsAccountedFor' BY DEF TInv, TypeTables, DescriptorsAccountedFor
<1> QED BY <1>8, <1>9, <1>10, <1>11, <1>12 DEF TInv

\* ObtainSocket: the reference of the park becomes that of a free descriptor.
LEMMA ObtainStep ==
    ASSUME TInv, NEW b \in Bases, client[b] = "open", NEW f \in FreeFds(b),
           NEW s \in Slots, sockets[s].in_use, sockets[s].is_parked,
           fd_map' = [fd_map EXCEPT ![b][f] = s],
           sockets' = [sockets EXCEPT ![s] = Obtained(@, b)],
           UNCHANGED <<dtablesize, open_bases, next_park_id, client, strays>>
    PROVE  TInv'
<1> DEFINE taken == Obtained(sockets[s], b)
<1>1. f \in Fds /\ f < dtablesize[b] /\ fd_map[b][f] = -1 BY DEF FreeFds
<1>2. \A t \in Slots : <<b, f>> \notin Handles(t) BY <1>1, NoSlot DEF Handles, HandlesIn
<1>3. \A t \in Slots : Handles(t)' = IF t = s THEN Handles(t) \cup {<<b, f>>} ELSE Handles(t)
  <2>1. \A t : Handles(t)' = IF t = s THEN Handles(t) \cup {<<b, f>>}
                                      ELSE Handles(t) \ {<<b, f>>}
    BY <1>1, SetDescriptor DEF TInv, TypeTables
  <2> QED BY <2>1, <1>2
<1>4. sockets[s] \in SlotType /\ SlotCounted(sockets[s], Handles(s)) /\ IsFiniteSet(Handles(s))
  BY HandlesFinite DEF TInv, TypeTables, Counted, Handles
<1>5. /\ taken \in SlotType /\ SlotCounted(taken, Handles(s) \cup {<<b, f>>})
      /\ taken.in_use /\ ~taken.is_parked /\ taken.owner_base = b
  <2> DEFINE H == Handles(s)
  <2>1. <<b, f>> \notin H BY <1>2
  <2> HIDE DEF H
  <2> QED BY <1>4, <2>1, CountedObtain DEF H
<1>6. sockets' = [sockets EXCEPT ![s] = taken] OBVIOUS
<1> HIDE DEF taken
<1>7. sockets'[s] = taken /\ \A t \in Slots \ {s} : sockets'[t] = sockets[t]
  BY <1>6 DEF TInv, TypeTables
<1>8. TypeTables' BY <1>1, <1>5, <1>6 DEF TInv, TypeTables
<1>9. Counted' BY <1>3, <1>5, <1>7 DEF TInv, Counted
<1>10. ParkIdsUnique' BY <1>5, <1>7 DEF TInv, ParkIdsUnique, ParkedUnder
<1>11. b \in open_bases BY DEF TInv, DescriptorsAccountedFor
<1>12. OwnersKnown' BY <1>5, <1>7, <1>11 DEF TInv, OwnersKnown
<1>13. DescriptorsAccountedFor'
  BY <1>1, <1>11 DEF TInv, TypeTables, DescriptorsAccountedFor
<1> QED BY <1>8, <1>9, <1>10, <1>12, <1>13 DEF TInv

\* SBTC_DTABLESIZE: no descriptor is lost, because none is cut off.
LEMMA ResizeStep ==
    ASSUME TInv, NEW b \in Bases, NEW n \in MinFds .. MaxFds,
           \A f \in Fds : n <= f /\ f < dtablesize[b] => ~(fd_map[b][f] >= 0),
           dtablesize' = [dtablesize EXCEPT ![b] = n],
           fd_map' = [fd_map EXCEPT ![b] =
                         [f \in Fds |-> IF f < n /\ f < dtablesize[b] THEN @[f] ELSE -1]],
           UNCHANGED <<sockets, open_bases, next_park_id, client, strays>>
    PROVE  TInv'
<1>1. \A f \in Fds : fd_map[b][f] # -1 => f < n /\ f < dtablesize[b]
  <2> SUFFICES ASSUME NEW f \in Fds, fd_map[b][f] # -1 PROVE f < n /\ f < dtablesize[b]
    OBVIOUS
  <2>1. fd_map[b][f] \in Slots BY DEF TInv, TypeTables
  <2>2. fd_map[b][f] >= 0 /\ f < dtablesize[b]
    BY <2>1, NoSlot DEF TInv, DescriptorsAccountedFor
  <2>3. n \in Int /\ f \in Int BY TableSizes DEF Fds
  <2> QED BY <2>2, <2>3
<1>2. \A c \in Bases, f \in Fds : fd_map'[c][f] = fd_map[c][f]
  BY <1>1 DEF TInv, TypeTables
<1>3. fd_map' = fd_map BY <1>2 DEF TInv, TypeTables
<1>4. TypeTables' BY <1>3 DEF TInv, TypeTables
<1>5. DescriptorsAccountedFor' BY <1>1, <1>3 DEF TInv, TypeTables, DescriptorsAccountedFor
<1>6. Counted' BY <1>3 DEF TInv, Counted, Handles
<1>7. ParkIdsUnique' BY DEF TInv, ParkIdsUnique, ParkedUnder
<1>8. OwnersKnown' BY DEF TInv, OwnersKnown
<1> QED BY <1>4, <1>5, <1>6, <1>7, <1>8 DEF TInv

\* Dup2Socket keeps the invariant.  r is the table after the descriptor <<b, new>>
\* has let go of the slot it named, if any: the slot that old names survives
\* this, even when it is the very slot new named.
LEMMA Dup2Step ==
    ASSUME TInv, NEW b \in Bases, NEW old \in Fds, NEW new \in Fds, old # new,
           client[b] = "open", new < dtablesize[b],
           NEW s \in Slots, fd_map[b][old] = s, Redirect(b, old, new),
           UNCHANGED <<dtablesize, open_bases, next_park_id, client, strays>>
    PROVE  TInv'
<1>1. PICK t : fd_map[b][new] = t OBVIOUS
<1>2. PICK r : r = IF t >= 0 THEN [sockets EXCEPT ![t] = tn_slot_unref(@, 1)] ELSE sockets
  OBVIOUS
<1>3. sockets' = [r EXCEPT ![s] = tn_slot_ref(@)] /\ fd_map' = [fd_map EXCEPT ![b][new] = s]
  BY <1>1, <1>2 DEF Redirect
<1>4. /\ r \in [Slots -> SlotType] /\ r[s].in_use
      /\ \A u \in Slots :
           /\ SlotCounted(r[u], Handles(u) \ {<<b, new>>})
           /\ r[u].is_parked => sockets[u].in_use /\ sockets[u].is_parked
                                /\ r[u].park_id = sockets[u].park_id
           /\ r[u].owner_base \in {sockets[u].owner_base, NoBase}
  <2> DEFINE h == <<b, new>>
  <2>1. t \in Slots \cup {-1} BY <1>1 DEF TInv, TypeTables
  <2>2. sockets \in [Slots -> SlotType] BY DEF TInv, TypeTables
  <2>3. \A u \in Slots : /\ SlotCounted(sockets[u], Handles(u))
                         /\ sockets[u].is_parked => sockets[u].in_use
    BY DEF TInv, Counted, SlotCounted
  <2>4. \A u \in Slots \ {t} : Handles(u) \ {h} = Handles(u) BY <1>1 DEF Handles, HandlesIn
  <2>5. sockets[s].in_use /\ <<b, old>> \in Handles(s) BY NoSlot, DescriptorNamesSlot
  <2>6. CASE t = -1
    <3>1. r = sockets /\ t \notin Slots BY <1>2, <2>6, NoSlot
    <3> QED BY <3>1, <2>2, <2>3, <2>4, <2>5
  <2>7. CASE t \in Slots
    <3> DEFINE H == Handles(t)
               D == {h}
               dropped == tn_slot_unref(sockets[t], Cardinality(D))
    <3>1. D \subseteq H BY <1>1, <2>7 DEF Handles, HandlesIn
    <3>2. IsFiniteSet(H) BY HandlesFinite DEF Handles
    <3>3. sockets[t] \in SlotType /\ SlotCounted(sockets[t], H) BY <2>2, <2>3, <2>7
    <3>4. Cardinality(D) = 1 BY FS_Singleton
    <3>5. r = [sockets EXCEPT ![t] = dropped] BY <1>2, <3>4, <2>7, NoSlot
    <3>6. t = s => H # D BY <2>5
    <3> HIDE DEF H, D, dropped
    <3>7. /\ dropped \in SlotType
          /\ SlotCounted(dropped, H \ D)
          /\ sockets[t].in_use /\ (H # D \/ sockets[t].is_parked) => dropped.in_use
          /\ sockets[t].is_parked => dropped.is_parked
          /\ dropped.is_parked => sockets[t].is_parked /\ dropped.park_id = sockets[t].park_id
          /\ dropped.owner_base \in {sockets[t].owner_base, NoBase}
      BY ONLY <3>1, <3>2, <3>3, CountedUnref DEF dropped
    <3>8. r \in [Slots -> SlotType] BY <3>5, <3>7, <2>2
    <3>9. r[t] = dropped /\ \A u \in Slots \ {t} : r[u] = sockets[u] BY <3>5, <2>2, <2>7
    <3>10. r[s].in_use
      <4>1. CASE s = t BY <4>1, <3>6, <3>7, <3>9, <2>5
      <4>2. CASE s # t BY <4>2, <3>9, <2>5
      <4> QED BY <4>1, <4>2
    <3>11. ASSUME NEW u \in Slots
           PROVE  /\ SlotCounted(r[u], Handles(u) \ {h})
                  /\ r[u].is_parked => sockets[u].in_use /\ sockets[u].is_parked
                                       /\ r[u].park_id = sockets[u].park_id
                  /\ sockets[u].is_parked => r[u].is_parked
                  /\ r[u].owner_base \in {sockets[u].owner_base, NoBase}
      <4>1. CASE u = t BY <4>1, <3>7, <3>9, <2>3 DEF H, D
      <4>2. CASE u # t
        <5>1. r[u] = sockets[u] /\ Handles(u) \ {h} = Handles(u) BY <4>2, <3>9, <2>4
        <5> QED BY <5>1, <2>3
      <4> QED BY <4>1, <4>2
    <3> QED BY <3>8, <3>10, <3>11
  <2> QED BY <2>1, <2>6, <2>7
<1>5. \A u \in Slots : Handles(u)' = IF u = s THEN Handles(u) \cup {<<b, new>>}
                                              ELSE Handles(u) \ {<<b, new>>}
  BY <1>3, SetDescriptor DEF TInv, TypeTables
<1>6. tn_slot_ref(r[s]) \in SlotType
      /\ SlotCounted(tn_slot_ref(r[s]), Handles(s) \cup {<<b, new>>})
  <2> DEFINE H == Handles(s) \ {<<b, new>>}
  <2>1. IsFiniteSet(Handles(s)) BY HandlesFinite DEF Handles
  <2>2. IsFiniteSet(H) BY <2>1, FS_Subset
  <2>3. <<b, new>> \notin H /\ r[s] \in SlotType /\ r[s].in_use /\ SlotCounted(r[s], H) BY <1>4
  <2>4. H \cup {<<b, new>>} = Handles(s) \cup {<<b, new>>} OBVIOUS
  <2> HIDE DEF H
  <2>5. tn_slot_ref(r[s]) \in SlotType /\ SlotCounted(tn_slot_ref(r[s]), H \cup {<<b, new>>})
    BY ONLY <2>2, <2>3, CountedRef
  <2> QED BY <2>4, <2>5
<1>7. sockets'[s] = tn_slot_ref(r[s]) /\ \A u \in Slots \ {s} : sockets'[u] = r[u]
  BY <1>3, <1>4
<1>8. /\ tn_slot_ref(r[s]).is_parked = r[s].is_parked
      /\ tn_slot_ref(r[s]).park_id = r[s].park_id
      /\ tn_slot_ref(r[s]).owner_base = r[s].owner_base
  BY <1>4 DEF tn_slot_ref, SlotType
<1>9. TypeTables' BY <1>3, <1>4, <1>6 DEF TInv, TypeTables
<1>10. Counted' BY <1>4, <1>5, <1>6, <1>7 DEF Counted
<1>11. ASSUME NEW u \in Slots
       PROVE  /\ sockets'[u].is_parked => sockets[u].in_use /\ sockets[u].is_parked
                                          /\ sockets'[u].park_id = sockets[u].park_id
              /\ sockets'[u].owner_base \in {sockets[u].owner_base, NoBase}
  <2>1. CASE u = s BY ONLY <2>1, <1>4, <1>7, <1>8, s \in Slots
  <2>2. CASE u # s BY ONLY <2>2, <1>4, <1>7, u \in Slots
  <2> QED BY <2>1, <2>2
<1>12. ParkIdsUnique' BY <1>11 DEF TInv, ParkIdsUnique, ParkedUnder
<1>14. OwnersKnown' BY <1>11 DEF TInv, OwnersKnown
<1>13. DescriptorsAccountedFor'
  BY <1>3 DEF TInv, TypeTables, DescriptorsAccountedFor
<1> QED BY <1>9, <1>10, <1>12, <1>13, <1>14 DEF TInv

-----------------------------------------------------------------------------
\* Every request keeps the invariant.
LEMMA NextTInv == ASSUME TInv, Accepts, [Next]_vars PROVE TInv'
<1>1. ASSUME UNCHANGED vars PROVE TInv' BY <1>1, StutterStep DEF vars, tvars
<1>2. CASE tn_reap_dead_clients BY <1>2, ReapStep
<1>4. ASSUME NEW t \in Slots, tn_tcp_accept_cb(t) PROVE TInv'
  <2>1. PICK b : b = accepting[t] OBVIOUS
  <2>2. b # NoBase /\ GiveConnection(b) BY <1>4, <2>1 DEF tn_tcp_accept_cb
  <2>3. b \in Bases /\ b \in open_bases \cup strays /\ "STREAM" \in SockTypes
    BY <2>1, <2>2 DEF Accepts
  <2> QED BY <2>2, <2>3, GiveStep
<1>3. ASSUME NEW b \in Bases, ClientStep(b) PROVE TInv'
  <2>0. client[b] = "open" => b \in open_bases \cup strays BY DEF TInv, DescriptorsAccountedFor
  <2>1. CASE tn_ipc_cmd_open(b) BY <2>1, OpenStep
  <2>2. CASE tn_ipc_cmd_close(b) BY <2>2, CloseStep
  <2>3. CASE TaskDies(b) BY <2>3, DieStep
  <2>4. ASSUME NEW type \in SockTypes, tn_ipc_cmd_socket(b, type) PROVE TInv'
    <3>1. CASE UNCHANGED vars BY <3>1, <1>1
    <3>2. ASSUME NEW f \in Fds, NEW s \in Slots, ChosenFd(b, f), FirstFreeSlot(s),
                 sockets' = [sockets EXCEPT ![s] = tn_init_socket_slot(b, type)],
                 fd_map' = [fd_map EXCEPT ![b][f] = s],
                 UNCHANGED <<dtablesize, open_bases, next_park_id, client, strays>>
          PROVE  TInv'
      BY <2>0, <2>4, <3>2, NewSocketStep DEF ChosenFd, FirstFreeSlot, tn_ipc_cmd_socket
    <3>3. ASSUME NEW s \in Slots, FirstFreeSlot(s),
                 sockets' = [sockets EXCEPT ![s] = tn_slot_free(tn_init_socket_slot(b, type))],
                 UNCHANGED <<fd_map, dtablesize, open_bases, next_park_id, client, strays>>
          PROVE  TInv'
      BY <3>3, GivenBackStep DEF FirstFreeSlot
    <3> QED BY <2>4, <3>1, <3>2, <3>3 DEF tn_ipc_cmd_socket, Refuse
  <2>5. ASSUME NEW lf \in Fds, tn_ipc_cmd_accept(b, lf) PROVE TInv'
    <3>1. CASE UNCHANGED tvars BY <3>1, StutterStep
    <3>2. CASE ~(UNCHANGED tvars)
      <4>1. client[b] = "open" /\ tn_slot_lookup(b, lf) /\ GiveConnection(b)
            /\ sockets[fd_map[b][lf]].type = "STREAM"
        BY <2>5, <3>2 DEF tn_ipc_cmd_accept, Refuse, vars, tvars
      <4>2. fd_map[b][lf] \in Slots
        <5>1. fd_map[b][lf] \in Slots \cup {-1} BY DEF TInv, TypeTables
        <5> QED BY <4>1, <5>1 DEF tn_slot_lookup
      <4>3. "STREAM" \in SockTypes BY <4>1, <4>2 DEF TInv, TypeTables, SlotType
      <4> QED BY <2>0, <4>1, <4>3, GiveStep
    <3> QED BY <3>1, <3>2
  <2>11. ASSUME NEW t \in Slots, tn_ipc_cmd_cancel(b, t) PROVE TInv'
    BY <2>11, StutterStep DEF tn_ipc_cmd_cancel, tvars
  <2>6. ASSUME NEW f \in Fds, tn_ipc_cmd_closesocket(b, f) PROVE TInv'
    <3>1. CASE UNCHANGED vars BY <3>1, <1>1
    <3>2. CASE ~(UNCHANGED vars)
      BY <2>6, <3>2, CloseSocketStep DEF tn_ipc_cmd_closesocket, Refuse
    <3> QED BY <3>1, <3>2
  <2>7. ASSUME NEW old \in Fds, NEW new \in Fds, tn_ipc_cmd_dup2(b, old, new) PROVE TInv'
    <3>1. CASE UNCHANGED vars BY <3>1, <1>1
    <3>2. CASE ~(UNCHANGED vars)
      <4>1. /\ client[b] = "open" /\ tn_slot_lookup(b, old) /\ ~(new >= dtablesize[b])
            /\ old # new /\ Redirect(b, old, new)
            /\ UNCHANGED <<dtablesize, open_bases, next_park_id, client, strays>>
        BY <2>7, <3>2 DEF tn_ipc_cmd_dup2, Refuse
      <4>2. new < dtablesize[b]
        <5>1. new \in Int /\ dtablesize[b] \in Int BY TableSizes DEF TInv, TypeTables, Fds
        <5> QED BY <4>1, <5>1
      <4>3. PICK s \in Slots : fd_map[b][old] = s
        <5>1. fd_map[b][old] \in Slots \cup {-1} BY DEF TInv, TypeTables
        <5> QED BY <4>1, <5>1 DEF tn_slot_lookup
      <4> QED BY <4>1, <4>2, <4>3, Dup2Step
    <3> QED BY <3>1, <3>2
  <2>8. ASSUME NEW f \in Fds, NEW req \in AskedIds \cup {UNIQUE_ID, InvalidId},
               tn_ipc_cmd_releasesocket(b, f, req)
        PROVE  TInv'
    <3>1. CASE UNCHANGED vars BY <3>1, <1>1
    <3>2. CASE ~(UNCHANGED vars)
      <4>1. tn_slot_lookup(b, f) /\ ~sockets[fd_map[b][f]].is_parked
        BY <2>8, <3>2 DEF tn_ipc_cmd_releasesocket, Refuse
      <4>2. PICK s \in Slots : fd_map[b][f] = s
        <5>1. fd_map[b][f] \in Slots \cup {-1} BY DEF TInv, TypeTables
        <5> QED BY <4>1, <5>1 DEF tn_slot_lookup
      <4>3. PICK id \in Ids, next \in 1 .. MaxParkId, copy \in BOOLEAN :
              /\ ParkId(req, id, next)
              /\ sockets' = [sockets EXCEPT ![s] = Parked(IF copy THEN tn_slot_ref(@) ELSE @, id)]
              /\ fd_map' = IF copy THEN fd_map ELSE [fd_map EXCEPT ![b][f] = -1]
              /\ next_park_id' = next
              /\ UNCHANGED <<dtablesize, open_bases, client, strays>>
        BY <2>8, <3>2, <4>2 DEF tn_ipc_cmd_releasesocket, Refuse, Ids
      <4>4. ~IdTaken(id) BY <4>3 DEF ParkId
      <4> QED BY <4>1, <4>2, <4>3, <4>4, ReleaseStep
    <3> QED BY <3>1, <3>2
  <2>9. ASSUME NEW id \in Ids, NEW type, tn_ipc_cmd_obtainsocket(b, id, type)
        PROVE  TInv'
    <3>1. CASE UNCHANGED vars BY <3>1, <1>1
    <3>2. CASE ~(UNCHANGED vars)
      <4>1. PICK s \in Slots, f \in Fds :
              /\ ParkedUnder(s, id) /\ ChosenFd(b, f)
              /\ fd_map'  = [fd_map EXCEPT ![b][f] = s]
              /\ sockets' = [sockets EXCEPT ![s] = Obtained(@, b)]
              /\ UNCHANGED <<dtablesize, open_bases, next_park_id, client, strays>>
        BY <2>9, <3>2 DEF tn_ipc_cmd_obtainsocket, Refuse
      <4>2. client[b] = "open" BY <2>9 DEF tn_ipc_cmd_obtainsocket
      <4>3. f \in FreeFds(b) BY <4>1 DEF ChosenFd
      <4> QED BY <4>1, <4>2, <4>3, ObtainStep DEF ParkedUnder
    <3> QED BY <3>1, <3>2
  <2>10. ASSUME NEW n \in MinFds .. MaxFds, SetDTableSize(b, n) PROVE TInv'
    <3>1. CASE UNCHANGED vars BY <3>1, <1>1
    <3>2. CASE ~(UNCHANGED vars)
      BY <2>10, <3>2, ResizeStep DEF SetDTableSize, Refuse
    <3> QED BY <3>1, <3>2
  <2> QED BY <1>3, <2>1, <2>2, <2>3, <2>4, <2>5, <2>6, <2>7, <2>8, <2>9, <2>10, <2>11
          DEF ClientStep
<1> QED BY <1>1, <1>2, <1>3, <1>4 DEF Next

\* What accepts wait for stays in use, and whoever waits stays known, through every
\* request: tn_slot_free answers the accept of its slot, and a base that leaves is
\* remembered as a stray.
LEMMA NextAccepts == ASSUME TInv, Accepts, [Next]_vars PROVE Accepts'
<1> USE DEF Accepts
<1>1. ASSUME UNCHANGED <<accepting, open_bases, strays>>,
             \A s \in Slots : sockets[s].in_use => sockets'[s].in_use
      PROVE  Accepts'
  BY <1>1
<1>2. ASSUME AcceptsEndWithSlot, UNCHANGED <<open_bases, strays>> PROVE Accepts'
  BY <1>2 DEF AcceptsEndWithSlot
<1>3. ASSUME NEW gone \in SUBSET Bases, Leave(gone), open_bases \ gone \subseteq open_bases'
      PROVE  Accepts'
  BY <1>3 DEF Leave, ReapedAccepts
<1>4. ASSUME NEW b \in Bases, GiveConnection(b)
      PROVE  \A s \in Slots : sockets[s].in_use => sockets'[s].in_use
  BY <1>4 DEF GiveConnection, FirstFreeSlot, FreeSlots, TInv, TypeTables
<1>5. CASE UNCHANGED vars BY <1>5, <1>1 DEF vars
<1>6. CASE tn_reap_dead_clients
  <2>1. DeadBases \in SUBSET Bases BY DEF DeadBases, TInv, TypeTables
  <2> QED BY <1>3, <1>6, <2>1 DEF tn_reap_dead_clients
<1>7. ASSUME NEW t \in Slots, tn_tcp_accept_cb(t) PROVE Accepts'
  <2>1. PICK b : b = accepting[t] OBVIOUS
  <2>2. b \in Bases /\ GiveConnection(b) BY <1>7, <2>1 DEF tn_tcp_accept_cb
  <2>3. accepting' = [accepting EXCEPT ![t] = NoBase] /\ UNCHANGED <<open_bases, strays>>
    BY <1>7 DEF tn_tcp_accept_cb, GiveConnection
  <2> QED BY <1>4, <2>2, <2>3
<1>8. ASSUME NEW b \in Bases, ClientStep(b) PROVE Accepts'
  <2>1. CASE tn_ipc_cmd_open(b)
    <3>1. PICK gone \in SUBSET Bases : Leave(gone) /\ Register(b, gone)
      <4>1. DeadBases \in SUBSET Bases /\ {} \in SUBSET Bases BY DEF DeadBases, TInv, TypeTables
      <4> QED BY <2>1, <4>1 DEF tn_ipc_cmd_open
    <3> QED BY <1>3, <3>1 DEF Register
  <2>2. CASE tn_ipc_cmd_close(b) BY <1>3, <2>2 DEF tn_ipc_cmd_close
  <2>3. CASE TaskDies(b) BY <1>1, <2>3 DEF TaskDies
  <2>4. ASSUME NEW type \in SockTypes, tn_ipc_cmd_socket(b, type) PROVE Accepts'
    BY <1>1, <2>4 DEF tn_ipc_cmd_socket, Refuse, vars, FirstFreeSlot, FreeSlots, TInv, TypeTables
  <2>5. ASSUME NEW lf \in Fds, tn_ipc_cmd_accept(b, lf) PROVE Accepts'
    <3>1. CASE UNCHANGED vars BY <3>1, <1>5
    <3>2. CASE ~(UNCHANGED vars)
      <4>1. PICK t : t = fd_map[b][lf] OBVIOUS
      <4>2. client[b] = "open" /\ tn_slot_lookup(b, lf) /\ sockets[t].type = "STREAM"
            /\ \/ GiveConnection(b) /\ UNCHANGED accepting
               \/ /\ accepting' = [accepting EXCEPT ![t] = b]
                  /\ UNCHANGED <<sockets, open_bases, strays>>
        BY <2>5, <3>2, <4>1 DEF tn_ipc_cmd_accept, Refuse
      <4>3. t \in Slots /\ sockets[t].in_use
        <5>1. t \in Slots \cup {-1} BY <4>1 DEF TInv, TypeTables
        <5> QED BY <4>1, <4>2, <5>1 DEF tn_slot_lookup
      <4>4. "STREAM" \in SockTypes BY <4>2, <4>3 DEF TInv, TypeTables, SlotType
      <4>5. b \in open_bases BY <4>2 DEF TInv, DescriptorsAccountedFor
      <4>6. CASE GiveConnection(b) /\ UNCHANGED accepting
        BY <1>1, <1>4, <4>6 DEF GiveConnection
      <4>7. CASE accepting' = [accepting EXCEPT ![t] = b]
                 /\ UNCHANGED <<sockets, open_bases, strays>>
        BY <4>3, <4>4, <4>5, <4>7
      <4> QED BY <4>2, <4>6, <4>7
    <3> QED BY <3>1, <3>2
  <2>6. ASSUME NEW t \in Slots, tn_ipc_cmd_cancel(b, t) PROVE Accepts'
    BY <2>6 DEF tn_ipc_cmd_cancel
  <2>7. ASSUME NEW f \in Fds, tn_ipc_cmd_closesocket(b, f) PROVE Accepts'
    BY <1>2, <1>5, <2>7 DEF tn_ipc_cmd_closesocket, Refuse
  <2>8. ASSUME NEW old \in Fds, NEW new \in Fds, tn_ipc_cmd_dup2(b, old, new) PROVE Accepts'
    BY <1>2, <1>5, <2>8 DEF tn_ipc_cmd_dup2, Refuse
  <2>9. ASSUME NEW f \in Fds, NEW req, tn_ipc_cmd_releasesocket(b, f, req) PROVE Accepts'
    <3>1. CASE UNCHANGED vars BY <3>1, <1>5
    <3>2. CASE ~(UNCHANGED vars)
      <4>1. PICK t, copy, id : sockets' = [sockets EXCEPT ![t] =
                                             Parked(IF copy THEN tn_slot_ref(@) ELSE @, id)]
                              /\ UNCHANGED <<accepting, open_bases, strays>>
        BY <2>9, <3>2 DEF tn_ipc_cmd_releasesocket, Refuse
      <4>2. sockets \in [Slots -> SlotType] BY DEF TInv, TypeTables
      <4>3. \A s \in Slots : sockets'[s].in_use = sockets[s].in_use
        BY <4>1, <4>2 DEF Parked, tn_slot_ref, SlotType
      <4> QED BY <1>1, <4>1, <4>3
    <3> QED BY <3>1, <3>2
  <2>10. ASSUME NEW id \in Ids, NEW type, tn_ipc_cmd_obtainsocket(b, id, type) PROVE Accepts'
    <3>1. CASE UNCHANGED vars BY <3>1, <1>5
    <3>2. CASE ~(UNCHANGED vars)
      <4>1. PICK t \in Slots : sockets' = [sockets EXCEPT ![t] = Obtained(@, b)]
                               /\ UNCHANGED <<accepting, open_bases, strays>>
        BY <2>10, <3>2 DEF tn_ipc_cmd_obtainsocket, Refuse
      <4>2. sockets \in [Slots -> SlotType] BY DEF TInv, TypeTables
      <4>3. \A s \in Slots : sockets'[s].in_use = sockets[s].in_use
        BY <4>1, <4>2 DEF Obtained, SlotType
      <4> QED BY <1>1, <4>1, <4>3
    <3> QED BY <3>1, <3>2
  <2>11. ASSUME NEW n \in MinFds .. MaxFds, SetDTableSize(b, n) PROVE Accepts'
    BY <1>1, <1>5, <2>11 DEF SetDTableSize, Refuse
  <2> QED BY <1>8, <2>1, <2>2, <2>3, <2>4, <2>5, <2>6, <2>7, <2>8, <2>9, <2>10, <2>11
          DEF ClientStep
<1> QED BY <1>5, <1>6, <1>7, <1>8 DEF Next

-----------------------------------------------------------------------------
\* The inductive invariant holds in every reachable state.
THEOREM Invariant == Spec => []IInv
<1>1. Init => IInv BY InitIInv
<1>2. IInv /\ [Next]_vars => IInv' BY NextTInv, NextAccepts DEF IInv
<1> QED BY <1>1, <1>2, PTL DEF Spec

\* The tables keep their types.
THEOREM TypeCorrect == Spec => []TypeOK
<1>1. IInv => TypeOK BY DEF IInv, TInv, TypeTables, Accepts, TypeOK
<1> QED BY <1>1, Invariant, PTL

\* ref_count is exact (ipc_dispatch.c, invariant 2): no socket is freed while a
\* descriptor or a park id names it, and none outlives its last one.
THEOREM RefCountsExact == Spec => [](RefCountExact /\ FreeSlotUnreachable)
<1>1. IInv => RefCountExact /\ FreeSlotUnreachable
  <2>1. Counted => RefCountExact BY DEF Counted, SlotCounted, ParkRef, ParkRefs, RefCountExact
  <2>2. Counted /\ Accepts => FreeSlotUnreachable
    BY DEF Counted, SlotCounted, Accepts, FreeSlotUnreachable, FreeSlots
  <2> QED BY <2>1, <2>2 DEF IInv, TInv
<1> QED BY <1>1, Invariant, PTL

\* The registry starts empty (tn_slot_table_init).
LEMMA InitRegistry == ASSUME Init PROVE RegistryBounded
BY FS_EmptySet, TableSizes DEF Init, RegistryBounded

\* Taking bases out of the registry keeps it within its size.
LEMMA RegistryShrinks ==
    ASSUME TInv, RegistryBounded, NEW S, S \subseteq open_bases
    PROVE  IsFiniteSet(S) /\ Cardinality(S) \in Nat /\ Cardinality(S) <= ClientBasesMax
<1>1. IsFiniteSet(open_bases)
  <2>1. open_bases \subseteq Bases BY DEF TInv, TypeTables
  <2> QED BY <2>1, BasesFinite, FS_Subset
<1>2. IsFiniteSet(S) /\ Cardinality(S) <= Cardinality(open_bases) BY <1>1, FS_Subset
<1>3. Cardinality(S) \in Nat /\ Cardinality(open_bases) \in Nat BY <1>1, <1>2, FS_CardinalityType
<1> QED BY <1>2, <1>3, TableSizes DEF RegistryBounded

\* tn_ipc_cmd_open registers only below TN_CLIENT_BASES_MAX, also after a sweep.
LEMMA RegisterBounded ==
    ASSUME TInv, RegistryBounded, NEW b, NEW gone, Register(b, gone)
    PROVE  RegistryBounded'
<1> DEFINE kept == open_bases \ gone
<1>1. IsFiniteSet(kept) /\ Cardinality(kept) \in Nat /\ Cardinality(kept) <= ClientBasesMax
  BY RegistryShrinks
<1>2. CASE Cardinality(kept) < ClientBasesMax
  <2>1. open_bases' = kept \cup {b} BY <1>2 DEF Register
  <2>2. Cardinality(kept \cup {b}) =
           IF b \in kept THEN Cardinality(kept) ELSE Cardinality(kept) + 1
    BY <1>1, FS_AddElement
  <2>3. Cardinality(kept \cup {b}) <= ClientBasesMax BY <1>1, <1>2, <2>2, TableSizes
  <2> QED BY <2>1, <2>3 DEF RegistryBounded
<1>3. CASE ~(Cardinality(kept) < ClientBasesMax)
  <2>1. open_bases' = kept BY <1>3 DEF Register
  <2> QED BY <1>1, <2>1 DEF RegistryBounded
<1> QED BY <1>2, <1>3

\* No step of a client or of the reap overfills the registry.
LEMMA NextRegistry == ASSUME TInv, RegistryBounded, [Next]_vars PROVE RegistryBounded'
<1>1. ASSUME UNCHANGED open_bases PROVE RegistryBounded'
  BY <1>1 DEF RegistryBounded
<1>2. ASSUME NEW S, open_bases' = open_bases \ S PROVE RegistryBounded'
  BY <1>2, RegistryShrinks DEF RegistryBounded
<1>3. CASE UNCHANGED vars BY <1>1, <1>3 DEF vars
<1>4. CASE tn_reap_dead_clients BY <1>2, <1>4 DEF tn_reap_dead_clients
<1>6. ASSUME NEW t \in Slots, tn_tcp_accept_cb(t) PROVE RegistryBounded'
  BY <1>1, <1>6 DEF tn_tcp_accept_cb, GiveConnection
<1>5. ASSUME NEW b \in Bases, ClientStep(b) PROVE RegistryBounded'
  <2>1. CASE tn_ipc_cmd_open(b) BY <2>1, RegisterBounded, <1>1 DEF tn_ipc_cmd_open
  <2>2. CASE tn_ipc_cmd_close(b) BY <1>2, <2>2 DEF tn_ipc_cmd_close
  <2>3. CASE TaskDies(b) BY <1>1, <2>3 DEF TaskDies
  <2>4. CASE ~(tn_ipc_cmd_open(b) \/ tn_ipc_cmd_close(b) \/ TaskDies(b))
    <3>1. UNCHANGED open_bases
      BY <1>5, <2>4 DEF ClientStep, tn_ipc_cmd_socket, tn_ipc_cmd_accept, tn_ipc_cmd_closesocket,
         tn_ipc_cmd_dup2, tn_ipc_cmd_releasesocket, tn_ipc_cmd_obtainsocket, SetDTableSize,
         tn_ipc_cmd_cancel, Refuse, GiveConnection, vars
    <3> QED BY <3>1, <1>1
  <2> QED BY <2>1, <2>2, <2>3, <2>4
<1> QED BY <1>3, <1>4, <1>5, <1>6 DEF Next

\* Free slots are unreachable, park ids unique and owners registered, every open
\* descriptor belongs to a registered base and lies inside its table, and the
\* registry never exceeds TN_CLIENT_BASES_MAX.
THEOREM TablesConsistent == Spec => []TablesSound
<1>1. Init => RegistryBounded BY InitRegistry
<1>2. IInv /\ RegistryBounded /\ [Next]_vars => RegistryBounded' BY NextRegistry DEF IInv
<1>3. IInv /\ RegistryBounded => TablesSound
  <2>1. Counted /\ Accepts => FreeSlotUnreachable
    BY DEF Counted, SlotCounted, Accepts, FreeSlotUnreachable, FreeSlots
  <2>2. OwnersKnown /\ Accepts => OwnerRegistered BY DEF OwnersKnown, Accepts, OwnerRegistered
  <2> QED BY <2>1, <2>2 DEF IInv, TInv, TablesSound
<1> QED BY <1>1, <1>2, <1>3, Invariant, PTL DEF Spec
-----------------------------------------------------------------------------
(***************************************************************************)
(* Steps seen from outside: what each request does to the handles of the   *)
(* programs, its descriptors and park ids.  By Counted a slot is in use    *)
(* exactly while one of them names it, before and after the step, so these *)
(* are all a step can do to the sockets that exist.                        *)
(***************************************************************************)
ParkKept ==
    \A s \in Slots : /\ sockets'[s].is_parked = sockets[s].is_parked
                     /\ sockets[s].is_parked => sockets'[s].park_id = sockets[s].park_id

Creates(b, f, s) ==
    /\ fd_map[b][f] = -1 /\ ~sockets[s].in_use
    /\ fd_map' = [fd_map EXCEPT ![b][f] = s] /\ ParkKept

Drops(b, f) ==
    /\ fd_map[b][f] # -1
    /\ fd_map' = [fd_map EXCEPT ![b][f] = -1] /\ ParkKept

DropsAll(gone) ==
    /\ fd_map' = [b \in Bases |-> IF b \in gone THEN [f \in Fds |-> -1] ELSE fd_map[b]]
    /\ ParkKept

Duplicates(b, old, new) ==
    /\ fd_map[b][old] # -1
    /\ fd_map' = [fd_map EXCEPT ![b][new] = fd_map[b][old]] /\ ParkKept

Parks(b, f, id, copy) ==
    LET s == fd_map[b][f] IN
    /\ s \in Slots /\ ~sockets[s].is_parked /\ ~IdTaken(id)
    /\ sockets'[s].is_parked /\ sockets'[s].park_id = id
    /\ \A t \in Slots \ {s} : sockets'[t] = sockets[t]
    /\ fd_map' = IF copy THEN fd_map ELSE [fd_map EXCEPT ![b][f] = -1]

Takes(b, f, s) ==
    /\ client[b] = "open" /\ fd_map[b][f] = -1
    /\ sockets[s].is_parked /\ ~sockets'[s].is_parked
    /\ sockets'[s].in_use /\ sockets'[s].owner_base = b
    /\ \A t \in Slots \ {s} : sockets'[t] = sockets[t]
    /\ fd_map' = [fd_map EXCEPT ![b][f] = s]

HandleStep ==
    \/ UNCHANGED fd_map /\ ParkKept
    \/ \E b \in Bases, f \in Fds :
         \/ \E s \in Slots : Creates(b, f, s) \/ Takes(b, f, s)
         \/ Drops(b, f)
         \/ \E new \in Fds : Duplicates(b, f, new)
         \/ \E id \in Ids, copy \in BOOLEAN : Parks(b, f, id, copy)
    \/ \E gone \in SUBSET Bases : DropsAll(gone)

\* A slot is in use exactly while a descriptor or a park id names it.
LEMMA UsedIffNamed ==
    ASSUME TInv, NEW s \in Slots
    PROVE  /\ sockets[s].in_use <=> sockets[s].is_parked \/
                 \E b \in Bases, f \in Fds : fd_map[b][f] = s
           /\ sockets[s].in_use \in BOOLEAN /\ sockets[s].is_parked \in BOOLEAN
           /\ sockets[s].park_id \in Nat
<1>1. SlotCounted(sockets[s], Handles(s)) /\ sockets[s] \in SlotType
  BY DEF TInv, TypeTables, Counted
<1>2. Handles(s) = {} => Cardinality(Handles(s)) = 0 BY FS_EmptySet
<1>3. sockets[s].in_use <=> sockets[s].is_parked \/ Handles(s) # {}
  BY <1>1, <1>2 DEF SlotCounted, ParkRef, SlotType
<1>4. Handles(s) # {} <=> \E b \in Bases, f \in Fds : fd_map[b][f] = s
  <2>1. ASSUME NEW h \in Handles(s) PROVE \E b \in Bases, f \in Fds : fd_map[b][f] = s
    BY <2>1 DEF Handles, HandlesIn
  <2>2. ASSUME NEW b \in Bases, NEW f \in Fds, fd_map[b][f] = s PROVE <<b, f>> \in Handles(s)
    BY <2>2 DEF Handles, HandlesIn
  <2> QED BY <2>1, <2>2
<1> QED BY <1>1, <1>3, <1>4 DEF SlotType

\* Dropping one descriptor of a slot neither parks nor unparks it (tn_slot_unref).
LEMMA UnrefKeepsPark ==
    ASSUME TInv, NEW b \in Bases, NEW f \in Fds, NEW s \in Slots, fd_map[b][f] = s
    PROVE  /\ tn_slot_unref(sockets[s], 1) \in SlotType
           /\ tn_slot_unref(sockets[s], 1).is_parked = sockets[s].is_parked
           /\ sockets[s].is_parked =>
                 tn_slot_unref(sockets[s], 1).park_id = sockets[s].park_id
<1> DEFINE D == {<<b, f>>}
           H == Handles(s)
<1>1. D \subseteq H BY DEF Handles, HandlesIn
<1>2. Cardinality(D) = 1 BY FS_Singleton
<1>3. sockets[s] \in SlotType /\ SlotCounted(sockets[s], H) /\ IsFiniteSet(H)
  BY HandlesFinite DEF TInv, TypeTables, Counted, Handles
<1> HIDE DEF D, H
<1>4. LET d == tn_slot_unref(sockets[s], Cardinality(D)) IN
        /\ d \in SlotType
        /\ sockets[s].is_parked => d.is_parked
        /\ d.is_parked => sockets[s].is_parked /\ d.park_id = sockets[s].park_id
  BY ONLY <1>1, <1>3, CountedUnref
<1> QED BY <1>2, <1>3, <1>4 DEF SlotType

\* Leaving keeps the park.
LEMMA LeaveDropsAll ==
    ASSUME TInv, NEW gone \in SUBSET Bases, Leave(gone)
    PROVE  DropsAll(gone)
<1>1. fd_map' = [b \in Bases |-> IF b \in gone THEN [f \in Fds |-> -1] ELSE fd_map[b]]
  BY DEF Leave
<1>2. /\ sockets' \in [Slots -> SlotType] /\ sockets \in [Slots -> SlotType]
      /\ \A s \in Slots : sockets[s].is_parked =>
            sockets'[s].is_parked /\ sockets'[s].park_id = sockets[s].park_id
      /\ \A s \in Slots : sockets'[s].is_parked => sockets[s].is_parked
  BY LeaveStep DEF TInv, TypeTables
<1>3. ParkKept BY <1>2 DEF ParkKept, SlotType
<1> QED BY <1>1, <1>3 DEF DropsAll

\* Dup2Socket redirects one descriptor and leaves the park alone.
LEMMA RedirectDuplicates ==
    ASSUME TInv, NEW b \in Bases, NEW old \in Fds, NEW new \in Fds, old # new,
           NEW s \in Slots, fd_map[b][old] = s, Redirect(b, old, new)
    PROVE  Duplicates(b, old, new)
<1> DEFINE t == fd_map[b][new]
           r == IF t >= 0 THEN [sockets EXCEPT ![t] = tn_slot_unref(@, 1)] ELSE sockets
<1>1. sockets' = [r EXCEPT ![s] = tn_slot_ref(@)] /\ fd_map' = [fd_map EXCEPT ![b][new] = s]
  BY DEF Redirect
<1>2. t \in Slots \cup {-1} /\ sockets \in [Slots -> SlotType] BY DEF TInv, TypeTables
<1>3. /\ r \in [Slots -> SlotType]
      /\ \A u \in Slots : /\ r[u].is_parked = sockets[u].is_parked
                          /\ sockets[u].is_parked => r[u].park_id = sockets[u].park_id
  <2>1. CASE t = -1 BY <1>2, <2>1
  <2>2. CASE t \in Slots
    <3> DEFINE d == tn_slot_unref(sockets[t], 1)
    <3>1. d \in SlotType /\ d.is_parked = sockets[t].is_parked
          /\ (sockets[t].is_parked => d.park_id = sockets[t].park_id)
      BY <2>2, UnrefKeepsPark
    <3>2. r = [sockets EXCEPT ![t] = d] BY <2>2, NoSlot
    <3> HIDE DEF d, r, t
    <3> QED BY <1>2, <2>2, <3>1, <3>2
  <2> QED BY <1>2, <2>1, <2>2
<1> HIDE DEF r, t
<1>4. /\ tn_slot_ref(r[s]).is_parked = r[s].is_parked
      /\ tn_slot_ref(r[s]).park_id = r[s].park_id
  BY <1>3 DEF tn_slot_ref, SlotType
<1>5. sockets'[s] = tn_slot_ref(r[s]) /\ \A u \in Slots \ {s} : sockets'[u] = r[u]
  BY <1>1, <1>3
<1>6. ParkKept BY <1>3, <1>4, <1>5 DEF ParkKept
<1> QED BY <1>1, <1>6, NoSlot DEF Duplicates

\* SBTC_DTABLESIZE cuts off only entries that name nothing.
LEMMA ResizeKeeps ==
    ASSUME TInv, NEW b \in Bases, NEW n \in MinFds .. MaxFds, SetDTableSize(b, n)
    PROVE  UNCHANGED fd_map /\ UNCHANGED sockets
<1>1. CASE UNCHANGED vars BY <1>1 DEF vars
<1>2. CASE ~(UNCHANGED vars)
  <2>1. /\ ~\E f \in Fds : n <= f /\ f < dtablesize[b] /\ fd_map[b][f] >= 0
        /\ fd_map' = [fd_map EXCEPT ![b] =
                         [f \in Fds |-> IF f < n /\ f < dtablesize[b] THEN @[f] ELSE -1]]
        /\ sockets' = sockets
    BY <1>2 DEF SetDTableSize, Refuse
  <2>2. fd_map \in [Bases -> [Fds -> Slots \cup {-1}]] /\ dtablesize[b] \in Int
    BY TableSizes DEF TInv, TypeTables
  <2>3. ASSUME NEW f \in Fds, ~(f < n /\ f < dtablesize[b]) PROVE fd_map[b][f] = -1
    <3>1. f \in Int /\ n \in Int BY TableSizes DEF Fds
    <3>2. CASE fd_map[b][f] \in Slots
      <4>1. f < dtablesize[b] BY <3>2, NoSlot, DescriptorNamesSlot
      <4> QED BY <2>1, <2>2, <2>3, <3>1, <3>2, <4>1, NoSlot
    <3> QED BY <2>2, <3>2
  <2>4. [f \in Fds |-> IF f < n /\ f < dtablesize[b] THEN fd_map[b][f] ELSE -1] = fd_map[b]
    BY <2>2, <2>3
  <2> QED BY <2>1, <2>2, <2>4
<1> QED BY <1>1, <1>2

\* Every step of the table is one of the steps above, seen from outside.
LEMMA NextHandleStep == ASSUME IInv, [Next]_vars PROVE HandleStep
<1> USE DEF HandleStep
<1>0. TInv BY DEF IInv
<1>1. CASE UNCHANGED vars BY <1>1 DEF vars, ParkKept
<1>2. CASE tn_reap_dead_clients
  <2>1. DeadBases \in SUBSET Bases BY <1>0 DEF DeadBases, TInv, TypeTables
  <2> QED BY <1>2, <2>1, <1>0, LeaveDropsAll DEF tn_reap_dead_clients
<1>4. ASSUME NEW b \in Bases, NEW f \in FreeFds(b), NEW s \in FreeSlots, NEW type,
             sockets' = [sockets EXCEPT ![s] = tn_init_socket_slot(b, type)],
             fd_map' = [fd_map EXCEPT ![b][f] = s]
      PROVE  HandleStep
  <2>1. f \in Fds /\ fd_map[b][f] = -1 BY DEF FreeFds
  <2>2. s \in Slots /\ ~sockets[s].in_use BY DEF FreeSlots
  <2>3. ~sockets[s].is_parked /\ sockets[s].is_parked \in BOOLEAN BY <2>2, <1>0, UsedIffNamed
  <2>4. tn_init_socket_slot(b, type).is_parked = FALSE BY DEF tn_init_socket_slot
  <2>5. ParkKept BY <1>0, <1>4, <2>2, <2>3, <2>4 DEF ParkKept, TInv, TypeTables
  <2> QED BY <1>4, <2>1, <2>2, <2>5 DEF Creates
<1>5. ASSUME NEW b \in Bases, NEW s \in FreeSlots, NEW type, UNCHANGED fd_map,
             sockets' = [sockets EXCEPT ![s] = tn_slot_free(tn_init_socket_slot(b, type))]
      PROVE  HandleStep
  <2>1. s \in Slots /\ ~sockets[s].in_use BY DEF FreeSlots
  <2>2. ~sockets[s].is_parked /\ sockets[s].is_parked \in BOOLEAN BY <2>1, <1>0, UsedIffNamed
  <2>3. tn_slot_free(tn_init_socket_slot(b, type)).is_parked = FALSE
    BY DEF tn_init_socket_slot, tn_slot_free
  <2>4. ParkKept BY <1>0, <1>5, <2>1, <2>2, <2>3 DEF ParkKept, TInv, TypeTables
  <2> QED BY <1>5, <2>4
<1>6. ASSUME NEW b \in Bases, GiveConnection(b) PROVE HandleStep
  BY <1>4, <1>5, <1>6 DEF GiveConnection, ChosenFd, FirstFreeSlot, ParkKept
<1>7. ASSUME NEW t \in Slots, tn_tcp_accept_cb(t) PROVE HandleStep
  BY <1>6, <1>7 DEF tn_tcp_accept_cb, IInv, Accepts
<1>3. ASSUME NEW b \in Bases, ClientStep(b) PROVE HandleStep
  <2>1. CASE tn_ipc_cmd_open(b)
    <3>1. PICK gone \in SUBSET Bases : Leave(gone)
      <4>1. DeadBases \in SUBSET Bases /\ {} \in SUBSET Bases BY <1>0 DEF DeadBases, TInv, TypeTables
      <4> QED BY <2>1, <4>1 DEF tn_ipc_cmd_open
    <3> QED BY <3>1, <1>0, LeaveDropsAll
  <2>2. CASE tn_ipc_cmd_close(b)
    <3>1. {b} \in SUBSET Bases OBVIOUS
    <3> QED BY <2>2, <3>1, <1>0, LeaveDropsAll DEF tn_ipc_cmd_close
  <2>3. CASE TaskDies(b) BY <2>3 DEF TaskDies, ParkKept
  <2>6. ASSUME NEW type \in SockTypes, tn_ipc_cmd_socket(b, type) PROVE HandleStep
    BY <1>1, <1>4, <1>5, <2>6 DEF tn_ipc_cmd_socket, Refuse, ChosenFd, FirstFreeSlot
  <2>7. ASSUME NEW lf \in Fds, tn_ipc_cmd_accept(b, lf) PROVE HandleStep
    BY <1>1, <1>6, <2>7 DEF tn_ipc_cmd_accept, Refuse, ParkKept
  <2>13. ASSUME NEW t \in Slots, tn_ipc_cmd_cancel(b, t) PROVE HandleStep
    BY <2>13 DEF tn_ipc_cmd_cancel, ParkKept
  <2>8. ASSUME NEW f \in Fds, tn_ipc_cmd_closesocket(b, f) PROVE HandleStep
    <3>1. CASE tn_slot_lookup(b, f)
      <4>1. PICK s \in Slots : fd_map[b][f] = s
        <5>1. fd_map[b][f] \in Slots \cup {-1} BY <1>0 DEF TInv, TypeTables
        <5> QED BY <3>1, <5>1 DEF tn_slot_lookup
      <4>2. sockets' = [sockets EXCEPT ![s] = tn_slot_unref(@, 1)]
            /\ fd_map' = [fd_map EXCEPT ![b][f] = -1]
        BY <2>8, <3>1, <4>1 DEF tn_ipc_cmd_closesocket
      <4>3. ParkKept BY <4>1, <4>2, <1>0, UnrefKeepsPark DEF ParkKept, TInv, TypeTables
      <4>4. Drops(b, f) BY <4>1, <4>2, <4>3, NoSlot DEF Drops
      <4> QED BY <4>4
    <3> QED BY <1>1, <2>8, <3>1 DEF tn_ipc_cmd_closesocket, Refuse
  <2>9. ASSUME NEW old \in Fds, NEW new \in Fds, tn_ipc_cmd_dup2(b, old, new) PROVE HandleStep
    <3>1. CASE UNCHANGED vars BY <1>1, <3>1
    <3>2. CASE ~(UNCHANGED vars)
      <4>1. tn_slot_lookup(b, old) /\ old # new /\ Redirect(b, old, new)
        BY <2>9, <3>2 DEF tn_ipc_cmd_dup2, Refuse
      <4>2. PICK s \in Slots : fd_map[b][old] = s
        <5>1. fd_map[b][old] \in Slots \cup {-1} BY <1>0 DEF TInv, TypeTables
        <5> QED BY <4>1, <5>1 DEF tn_slot_lookup
      <4>3. Duplicates(b, old, new) BY <4>1, <4>2, <1>0, RedirectDuplicates
      <4> QED BY <4>3
    <3> QED BY <3>1, <3>2
  <2>10. ASSUME NEW f \in Fds, NEW req \in AskedIds \cup {UNIQUE_ID, InvalidId},
                tn_ipc_cmd_releasesocket(b, f, req)
         PROVE  HandleStep
    <3>1. CASE UNCHANGED vars BY <1>1, <3>1
    <3>2. CASE ~(UNCHANGED vars)
      <4>1. tn_slot_lookup(b, f) /\ ~sockets[fd_map[b][f]].is_parked
        BY <2>10, <3>2 DEF tn_ipc_cmd_releasesocket, Refuse
      <4>2. PICK s \in Slots : fd_map[b][f] = s
        <5>1. fd_map[b][f] \in Slots \cup {-1} BY <1>0 DEF TInv, TypeTables
        <5> QED BY <4>1, <5>1 DEF tn_slot_lookup
      <4>3. PICK id \in Ids, copy \in BOOLEAN :
              /\ ~IdTaken(id)
              /\ sockets' = [sockets EXCEPT ![s] = Parked(IF copy THEN tn_slot_ref(@) ELSE @, id)]
              /\ fd_map' = IF copy THEN fd_map ELSE [fd_map EXCEPT ![b][f] = -1]
        BY <2>10, <3>2, <4>2 DEF tn_ipc_cmd_releasesocket, ParkId, Refuse, Ids
      <4>4. sockets'[s].is_parked /\ sockets'[s].park_id = id
            /\ \A t \in Slots \ {s} : sockets'[t] = sockets[t]
        <5>1. sockets \in [Slots -> SlotType] BY <1>0 DEF TInv, TypeTables
        <5> QED BY <4>3, <5>1 DEF Parked, tn_slot_ref, SlotType
      <4>5. Parks(b, f, id, copy) BY <4>1, <4>2, <4>3, <4>4 DEF Parks
      <4> QED BY <4>5
    <3> QED BY <3>1, <3>2
  <2>11. ASSUME NEW id \in Ids, NEW type, tn_ipc_cmd_obtainsocket(b, id, type)
         PROVE  HandleStep
    <3>1. CASE UNCHANGED vars BY <1>1, <3>1
    <3>2. CASE ~(UNCHANGED vars)
      <4>1. PICK s \in Slots, f \in Fds :
              /\ ParkedUnder(s, id) /\ ChosenFd(b, f)
              /\ fd_map'  = [fd_map EXCEPT ![b][f] = s]
              /\ sockets' = [sockets EXCEPT ![s] = Obtained(@, b)]
        BY <2>11, <3>2 DEF tn_ipc_cmd_obtainsocket, Refuse
      <4>2. client[b] = "open" BY <2>11 DEF tn_ipc_cmd_obtainsocket
      <4>3. fd_map[b][f] = -1 BY <4>1 DEF ChosenFd, FreeFds
      <4>4. /\ ~sockets'[s].is_parked /\ sockets'[s].in_use /\ sockets'[s].owner_base = b
            /\ \A t \in Slots \ {s} : sockets'[t] = sockets[t]
        <5>1. sockets \in [Slots -> SlotType] BY <1>0 DEF TInv, TypeTables
        <5> QED BY <4>1, <5>1 DEF ParkedUnder, Obtained, SlotType
      <4>5. Takes(b, f, s) BY <4>1, <4>2, <4>3, <4>4 DEF Takes, ParkedUnder
      <4> QED BY <4>5
    <3> QED BY <3>1, <3>2
  <2>12. ASSUME NEW n \in MinFds .. MaxFds, SetDTableSize(b, n) PROVE HandleStep
    BY <2>12, <1>0, ResizeKeeps DEF ParkKept
  <2> QED BY <1>3, <2>1, <2>2, <2>3, <2>6, <2>7, <2>8, <2>9, <2>10, <2>11, <2>12,
          <2>13 DEF ClientStep
<1> QED BY <1>1, <1>2, <1>3, <1>7 DEF Next

\* A parked socket leaves the park only through ObtainSocket, alive and as a new
\* descriptor of its new owner, whatever closes, dies or is reaped meanwhile.
THEOREM ParkHolds == Spec => ParkedUntilObtained
<1> DEFINE Obtains(s) ==
      /\ sockets'[s].in_use
      /\ \E f \in Fds : LET b == sockets'[s].owner_base IN
            b \in open_bases /\ fd_map[b][f] = -1 /\ fd_map'[b][f] = s
<1>1. ASSUME IInv, [Next]_vars, NEW s \in Slots,
             sockets[s].is_parked, ~sockets'[s].is_parked
      PROVE  Obtains(s)
  <2>1. HandleStep BY <1>1, NextHandleStep
  <2>2. ~ParkKept BY <1>1 DEF ParkKept
  <2>3. ~\E b \in Bases, f \in Fds, id \in Ids, copy \in BOOLEAN : Parks(b, f, id, copy)
    BY <1>1 DEF Parks
  <2>4. PICK b \in Bases, f \in Fds, t \in Slots : Takes(b, f, t)
    BY <2>1, <2>2, <2>3 DEF HandleStep, Creates, Drops, DropsAll, Duplicates
  <2>5. t = s BY <1>1, <2>4 DEF Takes
  <2>6. b \in open_bases BY <1>1, <2>4 DEF Takes, IInv, TInv, DescriptorsAccountedFor
  <2>7. fd_map'[b][f] = s BY <1>1, <2>4, <2>5 DEF Takes, IInv, TInv, TypeTables
  <2> QED BY <2>4, <2>5, <2>6, <2>7 DEF Takes
<1>2. IInv /\ [Next]_vars =>
        [\A s \in Slots : sockets[s].is_parked /\ ~sockets'[s].is_parked => Obtains(s)]_vars
  BY <1>1
<1> QED BY <1>2, Invariant, PTL DEF Spec, ParkedUntilObtained

\* The sockets of the abstract service and of the table are the same ones.
LEMMA ExistsIsNamed ==
    ASSUME TInv
    PROVE  {s \in Slots : sockets[s].in_use} =
             Handle!Named(fd_map, [s \in Slots |-> IF sockets[s].is_parked
                                                  THEN sockets[s].park_id ELSE -1])
<1>1. \A s \in Slots : sockets[s].is_parked =>
        sockets[s].park_id # -1
  BY UsedIffNamed
<1> QED BY <1>1, UsedIffNamed DEF Handle!Named

\* A step of the table is a step of the handle service, or invisible to it.
LEMMA HandleStepRefines ==
    ASSUME TInv, TInv', HandleStep
    PROVE  [Handle!HNext]_(Handle!hvars)
<1> DEFINE parkd == [s \in Slots |-> IF sockets[s].is_parked THEN sockets[s].park_id ELSE -1]
           used == {s \in Slots : sockets[s].in_use}
<1>1. used = Handle!Named(fd_map, parkd) BY ExistsIsNamed
<1>2. used' = Handle!Named(fd_map', parkd')
  <2>1. (used = Handle!Named(fd_map, parkd))' BY ExistsIsNamed, PTL
  <2> QED BY <2>1 DEF Handle!Named
<1>3. ASSUME ParkKept PROVE parkd' = parkd BY <1>3 DEF ParkKept
<1>4. \A s \in Slots : parkd[s] # -1 <=> sockets[s].is_parked BY UsedIffNamed
<1>5. ASSUME NEW h, NEW p, NEW q
      PROVE  /\ Handle!Create(h, p, q) <=>
                  /\ fd_map[h][p] = -1 /\ q \notin used
                  /\ fd_map' = [fd_map EXCEPT ![h][p] = q]
                  /\ used' = used \cup {q} /\ parkd' = parkd
             /\ Handle!CloseOne(h, p) <=>
                  /\ fd_map[h][p] # -1 /\ fd_map' = [fd_map EXCEPT ![h][p] = -1]
                  /\ used' = Handle!Named(fd_map', parkd) /\ parkd' = parkd
             /\ Handle!CloseAll(h) <=>
                  /\ fd_map' = [b \in Bases |-> IF b \in h THEN [f \in Fds |-> -1] ELSE fd_map[b]]
                  /\ used' = Handle!Named(fd_map', parkd) /\ parkd' = parkd
             /\ Handle!Duplicate(h, p, q) <=>
                  /\ fd_map[h][p] # -1 /\ fd_map' = [fd_map EXCEPT ![h][q] = fd_map[h][p]]
                  /\ used' = Handle!Named(fd_map', parkd) /\ parkd' = parkd
             /\ Handle!Take(h, p, q) <=>
                  /\ fd_map[h][p] = -1 /\ parkd[q] # -1
                  /\ fd_map' = [fd_map EXCEPT ![h][p] = q]
                  /\ parkd' = [parkd EXCEPT ![q] = -1] /\ used' = used
  BY DEF Handle!Create, Handle!CloseOne, Handle!CloseAll, Handle!Duplicate, Handle!Take
<1>6. ASSUME NEW b, NEW f, NEW id, NEW copy
      PROVE  Handle!Park(b, f, id, copy) <=>
               /\ fd_map[b][f] # -1 /\ parkd[fd_map[b][f]] = -1
               /\ \A s \in Slots : parkd[s] # id
               /\ parkd' = [parkd EXCEPT ![fd_map[b][f]] = id]
               /\ fd_map' = IF copy THEN fd_map ELSE [fd_map EXCEPT ![b][f] = -1]
               /\ used' = used
  BY DEF Handle!Park
<1>7. fd_map \in [Bases -> [Fds -> Slots \cup {-1}]] /\ parkd \in [Slots -> Ids \cup {-1} \cup Nat]
      /\ parkd' \in [Slots -> Nat \cup {-1}] /\ used \subseteq Slots /\ used' \subseteq Slots
  <2>1. fd_map \in [Bases -> [Fds -> Slots \cup {-1}]] BY DEF TInv, TypeTables
  <2>2. sockets \in [Slots -> SlotType] /\ sockets' \in [Slots -> SlotType] BY DEF TInv, TypeTables
  <2> QED BY <2>1, <2>2 DEF SlotType
<1> HIDE DEF parkd, used
<1>8. CASE UNCHANGED fd_map /\ ParkKept
  <2>1. UNCHANGED <<fd_map, parkd, used>> BY <1>1, <1>2, <1>3, <1>8
  <2> QED BY <2>1 DEF Handle!hvars, parkd, used
<1>9. ASSUME NEW b \in Bases, NEW f \in Fds, NEW s \in Slots, Creates(b, f, s)
      PROVE  Handle!Create(b, f, s)
  <2>1. parkd' = parkd BY <1>3, <1>9 DEF Creates
  <2>2. s \notin used BY <1>9 DEF Creates, used
  <2>3. used' = used \cup {s}
    <3>1. \A t \in Slots : t \in used' <=> parkd[t] # -1 \/
             \E c \in Bases, g \in Fds : fd_map'[c][g] = t
      BY <1>2, <2>1 DEF Handle!Named
    <3>2. \A t \in Slots : t \in used <=> parkd[t] # -1 \/
             \E c \in Bases, g \in Fds : fd_map[c][g] = t
      BY <1>1 DEF Handle!Named
    <3>3. \A c \in Bases, g \in Fds : fd_map'[c][g] = IF c = b /\ g = f THEN s ELSE fd_map[c][g]
      BY <1>7, <1>9 DEF Creates
    <3>4. fd_map[b][f] \notin Slots BY <1>9, NoSlot DEF Creates
    <3> QED BY <1>7, <3>1, <3>2, <3>3, <3>4
  <2> QED BY <1>5, <1>9, <2>1, <2>2, <2>3 DEF Creates
<1>10. ASSUME NEW b \in Bases, NEW f \in Fds, NEW s \in Slots, Takes(b, f, s)
       PROVE  Handle!Take(b, f, s)
  <2>1. parkd' = [parkd EXCEPT ![s] = -1] BY <1>10 DEF Takes, parkd
  <2>2. parkd[s] # -1 BY <1>4, <1>10 DEF Takes
  <2>3. used' = used
    <3>1. \A t \in Slots \ {s} : sockets'[t] = sockets[t] BY <1>10 DEF Takes
    <3>2. sockets'[s].in_use /\ sockets[s].in_use BY <1>10, UsedIffNamed DEF Takes
    <3> QED BY <3>1, <3>2 DEF used
  <2> QED BY <1>5, <1>10, <2>1, <2>2, <2>3 DEF Takes
<1>11. ASSUME NEW b \in Bases, NEW f \in Fds, Drops(b, f) PROVE Handle!CloseOne(b, f)
  BY <1>2, <1>3, <1>5, <1>11 DEF Drops
<1>12. ASSUME NEW b \in Bases, NEW f \in Fds, NEW new \in Fds, Duplicates(b, f, new)
       PROVE  Handle!Duplicate(b, f, new)
  BY <1>2, <1>3, <1>5, <1>12 DEF Duplicates
<1>13. ASSUME NEW gone \in SUBSET Bases, DropsAll(gone) PROVE Handle!CloseAll(gone)
  BY <1>2, <1>3, <1>5, <1>13 DEF DropsAll
<1>14. ASSUME NEW b \in Bases, NEW f \in Fds, NEW id \in Ids, NEW copy \in BOOLEAN,
              Parks(b, f, id, copy)
       PROVE  Handle!Park(b, f, id, copy)
  <2> DEFINE s == fd_map[b][f]
  <2>1. s \in Slots /\ s # -1 /\ ~sockets[s].is_parked BY <1>14, NoSlot DEF Parks
  <2>2. parkd[s] = -1 BY <1>4, <2>1
  <2>3. \A t \in Slots : parkd[t] # id
    <3>1. id # -1 BY DEF Ids
    <3>2. ~IdTaken(id) BY <1>14 DEF Parks
    <3>3. \A t \in Slots : sockets[t].is_parked => sockets[t].park_id # id
      BY <3>2, UsedIffNamed DEF IdTaken, ParkedUnder
    <3> QED BY <3>1, <3>3 DEF parkd
  <2>4. parkd' = [parkd EXCEPT ![s] = id] BY <1>14, <2>1 DEF Parks, parkd
  <2>5. used' = used
    <3>1. \A t \in Slots \ {s} : sockets'[t] = sockets[t] BY <1>14 DEF Parks
    <3>2. sockets[s].in_use BY <2>1, UsedIffNamed
    <3>3. sockets'[s].in_use
      <4>1. \A t \in Slots : sockets'[t].is_parked => sockets'[t].in_use
        BY DEF TInv, Counted, SlotCounted
      <4> QED BY <1>14, <2>1, <4>1 DEF Parks
    <3> QED BY <2>1, <3>1, <3>2, <3>3 DEF used
  <2> QED BY <1>6, <1>14, <2>1, <2>2, <2>3, <2>4, <2>5 DEF Parks
<1>15. HandleStep => Handle!HNext \/ (UNCHANGED fd_map /\ ParkKept)
  BY <1>9, <1>10, <1>11, <1>12, <1>13, <1>14 DEF HandleStep, Handle!HNext
<1> QED BY <1>8, <1>15

\* The empty table is the empty handle service.
LEMMA InitRefines == ASSUME Init PROVE Handle!HInit
BY DEF Init, Handle!HInit

\* The slot table implements the handle service of SocketHandles: reference
\* counts, owners, dead clients and refusals never make a socket appear, outlive
\* its last handle or disappear under one.
THEOREM TableImplementsHandles == Spec => ImplementsHandles
<1>1. Init => Handle!HInit BY InitRefines
<1>2. IInv /\ IInv' /\ [Next]_vars => [Handle!HNext]_(Handle!hvars)
  BY NextHandleStep, HandleStepRefines DEF IInv
<1> QED BY <1>1, <1>2, Invariant, PTL DEF Spec, ImplementsHandles, Handle!HSpec
=============================================================================
