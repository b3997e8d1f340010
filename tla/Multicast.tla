----------------------------- MODULE Multicast -----------------------------
(***************************************************************************)
(* Multicast memberships: the records the daemon keeps per slot so that a  *)
(* freed slot leaves its groups, against lwIP's use count of each group.   *)
(* IP_ADD_MEMBERSHIP and IP_DROP_MEMBERSHIP in src/task/ipc_setsockopt.c.  *)
(* A membership is asked for by the address of its interface, and lwIP     *)
(* compares that with the address the interface has now.                   *)
(***************************************************************************)
EXTENDS Naturals, FiniteSets

CONSTANTS McSlots, McGroups,     \* slots; groups
          McAddrs, McAny,        \* the addresses the interface may have; INADDR_ANY
          TN_MCAST_JOINS_MAX,    \* records
          IgmpGroups,            \* MEMP_NUM_IGMP_GROUP: groups lwIP can hold
          McUses,                \* bound on lwIP's use count of a group
          NoJoin

McJoins == McSlots \X McGroups \X (McAddrs \cup {McAny})

\* What the constants must satisfy.
McAssumption == /\ TN_MCAST_JOINS_MAX \in Nat \ {0} /\ IgmpGroups \in Nat /\ McUses \in Nat
                /\ NoJoin \notin McJoins

VARIABLES mcast_joins,  \* [record -> NoJoin or <<slot, group, interface>>]
          igmp_use,     \* lwIP: igmp_group.use
          mc_open,      \* the slots in use
          mc_addr,      \* the address of the interface
          mc_stuck      \* history: leaves that found no interface and nobody made up for
mcvars == <<mcast_joins, igmp_use, mc_open, mc_addr, mc_stuck>>

McRecords == 1 .. TN_MCAST_JOINS_MAX
FreeRecords == {i \in McRecords : mcast_joins[i] = NoJoin}
RecordsOf(s) == {i \in McRecords \ FreeRecords : mcast_joins[i][1] = s}
First(S) == CHOOSE i \in S : \A j \in S : i <= j

\* igmp_joingroup and igmp_leavegroup, as far as the daemon sees them.
Reaches(a) == a \in {mc_addr, McAny}
Joinable(g) ==
    /\ igmp_use[g] < McUses
    /\ igmp_use[g] > 0 \/ Cardinality({h \in McGroups : igmp_use[h] > 0}) < IgmpGroups
igmp_joingroup(g)  == igmp_use' = [igmp_use EXCEPT ![g] = @ + 1]
igmp_leavegroup(g) == igmp_use' = [igmp_use EXCEPT ![g] = @ - 1]

\* The record is found first, so that no join goes unrecorded.
IP_ADD_MEMBERSHIP(s, g, a) ==
    /\ s \in mc_open /\ FreeRecords # {} /\ Reaches(a) /\ Joinable(g)
    /\ igmp_joingroup(g)
    /\ mcast_joins' = [mcast_joins EXCEPT ![First(FreeRecords)] = <<s, g, a>>]
    /\ UNCHANGED <<mc_open, mc_addr, mc_stuck>>

\* lwIP leaves for whoever asks; the slot's own record goes if it has one, else
\* the leave makes up for one that failed.
IP_DROP_MEMBERSHIP(s, g, a) ==
    /\ s \in mc_open /\ Reaches(a) /\ igmp_use[g] > 0
    /\ igmp_leavegroup(g)
    /\ LET own == {i \in RecordsOf(s) : mcast_joins[i] = <<s, g, a>>} IN
       /\ mcast_joins' = IF own = {} THEN mcast_joins
                         ELSE [mcast_joins EXCEPT ![First(own)] = NoJoin]
       /\ mc_stuck' = IF own = {} /\ mc_stuck[g] > 0 THEN [mc_stuck EXCEPT ![g] = @ - 1]
                      ELSE mc_stuck
    /\ UNCHANGED <<mc_open, mc_addr>>

\* Runs inside tn_slot_free.  The record goes whether or not igmp_leavegroup
\* found an interface with its address.
tn_mcast_leave_all(s) ==
    LET records(g, reached) ==
            {i \in RecordsOf(s) : mcast_joins[i][2] = g /\ Reaches(mcast_joins[i][3]) = reached}
    IN  /\ s \in mc_open
        /\ mcast_joins' =
              [i \in McRecords |-> IF i \in RecordsOf(s) THEN NoJoin ELSE mcast_joins[i]]
        /\ igmp_use' = [g \in McGroups |->
              IF igmp_use[g] >= Cardinality(records(g, TRUE))
              THEN igmp_use[g] - Cardinality(records(g, TRUE)) ELSE 0]
        /\ mc_stuck' = [g \in McGroups |-> mc_stuck[g] + Cardinality(records(g, FALSE))]
        /\ mc_open' = mc_open \ {s}
        /\ UNCHANGED mc_addr

McSocket(s) ==
    /\ s \notin mc_open /\ mc_open' = mc_open \cup {s}
    /\ UNCHANGED <<mcast_joins, igmp_use, mc_addr, mc_stuck>>

\* A lease, RECONFIG or IFCTL gives the interface another address; lwIP keeps
\* its groups.
McReaddress ==
    /\ \E a \in McAddrs : mc_addr' = a
    /\ UNCHANGED <<mcast_joins, igmp_use, mc_open, mc_stuck>>

McInit == /\ mcast_joins = [i \in McRecords |-> NoJoin]
          /\ igmp_use = [g \in McGroups |-> 0] /\ mc_open = {}
          /\ mc_addr \in McAddrs /\ mc_stuck = [g \in McGroups |-> 0]

McNext ==
    \/ McReaddress
    \/ \E s \in McSlots :
         \/ McSocket(s) \/ tn_mcast_leave_all(s)
         \/ \E g \in McGroups, a \in McAddrs \cup {McAny} :
              IP_ADD_MEMBERSHIP(s, g, a) \/ IP_DROP_MEMBERSHIP(s, g, a)

----------------------------------------------------------------------------
McTypeOK ==
    /\ mcast_joins \in [McRecords -> McJoins \cup {NoJoin}]
    /\ igmp_use \in [McGroups -> 0 .. McUses] /\ mc_open \subseteq McSlots
    /\ mc_addr \in McAddrs /\ mc_stuck \in [McGroups -> Nat]

\* A membership outlives its sockets only when the address of the interface
\* changed between the join and the close, for tn_mcast_leave_all ignores that
\* igmp_leavegroup then finds no interface: lwIP counts a group at most as often
\* as sockets in use have it on record and leaves have failed, whatever mix of
\* joins, drops of groups that were never joined, closes and new addresses led
\* there; and no record names a slot that is free, where the next socket would
\* inherit it.
MembershipsHaveOwners ==
    /\ \A g \in McGroups :
         igmp_use[g] <= Cardinality({i \in McRecords \ FreeRecords : mcast_joins[i][2] = g})
                        + mc_stuck[g]
    /\ \A i \in McRecords \ FreeRecords : mcast_joins[i][1] \in mc_open
=============================================================================
