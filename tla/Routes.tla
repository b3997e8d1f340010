------------------------------- MODULE Routes -------------------------------
(***************************************************************************)
(* The static route table (src/task/route.c), the two hooks through which  *)
(* lwIP consults it (src/task/route_hook.c), the ROUTECTL and IFCTL        *)
(* commands (src/task/ipc_route.c, ipc_ifctl.c) and the command that sends *)
(* them (src/cmds/route.c).  An address is the set of its one bits, so the *)
(* code's & is \cap and its ~ is the complement; bit W-1 is the top bit.   *)
(***************************************************************************)
EXTENDS Integers, FiniteSets

CONSTANTS W,                \* 32
          TN_MAX_ROUTES,
          RtDests, RtGws,   \* addresses asked for by ROUTECTL
          IfAddrs, IfMasks, IfGws,   \* what IFCTL SET and a lease give
          LoAddr, LoMask,   \* 127.0.0.1/8
          NoRoute

Bits == 0 .. W - 1
Addr == SUBSET Bits

\* What the constants must satisfy.
RtAssumption ==
    /\ W \in Nat \ {0} /\ TN_MAX_ROUTES \in Nat \ {0}
    /\ \A S \in {RtDests, RtGws, IfAddrs, IfMasks, IfGws, {LoAddr, LoMask}} : S \subseteq Addr
    /\ NoRoute \notin [dest : Addr, mask : Addr, gw : Addr]

VARIABLES g_routes,   \* [1 .. TN_MAX_ROUTES -> NoRoute or [dest, mask, gw]]
          eth         \* the interface: addr, mask, gw, up, is_dhcp, lease client
rtvars == <<g_routes, eth>>

Indices == 1 .. TN_MAX_ROUTES
Routes == [dest : Addr, mask : Addr, gw : Addr]
RoutesInUse == {i \in Indices : g_routes[i] # NoRoute}
Lowest(S) == CHOOSE i \in S : \A j \in S : i <= j

----------------------------------------------------------------------------
(* route.c *)

mask_is_contiguous(m) == \A i \in m : i .. W - 1 \subseteq m

\* An add that does not look at the host bits.
MaskAlone(dest, mask) == mask_is_contiguous(mask)

Installable(dest, mask) == mask_is_contiguous(mask) /\ dest \ mask = {}

Same(i, dest, mask) == g_routes[i].dest = dest /\ g_routes[i].mask = mask

\* EINVAL, EEXIST and ENOSPC leave the table as it is.
tn_route_add(dest, mask, gw) ==
    /\ Installable(dest, mask)
    /\ \A i \in RoutesInUse : ~Same(i, dest, mask)
    /\ RoutesInUse # Indices
    /\ g_routes' = [g_routes EXCEPT ![Lowest(Indices \ RoutesInUse)] =
                       [dest |-> dest, mask |-> mask, gw |-> gw]]
    /\ UNCHANGED eth

\* ENOENT when no entry has both.
tn_route_delete(dest, mask) ==
    \E i \in RoutesInUse :
       /\ Same(i, dest, mask)
       /\ g_routes' = [g_routes EXCEPT ![i] = NoRoute] /\ UNCHANGED eth

mask_prefix_len(m) == Cardinality({i \in m : i .. W - 1 \subseteq m})

\* A lookup that takes the first match.
FirstMatch(dest) ==
    LET hits == {i \in RoutesInUse : dest \cap g_routes[i].mask = g_routes[i].dest}
    IN IF hits = {} THEN 0 ELSE Lowest(hits)

\* The longest prefix, the first entry of several; 0 for the code's -1.
tn_route_lookup(dest) ==
    LET hits == {i \in RoutesInUse : dest \cap g_routes[i].mask = g_routes[i].dest}
        len(i) == mask_prefix_len(g_routes[i].mask)
    IN IF hits = {} THEN 0
       ELSE Lowest({i \in hits : \A j \in hits : len(j) <= len(i)})

----------------------------------------------------------------------------
(* route_hook.c, between lwIP's own routing.  netif_list is last in, first *)
(* found: the interface before the loopback.  "none" is NULL.              *)

lo == [addr |-> LoAddr, mask |-> LoMask, gw |-> {}, up |-> TRUE]
Netif(n) == IF n = "eth" THEN eth ELSE lo
FirstOf(P(_)) == IF P("eth") THEN "eth" ELSE IF P("lo") THEN "lo" ELSE "none"
Configured(n) == Netif(n).addr # {}
OnLink(n, a) == Configured(n) /\ a \cap Netif(n).mask = Netif(n).addr \cap Netif(n).mask

\* The hook looks at the interface's addresses, never at its up flag.
tn_route_hook_src(dest) ==
    LET i == tn_route_lookup(dest)
        r == g_routes[i]
        Inside(n) == Configured(n) /\ Netif(n).addr \cap r.mask = r.dest
        Reaches(n) == OnLink(n, r.gw)
        n == IF r.gw = {} THEN FirstOf(Inside) ELSE FirstOf(Reaches)
    IN IF OnLink("eth", dest) \/ OnLink("lo", dest) \/ i = 0 THEN "none"
       ELSE IF n = "none" THEN "eth" ELSE n

\* The next hop for an address that is not on-link; {} keeps the netif's own.
tn_route_gw_get(dest) ==
    LET i == tn_route_lookup(dest) IN IF i = 0 THEN {} ELSE g_routes[i].gw

\* lwIP's ip4_route and etharp_output around them.
ip4_route(dest) ==
    LET Direct(n) == Netif(n).up /\ OnLink(n, dest)
        first == FirstOf(Direct)
        hook == tn_route_hook_src(dest)
    IN IF first # "none" THEN first
       ELSE IF hook # "none" THEN hook
       ELSE IF eth.up /\ eth.addr # {} THEN "eth" ELSE "none"

NextHop(n, dest) ==
    IF OnLink(n, dest) THEN dest
    ELSE IF tn_route_gw_get(dest) # {} THEN tn_route_gw_get(dest) ELSE Netif(n).gw

----------------------------------------------------------------------------
(* IFCTL, and what lwIP's DHCP client does to the same fields. *)

IFCTL_UP   == ~eth.up /\ eth' = [eth EXCEPT !.up = TRUE] /\ UNCHANGED g_routes
IFCTL_DOWN == eth.up /\ eth' = [eth EXCEPT !.up = FALSE] /\ UNCHANGED g_routes

Given(new, old) == IF new = {} THEN old ELSE new

\* A SET that leaves the DHCP client running.
ClientKept(a, m, g) ==
    /\ eth' = [eth EXCEPT !.addr = Given(a, @), !.mask = Given(m, @), !.gw = Given(g, @),
                          !.is_dhcp = FALSE]
    /\ UNCHANGED g_routes

\* The current values are read before dhcp_stop clears them.
IFCTL_SET(a, m, g) ==
    /\ eth' = [eth EXCEPT !.addr = Given(a, @), !.mask = Given(m, @), !.gw = Given(g, @),
                          !.is_dhcp = FALSE, !.client = FALSE]
    /\ UNCHANGED g_routes

DhcpBound(a, m, g) ==
    /\ eth.client /\ a # {} /\ eth' = [eth EXCEPT !.addr = a, !.mask = m, !.gw = g]
    /\ UNCHANGED g_routes
DhcpLost ==
    /\ eth.client /\ eth.addr # {}
    /\ eth' = [eth EXCEPT !.addr = {}, !.mask = {}, !.gw = {}] /\ UNCHANGED g_routes

RtInit ==
    /\ g_routes = [i \in Indices |-> NoRoute]
    /\ eth = [addr |-> {}, mask |-> {}, gw |-> {}, up |-> TRUE, is_dhcp |-> TRUE, client |-> TRUE]

\* route ADD and route DELETE, with NETMASK or with the host mask that stands
\* in for it, and route DEFAULT; a bad address never reaches the daemon.
RouteCommand ==
    \/ \E d \in RtDests, m \in Addr : tn_route_delete(d, m) \/ \E g \in RtGws : tn_route_add(d, m, g)
    \/ \E d \in RtDests : tn_route_delete(d, Bits) \/ \E g \in RtGws : tn_route_add(d, Bits, g)
    \/ \E g \in RtGws \ {{}} : tn_route_add({}, {}, g)

RtNext ==
    \/ RouteCommand
    \/ IFCTL_UP \/ IFCTL_DOWN \/ DhcpLost
    \/ \E a \in IfAddrs, m \in IfMasks, g \in IfGws : IFCTL_SET(a, m, g) \/ DhcpBound(a, m, g)

----------------------------------------------------------------------------
RtTypeOK ==
    /\ g_routes \in [Indices -> Routes \cup {NoRoute}]
    /\ eth \in [addr : Addr, mask : Addr, gw : Addr, up : BOOLEAN, is_dhcp : BOOLEAN, client : BOOLEAN]

Covering(i, d) == d \cap g_routes[i].mask = g_routes[i].dest

\* The table and the two hooks agree with longest-prefix routing, however the
\* entries were added, removed and reused and whatever became of the interface:
\* a neighbour of an interface that is up is sent to directly; any other
\* address goes to the gateway of the most specific entry that covers it, out
\* of the interface the gateway is a neighbour of; and every listed entry is
\* the one used for at least the first address of its network, unless a
\* narrower one covers it.
RoutedAsListed ==
    /\ \A d \in Addr :
         LET n == ip4_route(d)
             best == {i \in RoutesInUse : Covering(i, d) /\ \A j \in RoutesInUse :
                         Covering(j, d) => g_routes[j].mask \subseteq g_routes[i].mask}
         IN /\ Cardinality(best) <= 1
            /\ eth.up /\ OnLink("eth", d) => n = "eth" /\ NextHop(n, d) = d
            /\ \A i \in best : LET g == g_routes[i].gw IN
                  ~OnLink("eth", d) /\ ~OnLink("lo", d) /\ OnLink("eth", g) /\ g # {} =>
                     n = "eth" /\ NextHop(n, d) = g
    /\ \A i \in RoutesInUse : Covering(i, g_routes[i].dest)

\* An address set by hand stays until it is set again: only IFCTL SET changes
\* the address of an interface that reports no DHCP (a lease that arrives,
\* renews or expires late cannot).
StaticAddressStays ==
    ~eth.is_dhcp =>
        /\ ~eth'.is_dhcp
        /\ eth'.addr # eth.addr =>
              \E a \in IfAddrs, m \in IfMasks, g \in IfGws : IFCTL_SET(a, m, g)

\* Packets go where the table says, and a manual address is nobody else's.
RoutesHold == []RoutedAsListed /\ [][StaticAddressStays]_rtvars
----------------------------------------------------------------------------
(* The strengthening of RoutedAsListed that every step keeps: every entry was *)
(* installable, no two have the same network, and an address set by hand has  *)
(* no DHCP client beside it.                                                  *)

RtInv ==
    /\ RtTypeOK
    /\ \A i \in RoutesInUse : Installable(g_routes[i].dest, g_routes[i].mask)
    /\ \A i, j \in RoutesInUse : Same(i, g_routes[j].dest, g_routes[j].mask) => i = j
    /\ ~eth.is_dhcp => ~eth.client
=============================================================================
