------------------------------ MODULE Subnets ------------------------------
(***************************************************************************)
(* subnet_calculator.py on addresses of Width bits, written as four equal  *)
(* "octets": CIDR arithmetic, split(), vlsm_allocate() with one step per   *)
(* requirement, and the routing table with lookup().  ANDing with a mask   *)
(* of p ones clears what is below the multiple of 2^(Width - p).           *)
(***************************************************************************)
EXTENDS Integers, Sequences, FiniteSetsExt, Functions

CONSTANTS
  Width,          \* bits of an address: 32 in the code
  Needs,          \* the numbers of hosts that may be required
  MaxNeeds,       \* bound: how many requirements vlsm_allocate() is given
  RouteIps,       \* the addresses that routes are added for
  Hops,           \* the next hops
  MaxRoutes,      \* bound: how many routes are added
  NoHop           \* None

\* 1 << n
Shifted[n \in 0 .. Width] == IF n = 0 THEN 1 ELSE 2 * Shifted[n - 1]

Addresses == 0 .. Shifted[Width] - 1
PrefixLengths == 0 .. Width
OctetBits == Width \div 4

ASSUME SubnetAssumption ==
  /\ Width \in Nat /\ Width % 4 = 0
  /\ Needs \subseteq Nat /\ MaxNeeds \in Nat
  /\ RouteIps \subseteq Addresses

\* int_to_ip() keeps the low Width bits; ip_to_int() reads them again.
IntToIp(n) == [k \in 1 .. 4 |-> (n \div Shifted[(4 - k) * OctetBits]) % Shifted[OctetBits]]
IpToInt(ip) ==
  ip[1] * Shifted[3 * OctetBits] + ip[2] * Shifted[2 * OctetBits] + ip[3] * Shifted[OctetBits] + ip[4]

\* The size of a block, and an address ANDed with mask_from_prefix(p).
Block(p) == Shifted[Width - p]
Masked(a, p) == (a \div Block(p)) * Block(p)

\* Subnet(cidr)
Subnet(ip, p) ==
  LET net == Masked(IpToInt(ip), p)
  IN  [prefix |-> p, network |-> net, broadcast |-> net + Block(p) - 1]

TotalAddresses(s) == s.broadcast - s.network + 1
PointToPoint(s) == s.prefix >= Width - 1
UsableHosts(s) == IF PointToPoint(s) THEN TotalAddresses(s) ELSE TotalAddresses(s) - 2
FirstHost(s) == IF PointToPoint(s) THEN s.network ELSE s.network + 1
LastHost(s) == IF PointToPoint(s) THEN s.broadcast ELSE s.broadcast - 1

\* split(): one child per step of the block's size from the network address up
Split(s, p) ==
  [k \in 1 .. TotalAddresses(s) \div Block(p) |-> Subnet(IntToIp(s.network + (k - 1) * Block(p)), p)]

-----------------------------------------------------------------------------
VARIABLES
  parent,     \* the block that vlsm_allocate() divides; the whole space at first
  reqs,       \* the requirements that are left, largest first
  cursor,     \* the next free address
  plan,       \* the allocations made, with the hosts each is for
  vlsm,       \* "idle", "allocate", or "failed": out of space was raised
  routes      \* RoutingTable.routes

vlsmVars == <<parent, reqs, cursor, plan, vlsm>>
subnetVars == <<vlsmVars, routes>>

SubnetInit ==
  /\ parent = Subnet(IntToIp(0), 0)
  /\ reqs = << >> /\ plan = << >>
  /\ cursor = 0
  /\ vlsm = "idle"
  /\ routes = << >>

\* the requirements are served in the order they are given
Bug_LargestFirst(needs) == {needs}

\* the route that was added last
Bug_Better(r, best) == TRUE

\* sorted(..., reverse=True): needs with its elements in decreasing order
Occurrences(s, m) == Cardinality({k \in DOMAIN s : s[k] = m})
LargestFirst(needs) ==
  {s \in [DOMAIN needs -> Range(needs)] :
     /\ \A m \in Range(needs) : Occurrences(s, m) = Occurrences(needs, m)
     /\ \A j, k \in DOMAIN s : j < k => s[j] >= s[k]}

CallVlsm(a, p, needs) ==
  /\ vlsm = "idle"
  /\ parent' = Subnet(IntToIp(a), p)
  /\ reqs' \in LargestFirst(needs)
  /\ cursor' = parent'.network
  /\ vlsm' = "allocate"
  /\ UNCHANGED <<plan, routes>>

\* The longest prefix, from Width down to 1, with enough hosts, or else 0.
RightPrefix(hosts) ==
  LET enough == {p \in 1 .. Width : UsableHosts(Subnet(IntToIp(cursor), p)) >= hosts}
  IN  Max(enough \cup {0})

Allocate ==
  /\ vlsm = "allocate" /\ reqs # << >>
  /\ LET sub == Subnet(IntToIp(cursor), RightPrefix(Head(reqs)))
     IN  IF sub.broadcast <= parent.broadcast
         THEN /\ plan' = Append(plan, [hosts |-> Head(reqs), sub |-> sub])
              /\ cursor' = sub.broadcast + 1
              /\ reqs' = Tail(reqs)
              /\ UNCHANGED vlsm
         ELSE vlsm' = "failed" /\ UNCHANGED <<plan, cursor, reqs>>
  /\ UNCHANGED <<parent, routes>>

\* RoutingTable.add()
AddRoute(a, p, hop) ==
  /\ vlsm = "idle" /\ Len(routes) < MaxRoutes
  /\ routes' = Append(routes, [net |-> Subnet(IntToIp(a), p).network, prefix |-> p, hop |-> hop])
  /\ UNCHANGED vlsmVars

\* RoutingTable.lookup(): its loop over the routes
Matches(r, addr) == Masked(addr, r.prefix) = r.net
Better(r, best) == r.prefix > best.prefix
NoRoute == [net |-> 0, prefix |-> -1, hop |-> NoHop]
Lookup(addr) ==
  LET best[k \in 0 .. Len(routes)] ==
        IF k = 0 THEN NoRoute
        ELSE IF Matches(routes[k], addr) /\ Better(routes[k], best[k - 1]) THEN routes[k] ELSE best[k - 1]
  IN  best[Len(routes)].hop

SubnetNext ==
  \/ routes = << >> /\ \E a \in Addresses, p \in PrefixLengths, n \in 0 .. MaxNeeds :
       \E needs \in [1 .. n -> Needs] : CallVlsm(a, p, needs)
  \/ Allocate
  \/ \E a \in RouteIps, p \in PrefixLengths, hop \in Hops : AddRoute(a, p, hop)

SubnetSpec == SubnetInit /\ [][SubnetNext]_subnetVars

-----------------------------------------------------------------------------
AddressesOf(s) == s.network .. s.broadcast
Disjoint(s, t) == s.broadcast < t.network \/ t.broadcast < s.network

\* The block could hold each of the subnets by itself.
Reasonable == \A k \in DOMAIN plan : UsableHosts(parent) >= plan[k].hosts

\* No subnet before the k-th ends where the address space ends, so that
\* int_to_ip() has not wrapped the cursor round to 0.
NotWrapped(k) == \A j \in 1 .. k - 1 : plan[j].sub.broadcast < Shifted[Width] - 1

(* Lines 116-141 and 218-223: for reasonable arguments the subnets, up to   *)
(* one that ends with the address space itself, lie in the block and do not *)
(* overlap, which needs every cursor to be aligned for the subnet cut       *)
(* there; each has hosts enough between its first and last host, and half   *)
(* of it would not have been enough.                                        *)
VlsmSound ==
  Reasonable =>
    \A k \in {n \in DOMAIN plan : NotWrapped(n)} :
      LET sub == plan[k].sub IN
      /\ AddressesOf(sub) \subseteq AddressesOf(parent)
      /\ \A j \in 1 .. k - 1 : Disjoint(plan[j].sub, sub)
      /\ LastHost(sub) - FirstHost(sub) + 1 >= plan[k].hosts
      /\ sub.prefix < Width => UsableHosts(Subnet(IntToIp(sub.network), sub.prefix + 1)) < plan[k].hosts

(* "most-specific route always wins" (line 243): for every address, lookup  *)
(* returns the hop of a matching route such that no matching one is longer  *)
(* and none of the same length was added before; None if none matches.      *)
LongestPrefixMatch ==
  \A addr \in Addresses :
    LET matching == {k \in DOMAIN routes : addr \in AddressesOf(Subnet(IntToIp(routes[k].net), routes[k].prefix))}
    IN  IF matching = {} THEN Lookup(addr) = NoHop
        ELSE \E k \in matching :
               /\ Lookup(addr) = routes[k].hop
               /\ \A j \in matching : routes[j].prefix < routes[k].prefix \/ (routes[j].prefix = routes[k].prefix /\ k <= j)

(* "4 contiguous /24s" (line 205): split() cuts a block into subnets of the *)
(* new length, one after the other and without a gap.                       *)
SplitCovers ==
  vlsm = "allocate" => \A p \in parent.prefix + 1 .. Width :
    LET children == Split(parent, p) IN
    /\ children[1].network = parent.network
    /\ children[Len(children)].broadcast = parent.broadcast
    /\ \A k \in 2 .. Len(children) : children[k].network = children[k - 1].broadcast + 1

(* Both together: however a block is divided, nothing of it overlaps.       *)
SubnetsSound == VlsmSound /\ SplitCovers

(* What the docstring says of any arguments, "Given a parent block [...]    *)
(* allocate subnets" (lines 119-121), and the assertion is there to ensure  *)
(* ("ran out of space", lines 137-138): subnets are parts of the block.     *)
AllocatedInside == \A k \in DOMAIN plan : AddressesOf(plan[k].sub) \subseteq AddressesOf(parent)
=============================================================================
