---------------------------- MODULE StoresProofs ----------------------------
(***************************************************************************)
(* The two stores that keep one set of things in two structures.  The      *)
(* consistent hash ring on any ring, with any nodes, any number of virtual *)
(* nodes and any hash without collisions: the dictionary and the sorted    *)
(* list agree, a lookup finds the nearest node clockwise, and additions    *)
(* and removals move no key they need not move.  The LRU cache of any      *)
(* capacity over any finite set of keys: the dictionary and the doubly     *)
(* linked list hold the same nodes, and the pointers implement the order   *)
(* of last use.                                                            *)
(***************************************************************************)
EXTENDS ConsistentHash, LRUCache, FiniteSetTheorems, WellFoundedInduction, TLAPS

-----------------------------------------------------------------------------
(* consistent_hash.py: the dictionary and the sorted list.                  *)

IInv == RingTypeOK /\ RingConsistent

LEMMA SlotFacts ==
  ASSUME RingTypeOK
  PROVE  /\ \A n \in Nodes : \A k \in Replicas : slot[n][k] \in Pos
         /\ \A n \in Nodes : Points(n) \subseteq Pos
  BY RingAssumption DEF RingTypeOK, Points

\* Without collisions the points of different nodes are different ...
LEMMA PointsDisjoint ==
  ASSUME CollisionFree, RingTypeOK, NEW m \in Nodes, NEW n \in Nodes,
         NEW p \in Points(m), p \in Points(n)
  PROVE  m = n
  BY DEF CollisionFree, Injective, RingTypeOK, Points

\* ... and add_node() inserts each point of the node exactly once.
LEMMA InsertedOnce ==
  ASSUME CollisionFree, RingTypeOK, NEW n \in Nodes, NEW p \in Pos
  PROVE  Inserted(n, p) = IF p \in Points(n) THEN 1 ELSE 0
  <1> DEFINE K == {k \in Replicas : slot[n][k] = p}
  <1>1. CASE p \in Points(n)
    <2>1. PICK k \in Replicas : slot[n][k] = p
      BY <1>1 DEF Points
    <2>2. K = {k}
      BY <2>1 DEF CollisionFree, Injective, RingTypeOK
    <2> QED
      BY <1>1, <2>2, FS_Singleton DEF Inserted
  <1>2. CASE p \notin Points(n)
    <2>1. K = {}
      BY <1>2 DEF Points
    <2> QED
      BY <1>2, <2>1, FS_EmptySet DEF Inserted
  <1> QED
    BY <1>1, <1>2

LEMMA InitIInv == RingInit => IInv
  BY DEF RingInit, IInv, RingTypeOK, RingConsistent

LEMMA AddIInv ==
  ASSUME CollisionFree, IInv, NEW n \in Nodes, AddNode(n)
  PROVE  IInv'
  <1> USE DEF IInv
  <1>1. \A p \in Pos : Inserted(n, p) = IF p \in Points(n) THEN 1 ELSE 0
    BY InsertedOnce
  <1>2. /\ slot' = slot /\ nodes' = nodes \cup {n} /\ n \notin nodes
        /\ \A p \in Pos : ring'[p] = IF p \in Points(n) THEN n ELSE ring[p]
        /\ \A p \in Pos : keys'[p] = keys[p] + Inserted(n, p)
    BY DEF AddNode
  <1>3. RingTypeOK'
    BY <1>1 DEF RingTypeOK, AddNode
  <1>4. ASSUME NEW p \in Pos
        PROVE  /\ \A m \in nodes' : p \in Points(m) => ring'[p] = m
               /\ ring'[p] # None => ring'[p] \in nodes' /\ p \in Points(ring'[p])
               /\ keys'[p] = IF ring'[p] = None THEN 0 ELSE 1
    <2>1. CASE p \in Points(n)
      <3>1. \A m \in nodes : p \notin Points(m)
        BY <1>2, <2>1, PointsDisjoint DEF RingTypeOK
      <3>2. ring[p] = None /\ keys[p] = 0
        BY <3>1 DEF RingConsistent
      <3> QED
        BY <1>1, <1>2, <2>1, <3>1, <3>2, RingAssumption DEF RingTypeOK
    <2>2. CASE p \notin Points(n)
      <3>1. ring'[p] = ring[p] /\ keys'[p] = keys[p]
        BY <1>1, <1>2, <2>2 DEF RingTypeOK
      <3> QED
        BY <1>2, <2>2, <3>1 DEF RingConsistent, RingTypeOK
    <2> QED
      BY <2>1, <2>2
  <1> QED
    BY <1>2, <1>3, <1>4 DEF RingConsistent, Points

LEMMA RemoveIInv ==
  ASSUME CollisionFree, IInv, NEW n \in Nodes, RemoveNode(n)
  PROVE  IInv'
  <1> USE DEF IInv
  <1>1. Owned(n) = Points(n) /\ Points(n) \subseteq Pos
    BY SlotFacts DEF Owned, RingConsistent, RemoveNode
  <1>2. \A p \in Points(n) : keys[p] = 1 /\ Popped(p) = 1
    BY <1>1, RingAssumption DEF RingConsistent, Popped, RemoveNode
  <1>3. /\ slot' = slot /\ nodes' = nodes \ {n}
        /\ \A p \in Pos : ring'[p] = IF p \in Points(n) THEN None ELSE ring[p]
        /\ \A p \in Pos : keys'[p] = IF p \in Points(n) THEN 0 ELSE keys[p]
    BY <1>1, <1>2 DEF RemoveNode
  <1>4. RingTypeOK'
    BY <1>1, <1>2, <1>3 DEF RingTypeOK, RemoveNode
  <1>5. ASSUME NEW p \in Pos
        PROVE  /\ \A m \in nodes' : p \in Points(m) => ring'[p] = m
               /\ ring'[p] # None => ring'[p] \in nodes' /\ p \in Points(ring'[p])
               /\ keys'[p] = IF ring'[p] = None THEN 0 ELSE 1
    <2>1. CASE p \in Points(n)
      BY <1>3, <2>1, PointsDisjoint DEF RingTypeOK
    <2>2. CASE p \notin Points(n)
      BY <1>3, <2>2 DEF RingConsistent, RingTypeOK
    <2> QED
      BY <2>1, <2>2
  <1> QED
    BY <1>3, <1>4, <1>5 DEF RingConsistent, Points

LEMMA NextIInv ==
  ASSUME CollisionFree PROVE IInv /\ [RingNext]_ringVars => IInv'
  <1> SUFFICES ASSUME IInv, [RingNext]_ringVars PROVE IInv'
    OBVIOUS
  <1>1. ASSUME NEW n \in Nodes, AddNode(n) PROVE IInv'
    BY <1>1, AddIInv
  <1>2. ASSUME NEW n \in Nodes, RemoveNode(n) PROVE IInv'
    BY <1>2, RemoveIInv
  <1>3. CASE UNCHANGED ringVars
    BY <1>3 DEF ringVars, IInv, RingTypeOK, RingConsistent, Points
  <1> QED
    BY <1>1, <1>2, <1>3 DEF RingNext, AddPresent, RemoveAbsent

(* _ring and _sorted_keys describe the same ring, and exactly the points    *)
(* of the present nodes, after any series of add_node() and remove_node().  *)
THEOREM RingAgrees ==
  ASSUME CollisionFree PROVE RingSpec => []RingConsistent
  <1>1. IInv => RingConsistent
    BY DEF IInv
  <1>2. IInv /\ [RingNext]_ringVars => IInv'
    BY NextIInv
  <1> QED
    BY <1>1, <1>2, InitIInv, PTL DEF RingSpec

-----------------------------------------------------------------------------
(* get_node(): the position that follows a key's.                           *)

\* A non-empty set of positions has a least element, and Min is it.
LEMMA MinFacts ==
  ASSUME NEW S \in SUBSET Nat, S # {}
  PROVE  Min(S) \in S /\ \A y \in S : Min(S) <= y
  <1> DEFINE R == {ss \in Nat \X Nat : ss[1] < ss[2]}
  <1>1. OpToRel(<, Nat) = R
    BY Zenon DEF OpToRel
  <1>2. IsWellFoundedOn(R, Nat)
    BY <1>1, NatLessThanWellFounded, Zenon
  <1> HIDE DEF R
  <1>3. PICK x \in S : \A y \in S : ~(<<y, x>> \in R)
    BY <1>2, WFMin, Zenon
  <1>4. ASSUME NEW y \in Nat, NEW z \in Nat, y < z PROVE <<y, z>> \in R
    <2> DEFINE ss == <<y, z>>
    <2>1. ss \in Nat \X Nat /\ ss[1] = y /\ ss[2] = z
      OBVIOUS
    <2> HIDE DEF ss
    <2>2. ss \in R
      BY <1>4, <2>1 DEF R
    <2> QED
      BY <2>2 DEF ss
  <1>5. \A y \in S : ~(y < x)
    BY <1>3, <1>4
  <1>6. \A y \in S : x <= y
    BY <1>5
  <1> QED
    BY <1>6 DEF Min

\* q follows p on the ring whose occupied positions are O.
Follows(O, p, q) ==
  /\ q \in O
  /\ \/ q > p /\ \A r \in O : r > p => q <= r
     \/ \A r \in O : r <= p /\ q <= r

\* Only one position follows p.
LEMMA FollowsUnique ==
  ASSUME NEW O \in SUBSET Nat, NEW p \in Nat, NEW q, NEW r,
         Follows(O, p, q), Follows(O, p, r)
  PROVE  q = r
  BY DEF Follows

\* What follows p keeps following it when positions other than it go.
LEMMA FollowsSubset ==
  ASSUME NEW O \in SUBSET Nat, NEW R \in SUBSET O, NEW p \in Nat, NEW q \in R,
         Follows(O, p, q)
  PROVE  Follows(R, p, q)
  BY DEF Follows

\* bisect_right() and the wrap around find the position that follows p.
LEMMA SuccessorFollows ==
  ASSUME NEW p \in Pos, Occupied # {}
  PROVE  Follows(Occupied, p, Successor(p))
  <1> DEFINE after == {q \in Occupied : q > p}
  <1>0. Occupied \in SUBSET Nat /\ after \in SUBSET Nat /\ p \in Nat
    BY RingAssumption DEF Occupied, Pos
  <1>1. CASE after # {}
    <2>1. Successor(p) = Min(after)
      BY <1>1 DEF Successor
    <2>2. Min(after) \in after /\ \A y \in after : Min(after) <= y
      BY <1>0, <1>1, MinFacts
    <2> QED
      BY <2>1, <2>2 DEF Follows
  <1>2. CASE after = {}
    <2>1. Successor(p) = Min(Occupied)
      BY <1>2 DEF Successor
    <2>2. Min(Occupied) \in Occupied /\ \A y \in Occupied : Min(Occupied) <= y
      BY <1>0, MinFacts
    <2>3. \A r \in Occupied : r <= p
      BY <1>0, <1>2
    <2> QED
      BY <2>1, <2>2, <2>3 DEF Follows
  <1> QED
    BY <1>1, <1>2

\* On a consistent ring a lookup never fails.
LEMMA Lookup ==
  ASSUME IInv, NEW p \in Pos, Occupied # {}
  PROVE  /\ Follows(Occupied, p, Successor(p))
         /\ Successor(p) \in Occupied /\ GetNode(p) = ring[Successor(p)]
         /\ GetNode(p) \in Nodes
  <1>1. Follows(Occupied, p, Successor(p))
    BY SuccessorFollows
  <1>2. Successor(p) \in Occupied
    BY <1>1 DEF Follows
  <1>3. ring[Successor(p)] # None
    BY <1>2 DEF IInv, RingConsistent, Occupied
  <1> QED
    BY <1>1, <1>2, <1>3 DEF GetNode, IInv, RingTypeOK, Occupied

\* The same for all positions, in the form that can be used of the next state.
Found(p) ==
  /\ Follows(Occupied, p, Successor(p))
  /\ Successor(p) \in Occupied
  /\ GetNode(p) = ring[Successor(p)]

LookupOK == \A p \in Pos : Occupied # {} => Found(p)

LEMMA LookupAll == IInv => LookupOK
  BY Lookup DEF Found, LookupOK

-----------------------------------------------------------------------------
(* get_node() against its definition by distances.                          *)

LEMMA ClockwiseValue ==
  ASSUME NEW p \in Pos, NEW q \in Pos
  PROVE  Clockwise(p, q) = IF q >= p THEN q - p ELSE q - p + RingSize
  <1> DEFINE a == q - p
  <1>0. p \in Nat /\ q \in Nat /\ p < RingSize /\ q < RingSize /\ RingSize \in Nat \ {0}
    BY RingAssumption DEF Pos
  <1>1. Clockwise(p, q) = a % RingSize /\ a \in Int
    BY <1>0 DEF Clockwise
  <1>2. CASE q >= p
    <2>1. a \in 0 .. RingSize - 1
      BY <1>0, <1>2
    <2> HIDE DEF a
    <2>2. a % RingSize = a
      BY <1>0, <2>1
    <2> QED
      BY <1>1, <1>2, <2>2 DEF a
  <1>3. CASE ~(q >= p)
    <2>1. a < 0 /\ a >= -RingSize
      BY <1>0, <1>3
    <2> HIDE DEF a
    <2>2. a % RingSize = a + RingSize
      BY <1>0, <1>1, <2>1
    <2> QED
      BY <1>0, <1>1, <1>3, <2>2 DEF a
  <1> QED
    BY <1>2, <1>3

\* Of the occupied positions the one that follows p is nearest clockwise,
\* unless p is occupied itself.
LEMMA FollowsNearest ==
  ASSUME NEW p \in Pos, NEW O \in SUBSET Pos, p \notin O,
         NEW q \in O, Follows(O, p, q), NEW r \in O
  PROVE  Clockwise(p, q) <= Clockwise(p, r)
  <1>0. p \in Nat /\ q \in Nat /\ r \in Nat /\ p < RingSize /\ q < RingSize /\ r < RingSize
        /\ RingSize \in Nat /\ q \in Pos /\ r \in Pos /\ q # p /\ r # p
    BY RingAssumption DEF Pos
  <1>1. /\ Clockwise(p, q) = IF q >= p THEN q - p ELSE q - p + RingSize
        /\ Clockwise(p, r) = IF r >= p THEN r - p ELSE r - p + RingSize
    BY <1>0, ClockwiseValue
  <1>2. CASE q > p /\ r > p
    BY <1>0, <1>1, <1>2 DEF Follows
  <1>3. CASE q > p /\ ~(r > p)
    BY <1>0, <1>1, <1>3
  <1>4. CASE ~(q > p)
    <2>1. r < p /\ q <= r
      BY <1>0, <1>4 DEF Follows
    <2> QED
      BY <1>0, <1>1, <1>4, <2>1
  <1> QED
    BY <1>2, <1>3, <1>4

\* The occupied positions are the points of the present nodes.
LEMMA OccupiedPoints ==
  ASSUME IInv
  PROVE  /\ \A n \in nodes : Points(n) \subseteq Occupied
         /\ \A q \in Occupied : ring[q] \in nodes /\ q \in Points(ring[q])
         /\ nodes = {} <=> Occupied = {}
  <1>1. ASSUME NEW n \in nodes, NEW q \in Points(n) PROVE q \in Occupied
    <2>1. n \in Nodes /\ q \in Pos
      BY SlotFacts DEF IInv, RingTypeOK
    <2>2. ring[q] = n /\ n # None
      BY <2>1, RingAssumption DEF IInv, RingConsistent
    <2> QED
      BY <2>1, <2>2 DEF IInv, RingConsistent, Occupied
  <1>2. ASSUME NEW q \in Occupied PROVE ring[q] \in nodes /\ q \in Points(ring[q])
    BY DEF IInv, RingConsistent, Occupied
  <1>3. ASSUME NEW n \in nodes PROVE Points(n) # {}
    <2>1. slot[n][0] \in Points(n)
      BY RingAssumption DEF Points, Replicas
    <2> QED
      BY <2>1
  <1> QED
    BY <1>1, <1>2, <1>3

LEMMA LookupNearest == IInv => LookupCorrect
  <1> SUFFICES ASSUME IInv, NEW p \in Pos, \A n \in nodes : p \notin Points(n)
               PROVE  IF nodes = {} THEN GetNode(p) = None
                      ELSE /\ GetNode(p) \in nodes
                           /\ \E q \in Points(GetNode(p)) :
                                \A n \in nodes : \A r \in Points(n) :
                                  Clockwise(p, q) <= Clockwise(p, r)
    BY DEF LookupCorrect, OwnerNearest
  <1>1. CASE nodes = {}
    BY <1>1, OccupiedPoints DEF GetNode
  <1>2. CASE nodes # {}
    <2> DEFINE q == Successor(p)
    <2>1. Occupied # {} /\ Occupied \subseteq Pos /\ p \notin Occupied
      BY <1>2, OccupiedPoints DEF Occupied
    <2>2. Follows(Occupied, p, q) /\ q \in Occupied /\ GetNode(p) = ring[q]
      BY <2>1, Lookup
    <2> HIDE DEF q
    <2>3. GetNode(p) \in nodes /\ q \in Points(GetNode(p))
      BY <2>2, OccupiedPoints
    <2>4. ASSUME NEW n \in nodes, NEW r \in Points(n)
          PROVE  Clockwise(p, q) <= Clockwise(p, r)
      BY <2>1, <2>2, OccupiedPoints, FollowsNearest
    <2> QED
      BY <1>2, <2>3, <2>4
  <1> QED
    BY <1>1, <1>2

(* get_node() answers with the node whose point is nearest clockwise of the *)
(* key, after any series of additions and removals (bisect_right and the    *)
(* wrap around, lines 87-96), and never ends in KeyError, for every key     *)
(* that does not hash to a point of the ring itself.                        *)
THEOREM LookupsCorrect ==
  ASSUME CollisionFree PROVE RingSpec => []LookupCorrect
  <1>1. IInv /\ [RingNext]_ringVars => IInv'
    BY NextIInv
  <1> QED
    BY <1>1, LookupNearest, InitIInv, PTL DEF RingSpec

-----------------------------------------------------------------------------
(* Minimal remapping.                                                       *)

\* The occupied positions before and after an addition or a removal.
LEMMA OccupiedNext ==
  ASSUME CollisionFree, IInv, NEW n \in Nodes
  PROVE  /\ AddNode(n) => Occupied' = Occupied \cup Points(n)
         /\ RemoveNode(n) => Occupied' = Occupied \ Points(n)
  <1>0. Points(n) \subseteq Pos
    BY SlotFacts DEF IInv
  <1>1. ASSUME AddNode(n) PROVE Occupied' = Occupied \cup Points(n)
    <2>1. \A p \in Pos : keys'[p] = keys[p] + IF p \in Points(n) THEN 1 ELSE 0
      BY <1>1, InsertedOnce DEF AddNode, IInv
    <2>2. \A p \in Pos : keys[p] \in Nat
      BY DEF IInv, RingTypeOK
    <2>3. \A p \in Pos : keys'[p] > 0 <=> keys[p] > 0 \/ p \in Points(n)
      BY <2>1, <2>2
    <2> QED
      BY <1>0, <2>3 DEF Occupied
  <1>2. ASSUME RemoveNode(n) PROVE Occupied' = Occupied \ Points(n)
    <2>1. Owned(n) = Points(n)
      BY <1>0, <1>2 DEF Owned, IInv, RingConsistent, RemoveNode
    <2>2. \A p \in Points(n) : keys[p] = 1 /\ Popped(p) = 1
      BY <1>0, <1>2, <2>1, RingAssumption
      DEF IInv, RingConsistent, Popped, RemoveNode
    <2>3. \A p \in Pos : keys'[p] = IF p \in Points(n) THEN 0 ELSE keys[p]
      BY <1>2, <2>1, <2>2 DEF RemoveNode
    <2> QED
      BY <2>3 DEF Occupied
  <1> QED
    BY <1>1, <1>2

\* add_node(n): a position keeps its owner or goes to n.
LEMMA AddMoves ==
  ASSUME CollisionFree, IInv, NEW n \in Nodes, AddNode(n), NEW p \in Pos
  PROVE  GetNode(p)' \in {GetNode(p), n}
  <1>0. IInv' /\ p \in Nat /\ Points(n) \subseteq Pos /\ Pos \subseteq Nat
    BY AddIInv, SlotFacts, RingAssumption DEF Pos, IInv
  <1>1. Occupied' = Occupied \cup Points(n)
    BY OccupiedNext
  <1>2. Occupied' # {}
    <2>1. slot[n][0] \in Points(n)
      BY RingAssumption DEF Points, Replicas
    <2> QED
      BY <1>1, <2>1
  <1> DEFINE q == Successor(p)'
  <1>3. Follows(Occupied', p, q) /\ q \in Occupied' /\ GetNode(p)' = ring'[q]
    <2>1. (IInv => LookupOK)'
      BY LookupAll, PTL
    <2>2. Found(p)'
      BY <1>0, <1>2, <2>1 DEF LookupOK
    <2> QED
      BY <2>2 DEF Found
  <1> HIDE DEF q
  <1>4. CASE q \in Points(n)
    <2>1. ring'[q] = n
      BY <1>0, <1>4 DEF AddNode
    <2> QED
      BY <1>3, <2>1
  <1>5. CASE q \notin Points(n)
    <2>1. q \in Occupied /\ Occupied # {} /\ q \in Pos
      BY <1>1, <1>3, <1>5 DEF Occupied
    <2>2. Follows(Occupied, p, q)
      BY <1>0, <1>1, <1>3, <2>1, FollowsSubset DEF Occupied
    <2>3. q = Successor(p) /\ GetNode(p) = ring[Successor(p)]
      BY <1>0, <2>1, <2>2, Lookup, FollowsUnique DEF Occupied
    <2>4. ring'[q] = ring[q]
      BY <1>5, <2>1 DEF AddNode
    <2> QED
      BY <1>3, <2>3, <2>4
  <1> QED
    BY <1>4, <1>5

\* remove_node(n): a position that n did not own keeps its owner.
LEMMA RemoveMoves ==
  ASSUME CollisionFree, IInv, NEW n \in Nodes, RemoveNode(n), NEW p \in Pos,
         GetNode(p) # n
  PROVE  GetNode(p)' = GetNode(p)
  <1>0. IInv' /\ p \in Nat /\ Points(n) \subseteq Pos /\ Pos \subseteq Nat
    BY RemoveIInv, SlotFacts, RingAssumption DEF Pos, IInv
  <1>1. Occupied' = Occupied \ Points(n)
    BY OccupiedNext
  <1>2. n \in nodes
    BY DEF RemoveNode
  <1>3. Occupied # {}
    <2>1. slot[n][0] \in Points(n)
      BY RingAssumption DEF Points, Replicas
    <2>2. ring[slot[n][0]] = n /\ slot[n][0] \in Pos
      BY <1>0, <1>2, <2>1 DEF IInv, RingConsistent
    <2> QED
      BY <2>2, RingAssumption DEF IInv, RingConsistent, Occupied
  <1> DEFINE q == Successor(p)
  <1>4. Follows(Occupied, p, q) /\ q \in Occupied /\ GetNode(p) = ring[q]
    BY <1>3, Lookup
  <1> HIDE DEF q
  <1>5. q \notin Points(n) /\ q \in Pos
    BY <1>2, <1>4 DEF IInv, RingConsistent, Occupied
  <1>6. q \in Occupied' /\ Follows(Occupied', p, q)
    BY <1>0, <1>1, <1>4, <1>5, FollowsSubset DEF Occupied
  <1>7. Found(p)'
    <2>1. (IInv => LookupOK)'
      BY LookupAll, PTL
    <2> QED
      BY <1>0, <1>6, <2>1 DEF LookupOK
  <1>8. Successor(p)' = q
    <2>1. Follows(Occupied', p, Successor(p)')
      BY <1>7 DEF Found
    <2>2. Occupied' \in SUBSET Nat
      BY <1>0 DEF Occupied
    <2> QED
      BY <1>0, <1>6, <2>1, <2>2, FollowsUnique
  <1>9. ring'[q] = ring[q]
    BY <1>5 DEF RemoveNode, Owned
  <1> QED
    BY <1>4, <1>7, <1>8, <1>9 DEF Found

(* Every step of the program that adds a node does so by add_node().         *)
LEMMA AddStep ==
  ASSUME CollisionFree, IInv, [RingNext]_ringVars PROVE AddRemaps
  <1> SUFFICES ASSUME NEW n \in Nodes \ nodes, n \in nodes', NEW p \in Pos
               PROVE  GetNode(p)' \in {GetNode(p), n}
    BY DEF AddRemaps
  <1>1. AddNode(n)
    BY DEF RingNext, AddNode, RemoveNode, AddPresent, RemoveAbsent, ringVars
  <1> QED
    BY <1>1, AddMoves

(* Every step that removes a node does so by remove_node().                  *)
LEMMA RemoveStep ==
  ASSUME CollisionFree, IInv, [RingNext]_ringVars PROVE RemoveRemaps
  <1> SUFFICES ASSUME NEW n \in nodes, n \notin nodes', NEW p \in Pos,
                      GetNode(p) # n
               PROVE  GetNode(p)' = GetNode(p)
    BY DEF RemoveRemaps
  <1>1. n \in Nodes /\ RemoveNode(n)
    BY DEF RingNext, AddNode, RemoveNode, AddPresent, RemoveAbsent, ringVars, IInv, RingTypeOK
  <1> QED
    BY <1>1, RemoveMoves

(* Adding a node moves keys only to that node (add_node, lines 63-71).      *)
THEOREM AddMinimal ==
  ASSUME CollisionFree PROVE RingSpec => AddMovesToNewNode
  <1>1. IInv /\ [RingNext]_ringVars => [AddRemaps]_ringVars
    BY AddStep
  <1>2. IInv /\ [RingNext]_ringVars => IInv'
    BY NextIInv
  <1> QED
    BY <1>1, <1>2, InitIInv, PTL DEF RingSpec, AddMovesToNewNode

(* Removing a node moves only the keys it owned (remove_node, lines 73-85). *)
THEOREM RemoveMinimal ==
  ASSUME CollisionFree PROVE RingSpec => RemoveMovesOwnKeys
  <1>1. IInv /\ [RingNext]_ringVars => [RemoveRemaps]_ringVars
    BY RemoveStep
  <1>2. IInv /\ [RingNext]_ringVars => IInv'
    BY NextIInv
  <1> QED
    BY <1>1, <1>2, InitIInv, PTL DEF RingSpec, RemoveMovesOwnKeys

(* The remapping is minimal on additions and on removals.                   *)
THEOREM Minimal ==
  ASSUME CollisionFree PROVE RingSpec => MinimalRemapping
  <1>1. IInv /\ [RingNext]_ringVars => [AddRemaps /\ RemoveRemaps]_ringVars
    BY AddStep, RemoveStep
  <1>2. IInv /\ [RingNext]_ringVars => IInv'
    BY NextIInv
  <1> QED
    BY <1>1, <1>2, InitIInv, PTL DEF RingSpec, MinimalRemapping


LEMMA SameFunction ==
  ASSUME NEW A, NEW B, NEW f \in [A -> B], NEW g \in [A -> B], \A x \in A : f[x] = g[x]
  PROVE  f = g
OBVIOUS

LEMMA LeastNumber ==
  ASSUME NEW T \in SUBSET Nat, T # {}
  PROVE  \E m \in T : \A l \in T : m <= l
<1>1. PICK m \in T : \A l \in T : ~ (<<l, m>> \in OpToRel(<, Nat))
  BY NatLessThanWellFounded, WFMin
<1>2. \A l \in T : ~ (l < m)
  BY <1>1 DEF OpToRel
<1> QED
  BY <1>2


-----------------------------------------------------------------------------
(* lru_cache.py: the pointers as a list.                                    *)

PointerFns == [NodeIds -> NodeIds]

(* next and prev are the two directions of the list s.                      *)
Linked(s, nx, pv) ==
  \A j \in 0 .. Len(s) : /\ nx[NodeAt(s, j)] = NodeAt(s, j + 1)
                         /\ pv[NodeAt(s, j + 1)] = NodeAt(s, j)

Distinct(s) == \A i, j \in DOMAIN s : s[i] = s[j] => i = j

ListOf(s, nx, pv) ==
  /\ s \in Seq(Keys) /\ Distinct(s)
  /\ nx \in PointerFns /\ pv \in PointerFns
  /\ Linked(s, nx, pv)

CutAt(s, i) == [j \in 1 .. Len(s) - 1 |-> IF j < i THEN s[j] ELSE s[j + 1]]
InFront(k, s) == [j \in 1 .. Len(s) + 1 |-> IF j = 1 THEN k ELSE s[j - 1]]

(* The sentinels and the nodes between them are different nodes.            *)
LEMMA NodesDiffer ==
  ASSUME NEW s \in Seq(Keys), Distinct(s)
  PROVE  /\ \A j \in 0 .. Len(s) + 1 : NodeAt(s, j) \in NodeIds
         /\ \A i, j \in 0 .. Len(s) + 1 : NodeAt(s, i) = NodeAt(s, j) => i = j
BY CacheAssumption DEF NodeAt, Distinct, NodeIds

LEMMA CutIsSequence ==
  ASSUME NEW s \in Seq(Keys), Distinct(s), NEW i \in DOMAIN s
  PROVE  /\ CutAt(s, i) \in Seq(Keys)
         /\ Len(CutAt(s, i)) = Len(s) - 1
         /\ Distinct(CutAt(s, i))
         /\ \A j \in 0 .. Len(s) : NodeAt(CutAt(s, i), j) = IF j < i THEN NodeAt(s, j) ELSE NodeAt(s, j + 1)
<1> DEFINE c == CutAt(s, i)
<1>1. Len(s) \in Nat /\ i \in 1 .. Len(s) /\ \A j \in 1 .. Len(s) : s[j] \in Keys
  OBVIOUS
<1>2. \A j \in 1 .. Len(s) - 1 : c[j] \in Keys
  BY <1>1 DEF CutAt
<1>3. c \in Seq(Keys) /\ Len(c) = Len(s) - 1 /\ DOMAIN c = 1 .. Len(s) - 1
  BY <1>1, <1>2 DEF CutAt
<1>4. Distinct(c)
  BY <1>1, <1>3 DEF CutAt, Distinct
<1>5. ASSUME NEW j \in 0 .. Len(s)
      PROVE  NodeAt(c, j) = IF j < i THEN NodeAt(s, j) ELSE NodeAt(s, j + 1)
  BY <1>1, <1>3 DEF CutAt, NodeAt
<1> QED
  BY <1>3, <1>4, <1>5

LEMMA FrontIsSequence ==
  ASSUME NEW s \in Seq(Keys), Distinct(s), NEW k \in Keys, \A i \in DOMAIN s : s[i] # k
  PROVE  /\ InFront(k, s) \in Seq(Keys)
         /\ Len(InFront(k, s)) = Len(s) + 1
         /\ Distinct(InFront(k, s))
         /\ NodeAt(InFront(k, s), 0) = Head_
         /\ NodeAt(InFront(k, s), 1) = k
         /\ \A j \in 1 .. Len(s) + 1 : NodeAt(InFront(k, s), j + 1) = NodeAt(s, j)
<1> DEFINE c == InFront(k, s)
<1>1. Len(s) \in Nat /\ \A j \in 1 .. Len(s) : s[j] \in Keys
  OBVIOUS
<1>2. \A j \in 1 .. Len(s) + 1 : c[j] \in Keys
  BY <1>1 DEF InFront
<1>3. c \in Seq(Keys) /\ Len(c) = Len(s) + 1 /\ DOMAIN c = 1 .. Len(s) + 1
  BY <1>1, <1>2 DEF InFront
<1>4. Distinct(c)
  BY <1>1, <1>3 DEF InFront, Distinct
<1>5. NodeAt(c, 0) = Head_ /\ NodeAt(c, 1) = k
  BY <1>1, <1>3 DEF InFront, NodeAt
<1>6. ASSUME NEW j \in 1 .. Len(s) + 1
      PROVE  NodeAt(c, j + 1) = NodeAt(s, j)
  BY <1>1, <1>3 DEF InFront, NodeAt
<1> QED
  BY <1>3, <1>4, <1>5, <1>6

(* _remove(node) takes exactly the node out of the list.                    *)
LEMMA UnlinkCuts ==
  ASSUME NEW s, NEW nx, NEW pv, ListOf(s, nx, pv), NEW i \in DOMAIN s
  PROVE  LET U == Unlink([next |-> nx, prev |-> pv], s[i])
         IN  ListOf(CutAt(s, i), U.next, U.prev)
<1> DEFINE c == CutAt(s, i)
           n == s[i]
           nx2 == [nx EXCEPT ![pv[n]] = nx[n]]
           pv2 == [pv EXCEPT ![nx[n]] = pv[n]]
           N(j) == NodeAt(s, j)
           C(j) == NodeAt(c, j)
<1>1. s \in Seq(Keys) /\ Distinct(s) /\ nx \in PointerFns /\ pv \in PointerFns /\ Linked(s, nx, pv)
  BY DEF ListOf
<1>2. Len(s) \in Nat /\ i \in 1 .. Len(s) /\ n = N(i) /\ n \in NodeIds
  BY <1>1 DEF NodeAt, NodeIds
<1>3. /\ \A j \in 0 .. Len(s) + 1 : N(j) \in NodeIds
      /\ \A a, b \in 0 .. Len(s) + 1 : N(a) = N(b) => a = b
  BY <1>1, NodesDiffer
<1>4. /\ c \in Seq(Keys) /\ Len(c) = Len(s) - 1 /\ Distinct(c)
      /\ \A j \in 0 .. Len(s) : C(j) = IF j < i THEN N(j) ELSE N(j + 1)
  BY <1>1, CutIsSequence
<1>5. \A j \in 0 .. Len(s) : nx[N(j)] = N(j + 1) /\ pv[N(j + 1)] = N(j)
  BY <1>1 DEF Linked
<1> HIDE DEF N, C, c, n
<1>6. i - 1 \in 0 .. Len(s) /\ i \in 0 .. Len(s) /\ (i - 1) + 1 = i
  BY <1>2
<1>7. nx[n] = N(i + 1) /\ pv[n] = N(i - 1)
  BY <1>2, <1>5, <1>6
<1>8. nx2 \in PointerFns /\ pv2 \in PointerFns
  BY <1>1, <1>2 DEF PointerFns
<1>9. \A j \in 0 .. Len(s) + 1 : nx2[N(j)] = (IF j = i - 1 THEN N(i + 1) ELSE nx[N(j)])
  BY <1>1, <1>2, <1>3, <1>6, <1>7 DEF PointerFns
<1>10. \A j \in 0 .. Len(s) + 1 : pv2[N(j)] = (IF j = i + 1 THEN N(i - 1) ELSE pv[N(j)])
  BY <1>1, <1>2, <1>3, <1>6, <1>7 DEF PointerFns
<1> HIDE DEF nx2, pv2
<1>11. ASSUME NEW j \in 0 .. Len(s) - 1
       PROVE  nx2[C(j)] = C(j + 1) /\ pv2[C(j + 1)] = C(j)
  <2>1. CASE j < i - 1
    <3>1. C(j) = N(j) /\ C(j + 1) = N(j + 1)
      BY <1>2, <1>4, <2>1
    <3>2. nx2[N(j)] = N(j + 1) /\ pv2[N(j + 1)] = N(j)
      BY <1>2, <1>5, <1>9, <1>10, <2>1
    <3> QED BY <3>1, <3>2
  <2>2. CASE j = i - 1
    <3>1. C(j) = N(i - 1) /\ C(j + 1) = N(i + 1)
      BY <1>2, <1>4, <2>2
    <3>2. nx2[N(i - 1)] = N(i + 1) /\ pv2[N(i + 1)] = N(i - 1)
      BY <1>2, <1>9, <1>10
    <3> QED BY <3>1, <3>2
  <2>3. CASE j >= i
    <3>1. C(j) = N(j + 1) /\ C(j + 1) = N(j + 2)
      BY <1>2, <1>4, <2>3
    <3>2. nx[N(j + 1)] = N(j + 2) /\ pv[N(j + 2)] = N(j + 1)
      BY <1>2, <1>5, <2>3
    <3>3. nx2[N(j + 1)] = N(j + 2) /\ pv2[N(j + 2)] = N(j + 1)
      BY <1>2, <1>9, <1>10, <2>3, <3>2
    <3> QED BY <3>1, <3>3
  <2> QED BY <1>2, <2>1, <2>2, <2>3
<1>12. Linked(c, nx2, pv2)
  BY <1>4, <1>11 DEF Linked, C
<1> QED
  BY <1>4, <1>8, <1>12 DEF ListOf, Unlink, nx2, pv2, n, c

(* _push_front(node) puts a node that is not in the list in front of it.    *)
LEMMA PushFrontInserts ==
  ASSUME NEW s, NEW nx, NEW pv, ListOf(s, nx, pv), NEW k \in Keys,
         \A i \in DOMAIN s : s[i] # k
  PROVE  LET P == PushFront([next |-> nx, prev |-> pv], k)
         IN  ListOf(InFront(k, s), P.next, P.prev)
<1> DEFINE c == InFront(k, s)
           nx2 == [nx EXCEPT ![k] = nx[Head_], ![Head_] = k]
           pv2 == [pv EXCEPT ![k] = Head_, ![nx[Head_]] = k]
           N(j) == NodeAt(s, j)
           C(j) == NodeAt(c, j)
<1>1. s \in Seq(Keys) /\ Distinct(s) /\ nx \in PointerFns /\ pv \in PointerFns /\ Linked(s, nx, pv)
  BY DEF ListOf
<1>2. Len(s) \in Nat /\ k \in NodeIds /\ N(0) = Head_ /\ Head_ \in NodeIds /\ k # Head_
  BY <1>1, CacheAssumption DEF NodeAt, NodeIds
<1>3. /\ \A j \in 0 .. Len(s) + 1 : N(j) \in NodeIds /\ N(j) # k
      /\ \A a, b \in 0 .. Len(s) + 1 : N(a) = N(b) => a = b
  <2>1. \A j \in 0 .. Len(s) + 1 : N(j) # k
    BY <1>1, CacheAssumption DEF NodeAt
  <2> QED BY <1>1, <2>1, NodesDiffer
<1>4. /\ c \in Seq(Keys) /\ Len(c) = Len(s) + 1 /\ Distinct(c)
      /\ C(0) = Head_ /\ C(1) = k
      /\ \A j \in 1 .. Len(s) + 1 : C(j + 1) = N(j)
  BY <1>1, FrontIsSequence
<1>5. \A j \in 0 .. Len(s) : nx[N(j)] = N(j + 1) /\ pv[N(j + 1)] = N(j)
  BY <1>1 DEF Linked
<1> HIDE DEF N, C, c
<1>6. nx[Head_] = N(1) /\ N(1) \in NodeIds /\ N(1) # k /\ N(1) # Head_
  BY <1>2, <1>3, <1>5
<1>7. nx2 \in PointerFns /\ pv2 \in PointerFns
  BY <1>1, <1>2, <1>6 DEF PointerFns
<1>8. /\ nx2[Head_] = k /\ nx2[k] = N(1)
      /\ \A j \in 1 .. Len(s) + 1 : nx2[N(j)] = nx[N(j)]
  BY <1>1, <1>2, <1>3, <1>6 DEF PointerFns
<1>9. /\ pv2[k] = Head_ /\ pv2[N(1)] = k
      /\ \A j \in 2 .. Len(s) + 1 : pv2[N(j)] = pv[N(j)]
  BY <1>1, <1>2, <1>3, <1>6 DEF PointerFns
<1> HIDE DEF nx2, pv2
<1>10. ASSUME NEW j \in 0 .. Len(s) + 1
       PROVE  nx2[C(j)] = C(j + 1) /\ pv2[C(j + 1)] = C(j)
  <2>1. CASE j = 0
    BY <1>4, <1>8, <1>9, <2>1
  <2>2. CASE j = 1
    <3>1. C(2) = N(1) /\ 1 + 1 = 2
      BY <1>2, <1>4
    <3> QED BY <1>4, <1>8, <1>9, <2>2, <3>1
  <2>3. CASE j >= 2
    <3>1. C(j) = N(j - 1) /\ C(j + 1) = N(j)
      BY <1>2, <1>4, <2>3
    <3>2. nx[N(j - 1)] = N(j) /\ pv[N(j)] = N(j - 1)
      BY <1>2, <1>5, <2>3
    <3>3. nx2[N(j - 1)] = N(j) /\ pv2[N(j)] = N(j - 1)
      BY <1>2, <1>8, <1>9, <2>3, <3>2
    <3> QED BY <3>1, <3>3
  <2> QED BY <2>1, <2>2, <2>3
<1>11. Linked(c, nx2, pv2)
  BY <1>4, <1>10 DEF Linked, C
<1> QED
  BY <1>4, <1>7, <1>11 DEF ListOf, PushFront, nx2, pv2, c

(* The list s holds the nodes of the dictionary's keys m, and no more of    *)
(* them than the capacity.                                                  *)
CacheList(s, m, nx, pv) ==
  /\ ListOf(s, nx, pv)
  /\ m = {s[j] : j \in DOMAIN s}
  /\ IsFiniteSet(m) /\ Cardinality(m) = Len(s)
  /\ Len(s) <= CacheCapacity

CacheInv ==
  /\ value \in [Keys -> Values \cup {NoValue}]
  /\ \A k \in map : value[k] \in Values
  /\ \E s \in Seq(Keys) : CacheList(s, map, next, prev)

(* Walking next from the head sentinel gives the list, and nothing else     *)
(* does: at the first difference the same node would have two successors.   *)
LEMMA WalkGivesList ==
  ASSUME NEW s, NEW m, NEW nx, NEW pv, CacheList(s, m, nx, pv)
  PROVE  s = CHOOSE t \in [1 .. Cardinality(m) -> m] :
               \A j \in 0 .. Len(t) : nx[NodeAt(t, j)] = NodeAt(t, j + 1)
<1> DEFINE Goes(t) == \A j \in 0 .. Len(t) : nx[NodeAt(t, j)] = NodeAt(t, j + 1)
           S == [1 .. Cardinality(m) -> m]
<1>1. s \in Seq(Keys) /\ Len(s) \in Nat /\ Cardinality(m) = Len(s) /\ Linked(s, nx, pv)
  BY DEF CacheList, ListOf
<1>2. s \in S /\ Goes(s)
  <2>1. s \in [1 .. Len(s) -> m]
    BY <1>1 DEF CacheList
  <2> QED BY <1>1, <2>1 DEF Linked
<1>3. ASSUME NEW t \in S, Goes(t) PROVE t = s
  <2> DEFINE D == {j \in 1 .. Len(s) : t[j] # s[j]}
  <2>1. DOMAIN t = 1 .. Len(s) /\ DOMAIN s = 1 .. Len(s) /\ Len(t) = Len(s)
    BY <1>1
  <2>2. t \in [1 .. Len(s) -> m] /\ s \in [1 .. Len(s) -> m]
    BY <1>1, <1>2
  <2>0. ASSUME D # {} PROVE FALSE
    <3>1. PICK d \in D : \A e \in D : d <= e
      <4>1. D \subseteq Nat
        BY <1>1
      <4> HIDE DEF D
      <4> QED BY <2>0, <4>1, LeastNumber
    <3>2. d \in 1 .. Len(s) /\ t[d] # s[d] /\ d - 1 \in 0 .. Len(s) /\ (d - 1) + 1 = d
      BY <1>1, <3>1
    <3>3. NodeAt(t, d - 1) = NodeAt(s, d - 1)
      <4>1. CASE d = 1
        BY <4>1 DEF NodeAt
      <4>2. CASE d # 1
        <5>1. d - 1 \in 1 .. Len(s) /\ d - 1 \notin D
          BY <1>1, <3>1, <3>2, <4>2
        <5>2. t[d - 1] = s[d - 1]
          BY <5>1
        <5> QED BY <1>1, <2>1, <3>2, <5>1, <5>2 DEF NodeAt
      <4> QED BY <4>1, <4>2
    <3>4. nx[NodeAt(t, d - 1)] = NodeAt(t, d) /\ nx[NodeAt(s, d - 1)] = NodeAt(s, d)
      BY <1>2, <1>3, <2>1, <3>2
    <3>5. NodeAt(t, d) = t[d] /\ NodeAt(s, d) = s[d]
      BY <1>1, <2>1, <3>2 DEF NodeAt
    <3> QED BY <3>2, <3>3, <3>4, <3>5
  <2>8. \A j \in 1 .. Len(s) : t[j] = s[j]
    BY <2>0
  <2> DEFINE I == 1 .. Len(s)
  <2>9. t \in [I -> m] /\ s \in [I -> m] /\ \A j \in I : t[j] = s[j]
    BY <2>2, <2>8
  <2> HIDE DEF I, S, Goes, D
  <2> QED BY <2>9, SameFunction
<1> HIDE DEF S, Goes
<1>4. s = CHOOSE t \in S : Goes(t)
  BY <1>2, <1>3
<1> QED BY <1>4 DEF S, Goes

LEMMA CutRange ==
  ASSUME NEW s \in Seq(Keys), Distinct(s), NEW i \in DOMAIN s
  PROVE  {CutAt(s, i)[j] : j \in DOMAIN CutAt(s, i)} = {s[j] : j \in DOMAIN s} \ {s[i]}
<1> DEFINE c == CutAt(s, i)
<1>1. Len(s) \in Nat /\ DOMAIN s = 1 .. Len(s) /\ i \in 1 .. Len(s)
  OBVIOUS
<1>2. DOMAIN c = 1 .. Len(s) - 1 /\ \A j \in 1 .. Len(s) - 1 : c[j] = IF j < i THEN s[j] ELSE s[j + 1]
  BY DEF CutAt
<1> HIDE DEF c
<1>3. ASSUME NEW j \in DOMAIN c PROVE \E a \in DOMAIN s : c[j] = s[a] /\ s[a] # s[i]
  <2>1. CASE j < i
    BY <1>1, <1>2, <2>1 DEF Distinct
  <2>2. CASE ~ (j < i)
    <3>1. j + 1 \in DOMAIN s /\ j + 1 # i /\ c[j] = s[j + 1]
      BY <1>1, <1>2, <2>2
    <3> QED BY <3>1 DEF Distinct
  <2> QED BY <2>1, <2>2
<1>4. ASSUME NEW a \in DOMAIN s, s[a] # s[i] PROVE \E j \in DOMAIN c : c[j] = s[a]
  <2>1. CASE a < i
    <3>1. a \in DOMAIN c /\ c[a] = s[a]
      BY <1>1, <1>2, <2>1
    <3> QED BY <3>1
  <2>2. CASE a > i
    <3>1. a - 1 \in DOMAIN c /\ c[a - 1] = s[(a - 1) + 1] /\ (a - 1) + 1 = a
      BY <1>1, <1>2, <2>2
    <3> QED BY <3>1
  <2>3. a # i
    BY <1>4
  <2> QED BY <1>1, <2>1, <2>2, <2>3
<1> QED BY <1>3, <1>4 DEF c

LEMMA FrontRange ==
  ASSUME NEW s \in Seq(Keys), NEW k \in Keys
  PROVE  {InFront(k, s)[j] : j \in DOMAIN InFront(k, s)} = {s[j] : j \in DOMAIN s} \cup {k}
<1> DEFINE c == InFront(k, s)
<1>1. Len(s) \in Nat /\ DOMAIN s = 1 .. Len(s)
  OBVIOUS
<1>2. DOMAIN c = 1 .. Len(s) + 1 /\ \A j \in 1 .. Len(s) + 1 : c[j] = IF j = 1 THEN k ELSE s[j - 1]
  BY DEF InFront
<1> HIDE DEF c
<1>3. 1 \in DOMAIN c /\ c[1] = k
  BY <1>1, <1>2
<1>4. ASSUME NEW j \in DOMAIN c PROVE c[j] = k \/ \E a \in DOMAIN s : c[j] = s[a]
  <2>1. CASE j # 1
    <3>1. j - 1 \in DOMAIN s /\ c[j] = s[j - 1]
      BY <1>1, <1>2, <2>1
    <3> QED BY <3>1
  <2> QED BY <1>3, <2>1
<1>5. ASSUME NEW a \in DOMAIN s PROVE \E j \in DOMAIN c : c[j] = s[a]
  <2>1. a + 1 \in DOMAIN c /\ c[a + 1] = s[(a + 1) - 1] /\ (a + 1) - 1 = a
    BY <1>1, <1>2
  <2> QED BY <2>1
<1> QED BY <1>3, <1>4, <1>5 DEF c

(* A hit or an update moves its node to the front: _remove, _push_front.    *)
LEMMA MovedToFront ==
  ASSUME NEW s, CacheList(s, map, next, prev), NEW i \in DOMAIN s, MoveToFront(s[i])
  PROVE  CacheList(InFront(s[i], CutAt(s, i)), map, next', prev')
<1> DEFINE c == CutAt(s, i)
           U == Unlink(Pointers, s[i])
           f == InFront(s[i], c)
<1>1. ListOf(s, next, prev) /\ s \in Seq(Keys) /\ Distinct(s) /\ s[i] \in Keys
  BY DEF CacheList, ListOf
<1>2. ListOf(c, U.next, U.prev)
  BY <1>1, UnlinkCuts DEF Pointers
<1>3. c \in Seq(Keys) /\ Len(c) = Len(s) - 1
  BY <1>1, CutIsSequence
<1>4. {c[j] : j \in DOMAIN c} = map \ {s[i]}
  BY <1>1, CutRange DEF CacheList
<1>5. \A j \in DOMAIN c : c[j] # s[i]
  BY <1>4
<1>6. U = [next |-> U.next, prev |-> U.prev]
  BY DEF Unlink
<1>7. ListOf(f, next', prev')
  <2> DEFINE P == PushFront([next |-> U.next, prev |-> U.prev], s[i])
  <2>1. ListOf(f, P.next, P.prev)
    <3> HIDE DEF c, U
    <3> QED BY <1>1, <1>2, <1>5, PushFrontInserts
  <2>2. next' = P.next /\ prev' = P.prev
    BY <1>6 DEF MoveToFront, Link
  <2> QED BY <2>1, <2>2
<1>8. Len(f) = Len(s)
  BY <1>1, <1>3 DEF InFront
<1>9. {f[j] : j \in DOMAIN f} = map
  <2>1. {f[j] : j \in DOMAIN f} = {c[j] : j \in DOMAIN c} \cup {s[i]}
    BY <1>1, <1>3, FrontRange
  <2>2. s[i] \in map
    BY DEF CacheList
  <2> QED BY <1>4, <2>1, <2>2
<1> QED
  BY <1>7, <1>8, <1>9 DEF CacheList

(* A new node goes in front, and the list stays within the capacity.        *)
LEMMA InsertedInFront ==
  ASSUME NEW s, CacheList(s, map, next, prev), NEW k \in Keys, k \notin map
  PROVE  /\ ListOf(InFront(k, s), Added(k).list.next, Added(k).list.prev)
         /\ Len(InFront(k, s)) = Len(s) + 1
         /\ Added(k).map = {InFront(k, s)[j] : j \in DOMAIN InFront(k, s)}
         /\ IsFiniteSet(Added(k).map) /\ Cardinality(Added(k).map) = Len(s) + 1
<1> DEFINE f == InFront(k, s)
           P == PushFront(Pointers, k)
<1>1. /\ ListOf(s, next, prev) /\ s \in Seq(Keys) /\ Distinct(s)
      /\ map = {s[j] : j \in DOMAIN s} /\ IsFiniteSet(map) /\ Cardinality(map) = Len(s)
  BY DEF CacheList, ListOf
<1>2. \A j \in DOMAIN s : s[j] # k
  BY <1>1
<1>3. ListOf(f, P.next, P.prev)
  BY <1>1, <1>2, PushFrontInserts DEF Pointers
<1>4. Len(f) = Len(s) + 1
  BY <1>1, <1>2, FrontIsSequence
<1>5. {f[j] : j \in DOMAIN f} = map \cup {k}
  BY <1>1, FrontRange
<1>6. IsFiniteSet(map \cup {k}) /\ Cardinality(map \cup {k}) = Len(s) + 1
  BY <1>1, FS_AddElement
<1>7. Added(k).map = map \cup {k} /\ Added(k).list = P
  BY DEF Added
<1> HIDE DEF f, P
<1>8. QED BY <1>3, <1>4, <1>5, <1>6, <1>7 DEF f, P

LEMMA PutNewList ==
  ASSUME NEW s, CacheList(s, map, next, prev), NEW k \in Keys, NEW v \in Values, PutNew(k, v)
  PROVE  CacheList(InFront(k, s), map', next', prev') /\ Len(s) < CacheCapacity
<1>1. k \notin map /\ map' = Added(k).map /\ next' = Added(k).list.next /\ prev' = Added(k).list.prev
  BY DEF PutNew, Link
<1>2. ~ (Cardinality(Added(k).map) > CacheCapacity)
  BY DEF PutNew, Overfull
<1>3. Len(s) \in Nat /\ CacheCapacity \in Nat
  BY CacheAssumption DEF CacheList, ListOf
<1>4. Len(s) + 1 <= CacheCapacity
  BY <1>1, <1>2, <1>3, InsertedInFront
<1> QED
  BY <1>1, <1>3, <1>4, InsertedInFront DEF CacheList

(* The fields of a node that is not in the list do not matter.              *)
LEMMA ResetOutside ==
  ASSUME NEW s, NEW nx, NEW pv, ListOf(s, nx, pv), NEW n \in Keys, \A j \in DOMAIN s : s[j] # n
  PROVE  ListOf(s, [nx EXCEPT ![n] = Tail_], [pv EXCEPT ![n] = Head_])
<1> DEFINE nx2 == [nx EXCEPT ![n] = Tail_]
           pv2 == [pv EXCEPT ![n] = Head_]
           N(j) == NodeAt(s, j)
<1>1. s \in Seq(Keys) /\ Distinct(s) /\ nx \in PointerFns /\ pv \in PointerFns /\ Linked(s, nx, pv)
  BY DEF ListOf
<1>2. Len(s) \in Nat /\ \A j \in 0 .. Len(s) + 1 : N(j) \in NodeIds /\ N(j) # n
  BY <1>1, NodesDiffer, CacheAssumption DEF NodeAt
<1>3. n \in NodeIds /\ Tail_ \in NodeIds /\ Head_ \in NodeIds
  BY DEF NodeIds
<1> HIDE DEF N
<1>4. nx2 \in PointerFns /\ pv2 \in PointerFns
  BY <1>1, <1>3 DEF PointerFns
<1>5. \A j \in 0 .. Len(s) + 1 : nx2[N(j)] = nx[N(j)] /\ pv2[N(j)] = pv[N(j)]
  BY <1>1, <1>2 DEF PointerFns
<1> HIDE DEF nx2, pv2
<1>6. \A j \in 0 .. Len(s) : nx[N(j)] = N(j + 1) /\ pv[N(j + 1)] = N(j)
  BY <1>1 DEF Linked, N
<1>7. \A j \in 0 .. Len(s) : nx2[N(j)] = N(j + 1) /\ pv2[N(j + 1)] = N(j)
  BY <1>2, <1>5, <1>6
<1>8. Linked(s, nx2, pv2)
  BY <1>7 DEF Linked, N
<1> QED BY <1>1, <1>4, <1>8 DEF ListOf, nx2, pv2

(* An insertion into a full cache takes out the last node, which is not the *)
(* new one, and leaves the others as they were.                             *)
LEMMA PutEvictList ==
  ASSUME NEW s, CacheList(s, map, next, prev), NEW k \in Keys, NEW v \in Values, PutEvict(k, v)
  PROVE  /\ CacheList(CutAt(InFront(k, s), Len(s) + 1), map', next', prev')
         /\ Len(s) = CacheCapacity
         /\ s[Len(s)] # k /\ s[Len(s)] \in Keys
         /\ value' = [value EXCEPT ![k] = v, ![s[Len(s)]] = NoValue]
<1> DEFINE f == InFront(k, s)
           L == Added(k).list
           lru == s[Len(s)]
           c == CutAt(f, Len(s) + 1)
           R == Unlink(L, lru)
<1>1. s \in Seq(Keys) /\ Len(s) \in Nat /\ CacheCapacity \in Nat \ {0} /\ Len(s) <= CacheCapacity
  BY CacheAssumption DEF CacheList, ListOf
<1>2. k \notin map /\ Cardinality(Added(k).map) > CacheCapacity
  BY DEF PutEvict, Overfull
<1>3. /\ ListOf(f, L.next, L.prev) /\ Len(f) = Len(s) + 1
      /\ Added(k).map = {f[j] : j \in DOMAIN f}
      /\ IsFiniteSet(Added(k).map) /\ Cardinality(Added(k).map) = Len(s) + 1
  BY <1>2, InsertedInFront
<1>4. Len(s) = CacheCapacity /\ Len(s) >= 1
  BY <1>1, <1>2, <1>3
<1>5. f \in Seq(Keys) /\ Distinct(f) /\ Linked(f, L.next, L.prev)
  BY <1>3 DEF ListOf
<1>6. DOMAIN f = 1 .. Len(s) + 1 /\ f[1] = k /\ f[Len(s) + 1] = lru /\ lru \in Keys
  BY <1>1, <1>4 DEF InFront
<1> HIDE DEF f
<1>7. lru # k
  BY <1>4, <1>5, <1>6, <1>1 DEF Distinct
<1>8. Victim(L) = lru
  <2>1. L.prev[NodeAt(f, Len(f) + 1)] = NodeAt(f, Len(f))
    BY <1>1, <1>3, <1>5 DEF Linked
  <2>2. NodeAt(f, Len(f) + 1) = Tail_ /\ NodeAt(f, Len(f)) = f[Len(f)]
    BY <1>1, <1>3 DEF NodeAt
  <2> QED BY <1>3, <1>6, <2>1, <2>2 DEF Victim
<1>9. L = [next |-> L.next, prev |-> L.prev]
  BY DEF Added, PushFront
<1>10. Len(s) + 1 \in DOMAIN f
  BY <1>1, <1>6
<1>11. ListOf(c, R.next, R.prev)
  <2> DEFINE M == [next |-> L.next, prev |-> L.prev]
  <2>1. ListOf(c, Unlink(M, lru).next, Unlink(M, lru).prev)
    <3> HIDE DEF L, lru
    <3> QED BY <1>3, <1>6, <1>10, UnlinkCuts
  <2>2. M = L
    BY <1>9
  <2> HIDE DEF M, L, lru, c
  <2> QED BY <2>1, <2>2
<1>12. /\ c \in Seq(Keys) /\ Len(c) = Len(s)
       /\ {c[j] : j \in DOMAIN c} = {f[j] : j \in DOMAIN f} \ {lru}
  <2>1. c \in Seq(Keys) /\ Len(c) = Len(f) - 1
    BY <1>5, <1>10, CutIsSequence
  <2>2. {c[j] : j \in DOMAIN c} = {f[j] : j \in DOMAIN f} \ {f[Len(s) + 1]}
    BY <1>5, <1>10, CutRange
  <2>3. Len(f) = Len(s) + 1 /\ Len(s) \in Nat
    BY <1>1, <1>3
  <2>4. f[Len(s) + 1] = lru
    BY <1>6
  <2> HIDE DEF c, lru
  <2>5. Len(c) = Len(s)
    BY <2>1, <2>3
  <2>6. {c[j] : j \in DOMAIN c} = {f[j] : j \in DOMAIN f} \ {lru}
    BY <2>2, <2>4
  <2> QED BY <2>1, <2>5, <2>6
<1>13. /\ map' = Added(k).map \ {lru}
       /\ next' = [R.next EXCEPT ![lru] = Tail_]
       /\ prev' = [R.prev EXCEPT ![lru] = Head_]
       /\ value' = [value EXCEPT ![k] = v, ![lru] = NoValue]
  <2> HIDE DEF L, lru
  <2> QED BY <1>8 DEF PutEvict, L
<1>14. ListOf(c, next', prev')
  <2>1. \A j \in DOMAIN c : c[j] # lru
    BY <1>12
  <2> HIDE DEF c, R, lru
  <2> QED BY <1>6, <1>11, <1>13, <2>1, ResetOutside
<1>15. IsFiniteSet(map') /\ Cardinality(map') = Len(s)
  <2>1. lru \in Added(k).map
    BY <1>3, <1>6, <1>10
  <2> DEFINE A == Added(k).map
  <2>2. map' = A \ {lru}
    BY <1>13
  <2>3. IsFiniteSet(A) /\ Cardinality(A) = Len(s) + 1 /\ lru \in A
    BY <1>3, <2>1
  <2> HIDE DEF A, lru
  <2>4. IsFiniteSet(A \ {lru}) /\ Cardinality(A \ {lru}) = Cardinality(A) - 1
    BY <2>3, FS_RemoveElement
  <2> QED BY <1>1, <2>2, <2>3, <2>4
<1>16. map' = {c[j] : j \in DOMAIN c}
  BY <1>3, <1>12, <1>13
<1>17. CacheList(c, map', next', prev')
  <2> HIDE DEF c
  <2> QED BY <1>1, <1>12, <1>14, <1>15, <1>16 DEF CacheList
<1> QED
  BY <1>4, <1>6, <1>7, <1>13, <1>17 DEF f

-----------------------------------------------------------------------------
(* lru_cache.py: the entries in their order of use.                         *)

OrderOf(s, val) == [j \in DOMAIN s |-> <<s[j], val[s[j]]>>]

(* o2 is o with its j-th entry replaced by e and moved to the front, or     *)
(* with e inserted.                                                         *)
Moved(o, o2, e, j) ==
  o2 = [i \in DOMAIN o |-> IF i = 1 THEN e ELSE IF i <= j THEN o[i - 1] ELSE o[i]]
Entered(o, o2, e) ==
  o2 = [i \in 1 .. (IF Len(o) < CacheCapacity THEN Len(o) + 1 ELSE CacheCapacity) |->
          IF i = 1 THEN e ELSE o[i - 1]]

LEMMA OrderMoved ==
  ASSUME NEW s \in Seq(Keys), Distinct(s), NEW i \in DOMAIN s, NEW old, NEW new,
         \A j \in DOMAIN s : j # i => new[s[j]] = old[s[j]]
  PROVE  Moved(OrderOf(s, old), OrderOf(InFront(s[i], CutAt(s, i)), new), <<s[i], new[s[i]]>>, i)
<1> DEFINE f == InFront(s[i], CutAt(s, i))
           o == OrderOf(s, old)
           e == <<s[i], new[s[i]]>>
           g == [a \in DOMAIN o |-> IF a = 1 THEN e ELSE IF a <= i THEN o[a - 1] ELSE o[a]]
<1>1. Len(s) \in Nat /\ i \in 1 .. Len(s) /\ DOMAIN s = 1 .. Len(s)
  OBVIOUS
<1>2. Len(CutAt(s, i)) = Len(s) - 1
  BY CutIsSequence
<1>3. /\ DOMAIN f = 1 .. Len(s)
      /\ \A a \in 1 .. Len(s) : f[a] = IF a = 1 THEN s[i] ELSE CutAt(s, i)[a - 1]
  BY <1>1, <1>2 DEF InFront
<1>4. \A a \in 1 .. Len(s) : a # 1 => CutAt(s, i)[a - 1] = IF a <= i THEN s[a - 1] ELSE s[a]
  BY <1>1 DEF CutAt
<1>5. DOMAIN o = 1 .. Len(s) /\ \A a \in 1 .. Len(s) : o[a] = <<s[a], old[s[a]]>>
  BY <1>1 DEF OrderOf
<1>6. \A a \in 1 .. Len(s) : a # i => <<s[a], new[s[a]]>> = o[a]
  BY <1>1, <1>5
<1> HIDE DEF f, o
<1>7. ASSUME NEW a \in 1 .. Len(s) PROVE <<f[a], new[f[a]]>> = g[a]
  <2>1. CASE a = 1
    BY <1>1, <1>3, <1>5, <2>1
  <2>2. CASE a # 1 /\ a <= i
    <3>1. a - 1 \in 1 .. Len(s) /\ a - 1 # i /\ f[a] = s[a - 1]
      BY <1>1, <1>3, <1>4, <2>2
    <3>2. g[a] = o[a - 1]
      BY <1>1, <1>5, <2>2
    <3> QED BY <1>6, <3>1, <3>2
  <2>3. CASE a # 1 /\ ~ (a <= i)
    <3>1. a # i /\ f[a] = s[a]
      BY <1>1, <1>3, <1>4, <2>3
    <3>2. g[a] = o[a]
      BY <1>1, <1>5, <2>3
    <3> QED BY <1>6, <3>1, <3>2
  <2> QED BY <2>1, <2>2, <2>3
<1>8. OrderOf(f, new) = [a \in 1 .. Len(s) |-> <<f[a], new[f[a]]>>]
  BY <1>3 DEF OrderOf
<1>9. g = [a \in 1 .. Len(s) |-> g[a]]
  BY <1>5
<1> HIDE DEF g
<1>10. OrderOf(f, new) = g
  BY <1>7, <1>8, <1>9
<1> QED
  BY <1>10 DEF Moved, f, o, g

LEMMA OrderEntered ==
  ASSUME NEW s \in Seq(Keys), NEW k \in Keys, NEW old, NEW new, NEW n \in Nat,
         n = (IF Len(s) < CacheCapacity THEN Len(s) + 1 ELSE CacheCapacity),
         n <= Len(s) + 1, NEW f, DOMAIN f = 1 .. n,
         \A j \in 1 .. n : f[j] = IF j = 1 THEN k ELSE s[j - 1],
         \A j \in 1 .. n : j # 1 => new[s[j - 1]] = old[s[j - 1]]
  PROVE  Entered(OrderOf(s, old), OrderOf(f, new), <<k, new[k]>>)
<1> DEFINE o == OrderOf(s, old)
           e == <<k, new[k]>>
<1>1. Len(s) \in Nat /\ DOMAIN s = 1 .. Len(s)
  OBVIOUS
<1>2. o \in Seq(Keys \X {old[s[j]] : j \in DOMAIN s}) /\ Len(o) = Len(s)
  BY <1>1 DEF OrderOf
<1>3. \A a \in 1 .. Len(s) : o[a] = <<s[a], old[s[a]]>>
  BY <1>1 DEF OrderOf
<1> HIDE DEF o
<1>4. ASSUME NEW a \in 1 .. n PROVE <<f[a], new[f[a]]>> = IF a = 1 THEN e ELSE o[a - 1]
  <2>1. CASE a = 1
    BY <2>1
  <2>2. CASE a # 1
    <3>1. a - 1 \in 1 .. Len(s) /\ f[a] = s[a - 1] /\ new[s[a - 1]] = old[s[a - 1]]
      BY <1>1, <2>2
    <3> QED BY <1>3, <2>2, <3>1
  <2> QED BY <2>1, <2>2
<1>5. OrderOf(f, new) = [a \in 1 .. n |-> <<f[a], new[f[a]]>>]
  BY DEF OrderOf
<1>6. OrderOf(f, new) = [a \in 1 .. n |-> IF a = 1 THEN e ELSE o[a - 1]]
  BY <1>4, <1>5
<1> QED
  BY <1>2, <1>6 DEF Entered, o

(* Every call keeps the list and the dictionary in step, and does to the    *)
(* order of the entries what the abstract cache does.                       *)
Touched(o, o2, c, k) ==
  \E j \in DOMAIN o : o[j][1] = k /\ Moved(o, o2, o[j], j) /\ c = <<"get", k, o[j][2]>>

Absent(o, o2, c, k) ==
  (\A j \in DOMAIN o : o[j][1] # k) /\ o2 = o /\ c = <<"get", k, NoValue>>

StoredAt(o, o2, c, k, v) ==
  /\ \/ \E j \in DOMAIN o : o[j][1] = k /\ Moved(o, o2, <<k, v>>, j)
     \/ (\A j \in DOMAIN o : o[j][1] # k) /\ Entered(o, o2, <<k, v>>)
  /\ c = <<"put", k, v>>

CallOf(o, o2, c) ==
  \E k \in Keys :
    Touched(o, o2, c, k) \/ Absent(o, o2, c, k) \/ \E v \in Values : StoredAt(o, o2, c, k, v)

LEMMA MoveFollows ==
  ASSUME NEW s, CacheList(s, map, next, prev), NEW k \in Keys, k \in map, MoveToFront(k),
         map' = map, \A j \in map \ {k} : value'[j] = value[j]
  PROVE  \E s2 \in Seq(Keys) :
           /\ CacheList(s2, map', next', prev')
           /\ \E i \in DOMAIN s : s[i] = k /\ Moved(OrderOf(s, value), OrderOf(s2, value'), <<k, value'[k]>>, i)
<1>1. s \in Seq(Keys) /\ Distinct(s) /\ map = {s[j] : j \in DOMAIN s}
  BY DEF CacheList, ListOf
<1>2. PICK i \in DOMAIN s : s[i] = k
  BY <1>1
<1> DEFINE s2 == InFront(s[i], CutAt(s, i))
<1>3. CacheList(s2, map', next', prev')
  BY <1>2, MovedToFront
<1>4. \A j \in DOMAIN s : j # i => value'[s[j]] = value[s[j]]
  BY <1>1, <1>2 DEF Distinct
<1>5. Moved(OrderOf(s, value), OrderOf(s2, value'), <<s[i], value'[s[i]]>>, i)
  BY <1>1, <1>4, OrderMoved
<1>6. s2 \in Seq(Keys)
  BY <1>3 DEF CacheList, ListOf
<1> HIDE DEF s2
<1> QED BY <1>2, <1>3, <1>5, <1>6

LEMMA CallFollows ==
  ASSUME CacheInv, NEW s, CacheList(s, map, next, prev), CacheNext
  PROVE  \E s2 \in Seq(Keys) :
           /\ CacheList(s2, map', next', prev')
           /\ CallOf(OrderOf(s, value), OrderOf(s2, value'), call')
<1> DEFINE o == OrderOf(s, value)
<1>1. /\ s \in Seq(Keys) /\ Distinct(s) /\ map = {s[j] : j \in DOMAIN s}
      /\ Len(s) \in Nat /\ DOMAIN s = 1 .. Len(s) /\ Len(s) <= CacheCapacity /\ CacheCapacity \in Nat
  BY CacheAssumption DEF CacheList, ListOf
<1>2. /\ DOMAIN o = DOMAIN s /\ \A j \in DOMAIN s : o[j] = <<s[j], value[s[j]]>> /\ o[j][1] = s[j]
  BY DEF OrderOf
<1> HIDE DEF o
<1>3. value \in [Keys -> Values \cup {NoValue}] /\ map \subseteq Keys
  BY <1>1 DEF CacheInv
<1>4. ASSUME NEW k \in Keys, GetHit(k)
      PROVE  \E s2 \in Seq(Keys) : CacheList(s2, map', next', prev') /\ CallOf(o, OrderOf(s2, value'), call')
  <2>1. /\ k \in map /\ MoveToFront(k) /\ map' = map /\ value' = value
        /\ call' = <<"get", k, value[k]>>
    BY <1>4 DEF GetHit
  <2>2. PICK s2 \in Seq(Keys) :
           /\ CacheList(s2, map', next', prev')
           /\ \E i \in DOMAIN s : s[i] = k /\ Moved(o, OrderOf(s2, value'), <<k, value'[k]>>, i)
    BY <1>4, <2>1, MoveFollows DEF o
  <2>3. PICK i \in DOMAIN s : s[i] = k /\ Moved(o, OrderOf(s2, value'), <<k, value'[k]>>, i)
    BY <2>2
  <2>4. o[i] = <<k, value'[k]>> /\ o[i][1] = k /\ o[i][2] = value[k] /\ i \in DOMAIN o
    BY <1>2, <2>1, <2>3
  <2>5. CallOf(o, OrderOf(s2, value'), call')
    <3>1. Moved(o, OrderOf(s2, value'), o[i], i) /\ call' = <<"get", k, o[i][2]>>
      BY <2>1, <2>3, <2>4
    <3>2. Touched(o, OrderOf(s2, value'), call', k)
      BY <2>4, <3>1 DEF Touched
    <3> QED BY <3>2 DEF CallOf
  <2> QED BY <2>2, <2>5
<1>5. ASSUME NEW k \in Keys, NEW v \in Values, PutExisting(k, v)
      PROVE  \E s2 \in Seq(Keys) : CacheList(s2, map', next', prev') /\ CallOf(o, OrderOf(s2, value'), call')
  <2>1. k \in map /\ MoveToFront(k) /\ map' = map /\ call' = <<"put", k, v>>
    BY <1>5 DEF PutExisting
  <2>2. value'[k] = v /\ \A j \in map \ {k} : value'[j] = value[j]
    BY <1>3, <1>5 DEF PutExisting
  <2>3. PICK s2 \in Seq(Keys) :
           /\ CacheList(s2, map', next', prev')
           /\ \E i \in DOMAIN s : s[i] = k /\ Moved(o, OrderOf(s2, value'), <<k, value'[k]>>, i)
    BY <2>1, <2>2, MoveFollows DEF o
  <2>4. PICK i \in DOMAIN s : s[i] = k /\ Moved(o, OrderOf(s2, value'), <<k, value'[k]>>, i)
    BY <2>3
  <2>5. CallOf(o, OrderOf(s2, value'), call')
    <3>1. i \in DOMAIN o /\ o[i][1] = k /\ Moved(o, OrderOf(s2, value'), <<k, v>>, i)
      BY <1>2, <2>2, <2>4
    <3>2. StoredAt(o, OrderOf(s2, value'), call', k, v)
      BY <2>1, <3>1 DEF StoredAt
    <3> QED BY <3>2 DEF CallOf
  <2> QED BY <2>3, <2>5
<1>6. ASSUME NEW k \in Keys, NEW v \in Values, PutNew(k, v)
      PROVE  \E s2 \in Seq(Keys) : CacheList(s2, map', next', prev') /\ CallOf(o, OrderOf(s2, value'), call')
  <2> DEFINE f == InFront(k, s)
             n == Len(s) + 1
  <2>1. CacheList(f, map', next', prev') /\ Len(s) < CacheCapacity
    BY <1>6, PutNewList
  <2>2. k \notin map /\ value' = [value EXCEPT ![k] = v] /\ call' = <<"put", k, v>>
    BY <1>6 DEF PutNew
  <2>3. \A j \in DOMAIN s : s[j] # k
    BY <1>1, <2>2
  <2>4. value'[k] = v /\ \A j \in DOMAIN s : value'[s[j]] = value[s[j]]
    BY <1>1, <1>3, <2>2, <2>3
  <2>5. /\ n \in Nat /\ n = (IF Len(s) < CacheCapacity THEN Len(s) + 1 ELSE CacheCapacity)
        /\ DOMAIN f = 1 .. n /\ \A j \in 1 .. n : f[j] = IF j = 1 THEN k ELSE s[j - 1]
        /\ \A j \in 1 .. n : j # 1 => j - 1 \in DOMAIN s
    BY <1>1, <2>1 DEF InFront
  <2>9. n <= Len(s) + 1
    BY <1>1
  <2> HIDE DEF f, n
  <2>6. Entered(o, OrderOf(f, value'), <<k, value'[k]>>)
    BY <1>1, <2>4, <2>5, <2>9, OrderEntered, ZenonT(30) DEF o
  <2>7. CallOf(o, OrderOf(f, value'), call')
    <3>1. StoredAt(o, OrderOf(f, value'), call', k, v)
      BY <1>2, <2>2, <2>3, <2>4, <2>6 DEF StoredAt
    <3> QED BY <3>1 DEF CallOf
  <2>8. f \in Seq(Keys)
    BY <2>1 DEF CacheList, ListOf
  <2> QED BY <2>1, <2>7, <2>8
<1>7. ASSUME NEW k \in Keys, NEW v \in Values, PutEvict(k, v)
      PROVE  \E s2 \in Seq(Keys) : CacheList(s2, map', next', prev') /\ CallOf(o, OrderOf(s2, value'), call')
  <2> DEFINE f == CutAt(InFront(k, s), Len(s) + 1)
             n == Len(s)
             lru == s[Len(s)]
  <2>1. /\ CacheList(f, map', next', prev') /\ Len(s) = CacheCapacity
        /\ lru # k /\ lru \in Keys
        /\ value' = [value EXCEPT ![k] = v, ![lru] = NoValue]
    BY <1>7, PutEvictList
  <2>2. k \notin map /\ call' = <<"put", k, v>>
    BY <1>7 DEF PutEvict
  <2>3. \A j \in DOMAIN s : s[j] # k /\ s[j] \in Keys
    BY <1>1, <2>2
  <2>4. \A j \in DOMAIN s : j # n => s[j] # lru
    BY <1>1 DEF Distinct
  <2>5. value'[k] = v /\ \A j \in DOMAIN s : j # n => value'[s[j]] = value[s[j]]
    <3> HIDE DEF lru
    <3> QED BY <1>3, <2>1, <2>3, <2>4
  <2>6. /\ DOMAIN InFront(k, s) = 1 .. n + 1 /\ Len(InFront(k, s)) = n + 1
        /\ \A j \in 1 .. n + 1 : InFront(k, s)[j] = IF j = 1 THEN k ELSE s[j - 1]
    BY <1>1 DEF InFront
  <2>7. DOMAIN f = 1 .. n /\ \A j \in 1 .. n : f[j] = IF j = 1 THEN k ELSE s[j - 1]
    BY <1>1, <2>6 DEF CutAt
  <2>8. /\ n \in Nat /\ n = (IF Len(s) < CacheCapacity THEN Len(s) + 1 ELSE CacheCapacity)
        /\ n <= Len(s) + 1
        /\ \A j \in 1 .. n : j # 1 => j - 1 \in DOMAIN s /\ j - 1 # n
    BY <1>1, <2>1
  <2> HIDE DEF f, n
  <2>9. Entered(o, OrderOf(f, value'), <<k, value'[k]>>)
    BY <1>1, <2>5, <2>7, <2>8, OrderEntered, ZenonT(30) DEF o
  <2>10. CallOf(o, OrderOf(f, value'), call')
    <3>1. StoredAt(o, OrderOf(f, value'), call', k, v)
      BY <1>2, <2>2, <2>3, <2>5, <2>9 DEF StoredAt
    <3> QED BY <3>1 DEF CallOf
  <2>11. f \in Seq(Keys)
    BY <2>1 DEF CacheList, ListOf
  <2> QED BY <2>1, <2>10, <2>11
<1>8. ASSUME NEW k \in Keys, GetMiss(k)
      PROVE  \E s2 \in Seq(Keys) : CacheList(s2, map', next', prev') /\ CallOf(o, OrderOf(s2, value'), call')
  <2>1. k \notin map /\ call' = <<"get", k, NoValue>>
    BY <1>8 DEF GetMiss
  <2>2. map' = map /\ value' = value /\ next' = next /\ prev' = prev
    BY <1>8 DEF GetMiss, list
  <2>3. CacheList(s, map', next', prev') /\ OrderOf(s, value') = o
    BY <2>2 DEF o
  <2>4. Absent(o, OrderOf(s, value'), call', k)
    BY <1>1, <1>2, <2>1, <2>3 DEF Absent
  <2>5. CallOf(o, OrderOf(s, value'), call')
    BY <2>4 DEF CallOf
  <2> QED BY <1>1, <2>3, <2>5
<1> QED
  BY <1>4, <1>5, <1>6, <1>7, <1>8 DEF CacheNext, o

LEMMA CacheInitInv == CacheInit => CacheInv /\ CacheList(<< >>, map, next, prev)
<1> SUFFICES ASSUME CacheInit PROVE CacheInv /\ CacheList(<< >>, map, next, prev)
  OBVIOUS
<1>1. next \in PointerFns /\ prev \in PointerFns /\ next[Head_] = Tail_ /\ prev[Tail_] = Head_
  BY DEF CacheInit, PointerFns, NodeIds
<1>2. << >> \in Seq(Keys) /\ Len(<< >>) = 0 /\ DOMAIN << >> = {} /\ Distinct(<< >>)
  BY DEF Distinct
<1>3. Linked(<< >>, next, prev)
  BY <1>1, <1>2 DEF Linked, NodeAt
<1>4. IsFiniteSet(map) /\ Cardinality(map) = 0 /\ map = {}
  BY FS_EmptySet DEF CacheInit
<1>5. CacheList(<< >>, map, next, prev)
  BY <1>1, <1>2, <1>3, <1>4, CacheAssumption DEF CacheList, ListOf
<1>6. value \in [Keys -> Values \cup {NoValue}]
  BY DEF CacheInit
<1> QED
  BY <1>2, <1>4, <1>5, <1>6 DEF CacheInv

LEMMA CacheNextInv == CacheInv /\ [CacheNext]_cacheVars => CacheInv'
<1> SUFFICES ASSUME CacheInv, [CacheNext]_cacheVars PROVE CacheInv'
  OBVIOUS
<1>1. CASE UNCHANGED list
  <2>1. map' = map /\ value' = value /\ next' = next /\ prev' = prev
    BY <1>1 DEF list
  <2> QED BY <2>1 DEF CacheInv
<1>2. CASE CacheNext /\ ~ UNCHANGED list
  <2>1. PICK s \in Seq(Keys) : CacheList(s, map, next, prev)
    BY DEF CacheInv
  <2>2. \E s2 \in Seq(Keys) : CacheList(s2, map', next', prev')
    BY <1>2, <2>1, CallFollows
  <2>3. map \subseteq Keys
    BY <2>1 DEF CacheList, ListOf
  <2>4. value' \in [Keys -> Values \cup {NoValue}]
    BY <1>2, <2>3 DEF CacheNext, CacheInv, GetHit, GetMiss, PutExisting, PutNew, PutEvict
  <2>5. \A j \in map' : value'[j] \in Values
    <3>1. ASSUME NEW k \in Keys, GetHit(k) PROVE \A j \in map' : value'[j] \in Values
      BY <3>1 DEF CacheInv, GetHit
    <3>2. ASSUME NEW k \in Keys, NEW v \in Values, PutExisting(k, v)
          PROVE  \A j \in map' : value'[j] \in Values
      BY <2>3, <3>2 DEF CacheInv, PutExisting
    <3>3. ASSUME NEW k \in Keys, NEW v \in Values, PutNew(k, v)
          PROVE  \A j \in map' : value'[j] \in Values
      BY <2>3, <3>3 DEF CacheInv, PutNew, Added
    <3>4. ASSUME NEW k \in Keys, NEW v \in Values, PutEvict(k, v)
          PROVE  \A j \in map' : value'[j] \in Values
      <4> DEFINE lru == Victim(Added(k).list)
      <4>1. map' = (map \cup {k}) \ {lru} /\ value' = [value EXCEPT ![k] = v, ![lru] = NoValue]
        BY <3>4 DEF PutEvict, Added
      <4> HIDE DEF lru
      <4> QED BY <2>3, <4>1 DEF CacheInv
    <3>5. ASSUME NEW k \in Keys, GetMiss(k) PROVE FALSE
      BY <1>2, <3>5 DEF GetMiss
    <3> QED BY <1>2, <3>1, <3>2, <3>3, <3>4, <3>5 DEF CacheNext
  <2> QED BY <2>2, <2>4, <2>5 DEF CacheInv
<1> QED
  BY <1>1, <1>2 DEF cacheVars

(* The key invariant of the demo (lines 173-183): the list and the          *)
(* dictionary never come apart, in either direction, and the size stays     *)
(* within the capacity.                                                     *)
CacheConsistent ==
  /\ Cardinality(map) <= CacheCapacity
  /\ \E s \in Seq(Keys) :
       /\ Len(s) = Cardinality(map) /\ map = {s[j] : j \in DOMAIN s}
       /\ Linked(s, next, prev)

(* get() and put() of lru_cache.py keep the dictionary and the doubly       *)
(* linked list in step: the same entries, linked both ways from sentinel to *)
(* sentinel, and no more of them than the capacity.                         *)
THEOREM CacheConsistency == CacheSpec => []CacheConsistent
<1>1. CacheInit => CacheInv
  BY CacheInitInv
<1>2. CacheInv => CacheConsistent
  BY DEF CacheInv, CacheList, ListOf, CacheConsistent
<1> QED
  BY <1>1, <1>2, CacheNextInv, PTL DEF CacheSpec

(* The mapping's order is the list with its values.                         *)
LEMMA WalkIsList ==
  ASSUME NEW s, CacheList(s, map, next, prev)
  PROVE  s = Walk
BY WalkGivesList DEF Walk

LEMMA WalkIsListNext ==
  ASSUME NEW s, CacheList(s, map', next', prev')
  PROVE  s = Walk'
BY WalkGivesList DEF Walk

LEMMA CacheStepRefines ==
  ASSUME CacheInv, [CacheNext]_cacheVars
  PROVE  [Abstract!Next]_<<[j \in DOMAIN Walk |-> <<Walk[j], value[Walk[j]]>>], call>>
<1> DEFINE o == [j \in DOMAIN Walk |-> <<Walk[j], value[Walk[j]]>>]
<1>1. PICK s \in Seq(Keys) : CacheList(s, map, next, prev)
  BY DEF CacheInv
<1>2. o = OrderOf(s, value)
  BY <1>1, WalkIsList DEF OrderOf
<1>3. CASE UNCHANGED cacheVars
  <2>1. map' = map /\ value' = value /\ next' = next /\ call' = call
    BY <1>3 DEF cacheVars, list
  <2>2. Walk' = Walk
    BY <2>1 DEF Walk
  <2>3. o' = o
    BY <2>1, <2>2
  <2> QED BY <2>1, <2>3
<1>4. CASE CacheNext
  <2>1. PICK s2 \in Seq(Keys) :
          /\ CacheList(s2, map', next', prev')
          /\ CallOf(OrderOf(s, value), OrderOf(s2, value'), call')
    BY <1>1, <1>4, CallFollows
  <2>2. o' = OrderOf(s2, value')
    BY <2>1, WalkIsListNext DEF OrderOf
  <2>3. CallOf(o, o', call')
    BY <1>2, <2>1, <2>2
  <2>4. /\ \A k : Abstract!At(k) = {j \in DOMAIN o : o[j][1] = k}
        /\ \A e, j : Moved(o, o', e, j) <=> o' = Abstract!ToFront(e, j)
        /\ \A e : Entered(o, o', e) <=> o' = Abstract!Inserted(e)
    BY DEF Moved, Entered, Abstract!At, Abstract!ToFront, Abstract!Inserted
  <2>5. /\ \A k : Abstract!Hit(k) <=> \E j \in Abstract!At(k) :
                    o' = Abstract!ToFront(o[j], j) /\ call' = <<"get", k, o[j][2]>>
        /\ \A k : Abstract!Miss(k) <=> Abstract!At(k) = {} /\ o' = o /\ call' = <<"get", k, NoValue>>
        /\ \A k, v : Abstract!Store(k, v) <=>
             /\ \/ \E j \in Abstract!At(k) : o' = Abstract!ToFront(<<k, v>>, j)
                \/ Abstract!At(k) = {} /\ o' = Abstract!Inserted(<<k, v>>)
             /\ call' = <<"put", k, v>>
    BY DEF Abstract!Hit, Abstract!Miss, Abstract!Store
  <2> HIDE DEF o
  <2>6. \E k \in Keys : Abstract!Hit(k) \/ Abstract!Miss(k) \/ \E v \in Values : Abstract!Store(k, v)
    <3> DEFINE p == o'
    <3>1. PICK k \in Keys :
            Touched(o, p, call', k) \/ Absent(o, p, call', k) \/ \E v \in Values : StoredAt(o, p, call', k, v)
      BY <2>3 DEF CallOf
    <3>2. CASE Touched(o, p, call', k)
      <4>1. PICK j \in DOMAIN o : o[j][1] = k /\ Moved(o, p, o[j], j) /\ call' = <<"get", k, o[j][2]>>
        BY <3>2 DEF Touched
      <4>2. j \in Abstract!At(k) /\ o' = Abstract!ToFront(o[j], j)
        BY <2>4, <4>1
      <4> QED BY <2>5, <4>1, <4>2
    <3>3. CASE Absent(o, p, call', k)
      <4>1. Abstract!At(k) = {} /\ o' = o /\ call' = <<"get", k, NoValue>>
        BY <2>4, <3>3 DEF Absent
      <4> QED BY <2>5, <4>1
    <3>4. ASSUME NEW v \in Values, StoredAt(o, p, call', k, v) PROVE Abstract!Store(k, v)
      <4>1. \/ \E j \in Abstract!At(k) : o' = Abstract!ToFront(<<k, v>>, j)
            \/ Abstract!At(k) = {} /\ o' = Abstract!Inserted(<<k, v>>)
        <5>1. CASE \E j \in DOMAIN o : o[j][1] = k /\ Moved(o, p, <<k, v>>, j)
          BY <2>4, <5>1
        <5>2. CASE (\A j \in DOMAIN o : o[j][1] # k) /\ Entered(o, p, <<k, v>>)
          BY <2>4, <5>2
        <5> QED BY <3>4, <5>1, <5>2 DEF StoredAt
      <4>2. call' = <<"put", k, v>>
        BY <3>4 DEF StoredAt
      <4> QED BY <2>5, <4>1, <4>2
    <3> QED BY <3>1, <3>2, <3>3, <3>4
  <2>7. Abstract!Next
    BY <2>6 DEF Abstract!Next
  <2> QED BY <2>7
<1> QED
  BY <1>3, <1>4

(* lru_cache.py's dictionary and pointers (_remove, _push_front, and the    *)
(* eviction of the node before the tail) implement the order of last use of *)
(* LRUSpec call by call: a get() of a cached key returns its value and      *)
(* moves that entry to the front, a get() of another moves nothing, and the *)
(* entry that put() evicts is the one that was not used for longest.        *)
THEOREM CacheRefinement == CacheSpec => ImplementsLRU
<1>1. CacheInit => Abstract!Init
  <2>1. ASSUME CacheInit PROVE [j \in DOMAIN Walk |-> <<Walk[j], value[Walk[j]]>>] = << >>
    <3>1. Walk = << >>
      BY <2>1, CacheInitInv, WalkIsList
    <3> QED BY <3>1
  <2> QED BY <2>1 DEF Abstract!Init, CacheInit
<1>2. CacheInit => CacheInv
  BY CacheInitInv
<1>3. CacheInv /\ [CacheNext]_cacheVars =>
        [Abstract!Next]_<<[j \in DOMAIN Walk |-> <<Walk[j], value[Walk[j]]>>], call>>
  BY CacheStepRefines
<1> QED
  BY <1>1, <1>2, <1>3, CacheNextInv, PTL DEF CacheSpec, ImplementsLRU, Abstract!Spec
=============================================================================
