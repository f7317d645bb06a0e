--------------------------- MODULE ConsistentHash ---------------------------
(***************************************************************************)
(* ConsistentHashRing of consistent_hash.py.  `slot' is the hash of the    *)
(* virtual node labels, fixed for a run and chosen from Hashes, so that    *)
(* one model covers every hash function on a small ring, with or without   *)
(* collisions.  get_node() depends on a key only through its position:     *)
(* the properties quantify over all positions, which is over all keys.     *)
(* _sorted_keys is a sorted list, that is, a multiset of positions: keys[p] *)
(* is how often p occurs in it.                                            *)
(***************************************************************************)
EXTENDS Integers, FiniteSets, FiniteSetsExt

CONSTANTS
  Nodes,      \* the physical nodes
  VNodes,     \* self.vnodes
  RingSize,   \* 2^32 in the code: positions are 0 .. RingSize - 1
  Hashes,     \* the hash functions on virtual node labels to consider
  None,       \* no node
  KeyError    \* the exception a lookup ends in

Pos == 0 .. RingSize - 1
Replicas == 0 .. VNodes - 1

ASSUME RingAssumption ==
  /\ VNodes \in Nat \ {0} /\ RingSize \in Nat \ {0}
  /\ Hashes \subseteq [Nodes -> [Replicas -> Pos]]
  /\ None \notin Nodes /\ KeyError \notin Nodes \cup {None}

\* No two virtual nodes share a position.
Injective(h) ==
  \A m, n \in Nodes : \A k, l \in Replicas : h[m][k] = h[n][l] => m = n /\ k = l

CollisionFree == \A h \in Hashes : Injective(h)

VARIABLES
  slot,       \* slot[n][k]: the position of _hash(f"{n}#{k}")
  ring,       \* self._ring
  keys,       \* self._sorted_keys, as a multiset
  nodes       \* self._nodes

ringVars == <<slot, ring, keys, nodes>>

RingInit ==
  /\ slot \in Hashes
  /\ ring = [p \in Pos |-> None]
  /\ keys = [p \in Pos |-> 0]
  /\ nodes = {}

Points(n) == {slot[n][k] : k \in Replicas}

-----------------------------------------------------------------------------
(* Seeded faults.                                                           *)

\* only one virtual node is taken out of the dictionary
Bug_Owned(n) == {p \in {slot[n][0]} : ring[p] = n}

\* no wrap around: past the last position there is no owner
Bug_Successor(p) ==
  LET after == {q \in Pos : keys[q] > 0 /\ q > p}
  IN  IF after # {} THEN Min(after) ELSE p

\* the modulo scheme that the ring replaces: index by p % len(_sorted_keys)
Bug_Modulo(p) ==
  LET present == {q \in Pos : keys[q] > 0}
  IN  CHOOSE q \in present :
        Cardinality({r \in present : r < q}) = p % Cardinality(present)

-----------------------------------------------------------------------------
\* How often add_node(n) inserts p: once per virtual node that hashes to it.
Inserted(n, p) == Cardinality({k \in Replicas : slot[n][k] = p})

AddNode(n) ==
  /\ n \notin nodes
  /\ nodes' = nodes \cup {n}
  /\ ring' = [p \in Pos |-> IF p \in Points(n) THEN n ELSE ring[p]]
  /\ keys' = [p \in Pos |-> keys[p] + Inserted(n, p)]
  /\ UNCHANGED slot

\* The entries remove_node(n) deletes: its points, unless overwritten.
Owned(n) == {p \in Points(n) : ring[p] = n}

\* The one occurrence of a deleted entry's position that pop(idx) takes out.
\* A second virtual node at the same position finds the entry gone already.
Popped(p) == IF keys[p] > 0 THEN 1 ELSE 0

RemoveNode(n) ==
  /\ n \in nodes
  /\ nodes' = nodes \ {n}
  /\ ring' = [p \in Pos |-> IF p \in Owned(n) THEN None ELSE ring[p]]
  /\ keys' = [p \in Pos |-> IF p \in Owned(n) THEN keys[p] - Popped(p) ELSE keys[p]]
  /\ UNCHANGED slot

\* The early returns: the node is already there, or not there.
AddPresent(n) == n \in nodes /\ UNCHANGED ringVars
RemoveAbsent(n) == n \notin nodes /\ UNCHANGED ringVars

RingNext ==
  \E n \in Nodes : AddNode(n) \/ RemoveNode(n) \/ AddPresent(n) \/ RemoveAbsent(n)

RingSpec == RingInit /\ [][RingNext]_ringVars

-----------------------------------------------------------------------------
(* get_node()                                                               *)

Occupied == {q \in Pos : keys[q] > 0}

\* bisect_right: the first position strictly after p, or the first of all.
Successor(p) ==
  LET after == {q \in Occupied : q > p}
  IN  IF after # {} THEN Min(after) ELSE Min(Occupied)

GetNode(p) ==
  IF Occupied = {} THEN None
  ELSE IF ring[Successor(p)] = None THEN KeyError
  ELSE ring[Successor(p)]

-----------------------------------------------------------------------------
(* Type invariant.                                                          *)
RingTypeOK ==
  /\ slot \in Hashes
  /\ ring \in [Pos -> Nodes \cup {None}]
  /\ keys \in [Pos -> Nat]
  /\ nodes \subseteq Nodes

(* The dictionary and the sorted list describe the same ring, after any     *)
(* series of additions and removals: every point of a present node is       *)
(* there once, and nothing else is.                                         *)
RingConsistent ==
  \A p \in Pos :
    /\ \A n \in nodes : p \in Points(n) => ring[p] = n
    /\ ring[p] # None => ring[p] \in nodes /\ p \in Points(ring[p])
    /\ keys[p] = IF ring[p] = None THEN 0 ELSE 1

\* How far clockwise of p the position q lies.
Clockwise(p, q) == (q - p) % RingSize

\* "first server found walking clockwise from the key's position" (lines
\* 15-16), defined from the present nodes and the hash alone: the node with
\* the nearest point.
OwnerNearest(p) ==
  IF nodes = {} THEN GetNode(p) = None
  ELSE /\ GetNode(p) \in nodes
       /\ \E q \in Points(GetNode(p)) :
            \A n \in nodes : \A r \in Points(n) : Clockwise(p, q) <= Clockwise(p, r)

(* get_node() gives every position that no virtual node holds to the node   *)
(* with the nearest point clockwise of it (lines 86-96).                    *)
LookupCorrect == \A p \in Pos \ UNION {Points(n) : n \in nodes} : OwnerNearest(p)

(* Minimal remapping on addition (demo, lines 146-149): a key that moves    *)
(* moves to the new node.                                                   *)
AddRemaps ==
  \A n \in Nodes \ nodes : n \in nodes' =>
    \A p \in Pos : GetNode(p)' \in {GetNode(p), n}
AddMovesToNewNode == [][AddRemaps]_ringVars

(* Minimal remapping on removal (demo, lines 159-164): only the keys of     *)
(* the removed node move.                                                   *)
RemoveRemaps ==
  \A n \in nodes : n \notin nodes' =>
    \A p \in Pos : GetNode(p) # n => GetNode(p)' = GetNode(p)
RemoveMovesOwnKeys == [][RemoveRemaps]_ringVars

(* Both together: the remapping is minimal.                                 *)
MinimalRemapping == [][AddRemaps /\ RemoveRemaps]_ringVars

-----------------------------------------------------------------------------
(* What the comments say and the code does not do.                          *)

(* "A collision could have overwritten this slot; guard with .get." (line   *)
(* 79): with collisions too, a lookup finds a node or an empty ring.        *)
NoKeyError == \A p \in Pos : GetNode(p) # KeyError

(* "the first ring position >= pos" (line 92): a key that hashes to a       *)
(* point of the ring belongs to the node of that point.                     *)
PointOwned == \A p \in UNION {Points(n) : n \in nodes} : OwnerNearest(p)
=============================================================================
