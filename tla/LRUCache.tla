------------------------------ MODULE LRUCache ------------------------------
(***************************************************************************)
(* LRUCache of lru_cache.py at the level of its pointers: a dictionary     *)
(* from keys to nodes and a doubly linked list between two sentinels.      *)
(* There is at most one live node per key, so the key names its node; the  *)
(* fields of a key that has no node hold what a new node is given.         *)
(*                                                                         *)
(* get() and put() run under the lock and are one step each.  __len__()    *)
(* and hit_ratio() change nothing.                                         *)
(***************************************************************************)
EXTENDS Naturals, Sequences, FiniteSets

CONSTANTS
  Keys, Values,
  CacheCapacity,      \* self.capacity
  NoValue,       \* the value of a key that is not cached: the default of get()
  MaxCount,      \* bound: the counters stop here, nothing depends on them
  Head_, Tail_   \* the sentinels self._head and self._tail

ASSUME CacheAssumption ==
  /\ CacheCapacity \in Nat \ {0}     \* assert capacity > 0
  /\ IsFiniteSet(Keys)
  /\ MaxCount \in Nat
  /\ NoValue \notin Values
  /\ Head_ # Tail_ /\ {Head_, Tail_} \cap Keys = {}

VARIABLES
  map,           \* the keys of self._map
  value,         \* node.value
  next, prev,    \* node.next, node.prev
  hits, misses, evictions,
  call           \* history: the last call, its key, and the value it returned or stored

list == <<map, value, next, prev>>
stats == <<hits, misses, evictions>>
cacheVars == <<list, stats, call>>

Bumped(n) == IF n < MaxCount THEN n + 1 ELSE n

NodeIds == Keys \cup {Head_, Tail_}

CacheInit ==
  /\ map = {}
  /\ value = [k \in Keys |-> NoValue]
  /\ next = [n \in NodeIds |-> Tail_]
  /\ prev = [n \in NodeIds |-> Head_]
  /\ hits = 0 /\ misses = 0 /\ evictions = 0
  /\ call = << >>

-----------------------------------------------------------------------------
(* Seeded faults.                                                           *)

\* the touch is forgotten: entries stay in the order of their insertion
Bug_MoveToFront(n) == UNCHANGED <<next, prev>>

-----------------------------------------------------------------------------
(* The splices, on a pair L of pointer functions.                           *)

\* _remove(node)
Unlink(L, n) ==
  [next |-> [L.next EXCEPT ![L.prev[n]] = L.next[n]],
   prev |-> [L.prev EXCEPT ![L.next[n]] = L.prev[n]]]

\* _push_front(node)
PushFront(L, n) ==
  [next |-> [L.next EXCEPT ![n] = L.next[Head_], ![Head_] = n],
   prev |-> [L.prev EXCEPT ![n] = Head_, ![L.next[Head_]] = n]]

Pointers == [next |-> next, prev |-> prev]
Link(L) == next' = L.next /\ prev' = L.prev

MoveToFront(n) == Link(PushFront(Unlink(Pointers, n), n))

-----------------------------------------------------------------------------
(* get()                                                                    *)

GetHit(k) ==
  /\ k \in map
  /\ hits' = Bumped(hits)
  /\ MoveToFront(k)
  /\ call' = <<"get", k, value[k]>>
  /\ UNCHANGED <<map, value, misses, evictions>>

GetMiss(k) ==
  /\ k \notin map
  /\ misses' = Bumped(misses)
  /\ call' = <<"get", k, NoValue>>
  /\ UNCHANGED <<list, hits, evictions>>

-----------------------------------------------------------------------------
(* put()                                                                    *)

\* len(self._map) > self.capacity
Overfull(m) == Cardinality(m) > CacheCapacity

\* lru = self._tail.prev
Victim(L) == L.prev[Tail_]

PutExisting(k, v) ==
  /\ k \in map
  /\ value' = [value EXCEPT ![k] = v]
  /\ MoveToFront(k)
  /\ call' = <<"put", k, v>>
  /\ UNCHANGED <<map, stats>>

\* self._map[key] = node; self._push_front(node)
Added(k) == [map |-> map \cup {k}, list |-> PushFront(Pointers, k)]

PutNew(k, v) ==
  /\ k \notin map
  /\ ~Overfull(Added(k).map)
  /\ map' = Added(k).map
  /\ Link(Added(k).list)
  /\ value' = [value EXCEPT ![k] = v]
  /\ call' = <<"put", k, v>>
  /\ UNCHANGED <<stats>>

PutEvict(k, v) ==
  /\ k \notin map
  /\ Overfull(Added(k).map)
  /\ LET L == Added(k).list
         lru == Victim(L)
         R == Unlink(L, lru)
     IN  /\ map' = Added(k).map \ {lru}
         /\ next' = [R.next EXCEPT ![lru] = Tail_]
         /\ prev' = [R.prev EXCEPT ![lru] = Head_]
         /\ value' = [value EXCEPT ![k] = v, ![lru] = NoValue]
  /\ evictions' = Bumped(evictions)
  /\ call' = <<"put", k, v>>
  /\ UNCHANGED <<hits, misses>>

-----------------------------------------------------------------------------
CacheNext ==
  \/ \E k \in Keys :
       \/ GetHit(k)
       \/ GetMiss(k)
       \/ \E v \in Values : PutExisting(k, v) \/ PutNew(k, v) \/ PutEvict(k, v)

CacheSpec == CacheInit /\ [][CacheNext]_cacheVars

-----------------------------------------------------------------------------
\* The j-th node of the list s, whose ends are the sentinels.
NodeAt(s, j) == IF j = 0 THEN Head_ ELSE IF j = Len(s) + 1 THEN Tail_ ELSE s[j]

\* The nodes from the head sentinel on, as the demo walks them (lines 178-182):
\* there are len(self._map) of them.
Walk ==
  CHOOSE s \in [1 .. Cardinality(map) -> map] :
    \A j \in 0 .. Len(s) : next[NodeAt(s, j)] = NodeAt(s, j + 1)

Abstract == INSTANCE LRUSpec WITH
  Capacity <- CacheCapacity,
  Missing <- NoValue,
  order <- [j \in DOMAIN Walk |-> <<Walk[j], value[Walk[j]]>>]

(* The pointers implement least-recently-used order, call by call: a get()  *)
(* of a cached key returns the value stored last and moves that key's entry *)
(* to the front, any other get() returns the default and moves nothing, and *)
(* the entry that a put() drops is the one that was not used for longest.   *)
ImplementsLRU == Abstract!Spec
=============================================================================
