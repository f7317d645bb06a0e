------------------------------ MODULE LRUSpec ------------------------------
(***************************************************************************)
(* What an LRU cache promises: it holds at most Capacity entries in the    *)
(* order of their last use, a lookup returns what was stored and makes its *)
(* entry the most recently used, and an insertion into a full cache drops  *)
(* the least recently used entry and no other.  The last call is part of   *)
(* the state, so that no call can be left without its effect: only the     *)
(* very same call, made again at once, changes nothing.                    *)
(***************************************************************************)
EXTENDS Naturals, Sequences

CONSTANTS Keys, Values, Capacity, Missing

VARIABLES
  order,    \* the entries <<key, value>>, most recently used first
  call      \* the last call: <<"get", key, result>> or <<"put", key, value>>

At(k) == {j \in DOMAIN order : order[j][1] = k}

\* The j-th entry is replaced by e and moved to the front.
ToFront(e, j) ==
  [i \in DOMAIN order |-> IF i = 1 THEN e ELSE IF i <= j THEN order[i - 1] ELSE order[i]]

\* e is put in front; the last entry goes if they are now too many.
Inserted(e) ==
  [i \in 1 .. (IF Len(order) < Capacity THEN Len(order) + 1 ELSE Capacity) |->
     IF i = 1 THEN e ELSE order[i - 1]]

Init == order = << >> /\ call = << >>

Hit(k) == \E j \in At(k) : order' = ToFront(order[j], j) /\ call' = <<"get", k, order[j][2]>>

Miss(k) == At(k) = {} /\ order' = order /\ call' = <<"get", k, Missing>>

Store(k, v) ==
  /\ \/ \E j \in At(k) : order' = ToFront(<<k, v>>, j)
     \/ At(k) = {} /\ order' = Inserted(<<k, v>>)
  /\ call' = <<"put", k, v>>

Next == \E k \in Keys : Hit(k) \/ Miss(k) \/ \E v \in Values : Store(k, v)

Spec == Init /\ [][Next]_<<order, call>>
=============================================================================
