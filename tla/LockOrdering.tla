---------------------------- MODULE LockOrdering ----------------------------
(***************************************************************************)
(* fixed_with_global_ordering() of deadlock_demo.py, for any number of     *)
(* threads and locks: each thread runs transfer() once on a pair of locks, *)
(* given in any order, and takes the one with the smaller id() first.  The *)
(* locks are numbers, their ids (addresses, so there is a largest one).    *)
(***************************************************************************)
EXTENDS Integers

CONSTANTS
  Threads,
  Locks,      \* the ids of the locks
  MaxId,      \* no id is larger
  NoThread    \* the owner of a free lock

ASSUME LocksAssumption ==
  /\ MaxId \in Nat
  /\ Locks \subseteq 0..MaxId
  /\ NoThread \notin Threads

VARIABLES
  pair,       \* pair[t]: first_intended and second_intended
  owner,      \* who holds each lock
  pc,
  completed   \* completed[who]

vars == <<pair, owner, pc, completed>>

\* The demo's threads name the same two locks in opposite orders.
Pairs == {p \in Locks \X Locks : p[1] # p[2]}

Init ==
  /\ pair \in [Threads -> Pairs]
  /\ owner = [l \in Locks |-> NoThread]
  /\ pc = [t \in Threads |-> "first"]
  /\ completed = [t \in Threads |-> FALSE]

-----------------------------------------------------------------------------
(* Seeded faults.                                                           *)

\* the locks are taken in the order they are named
Bug_SortedById(p) == p

\* the second lock is not given back
Bug_ReleaseSecond(t) ==
  /\ pc[t] = "both"
  /\ pc' = [pc EXCEPT ![t] = "one"]
  /\ UNCHANGED <<pair, owner, completed>>

-----------------------------------------------------------------------------
\* sorted((first_intended, second_intended), key=id)
SortedById(p) == IF p[1] < p[2] THEN p ELSE <<p[2], p[1]>>
First(t) == SortedById(pair[t])[1]
Second(t) == SortedById(pair[t])[2]

\* with first:
TakeFirst(t) ==
  /\ pc[t] = "first"
  /\ owner[First(t)] = NoThread
  /\ owner' = [owner EXCEPT ![First(t)] = t]
  /\ pc' = [pc EXCEPT ![t] = "second"]
  /\ UNCHANGED <<pair, completed>>

\* with second: completed[who] = True
TakeSecond(t) ==
  /\ pc[t] = "second"
  /\ owner[Second(t)] = NoThread
  /\ owner' = [owner EXCEPT ![Second(t)] = t]
  /\ pc' = [pc EXCEPT ![t] = "both"]
  /\ completed' = [completed EXCEPT ![t] = TRUE]
  /\ UNCHANGED pair

ReleaseSecond(t) ==
  /\ pc[t] = "both"
  /\ owner' = [owner EXCEPT ![Second(t)] = NoThread]
  /\ pc' = [pc EXCEPT ![t] = "one"]
  /\ UNCHANGED <<pair, completed>>

ReleaseFirst(t) ==
  /\ pc[t] = "one"
  /\ owner' = [owner EXCEPT ![First(t)] = NoThread]
  /\ pc' = [pc EXCEPT ![t] = "end"]
  /\ UNCHANGED <<pair, completed>>

Transfer(t) == TakeFirst(t) \/ TakeSecond(t) \/ ReleaseSecond(t) \/ ReleaseFirst(t)

Ended == (\A t \in Threads : pc[t] = "end") /\ UNCHANGED vars

Next == (\E t \in Threads : Transfer(t)) \/ Ended

Spec == Init /\ [][Next]_vars

-----------------------------------------------------------------------------
(* Type invariant.                                                          *)
TypeOK ==
  /\ pair \in [Threads -> Pairs]
  /\ owner \in [Locks -> Threads \cup {NoThread}]
  /\ pc \in [Threads -> {"first", "second", "both", "one", "end"}]
  /\ completed \in [Threads -> BOOLEAN]

\* The locks whose with statement t is inside of.
Holds(t, l) ==
  \/ l = First(t) /\ pc[t] \in {"second", "both", "one"}
  \/ l = Second(t) /\ pc[t] = "both"

(* Mutual exclusion, and no lock left behind: a lock is owned by the thread *)
(* that is inside its with statement, and by nobody when there is none.     *)
HeldByOwner == \A t \in Threads, l \in Locks : owner[l] = t <=> Holds(t, l)

\* The lock t is waiting for.
Wanted(t) == IF pc[t] = "first" THEN First(t) ELSE Second(t)

WaitsFor(t, u) == pc[t] \in {"first", "second"} /\ owner[Wanted(t)] = u

(* "no circular wait is possible" (lines 95-96): in no group of threads     *)
(* does everybody wait for a lock that a member of the group holds.  With   *)
(* two threads this is the demo's AB / BA deadlock.                         *)
NoCircularWait ==
  \A S \in SUBSET Threads :
    S # {} => \E t \in S : \A u \in S : ~WaitsFor(t, u)
=============================================================================
