------------------------- MODULE DeadlockDemoProofs -------------------------
(***************************************************************************)
(* deadlock_demo.py, for any number of threads and locks.  Taking locks in *)
(* the order of their ids excludes a circular wait: the inductive          *)
(* invariant says exactly which locks each thread owns, and a circular     *)
(* wait would then have no largest wanted lock, which a bounded set of ids *)
(* always has.  Of the whole program: no lock is left behind in any of its *)
(* parts, and the demonstration observes the deadlock in every schedule.   *)
(***************************************************************************)
EXTENDS DeadlockDemo, WellFoundedInduction, TLAPS

LEMMA IdsAreNumbers == MaxId \in Nat /\ \A l \in Locks : l \in Nat /\ l <= MaxId
BY LocksAssumption

(* sorted() gives two different locks back in increasing order.             *)
LEMMA Sorted ==
  ASSUME TypeOK, NEW t \in Threads
  PROVE  First(t) \in Locks /\ Second(t) \in Locks /\ First(t) < Second(t)
<1>1. /\ pair[t][1] \in Locks
      /\ pair[t][2] \in Locks
      /\ pair[t][1] # pair[t][2]
  BY DEF TypeOK, Pairs
<1> QED BY <1>1, IdsAreNumbers DEF First, Second, SortedById

IInv == TypeOK /\ HeldByOwner

(* The first and second lock of a thread never change.                      *)
LEMMA PairsFixed ==
  ASSUME pair' = pair
  PROVE  \A t \in Threads : First(t)' = First(t) /\ Second(t)' = Second(t)
BY DEF First, Second, SortedById

LEMMA InitInv == Init => IInv
<1> SUFFICES ASSUME Init PROVE IInv
  OBVIOUS
<1>1. TypeOK
  BY DEF Init, TypeOK
<1>2. HeldByOwner
  BY LocksAssumption DEF Init, HeldByOwner, Holds
<1> QED BY <1>1, <1>2 DEF IInv

LEMMA NextInv == IInv /\ [Next]_vars => IInv'
<1> SUFFICES ASSUME IInv, [Next]_vars PROVE IInv'
  OBVIOUS
<1> USE DEF IInv
<1>t. \A t \in Threads : First(t) \in Locks /\ Second(t) \in Locks /\ First(t) < Second(t)
  BY Sorted
<1>n. \A t \in Threads : First(t) # Second(t)
  BY <1>t, IdsAreNumbers
<1>0. CASE UNCHANGED vars
  BY <1>0 DEF vars, TypeOK, HeldByOwner, Holds, First, Second, SortedById
<1>1. ASSUME NEW t \in Threads, TakeFirst(t) PROVE IInv'
  <2>1. TypeOK'
    BY <1>1, <1>t DEF TakeFirst, TypeOK
  <2>2. HeldByOwner'
    BY <1>1, <1>t, <1>n, PairsFixed, LocksAssumption DEF TakeFirst, TypeOK, HeldByOwner, Holds
  <2> QED BY <2>1, <2>2
<1>2. ASSUME NEW t \in Threads, TakeSecond(t) PROVE IInv'
  <2>1. TypeOK'
    BY <1>2, <1>t DEF TakeSecond, TypeOK
  <2>2. HeldByOwner'
    BY <1>2, <1>t, <1>n, PairsFixed, LocksAssumption DEF TakeSecond, TypeOK, HeldByOwner, Holds
  <2> QED BY <2>1, <2>2
<1>3. ASSUME NEW t \in Threads, ReleaseSecond(t) PROVE IInv'
  <2>1. TypeOK'
    BY <1>3, <1>t DEF ReleaseSecond, TypeOK
  <2>2. HeldByOwner'
    BY <1>3, <1>t, <1>n, PairsFixed, LocksAssumption DEF ReleaseSecond, TypeOK, HeldByOwner, Holds
  <2> QED BY <2>1, <2>2
<1>4. ASSUME NEW t \in Threads, ReleaseFirst(t) PROVE IInv'
  <2>1. TypeOK'
    BY <1>4, <1>t DEF ReleaseFirst, TypeOK
  <2>2. HeldByOwner'
    BY <1>4, <1>t, <1>n, PairsFixed, LocksAssumption DEF ReleaseFirst, TypeOK, HeldByOwner, Holds
  <2> QED BY <2>1, <2>2
<1> QED BY <1>0, <1>1, <1>2, <1>3, <1>4 DEF Next, Transfer, Ended

(* A non-empty set of ids has a largest one.                                *)
LEMMA LargestId ==
  ASSUME NEW T, T \subseteq 0..MaxId, T # {}
  PROVE  \E m \in T : \A l \in T : l <= m
<1> DEFINE D == {MaxId - l : l \in T}
<1>0. \A l \in T : l \in Nat /\ l <= MaxId /\ MaxId - l \in Nat
  BY IdsAreNumbers
<1>1. D \subseteq Nat /\ D # {}
  BY <1>0
<1>2. PICK d \in D : \A e \in D : ~ (<<e, d>> \in OpToRel(<, Nat))
  <2> HIDE DEF D
  <2> QED BY <1>1, NatLessThanWellFounded, WFMin
<1>3. \A e \in D : ~ (e < d)
  BY <1>1, <1>2 DEF OpToRel
<1>4. PICK m \in T : d = MaxId - m
  OBVIOUS
<1>5. ASSUME NEW l \in T PROVE l <= m
  <2>1. ~ (MaxId - l < MaxId - m)
    BY <1>3, <1>4
  <2> QED BY <1>0, <2>1, IdsAreNumbers
<1> QED BY <1>5

(* Each thread of a circular wait would want a larger lock than the one it  *)
(* is waited for.                                                           *)
LEMMA WantsLarger ==
  ASSUME IInv, NEW t \in Threads, NEW u \in Threads, WaitsFor(t, u), pc[u] \in {"first", "second"}
  PROVE  Wanted(t) \in Locks /\ Wanted(u) \in Locks /\ Wanted(t) < Wanted(u)
<1>1. Wanted(t) \in Locks /\ Wanted(u) \in Locks
  BY Sorted DEF IInv, Wanted
<1>2. Holds(u, Wanted(t))
  BY <1>1 DEF IInv, HeldByOwner, WaitsFor
<1>3. Wanted(t) = First(u) /\ pc[u] = "second"
  BY <1>2 DEF Holds
<1> QED BY <1>1, <1>3, Sorted DEF IInv, Wanted

LEMMA NoCycle == IInv => NoCircularWait
<1> SUFFICES ASSUME IInv, NEW S \in SUBSET Threads, S # {},
                    \A t \in S : \E u \in S : WaitsFor(t, u)
             PROVE  FALSE
  BY DEF NoCircularWait
<1> DEFINE T == {Wanted(t) : t \in S}
<1>1. \A t \in S : \E u \in S : Wanted(t) \in Locks /\ Wanted(u) \in Locks /\ Wanted(t) < Wanted(u)
  BY WantsLarger DEF WaitsFor
<1>2. T \subseteq 0..MaxId /\ T # {}
  BY <1>1, LocksAssumption
<1>3. PICK m \in T : \A l \in T : l <= m
  <2> HIDE DEF T
  <2> QED BY <1>2, LargestId
<1>4. PICK t \in S : m = Wanted(t)
  OBVIOUS
<1>5. PICK u \in S : Wanted(t) < Wanted(u)
  BY <1>1
<1>6. Wanted(u) \in T
  OBVIOUS
<1>7. m \in Nat /\ Wanted(u) \in Nat
  BY <1>2, <1>6
<1>8. Wanted(u) <= m /\ m < Wanted(u)
  BY <1>3, <1>4, <1>5, <1>6
<1> QED BY <1>7, <1>8

(* A lock is owned by the thread inside its with statement, and by nobody   *)
(* when there is none.                                                      *)
THEOREM Ownership == Spec => []HeldByOwner
<1>1. IInv => HeldByOwner
  BY DEF IInv
<1> QED BY <1>1, InitInv, NextInv, PTL DEF Spec

(* However many threads and locks there are, and in whatever order each     *)
(* thread names its locks, no circular wait arises.                         *)
THEOREM DeadlockFree == Spec => []NoCircularWait
BY InitInv, NextInv, NoCycle, PTL DEF Spec

-----------------------------------------------------------------------------
(* The whole program                                                        *)

(* Until a thread has found its second lock taken, everyone is on the way   *)
(* there: nobody has released a first lock, since nobody has got a second   *)
(* one.  This is what AlwaysReproduced rests on.                            *)
StillClosing ==
  part = "demonstrate" /\ (\A t \in Threads : ~deadlocked[t]) =>
    \A t \in Threads :
      /\ pc[t] \in {"own", "arrive", "barrier", "try"}
      /\ t \in arrived => pc[t] \in {"barrier", "try"}
      /\ pc[t] = "try" => arrived = Threads

DemoIInv == DemoTypeOK /\ LocksKept /\ StillClosing

LEMMA NamedLocks ==
  ASSUME DemoTypeOK, NEW t \in Threads
  PROVE  /\ Own(t) \in Locks /\ Other(t) \in Locks /\ Own(t) # Other(t)
         /\ First(t) \in Locks /\ Second(t) \in Locks /\ First(t) # Second(t)
<1>1. /\ pair[t][1] \in Locks /\ pair[t][2] \in Locks /\ pair[t][1] # pair[t][2]
  BY DEF DemoTypeOK, Pairs
<1> QED BY <1>1, IdsAreNumbers DEF Own, Other, First, Second, SortedById

\* A step in which a thread moves and may take or give back one lock.
LEMMA OneThreadOwns ==
  ASSUME DemoTypeOK, LocksKept, NEW t \in Threads, NEW l \in Locks,
         pair' = pair, \A u \in Threads : u # t => pc'[u] = pc[u],
         \/ owner' = owner
         \/ owner[l] = NoThread /\ owner' = [owner EXCEPT ![l] = t]
         \/ owner[l] = t /\ owner' = [owner EXCEPT ![l] = NoThread],
         \A m \in Locks : owner'[m] = t <=> DemoHolds(t, m)'
  PROVE  LocksKept'
<1>1. ASSUME NEW u \in Threads, u # t, NEW m \in Locks
      PROVE  owner'[m] = u <=> DemoHolds(u, m)'
  <2>1. DemoHolds(u, m)' <=> DemoHolds(u, m)
    BY <1>1, PairsFixed DEF DemoHolds, Holds, Own, Other
  <2>2. owner'[m] = u <=> owner[m] = u
    BY <1>1, LocksAssumption DEF DemoTypeOK
  <2> QED BY <2>1, <2>2 DEF LocksKept
<1> QED BY <1>1 DEF LocksKept

\* demonstrate_deadlock(), by what each step does with the locks.
LEMMA DemonstrateOwns ==
  ASSUME DemoIInv, NEW t \in Threads, Demonstrate(t)
  PROVE  DemoTypeOK' /\ LocksKept'
<1> USE DEF DemoIInv
<1>1. /\ Own(t) \in Locks /\ Other(t) \in Locks /\ Own(t) # Other(t)
      /\ First(t) \in Locks /\ Second(t) \in Locks
  BY NamedLocks
<1>2. /\ pair' = pair /\ part' = part /\ completed' = completed
      /\ pc[t] \in {"own", "arrive", "barrier", "try", "got", "leave"}
      /\ pc'[t] \in {"arrive", "barrier", "try", "got", "leave", "end"}
      /\ \A u \in Threads : u # t => pc'[u] = pc[u]
  BY DEF Demonstrate, TakeOwn, Arrive, Pass, TakeOther, ReleaseOther, GiveUp, Leave,
         Goto, demoVars, DemoTypeOK
<1>3. part = "demonstrate"
  BY <1>2 DEF DemoTypeOK, LabelsOf
<1>4. DemoTypeOK'
  <2>1. pc' \in [Threads -> LabelsOf(part)]
    BY <1>3 DEF Demonstrate, TakeOwn, Arrive, Pass, TakeOther, ReleaseOther, GiveUp, Leave,
                Goto, DemoTypeOK, LabelsOf
  <2>2. owner' \in [Locks -> Threads \cup {NoThread}]
    BY DEF Demonstrate, TakeOwn, Arrive, Pass, TakeOther, ReleaseOther, GiveUp, Leave,
           Acquire, Release, DemoTypeOK
  <2>3. deadlocked' \in [Threads -> BOOLEAN] /\ arrived' \subseteq Threads
    BY DEF Demonstrate, TakeOwn, Arrive, Pass, TakeOther, ReleaseOther, GiveUp, Leave,
           demoVars, DemoTypeOK
  <2> QED BY <1>2, <2>1, <2>2, <2>3 DEF DemoTypeOK
<1>5. \A l \in Locks : owner[l] = t <=> DemoHolds(t, l)
  BY DEF LocksKept
<1>6. ASSUME NEW m \in Locks
      PROVE  /\ DemoHolds(t, m)' <=> \/ m = Own(t) /\ pc'[t] \in {"arrive", "barrier", "try", "got", "leave"}
                                     \/ m = Other(t) /\ pc'[t] = "got"
             /\ DemoHolds(t, m) <=> \/ m = Own(t) /\ pc[t] \in {"arrive", "barrier", "try", "got", "leave"}
                                    \/ m = Other(t) /\ pc[t] = "got"
  BY <1>2 DEF DemoHolds, Holds, Own, Other
<1> DEFINE Good(l) ==
      /\ \/ owner' = owner
         \/ owner[l] = NoThread /\ owner' = [owner EXCEPT ![l] = t]
         \/ owner[l] = t /\ owner' = [owner EXCEPT ![l] = NoThread]
      /\ \A m \in Locks : owner'[m] = t <=> DemoHolds(t, m)'
<1>7. ASSUME NEW l \in Locks, Good(l) PROVE LocksKept'
  BY <1>2, <1>7, OneThreadOwns
<1>8. CASE TakeOwn(t)
  <2>1. Good(Own(t))
    BY <1>1, <1>5, <1>6, <1>8, LocksAssumption DEF TakeOwn, Goto, Acquire, DemoTypeOK
  <2> QED BY <1>1, <1>4, <1>7, <2>1
<1>9. CASE Arrive(t) \/ Pass(t) \/ GiveUp(t)
  <2>1. Good(Own(t))
    BY <1>1, <1>5, <1>6, <1>9 DEF Arrive, Pass, GiveUp, Goto, demoVars, DemoTypeOK
  <2> QED BY <1>1, <1>4, <1>7, <2>1
<1>10. CASE TakeOther(t)
  <2>1. Good(Other(t))
    BY <1>1, <1>5, <1>6, <1>10, LocksAssumption DEF TakeOther, Goto, Acquire, DemoTypeOK
  <2> QED BY <1>1, <1>4, <1>7, <2>1
<1>11. CASE ReleaseOther(t)
  <2>1. Good(Other(t))
    BY <1>1, <1>5, <1>6, <1>11, LocksAssumption DEF ReleaseOther, Goto, Release, DemoTypeOK
  <2> QED BY <1>1, <1>4, <1>7, <2>1
<1>12. CASE Leave(t)
  <2>1. Good(Own(t))
    BY <1>1, <1>5, <1>6, <1>12, LocksAssumption DEF Leave, Goto, Release, DemoTypeOK
  <2> QED BY <1>1, <1>4, <1>7, <2>1
<1> QED BY <1>8, <1>9, <1>10, <1>11, <1>12 DEF Demonstrate

\* fixed_with_trylock(): both finally clauses give back what was taken.
LEMMA TryLockOwns ==
  ASSUME DemoIInv, NEW t \in Threads, TryLock(t)
  PROVE  DemoTypeOK' /\ LocksKept'
<1> USE DEF DemoIInv
<1>1. /\ Own(t) \in Locks /\ Other(t) \in Locks /\ Own(t) # Other(t)
      /\ First(t) \in Locks /\ Second(t) \in Locks
  BY NamedLocks
<1>2. /\ pair' = pair /\ UNCHANGED demoVars
      /\ pc[t] \in {"t_first", "t_second", "t_both", "t_giveup", "t_done", "t_sleep"}
      /\ pc'[t] \in {"t_first", "t_second", "t_both", "t_giveup", "t_done", "t_sleep", "end"}
      /\ \A u \in Threads : u # t => pc'[u] = pc[u]
  BY DEF TryLock, TakeFirstTry, GiveUpFirstTry, TakeSecondTry, GiveUpSecondTry,
         ReleaseSecondTry, ReleaseFirstTry, Retry, Goto, DemoTypeOK
<1>3. part = "trylock"
  BY <1>2 DEF DemoTypeOK, LabelsOf
<1>4. DemoTypeOK'
  <2>1. pc' \in [Threads -> LabelsOf(part)]
    BY <1>3 DEF TryLock, TakeFirstTry, GiveUpFirstTry, TakeSecondTry, GiveUpSecondTry,
                ReleaseSecondTry, ReleaseFirstTry, Retry, Goto, DemoTypeOK, LabelsOf
  <2>2. owner' \in [Locks -> Threads \cup {NoThread}]
    BY DEF TryLock, TakeFirstTry, GiveUpFirstTry, TakeSecondTry, GiveUpSecondTry,
           ReleaseSecondTry, ReleaseFirstTry, Retry, Acquire, Release, DemoTypeOK
  <2>3. completed' \in [Threads -> BOOLEAN]
    BY DEF TryLock, TakeFirstTry, GiveUpFirstTry, TakeSecondTry, GiveUpSecondTry,
           ReleaseSecondTry, ReleaseFirstTry, Retry, DemoTypeOK
  <2> QED BY <1>2, <2>1, <2>2, <2>3 DEF DemoTypeOK, demoVars
<1>5. \A l \in Locks : owner[l] = t <=> DemoHolds(t, l)
  BY DEF LocksKept
<1>6. ASSUME NEW m \in Locks
      PROVE  /\ DemoHolds(t, m)' <=> \/ m = Own(t) /\ pc'[t] \in {"t_second", "t_both", "t_giveup", "t_done"}
                                     \/ m = Other(t) /\ pc'[t] = "t_both"
             /\ DemoHolds(t, m) <=> \/ m = Own(t) /\ pc[t] \in {"t_second", "t_both", "t_giveup", "t_done"}
                                    \/ m = Other(t) /\ pc[t] = "t_both"
  BY <1>2 DEF DemoHolds, Holds, Own, Other
<1> DEFINE Good(l) ==
      /\ \/ owner' = owner
         \/ owner[l] = NoThread /\ owner' = [owner EXCEPT ![l] = t]
         \/ owner[l] = t /\ owner' = [owner EXCEPT ![l] = NoThread]
      /\ \A m \in Locks : owner'[m] = t <=> DemoHolds(t, m)'
<1>7. ASSUME NEW l \in Locks, Good(l) PROVE LocksKept'
  BY <1>2, <1>7, OneThreadOwns
<1>8. CASE TakeFirstTry(t)
  <2>1. Good(Own(t))
    BY <1>1, <1>5, <1>6, <1>8, LocksAssumption DEF TakeFirstTry, Goto, Acquire, DemoTypeOK
  <2> QED BY <1>1, <1>4, <1>7, <2>1
<1>9. CASE GiveUpFirstTry(t) \/ GiveUpSecondTry(t) \/ Retry(t)
  <2>1. Good(Own(t))
    BY <1>1, <1>5, <1>6, <1>9 DEF GiveUpFirstTry, GiveUpSecondTry, Retry, Goto, DemoTypeOK
  <2> QED BY <1>1, <1>4, <1>7, <2>1
<1>10. CASE TakeSecondTry(t)
  <2>1. Good(Other(t))
    BY <1>1, <1>5, <1>6, <1>10, LocksAssumption DEF TakeSecondTry, Goto, Acquire, DemoTypeOK
  <2> QED BY <1>1, <1>4, <1>7, <2>1
<1>11. CASE ReleaseSecondTry(t)
  <2>1. Good(Other(t))
    BY <1>1, <1>5, <1>6, <1>11, LocksAssumption DEF ReleaseSecondTry, Goto, Release, DemoTypeOK
  <2> QED BY <1>1, <1>4, <1>7, <2>1
<1>12. CASE ReleaseFirstTry(t)
  <2>1. Good(Own(t))
    BY <1>1, <1>5, <1>6, <1>12, LocksAssumption DEF ReleaseFirstTry, Goto, Release, DemoTypeOK
  <2> QED BY <1>1, <1>4, <1>7, <2>1
<1> QED BY <1>8, <1>9, <1>10, <1>11, <1>12 DEF TryLock
\* In the second part the program's invariant is that of LockOrdering.
LEMMA OrderingPart ==
  ASSUME DemoTypeOK, part = "ordering"
  PROVE  TypeOK /\ (LocksKept <=> HeldByOwner)
<1>1. TypeOK
  BY DEF DemoTypeOK, TypeOK, LabelsOf
<1>2. \A t \in Threads, l \in Locks : DemoHolds(t, l) <=> Holds(t, l)
  BY <1>1 DEF TypeOK, DemoHolds
<1> QED BY <1>1, <1>2 DEF LocksKept, HeldByOwner

LEMMA OrderedOwns ==
  ASSUME DemoIInv, NEW t \in Threads, Ordered(t)
  PROVE  DemoTypeOK' /\ LocksKept'
<1>1. pc[t] \in {"first", "second", "both", "one"} /\ UNCHANGED demoVars
  BY DEF Ordered, Transfer, TakeFirst, TakeSecond, ReleaseSecond, ReleaseFirst
<1>2. part = "ordering" /\ part' = part
  BY <1>1 DEF DemoIInv, DemoTypeOK, LabelsOf, demoVars
<1>3. IInv
  BY <1>2, OrderingPart DEF DemoIInv, IInv
<1>4. TypeOK' /\ HeldByOwner'
  <2>1. Next
    BY DEF Ordered, Next
  <2> QED BY <1>3, <2>1, NextInv DEF IInv
<1>5. DemoTypeOK'
  BY <1>1, <1>2, <1>4 DEF DemoIInv, DemoTypeOK, TypeOK, LabelsOf, demoVars
<1>6. \A u \in Threads, l \in Locks : DemoHolds(u, l)' <=> Holds(u, l)'
  BY <1>4 DEF TypeOK, DemoHolds
<1> QED BY <1>4, <1>5, <1>6 DEF LocksKept, HeldByOwner

\* main() starts the next part when all threads have ended: the locks are free.
LEMMA MainOwns ==
  ASSUME DemoIInv, Main
  PROVE  DemoTypeOK' /\ LocksKept'
<1> USE DEF DemoIInv
<1>1. Joined /\ owner' = owner
  BY DEF Main, StartOrdering, StartTryLock
<1>2. \A t \in Threads, l \in Locks : ~DemoHolds(t, l)
  BY <1>1 DEF Joined, DemoHolds, Holds
<1>3. \A t \in Threads, l \in Locks : owner'[l] # t
  BY <1>1, <1>2 DEF LocksKept
<1>4. \A t \in Threads : pc'[t] \in {"first", "t_first"}
  BY DEF Main, StartOrdering, StartTryLock, AllAt
<1>5. \A t \in Threads, l \in Locks : ~DemoHolds(t, l)'
  BY <1>4 DEF DemoHolds, Holds
<1>6. DemoTypeOK'
  <2>1. CASE StartOrdering
    BY <2>1 DEF StartOrdering, DemoTypeOK, LabelsOf, AllAt, Nobody
  <2>2. CASE StartTryLock
    BY <2>2, RingAssumption DEF StartTryLock, DemoTypeOK, LabelsOf, AllAt, Nobody
  <2> QED BY <2>1, <2>2 DEF Main
<1> QED BY <1>3, <1>5, <1>6 DEF LocksKept

\* Each thread's second lock is the first one of another.
LEMMA Neighbour ==
  ASSUME NEW t \in Threads
  PROVE  \E u \in Threads : Ring[u][1] = Ring[t][2]
<1>1. Ring[t][2] \in {Ring[u][2] : u \in Threads}
  OBVIOUS
<1>2. Ring[t][2] \in {Ring[u][1] : u \in Threads}
  BY <1>1, RingAssumption
<1> QED BY <1>2

\* Nobody gets a second lock before somebody has found it taken.
LEMMA DemonstrateCloses ==
  ASSUME DemoIInv, NEW t \in Threads, Demonstrate(t)
  PROVE  StillClosing'
<1> USE DEF DemoIInv
<1>0. part' = part /\ part = "demonstrate"
  BY DEF Demonstrate, TakeOwn, Arrive, Pass, TakeOther, ReleaseOther, GiveUp, Leave,
         Goto, demoVars, DemoTypeOK, LabelsOf
<1> SUFFICES ASSUME \A u \in Threads : ~deadlocked'[u], NEW v \in Threads
             PROVE  /\ pc'[v] \in {"own", "arrive", "barrier", "try"}
                    /\ v \in arrived' => pc'[v] \in {"barrier", "try"}
                    /\ pc'[v] = "try" => arrived' = Threads
  BY DEF StillClosing
<1>1. ~GiveUp(t)
  BY DEF GiveUp, DemoTypeOK
<1>2. deadlocked' = deadlocked
  BY <1>1 DEF Demonstrate, TakeOwn, Arrive, Pass, TakeOther, ReleaseOther, Leave, demoVars
<1>3. \A u \in Threads :
        /\ pc[u] \in {"own", "arrive", "barrier", "try"}
        /\ u \in arrived => pc[u] \in {"barrier", "try"}
        /\ pc[u] = "try" => arrived = Threads
  BY <1>0, <1>2 DEF StillClosing
<1>4. ~TakeOther(t)
  <2> SUFFICES ASSUME TakeOther(t) PROVE FALSE
    OBVIOUS
  <2>1. pc[t] = "try" /\ owner[Other(t)] = NoThread /\ arrived = Threads
    BY <1>3 DEF TakeOther, Goto, Acquire
  <2>2. PICK u \in Threads : Ring[u][1] = Ring[t][2]
    BY Neighbour
  <2>3. Own(u) = Other(t) /\ Own(u) \in Locks
    BY <1>0, <2>2, NamedLocks DEF DemoTypeOK, Own, Other
  <2>4. pc[u] \in {"barrier", "try"}
    BY <1>3, <2>1
  <2>5. owner[Own(u)] = u
    BY <2>3, <2>4 DEF LocksKept, DemoHolds
  <2> QED BY <2>1, <2>3, <2>5, LocksAssumption
<1>5. CASE TakeOwn(t)
  BY <1>3, <1>5 DEF TakeOwn, Goto, demoVars, DemoTypeOK
<1>6. CASE Arrive(t)
  BY <1>3, <1>6 DEF Arrive, Goto, DemoTypeOK
<1>7. CASE Pass(t)
  BY <1>3, <1>7 DEF Pass, AllArrived, Goto, demoVars, DemoTypeOK
<1>8. ~ReleaseOther(t) /\ ~Leave(t)
  BY <1>3 DEF ReleaseOther, Leave, Goto
<1> QED BY <1>1, <1>4, <1>5, <1>6, <1>7, <1>8 DEF Demonstrate

LEMMA DemoInitInv == DemoInit => DemoIInv
<1> SUFFICES ASSUME DemoInit PROVE DemoIInv
  OBVIOUS
<1>1. DemoTypeOK
  BY RingAssumption DEF DemoInit, DemoTypeOK, LabelsOf, AllAt, Nobody
<1>2. LocksKept
  BY LocksAssumption DEF DemoInit, LocksKept, DemoHolds, Holds, AllAt
<1>3. StillClosing
  BY DEF DemoInit, StillClosing, AllAt
<1> QED BY <1>1, <1>2, <1>3 DEF DemoIInv

LEMMA DemoNextInv == DemoIInv /\ [DemoNext]_allVars => DemoIInv'
<1> SUFFICES ASSUME DemoIInv, [DemoNext]_allVars PROVE DemoIInv'
  OBVIOUS
<1>1. ASSUME NEW t \in Threads, Demonstrate(t) PROVE DemoIInv'
  BY <1>1, DemonstrateOwns, DemonstrateCloses DEF DemoIInv
<1>2. ASSUME NEW t \in Threads, Ordered(t) PROVE DemoIInv'
  <2>1. part' # "demonstrate"
    BY <1>2 DEF Ordered, Transfer, TakeFirst, TakeSecond, ReleaseSecond, ReleaseFirst,
                demoVars, DemoIInv, DemoTypeOK, LabelsOf
  <2> QED BY <1>2, <2>1, OrderedOwns DEF DemoIInv, StillClosing
<1>3. ASSUME NEW t \in Threads, TryLock(t) PROVE DemoIInv'
  <2>1. part' # "demonstrate"
    BY <1>3 DEF TryLock, TakeFirstTry, GiveUpFirstTry, TakeSecondTry, GiveUpSecondTry,
                ReleaseSecondTry, ReleaseFirstTry, Retry, Goto, demoVars,
                DemoIInv, DemoTypeOK, LabelsOf
  <2> QED BY <1>3, <2>1, TryLockOwns DEF DemoIInv, StillClosing
<1>4. CASE Main
  <2>1. part' # "demonstrate"
    BY <1>4 DEF Main, StartOrdering, StartTryLock
  <2> QED BY <1>4, <2>1, MainOwns DEF DemoIInv, StillClosing
<1>5. CASE UNCHANGED allVars
  BY <1>5 DEF allVars, vars, demoVars, DemoIInv, DemoTypeOK, LocksKept, DemoHolds, Holds,
              Own, Other, First, Second, StillClosing
<1> QED BY <1>1, <1>2, <1>3, <1>4, <1>5 DEF DemoNext, Run, Return

(* Each lock is owned by the thread inside its with statement or try block, *)
(* in all three parts and through every timeout, so that main() finds the   *)
(* locks free whenever it starts a part.                                    *)
THEOREM NoLockLeft == DemoSpec => []LocksKept
<1>1. DemoIInv => LocksKept
  BY DEF DemoIInv
<1> QED BY <1>1, DemoInitInv, DemoNextInv, PTL DEF DemoSpec

(* The barrier (line 64) makes the demonstration certain: in whatever order *)
(* the threads run, when they have all ended one of them has found its      *)
(* second lock taken (line 142).                                            *)
THEOREM DeadlockReproduced == DemoSpec => []AlwaysReproduced
<1>1. DemoIInv => AlwaysReproduced
  <2> SUFFICES ASSUME DemoIInv, part = "demonstrate", Joined,
                      ~ \E t \in Threads : deadlocked[t]
               PROVE  FALSE
    BY DEF AlwaysReproduced
  <2>1. PICK t \in Threads : TRUE
    BY RingAssumption
  <2>2. pc[t] = "end" /\ pc[t] \in {"own", "arrive", "barrier", "try"}
    BY <2>1 DEF Joined, DemoIInv, StillClosing
  <2> QED BY <2>2
<1> QED BY <1>1, DemoInitInv, DemoNextInv, PTL DEF DemoSpec

(* In the program as a whole, with the locks as the demonstration left      *)
(* them, no circular wait arises in the transfers by id.                    *)
THEOREM DemoDeadlockFree == DemoSpec => []NoCircularWait
<1>1. DemoIInv => NoCircularWait
  <2> SUFFICES ASSUME DemoIInv PROVE NoCircularWait
    OBVIOUS
  <2>1. CASE part = "ordering"
    BY <2>1, OrderingPart, NoCycle DEF DemoIInv, IInv
  <2>2. CASE part # "ordering"
    <3>1. \A t \in Threads : pc[t] \notin {"first", "second"}
      BY <2>2 DEF DemoIInv, DemoTypeOK, LabelsOf
    <3> QED BY <3>1 DEF NoCircularWait, WaitsFor
  <2> QED BY <2>1, <2>2
<1> QED BY <1>1, DemoInitInv, DemoNextInv, PTL DEF DemoSpec
=============================================================================
