---------------------------- MODULE DeadlockDemo ----------------------------
(***************************************************************************)
(* deadlock_demo.py: main() runs demonstrate_deadlock(), then              *)
(* fixed_with_global_ordering() and fixed_with_trylock(), each with new    *)
(* threads on the same locks.  The program has two threads that name two   *)
(* locks in opposite orders; here any number of them form a ring, in which *)
(* each names first its own lock and then its neighbour's.  The second     *)
(* part is that of LockOrdering, in which threads may name any two locks.  *)
(*                                                                         *)
(* An acquire() with a timeout fails only after the lock stayed taken all  *)
(* the time.  main()'s join() is taken to wait for the threads: the three  *)
(* seconds it gives them in the second part are ample.                     *)
(***************************************************************************)
EXTENDS LockOrdering

CONSTANT Ring    \* Ring[t]: the two locks that t names, lock_a and lock_b

ASSUME RingAssumption ==
  /\ Threads # {}
  /\ Ring \in [Threads -> Pairs]
  /\ \A t, u \in Threads : Ring[t][1] = Ring[u][1] => t = u
  /\ {Ring[t][1] : t \in Threads} = {Ring[t][2] : t \in Threads}

VARIABLES
  part,        \* what main() is running
  arrived,     \* the threads at the barrier
  deadlocked   \* deadlocked[t]

demoVars == <<part, arrived, deadlocked>>
allVars == <<vars, demoVars>>

Nobody == [t \in Threads |-> FALSE]
AllAt(label) == [t \in Threads |-> label]

DemoInit ==
  /\ part = "demonstrate"
  /\ pair = Ring
  /\ owner = [l \in Locks |-> NoThread]
  /\ pc = AllAt("own")
  /\ completed = Nobody
  /\ arrived = {}
  /\ deadlocked = Nobody

Goto(t, from, to) == pc[t] = from /\ pc' = [pc EXCEPT ![t] = to]

\* Taking and giving back the lock that t names first or second.
Own(t) == pair[t][1]
Other(t) == pair[t][2]
Acquire(t, l) == owner[l] = NoThread /\ owner' = [owner EXCEPT ![l] = t]
Release(t, l) == owner' = [owner EXCEPT ![l] = NoThread]

-----------------------------------------------------------------------------
(* Seeded faults.                                                           *)

\* the barrier is made for one thread less
Bug_AllArrived == \E t \in Threads : Threads \ {t} \subseteq arrived

\* no inner finally: the second lock is kept on return
Bug_ReleaseSecondTry(t) ==
  /\ Goto(t, "t_both", "t_done")
  /\ UNCHANGED <<pair, owner, completed, demoVars>>

-----------------------------------------------------------------------------
(* demonstrate_deadlock()                                                   *)

\* with lock_a:
TakeOwn(t) ==
  /\ Goto(t, "own", "arrive")
  /\ Acquire(t, Own(t))
  /\ UNCHANGED <<pair, completed, demoVars>>

\* barrier.wait() ...
Arrive(t) ==
  /\ Goto(t, "arrive", "barrier")
  /\ arrived' = arrived \cup {t}
  /\ UNCHANGED <<pair, owner, completed, part, deadlocked>>

\* ... lets its threads go once it has seen as many as it was made for
AllArrived == arrived = Threads

Pass(t) ==
  /\ Goto(t, "barrier", "try")
  /\ AllArrived
  /\ UNCHANGED <<pair, owner, completed, demoVars>>

\* lock_b.acquire(timeout=1.0) returns True
TakeOther(t) ==
  /\ Goto(t, "try", "got")
  /\ Acquire(t, Other(t))
  /\ UNCHANGED <<pair, completed, demoVars>>

ReleaseOther(t) ==
  /\ Goto(t, "got", "leave")
  /\ Release(t, Other(t))
  /\ UNCHANGED <<pair, completed, demoVars>>

\* It returns False.
GiveUp(t) ==
  /\ Goto(t, "try", "leave")
  /\ owner[Other(t)] # NoThread
  /\ deadlocked' = [deadlocked EXCEPT ![t] = TRUE]
  /\ UNCHANGED <<pair, owner, completed, part, arrived>>

\* the end of the with statement
Leave(t) ==
  /\ Goto(t, "leave", "end")
  /\ Release(t, Own(t))
  /\ UNCHANGED <<pair, completed, demoVars>>

Demonstrate(t) ==
  \/ TakeOwn(t) \/ Arrive(t) \/ Pass(t) \/ TakeOther(t) \/ ReleaseOther(t)
  \/ GiveUp(t) \/ Leave(t)

-----------------------------------------------------------------------------
(* fixed_with_global_ordering()                                             *)

Ordered(t) == Transfer(t) /\ UNCHANGED demoVars

-----------------------------------------------------------------------------
(* fixed_with_trylock()                                                     *)

\* first.acquire(timeout=0.1)
TakeFirstTry(t) ==
  /\ Goto(t, "t_first", "t_second")
  /\ Acquire(t, Own(t))
  /\ UNCHANGED <<pair, completed, demoVars>>

GiveUpFirstTry(t) ==
  /\ Goto(t, "t_first", "t_sleep")
  /\ owner[Own(t)] # NoThread
  /\ UNCHANGED <<pair, owner, completed, demoVars>>

\* second.acquire(timeout=0.1)
TakeSecondTry(t) ==
  /\ Goto(t, "t_second", "t_both")
  /\ Acquire(t, Other(t))
  /\ completed' = [completed EXCEPT ![t] = TRUE]
  /\ UNCHANGED <<pair, demoVars>>

GiveUpSecondTry(t) ==
  /\ Goto(t, "t_second", "t_giveup")
  /\ owner[Other(t)] # NoThread
  /\ UNCHANGED <<pair, owner, completed, demoVars>>

\* the inner finally
ReleaseSecondTry(t) ==
  /\ Goto(t, "t_both", "t_done")
  /\ Release(t, Other(t))
  /\ UNCHANGED <<pair, completed, demoVars>>

\* the outer finally, on return and when the second attempt failed
ReleaseFirstTry(t) ==
  /\ Goto(t, "t_done", "end") \/ Goto(t, "t_giveup", "t_sleep")
  /\ Release(t, Own(t))
  /\ UNCHANGED <<pair, completed, demoVars>>

\* time.sleep(0.01), and round the loop
Retry(t) ==
  /\ Goto(t, "t_sleep", "t_first")
  /\ UNCHANGED <<pair, owner, completed, demoVars>>

TryLock(t) ==
  \/ TakeFirstTry(t) \/ GiveUpFirstTry(t) \/ TakeSecondTry(t) \/ GiveUpSecondTry(t)
  \/ ReleaseSecondTry(t) \/ ReleaseFirstTry(t) \/ Retry(t)

-----------------------------------------------------------------------------
(* main()                                                                   *)

Joined == \A t \in Threads : pc[t] = "end"

StartOrdering ==
  /\ part = "demonstrate" /\ Joined
  /\ part' = "ordering"
  /\ pair' \in [Threads -> Pairs]
  /\ pc' = AllAt("first")
  /\ completed' = Nobody
  /\ arrived' = {} /\ deadlocked' = Nobody
  /\ UNCHANGED owner

StartTryLock ==
  /\ part = "ordering" /\ Joined
  /\ part' = "trylock"
  /\ pair' = Ring
  /\ pc' = AllAt("t_first")
  /\ completed' = Nobody
  /\ UNCHANGED <<owner, arrived, deadlocked>>

Return == part = "trylock" /\ Joined /\ UNCHANGED allVars

Main == StartOrdering \/ StartTryLock

Run(t) == Demonstrate(t) \/ Ordered(t) \/ TryLock(t)

DemoNext == (\E t \in Threads : Run(t)) \/ Main \/ Return

(* A thread that can run is eventually scheduled, and a timeout eventually  *)
(* expires.                                                                 *)
DemoSpec ==
  /\ DemoInit /\ [][DemoNext]_allVars
  /\ WF_allVars(Main)
  /\ \A t \in Threads : WF_allVars(Run(t))

-----------------------------------------------------------------------------
\* Where the threads of each part can be.
LabelsOf(p) ==
  IF p = "demonstrate" THEN {"own", "arrive", "barrier", "try", "got", "leave", "end"}
  ELSE IF p = "ordering" THEN {"first", "second", "both", "one", "end"}
  ELSE {"t_first", "t_second", "t_both", "t_giveup", "t_done", "t_sleep", "end"}

(* Type invariant.                                                          *)
DemoTypeOK ==
  /\ part \in {"demonstrate", "ordering", "trylock"}
  /\ pair \in [Threads -> Pairs] /\ (part # "ordering" => pair = Ring)
  /\ owner \in [Locks -> Threads \cup {NoThread}]
  /\ pc \in [Threads -> LabelsOf(part)]
  /\ completed \in [Threads -> BOOLEAN]
  /\ deadlocked \in [Threads -> BOOLEAN]
  /\ arrived \subseteq Threads

\* The locks that t holds by the with statements and try blocks it is in.
DemoHolds(t, l) ==
  \/ Holds(t, l)
  \/ l = Own(t) /\ pc[t] \in {"arrive", "barrier", "try", "got", "leave",
                               "t_second", "t_both", "t_giveup", "t_done"}
  \/ l = Other(t) /\ pc[t] \in {"got", "t_both"}

(* No lock is left behind and none is released by another thread, through   *)
(* every timeout, return and retry: each is owned by the thread inside its  *)
(* with statement or try block, and is free when there is none.  So main()  *)
(* starts each part with the locks free.                                    *)
LocksKept == \A t \in Threads, l \in Locks : owner[l] = t <=> DemoHolds(t, l)

(* "expected to observe a deadlock with the AB/BA ordering" (line 142): it  *)
(* is reproduced in every schedule, since the first attempt to end finds    *)
(* its lock taken.  Not every thread need report it.                        *)
AlwaysReproduced ==
  part = "demonstrate" /\ Joined => \E t \in Threads : deadlocked[t]

(* "it CANNOT hang" (line 41): neither the demonstration nor the transfers  *)
(* in lock order keep main() waiting.                                       *)
AtTryLock == part = "trylock"

(* In the try-lock part, one transfer that gets through breaks the ring     *)
(* for good: all the others then complete, however they are scheduled.      *)
OneThenAll ==
  []<>(part = "trylock" /\ \E t \in Threads : completed[t])
    => <>[](part = "trylock" /\ Joined /\ \A t \in Threads : completed[t])

(* "try-lock fix should let both threads complete" (line 152).              *)
BothComplete == <>(part = "trylock" /\ \A t \in Threads : completed[t])
=============================================================================
