--------------------------- MODULE WorkersProofs ---------------------------
(***************************************************************************)
(* The programs whose threads and processes must end with their work done, *)
(* for every number of workers, tasks, jobs, signals and restarts: no task *)
(* of the pool is lost before its pills are put, no accepted job is lost   *)
(* wherever the signals strike, and the supervisor's account of its        *)
(* children is exact whenever they crash.                                  *)
(***************************************************************************)
EXTENDS WorkerPool, GracefulShutdown, Supervisor, CircuitBreaker, SequenceTheorems, FiniteSetTheorems, TLAPS

-----------------------------------------------------------------------------
(* worker_pool.py: where the tasks are.                                     *)

Waiting == {items[k] : k \in 1 .. Len(items)}

\* The workers with a task whose fate is open, and those that owe task_done().
Holders == {w \in Workers : wpc[w] \in {"work", "record"}}
Busy == {w \in Workers : wpc[w] \in {"work", "record", "raised", "finally"}}

\* The tasks submitted whose result is neither recorded nor given up.
Open == (Waiting \cup {task[w] : w \in Holders}) \cap Tasks

\* The tasks whose result is recorded.
Recorded == {n \in Good : n < i /\ n \notin Open}

PoolTypeOK ==
  /\ items \in Seq(Tasks \cup {SHUTDOWN}) /\ unfinished \in Nat
  /\ wpc \in [Workers -> {"get", "work", "record", "raised", "finally", "exited", "died"}]
  /\ task \in [Workers -> Tasks \cup {SHUTDOWN}]
  /\ completedCount \in Nat /\ results \in Seq(Nat)
  /\ mpc \in {"submit", "pills", "returned"} /\ i \in 0 .. NumTasks

(* A task is in one place at most: queued once, or in one worker's hands.   *)
OnePlace ==
  /\ \A j, k \in 1 .. Len(items) : items[j] = items[k] /\ items[j] \in Tasks => j = k
  /\ \A w \in Holders : task[w] \in Tasks \ Waiting
  /\ \A v, w \in Holders : task[v] = task[w] => v = w
  /\ \A w \in Workers : wpc[w] = "record" => task[w] \in Good
  /\ \A n \in Open : n < i

(* The result of every recorded task is there, and nothing else.            *)
ResultsMatch ==
  /\ completedCount = Cardinality(Recorded) /\ Len(results) = Cardinality(Recorded)
  /\ ToSet(results) = {n * n : n \in Recorded}

(* What join() waits for is what is queued and what is being worked on.     *)
UnfinishedExact == unfinished = Len(items) + Cardinality(Busy)

(* Past join() all tasks were submitted and none is open.                   *)
DrainedStays == mpc # "submit" => i = NumTasks /\ Open = {}

PoolIInv == PoolTypeOK /\ OnePlace /\ ResultsMatch /\ UnfinishedExact /\ DrainedStays

-----------------------------------------------------------------------------
(* Facts about sequences and counts.                                        *)

LEMMA HeadLeaves ==
  ASSUME NEW S, NEW s \in Seq(S), s # << >>
  PROVE  /\ Len(s) \in Nat \ {0} /\ Head(s) = s[1] /\ Head(s) \in S
         /\ Tail(s) \in Seq(S) /\ Len(Tail(s)) = Len(s) - 1
         /\ \A k \in 1 .. Len(s) - 1 : Tail(s)[k] = s[k + 1]
BY HeadTailProperties, EmptySeq, LenProperties

LEMMA LastJoins ==
  ASSUME NEW S, NEW s \in Seq(S), NEW e \in S
  PROVE  /\ Append(s, e) \in Seq(S) /\ Len(s) \in Nat /\ Len(Append(s, e)) = Len(s) + 1
         /\ \A k \in 1 .. Len(s) : Append(s, e)[k] = s[k]
         /\ Append(s, e)[Len(s) + 1] = e
         /\ ToSet(Append(s, e)) = ToSet(s) \cup {e}
<1>1. /\ Append(s, e) \in Seq(S) /\ Len(s) \in Nat /\ Len(Append(s, e)) = Len(s) + 1
      /\ \A k \in 1 .. Len(s) : Append(s, e)[k] = s[k]
      /\ Append(s, e)[Len(s) + 1] = e
  BY AppendProperties, LenProperties
<1>2. DOMAIN s = 1 .. Len(s) /\ DOMAIN Append(s, e) = 1 .. Len(s) + 1
  BY <1>1, LenProperties
<1>3. \A k \in 1 .. Len(s) + 1 : k \in 1 .. Len(s) \/ k = Len(s) + 1
  BY <1>1
<1>4. 1 .. Len(s) \subseteq 1 .. Len(s) + 1 /\ Len(s) + 1 \in 1 .. Len(s) + 1
  BY <1>1
<1>5. ToSet(Append(s, e)) = ToSet(s) \cup {e}
  BY <1>1, <1>2, <1>3, <1>4 DEF ToSet
<1> QED
  BY <1>1, <1>5

-----------------------------------------------------------------------------
(* The pool's inductive invariant.                                          *)

LEMMA BusyFinite == IsFiniteSet(Busy) /\ Cardinality(Busy) \in Nat
<1>1. IsFiniteSet(Busy)
  BY PoolAssumption, FS_Subset DEF Busy
<1> QED
  BY <1>1, FS_CardinalityType

LEMMA RecordedFinite == IsFiniteSet(Recorded) /\ Cardinality(Recorded) \in Nat
<1>1. IsFiniteSet(0 .. NumTasks - 1)
  BY PoolAssumption, FS_Interval
<1>2. IsFiniteSet(Recorded)
  BY <1>1, FS_Subset DEF Recorded, Good, Tasks
<1> QED
  BY <1>2, FS_CardinalityType

LEMMA PoolInitInv == PoolInit => PoolIInv
<1> SUFFICES ASSUME PoolInit PROVE PoolIInv
  OBVIOUS
<1> USE DEF PoolInit, QueueInit
<1>1. Len(items) = 0 /\ items = << >> /\ results = << >> /\ Len(results) = 0
  BY EmptySeq
<1>2. Waiting = {} /\ Holders = {} /\ Busy = {}
  BY <1>1 DEF Waiting, Holders, Busy
<1>3. Open = {} /\ Recorded = {}
  BY <1>2, PoolAssumption DEF Open, Recorded, Good, Tasks
<1>4. Cardinality(Busy) = 0 /\ Cardinality(Recorded) = 0
  BY <1>2, <1>3, FS_EmptySet
<1>5. PoolTypeOK
  BY PoolAssumption, EmptySeq DEF PoolTypeOK
<1>6. OnePlace
  BY <1>1, <1>2, <1>3 DEF OnePlace
<1>7. DOMAIN results = {}
  BY <1>1, LenProperties, EmptySeq
<1>8. ToSet(results) = {} /\ {n * n : n \in Recorded} = {}
  BY <1>3, <1>7 DEF ToSet
<1>9. ResultsMatch
  BY <1>1, <1>4, <1>8 DEF ResultsMatch
<1>10. UnfinishedExact /\ DrainedStays
  BY <1>1, <1>4 DEF UnfinishedExact, DrainedStays
<1> QED
  BY <1>5, <1>6, <1>9, <1>10 DEF PoolIInv

\* What depends on the results and the open tasks alone.
LEMMA SameRecord ==
  ASSUME ResultsMatch, Recorded' = Recorded, UNCHANGED <<completedCount, results>>
  PROVE  ResultsMatch'
BY DEF ResultsMatch

(* get() (worker_pool.py, line 66): a task goes from the queue into one     *)
(* worker's hands; a pill leaves the tasks where they are.                  *)
LEMMA TakeInv ==
  ASSUME PoolIInv, NEW w \in Workers, Take(w)
  PROVE  PoolIInv'
<1> DEFINE h == Head(items)
           n == Len(items)
           rest == Tail(items)
<1> USE DEF PoolIInv
<1>1. /\ wpc[w] = "get" /\ items # << >> /\ items' = rest /\ unfinished' = unfinished
      /\ task' = [task EXCEPT ![w] = h]
      /\ wpc' = [wpc EXCEPT ![w] = IF h = SHUTDOWN THEN "finally" ELSE "work"]
      /\ UNCHANGED <<completedCount, results, mainVars>>
  BY DEF Take, QueueGet
<1>2. /\ n \in Nat \ {0} /\ h = items[1] /\ h \in Tasks \cup {SHUTDOWN}
      /\ rest \in Seq(Tasks \cup {SHUTDOWN}) /\ Len(rest) = n - 1
      /\ \A k \in 1 .. n - 1 : rest[k] = items[k + 1]
  BY <1>1, HeadLeaves DEF PoolTypeOK
<1>3. n = Len(items)
  OBVIOUS
<1> HIDE DEF h, n, rest
<1>4. \A v \in Workers : v # w => task'[v] = task[v] /\ wpc'[v] = wpc[v]
  BY <1>1 DEF PoolTypeOK
<1>5. task'[w] = h /\ wpc'[w] = IF h = SHUTDOWN THEN "finally" ELSE "work"
  BY <1>1 DEF PoolTypeOK
<1>6. SHUTDOWN \notin Tasks
  BY PoolAssumption
<1>7. PoolTypeOK'
  BY <1>1, <1>2 DEF PoolTypeOK, mainVars
<1>8. Waiting = Waiting' \cup {h}
  <2>1. Waiting' = {rest[k] : k \in 1 .. n - 1}
    BY <1>1, <1>2 DEF Waiting
  <2>2. \A k \in 1 .. n - 1 : k + 1 \in 1 .. n
    BY <1>2
  <2>3. Waiting' \cup {h} \subseteq Waiting
    <3>1. Waiting = {items[k] : k \in 1 .. n} /\ 1 \in 1 .. n
      BY <1>2, <1>3 DEF Waiting
    <3>2. \A k \in 1 .. n - 1 : rest[k] \in Waiting
      BY <1>2, <2>2, <3>1
    <3> QED
      BY <1>2, <2>1, <3>1, <3>2
  <2>4. ASSUME NEW k \in 1 .. n PROVE items[k] \in Waiting' \cup {h}
    <3>1. CASE k = 1
      BY <3>1, <1>2
    <3>2. CASE k # 1
      <4>1. k - 1 \in 1 .. n - 1 /\ (k - 1) + 1 = k
        BY <3>2, <1>2
      <4>2. rest[k - 1] = items[k]
        BY <4>1, <1>2
      <4> QED
        BY <4>1, <4>2, <2>1
    <3> QED
      BY <3>1, <3>2
  <2> QED
    BY <2>3, <2>4, <1>3 DEF Waiting
<1>9. h \in Tasks => h \notin Waiting'
  <2> SUFFICES ASSUME h \in Tasks, NEW k \in 1 .. n - 1, rest[k] = h PROVE FALSE
    BY <1>1, <1>2 DEF Waiting
  <2>1. k + 1 \in 1 .. n /\ 1 \in 1 .. n /\ k + 1 # 1
    BY <1>2
  <2>2. items[k + 1] = items[1]
    BY <1>2
  <2> QED
    BY <1>2, <1>3, <2>1, <2>2 DEF OnePlace
<1>10. w \notin Holders /\ w \notin Busy
  BY <1>1 DEF Holders, Busy
<1>11. Holders' = IF h = SHUTDOWN THEN Holders ELSE Holders \cup {w}
  BY <1>1, <1>4, <1>5 DEF Holders
<1>12. \A v \in Holders : v # w /\ task'[v] = task[v]
  BY <1>4, <1>10 DEF Holders
<1>13. Open' = Open
  <2>1. CASE h = SHUTDOWN
    BY <2>1, <1>6, <1>8, <1>11, <1>12 DEF Open, Tasks
  <2>2. CASE h # SHUTDOWN
    BY <2>2, <1>5, <1>8, <1>11, <1>12 DEF Open, Tasks
  <2> QED
    BY <2>1, <2>2
<1>14. Recorded' = Recorded
  BY <1>1, <1>13 DEF Recorded, mainVars, Good, Tasks
<1>15. OnePlace'
  <2>1. \A j, k \in 1 .. Len(items') : items'[j] = items'[k] /\ items'[j] \in Tasks => j = k
    <3> SUFFICES ASSUME NEW j \in 1 .. n - 1, NEW k \in 1 .. n - 1,
                        rest[j] = rest[k], rest[j] \in Tasks
                 PROVE  j = k
      BY <1>1, <1>2
    <3>1. j + 1 \in 1 .. n /\ k + 1 \in 1 .. n
      BY <1>2
    <3>2. items[j + 1] = items[k + 1] /\ items[j + 1] \in Tasks
      BY <1>2
    <3>3. j + 1 = k + 1
      BY <1>3, <3>1, <3>2 DEF OnePlace
    <3> QED
      BY <3>3
  <2>2. ASSUME NEW v \in Holders' PROVE task'[v] \in Tasks \ Waiting'
    <3>1. CASE v \in Holders
      BY <3>1, <1>8, <1>12 DEF OnePlace
    <3>2. CASE v = w /\ h # SHUTDOWN
      BY <3>2, <1>2, <1>5, <1>9
    <3> QED
      BY <3>1, <3>2, <1>11
  <2>3. ASSUME NEW u \in Holders', NEW v \in Holders', task'[u] = task'[v] PROVE u = v
    <3>1. h \in Waiting
      BY <1>8
    <3>2. \A x \in Holders : task'[x] # h
      BY <3>1, <1>12 DEF OnePlace
    <3>3. CASE u \in Holders /\ v \in Holders
      BY <3>3, <2>3, <1>12 DEF OnePlace
    <3>4. CASE ~(u \in Holders /\ v \in Holders)
      BY <3>2, <3>4, <2>3, <1>5, <1>11
    <3> QED
      BY <3>3, <3>4
  <2>4. \A v \in Workers : wpc'[v] = "record" => task'[v] \in Good
    BY <1>4, <1>5 DEF OnePlace
  <2>5. \A m \in Open' : m < i'
    BY <1>1, <1>13 DEF OnePlace, mainVars
  <2> QED
    BY <2>1, <2>2, <2>3, <2>4, <2>5 DEF OnePlace, Tasks, Good
<1>16. ResultsMatch'
  BY <1>1, <1>14, SameRecord
<1>17. UnfinishedExact'
  <2>1. Busy' = Busy \cup {w}
    BY <1>4, <1>5 DEF Busy
  <2>2. Cardinality(Busy') = Cardinality(Busy) + 1
    BY <2>1, <1>10, BusyFinite, FS_AddElement
  <2>3. unfinished = n + Cardinality(Busy) /\ Cardinality(Busy) \in Nat
    BY <1>3, BusyFinite DEF UnfinishedExact
  <2>4. unfinished' = Len(items') + Cardinality(Busy')
    BY <2>2, <2>3, <1>1, <1>2
  <2> QED
    BY <2>4 DEF UnfinishedExact
<1>18. DrainedStays'
  BY <1>1, <1>13 DEF DrainedStays, mainVars
<1> QED
  BY <1>7, <1>15, <1>16, <1>17, <1>18


(* _do_work() (line 72): a task that raises is open no more, and has no     *)
(* result.                                                                  *)
LEMMA DoWorkInv ==
  ASSUME PoolIInv, NEW w \in Workers, DoWork(w)
  PROVE  PoolIInv'
<1> USE DEF PoolIInv
<1>1. /\ wpc[w] = "work" /\ UNCHANGED <<items, unfinished, task, completedCount, results, mainVars>>
      /\ wpc' = [wpc EXCEPT ![w] = IF task[w] \in BadTasks THEN "raised" ELSE "record"]
  BY DEF DoWork, queueVars
<1>2. \A v \in Workers : v # w => wpc'[v] = wpc[v]
  BY <1>1 DEF PoolTypeOK
<1>3. wpc'[w] = IF task[w] \in BadTasks THEN "raised" ELSE "record"
  BY <1>1 DEF PoolTypeOK
<1>4. PoolTypeOK'
  BY <1>1 DEF PoolTypeOK, mainVars
<1>5. Waiting' = Waiting
  BY <1>1 DEF Waiting
<1>6. Holders' = IF task[w] \in BadTasks THEN Holders \ {w} ELSE Holders
  BY <1>1, <1>2, <1>3 DEF Holders
<1>7. w \in Holders
  BY <1>1 DEF Holders
<1>8. Open' \subseteq Open /\ Open \ Open' \subseteq BadTasks
  BY <1>1, <1>5, <1>6 DEF Open, Tasks
<1>9. Recorded' = Recorded
  BY <1>1, <1>8 DEF Recorded, Good, mainVars, Tasks
<1>10. OnePlace'
  <2>1. Holders' \subseteq Holders
    BY <1>6
  <2>2. \A j, k \in 1 .. Len(items') : items'[j] = items'[k] /\ items'[j] \in Tasks => j = k
    BY <1>1 DEF OnePlace
  <2>3. /\ \A v \in Holders' : task'[v] \in Tasks \ Waiting'
        /\ \A u, v \in Holders' : task'[u] = task'[v] => u = v
    BY <1>1, <1>5, <2>1 DEF OnePlace
  <2>4. \A v \in Workers : wpc'[v] = "record" => task'[v] \in Good
    BY <1>1, <1>2, <1>3, <1>7 DEF OnePlace, Good
  <2>5. \A m \in Open' : m < i'
    BY <1>1, <1>8 DEF OnePlace, mainVars
  <2> QED
    BY <2>2, <2>3, <2>4, <2>5 DEF OnePlace, Tasks, Good
<1>11. ResultsMatch'
  BY <1>1, <1>9, SameRecord
<1>12. Busy' = Busy
  BY <1>1, <1>2, <1>3 DEF Busy
<1>13. UnfinishedExact'
  BY <1>1, <1>12 DEF UnfinishedExact
<1>14. DrainedStays'
  BY <1>1, <1>8 DEF DrainedStays, mainVars
<1> QED
  BY <1>4, <1>10, <1>11, <1>13, <1>14

(* Under the lock (lines 73-75): one open task less, one result more.       *)
LEMMA RecordInv ==
  ASSUME PoolIInv, NEW w \in Workers, Record(w)
  PROVE  PoolIInv'
<1> DEFINE n == task[w]
<1> USE DEF PoolIInv
<1>1. /\ wpc[w] = "record" /\ UNCHANGED <<items, unfinished, task, mainVars>>
      /\ wpc' = [wpc EXCEPT ![w] = "finally"]
      /\ completedCount' = completedCount + 1 /\ results' = Append(results, n * n)
  BY DEF Record, queueVars
<1>2. /\ \A v \in Workers : v # w => wpc'[v] = wpc[v]
      /\ wpc'[w] = "finally"
  BY <1>1 DEF PoolTypeOK
<1>3. w \in Holders /\ n \in Good /\ n \in Tasks /\ n \notin Waiting /\ n \in Open
  BY <1>1 DEF Holders, OnePlace, Open
<1>4. n < i /\ n \in Nat
  BY <1>3, PoolAssumption DEF OnePlace, Tasks
<1>5. n * n \in Nat
  BY <1>4
<1>6. task'[w] = n /\ \A v \in Workers : task'[v] = task[v]
  BY <1>1
<1>7. n \notin {task[v] : v \in Holders \ {w}}
  BY <1>3 DEF OnePlace
<1> HIDE DEF n
<1>8. /\ results' \in Seq(Nat) /\ Len(results) \in Nat /\ Len(results') = Len(results) + 1
      /\ ToSet(results') = ToSet(results) \cup {n * n}
  <2> DEFINE sq == n * n
  <2>1. sq \in Nat /\ results \in Seq(Nat) /\ results' = Append(results, sq)
    BY <1>1, <1>5 DEF PoolTypeOK
  <2> HIDE DEF sq
  <2>2. /\ results' \in Seq(Nat) /\ Len(results) \in Nat /\ Len(results') = Len(results) + 1
        /\ ToSet(results') = ToSet(results) \cup {sq}
    BY <2>1, LastJoins
  <2> QED
    BY <2>2 DEF sq
<1>9. PoolTypeOK'
  BY <1>1, <1>8 DEF PoolTypeOK, mainVars
<1>10. Holders' = Holders \ {w} /\ Waiting' = Waiting
  BY <1>1, <1>2 DEF Holders, Waiting
<1>11. {task'[v] : v \in Holders'} = {task[v] : v \in Holders} \ {n}
  <2>1. \A v \in Holders : v # w => task[v] # n
    BY <1>7
  <2>2. task[w] = n
    BY DEF n
  <2> QED
    BY <1>1, <1>3, <1>10, <2>1, <2>2
<1>12. Open' = Open \ {n}
  BY <1>3, <1>10, <1>11 DEF Open, Tasks
<1>13. Recorded' = Recorded \cup {n} /\ n \notin Recorded
  BY <1>1, <1>3, <1>4, <1>12 DEF Recorded, Good, mainVars, Tasks
<1>14. OnePlace'
  <2>1. \A j, k \in 1 .. Len(items') : items'[j] = items'[k] /\ items'[j] \in Tasks => j = k
    BY <1>1 DEF OnePlace
  <2>2. /\ \A v \in Holders' : task'[v] \in Tasks \ Waiting'
        /\ \A u, v \in Holders' : task'[u] = task'[v] => u = v
    BY <1>1, <1>10 DEF OnePlace
  <2>3. \A v \in Workers : wpc'[v] = "record" => task'[v] \in Good
    BY <1>1, <1>2 DEF OnePlace, Good
  <2>4. \A m \in Open' : m < i'
    BY <1>1, <1>12 DEF OnePlace, mainVars
  <2> QED
    BY <2>1, <2>2, <2>3, <2>4 DEF OnePlace, Tasks, Good
<1>15. ResultsMatch'
  <2>1. Cardinality(Recorded') = Cardinality(Recorded) + 1
    BY <1>13, RecordedFinite, FS_AddElement
  <2>2. {m * m : m \in Recorded'} = {m * m : m \in Recorded} \cup {n * n}
    BY <1>13
  <2>3. completedCount' = Cardinality(Recorded') /\ Len(results') = Cardinality(Recorded')
    BY <1>1, <1>8, <2>1 DEF ResultsMatch
  <2>4. ToSet(results') = {m * m : m \in Recorded'}
    BY <1>8, <2>2 DEF ResultsMatch
  <2> QED
    BY <2>3, <2>4 DEF ResultsMatch
<1>16. Busy' = Busy
  BY <1>1, <1>2 DEF Busy
<1>17. UnfinishedExact'
  BY <1>1, <1>16 DEF UnfinishedExact
<1>18. DrainedStays'
  BY <1>1, <1>12 DEF DrainedStays, mainVars
<1> QED
  BY <1>9, <1>14, <1>15, <1>17, <1>18

(* task_done() in the finally clause (line 80): what was counted for this   *)
(* worker is counted no more.                                               *)
LEMMA FinishInv ==
  ASSUME PoolIInv, NEW w \in Workers, FinallyDone(w)
  PROVE  PoolIInv'
<1> USE DEF PoolIInv
<1>1. /\ wpc[w] \in {"finally", "raised"} /\ unfinished' = unfinished - 1
      /\ UNCHANGED <<items, task, completedCount, results, mainVars>>
      /\ wpc' = [wpc EXCEPT ![w] = IF wpc[w] = "raised" THEN "died"
                                   ELSE IF task[w] = SHUTDOWN THEN "exited" ELSE "get"]
  BY DEF FinallyDone, QueueTaskDone
<1>2. /\ \A v \in Workers : v # w => wpc'[v] = wpc[v]
      /\ wpc'[w] \in {"died", "exited", "get"}
  BY <1>1 DEF PoolTypeOK
<1>3. Holders' = Holders /\ Waiting' = Waiting /\ Busy' = Busy \ {w} /\ w \in Busy
  BY <1>1, <1>2 DEF Holders, Waiting, Busy
<1>4. Open' = Open /\ Recorded' = Recorded
  BY <1>1, <1>3 DEF Open, Recorded, Good, mainVars, Tasks
<1>5. UnfinishedExact' /\ unfinished' \in Nat
  <2>1. Cardinality(Busy') = Cardinality(Busy) - 1
    BY <1>3, BusyFinite, FS_RemoveElement
  <2>2. Cardinality(Busy) # 0
    BY <1>3, BusyFinite, FS_EmptySet
  <2>3. Cardinality(Busy) \in Nat /\ Len(items) \in Nat
    BY BusyFinite, LenProperties DEF PoolTypeOK
  <2>4. unfinished = Len(items) + Cardinality(Busy)
    BY DEF UnfinishedExact
  <2>5. unfinished' = Len(items') + Cardinality(Busy') /\ unfinished' \in Nat
    BY <1>1, <2>1, <2>2, <2>3, <2>4
  <2> QED
    BY <2>5 DEF UnfinishedExact
<1>6. PoolTypeOK'
  BY <1>1, <1>5 DEF PoolTypeOK, mainVars
<1>7. OnePlace'
  BY <1>1, <1>2, <1>3, <1>4 DEF OnePlace, mainVars, Tasks, Good
<1>8. ResultsMatch'
  BY <1>1, <1>4, SameRecord
<1>9. DrainedStays'
  BY <1>1, <1>4 DEF DrainedStays, mainVars
<1> QED
  BY <1>5, <1>6, <1>7, <1>8, <1>9

\* put() (lines 95 and 107): one item more to wait for.
LEMMA PutInv ==
  ASSUME PoolIInv, NEW v \in Tasks \cup {SHUTDOWN}, v \in Tasks => v = i /\ i < NumTasks,
         QueuePut(v), UNCHANGED <<wpc, task, completedCount, results, mpc>>,
         i' = IF v \in Tasks THEN i + 1 ELSE i,
         v \in Tasks => mpc = "submit"
  PROVE  PoolIInv'
<1> DEFINE n == Len(items)
<1> USE DEF PoolIInv
<1>1. items' = Append(items, v) /\ unfinished' = unfinished + 1
  BY DEF QueuePut
<1>2. /\ items' \in Seq(Tasks \cup {SHUTDOWN}) /\ n \in Nat /\ Len(items') = n + 1
      /\ \A k \in 1 .. n : items'[k] = items[k]
      /\ items'[n + 1] = v
  BY <1>1, LastJoins DEF PoolTypeOK
<1>3. n = Len(items)
  OBVIOUS
<1> HIDE DEF n
<1>4. /\ \A k \in 1 .. n + 1 : k \in 1 .. n \/ k = n + 1
      /\ 1 .. n \subseteq 1 .. n + 1 /\ n + 1 \in 1 .. n + 1
  BY <1>2
<1>5. i \in Nat /\ NumTasks \in Nat /\ i <= NumTasks
  BY PoolAssumption DEF PoolTypeOK
<1>6. PoolTypeOK'
  BY <1>1, <1>2, <1>5 DEF PoolTypeOK
<1>7. Waiting' = Waiting \cup {v} /\ Holders' = Holders /\ Busy' = Busy
  <2>1. Waiting = {items[k] : k \in 1 .. n} /\ Waiting' = {items'[k] : k \in 1 .. n + 1}
    BY <1>2, <1>3 DEF Waiting
  <2>2. Waiting' = Waiting \cup {v}
    BY <2>1, <1>2, <1>4
  <2> QED
    BY <2>2 DEF Holders, Busy
<1>8. Open' = Open \cup ({v} \cap Tasks)
  BY <1>7 DEF Open, Tasks
<1>9. v \in Tasks => v \notin Open
  BY <1>5 DEF OnePlace
<1>10. \A m \in Good : m \in Nat
  BY PoolAssumption DEF Good, Tasks
<1>11. Recorded' = Recorded
  BY <1>5, <1>8, <1>9, <1>10 DEF Recorded, Good, Tasks
<1>12. OnePlace'
  <2>1. ASSUME NEW j \in 1 .. n, items[j] = v PROVE v \notin Tasks
    BY <2>1, <1>3, <1>9 DEF Open, Waiting
  <2>2. ASSUME NEW j \in 1 .. Len(items'), NEW k \in 1 .. Len(items'),
               items'[j] = items'[k], items'[j] \in Tasks
        PROVE  j = k
    <3>1. (j \in 1 .. n \/ j = n + 1) /\ (k \in 1 .. n \/ k = n + 1)
      BY <1>2, <1>4
    <3>2. CASE j \in 1 .. n /\ k \in 1 .. n
      BY <3>2, <2>2, <1>2, <1>3 DEF OnePlace
    <3>3. CASE j = n + 1 \/ k = n + 1
      BY <3>1, <3>3, <2>1, <2>2, <1>2
    <3> QED
      BY <3>1, <3>2, <3>3
  <2>3. /\ \A x \in Holders' : task'[x] \in Tasks \ Waiting'
        /\ \A x, y \in Holders' : task'[x] = task'[y] => x = y
    <3>1. \A x \in Holders : task[x] \in Tasks => task[x] \in Open
      BY DEF Open
    <3> QED
      BY <3>1, <1>7, <1>9 DEF OnePlace
  <2>4. \A x \in Workers : wpc'[x] = "record" => task'[x] \in Good
    BY DEF OnePlace
  <2>5. \A m \in Open' : m < i'
    <3>1. \A m \in Open : m \in Nat /\ m < i
      BY PoolAssumption DEF OnePlace, Open, Tasks
    <3>2. i <= i' /\ (v \in Tasks => v < i')
      BY <1>5
    <3> QED
      BY <3>1, <3>2, <1>5, <1>8
  <2> QED
    BY <2>2, <2>3, <2>4, <2>5 DEF OnePlace, Tasks, Good
<1>13. ResultsMatch'
  BY <1>11, SameRecord
<1>14. UnfinishedExact'
  <2>1. unfinished = n + Cardinality(Busy) /\ Cardinality(Busy) \in Nat
    BY <1>3, BusyFinite DEF UnfinishedExact
  <2>2. unfinished' = Len(items') + Cardinality(Busy')
    BY <2>1, <1>1, <1>2, <1>7
  <2> QED
    BY <2>2 DEF UnfinishedExact
<1>15. DrainedStays'
  BY <1>8 DEF DrainedStays
<1> QED
  BY <1>6, <1>12, <1>13, <1>14, <1>15

(* join() returns (line 103): nothing queued, nobody busy, nothing open.    *)
LEMMA JoinInv ==
  ASSUME PoolIInv, Join
  PROVE  PoolIInv'
<1> USE DEF PoolIInv
<1>1. /\ i = NumTasks /\ unfinished = 0 /\ mpc' = "pills"
      /\ UNCHANGED <<items, unfinished, wpc, task, completedCount, results, i>>
  BY DEF Join, TasksJoined, QueueJoined, queueVars, workVars
<1>2. Len(items) = 0 /\ Busy = {}
  <2>1. Len(items) \in Nat /\ Cardinality(Busy) \in Nat
    BY BusyFinite, LenProperties DEF PoolTypeOK
  <2>2. Len(items) = 0 /\ Cardinality(Busy) = 0
    BY <1>1, <2>1 DEF UnfinishedExact
  <2> QED
    BY <2>2, BusyFinite, FS_EmptySet
<1>3. Waiting = {} /\ Holders = {}
  BY <1>2 DEF Waiting, Holders, Busy
<1>4. Open = {}
  BY <1>3 DEF Open
<1>5. /\ Waiting' = Waiting /\ Holders' = Holders /\ Busy' = Busy
      /\ Open' = Open /\ Recorded' = Recorded
  BY <1>1 DEF Waiting, Holders, Busy, Open, Recorded, Good, Tasks
<1>6. PoolTypeOK'
  BY <1>1 DEF PoolTypeOK
<1>7. OnePlace'
  BY <1>1, <1>5 DEF OnePlace, Tasks, Good
<1>8. ResultsMatch'
  BY <1>1, <1>5, SameRecord
<1>9. UnfinishedExact' /\ DrainedStays'
  BY <1>1, <1>4, <1>5 DEF UnfinishedExact, DrainedStays
<1> QED
  BY <1>6, <1>7, <1>8, <1>9

\* Steps that leave the queue and the workers alone and do not go past join().
LEMMA PoolQuiet ==
  ASSUME PoolIInv, UNCHANGED <<items, unfinished, wpc, task, completedCount, results, i>>,
         mpc' = mpc \/ (mpc # "submit" /\ mpc' = "returned")
  PROVE  PoolIInv'
<1> USE DEF PoolIInv
<1>1. /\ Waiting' = Waiting /\ Holders' = Holders /\ Busy' = Busy
      /\ Open' = Open /\ Recorded' = Recorded
  BY DEF Waiting, Holders, Busy, Open, Recorded, Good, Tasks
<1>2. PoolTypeOK'
  BY DEF PoolTypeOK
<1>3. OnePlace'
  BY <1>1 DEF OnePlace, Tasks, Good
<1>4. ResultsMatch'
  BY <1>1, SameRecord
<1>5. UnfinishedExact' /\ DrainedStays'
  BY <1>1 DEF UnfinishedExact, DrainedStays
<1> QED
  BY <1>2, <1>3, <1>4, <1>5

LEMMA PoolNextInv == PoolIInv /\ [PoolNext]_poolVars => PoolIInv'
<1> SUFFICES ASSUME PoolIInv, [PoolNext]_poolVars PROVE PoolIInv'
  OBVIOUS
<1>1. ASSUME NEW w \in Workers, WorkerStep(w) PROVE PoolIInv'
  BY <1>1, TakeInv, DoWorkInv, RecordInv, FinishInv DEF WorkerStep
<1>2. CASE Submit
  <2>1. i \in Nat /\ NumTasks \in Nat /\ i < NumTasks
    BY <1>2, PoolAssumption DEF PoolIInv, PoolTypeOK, Submit
  <2>2. i \in Tasks
    BY <2>1 DEF Tasks
  <2> QED
    BY <1>2, <2>1, <2>2, PutInv DEF Submit, workVars
<1>3. CASE PutPill
  BY <1>3, PutInv, PoolAssumption DEF PutPill, workVars
<1>4. CASE Join
  BY <1>4, JoinInv
<1>5. CASE Reap \/ PoolReturn
  BY <1>5, PoolQuiet DEF Reap, PoolReturn, queueVars, workVars
<1>6. CASE UNCHANGED poolVars
  BY <1>6, PoolQuiet DEF poolVars, queueVars, workVars, mainVars
<1> QED
  BY <1>1, <1>2, <1>3, <1>4, <1>5, <1>6 DEF PoolNext, MainStep

(* "drain all work, then stop every worker" (line 99), for any number of    *)
(* workers and tasks, any queue and whichever tasks raise: shutdown() does  *)
(* not go past join() before every result is recorded, each once.           *)
THEOREM DrainedFirst == PoolSpec => []DrainedBeforePills
<1>1. PoolIInv => DrainedBeforePills
  <2> SUFFICES ASSUME PoolIInv, mpc # "submit"
               PROVE  /\ completedCount = Cardinality(Good) /\ Len(results) = Cardinality(Good)
                      /\ ToSet(results) = {n * n : n \in Good}
    BY DEF DrainedBeforePills
  <2>1. Recorded = Good
    BY PoolAssumption DEF PoolIInv, DrainedStays, Recorded, Good, Tasks
  <2> QED
    BY <2>1 DEF PoolIInv, ResultsMatch
<1> QED
  BY <1>1, PoolInitInv, PoolNextInv, PTL DEF PoolSpec

-----------------------------------------------------------------------------
(* supervisor.py: what run() has written down of its children.              *)

Power(n) == BackoffFactor ^ n

SupTypeOK ==
  /\ restarts \in 0 .. MaxRestarts /\ exitcode \in Nat
  /\ exitCodes \in Seq(Nat) /\ backoffs \in Seq(Nat)
  /\ sup \in {"join", "sleep", "returned"}

(* One exit code per child that was reaped, and all but the last a crash.   *)
CodesExact ==
  /\ Len(exitCodes) = restarts + (IF sup = "returned" THEN 1 ELSE 0)
  /\ \A k \in 1 .. restarts : exitCodes[k] # 0
  /\ sup = "returned" => exitCodes[restarts + 1] = 0 \/ restarts = MaxRestarts

(* One backoff per restart, the next power each time.                       *)
BackoffsExact ==
  /\ Len(backoffs) = restarts
  /\ Power(restarts) \in Nat \ {0}
  /\ restarts > 0 => /\ Power(restarts - 1) \in Nat \ {0}
                     /\ backoffs[restarts] = BaseBackoff * Power(restarts - 1)
  /\ \A k \in 2 .. restarts : backoffs[k - 1] < backoffs[k]

SupIInv == SupTypeOK /\ CodesExact /\ BackoffsExact

\* The next backoff is longer.
LEMMA NextLonger ==
  ASSUME NEW b \in Nat \ {0}, NEW q \in Nat \ {0}, NEW f \in Nat \ {0, 1}
  PROVE  b * q < b * (q * f) /\ q * f \in Nat \ {0} /\ b * q \in Nat
<1> DEFINE x == b * q
<1>1. x \in Nat \ {0} /\ q * f \in Nat \ {0}
  OBVIOUS
<1>2. b * (q * f) = x * f
  OBVIOUS
<1> HIDE DEF x
<1>3. x < x * f
  BY <1>1
<1> QED
  BY <1>1, <1>2, <1>3 DEF x

LEMMA SupInitInv == SupInit => SupIInv
<1> SUFFICES ASSUME SupInit PROVE SupIInv
  OBVIOUS
<1>1. << >> \in Seq(Nat) /\ Len(<< >>) = 0
  BY EmptySeq
<1>2. SupTypeOK
  BY <1>1, SupervisorAssumption DEF SupInit, SupTypeOK
<1>3. CodesExact
  BY <1>1, SupervisorAssumption DEF SupInit, CodesExact
<1>4. Power(0) = 1
  BY PowerAssumption DEF Power
<1>5. BackoffsExact
  BY <1>1, <1>4 DEF SupInit, BackoffsExact
<1> QED
  BY <1>2, <1>3, <1>5 DEF SupIInv

(* run() after join() (supervisor.py, lines 92-113): a crash below the      *)
(* limit adds one code and one longer backoff, anything else ends it.       *)
LEMMA ReapedInv ==
  ASSUME SupIInv, Reaped
  PROVE  SupIInv'
<1> DEFINE r == restarts
           codes == exitCodes'
<1> USE DEF SupIInv
<1>1. /\ sup = "join" /\ codes = Append(exitCodes, exitcode) /\ exitcode' = exitcode
      /\ Len(exitCodes) = r /\ exitcode \in Nat
  BY DEF Reaped, SupTypeOK, CodesExact
<1>2. r \in Nat /\ MaxRestarts \in Nat /\ r <= MaxRestarts
  BY SupervisorAssumption DEF SupTypeOK
<1>3. /\ codes \in Seq(Nat) /\ Len(codes) = r + 1 /\ codes[r + 1] = exitcode
      /\ \A k \in 1 .. r : codes[k] = exitCodes[k]
  BY <1>1, LastJoins DEF SupTypeOK
<1>4. CASE Clean(exitcode) \/ LimitReached
  <2>1. sup' = "returned" /\ UNCHANGED <<restarts, backoffs>>
    BY <1>4 DEF Reaped
  <2>2. exitcode = 0 \/ r = MaxRestarts
    BY <1>2, <1>4 DEF Clean, LimitReached
  <2>3. SupTypeOK'
    BY <1>1, <1>3, <2>1 DEF SupTypeOK
  <2>4. CodesExact'
    BY <1>3, <2>1, <2>2 DEF CodesExact
  <2>5. BackoffsExact'
    BY <2>1 DEF BackoffsExact
  <2> QED
    BY <2>3, <2>4, <2>5
<1>5. CASE ~(Clean(exitcode) \/ LimitReached)
  <2> DEFINE b == BaseBackoff * Power(r)
  <2>1. /\ sup' = "sleep" /\ restarts' = r + 1
        /\ backoffs' = Append(backoffs, b)
    BY <1>5 DEF Reaped, Power
  <2>2. exitcode # 0 /\ r < MaxRestarts
    BY <1>2, <1>5 DEF Clean, LimitReached
  <2>3. Power(r) \in Nat \ {0} /\ Len(backoffs) = r
    BY DEF BackoffsExact
  <2>4. b \in Nat
    BY <2>3, SupervisorAssumption
  <2>5. Power(r + 1) = Power(r) * BackoffFactor /\ Power(r + 1) \in Nat \ {0}
    BY <1>2, <2>2, <2>3, PowerAssumption, SupervisorAssumption, NextLonger DEF Power
  <2>6. r > 0 => backoffs[r] < b
    <3> SUFFICES ASSUME r > 0 PROVE backoffs[r] < b
      OBVIOUS
    <3>1. Power(r - 1) \in Nat \ {0} /\ backoffs[r] = BaseBackoff * Power(r - 1)
      BY DEF BackoffsExact
    <3>2. r - 1 \in 0 .. MaxRestarts /\ (r - 1) + 1 = r
      BY <1>2
    <3>3. Power(r) = Power(r - 1) * BackoffFactor
      BY <3>2, PowerAssumption DEF Power
    <3> QED
      BY <3>1, <3>3, NextLonger, SupervisorAssumption
  <2> HIDE DEF b
  <2>7. /\ backoffs' \in Seq(Nat) /\ Len(backoffs') = r + 1 /\ backoffs'[r + 1] = b
        /\ \A k \in 1 .. r : backoffs'[k] = backoffs[k]
    BY <2>1, <2>3, <2>4, LastJoins DEF SupTypeOK
  <2>8. SupTypeOK'
    BY <1>1, <1>2, <1>3, <2>1, <2>2, <2>7 DEF SupTypeOK
  <2>9. CodesExact'
    <3>1. \A k \in 1 .. r + 1 : k \in 1 .. r \/ k = r + 1
      BY <1>2
    <3>2. \A k \in 1 .. r + 1 : codes[k] # 0
      BY <1>3, <2>2, <3>1 DEF CodesExact
    <3> QED
      BY <1>3, <2>1, <3>2 DEF CodesExact
  <2>10. BackoffsExact'
    <3>1. ASSUME NEW k \in 2 .. r + 1 PROVE backoffs'[k - 1] < backoffs'[k]
      <4>1. CASE k = r + 1
        <5>1. r > 0 /\ k - 1 = r /\ r \in 1 .. r
          BY <4>1, <1>2
        <5> QED
          BY <4>1, <5>1, <2>6, <2>7
      <4>2. CASE k # r + 1
        <5>1. k \in 2 .. r /\ k \in 1 .. r /\ k - 1 \in 1 .. r
          BY <4>2, <1>2
        <5> QED
          BY <5>1, <2>7 DEF BackoffsExact
      <4> QED
        BY <4>1, <4>2
    <3>2. restarts' - 1 = r /\ restarts' > 0
      BY <2>1, <1>2
    <3>3. backoffs'[restarts'] = BaseBackoff * Power(r)
      BY <2>1, <2>7 DEF b
    <3> QED
      BY <2>1, <2>3, <2>5, <2>7, <3>1, <3>2, <3>3 DEF BackoffsExact, Power
  <2> QED
    BY <2>8, <2>9, <2>10
<1> QED
  BY <1>4, <1>5

(* The assertions of supervisor.py, lines 140-145 and 151-152, for every    *)
(* limit, every backoff that grows and every history of crashes.            *)
THEOREM OutcomeExact == SupSpec => []SupervisorOutcome
<1>1. SupIInv /\ [SupNext]_supVars => SupIInv'
  <2> SUFFICES ASSUME SupIInv, [SupNext]_supVars PROVE SupIInv'
    OBVIOUS
  <2>1. ASSUME NEW code \in ExitCodes, ChildExit(code) PROVE SupIInv'
    <3>1. code \in Nat
      BY SupervisorAssumption
    <3> QED
      BY <2>1, <3>1 DEF ChildExit, SupIInv, SupTypeOK, CodesExact, BackoffsExact
  <2>2. CASE Respawn
    BY <2>2 DEF Respawn, SupIInv, SupTypeOK, CodesExact, BackoffsExact
  <2>3. CASE UNCHANGED supVars
    BY <2>3 DEF supVars, SupIInv, SupTypeOK, CodesExact, BackoffsExact
  <2> QED
    BY <2>1, <2>2, <2>3, ReapedInv DEF SupNext
<1>2. SupIInv => SupervisorOutcome
  BY SupervisorAssumption
     DEF SupIInv, SupTypeOK, CodesExact, BackoffsExact, SupervisorOutcome
<1> QED
  BY <1>1, <1>2, SupInitInv, PTL DEF SupSpec

-----------------------------------------------------------------------------
(* graceful_shutdown.py: where the jobs are.                                *)

\* The job that the worker has taken and not yet processed.
Held == IF runner \in {"process", "process_drain"} THEN 1 ELSE 0

\* The job that feed() has put and not yet counted.
Uncounted == IF control = "count" THEN 1 ELSE 0

JobTypeOK == queued \in Nat /\ accepted \in Nat /\ processed \in Nat

(* Every job is in exactly one place.                                       *)
Accounted == queued + Held + processed = accepted + Uncounted

(* The worker runs on a queue that is fed; it leaves when that is empty.    *)
FedThenDrained ==
  /\ runner # "unborn" => accepted = NumJobs /\ control # "count"
  /\ runner = "exited" => queued = 0

ShutdownIInv == JobTypeOK /\ Accounted /\ FedThenDrained

-----------------------------------------------------------------------------
(* Signals and handlers (graceful_shutdown.py, lines 59-62) touch no job.   *)
LEMMA HandlersPreserve ==
  ASSUME ShutdownIInv, Signal \/ SetEnter \/ SetFlag \/ SetLeave
  PROVE  ShutdownIInv'
BY DEF ShutdownIInv, JobTypeOK, Accounted, FedThenDrained, Held, Uncounted,
       Signal, SetEnter, SetFlag, SetLeave, jobVars

(* main() feeds, starts the worker, raises the signal and joins.            *)
LEMMA MainPreserves ==
  ASSUME ShutdownIInv, Feed \/ Start \/ Raise \/ JoinWorker
  PROVE  ShutdownIInv'
<1>1. CASE Feed
  <2>0. runner' = runner /\ processed' = processed
    BY <1>1 DEF Feed
  <2>1. CASE control = "feed"
    <3>1. queued' = queued + 1 /\ accepted' = accepted /\ control' = "count" /\ accepted < NumJobs
      BY <1>1, <2>1 DEF Feed
    <3>2. runner = "unborn"
      BY <3>1, ShutdownAssumption DEF ShutdownIInv, JobTypeOK, FedThenDrained
    <3> QED
      BY <2>0, <2>1, <3>1, <3>2
         DEF ShutdownIInv, JobTypeOK, Accounted, FedThenDrained, Held, Uncounted
  <2>2. CASE control = "count"
    <3>1. queued' = queued /\ accepted' = accepted + 1 /\ control' = "feed"
      BY <1>1, <2>2 DEF Feed
    <3> QED
      BY <2>0, <2>2, <3>1
         DEF ShutdownIInv, JobTypeOK, Accounted, FedThenDrained, Held, Uncounted
  <2> QED
    BY <1>1, <2>1, <2>2 DEF Feed
<1>2. CASE Start
  BY <1>2 DEF ShutdownIInv, JobTypeOK, Accounted, FedThenDrained, Held, Uncounted,
              Start, FedFirst, jobVars
<1>3. CASE Raise \/ JoinWorker
  BY <1>3 DEF ShutdownIInv, JobTypeOK, Accounted, FedThenDrained, Held, Uncounted,
              Raise, JoinWorker, MainAt, jobVars
<1> QED
  BY <1>1, <1>2, <1>3

(* Worker.run() (lines 94-112): a job goes from the queue into the worker's *)
(* hands and from there into the count, and the drain leaves at queue.Empty.*)
LEMMA WorkerPreserves ==
  ASSUME ShutdownIInv, WorkerThread
  PROVE  ShutdownIInv'
<1> USE DEF ShutdownIInv, JobTypeOK, Accounted, FedThenDrained, Held, Uncounted
<1>1. CASE TestFlag
  BY <1>1 DEF TestFlag, jobVars
<1>2. CASE GetJob
  BY <1>2 DEF GetJob
<1>3. CASE GetTimeout
  BY <1>3 DEF GetTimeout, jobVars
<1>4. CASE Process
  BY <1>4 DEF Process
<1>5. CASE Drain
  BY <1>5 DEF Drain
<1> QED
  BY <1>1, <1>2, <1>3, <1>4, <1>5 DEF WorkerThread

(* "NO job is lost" (lines 150-154): when the worker has left, all the jobs *)
(* that were accepted are processed and nothing is queued.                  *)
THEOREM NoJobLost == ShutdownSpec => []NothingLost
<1>1. ShutdownInit => ShutdownIInv
  BY DEF ShutdownInit, ShutdownIInv, JobTypeOK, Accounted, FedThenDrained, Held, Uncounted
<1>2. ShutdownIInv /\ [ShutdownNext]_shutdownVars => ShutdownIInv'
  <2> SUFFICES ASSUME ShutdownIInv, [ShutdownNext]_shutdownVars PROVE ShutdownIInv'
    OBVIOUS
  <2>1. CASE UNCHANGED shutdownVars
    BY <2>1 DEF shutdownVars, jobVars, ShutdownIInv, JobTypeOK, Accounted, FedThenDrained,
                Held, Uncounted
  <2> QED
    BY <2>1, HandlersPreserve, MainPreserves, WorkerPreserves DEF ShutdownNext, MainThread
<1>3. ShutdownIInv => NothingLost
  BY ShutdownAssumption
     DEF ShutdownIInv, JobTypeOK, Accounted, FedThenDrained, Held, Uncounted, NothingLost
<1> QED
  BY <1>1, <1>2, <1>3, PTL DEF ShutdownSpec

-----------------------------------------------------------------------------
(* circuit_breaker.py: counters and state.                                  *)

BreakerIInv == BreakerTypeOK /\ Consistent

LEMMA BreakerInitIInv == BreakerInit => BreakerIInv
  <1> SUFFICES ASSUME BreakerInit PROVE BreakerIInv
    OBVIOUS
  <1> USE BreakerAssumption DEF BreakerInit, CLOSED, OPEN, HALF_OPEN
  <1>1. healthy \in BOOLEAN
    BY Zenon
  <1>2. BreakerTypeOK
    BY <1>1 DEF BreakerTypeOK
  <1>3. Consistent
    BY DEF Consistent
  <1> QED
    BY <1>2, <1>3 DEF BreakerIInv

\* A counter that saturates stays within its bound.
LEMMA SaturateBound ==
  ASSUME NEW n \in Nat, NEW cap \in Nat
  PROVE  Saturate(n, cap) \in 0 .. cap /\ (n <= cap => Saturate(n, cap) = n)
  BY DEF Saturate

\* The admission check.
LEMMA CallIInv ==
  ASSUME BreakerIInv, NEW t \in Callers, Call(t)
  PROVE  BreakerIInv'
  <1> USE BreakerAssumption DEF BreakerIInv, BreakerTypeOK, Consistent, CLOSED, OPEN, HALF_OPEN
  <1>1. CASE Admit(t)
    BY <1>1 DEF Admit, Enter, breaker
  <1>2. CASE Probe(t)
    BY <1>2 DEF Probe, Enter
  <1>3. CASE Reject(t)
    <2>1. rejected' \in 0 .. MaxRejected
      BY <1>3, SaturateBound DEF Reject
    <2> QED
      BY <1>3, <2>1 DEF Reject
  <1> QED
    BY <1>1, <1>2, <1>3 DEF Call

\* The report of an outcome, in whatever state it arrives.
LEMMA ReportIInv ==
  ASSUME BreakerIInv, NEW t \in Callers, Report(t)
  PROVE  BreakerIInv'
  <1> USE BreakerAssumption DEF BreakerIInv, BreakerTypeOK, Consistent, CLOSED, OPEN, HALF_OPEN
  <1>1. CASE OnSuccess(t)
    <2>1. CASE state = HALF_OPEN
      BY <1>1, <2>1 DEF OnSuccess, Reported
    <2>2. CASE state # HALF_OPEN
      BY <1>1, <2>2 DEF OnSuccess, Reported
    <2> QED
      BY <2>1, <2>2
  <1>2. CASE OnFailure(t)
    <2>1. CASE state = HALF_OPEN
      BY <1>2, <2>1 DEF OnFailure, Reported
    <2>2. CASE state # HALF_OPEN
      <3>1. failures' \in 0 .. FailThreshold
        BY <1>2, <2>2, SaturateBound DEF OnFailure
      <3> QED
        BY <1>2, <2>2, <3>1 DEF OnFailure, Reported, Trips
    <2> QED
      BY <2>1, <2>2
  <1> QED
    BY <1>1, <1>2 DEF Report

LEMMA BreakerNextIInv == BreakerIInv /\ [BreakerNext]_breakerVars => BreakerIInv'
  <1> SUFFICES ASSUME BreakerIInv, [BreakerNext]_breakerVars PROVE BreakerIInv'
    OBVIOUS
  <1>1. ASSUME NEW t \in Callers, Call(t) PROVE BreakerIInv'
    BY <1>1, CallIInv
  <1>2. ASSUME NEW t \in Callers, Report(t) PROVE BreakerIInv'
    BY <1>2, ReportIInv
  <1>3. ASSUME NEW t \in Callers, Downstream(t) \/ Interrupted(t) PROVE BreakerIInv'
    BY <1>3 DEF BreakerIInv, BreakerTypeOK, Consistent, Downstream, Interrupted, breaker
  <1>4. CASE Tick
    BY <1>4, BreakerAssumption DEF BreakerIInv, BreakerTypeOK, Consistent, Tick
  <1>5. CASE Flip
    BY <1>5 DEF BreakerIInv, BreakerTypeOK, Consistent, Flip, breaker
  <1>6. CASE UNCHANGED breakerVars
    BY <1>6 DEF BreakerIInv, BreakerTypeOK, Consistent, breakerVars, breaker
  <1> QED
    BY <1>1, <1>2, <1>3, <1>4, <1>5, <1>6 DEF BreakerNext

(* The breaker keeps every variable in its type.                            *)
THEOREM BreakerTypeCorrect == BreakerSpec => []BreakerTypeOK
  <1>1. BreakerIInv => BreakerTypeOK
    BY DEF BreakerIInv
  <1> QED
    BY <1>1, BreakerInitIInv, BreakerNextIInv, PTL DEF BreakerSpec

(* A closed circuit is below its failure threshold and a half-open one      *)
(* below its success threshold, however late the reports arrive.            *)
THEOREM Consistency == BreakerSpec => []Consistent
  <1>1. BreakerIInv => Consistent
    BY DEF BreakerIInv
  <1> QED
    BY <1>1, BreakerInitIInv, BreakerNextIInv, PTL DEF BreakerSpec

\* Every step is a transition of the state machine.
LEMMA StepLegal ==
  ASSUME BreakerIInv, [BreakerNext]_breakerVars
  PROVE  LegalTransition
  <1> USE DEF LegalTransition, CLOSED, OPEN, HALF_OPEN
  <1>1. ASSUME NEW t \in Callers, Call(t) PROVE LegalTransition
    BY <1>1, BreakerAssumption
    DEF Call, Admit, Probe, Reject, breaker, CooledDown, BreakerIInv, BreakerTypeOK
  <1>2. ASSUME NEW t \in Callers, OnSuccess(t) PROVE LegalTransition
    BY <1>2 DEF OnSuccess, Reported
  <1>3. ASSUME NEW t \in Callers, OnFailure(t) PROVE LegalTransition
    BY <1>3 DEF OnFailure, Reported, BreakerIInv, BreakerTypeOK
  <1>4. ASSUME NEW t \in Callers, Downstream(t) \/ Interrupted(t)
        PROVE LegalTransition
    BY <1>4 DEF Downstream, Interrupted, breaker
  <1>5. CASE Tick \/ Flip \/ UNCHANGED breakerVars
    BY <1>5 DEF Tick, Flip, breakerVars, breaker
  <1> QED
    BY <1>1, <1>2, <1>3, <1>4, <1>5 DEF BreakerNext, Report

(* The breaker takes only the transitions of its docstring, with the        *)
(* cooldown served before a probe and started afresh by every trip.         *)
THEOREM Transitions == BreakerSpec => LegalTransitions
  <1>1. BreakerIInv /\ [BreakerNext]_breakerVars => [LegalTransition]_breakerVars
    BY StepLegal
  <1> QED
    BY <1>1, BreakerInitIInv, BreakerNextIInv, PTL DEF BreakerSpec, LegalTransitions

\* No step that leaves the circuit open starts a downstream call.
LEMMA StepSheds ==
  ASSUME BreakerIInv, [BreakerNext]_breakerVars
  PROVE  LoadShed
  <1> USE DEF LoadShed, CLOSED, OPEN, HALF_OPEN
  <1>1. ASSUME NEW t \in Callers, Call(t) PROVE LoadShed
    BY <1>1 DEF Call, Admit, Probe, Reject, breaker, BreakerIInv, BreakerTypeOK
  <1>2. ASSUME NEW t \in Callers, Report(t) PROVE LoadShed
    BY <1>2 DEF Report, OnSuccess, OnFailure, Reported, BreakerIInv, BreakerTypeOK
  <1>3. ASSUME NEW t \in Callers, Downstream(t) \/ Interrupted(t) PROVE LoadShed
    BY <1>3 DEF Downstream, Interrupted, BreakerIInv, BreakerTypeOK
  <1>4. CASE Tick \/ Flip \/ UNCHANGED breakerVars
    BY <1>4 DEF Tick, Flip, breakerVars
  <1> QED
    BY <1>1, <1>2, <1>3, <1>4 DEF BreakerNext

(* While the circuit stays open no thread starts a downstream call.         *)
THEOREM Shedding == BreakerSpec => OpenShedsLoad
  <1>1. BreakerIInv /\ [BreakerNext]_breakerVars => [LoadShed]_breakerVars
    BY StepSheds
  <1> QED
    BY <1>1, BreakerInitIInv, BreakerNextIInv, PTL DEF BreakerSpec, OpenShedsLoad
=============================================================================
