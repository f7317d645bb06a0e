----------------------------- MODULE WorkerPool -----------------------------
(***************************************************************************)
(* worker_pool.py: main() submits NumTasks tasks to a WorkerPool and shuts *)
(* it down.  The workers' loop is split where other threads run: taking a  *)
(* task, _do_work(), recording the result under the lock, and task_done(), *)
(* which the finally clause runs on every way out of the loop body.  A     *)
(* task in BadTasks makes _do_work() raise; main() submits none, a user of *)
(* the pool may.  start() has run: workers that wait for a first task do   *)
(* nothing anybody can see.                                                *)
(***************************************************************************)
EXTENDS StdQueue, FiniteSets, SequencesExt

CONSTANTS
  Workers,    \* the worker threads
  NumTasks,   \* NUM_TASKS
  BadTasks,   \* the tasks for which _do_work() raises
  SHUTDOWN    \* _SHUTDOWN, the poison pill

Tasks == 0 .. NumTasks - 1

ASSUME PoolAssumption ==
  /\ NumTasks \in Nat
  /\ BadTasks \subseteq Tasks
  /\ SHUTDOWN \notin Tasks
  /\ IsFiniteSet(Workers)

VARIABLES
  wpc,        \* where each worker is
  task,       \* the local variable task of each worker
  completedCount, \* self.completed
  results,    \* self.results
  mpc,        \* where main is
  i,          \* main's loop variable
  pills,      \* how many pills shutdown() has put
  reaped      \* how many workers shutdown() has joined, or given up on

workVars == <<wpc, task, completedCount, results>>
mainVars == <<mpc, i, pills, reaped>>
poolVars == <<queueVars, workVars, mainVars>>

PoolInit ==
  /\ QueueInit
  /\ wpc = [w \in Workers |-> "get"]
  /\ task = [w \in Workers |-> SHUTDOWN]
  /\ completedCount = 0
  /\ results = << >>
  /\ mpc = "submit"
  /\ i = 0
  /\ pills = 0
  /\ reaped = 0

-----------------------------------------------------------------------------
(* Seeded faults.                                                           *)

\* the queue is not joined before the pills are put
Bug_TasksJoined == TRUE

-----------------------------------------------------------------------------
(* _worker_loop()                                                           *)

Take(w) ==
  /\ wpc[w] = "get"
  /\ QueueGet
  /\ task' = [task EXCEPT ![w] = Head(items)]
  /\ wpc' = [wpc EXCEPT ![w] = IF Head(items) = SHUTDOWN THEN "finally" ELSE "work"]
  /\ UNCHANGED <<completedCount, results, mainVars>>

DoWork(w) ==
  /\ wpc[w] = "work"
  /\ wpc' = [wpc EXCEPT ![w] = IF task[w] \in BadTasks THEN "raised" ELSE "record"]
  /\ UNCHANGED <<queueVars, task, completedCount, results, mainVars>>

\* with self._lock: the result n * n of the task n is recorded.
Record(w) ==
  /\ wpc[w] = "record"
  /\ completedCount' = completedCount + 1
  /\ results' = Append(results, task[w] * task[w])
  /\ wpc' = [wpc EXCEPT ![w] = "finally"]
  /\ UNCHANGED <<queueVars, task, mainVars>>

\* finally: task_done(); a pill ends the loop and an exception the thread.
FinallyDone(w) ==
  /\ wpc[w] \in {"finally", "raised"}
  /\ QueueTaskDone
  /\ wpc' = [wpc EXCEPT ![w] = IF wpc[w] = "raised" THEN "died"
                               ELSE IF task[w] = SHUTDOWN THEN "exited"
                               ELSE "get"]
  /\ UNCHANGED <<task, completedCount, results, mainVars>>

-----------------------------------------------------------------------------
(* main(), submit() and shutdown()                                          *)

Submit ==
  /\ mpc = "submit"
  /\ i < NumTasks
  /\ QueuePut(i)
  /\ i' = i + 1
  /\ UNCHANGED <<workVars, mpc, pills, reaped>>

\* self.tasks.join()
TasksJoined == QueueJoined

Join ==
  /\ mpc = "submit"
  /\ i = NumTasks
  /\ TasksJoined
  /\ mpc' = "pills"
  /\ UNCHANGED <<queueVars, workVars, i, pills, reaped>>

PillsNeeded == Cardinality(Workers)

PutPill ==
  /\ mpc = "pills"
  /\ pills < PillsNeeded
  /\ QueuePut(SHUTDOWN)
  /\ pills' = pills + 1
  /\ UNCHANGED <<workVars, mpc, i, reaped>>

\* t.join(timeout=5.0) returns when the worker has ended, or after the
\* timeout: main does not ask which, so a join may return at any time.
Reap ==
  /\ mpc = "pills"
  /\ pills = PillsNeeded
  /\ reaped < Cardinality(Workers)
  /\ reaped' = reaped + 1
  /\ UNCHANGED <<queueVars, workVars, mpc, i, pills>>

PoolReturn ==
  /\ mpc = "pills"
  /\ pills = PillsNeeded
  /\ reaped = Cardinality(Workers)
  /\ mpc' = "returned"
  /\ UNCHANGED <<queueVars, workVars, i, pills, reaped>>

-----------------------------------------------------------------------------
WorkerStep(w) == Take(w) \/ DoWork(w) \/ Record(w) \/ FinallyDone(w)
MainStep == Submit \/ Join \/ PutPill \/ Reap \/ PoolReturn

PoolNext == (\E w \in Workers : WorkerStep(w)) \/ MainStep

PoolSpec == PoolInit /\ [][PoolNext]_poolVars

(* Every thread that can run is eventually scheduled.                       *)
PoolFairSpec ==
  PoolSpec /\ WF_poolVars(MainStep) /\ \A w \in Workers : WF_poolVars(WorkerStep(w))

-----------------------------------------------------------------------------
Good == Tasks \ BadTasks

(* "drain all work, then stop every worker" (line 99): when shutdown()      *)
(* goes past join(), the result of every task that has one is recorded,     *)
(* once; this is what main asserts (lines 136-139) after its timeouts.      *)
DrainedBeforePills ==
  mpc # "submit" =>
    /\ completedCount = Cardinality(Good)
    /\ Len(results) = Cardinality(Good)
    /\ ToSet(results) = {n * n : n \in Good}

(* Shutdown completes: main returns and every worker ends, also when        *)
(* shutdown() stopped waiting for it, and only a task that raised ends one  *)
(* without a pill.                                                          *)
ShutdownDone ==
  /\ mpc = "returned"
  /\ \A w \in Workers : \/ wpc[w] = "exited"
                        \/ wpc[w] = "died" /\ task[w] \in BadTasks

-----------------------------------------------------------------------------
(* What the docstring says of shutdown and the code does not do when a      *)
(* task raises: "every worker drains the queue and exits cleanly - no work  *)
(* is lost" (lines 24-26).                                                  *)
NoWorkLost == <>(\A n \in Good : n * n \in ToSet(results))
=============================================================================
