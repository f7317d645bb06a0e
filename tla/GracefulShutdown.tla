-------------------------- MODULE GracefulShutdown --------------------------
(***************************************************************************)
(* graceful_shutdown.py: a worker thread that processes jobs until the     *)
(* shutdown flag is set and then drains the queue, and the main thread,    *)
(* which feeds it, raises SIGINT in its own process and joins it.          *)
(*                                                                         *)
(* Python runs signal handlers in the main thread, between any two of its  *)
(* bytecodes, also inside a handler that is still running: the handlers    *)
(* under way are a stack of frames, and main and the lower frames stand    *)
(* still until the top one returns.  Event.set() takes the event's lock,   *)
(* which is not reentrant, sets the flag, notifies and releases.           *)
(***************************************************************************)
EXTENDS Naturals, Sequences

CONSTANTS
  NumJobs,      \* the argument of feed()
  MaxSignals    \* bound: signals sent from outside, besides main's own

ASSUME ShutdownAssumption == NumJobs \in Nat /\ MaxSignals \in Nat

VARIABLES
  queued,       \* worker.jobs.qsize()
  accepted,     \* worker.accepted
  processed,    \* worker.processed
  flag,         \* _shutdown's flag
  flagLock,     \* _shutdown's lock is held
  frames,       \* the handlers under way in main's thread, the last on top
  signals,      \* how many signals have come from outside
  runner,       \* where the worker thread is
  control       \* where main is

jobVars == <<queued, accepted, processed>>
eventVars == <<flag, flagLock, frames>>
shutdownVars == <<jobVars, eventVars, signals, runner, control>>

\* The handlers are installed.
ShutdownInit ==
  /\ queued = 0 /\ accepted = 0 /\ processed = 0
  /\ flag = FALSE /\ flagLock = FALSE /\ frames = << >> /\ signals = 0
  /\ runner = "unborn"
  /\ control = "feed"

\* main runs while no handler is under way.
MainAt(l) == control = l /\ frames = << >>

\* the worker is started before it is fed
Bug_FedFirst == TRUE

\* get() without a timeout
Bug_GetTimeout == FALSE /\ UNCHANGED shutdownVars

-----------------------------------------------------------------------------
(* Signals and the handler                                                  *)

Signal ==
  /\ signals < MaxSignals /\ control # "returned"
  /\ signals' = signals + 1
  /\ frames' = Append(frames, "enter")
  /\ UNCHANGED <<jobVars, flag, flagLock, runner, control>>

Top(l) == frames # << >> /\ frames[Len(frames)] = l
SetTop(l) == frames' = [frames EXCEPT ![Len(frames)] = l]

\* with self._cond
SetEnter ==
  /\ Top("enter") /\ ~flagLock
  /\ flagLock' = TRUE
  /\ SetTop("locked")
  /\ UNCHANGED <<jobVars, flag, signals, runner, control>>

\* self._flag = True
SetFlag ==
  /\ Top("locked")
  /\ flag' = TRUE
  /\ SetTop("flagged")
  /\ UNCHANGED <<jobVars, flagLock, signals, runner, control>>

\* self._cond.notify_all(), for nobody waits, and the end of the handler
SetLeave ==
  /\ Top("flagged")
  /\ flagLock' = FALSE
  /\ frames' = SubSeq(frames, 1, Len(frames) - 1)
  /\ UNCHANGED <<jobVars, flag, signals, runner, control>>

-----------------------------------------------------------------------------
(* main()                                                                   *)

Feed ==
  /\ control \in {"feed", "count"} /\ frames = << >>
  /\ \/ /\ control = "feed" /\ accepted < NumJobs
        /\ queued' = queued + 1 /\ control' = "count"
        /\ UNCHANGED accepted
     \/ /\ control = "count"
        /\ accepted' = accepted + 1 /\ control' = "feed"
        /\ UNCHANGED queued
  /\ UNCHANGED <<processed, eventVars, signals, runner>>

FedFirst == control = "feed" /\ accepted = NumJobs

Start ==
  /\ runner = "unborn" /\ frames = << >>
  /\ FedFirst
  /\ runner' = "run"
  /\ UNCHANGED <<jobVars, eventVars, signals, control>>

\* signal.raise_signal(signal.SIGINT)
Raise ==
  /\ MainAt("feed") /\ accepted = NumJobs /\ runner # "unborn"
  /\ frames' = Append(frames, "enter")
  /\ control' = "join"
  /\ UNCHANGED <<jobVars, flag, flagLock, signals, runner>>

\* t.join(timeout=10.0): the timeout is longer than any drain at hand.
JoinWorker ==
  /\ MainAt("join") /\ runner = "exited"
  /\ control' = "returned"
  /\ UNCHANGED <<jobVars, eventVars, signals, runner>>

MainThread == SetEnter \/ SetFlag \/ SetLeave \/ Feed \/ Start \/ Raise \/ JoinWorker

-----------------------------------------------------------------------------
(* Worker.run()                                                             *)

TestFlag ==
  /\ runner = "run"
  /\ runner' = IF flag THEN "drain" ELSE "get"
  /\ UNCHANGED <<jobVars, eventVars, signals, control>>

\* get(timeout=0.05)
GetJob ==
  /\ runner = "get" /\ queued > 0
  /\ queued' = queued - 1
  /\ runner' = "process"
  /\ UNCHANGED <<accepted, processed, eventVars, signals, control>>

GetTimeout ==
  /\ runner = "get" /\ queued = 0
  /\ runner' = "run"
  /\ UNCHANGED <<jobVars, eventVars, signals, control>>

\* _process(), in the main loop and in the drain
Process ==
  /\ runner \in {"process", "process_drain"}
  /\ processed' = processed + 1
  /\ runner' = IF runner = "process" THEN "run" ELSE "drain"
  /\ UNCHANGED <<queued, accepted, eventVars, signals, control>>

\* get_nowait(), until queue.Empty
Drain ==
  /\ runner = "drain"
  /\ IF queued = 0
     THEN runner' = "exited" /\ UNCHANGED queued
     ELSE runner' = "process_drain" /\ queued' = queued - 1
  /\ UNCHANGED <<accepted, processed, eventVars, signals, control>>

WorkerThread == TestFlag \/ GetJob \/ GetTimeout \/ Process \/ Drain

-----------------------------------------------------------------------------
ShutdownNext == Signal \/ MainThread \/ WorkerThread

(* Both threads are scheduled.                                              *)
ShutdownFairness == WF_shutdownVars(MainThread) /\ WF_shutdownVars(WorkerThread)

ShutdownSpec == ShutdownInit /\ [][ShutdownNext]_shutdownVars /\ ShutdownFairness

-----------------------------------------------------------------------------
(* Lines 150-154, "NO job is lost": when the worker has left, all that was  *)
(* accepted is processed and nothing is queued, whenever signals come, in   *)
(* the middle of feed() too.                                                *)
NothingLost == runner = "exited" => processed = NumJobs /\ accepted = NumJobs /\ queued = 0

(* The drain ends (lines 103-112): a worker that runs while the flag is set *)
(* exits, even if main hangs.                                               *)
DrainEnds == []<>(flag /\ runner # "unborn") => <>[](runner = "exited")

(* What the handler's comment claims (lines 60-62, "async-signal-safe. Just *)
(* set the flag. Do NOT log, allocate, or grab locks here") and main        *)
(* asserts (line 148): the signals that came set the flag.                  *)
SignalSetsFlag == frames # << >> ~> flag
=============================================================================
