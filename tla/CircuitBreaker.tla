--------------------------- MODULE CircuitBreaker ---------------------------
(***************************************************************************)
(* CircuitBreaker of circuit_breaker.py, shared by threads that call one   *)
(* downstream through it.  call() takes the lock twice, for the admission  *)
(* check and for the report of the outcome, and the downstream call runs   *)
(* in between without it: each of the three is an action, so that reports  *)
(* arrive late, out of order and in a state other than the one the call    *)
(* was admitted in.                                                        *)
(*                                                                         *)
(* The code compares the clock only with _opened_at + cooldown, so         *)
(* `elapsed' keeps the ticks since _opened_at, up to Cooldown.  It compares *)
(* the failure counter only with fail_threshold, so the counter stops      *)
(* there; MaxRejected is where the metric rejected_calls stops.            *)
(***************************************************************************)
EXTENDS Naturals, FiniteSets

CONSTANTS
  Callers,           \* the request threads that share the breaker
  FailThreshold,     \* self.fail_threshold
  SuccessThreshold,  \* self.success_threshold
  Cooldown,          \* self.cooldown, in ticks
  MaxRejected        \* bound: rejected_calls counts up to here

ASSUME BreakerAssumption ==
  /\ FailThreshold \in Nat \ {0}
  /\ SuccessThreshold \in Nat \ {0}
  /\ Cooldown \in Nat \ {0}
  /\ MaxRejected \in Nat

CLOSED == "CLOSED"
OPEN == "OPEN"
HALF_OPEN == "HALF_OPEN"

VARIABLES
  state, failures, successes,  \* self._state, self._failures, self._successes
  elapsed,    \* time.monotonic() - self._opened_at, up to Cooldown
  rejected,   \* self.rejected_calls, up to MaxRejected
  healthy,    \* FlakyDependency.healthy
  where,      \* where each thread is in call()
  admitted    \* history: the state in which a thread's call was admitted

breaker == <<state, failures, successes, elapsed, rejected>>
breakerVars == <<breaker, healthy, where, admitted>>

Saturate(n, cap) == IF n > cap THEN cap ELSE n

BreakerInit ==
  /\ state = CLOSED
  /\ failures = 0
  /\ successes = 0
  /\ elapsed = Cooldown
  /\ rejected = 0
  /\ healthy = FALSE
  /\ where = [t \in Callers |-> "idle"]
  /\ admitted = [t \in Callers |-> CLOSED]

-----------------------------------------------------------------------------
(* Seeded faults.                                                           *)

\* the cooldown is not checked
Bug_CooledDown == TRUE

\* every rejected call restarts the cooldown
Bug_RejectRestarts(t) ==
  /\ where[t] = "idle"
  /\ state = OPEN
  /\ elapsed < Cooldown
  /\ rejected' = Saturate(rejected + 1, MaxRejected)
  /\ elapsed' = 0
  /\ UNCHANGED <<state, failures, successes, healthy, where, admitted>>

\* the rejection is counted, but nothing is raised
Bug_RejectCounts(t) ==
  /\ where[t] = "idle"
  /\ state = OPEN
  /\ elapsed < Cooldown
  /\ rejected' = Saturate(rejected + 1, MaxRejected)
  /\ where' = [where EXCEPT ![t] = "calling"]
  /\ admitted' = [admitted EXCEPT ![t] = OPEN]
  /\ UNCHANGED <<state, failures, successes, elapsed, healthy>>

-----------------------------------------------------------------------------
(* call(): the admission check, under the lock.                             *)

CooledDown == elapsed >= Cooldown

Enter(t, s) ==
  /\ where' = [where EXCEPT ![t] = "calling"]
  /\ admitted' = [admitted EXCEPT ![t] = s]

\* CLOSED and HALF_OPEN let every caller through.
Admit(t) ==
  /\ where[t] = "idle"
  /\ state # OPEN
  /\ Enter(t, state)
  /\ UNCHANGED <<breaker, healthy>>

Probe(t) ==
  /\ where[t] = "idle"
  /\ state = OPEN
  /\ CooledDown
  /\ state' = HALF_OPEN
  /\ successes' = 0
  /\ Enter(t, HALF_OPEN)
  /\ UNCHANGED <<failures, elapsed, rejected, healthy>>

\* raise CircuitOpenError: the caller is outside again.
Reject(t) ==
  /\ where[t] = "idle"
  /\ state = OPEN
  /\ ~CooledDown
  /\ rejected' = Saturate(rejected + 1, MaxRejected)
  /\ UNCHANGED <<state, failures, successes, elapsed, healthy, where, admitted>>

-----------------------------------------------------------------------------
(* The downstream call, outside the lock.                                   *)

\* func(): FlakyDependency.call() raises RuntimeError while it is broken.
Downstream(t) ==
  /\ where[t] = "calling"
  /\ where' = [where EXCEPT ![t] = IF healthy THEN "on_success" ELSE "on_failure"]
  /\ UNCHANGED <<breaker, healthy, admitted>>

\* "except Exception" lets KeyboardInterrupt and SystemExit pass: no report.
Interrupted(t) ==
  /\ where[t] = "calling"
  /\ where' = [where EXCEPT ![t] = "idle"]
  /\ UNCHANGED <<breaker, healthy, admitted>>

-----------------------------------------------------------------------------
(* _on_success() and _on_failure(), under the lock.                         *)

Reported(t, label) ==
  /\ where[t] = label
  /\ where' = [where EXCEPT ![t] = "idle"]
  /\ UNCHANGED <<rejected, healthy, admitted>>

OnSuccess(t) ==
  /\ Reported(t, "on_success")
  /\ \/ /\ state = HALF_OPEN
        /\ successes' = successes + 1
        /\ IF successes' >= SuccessThreshold
           THEN state' = CLOSED /\ failures' = 0
           ELSE UNCHANGED <<state, failures>>
     \/ /\ state # HALF_OPEN
        /\ failures' = 0
        /\ UNCHANGED <<state, successes>>
  /\ UNCHANGED elapsed

Trips(n) == n >= FailThreshold

OnFailure(t) ==
  /\ Reported(t, "on_failure")
  /\ \/ /\ state = HALF_OPEN
        /\ state' = OPEN
        /\ elapsed' = 0
        /\ UNCHANGED failures
     \/ /\ state # HALF_OPEN
        /\ failures' = Saturate(failures + 1, FailThreshold)
        /\ IF Trips(failures')
           THEN state' = OPEN /\ elapsed' = 0
           ELSE UNCHANGED <<state, elapsed>>
  /\ UNCHANGED successes

-----------------------------------------------------------------------------
(* The environment: time passes, and the dependency breaks and recovers     *)
(* (main() lets it recover once).                                           *)

Tick ==
  /\ elapsed < Cooldown
  /\ elapsed' = elapsed + 1
  /\ UNCHANGED <<state, failures, successes, rejected, healthy, where, admitted>>

Flip ==
  /\ healthy' = ~healthy
  /\ UNCHANGED <<breaker, where, admitted>>

Call(t) == Admit(t) \/ Probe(t) \/ Reject(t)
Report(t) == OnSuccess(t) \/ OnFailure(t)

BreakerNext ==
  \/ \E t \in Callers : Call(t) \/ Downstream(t) \/ Interrupted(t) \/ Report(t)
  \/ Tick
  \/ Flip

BreakerSpec == BreakerInit /\ [][BreakerNext]_breakerVars

(* Time passes, a downstream call ends, a thread that holds an outcome      *)
(* reports it, and requests keep coming.                                    *)
BreakerFairness ==
  /\ WF_breakerVars(Tick)
  /\ \A t \in Callers : /\ WF_breakerVars(Call(t))
                        /\ WF_breakerVars(Downstream(t))
                        /\ WF_breakerVars(Report(t))

BreakerFairSpec == BreakerSpec /\ BreakerFairness

-----------------------------------------------------------------------------
(* Type invariant.                                                          *)
BreakerTypeOK ==
  /\ state \in {CLOSED, OPEN, HALF_OPEN}
  /\ failures \in 0 .. FailThreshold
  /\ successes \in 0 .. SuccessThreshold
  /\ elapsed \in 0 .. Cooldown
  /\ rejected \in 0 .. MaxRejected
  /\ healthy \in BOOLEAN
  /\ where \in [Callers -> {"idle", "calling", "on_success", "on_failure"}]
  /\ admitted \in [Callers -> {CLOSED, OPEN, HALF_OPEN}]

(* A closed circuit has not yet seen enough failures to trip and a half     *)
(* open one not enough successes to close, whatever late reports of calls   *)
(* from earlier periods have done to the counters.                          *)
Consistent ==
  /\ state = CLOSED => failures < FailThreshold
  /\ state = HALF_OPEN => successes < SuccessThreshold

(* The state machine of the docstring (lines 12-20): CLOSED trips only to   *)
(* OPEN and with a fresh cooldown, OPEN is left only to HALF_OPEN and only  *)
(* after the cooldown, HALF_OPEN closes with a clean failure counter or     *)
(* re-opens with a fresh cooldown.                                          *)
LegalTransition ==
  \/ state' = state
  \/ state = CLOSED /\ state' = OPEN /\ elapsed' = 0
  \/ state = OPEN /\ state' = HALF_OPEN /\ elapsed = Cooldown
  \/ state = HALF_OPEN /\ state' = CLOSED /\ failures' = 0
  \/ state = HALF_OPEN /\ state' = OPEN /\ elapsed' = 0
LegalTransitions == [][LegalTransition]_breakerVars

(* OPEN sheds load (lines 14-16): while the circuit stays open no thread    *)
(* starts a downstream call; those under way when it tripped may finish.    *)
LoadShed ==
  state = OPEN /\ state' = OPEN =>
    \A t \in Callers : where'[t] = "calling" => where[t] = "calling"
OpenShedsLoad == [][LoadShed]_breakerVars

\* Callers may be interrupted, but not every one every time.
NotAlwaysInterrupted ==
  []<>(\E t \in Callers : where[t] = "calling")
    => []<>(\E t \in Callers : where[t] \in {"on_success", "on_failure"})

(* An open circuit is eventually probed: late failures of calls under way   *)
(* restart the cooldown, but only finitely often.                           *)
OpenEnds == []<>(state # OPEN)

(* Once the dependency stays healthy the circuit ends up closed for good.   *)
Recovery == <>[]healthy => <>[](state = CLOSED)

(* The circuit never stays OPEN for good (lines 69-73) and is CLOSED for    *)
(* good once the dependency stays healthy (lines 92-95).                    *)
CircuitHeals == NotAlwaysInterrupted => OpenEnds /\ Recovery

-----------------------------------------------------------------------------
(* What the comments say and the code does not do.                          *)

Probes == {t \in Callers : where[t] # "idle" /\ admitted[t] = HALF_OPEN}

(* "HALF_OPEN : a single probe is allowed through" (line 18), "allow ONE    *)
(* probe" (line 70).                                                        *)
SingleProbe == Cardinality(Probes) <= 1
=============================================================================
