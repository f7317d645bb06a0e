----------------------------- MODULE Supervisor -----------------------------
(***************************************************************************)
(* supervisor.py: run() starts a child process, reaps it and starts it     *)
(* again when it crashed, after a backoff that grows, until a restart      *)
(* limit.  The child may end at any time, with any exit code.              *)
(***************************************************************************)
EXTENDS Naturals, Sequences

CONSTANTS
  MaxRestarts,    \* max_restarts
  BaseBackoff,    \* base_backoff
  BackoffFactor,  \* backoff_factor
  ExitCodes       \* how a child may end; 0 is a clean exit

ASSUME SupervisorAssumption ==
  /\ MaxRestarts \in Nat
  /\ BaseBackoff \in Nat \ {0} /\ BackoffFactor \in Nat \ {0, 1}
  /\ ExitCodes \subseteq Nat

(* The equations that define the power of the backoff, ** in the code,      *)
(* which the provers do not know.                                           *)
ASSUME PowerAssumption ==
  /\ BackoffFactor ^ 0 = 1
  /\ \A n \in 0 .. MaxRestarts : BackoffFactor ^ (n + 1) = BackoffFactor ^ n * BackoffFactor

VARIABLES
  alive,      \* the child process runs
  exitcode,   \* proc.exitcode, once it has ended
  restarts,   \* self.restarts
  exitCodes,  \* self.exit_codes
  backoffs,   \* self.backoffs
  sup         \* where run() is

supVars == <<alive, exitcode, restarts, exitCodes, backoffs, sup>>

\* run() has spawned its first child.
SupInit ==
  /\ alive = TRUE /\ exitcode = 0
  /\ restarts = 0
  /\ exitCodes = << >>
  /\ backoffs = << >>
  /\ sup = "join"

\* ">" instead of ">="
Bug_LimitReached == restarts > MaxRestarts

-----------------------------------------------------------------------------
\* crashing_worker() and stable_worker(): the child ends.
ChildExit(code) ==
  /\ alive
  /\ alive' = FALSE
  /\ exitcode' = code
  /\ UNCHANGED <<restarts, exitCodes, backoffs, sup>>

LimitReached == restarts >= MaxRestarts
Clean(code) == code = 0

\* join() returns: the end of run(), or the backoff before the next child
Reaped ==
  /\ sup = "join" /\ ~alive
  /\ exitCodes' = Append(exitCodes, exitcode)
  /\ IF Clean(exitcode) \/ LimitReached
     THEN sup' = "returned" /\ UNCHANGED <<restarts, backoffs>>
     ELSE /\ sup' = "sleep"
          /\ backoffs' = Append(backoffs, BaseBackoff * BackoffFactor ^ restarts)
          /\ restarts' = restarts + 1
  /\ UNCHANGED <<alive, exitcode>>

\* _spawn() after time.sleep(backoff)
Respawn ==
  /\ sup = "sleep"
  /\ alive' = TRUE
  /\ sup' = "join"
  /\ UNCHANGED <<exitcode, restarts, exitCodes, backoffs>>

SupNext == (\E code \in ExitCodes : ChildExit(code)) \/ Reaped \/ Respawn

(* The supervisor is scheduled; the children of the demonstration end.      *)
SupFairness ==
  WF_supVars(Reaped \/ Respawn) /\ WF_supVars(\E code \in ExitCodes : ChildExit(code))

SupSpec == SupInit /\ [][SupNext]_supVars /\ SupFairness

-----------------------------------------------------------------------------
(* The assertions of lines 140-145 and 151-152 for every history of         *)
(* crashes: one exit code per start, a clean exit ends the supervision,     *)
(* only it or the limit does, and the backoffs grow strictly.               *)
SupervisorOutcome ==
  sup = "returned" =>
    /\ restarts <= MaxRestarts
    /\ Len(exitCodes) = restarts + 1 /\ Len(backoffs) = restarts
    /\ \A k \in 1 .. restarts : exitCodes[k] # 0
    /\ exitCodes[restarts + 1] = 0 \/ restarts = MaxRestarts
    /\ \A k \in 2 .. restarts : backoffs[k - 1] < backoffs[k]

(* "a crash loop can't spin" (line 106) for ever: run() returns.            *)
SupervisionDone == sup = "returned"
=============================================================================
