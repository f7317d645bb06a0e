----------------------------- MODULE CertExpiry -----------------------------
(***************************************************************************)
(* cert_expiry_check.py as the alert its documentation makes it: a live    *)
(* check, run again and again against a server whose certificate ages and  *)
(* is rotated.  Time is counted in days.  fetch_notafter() verifies the    *)
(* peer, so its handshake fails on a certificate that has expired, as it   *)
(* does when the host cannot be reached.                                   *)
(***************************************************************************)
EXTENDS Integers

CONSTANTS
  WarnDays, CritDays,   \* WARN_DAYS and CRIT_DAYS
  Lifetime,             \* the days for which a certificate is issued
  MaxGap,               \* bound: days between two checks that get an answer
  MaxDay                \* bound: the days looked at

ASSUME CertAssumption ==
  /\ CritDays \in Nat /\ WarnDays \in Nat /\ CritDays < WarnDays
  /\ MaxGap \in 1 .. WarnDays - 1
  /\ Lifetime \in Nat /\ Lifetime >= WarnDays

VARIABLES
  today,        \* time.time(), in days
  notAfter,     \* when the deployed certificate expires
  checked,      \* the day of the last check that got an answer
  shown,        \* what the last check printed
  warned        \* history: severities printed about this certificate

certVars == <<today, notAfter, checked, shown, warned>>

CertInit ==
  today = 0 /\ notAfter = Lifetime /\ checked = 0 /\ shown = "none" /\ warned = {}

\* Seeded fault: the branch that prints WARNING is missing.
Bug_Severity(days) == IF days < 0 THEN "EXPIRED" ELSE IF days < CritDays THEN "CRITICAL" ELSE "OK"

DaysUntil == notAfter - today
Severity(days) ==
  CASE days < 0 -> "EXPIRED"
    [] days >= 0 /\ days < CritDays -> "CRITICAL"
    [] days >= CritDays /\ days < WarnDays -> "WARNING"
    [] OTHER -> "OK"

\* check_live(), when fetch_notafter() returns and when it raises
CheckLive ==
  /\ DaysUntil >= 0
  /\ shown' = Severity(DaysUntil) /\ warned' = warned \cup {Severity(DaysUntil)}
  /\ checked' = today /\ UNCHANGED <<today, notAfter>>
CheckFails == shown' = "ERROR" /\ UNCHANGED <<today, notAfter, checked, warned>>

NextDay ==
  /\ today < MaxDay /\ (DaysUntil >= 0 => today - checked < MaxGap)
  /\ today' = today + 1 /\ UNCHANGED <<notAfter, checked, shown, warned>>
Rotate ==
  /\ notAfter' = today + Lifetime /\ warned' = {} /\ checked' = today
  /\ UNCHANGED <<today, shown>>

CertNext == CheckLive \/ CheckFails \/ NextDay \/ Rotate

CertSpec == CertInit /\ [][CertNext]_certVars

(* "This script is the alert": a certificate does not expire before a      *)
(* check has said WARNING or CRITICAL about it, if checks get an answer    *)
(* more often than every WarnDays days.                                    *)
WarnedBeforeExpiry == DaysUntil < 0 => warned \cap {"WARNING", "CRITICAL"} # {}
=============================================================================
