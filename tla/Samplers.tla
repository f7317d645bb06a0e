------------------------------ MODULE Samplers ------------------------------
(***************************************************************************)
(* The tools that sample counters of the kernel and flag a bad ratio:      *)
(* tcp_retrans_monitor.py (segments sent and retransmitted),               *)
(* cgroup_throttle_watch.py (CPU periods and throttled periods, and OOM    *)
(* kills) and psi_watcher.py (averages the kernel computes).  A behaviour  *)
(* is a run of one of them.  Any read may fail.  The missing counters of a *)
(* failed read, {} in the code, are zeros wherever the code looks at them. *)
(***************************************************************************)
EXTENDS Integers

CONSTANTS
  Boots,        \* counters at the start: pairs <<all, bad>>
  Activities,   \* what an interval may add to them
  WarnNum, WarnDen,   \* WARN_RATE and THROTTLE_ALERT_RATIO as a fraction
  Threshold,    \* THRESHOLDS of the pressure watcher
  Averages,     \* the averages that the kernel may report
  Samples       \* bound: samples taken by the watchers; count of monitor()

ASSUME SamplersAssumption ==
  /\ Boots \subseteq [1 .. 2 -> Nat] /\ Activities \subseteq [1 .. 2 -> Nat]
  /\ WarnNum \in Nat \ {0} /\ WarnDen \in Nat \ {0}
  /\ Threshold \in Nat /\ Averages \subseteq Nat
  /\ Samples \in Nat

Absent == -1

VARIABLES
  tool,           \* which tool runs
  counter,        \* the kernel's counters <<all, bad>>
  interval,       \* history: what the current interval has added
  oom,            \* the kernel's oom_kill and high counters, up to 1
  read,           \* whether the last read succeeded
  previous,       \* prev: the counters of the previous sample
  line,           \* the last line printed
  taken           \* how many samples were taken

samplerVars == <<tool, counter, interval, oom, read, previous, line, taken>>

NoLine == [kind |-> "none", bad |-> 0, all |-> 0, flag |-> FALSE, mem |-> "none",
           true |-> <<0, 0>>, ends |-> FALSE]

SamplersInit ==
  /\ tool \in {"retrans", "cgroup", "psi"}
  /\ counter \in Boots /\ interval = <<0, 0>> /\ oom = [kill |-> 0, high |-> 0]
  /\ read = FALSE /\ previous = <<0, 0>> /\ line = NoLine /\ taken = -1

\* Seeded fault: the sample before a failed read is kept.
Bug_Counters(ok) == IF ok THEN counter ELSE previous

\* The system goes on between two samples: traffic, CPU periods, OOM kills.
Run(act, kill, high) ==
  /\ taken >= 0 /\ interval = <<0, 0>> /\ tool # "psi"
  /\ counter' = [k \in 1 .. 2 |-> counter[k] + act[k]] /\ interval' = act
  /\ oom' = [kill |-> kill, high |-> high] /\ kill >= oom.kill /\ high >= oom.high
  /\ UNCHANGED <<tool, read, previous, line, taken>>

\* What the tools keep of a read
Counters(ok) == IF ok THEN counter ELSE <<0, 0>>

\* A ratio, 0 when nothing was counted, and whether it is at or over the limit
Ratio(bad, all) == IF all > 0 THEN <<bad, all>> ELSE <<0, 1>>
AtLeast(r) == r[1] * WarnDen >= WarnNum * r[2]
Above(r) == r[1] * WarnDen > WarnNum * r[2]

Printed(l, ok) ==
  /\ line' = [l EXCEPT !.true = interval, !.ends = read /\ ok]
  /\ read' = ok /\ previous' = Counters(ok) /\ interval' = <<0, 0>> /\ taken' = taken + 1
  /\ UNCHANGED <<tool, counter, oom>>

\* monitor(): without a first read it runs its self-test and returns.
FirstRead(ok) ==
  /\ tool = "retrans" /\ taken = -1
  /\ read' = ok /\ previous' = Counters(ok) /\ taken' = IF ok THEN 0 ELSE Samples
  /\ UNCHANGED <<tool, counter, interval, oom, line>>

RetransSample(ok) ==
  LET bad == Counters(ok)[2] - previous[2]
      all == Counters(ok)[1] - previous[1]
  IN  /\ tool = "retrans" /\ taken \in 0 .. Samples - 1
      /\ Printed([NoLine EXCEPT !.kind = "interval", !.bad = bad, !.all = all,
                                !.flag = AtLeast(Ratio(bad, all))], ok)

\* report_once() of the cgroup watcher; the flag is of the lifetime ratio.
MemFlag == IF oom.kill > 0 THEN "oom" ELSE IF oom.high > 0 THEN "high" ELSE "fine"
Delta == previous[1] # 0
ReportOnce(ok, memOk) ==
  /\ tool = "cgroup" /\ taken < Samples
  /\ Printed([NoLine EXCEPT
       !.kind = IF ~ok THEN "unavailable" ELSE IF Delta THEN "interval" ELSE "lifetime",
       !.all = IF ok /\ Delta THEN counter[1] - previous[1] ELSE counter[1],
       !.bad = IF ok /\ Delta THEN counter[2] - previous[2] ELSE counter[2],
       !.flag = ok /\ Above(Ratio(counter[2], counter[1])),
       !.mem = IF memOk THEN MemFlag ELSE "none"], ok)

\* watch() of the pressure watcher, for one of its three resources: full is the
\* sharper average, if there is one.
WorstAvg10(some, full) == IF full # Absent THEN full ELSE some
WatchPsi(some, full) ==
  /\ tool = "psi" /\ taken < Samples /\ full <= some
  /\ line' = [NoLine EXCEPT !.kind = "psi", !.all = some, !.bad = full,
                            !.flag = WorstAvg10(some, full) >= Threshold]
  /\ taken' = taken + 1 /\ UNCHANGED <<tool, counter, interval, oom, read, previous>>
PsiUnavailable ==
  /\ tool = "psi" /\ taken < Samples
  /\ line' = [NoLine EXCEPT !.kind = "unavailable"]
  /\ taken' = taken + 1 /\ UNCHANGED <<tool, counter, interval, oom, read, previous>>

SamplersNext ==
  \/ \E act \in Activities, kill, high \in {0, 1} : Run(act, kill, high)
  \/ \E ok \in BOOLEAN : FirstRead(ok) \/ RetransSample(ok)
  \/ \E ok, memOk \in BOOLEAN : ReportOnce(ok, memOk)
  \/ \E some \in Averages, full \in Averages \cup {Absent} : WatchPsi(some, full)
  \/ PsiUnavailable

SamplersSpec == SamplersInit /\ [][SamplersNext]_samplerVars

-----------------------------------------------------------------------------
(* A line that gives a ratio for the last interval tells the truth about   *)
(* what happened in that interval, whenever the reads at its two ends      *)
(* succeeded, and the monitor then flags the lossy intervals and no other. *)
(* The cgroup watcher, after a failed read, never passes the lifetime off  *)
(* as an interval.  The pressure watcher flags every resource on which all *)
(* tasks stalled for Threshold of the time, and none on which no task did. *)
SamplersHonest ==
  /\ line.kind = "interval" /\ (line.ends \/ tool = "cgroup") =>
       <<line.all, line.bad>> = line.true
  /\ tool = "retrans" /\ line.ends =>
       line.flag = (line.true[1] > 0 /\ AtLeast(<<line.true[2], line.true[1]>>))
  /\ line.kind = "psi" => (line.bad >= Threshold => line.flag) /\ (line.flag => line.all >= Threshold)
=============================================================================
