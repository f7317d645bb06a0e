------------------------------ MODULE RssTrend ------------------------------
(***************************************************************************)
(* rss_leak_detector.py: monitor() samples the resident set of a process,  *)
(* and classify() compares the least-squares slopes of the two halves.  A  *)
(* slope is a fraction <<num, den>>, den > 0, of KiB per tick.             *)
(***************************************************************************)
EXTENDS Integers, Sequences, FiniteSetsExt

CONSTANTS
  RssCount,     \* the samples that monitor() takes
  Sizes,        \* the sizes that may be sampled, in KiB
  MB,           \* KiB in a MB: 1024
  Delays        \* the ticks that may pass between two samples

ASSUME RssAssumption ==
  /\ RssCount \in Nat \ {0} /\ Sizes \subseteq Nat /\ MB \in Nat \ {0}
  /\ Delays \subseteq Nat \ {0}

VARIABLES
  times, rss,     \* times_s and rss_mb
  verdict         \* "none", "gone", "STABLE", "PLATEAU" or "LEAK"

rssVars == <<times, rss, verdict>>

RssInit == times = <<>> /\ rss = <<>> /\ verdict = "none"

\* sum()
Total(s) ==
  LET upTo[k \in 0 .. Len(s)] == IF k = 0 THEN 0 ELSE upTo[k - 1] + s[k]
  IN  upTo[Len(s)]

\* linfit(); over one point, or none that differ, the slope is 0.
LinFit(xs, ys) ==
  LET n   == Len(xs)
      num == n * Total([i \in DOMAIN xs |-> xs[i] * ys[i]]) - Total(xs) * Total(ys)
      den == n * Total([i \in DOMAIN xs |-> xs[i] * xs[i]]) - Total(xs) * Total(xs)
  IN  IF den = 0 THEN <<0, 1>> ELSE <<num, den>>

\* Seeded fault: any slowing down counts as a plateau.
Bug_Flattened(first, second) == second[1] * first[2] <= first[1] * second[2]

\* s[:half] or s, and s[half:]
FirstHalf(s) == IF Len(s) \div 2 = 0 THEN s ELSE SubSeq(s, 1, Len(s) \div 2)
SecondHalf(s) == SubSeq(s, Len(s) \div 2 + 1, Len(s))

\* slope_second <= slope_first * 0.3
Flattened(first, second) == 10 * second[1] * first[2] <= 3 * first[1] * second[2]

RangeOf(s) == Max({s[i] : i \in DOMAIN s}) - Min({s[i] : i \in DOMAIN s})

Classify(xs, ys) ==
  IF RangeOf(ys) < MB THEN "STABLE"
  ELSE IF Flattened(LinFit(FirstHalf(xs), FirstHalf(ys)), LinFit(SecondHalf(xs), SecondHalf(ys)))
       THEN "PLATEAU" ELSE "LEAK"

\* monitor(): a process that is gone, or whose status cannot be read, ends it.
Sample(kb, delay) ==
  /\ verdict = "none" /\ Len(rss) < RssCount
  /\ times' = Append(times, IF times = <<>> THEN 0 ELSE times[Len(times)] + delay)
  /\ rss' = Append(rss, kb) /\ UNCHANGED verdict
Gone == verdict = "none" /\ Len(rss) < RssCount /\ verdict' = "gone" /\ UNCHANGED <<times, rss>>
Judge ==
  /\ verdict = "none" /\ Len(rss) = RssCount
  /\ verdict' = Classify(times, rss) /\ UNCHANGED <<times, rss>>

RssNext == Gone \/ Judge \/ \E kb \in Sizes, delay \in Delays : Sample(kb, delay)

RssSpec == RssInit /\ [][RssNext]_rssVars

-----------------------------------------------------------------------------
Judged == verdict \in {"STABLE", "PLATEAU", "LEAK"}
Steps == 1 .. Len(rss) - 1
Rise(i) == rss[i + 1] - rss[i]
Wait(i) == times[i + 1] - times[i]

(* Growth by at least a MB that never slows down, whatever the times       *)
(* between the samples, is called a leak, and growth that has stopped by   *)
(* the middle of the samples is not: for three samples or more.            *)
TrendJudged ==
  Judged /\ RssCount >= 3 /\ RangeOf(rss) >= MB =>
    /\ (\A i \in Steps : Rise(i) >= 0) /\ (\A i, j \in Steps : i < j => Rise(i) * Wait(j) <= Rise(j) * Wait(i))
         => verdict = "LEAK"
    /\ (\A i \in Steps : Rise(i) >= 0 /\ (i >= Len(rss) \div 2 => Rise(i) = 0))
         => verdict = "PLATEAU"

(* A suspected leak, "sustained growth", is a process that has grown from  *)
(* one sample to the next at least once.                                   *)
LeakGrows == verdict = "LEAK" => \E i \in Steps : Rise(i) > 0
=============================================================================
