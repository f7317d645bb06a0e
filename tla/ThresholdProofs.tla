-------------------------- MODULE ThresholdProofs --------------------------
(***************************************************************************)
(* The limits and the alarms, for every threshold and any length of run.   *)
(*                                                                         *)
(* The guards of an API: the first bucket (rate_limiter.py) grants at most *)
(* its burst and its rate over every window and loses no token; the        *)
(* sliding window is neither exceeded nor undercut.  The second bucket     *)
(* (token_bucket_ratelimiter.py) keeps its bound whatever times its        *)
(* callers pass.  The verifier accepts a request at most once, for every   *)
(* skew, nonce lifetime and fall-back of the clock with NonceTtl >         *)
(* 2 * MaxSkew + MaxBack, however often a request is delivered.            *)
(*                                                                         *)
(* The diagnostic tools: the certificate check warns before the            *)
(* certificate expires, the samplers tell the truth about an interval, the *)
(* socket tools flag every exhaustion and every pileup, and the leak       *)
(* detector is right about steady growth and about growth that has ended,  *)
(* for every number of samples.                                            *)
(*                                                                         *)
(* The recursion of sum() is taken apart with the lemmas on recursive      *)
(* functions that NetworkProofs begins with.                               *)
(***************************************************************************)
EXTENDS TokenBucket, SlidingWindow, EdgeLimiter, SignatureVerifier,
        CertExpiry, Samplers, SocketTables, RssTrend,
        NetworkProofs, SequenceTheorems

-----------------------------------------------------------------------------
(* TokenBucket of rate_limiter.py                                           *)

BucketIInv == BucketTypeOK /\ RateBoundInductive /\ NoTokenLost

\* What accrues over a time that is split in two.
LEMMA Accrual ==
  ASSUME NEW a \in Int, NEW b \in Int, NEW r \in Int
  PROVE  r * (a + b) = r * a + r * b /\ a * r = r * a
  BY SMT

LEMMA AccrualNat ==
  ASSUME NEW a \in Nat, NEW r \in Nat
  PROVE  r * a \in Nat
  BY SMT

LEMMA RefilledFacts ==
  ASSUME BucketTypeOK
  PROVE  /\ Refilled \in 0 .. BucketCapacity
         /\ Rate * (now - last) \in Nat
         /\ Refilled <= tokens + Rate * (now - last)
         /\ Refilled # BucketCapacity => Refilled = tokens + Rate * (now - last)
  <1>1. now - last \in Nat /\ Rate \in Nat /\ BucketCapacity \in Nat
    BY BucketAssumption, ClockAssumption DEF BucketTypeOK
  <1>2. Rate * (now - last) \in Nat /\ (now - last) * Rate = Rate * (now - last)
    BY <1>1, AccrualNat, Accrual
  <1> DEFINE accrued == Rate * (now - last)
  <1>3. accrued \in Nat /\ Refilled = Cap(tokens + accrued)
    BY <1>2 DEF Refilled
  <1> HIDE DEF accrued
  <1>4. /\ Refilled \in 0 .. BucketCapacity
        /\ Refilled <= tokens + accrued
        /\ Refilled # BucketCapacity => Refilled = tokens + accrued
    BY <1>1, <1>3 DEF BucketTypeOK, Cap
  <1> QED
    BY <1>2, <1>4 DEF accrued

LEMMA BucketInitIInv == BucketInit => BucketIInv
  <1> SUFFICES ASSUME BucketInit PROVE BucketIInv
    OBVIOUS
  <1> USE BucketAssumption, ClockAssumption DEF BucketInit
  <1>1. BucketTypeOK
    BY DEF BucketTypeOK
  <1>2. Rate * (now - last) = 0 /\ Rate * (now - from) = 0 /\ Rate * (now - fullAt) = 0
    BY SMT
  <1>3. Refilled \in 0 .. BucketCapacity
    BY <1>1, RefilledFacts
  <1>4. RateBoundInductive
    BY <1>2, <1>3 DEF RateBoundInductive
  <1>5. NoTokenLost
    BY <1>2 DEF NoTokenLost
  <1> QED
    BY <1>1, <1>4, <1>5 DEF BucketIInv

\* A call, allowed or denied, that leaves n tokens after spending c.
LEMMA CallIInv ==
  ASSUME BucketIInv, NEW c \in Nat, c <= Refilled,
         now' = now, from' = from, last' = now,
         tokens' = Refilled - c, spent' = spent + c, Watch(c)
  PROVE  BucketIInv'
  <1>1. /\ Refilled \in 0 .. BucketCapacity /\ Rate * (now - last) \in Nat
        /\ Refilled # BucketCapacity => Refilled = tokens + Rate * (now - last)
        /\ BucketCapacity \in Nat /\ Rate \in Nat
    BY RefilledFacts, BucketAssumption, ClockAssumption DEF BucketIInv
  <1>2. BucketTypeOK'
    BY <1>1 DEF BucketIInv, BucketTypeOK, Watch
  <1>3. Rate * (now' - last') = 0 /\ (now' - last') * Rate = 0
    <2>1. now' - last' = 0
      BY DEF BucketIInv, BucketTypeOK
    <2> QED
      BY <1>1, <2>1
  <1>4. Refilled' = tokens'
    <2>1. tokens' \in 0 .. BucketCapacity
      BY <1>2 DEF BucketTypeOK
    <2>2. Refilled' = Cap(tokens' + (now' - last') * Rate)
      BY DEF Refilled, Cap
    <2> QED
      BY <1>1, <1>3, <2>1, <2>2 DEF Cap
  <1>5. RateBoundInductive'
    <2> DEFINE yield == Rate * (now - from)
    <2>1. spent + Refilled <= BucketCapacity + yield /\ yield \in Int /\ spent \in Nat
      BY <1>1, Accrual DEF BucketIInv, RateBoundInductive, BucketTypeOK
    <2>2. Rate * (now' - from') = yield
      OBVIOUS
    <2> HIDE DEF yield
    <2>3. spent' + Refilled' <= BucketCapacity + yield
      BY <1>1, <1>4, <2>1
    <2> QED
      BY <2>2, <2>3 DEF RateBoundInductive
  <1>6. NoTokenLost'
    <2>1. CASE Refilled = BucketCapacity
      <3>1. fullAt' = now /\ sinceFull' = c
        BY <2>1 DEF Watch
      <3>2. now' - fullAt' = now' - last'
        BY <3>1
      <3>3. Rate * (now' - fullAt') = 0
        BY <1>3, <3>2
      <3> QED
        BY <1>1, <1>3, <2>1, <3>1, <3>3 DEF NoTokenLost
    <2>2. CASE Refilled # BucketCapacity
      <3> DEFINE yield == Rate * (now - fullAt)
      <3>1. fullAt' = fullAt /\ sinceFull' = sinceFull + c
        BY <2>2 DEF Watch
      <3>2. Refilled = BucketCapacity - sinceFull + yield
        BY <1>1, <2>2 DEF BucketIInv, NoTokenLost
      <3>3. Rate * (now' - fullAt') = yield /\ yield \in Int /\ sinceFull \in Nat
        BY <1>1, <3>1 DEF BucketIInv, BucketTypeOK
      <3> HIDE DEF yield
      <3>4. tokens' + 0 = BucketCapacity - sinceFull' + yield
        BY <1>1, <3>1, <3>2, <3>3
      <3> QED
        BY <1>3, <3>3, <3>4 DEF NoTokenLost
    <2> QED
      BY <2>1, <2>2
  <1> QED
    BY <1>2, <1>5, <1>6 DEF BucketIInv

LEMMA TickIInv ==
  ASSUME BucketIInv, Tick
  PROVE  BucketIInv'
  <1> DEFINE a == Rate * (now - last)
             b == Rate * (now - from)
             d == Rate * (now - fullAt)
  <1>0. BucketCapacity \in Nat /\ Rate \in Nat /\ MaxTime \in Nat
    BY BucketAssumption, ClockAssumption
  <1>1. BucketTypeOK'
    BY <1>0 DEF BucketIInv, BucketTypeOK, Tick, bucket
  <1>2. a \in Nat /\ b \in Nat /\ d \in Nat
    BY <1>0, AccrualNat DEF BucketIInv, BucketTypeOK
  <1>3. /\ Rate * (now' - last') = a + Rate
        /\ Rate * (now' - from') = b + Rate
        /\ Rate * (now' - fullAt') = d + Rate
    <2>1. \A x \in Int : Rate * (x + 1) = Rate * x + Rate
      BY <1>0, Accrual
    <2>2. /\ now' - last' = (now - last) + 1 /\ now - last \in Int
          /\ now' - from' = (now - from) + 1 /\ now - from \in Int
          /\ now' - fullAt' = (now - fullAt) + 1 /\ now - fullAt \in Int
      BY DEF Tick, bucket, BucketIInv, BucketTypeOK
    <2> QED
      BY <2>1, <2>2
  <1>4. Refilled = Cap(tokens + a) /\ Refilled' = Cap(tokens + (a + Rate))
    <2>1. (now - last) * Rate = a /\ (now' - last') * Rate = a + Rate
      BY <1>0, <1>3, Accrual DEF BucketIInv, BucketTypeOK, Tick, bucket
    <2>2. Refilled' = Cap(tokens' + (now' - last') * Rate)
      BY DEF Refilled, Cap
    <2> QED
      BY <2>1, <2>2 DEF Refilled, Tick, bucket
  <1>5. /\ spent' = spent /\ spent \in Nat /\ tokens' = tokens
        /\ sinceFull' = sinceFull /\ sinceFull \in Nat /\ tokens \in Nat
    BY <1>0 DEF Tick, bucket, BucketIInv, BucketTypeOK
  <1>6. spent + Cap(tokens + a) <= BucketCapacity + b
    BY <1>4 DEF BucketIInv, RateBoundInductive
  <1>7. tokens + a = BucketCapacity - sinceFull + d
    BY DEF BucketIInv, NoTokenLost
  <1> HIDE DEF a, b, d
  <1>8. spent + Cap(tokens + (a + Rate)) <= BucketCapacity + (b + Rate)
    BY <1>0, <1>2, <1>5, <1>6 DEF Cap
  <1>9. RateBoundInductive'
    BY <1>3, <1>4, <1>5, <1>8 DEF RateBoundInductive
  <1>10. NoTokenLost'
    BY <1>0, <1>2, <1>3, <1>5, <1>7 DEF NoTokenLost
  <1> QED
    BY <1>1, <1>9, <1>10 DEF BucketIInv

LEMMA StartAuditIInv ==
  ASSUME BucketIInv, StartAudit
  PROVE  BucketIInv'
  <1>1. BucketTypeOK'
    BY DEF BucketIInv, BucketTypeOK, StartAudit, bucket
  <1>2. Refilled' = Refilled /\ Refilled \in 0 .. BucketCapacity /\ BucketCapacity \in Nat
    BY RefilledFacts, BucketAssumption, ClockAssumption DEF Refilled, Cap, StartAudit, bucket, BucketIInv
  <1>3. Rate * (now' - from') = 0
    <2>1. now' - from' = 0
      BY DEF StartAudit, BucketIInv, BucketTypeOK
    <2> QED
      BY <2>1, BucketAssumption, ClockAssumption
  <1>4. RateBoundInductive'
    BY <1>2, <1>3 DEF RateBoundInductive, StartAudit
  <1>5. NoTokenLost'
    BY DEF BucketIInv, NoTokenLost, StartAudit, bucket
  <1> QED
    BY <1>1, <1>4, <1>5 DEF BucketIInv

LEMMA BucketNextIInv == BucketIInv /\ [BucketNext]_bucketVars => BucketIInv'
  <1> SUFFICES ASSUME BucketIInv, [BucketNext]_bucketVars PROVE BucketIInv'
    OBVIOUS
  <1>0. Refilled \in 0 .. BucketCapacity /\ spent \in Nat /\ BucketCapacity \in Nat
    BY RefilledFacts, BucketAssumption, ClockAssumption DEF BucketIInv, BucketTypeOK
  <1>1. ASSUME NEW c \in Costs, Allow(c) PROVE BucketIInv'
    <2>1. c \in Nat
      BY BucketAssumption, ClockAssumption
    <2> QED
      BY <1>1, <2>1, CallIInv DEF Allow, Enough
  <1>2. ASSUME NEW c \in Costs, Deny(c) PROVE BucketIInv'
    <2>1. 0 <= Refilled /\ tokens' = Refilled - 0 /\ spent' = spent + 0
      BY <1>0, <1>2 DEF Deny
    <2> QED
      BY <1>2, <2>1, CallIInv DEF Deny
  <1>3. CASE Tick
    BY <1>3, TickIInv
  <1>4. CASE StartAudit
    BY <1>4, StartAuditIInv
  <1>5. CASE UNCHANGED bucketVars
    BY <1>5 DEF bucketVars, bucket, BucketIInv, BucketTypeOK, RateBoundInductive, NoTokenLost, Refilled, Cap
  <1> QED
    BY <1>1, <1>2, <1>3, <1>4, <1>5 DEF BucketNext

(* The bucket's inductive invariant holds in every reachable state.         *)
THEOREM BucketInvariance == BucketSpec => []BucketIInv
  BY BucketInitIInv, BucketNextIInv, PTL DEF BucketSpec

(* Over every window of time the allowed calls cost at most one bucket plus *)
(* what the rate yields in it.                                              *)
THEOREM RateBounded == BucketSpec => []RateBound
  <1>1. BucketIInv => RateBound
    <2> SUFFICES ASSUME BucketIInv PROVE RateBound
      OBVIOUS
    <2>1. Refilled \in 0 .. BucketCapacity /\ spent \in Nat /\ BucketCapacity \in Nat
      BY RefilledFacts, BucketAssumption, ClockAssumption DEF BucketIInv, BucketTypeOK
    <2>2. Rate * (now - from) \in Int
      BY BucketAssumption, ClockAssumption, AccrualNat DEF BucketIInv, BucketTypeOK
    <2> QED
      BY <2>1, <2>2 DEF BucketIInv, RateBoundInductive, RateBound
  <1> QED
    BY <1>1, BucketInvariance, PTL

(* Every token that accrued since the bucket was last full was spent or is  *)
(* still there, and the bucket holds between nothing and its capacity.      *)
THEOREM TokensConserved == BucketSpec => [](NoTokenLost /\ tokens \in 0 .. BucketCapacity)
  <1>1. BucketIInv => NoTokenLost /\ tokens \in 0 .. BucketCapacity
    BY DEF BucketIInv, BucketTypeOK
  <1> QED
    BY <1>1, BucketInvariance, PTL

-----------------------------------------------------------------------------
(* SlidingWindowLog of rate_limiter.py                                      *)

\* A non-empty set of numbers has a least element, and Min is it.
LEMMA MinFacts ==
  ASSUME NEW S \in SUBSET Nat, S # {}
  PROVE  Min(S) \in S /\ \A y \in S : Min(S) <= y
  <1>1. PICK x \in S : \A y \in S : ~ (<<y, x>> \in OpToRel(<, Nat))
    BY NatLessThanWellFounded, WFMin
  <1>2. \A y \in S : ~ (y < x)
    BY <1>1 DEF OpToRel
  <1>3. \A y \in S : x <= y
    BY <1>2
  <1> QED
    BY <1>3 DEF Min

(* WindowQuota is not inductive alone.  self._events is the end of the      *)
(* history of allowed calls: what has been popped from its left is expired, *)
(* and the times are in order, so that popping from the left is enough.     *)
LogTypeOK == now \in Nat /\ events \in Seq(Nat) /\ log \in Seq(Nat)

InOrder ==
  /\ \A k \in 1 .. Len(log) : log[k] <= now
  /\ \A k, l \in 1 .. Len(log) : k <= l => log[k] <= log[l]

\* es is the end of the log, and what precedes it is out of the window.
EndOf(es, lg) == Len(es) <= Len(lg) /\ \A k \in 1 .. Len(es) : es[k] = lg[Len(lg) - Len(es) + k]
Elapsed(n, lg, t) == \A k \in 1 .. n : lg[k] <= t - Window

LogIInv ==
  /\ LogTypeOK
  /\ InOrder
  /\ EndOf(events, log)
  /\ Elapsed(Len(log) - Len(events), log, now)
  /\ StrictQuota

(* The while loop (lines 86-87) leaves the calls of the window, all of them *)
(* and nothing else.                                                        *)
LEMMA EvictedFacts ==
  ASSUME LogIInv
  PROVE  /\ Evicted \in Seq(Nat)
         /\ EndOf(Evicted, log)
         /\ Elapsed(Len(log) - Len(Evicted), log, now)
         /\ \A k \in Len(log) - Len(Evicted) + 1 .. Len(log) : log[k] > now - Window
  <1> DEFINE kept == {k \in DOMAIN events : ~Expired(events[k])}
             n == Len(log)
             e == Len(events)
  <1>1. /\ n \in Nat /\ e \in Nat /\ e <= n /\ DOMAIN events = 1 .. e
        /\ now \in Nat /\ Window \in Nat
        /\ \A k \in 1 .. n : log[k] \in Nat
        /\ \A k \in 1 .. e : events[k] = log[n - e + k] /\ n - e + k \in 1 .. n
        /\ events \in Seq(Nat)
    BY LenProperties, ElementOfSeq, WindowAssumption DEF LogIInv, LogTypeOK, EndOf
  <1>2. \A k \in 1 .. n - e : log[k] <= now - Window
    BY DEF LogIInv, Elapsed
  <1>3. \A k, l \in 1 .. n : k <= l => log[k] <= log[l]
    BY DEF LogIInv, InOrder
  <1>n. n = Len(log) /\ e = Len(events) /\ kept \in SUBSET Nat
    BY <1>1
  <1> HIDE DEF n, e
  <1>4. CASE kept = {}
    <2>1. Evicted = << >> /\ Len(<< >>) = 0 /\ << >> \in Seq(Nat)
      BY <1>4, EmptySeq DEF Evicted
    <2>2. \A k \in 1 .. e : events[k] <= now - Window
      BY <1>1, <1>4 DEF Expired
    <2>3. ASSUME NEW k \in 1 .. n PROVE log[k] <= now - Window
      <3>1. CASE k <= n - e
        BY <1>1, <1>2, <3>1
      <3>2. CASE ~(k <= n - e)
        <4>1. k - (n - e) \in 1 .. e /\ n - e + (k - (n - e)) = k
          BY <1>1, <3>2
        <4> QED
          BY <1>1, <2>2, <4>1
      <3> QED
        BY <3>1, <3>2
    <2> QED
      BY <1>1, <1>n, <2>1, <2>3 DEF EndOf, Elapsed
  <1>5. CASE kept # {}
    <2> DEFINE m == Min(kept)
    <2>1. m \in kept /\ \A k \in kept : m <= k
      <3> HIDE DEF kept
      <3> QED
        BY <1>n, <1>5, MinFacts
    <2>2. Evicted = SubSeq(events, m, e)
      BY <1>n, <1>5 DEF Evicted
    <2>3. m \in 1 .. e /\ events[m] > now - Window
      BY <1>1, <2>1 DEF Expired
    <2>4. \A k \in 1 .. m - 1 : events[k] <= now - Window
      <3> SUFFICES ASSUME NEW k \in 1 .. m - 1 PROVE events[k] <= now - Window
        OBVIOUS
      <3>1. k \in 1 .. e /\ ~(m <= k)
        BY <1>1, <2>3
      <3>2. k \notin kept
        BY <2>1, <3>1
      <3>3. events[k] \in Nat
        BY <1>1, <3>1
      <3> QED
        BY <1>1, <3>1, <3>2, <3>3 DEF Expired
    <2> HIDE DEF m
    <2>5. /\ Evicted \in Seq(Nat) /\ Len(Evicted) = e - m + 1
          /\ \A k \in 1 .. e - m + 1 : Evicted[k] = events[m + k - 1]
      <3>1. m \in Int /\ e \in Int /\ m <= e /\ \A k \in m .. e : events[k] \in Nat
        BY <1>1, <2>3
      <3>2. /\ SubSeq(events, m, e) \in Seq(Nat)
            /\ Len(SubSeq(events, m, e)) = IF m <= e THEN e - m + 1 ELSE 0
            /\ \A k \in 1 .. e - m + 1 : SubSeq(events, m, e)[k] = events[m + k - 1]
        BY <3>1, SubSeqProperties
      <3> QED
        BY <2>2, <3>1, <3>2
    <2>6. EndOf(Evicted, log)
      <3>1. ASSUME NEW k \in 1 .. e - m + 1 PROVE Evicted[k] = log[n - (e - m + 1) + k]
        <4>1. m + k - 1 \in 1 .. e /\ n - e + (m + k - 1) = n - (e - m + 1) + k
          BY <1>1, <2>3
        <4> QED
          BY <1>1, <2>5, <4>1
      <3> QED
        BY <1>1, <1>n, <2>3, <2>5, <3>1 DEF EndOf
    <2>7. Elapsed(n - (e - m + 1), log, now)
      <3> SUFFICES ASSUME NEW k \in 1 .. n - (e - m + 1) PROVE log[k] <= now - Window
        BY DEF Elapsed
      <3>1. CASE k <= n - e
        BY <1>1, <1>2, <3>1
      <3>2. CASE ~(k <= n - e)
        <4>1. k - (n - e) \in 1 .. m - 1 /\ k - (n - e) \in 1 .. e /\ n - e + (k - (n - e)) = k
          BY <1>1, <2>3, <3>2
        <4> QED
          BY <1>1, <2>4, <4>1
      <3> QED
        BY <3>1, <3>2
    <2>8. ASSUME NEW k \in n - (e - m + 1) + 1 .. n PROVE log[k] > now - Window
      <3>1. n - e + m \in 1 .. n /\ k \in 1 .. n /\ n - e + m <= k
        BY <1>1, <2>3
      <3>2. log[n - e + m] <= log[k] /\ log[n - e + m] = events[m]
        BY <1>1, <1>3, <2>3, <3>1
      <3>3. log[k] \in Nat /\ log[n - e + m] \in Nat
        BY <1>1, <3>1
      <3> QED
        BY <1>1, <2>3, <3>2, <3>3
    <2> QED
      BY <1>n, <2>5, <2>6, <2>7, <2>8
  <1> QED
    BY <1>4, <1>5

(* What allow() counts is the number of allowed calls in the window.        *)
LEMMA LogCounts == LogIInv => CountsTheWindow
  <1> SUFFICES ASSUME LogIInv PROVE CountsTheWindow
    OBVIOUS
  <1> DEFINE n == Len(log)
             v == Len(Evicted)
  <1>1. /\ n \in Nat /\ v \in Nat /\ v <= n /\ DOMAIN log = 1 .. n
        /\ \A k \in 1 .. n : log[k] \in Nat
        /\ now \in Nat /\ Window \in Nat
    BY EvictedFacts, LenProperties, ElementOfSeq, WindowAssumption DEF LogIInv, LogTypeOK, EndOf
  <1>n. n = Len(log) /\ v = Len(Evicted)
    OBVIOUS
  <1> HIDE DEF n, v
  <1>2. InWindow = n - v + 1 .. n
    <2>1. \A k \in 1 .. n - v : ~(log[k] > now - Window)
      BY <1>1, <1>n, EvictedFacts DEF Elapsed
    <2>2. \A k \in n - v + 1 .. n : log[k] > now - Window
      BY <1>n, EvictedFacts
    <2>3. \A k \in 1 .. n : k \in 1 .. n - v \/ k \in n - v + 1 .. n
      BY <1>1
    <2>4. \A k \in n - v + 1 .. n : k \in 1 .. n
      BY <1>1
    <2> QED
      BY <1>1, <2>1, <2>2, <2>3, <2>4 DEF InWindow
  <1>3. Cardinality(n - v + 1 .. n) = v
    <2> DEFINE a == n - v + 1
    <2>1. a \in Int /\ n \in Int /\ (a > n => v = 0) /\ n - a + 1 = v
      BY <1>1
    <2> HIDE DEF a
    <2>2. Cardinality(a .. n) = IF a > n THEN 0 ELSE n - a + 1
      BY <2>1, FS_Interval
    <2> QED
      BY <2>1, <2>2 DEF a
  <1> QED
    BY <1>n, <1>2, <1>3 DEF CountsTheWindow, Live

\* A call that is allowed is a window after the one that is Limit calls back.
LEMMA LogAllowIInv ==
  ASSUME LogIInv, LogAllow
  PROVE  LogIInv'
  <1> DEFINE n == Len(log)
             v == Len(Evicted)
  <1>1. /\ n \in Nat /\ v \in Nat /\ v <= n /\ DOMAIN log = 1 .. n
        /\ \A k \in 1 .. n : log[k] \in Nat
        /\ now \in Nat /\ Window \in Nat /\ Limit \in Nat /\ v < Limit
        /\ log \in Seq(Nat) /\ Evicted \in Seq(Nat)
    BY EvictedFacts, LenProperties, ElementOfSeq, WindowAssumption
       DEF LogIInv, LogTypeOK, EndOf, LogAllow, Quota, Live
  <1>2. /\ log' \in Seq(Nat) /\ Len(log') = n + 1 /\ log'[n + 1] = now
        /\ \A k \in 1 .. n : log'[k] = log[k]
        /\ now' = now
    BY <1>1, AppendProperties DEF LogAllow
  <1>3. /\ events' \in Seq(Nat) /\ Len(events') = v + 1 /\ events'[v + 1] = now
        /\ \A k \in 1 .. v : events'[k] = Evicted[k]
    BY <1>1, AppendProperties DEF LogAllow
  <1>4. Elapsed(n - v, log, now) /\ \A k \in 1 .. v : Evicted[k] = log[n - v + k]
    BY EvictedFacts DEF EndOf
  <1>n. n = Len(log) /\ v = Len(Evicted)
    OBVIOUS
  <1> HIDE DEF n, v
  <1>5. LogTypeOK'
    BY <1>1, <1>2, <1>3 DEF LogTypeOK
  <1>6. InOrder'
    <2>1. \A k \in 1 .. n : log[k] <= now
      BY <1>n DEF LogIInv, InOrder
    <2>2. \A k, l \in 1 .. n : k <= l => log[k] <= log[l]
      BY <1>n DEF LogIInv, InOrder
    <2>3. \A k \in 1 .. n + 1 : k \in 1 .. n \/ k = n + 1
      BY <1>1
    <2>4. \A k \in 1 .. n + 1 : log'[k] <= now
      BY <1>1, <1>2, <2>1, <2>3
    <2>5. ASSUME NEW k \in 1 .. n + 1, NEW l \in 1 .. n + 1, k <= l
          PROVE  log'[k] <= log'[l]
      <3>1. CASE l = n + 1
        BY <1>2, <2>4, <3>1
      <3>2. CASE l # n + 1
        <4>1. k \in 1 .. n /\ l \in 1 .. n
          BY <1>1, <2>5, <3>2
        <4> QED
          BY <1>2, <2>2, <2>5, <4>1
      <3> QED
        BY <3>1, <3>2
    <2> QED
      BY <1>2, <2>4, <2>5 DEF InOrder
  <1>7. EndOf(events', log')
    <2>1. ASSUME NEW k \in 1 .. v + 1 PROVE events'[k] = log'[n + 1 - (v + 1) + k]
      <3>1. CASE k = v + 1
        BY <1>1, <1>2, <1>3, <3>1
      <3>2. CASE k # v + 1
        <4>1. k \in 1 .. v /\ n - v + k \in 1 .. n /\ n + 1 - (v + 1) + k = n - v + k
          BY <1>1, <3>2
        <4> QED
          BY <1>2, <1>3, <1>4, <4>1
      <3> QED
        BY <3>1, <3>2
    <2> QED
      <3>1. Len(events') <= Len(log')
        BY <1>1, <1>2, <1>3
      <3>2. ASSUME NEW k \in 1 .. Len(events')
            PROVE  events'[k] = log'[Len(log') - Len(events') + k]
        <4>1. k \in 1 .. v + 1 /\ Len(log') - Len(events') + k = n + 1 - (v + 1) + k
          BY <1>1, <1>2, <1>3
        <4> QED
          BY <2>1, <4>1
      <3> QED
        BY <3>1, <3>2 DEF EndOf
  <1>8. Elapsed(Len(log') - Len(events'), log', now')
    <2>1. Len(log') - Len(events') = n - v
      BY <1>1, <1>2, <1>3
    <2>2. \A k \in 1 .. n - v : k \in 1 .. n
      BY <1>1
    <2> QED
      BY <1>2, <1>4, <2>1, <2>2 DEF Elapsed
  <1>9. StrictQuota'
    <2>1. DOMAIN log' = 1 .. n + 1
      BY <1>2, LenProperties
    <2> SUFFICES ASSUME NEW k \in 1 .. n + 1, k + Limit \in 1 .. n + 1
                 PROVE  log'[k + Limit] - log'[k] >= Window
      BY <2>1 DEF StrictQuota
    <2>2. CASE k + Limit = n + 1
      <3>1. k \in 1 .. n - v /\ k \in 1 .. n
        BY <1>1, <2>2
      <3>2. log[k] <= now - Window
        BY <1>4, <3>1 DEF Elapsed
      <3>3. log'[k] = log[k] /\ log'[k + Limit] = now /\ log[k] \in Nat
        BY <1>1, <1>2, <2>2, <3>1
      <3> QED
        BY <1>1, <3>2, <3>3
    <2>3. CASE k + Limit # n + 1
      <3>1. k + Limit \in 1 .. n /\ k \in 1 .. n
        BY <1>1, <2>3
      <3>2. log[k + Limit] - log[k] >= Window
        BY <1>1, <1>n, <3>1 DEF LogIInv, StrictQuota
      <3> QED
        BY <1>2, <3>1, <3>2
    <2> QED
      BY <2>2, <2>3
  <1> QED
    BY <1>5, <1>6, <1>7, <1>8, <1>9 DEF LogIInv

LEMMA LogNextIInv == LogIInv /\ [LogNext]_<<now, logVars>> => LogIInv'
  <1> SUFFICES ASSUME LogIInv, [LogNext]_<<now, logVars>> PROVE LogIInv'
    OBVIOUS
  <1>1. CASE LogAllow
    BY <1>1, LogAllowIInv
  <1>2. CASE LogDeny
    <2>1. UNCHANGED <<now, log>> /\ events' = Evicted
      BY <1>2 DEF LogDeny
    <2>2. LogTypeOK' /\ EndOf(events', log') /\ Elapsed(Len(log') - Len(events'), log', now')
      BY <2>1, EvictedFacts DEF LogIInv, LogTypeOK
    <2> QED
      BY <2>1, <2>2 DEF LogIInv, InOrder, StrictQuota
  <1>3. CASE LogTick
    <2>1. UNCHANGED <<events, log>> /\ now' = now + 1 /\ now \in Nat /\ Window \in Nat
      BY <1>3, WindowAssumption DEF LogTick, LogIInv, LogTypeOK
    <2>2. \A k \in 1 .. Len(log) : log[k] \in Nat
      BY ElementOfSeq DEF LogIInv, LogTypeOK
    <2>3. LogTypeOK'
      BY <2>1 DEF LogIInv, LogTypeOK
    <2>4. InOrder'
      BY <2>1, <2>2 DEF LogIInv, InOrder
    <2>5. Len(log) \in Nat /\ Len(events) \in Nat
      BY LenProperties DEF LogIInv, LogTypeOK
    <2>6. Elapsed(Len(log) - Len(events), log, now')
      BY <2>1, <2>2, <2>5 DEF LogIInv, Elapsed
    <2> QED
      BY <2>1, <2>3, <2>4, <2>6 DEF LogIInv, StrictQuota
  <1>4. CASE UNCHANGED <<now, logVars>>
    BY <1>4 DEF logVars, LogIInv, LogTypeOK, InOrder, StrictQuota
  <1> QED
    BY <1>1, <1>2, <1>3, <1>4 DEF LogNext

(* The sliding window is neither exceeded nor undercut, for every limit and *)
(* window and every series of calls.                                        *)
THEOREM WindowExact == LogSpec => []WindowQuota
  <1>1. LogInit => LogIInv
    BY EmptySeq, WindowAssumption
       DEF LogInit, LogIInv, LogTypeOK, InOrder, EndOf, Elapsed, StrictQuota
  <1>2. LogIInv => WindowQuota
    BY LogCounts DEF LogIInv, WindowQuota
  <1> QED
    BY <1>1, <1>2, LogNextIInv, PTL DEF LogSpec

-----------------------------------------------------------------------------
(* TokenBucket of token_bucket_ratelimiter.py                               *)

(* EdgeBound is not inductive alone: the refill credits the time since      *)
(* self.last, which must be the latest time that any caller has passed.     *)
EdgeIInv ==
  /\ edgeTokens \in Nat /\ granted \in Nat /\ latestCall \in Nat
  /\ edgeLast = latestCall
  /\ EdgeBound

(* What accrues up to now is what accrued up to the last call and since.    *)
LEMMA EdgeAccrual ==
  ASSUME NEW t \in Nat, NEW before \in Nat, NEW rate \in Nat, t > before
  PROVE  /\ (t - before) * rate \in Nat
         /\ before * rate \in Nat /\ t * rate \in Nat
         /\ before * rate + (t - before) * rate = t * rate
<1>1. PICK d \in Nat : t = before + d
  <2>1. t - before \in Nat /\ t = before + (t - before)
    OBVIOUS
  <2> QED
    BY <2>1
<1>2. t - before = d /\ (before + d) * rate = before * rate + d * rate
  BY <1>1
<1>3. before * rate \in Nat /\ d * rate \in Nat
  BY <1>1
<1> QED
  BY <1>1, <1>2, <1>3

(* _refill() (token_bucket_ratelimiter.py, lines 55-60) keeps the tokens a  *)
(* natural number and adds at most what the rate yields up to the latest    *)
(* call.                                                                    *)
LEMMA RefillBounded ==
  ASSUME EdgeIInv, NEW t \in Nat
  PROVE  /\ EdgeRefilled(t) \in Nat
         /\ NextLast(t) \in Nat
         /\ NextLast(t) = (IF t > latestCall THEN t ELSE latestCall)
         /\ granted + EdgeRefilled(t) <= EdgeCapacity + NextLast(t) * EdgeRate
<1>1. CASE t > edgeLast
  <2>1. /\ (t - edgeLast) * EdgeRate \in Nat
        /\ edgeLast * EdgeRate \in Nat /\ t * EdgeRate \in Nat
        /\ edgeLast * EdgeRate + (t - edgeLast) * EdgeRate = t * EdgeRate
    BY <1>1, EdgeAccrual, EdgeAssumption DEF EdgeIInv
  <2>2. granted + edgeTokens <= EdgeCapacity + edgeLast * EdgeRate
    BY DEF EdgeIInv, EdgeBound
  <2>3. /\ EdgeRefilled(t) \in Nat
        /\ EdgeRefilled(t) <= edgeTokens + (t - edgeLast) * EdgeRate
    BY <1>1, <2>1, EdgeAssumption DEF EdgeIInv, EdgeRefilled, EdgeLesser
  <2>4. NextLast(t) = t /\ t > latestCall
    BY <1>1 DEF NextLast, EdgeIInv
  <2> QED
    BY <2>1, <2>2, <2>3, <2>4, EdgeAssumption DEF EdgeIInv
<1>2. CASE ~(t > edgeLast)
  BY <1>2 DEF EdgeRefilled, NextLast, EdgeIInv, EdgeBound
<1> QED
  BY <1>1, <1>2

(* One call of allow() preserves the invariant, granted or not.             *)
LEMMA AllowPreserves ==
  ASSUME EdgeIInv, NEW cost \in EdgeCosts, NEW t \in 0 .. MaxNow, EdgeAllow(cost, t)
  PROVE  EdgeIInv'
<1>0. t \in Nat /\ cost \in Nat
  BY EdgeAssumption
<1>1. /\ EdgeRefilled(t) \in Nat /\ NextLast(t) \in Nat
      /\ NextLast(t) = (IF t > latestCall THEN t ELSE latestCall)
      /\ granted + EdgeRefilled(t) <= EdgeCapacity + NextLast(t) * EdgeRate
  BY <1>0, RefillBounded
<1>2. edgeLast' = NextLast(t) /\ latestCall' = NextLast(t)
  BY <1>1 DEF EdgeAllow
<1>3. /\ edgeTokens' \in Nat /\ granted' \in Nat
      /\ granted' + edgeTokens' = granted + EdgeRefilled(t)
  <2>1. CASE EdgeRefilled(t) >= cost
    BY <1>0, <1>1, <2>1 DEF EdgeAllow, EdgeIInv
  <2>2. CASE ~(EdgeRefilled(t) >= cost)
    BY <1>1, <2>2 DEF EdgeAllow, EdgeIInv
  <2> QED
    BY <2>1, <2>2
<1> QED
  BY <1>1, <1>2, <1>3 DEF EdgeIInv, EdgeBound

(* The edge limiter's bound (lines 161-183): all that callers were granted  *)
(* is at most the burst plus what the rate yields up to the latest of the   *)
(* times they passed, though their clocks may disagree or go back.          *)
THEOREM EdgeBounded == EdgeSpec => []EdgeBound
<1>1. EdgeInit => EdgeIInv
  BY EdgeAssumption DEF EdgeInit, EdgeIInv, EdgeBound
<1>2. EdgeIInv /\ [EdgeNext]_edgeVars => EdgeIInv'
  <2> SUFFICES ASSUME EdgeIInv, [EdgeNext]_edgeVars PROVE EdgeIInv'
    OBVIOUS
  <2>1. CASE EdgeNext
    <3>1. PICK cost \in EdgeCosts, t \in 0 .. MaxNow : EdgeAllow(cost, t)
      BY <2>1 DEF EdgeNext
    <3> QED
      BY <3>1, AllowPreserves
  <2>2. CASE UNCHANGED edgeVars
    BY <2>2 DEF edgeVars, EdgeIInv, EdgeBound
  <2> QED
    BY <2>1, <2>2
<1>3. EdgeIInv => EdgeBound
  BY DEF EdgeIInv
<1> QED
  BY <1>1, <1>2, <1>3, PTL DEF EdgeSpec

-----------------------------------------------------------------------------
(* The verifier                                                             *)

VerifierTypeOK ==
  /\ wall \in Int /\ latest \in Int
  /\ DOMAIN stamp \subseteq Nonces /\ \A n \in DOMAIN stamp : stamp[n] \in Int
  /\ DOMAIN seen \subseteq Nonces /\ \A n \in DOMAIN seen : seen[n] \in Int
  /\ accepted \in [Nonces -> Nat]

\* The clock is behind the latest time it has shown by MaxBack at most.
ClockInv == latest - MaxBack <= wall /\ wall <= latest

\* Up to this time the nonce of a request that was accepted is kept.
Memory(n) == stamp[n] - MaxSkew + NonceTtl

(* A nonce that is kept is kept long enough, and one that is forgotten was  *)
(* so when the time of its memory had come: AcceptedOnce alone does not say *)
(* when the copy of an accepted request is stale.                           *)
NonceInv(n) ==
  \/ accepted[n] = 0 /\ n \notin DOMAIN seen
  \/ /\ accepted[n] = 1 /\ n \in DOMAIN stamp
     /\ IF n \in DOMAIN seen THEN Memory(n) <= seen[n] ELSE Memory(n) <= latest

VerifierIInv == VerifierTypeOK /\ ClockInv /\ \A n \in Nonces : NonceInv(n)

-----------------------------------------------------------------------------
(* A request whose memory is over is stale, for a clock that fell back too. *)
LEMMA MemoryOutlastsFreshness ==
  ASSUME VerifierTypeOK, ClockInv, NEW n \in DOMAIN stamp, Memory(n) <= latest
  PROVE  Stale(n)
<1>1. stamp[n] \in Int
  BY DEF VerifierTypeOK
<1> QED
  BY <1>1, VerifierAssumption DEF VerifierTypeOK, ClockInv, Memory, Stale

(* The wall clock moves (time.time()): memories that are over stay over.    *)
LEMMA SetClockPreserves ==
  ASSUME VerifierIInv, NEW t \in latest - MaxBack .. latest + 1, SetClock(t)
  PROVE  VerifierIInv'
<1>1. t \in Int /\ latest \in Int /\ latest' \in Int /\ latest <= latest'
  BY VerifierAssumption DEF VerifierIInv, VerifierTypeOK, SetClock
<1>2. VerifierTypeOK'
  BY <1>1 DEF VerifierIInv, VerifierTypeOK, SetClock
<1>3. ClockInv'
  BY <1>1, VerifierAssumption DEF VerifierIInv, VerifierTypeOK, ClockInv, SetClock
<1>4. ASSUME NEW n \in Nonces PROVE NonceInv(n)'
  <2>1. NonceInv(n) /\ (n \in DOMAIN stamp => Memory(n) \in Int)
    BY VerifierAssumption DEF VerifierIInv, VerifierTypeOK, Memory
  <2> QED
    BY <1>1, <2>1 DEF NonceInv, Memory, SetClock
<1> QED
  BY <1>2, <1>3, <1>4 DEF VerifierIInv

(* sign() (lines 90-95) makes a request with a new nonce.                   *)
LEMMA SignPreserves ==
  ASSUME VerifierIInv, NEW n \in Nonces, NEW ts \in 0 .. Horizon, Sign(n, ts)
  PROVE  VerifierIInv'
<1>1. /\ DOMAIN stamp' = DOMAIN stamp \cup {n}
      /\ stamp'[n] = ts /\ \A m \in DOMAIN stamp : stamp'[m] = stamp[m]
  BY DEF Sign
<1>2. VerifierTypeOK' /\ ClockInv'
  BY <1>1, VerifierAssumption DEF VerifierIInv, VerifierTypeOK, ClockInv, Sign
<1>3. ASSUME NEW m \in Nonces PROVE NonceInv(m)'
  <2>1. NonceInv(m)
    BY DEF VerifierIInv
  <2> QED
    BY <1>1, <2>1 DEF NonceInv, Memory, Sign
<1> QED
  BY <1>2, <1>3 DEF VerifierIInv

(* _gc() (lines 107-110) drops the nonces whose time has come, and only     *)
(* those: the request they were of is then past its memory.                 *)
LEMMA ForgottenIsOver ==
  ASSUME VerifierIInv, NEW n \in Nonces, accepted[n] = 1, n \notin Kept
  PROVE  n \in DOMAIN stamp /\ Memory(n) <= latest
<1>1. NonceInv(n) /\ n \in DOMAIN stamp /\ Memory(n) \in Int
  BY VerifierAssumption DEF VerifierIInv, VerifierTypeOK, NonceInv, Memory
<1>2. CASE n \in DOMAIN seen
  <2>1. seen[n] \in Int /\ ~(seen[n] > wall) /\ Memory(n) <= seen[n]
    BY <1>1, <1>2 DEF Kept, NonceInv, VerifierIInv, VerifierTypeOK
  <2> QED
    BY <1>1, <2>1 DEF VerifierIInv, VerifierTypeOK, ClockInv
<1>3. CASE n \notin DOMAIN seen
  BY <1>1, <1>3 DEF NonceInv
<1> QED
  BY <1>2, <1>3

(* verify() (lines 112-139) of a genuine request.                           *)
LEMMA VerifyPreserves ==
  ASSUME VerifierIInv, NEW n \in Nonces, Verify(n)
  PROVE  VerifierIInv'
<1>1. n \in DOMAIN stamp /\ ~Stale(n) /\ stamp[n] \in Int /\ wall \in Int
  BY DEF Verify, VerifierIInv, VerifierTypeOK
<1>2. wall' = wall /\ latest' = latest /\ stamp' = stamp
  BY DEF Verify
<1>3. Kept \subseteq DOMAIN seen
  BY DEF Kept
<1>4. CASE n \in Kept
  <2>1. seen' = [m \in Kept |-> seen[m]] /\ accepted' = accepted
    BY <1>4 DEF Verify
  <2>2. VerifierTypeOK' /\ ClockInv'
    BY <1>2, <1>3, <2>1 DEF VerifierIInv, VerifierTypeOK, ClockInv
  <2>3. ASSUME NEW m \in Nonces PROVE NonceInv(m)'
    <3>1. NonceInv(m)
      BY DEF VerifierIInv
    <3>2. accepted[m] = 1 /\ m \notin Kept => m \in DOMAIN stamp /\ Memory(m) <= latest
      BY ForgottenIsOver
    <3> QED
      BY <1>2, <1>3, <2>1, <3>1, <3>2 DEF NonceInv, Memory
  <2> QED
    BY <2>2, <2>3 DEF VerifierIInv
<1>5. CASE n \notin Kept
  <2>1. /\ seen' = [m \in Kept \cup {n} |-> IF m = n THEN Expiry(n) ELSE seen[m]]
        /\ accepted' = [accepted EXCEPT ![n] = @ + 1]
    BY <1>5 DEF Verify
  <2>2. accepted[n] = 0
    <3>1. accepted[n] # 1
      BY <1>1, <1>5, ForgottenIsOver, MemoryOutlastsFreshness DEF VerifierIInv
    <3> QED
      BY <3>1 DEF VerifierIInv, NonceInv
  <2>3. /\ DOMAIN seen' = Kept \cup {n} /\ seen'[n] = wall + NonceTtl
        /\ \A m \in Kept : seen'[m] = IF m = n THEN wall + NonceTtl ELSE seen[m]
    BY <2>1 DEF Expiry
  <2>4. VerifierTypeOK'
    <3>1. wall + NonceTtl \in Int
      BY <1>1, VerifierAssumption
    <3> QED
      BY <1>2, <1>3, <2>1, <2>3, <3>1 DEF VerifierIInv, VerifierTypeOK
  <2>5. ClockInv'
    BY <1>2 DEF VerifierIInv, ClockInv
  <2>6. ASSUME NEW m \in Nonces PROVE NonceInv(m)'
    <3>1. CASE m = n
      <4>1. accepted'[n] = 1
        BY <2>1, <2>2 DEF VerifierIInv, VerifierTypeOK
      <4>2. stamp[n] - MaxSkew + NonceTtl <= wall + NonceTtl
        BY <1>1, VerifierAssumption DEF Stale
      <4> QED
        BY <1>1, <1>2, <2>3, <3>1, <4>1, <4>2 DEF NonceInv, Memory
    <3>2. CASE m # n
      <4>1. NonceInv(m) /\ accepted'[m] = accepted[m]
        BY <2>1, <3>2 DEF VerifierIInv, VerifierTypeOK
      <4>2. accepted[m] = 1 /\ m \notin Kept => m \in DOMAIN stamp /\ Memory(m) <= latest
        BY ForgottenIsOver
      <4> QED
        BY <1>2, <1>3, <2>3, <3>2, <4>1, <4>2 DEF NonceInv, Memory
    <3> QED
      BY <3>1, <3>2
  <2> QED
    BY <2>4, <2>5, <2>6 DEF VerifierIInv
<1> QED
  BY <1>4, <1>5

(* Replay prevention (lines 132-139): no request is accepted twice, though  *)
(* nonces are forgotten, clocks of clients are wrong and the verifier's own *)
(* may fall back; and only accepted requests hold a nonce slot.             *)
THEOREM NoReplay == VerifierSpec => []AcceptedOnce
<1>1. VerifierInit => VerifierIInv
  BY VerifierAssumption
     DEF VerifierInit, VerifierIInv, VerifierTypeOK, ClockInv, NonceInv
<1>2. VerifierIInv /\ [VerifierNext]_verifierVars => VerifierIInv'
  <2> SUFFICES ASSUME VerifierIInv, [VerifierNext]_verifierVars PROVE VerifierIInv'
    OBVIOUS
  <2>1. CASE \E t \in latest - MaxBack .. latest + 1 : t \in 0 .. Horizon /\ SetClock(t)
    BY <2>1, SetClockPreserves
  <2>2. CASE \E n \in Nonces, ts \in 0 .. Horizon : Sign(n, ts)
    BY <2>2, SignPreserves
  <2>3. CASE \E n \in Nonces : Verify(n)
    BY <2>3, VerifyPreserves
  <2>4. CASE UNCHANGED verifierVars
    BY <2>4 DEF verifierVars, VerifierIInv, VerifierTypeOK, ClockInv, NonceInv, Memory
  <2> QED
    BY <2>1, <2>2, <2>3, <2>4 DEF VerifierNext, Refuse
<1>3. VerifierIInv => AcceptedOnce
  <2> SUFFICES ASSUME VerifierIInv, NEW n \in Nonces
               PROVE  accepted[n] <= 1 /\ (n \in DOMAIN seen => accepted[n] = 1)
    BY DEF AcceptedOnce
  <2>1. NonceInv(n)
    BY DEF VerifierIInv
  <2> QED
    BY <2>1 DEF NonceInv
<1> QED
  BY <1>1, <1>2, <1>3, PTL DEF VerifierSpec

-----------------------------------------------------------------------------
(* cert_expiry_check.py: a certificate without a warning was more than      *)
(* WarnDays from its end at the last check, which is not long ago.          *)

Unwarned == warned \cap {"WARNING", "CRITICAL"} = {}

CertIInv ==
  /\ today \in Int /\ notAfter \in Int /\ checked \in Int
  /\ Unwarned => notAfter - checked >= WarnDays /\ today - checked <= MaxGap

(* "This script is the alert" (cert_expiry_check.py): no certificate goes   *)
(* from healthy to expired without a WARNING or a CRITICAL in between.      *)
THEOREM AlertInTime == CertSpec => []WarnedBeforeExpiry
<1> USE CertAssumption DEF CertIInv, Unwarned
<1>1. CertInit => CertIInv
  BY DEF CertInit
<1>2. CertIInv /\ [CertNext]_certVars => CertIInv'
  <2> SUFFICES ASSUME CertIInv, [CertNext]_certVars PROVE CertIInv'
    OBVIOUS
  <2>1. CASE CheckLive
    <3>1. DaysUntil \in Int /\ DaysUntil >= 0 /\ DaysUntil = notAfter - today
      BY <2>1 DEF CheckLive, DaysUntil
    <3>2. DaysUntil >= WarnDays \/ Severity(DaysUntil) \in {"WARNING", "CRITICAL"}
      BY <3>1 DEF Severity
    <3> QED
      BY <2>1, <3>1, <3>2 DEF CheckLive
  <2>2. CASE CheckFails
    BY <2>2 DEF CheckFails
  <2>3. CASE NextDay
    BY <2>3 DEF NextDay, DaysUntil
  <2>4. CASE Rotate
    BY <2>4 DEF Rotate
  <2>5. CASE UNCHANGED certVars
    BY <2>5 DEF certVars
  <2> QED
    BY <2>1, <2>2, <2>3, <2>4, <2>5 DEF CertNext
<1>3. CertIInv => WarnedBeforeExpiry
  BY DEF WarnedBeforeExpiry, DaysUntil
<1> QED
  BY <1>1, <1>2, <1>3, PTL DEF CertSpec

-----------------------------------------------------------------------------
(* tcp_retrans_monitor.py, cgroup_throttle_watch.py and psi_watcher.py      *)

Pairs == [1 .. 2 -> Nat]

SamplerTypeOK == counter \in Pairs /\ interval \in Pairs /\ previous \in Pairs /\ read \in BOOLEAN

(* The previous sample and the interval since make up the counters; after a *)
(* failed read there is no sample.                                          *)
SampleExact ==
  /\ read => \A k \in 1 .. 2 : counter[k] = previous[k] + interval[k]
  /\ ~read => previous = <<0, 0>>

(* Nothing is counted before the first sample.                              *)
NotStarted == taken \in Int /\ taken >= -1 /\ (taken = -1 => interval = <<0, 0>>)

SamplersIInv == SamplerTypeOK /\ SampleExact /\ NotStarted /\ SamplersHonest

LEMMA ZeroPair == <<0, 0>> \in Pairs /\ \A k \in 1 .. 2 : <<0, 0>>[k] = 0
BY DEF Pairs

\* What every tool does with a sample.
LEMMA SampleTaken ==
  ASSUME SamplerTypeOK, NEW ok \in BOOLEAN, previous' = Counters(ok), read' = ok,
         counter' = counter, interval' = <<0, 0>>,
         NotStarted, taken' \in Int, taken' >= -1
  PROVE  SamplerTypeOK' /\ SampleExact' /\ NotStarted'
<1>1. CASE ok
  BY <1>1, ZeroPair DEF SamplerTypeOK, SampleExact, NotStarted, Counters, Pairs
<1>2. CASE ~ok
  BY <1>2, ZeroPair DEF SamplerTypeOK, SampleExact, NotStarted, Counters, Pairs
<1> QED
  BY <1>1, <1>2

\* What the kernel counts between two samples goes into the interval.
LEMMA RunInv ==
  ASSUME SamplersIInv, NEW act \in Activities, NEW kill, NEW high, Run(act, kill, high)
  PROVE  SamplersIInv'
<1>1. /\ interval = <<0, 0>> /\ interval' = act /\ act \in Pairs
      /\ counter' = [k \in 1 .. 2 |-> counter[k] + act[k]]
      /\ taken >= 0 /\ UNCHANGED <<tool, read, previous, line, taken>>
  BY SamplersAssumption DEF Run, Pairs
<1>2. SamplerTypeOK'
  BY <1>1 DEF SamplersIInv, SamplerTypeOK, Pairs
<1>3. \A k \in 1 .. 2 : /\ counter[k] \in Nat /\ act[k] \in Nat /\ previous[k] \in Nat
                        /\ counter'[k] = counter[k] + act[k] /\ interval[k] = 0
  BY <1>1, ZeroPair DEF SamplersIInv, SamplerTypeOK, Pairs
<1>4. SampleExact'
  BY <1>1, <1>3 DEF SamplersIInv, SampleExact
<1>5. SamplersHonest'
  BY <1>1 DEF SamplersIInv, SamplersHonest, AtLeast
<1>6. NotStarted'
  BY <1>1 DEF SamplersIInv, NotStarted
<1> QED
  BY <1>2, <1>4, <1>5, <1>6 DEF SamplersIInv

\* The first two fields of a pair tell pairs apart.
LEMMA PairEqual ==
  ASSUME NEW p \in Pairs, NEW a, NEW b, a = p[1], b = p[2]
  PROVE  <<a, b>> = p
<1>1. p = [k \in 1 .. 2 |-> p[k]]
  BY DEF Pairs
<1>2. \A k \in 1 .. 2 : <<a, b>>[k] = p[k]
  OBVIOUS
<1> QED
  BY <1>1, <1>2

LEMMA RetransInv ==
  ASSUME SamplersIInv, NEW ok \in BOOLEAN, RetransSample(ok)
  PROVE  SamplersIInv'
<1> DEFINE bad == Counters(ok)[2] - previous[2]
           sent == Counters(ok)[1] - previous[1]
<1>1. /\ tool = "retrans" /\ tool' = tool
      /\ read' = ok /\ previous' = Counters(ok) /\ interval' = <<0, 0>> /\ counter' = counter
      /\ line'.kind = "interval" /\ line'.bad = bad /\ line'.all = sent
      /\ line'.flag = AtLeast(Ratio(bad, sent))
      /\ line'.true = interval /\ line'.ends = (read /\ ok)
  BY DEF RetransSample, Printed, NoLine
<1>2. SamplerTypeOK' /\ SampleExact' /\ NotStarted'
  <2>1. taken' = taken + 1
    BY DEF RetransSample, Printed
  <2> QED
    BY <1>1, <2>1, SampleTaken DEF SamplersIInv, NotStarted
<1>3. ASSUME read, ok PROVE bad = interval[2] /\ sent = interval[1]
  BY <1>3 DEF SamplersIInv, SamplerTypeOK, SampleExact, Counters, Pairs
<1>4. interval[1] \in Nat /\ interval[2] \in Nat /\ interval \in Pairs
  BY DEF SamplersIInv, SamplerTypeOK, Pairs
<1> HIDE DEF bad, sent
<1>5. ASSUME read, ok PROVE <<line'.all, line'.bad>> = line'.true
  BY <1>1, <1>3, <1>4, <1>5, PairEqual
<1>6. ASSUME read, ok
      PROVE  line'.flag = (line'.true[1] > 0 /\ AtLeast(<<line'.true[2], line'.true[1]>>))
  <2>1. line'.flag = AtLeast(Ratio(interval[2], interval[1])) /\ line'.true = interval
    BY <1>1, <1>3, <1>6
  <2>2. CASE interval[1] > 0
    <3>1. Ratio(interval[2], interval[1]) = <<interval[2], interval[1]>>
      BY <2>2 DEF Ratio
    <3> QED
      BY <2>1, <2>2, <3>1 DEF AtLeast
  <2>3. CASE ~(interval[1] > 0)
    <3>1. Ratio(interval[2], interval[1]) = <<0, 1>>
      BY <2>3 DEF Ratio
    <3>2. ~AtLeast(<<0, 1>>)
      BY SamplersAssumption DEF AtLeast
    <3> QED
      BY <2>1, <2>3, <3>1, <3>2 DEF AtLeast
  <2> QED
    BY <2>2, <2>3
<1>7. SamplersHonest'
  BY <1>1, <1>5, <1>6 DEF SamplersHonest, AtLeast
<1> QED
  BY <1>2, <1>7 DEF SamplersIInv

LEMMA ReportInv ==
  ASSUME SamplersIInv, NEW ok \in BOOLEAN, NEW memOk \in BOOLEAN, ReportOnce(ok, memOk)
  PROVE  SamplersIInv'
<1>1. /\ tool = "cgroup" /\ tool' = tool
      /\ read' = ok /\ previous' = Counters(ok) /\ interval' = <<0, 0>> /\ counter' = counter
      /\ line'.kind = IF ~ok THEN "unavailable" ELSE IF Delta THEN "interval" ELSE "lifetime"
      /\ line'.all = IF ok /\ Delta THEN counter[1] - previous[1] ELSE counter[1]
      /\ line'.bad = IF ok /\ Delta THEN counter[2] - previous[2] ELSE counter[2]
      /\ line'.true = interval
  BY DEF ReportOnce, Printed, NoLine
<1>2. SamplerTypeOK' /\ SampleExact' /\ NotStarted'
  <2>1. taken' = taken + 1
    BY DEF ReportOnce, Printed
  <2> QED
    BY <1>1, <2>1, SampleTaken DEF SamplersIInv, NotStarted
<1>3. Delta => read
  BY ZeroPair DEF Delta, SamplersIInv, SamplerTypeOK, SampleExact
<1>4. ASSUME ok, Delta PROVE <<line'.all, line'.bad>> = line'.true
  <2>1. line'.all = interval[1] /\ line'.bad = interval[2] /\ interval \in Pairs
    BY <1>1, <1>3, <1>4 DEF SamplersIInv, SamplerTypeOK, SampleExact, Pairs
  <2> QED
    BY <1>1, <2>1, PairEqual
<1>5. SamplersHonest'
  BY <1>1, <1>4 DEF SamplersHonest
<1> QED
  BY <1>2, <1>5 DEF SamplersIInv

LEMMA PsiInv ==
  ASSUME SamplersIInv,
         \/ PsiUnavailable
         \/ \E some \in Averages, full \in Averages \cup {Absent} : WatchPsi(some, full)
  PROVE  SamplersIInv'
<1>1. /\ tool = "psi" /\ UNCHANGED <<tool, counter, interval, read, previous>>
      /\ line'.ends = FALSE /\ taken' = taken + 1
  BY DEF WatchPsi, PsiUnavailable, NoLine
<1>2. SamplerTypeOK' /\ SampleExact' /\ NotStarted'
  BY <1>1 DEF SamplersIInv, SamplerTypeOK, SampleExact, NotStarted
<1>3. CASE PsiUnavailable
  BY <1>1, <1>2, <1>3 DEF PsiUnavailable, NoLine, SamplersIInv, SamplersHonest
<1>4. ASSUME NEW some \in Averages, NEW full \in Averages \cup {Absent}, WatchPsi(some, full)
      PROVE  SamplersIInv'
  <2> DEFINE worst == WorstAvg10(some, full)
  <2>1. /\ line'.kind = "psi" /\ line'.all = some /\ line'.bad = full
        /\ line'.flag = (worst >= Threshold) /\ full <= some
    BY <1>4 DEF WatchPsi, NoLine
  <2>2. some \in Nat /\ full \in Nat \cup {-1} /\ Threshold \in Nat
    BY SamplersAssumption DEF Absent
  <2>3. (full >= Threshold => worst >= Threshold) /\ (worst >= Threshold => some >= Threshold)
    BY <2>1, <2>2 DEF WorstAvg10, Absent
  <2> HIDE DEF worst
  <2> QED
    BY <1>1, <1>2, <2>1, <2>3 DEF SamplersIInv, SamplersHonest
<1> QED
  BY <1>3, <1>4

(* A ratio for the last interval tells the truth about it, whatever reads   *)
(* failed before (tcp_retrans_monitor.py, cgroup_throttle_watch.py), and    *)
(* the flags are raised exactly when they should (psi_watcher.py too).      *)
THEOREM SamplersTruthful == SamplersSpec => []SamplersHonest
<1>1. SamplersInit => SamplersIInv
  <2> SUFFICES ASSUME SamplersInit PROVE SamplersIInv
    OBVIOUS
  <2>1. SamplerTypeOK /\ SampleExact
    BY ZeroPair, SamplersAssumption DEF SamplersInit, SamplerTypeOK, SampleExact, Pairs
  <2>2. NotStarted
    BY DEF SamplersInit, NotStarted
  <2>3. SamplersHonest
    BY DEF SamplersInit, SamplersHonest, NoLine
  <2> QED
    BY <2>1, <2>2, <2>3 DEF SamplersIInv
<1>2. SamplersIInv /\ [SamplersNext]_samplerVars => SamplersIInv'
  <2> SUFFICES ASSUME SamplersIInv, [SamplersNext]_samplerVars PROVE SamplersIInv'
    OBVIOUS
  <2>1. ASSUME NEW ok \in BOOLEAN, FirstRead(ok) PROVE SamplersIInv'
    <3>1. /\ read' = ok /\ previous' = Counters(ok)
          /\ taken = -1 /\ taken' = IF ok THEN 0 ELSE Samples
          /\ UNCHANGED <<tool, counter, interval, line>>
      BY <2>1 DEF FirstRead
    <3>2. SamplersHonest'
      BY <3>1 DEF SamplersIInv, SamplersHonest, AtLeast
    <3>3. interval' = <<0, 0>> /\ taken' \in Int /\ taken' >= -1
      BY <3>1, SamplersAssumption DEF SamplersIInv, NotStarted
    <3>4. SamplerTypeOK' /\ SampleExact' /\ NotStarted'
      BY <3>1, <3>3, SampleTaken DEF SamplersIInv
    <3> QED
      BY <3>2, <3>4 DEF SamplersIInv
  <2>2. CASE UNCHANGED samplerVars
    BY <2>2 DEF samplerVars, SamplersIInv, SamplerTypeOK, SampleExact, NotStarted,
                SamplersHonest, AtLeast
  <2> QED
    BY <2>1, <2>2, RunInv, RetransInv, ReportInv, PsiInv DEF SamplersNext
<1>3. SamplersIInv => SamplersHonest
  BY DEF SamplersIInv
<1> QED
  BY <1>1, <1>2, <1>3, PTL DEF SamplersSpec

-----------------------------------------------------------------------------
(* port_exhaustion_probe.py and socket_state_summary.py                     *)

Row == [family : {4, 6}, lport : Nat, remote : Remotes \cup {"any"},
        st : {"LISTEN", "ESTABLISHED", "TIME_WAIT", "CLOSE_WAIT"}]

(* A row has one of the two families, no two connections of a family share  *)
(* a local port and a remote endpoint, and who listens is not in the range. *)
SocketIInv ==
  /\ IsFiniteSet(sockets)
  /\ \A s \in sockets :
       /\ s \in Row
       /\ s.st = "LISTEN" => s.lport = ServerPort
  /\ \A r, s \in sockets :
       r.family = s.family /\ r.lport = s.lport /\ r.remote = s.remote => r = s

\* A new row whose family, port and endpoint no row has, not listening.
LEMMA NewRow ==
  ASSUME SocketIInv, NEW fam \in Families, NEW remote \in Remotes, NEW l \in Nat,
         sockets' = sockets \cup
           {[family |-> fam, lport |-> l, remote |-> remote, st |-> "ESTABLISHED"]},
         \A s \in sockets : ~(s.family = fam /\ s.lport = l /\ s.remote = remote)
  PROVE  SocketIInv'
<1> DEFINE new == [family |-> fam, lport |-> l, remote |-> remote, st |-> "ESTABLISHED"]
<1>1. /\ new \in Row
      /\ new.st # "LISTEN" /\ new.family = fam /\ new.lport = l /\ new.remote = remote
  BY DEF Row, Families
<1>2. sockets' = sockets \cup {new}
  OBVIOUS
<1> HIDE DEF new
<1>3. IsFiniteSet(sockets')
  <2>1. IsFiniteSet(sockets)
    BY DEF SocketIInv
  <2>2. IsFiniteSet(sockets \cup {new})
    BY <2>1, FS_AddElement
  <2> QED
    BY <1>2, <2>2
<1>4. ASSUME NEW s \in sockets'
      PROVE  /\ s \in Row
             /\ s.st = "LISTEN" => s.lport = ServerPort
  BY <1>1, <1>2 DEF SocketIInv
<1>5. ASSUME NEW r \in sockets', NEW s \in sockets',
             r.family = s.family, r.lport = s.lport, r.remote = s.remote
      PROVE  r = s
  BY <1>1, <1>2, <1>5 DEF SocketIInv
<1> QED
  BY <1>3, <1>4, <1>5 DEF SocketIInv, Row

\* A connection is closed on one side: its row changes state and nothing else.
LEMMA ClosedRow ==
  ASSUME SocketIInv, NEW s \in sockets, NEW st \in {"TIME_WAIT", "CLOSE_WAIT"}, Becomes(s, st)
  PROVE  SocketIInv'
<1> DEFINE new == [s EXCEPT !.st = st]
<1>1. s \in Row
  BY DEF SocketIInv
<1>2. /\ new \in Row
      /\ new.st = st /\ new.family = s.family /\ new.lport = s.lport /\ new.remote = s.remote
  BY <1>1 DEF Row
<1>3. sockets' = (sockets \ {s}) \cup {new}
  BY DEF Becomes
<1> HIDE DEF new
<1>4. IsFiniteSet(sockets')
  BY <1>3, FS_AddElement, FS_RemoveElement DEF SocketIInv
<1>5. ASSUME NEW r \in sockets'
      PROVE  /\ r \in Row
             /\ r.st = "LISTEN" => r.lport = ServerPort
  BY <1>2, <1>3 DEF SocketIInv
<1>6. ASSUME NEW q \in sockets', NEW r \in sockets',
             q.family = r.family, q.lport = r.lport, q.remote = r.remote
      PROVE  q = r
  BY <1>2, <1>3, <1>6 DEF SocketIInv
<1> QED
  BY <1>4, <1>5, <1>6 DEF SocketIInv, Row

LEMMA SocketStep == SocketIInv /\ [SocketsNext]_socketVars => SocketIInv'
<1> SUFFICES ASSUME SocketIInv, [SocketsNext]_socketVars PROVE SocketIInv'
  OBVIOUS
<1>1. ASSUME NEW fam \in Families, NEW remote \in Remotes, NEW l \in Lo .. Hi,
             Connect(fam, remote, l)
      PROVE  SocketIInv'
  <2>1. l \in Nat
    BY PortAssumption
  <2>2. \A s \in sockets : ~(s.family = fam /\ s.lport = l /\ s.remote = remote)
    BY <1>1 DEF Connect, Free
  <2> QED
    BY <1>1, <2>1, <2>2, NewRow DEF Connect
<1>2. ASSUME NEW remote \in Remotes, Inbound(remote) PROVE SocketIInv'
  <2>1. ServerPort \in Nat /\ 4 \in Families
    BY PortAssumption DEF Families
  <2> QED
    BY <1>2, <2>1, NewRow DEF Inbound
<1>3. ASSUME NEW s \in sockets, Expire(s) PROVE SocketIInv'
  <2>1. sockets' = sockets \ {s}
    BY <1>3 DEF Expire
  <2>2. IsFiniteSet(sockets')
    BY <2>1, FS_RemoveElement DEF SocketIInv
  <2> QED
    BY <2>1, <2>2 DEF SocketIInv, Row
<1>4. CASE UNCHANGED socketVars
  BY <1>4 DEF socketVars, SocketIInv, Row
<1> QED
  BY <1>1, <1>2, <1>3, <1>4, ClosedRow DEF SocketsNext

(* Each connection to an endpoint takes a port of its own, so the endpoint  *)
(* is exhausted exactly when it has as many connections as there are ports. *)
LEMMA ExhaustedMeansFull ==
  ASSUME SocketIInv, NEW remote \in Remotes
  PROVE  /\ PerRemote(remote) \in Nat /\ PerRemote(remote) <= Pool
         /\ Free(4, remote) = {} <=> PerRemote(remote) = Pool
<1> DEFINE conns == {s \in Rows(4) : Taken(s) /\ s.remote = remote}
           port == [s \in conns |-> s.lport]
<1>1. Lo .. Hi \subseteq Nat /\ IsFiniteSet(Lo .. Hi) /\ Cardinality(Lo .. Hi) = Pool
  BY PortAssumption, FS_Interval DEF Pool
<1>2. port \in Injection(conns, Lo .. Hi)
  <2>1. port \in [conns -> Lo .. Hi]
    BY DEF Taken
  <2>2. ASSUME NEW r \in conns, NEW s \in conns, port[r] = port[s] PROVE r = s
    BY <2>2 DEF SocketIInv, Rows
  <2> QED
    BY <2>1, <2>2 DEF Injection, IsInjective
<1>3. /\ IsFiniteSet(conns) /\ Cardinality(conns) <= Cardinality(Lo .. Hi)
      /\ Cardinality(conns) = Cardinality(Lo .. Hi) <=> port \in Surjection(conns, Lo .. Hi)
  BY <1>1, <1>2, FS_Injection
<1>4. PerRemote(remote) = Cardinality(conns) /\ Cardinality(conns) \in Nat
  BY <1>3, FS_CardinalityType DEF PerRemote
<1>5. Free(4, remote) = {} <=> \A l \in Lo .. Hi : \E s \in conns : s.lport = l
  <2>1. ASSUME NEW l \in Lo .. Hi, NEW s \in sockets, s.family = 4, s.lport = l,
               s.remote = remote \/ s.st = "LISTEN"
        PROVE  s \in conns
    BY <2>1, PortAssumption DEF SocketIInv, Rows, Taken
  <2>2. \A s \in conns : s \in sockets /\ s.family = 4 /\ s.remote = remote
    BY DEF Rows
  <2> HIDE DEF conns
  <2> QED
    BY <2>1, <2>2 DEF Free
<1>6. port \in Surjection(conns, Lo .. Hi) <=> \A l \in Lo .. Hi : \E s \in conns : s.lport = l
  <2>1. port \in [conns -> Lo .. Hi]
    BY <1>2 DEF Injection
  <2>2. \A s \in conns : port[s] = s.lport
    OBVIOUS
  <2> HIDE DEF conns, port
  <2> QED
    BY <2>1, <2>2 DEF Surjection
<1> QED
  BY <1>1, <1>3, <1>4, <1>5, <1>6

(* socket_state_summary.py: the counts of the two tables, added up.         *)
InState(rows, st) == {s \in rows : s.st = st}

LEMMA TableCount ==
  ASSUME SocketIInv, NEW fam \in Families, NEW st
  PROVE  /\ Get(TableCounts(fam), st) \in Nat
         /\ Get(TableCounts(fam), st)
              = IF fam \in readable THEN Cardinality(InState(Rows(fam), st)) ELSE 0
<1> DEFINE rows == Rows(fam)
<1>1. IsFiniteSet(InState(rows, st)) /\ Cardinality(InState(rows, st)) \in Nat
  BY FS_Subset, FS_CardinalityType DEF SocketIInv, Rows, InState
<1>2. CASE fam \in readable
  <2>1. TableCounts(fam) = ParseStates(rows)
    BY <1>2 DEF TableCounts
  <2>2. CASE st \in {s.st : s \in rows}
    BY <1>1, <1>2, <2>1, <2>2 DEF ParseStates, Get, InState
  <2>3. CASE st \notin {s.st : s \in rows}
    <3>1. InState(rows, st) = {}
      BY <2>3 DEF InState
    <3>2. Get(ParseStates(rows), st) = 0
      BY <2>3 DEF ParseStates, Get
    <3> QED
      BY <1>2, <2>1, <3>1, <3>2, FS_EmptySet
  <2> QED
    BY <2>2, <2>3
<1>3. CASE fam \notin readable
  BY <1>3 DEF TableCounts, NoCounts, Get
<1> QED
  BY <1>2, <1>3

LEMMA GetAddUp ==
  ASSUME NEW total, NEW counts, NEW st, Get(total, st) \in Nat, Get(counts, st) \in Nat
  PROVE  Get(AddUp(total, counts), st) = Get(total, st) + Get(counts, st)
<1>1. CASE st \in DOMAIN total \cup DOMAIN counts
  <2>1. st \in DOMAIN AddUp(total, counts)
    BY <1>1 DEF AddUp
  <2>2. AddUp(total, counts)[st] = Get(total, st) + Get(counts, st)
    BY <1>1 DEF AddUp
  <2>3. Get(AddUp(total, counts), st) = AddUp(total, counts)[st]
    BY <2>1 DEF Get
  <2> QED
    BY <2>2, <2>3
<1>2. CASE st \notin DOMAIN total \cup DOMAIN counts
  <2>1. st \notin DOMAIN AddUp(total, counts)
    BY <1>2 DEF AddUp
  <2>2. Get(AddUp(total, counts), st) = 0 /\ Get(total, st) = 0 /\ Get(counts, st) = 0
    BY <1>2, <2>1 DEF Get
  <2> QED
    BY <2>2
<1> QED
  BY <1>1, <1>2

LEMMA SummaryCounts ==
  ASSUME SocketIInv, NEW st \in DOMAIN WarnAt
  PROVE  /\ SummaryHigh(st) => Piled(st)
         /\ readable = Families /\ Piled(st) => SummaryHigh(st)
<1> DEFINE c4 == TableCounts(4)
           c6 == TableCounts(6)
           R4 == InState(Rows(4), st)
           R6 == InState(Rows(6), st)
           w == WarnAt[st]
<1>1. Get(NoCounts, st) = 0
  BY DEF Get, NoCounts
<1>2. /\ Get(c4, st) \in Nat /\ Get(c4, st) = IF 4 \in readable THEN Cardinality(R4) ELSE 0
      /\ Get(c6, st) \in Nat /\ Get(c6, st) = IF 6 \in readable THEN Cardinality(R6) ELSE 0
  BY TableCount DEF Families
<1>3. Get(Merged, st) = Get(c4, st) + Get(c6, st) /\ Get(Merged, st) \in Nat
  <2> HIDE DEF c4, c6
  <2> DEFINE t == AddUp(NoCounts, c4)
  <2>1. Get(t, st) = Get(c4, st)
    BY <1>1, <1>2, GetAddUp
  <2> HIDE DEF t
  <2>2. Get(AddUp(t, c6), st) = Get(t, st) + Get(c6, st)
    BY <1>2, <2>1, GetAddUp
  <2> QED
    BY <1>2, <2>1, <2>2 DEF Merged, t, c4, c6
<1>4. w \in Nat \ {0}
  BY PortAssumption
<1>5. SummaryHigh(st) <=> Get(Merged, st) >= w
  <2>1. CASE st \in DOMAIN Merged
    BY <2>1 DEF SummaryHigh, Get
  <2>2. CASE st \notin DOMAIN Merged
    <3>1. Get(Merged, st) = 0
      BY <2>2 DEF Get
    <3> QED
      BY <1>4, <2>2, <3>1 DEF SummaryHigh
  <2> QED
    BY <2>1, <2>2
<1>6. /\ IsFiniteSet(R4) /\ IsFiniteSet(R6) /\ R4 \cap R6 = {}
      /\ Cardinality(R4) \in Nat /\ Cardinality(R6) \in Nat
      /\ {s \in sockets : s.st = st} = R4 \cup R6
  <2>1. IsFiniteSet(R4) /\ IsFiniteSet(R6)
    BY FS_Subset DEF SocketIInv, Rows, InState
  <2>2. R4 \cap R6 = {} /\ {s \in sockets : s.st = st} = R4 \cup R6
    BY DEF SocketIInv, Row, Rows, InState
  <2> QED
    BY <2>1, <2>2, FS_CardinalityType
<1> HIDE DEF R4, R6, c4, c6
<1>7. Cardinality(R4 \cup R6) = Cardinality(R4) + Cardinality(R6)
  <2>1. Cardinality(R4 \cup R6) = Cardinality(R4) + Cardinality(R6) - Cardinality(R4 \cap R6)
    BY <1>6, FS_Union
  <2>2. Cardinality(R4 \cap R6) = 0
    BY <1>6, FS_EmptySet
  <2> QED
    BY <1>6, <2>1, <2>2
<1>8. Piled(st) <=> Cardinality(R4) + Cardinality(R6) >= w
  BY <1>6, <1>7 DEF Piled
<1> HIDE DEF w
<1>9. Get(Merged, st) <= Cardinality(R4) + Cardinality(R6)
  BY <1>2, <1>3, <1>6
<1>10. readable = Families => Get(Merged, st) = Cardinality(R4) + Cardinality(R6)
  BY <1>2, <1>3 DEF Families
<1> QED
  BY <1>3, <1>4, <1>5, <1>6, <1>8, <1>9, <1>10

(* When the probe says NEAR EXHAUSTION, connections that this host opened   *)
(* hold that share of the ports.                                            *)
LEMMA NoFalseAlarm ==
  ASSUME SocketIInv, NearExhaustion
  PROVE  Cardinality({s.lport : s \in Outgoing}) * UtilDen >= UtilNum * Pool
<1> DEFINE out == {s.lport : s \in Outgoing}
<1>1. UsedPorts \subseteq out
  <2>1. \A s \in Rows(4) : Taken(s) => s \in Outgoing
    BY PortAssumption DEF SocketIInv, Rows, Taken, Outgoing
  <2> QED
    BY <2>1 DEF UsedPorts
<1>2. IsFiniteSet(out)
  <2>1. IsFiniteSet(Outgoing)
    BY FS_Subset DEF SocketIInv, Outgoing
  <2> DEFINE f == [s \in Outgoing |-> s.lport]
  <2>2. f \in Surjection(Outgoing, out)
    BY DEF Surjection
  <2> HIDE DEF f, out
  <2> QED
    BY <2>1, <2>2, FS_Surjection
<1> HIDE DEF out
<1>3. /\ Cardinality(UsedPorts) \in Nat /\ Cardinality(out) \in Nat
      /\ Cardinality(UsedPorts) <= Cardinality(out)
  BY <1>1, <1>2, FS_Subset, FS_CardinalityType
<1>4. Pool \in Nat
  BY PortAssumption DEF Pool
<1>5. Cardinality(UsedPorts) * UtilDen <= Cardinality(out) * UtilDen
  BY <1>3, PortAssumption
<1>6. /\ Cardinality(UsedPorts) * UtilDen \in Int /\ Cardinality(out) * UtilDen \in Int
      /\ UtilNum * Pool \in Int
  BY <1>3, <1>4, PortAssumption
<1>7. Cardinality(out) * UtilDen >= UtilNum * Pool
  BY <1>5, <1>6 DEF NearExhaustion
<1> QED
  BY <1>7 DEF out

(* The probe flags every exhaustion, lists an endpoint that is exhausted,   *)
(* among any number of them, and flags nothing else than ports taken by     *)
(* connections that this host opened; the summary flags only what is piled  *)
(* up and, of both tables, all of it.                                       *)
THEOREM AlarmsRaised == SocketsSpec => []SocketAlarms
<1>1. SocketsInit => SocketIInv
  <2> SUFFICES ASSUME SocketsInit PROVE SocketIInv
    OBVIOUS
  <2>1. /\ Listening \in Row
        /\ Listening.lport = ServerPort
    BY PortAssumption DEF Listening, Row
  <2>2. sockets = {Listening} /\ IsFiniteSet(sockets)
    BY FS_Singleton DEF SocketsInit
  <2> QED
    BY <2>1, <2>2 DEF SocketIInv
<1>2. SocketIInv => SocketAlarms
  <2> SUFFICES ASSUME SocketIInv PROVE SocketAlarms
    OBVIOUS
  <2>1. Pool \in Nat \ {0}
    BY PortAssumption DEF Pool
  <2>2. ASSUME NEW remote \in Remotes, Free(4, remote) = {} PROVE NearExhaustion
    <3>1. \A l \in Lo .. Hi : \E s \in sockets :
            s.family = 4 /\ s.lport = l /\ (s.remote = remote \/ s.st = "LISTEN")
      BY <2>2 DEF Free
    <3>2. \A s \in sockets : s.st = "LISTEN" => s.lport \notin Lo .. Hi
      BY PortAssumption DEF SocketIInv
    <3>3. UsedPorts = Lo .. Hi
      BY <3>1, <3>2 DEF UsedPorts, Rows, Taken
    <3>4. Cardinality(UsedPorts) = Pool
      BY <3>3, PortAssumption, FS_Interval DEF Pool
    <3>5. UtilNum * Pool <= UtilDen * Pool
      BY <2>1, PortAssumption
    <3>6. Pool * UtilDen >= UtilNum * Pool
      BY <2>1, <3>5, PortAssumption
    <3> QED
      BY <3>4, <3>6 DEF NearExhaustion
  <2>3. ASSUME NEW remote \in Remotes, Free(4, remote) = {}, NEW t \in Top
        PROVE  \E a \in t : a \in Remotes /\ Free(4, a) = {}
    <3>1. PerRemote(remote) = Pool /\ remote \in Listed
      BY <2>1, <2>3, ExhaustedMeansFull DEF Listed
    <3>2. CASE remote \in t
      BY <3>2, <2>3
    <3>3. CASE remote \notin t
      <4>1. IsFiniteSet(Listed) /\ IsFiniteSet(t) /\ t \subseteq Listed /\ Listed \subseteq Remotes
        BY PortAssumption, FS_Subset DEF Top, Listed
      <4>2. Cardinality(Listed) # 0 /\ Cardinality(Listed) \in Nat
        BY <3>1, <4>1, FS_EmptySet, FS_CardinalityType
      <4>3. Cardinality(t) # 0
        BY <4>2, PortAssumption DEF Top
      <4>4. t # {}
        BY <4>3, FS_EmptySet
      <4>5. PICK a \in t : TRUE
        BY <4>4
      <4>6. PerRemote(a) >= PerRemote(remote) /\ a \in Remotes
        BY <3>1, <3>3, <4>1, <4>5 DEF Top
      <4>7. PerRemote(a) = Pool
        BY <2>1, <3>1, <4>6, ExhaustedMeansFull
      <4> QED
        BY <4>5, <4>6, <4>7, ExhaustedMeansFull
    <3> QED
      BY <3>2, <3>3
  <2>4. ASSUME Exhausted # {}
        PROVE  NearExhaustion /\ \A t \in Top : t \cap Exhausted # {}
    <3>1. PICK remote \in Remotes : Free(4, remote) = {}
      BY <2>4 DEF Exhausted
    <3> QED
      BY <3>1, <2>2, <2>3 DEF Exhausted
  <2> QED
    BY <2>4, NoFalseAlarm, SummaryCounts DEF SocketAlarms
<1> QED
  BY <1>1, <1>2, SocketStep, PTL DEF SocketsSpec

-----------------------------------------------------------------------------
(* rss_leak_detector.py: sums, and the least-squares slope.                 *)

Sums(F, s, n) == F[0] = 0 /\ \A k \in 1 .. n : F[k] = F[k - 1] + s[k]

\* sum() adds up from the left.
LEMMA Totalled ==
  ASSUME NEW s \in Seq(Int)
  PROVE  \E F \in [0 .. Len(s) -> Int] : Sums(F, s, Len(s)) /\ Total(s) = F[Len(s)]
<1> DEFINE n == Len(s)
           step == [x \in (1 .. n) \X Int |-> x[2] + s[x[1]]]
           Body(f) == [k \in 0 .. n |-> IF k = 0 THEN 0 ELSE f[k - 1] + s[k]]
           upTo == CHOOSE g : g = Body(g)
<1>1. n \in Nat /\ \A k \in 1 .. n : s[k] \in Int
  OBVIOUS
<1>2. step \in [(1 .. n) \X Int -> Int]
  BY <1>1
<1>3. \A k \in 1 .. n, v \in Int : step[<<k, v>>] = v + s[k]
  OBVIOUS
<1> HIDE DEF step, n
<1>4. PICK f \in [0 .. n -> Int] : Solves(f, n, 0, step)
  <2> DEFINE V == Int
             zero == 0
  <2>1. zero \in V /\ step \in [(1 .. n) \X V -> V]
    BY <1>2
  <2> HIDE DEF V, zero
  <2>2. \E f \in [0 .. n -> V] : Solves(f, n, zero, step)
    BY <1>1, <2>1, RecursionSolved
  <2> QED BY <2>2 DEF V, zero
<1>5. \A k \in 1 .. n : f[k] = f[k - 1] + s[k]
  <2> TAKE k \in 1 .. n
  <2>1. f[k] = step[<<k, f[k - 1]>>]
    BY <1>4 DEF Solves
  <2>2. k - 1 \in 0 .. n
    BY <1>1
  <2>3. f[k - 1] \in Int
    BY <2>2
  <2> QED BY <1>3, <2>1, <2>3
<1>6. \A k \in 0 .. n : f[k] = IF k = 0 THEN 0 ELSE f[k - 1] + s[k]
  BY <1>1, <1>4, <1>5 DEF Solves
<1>7. f = Body(f)
  BY <1>6
<1>8. upTo = Body(upTo)
  <2> HIDE DEF Body
  <2> QED BY <1>7
<1> HIDE DEF upTo
<1>9. \A k \in 0 .. n : upTo[k] = IF k = 0 THEN 0 ELSE upTo[k - 1] + s[k]
  BY <1>8
<1>10. f[0] = 0
  BY <1>4 DEF Solves
<1> DEFINE T == {k \in 0 .. n : upTo[k] = f[k]}
<1>11. 0 \in T
  BY <1>1, <1>9, <1>10
<1>12. ASSUME NEW k \in 1 .. n, k - 1 \in T PROVE k \in T
  <2>1. k \in 0 .. n /\ k # 0 /\ upTo[k - 1] = f[k - 1]
    BY <1>1, <1>12
  <2> QED BY <1>5, <1>9, <2>1
<1> HIDE DEF T
<1>13. \A k \in 0 .. n : k \in T
  BY <1>1, <1>11, <1>12, Induction
<1>14. upTo[n] = f[n]
  BY <1>1, <1>13 DEF T
<1>15. Total(s) = upTo[n]
  BY DEF Total, upTo, n
<1> QED BY <1>5, <1>10, <1>14, <1>15 DEF Sums, n

Combines(w, a, u, b, v) == \A k \in 1 .. Len(w) : w[k] = a * u[k] + b * v[k]

LEMMA TotalLinear ==
  ASSUME NEW a \in Int, NEW b \in Int, NEW u \in Seq(Int), NEW v \in Seq(Int), NEW w \in Seq(Int),
         Len(u) = Len(w), Len(v) = Len(w), Combines(w, a, u, b, v)
  PROVE  Total(w) = a * Total(u) + b * Total(v)
<1>1. PICK U \in [0 .. Len(u) -> Int] : Sums(U, u, Len(u)) /\ Total(u) = U[Len(u)]
  BY Totalled
<1>2. PICK V \in [0 .. Len(v) -> Int] : Sums(V, v, Len(v)) /\ Total(v) = V[Len(v)]
  BY Totalled
<1>3. PICK W \in [0 .. Len(w) -> Int] : Sums(W, w, Len(w)) /\ Total(w) = W[Len(w)]
  BY Totalled
<1>4. PICK n \in Nat : n = Len(w)
  OBVIOUS
<1>5. /\ U \in [0 .. n -> Int] /\ V \in [0 .. n -> Int] /\ W \in [0 .. n -> Int]
      /\ Sums(U, u, n) /\ Sums(V, v, n) /\ Sums(W, w, n)
  BY <1>1, <1>2, <1>3, <1>4
<1>6. \A k \in 1 .. n : u[k] \in Int /\ v[k] \in Int /\ w[k] = a * u[k] + b * v[k]
  BY <1>4 DEF Combines
<1> DEFINE T == {k \in 0 .. n : W[k] = a * U[k] + b * V[k]}
<1>7. 0 \in T
  BY <1>5 DEF Sums
<1>8. ASSUME NEW k \in 1 .. n, k - 1 \in T PROVE k \in T
  <2> DEFINE U1 == U[k - 1]
             V1 == V[k - 1]
             uk == u[k]
             vk == v[k]
  <2>1. k \in 0 .. n /\ k - 1 \in 0 .. n
    OBVIOUS
  <2>2. U1 \in Int /\ V1 \in Int /\ uk \in Int /\ vk \in Int
    BY <1>5, <1>6, <2>1
  <2>3. /\ U[k] = U1 + uk /\ V[k] = V1 + vk
        /\ W[k] = (a * U1 + b * V1) + (a * uk + b * vk)
    BY <1>5, <1>6, <1>8 DEF Sums
  <2> HIDE DEF U1, V1, uk, vk
  <2>4. (a * U1 + b * V1) + (a * uk + b * vk) = a * (U1 + uk) + b * (V1 + vk)
    BY <2>2
  <2>5. W[k] = a * U[k] + b * V[k]
    BY <2>3, <2>4
  <2> QED BY <2>1, <2>5
<1> HIDE DEF T
<1>9. \A k \in 0 .. n : k \in T
  BY <1>7, <1>8, Induction
<1>10. W[n] = a * U[n] + b * V[n]
  BY <1>9 DEF T
<1> QED BY <1>1, <1>2, <1>3, <1>4, <1>10

(* Chebyshev's sum inequality.  What the k-th term adds is a sum of         *)
(* products of differences.                                                 *)
Gap(x, z, X, Z, P, k, m) == m * (x[k] * z[k]) - x[k] * Z[m] - z[k] * X[m] + P[m]

LEMMA GapIdentity ==
  ASSUME NEW m \in Int, NEW a \in Int, NEW b \in Int, NEW u \in Int, NEW v \in Int,
         NEW X \in Int, NEW Z \in Int, NEW P \in Int
  PROVE  m * (a * b) - a * (Z + v) - b * (X + u) + (P + u * v)
           = ((m - 1) * (a * b) - a * Z - b * X + P) + (a - u) * (b - v)
BY SMTT(30)

LEMMA TermIdentity ==
  ASSUME NEW k \in Int, NEW a \in Int, NEW b \in Int, NEW X \in Int, NEW Z \in Int, NEW P \in Int
  PROVE  k * (P + a * b) - (X + a) * (Z + b)
           = ((k - 1) * P - X * Z) + ((k - 1) * (a * b) - a * Z - b * X + P)
BY SMTT(30)

LEMMA ProductSign ==
  ASSUME NEW a \in Int, NEW b \in Int, a >= 0, b >= 0
  PROVE  a * b \in Int /\ a * b >= 0 /\ (a > 0 /\ b > 0 => a * b > 0)
BY SMTT(30)

LEMMA GapSign ==
  ASSUME NEW n \in Nat, NEW x \in [1 .. n -> Int], NEW z \in [1 .. n -> Int],
         NEW X \in [0 .. n -> Int], NEW Z \in [0 .. n -> Int], NEW P \in [0 .. n -> Int],
         Sums(X, x, n), Sums(Z, z, n), P[0] = 0,
         \A k \in 1 .. n : P[k] = P[k - 1] + x[k] * z[k],
         NEW k \in 1 .. n, \A m \in 1 .. k : x[m] <= x[k] /\ z[m] <= z[k]
  PROVE  /\ Gap(x, z, X, Z, P, k, k - 1) \in Int /\ Gap(x, z, X, Z, P, k, k - 1) >= 0
         /\ k > 1 /\ x[k - 1] < x[k] /\ z[k - 1] < z[k] => Gap(x, z, X, Z, P, k, k - 1) > 0
<1> DEFINE G(m) == Gap(x, z, X, Z, P, k, m)
           T == {m \in 0 .. k - 1 : G(m) \in Int /\ G(m) >= 0}
           a == x[k]
           b == z[k]
<1>1. a \in Int /\ b \in Int /\ k - 1 \in Nat
  OBVIOUS
<1>2. 0 \in T
  <2>1. X[0] = 0 /\ Z[0] = 0 /\ P[0] = 0
    BY DEF Sums
  <2>2. G(0) = 0
    <3> HIDE DEF a, b
    <3>1. 0 * (a * b) - a * 0 - b * 0 + 0 = 0
      BY <1>1
    <3> QED BY <2>1, <3>1 DEF Gap, a, b
  <2> QED BY <1>1, <2>2
<1>3. ASSUME NEW m \in 1 .. k - 1, G(m - 1) \in Int, G(m - 1) >= 0
      PROVE  /\ m \in T
             /\ x[m] < x[k] /\ z[m] < z[k] => G(m) > 0
  <2> DEFINE u == x[m]
             v == z[m]
             Xm == X[m - 1]
             Zm == Z[m - 1]
             Pm == P[m - 1]
             g == G(m - 1)
             d == (a - u) * (b - v)
  <2>1. m \in 1 .. n /\ m - 1 \in 0 .. n /\ m \in 1 .. k /\ m \in Int
    OBVIOUS
  <2>2. /\ u \in Int /\ v \in Int /\ Xm \in Int /\ Zm \in Int /\ Pm \in Int
        /\ u <= a /\ v <= b
    BY <2>1
  <2>3. X[m] = Xm + u /\ Z[m] = Zm + v /\ P[m] = Pm + u * v
    BY <2>1 DEF Sums
  <2>4. g \in Int /\ g >= 0
    BY <1>3
  <2>5. g = (m - 1) * (a * b) - a * Zm - b * Xm + Pm
    BY DEF Gap
  <2>6. G(m) = m * (a * b) - a * (Zm + v) - b * (Xm + u) + (Pm + u * v)
    BY <2>3 DEF Gap
  <2> HIDE DEF G, a, b, u, v, Xm, Zm, Pm, g
  <2>7. G(m) = g + d
    BY <1>1, <2>1, <2>2, <2>5, <2>6, GapIdentity
  <2>8. d \in Int /\ d >= 0 /\ (u < a /\ v < b => d > 0)
    <3> DEFINE y == a - u
               t == b - v
    <3>1. y \in Int /\ t \in Int /\ y >= 0 /\ t >= 0 /\ (u < a => y > 0) /\ (v < b => t > 0)
      BY <1>1, <2>2
    <3> HIDE DEF y, t
    <3>2. y * t \in Int /\ y * t >= 0 /\ (y > 0 /\ t > 0 => y * t > 0)
      BY <3>1, ProductSign
    <3> QED BY <3>1, <3>2 DEF y, t
  <2> HIDE DEF d
  <2>9. G(m) \in Int /\ G(m) >= 0 /\ (u < a /\ v < b => G(m) > 0)
    BY <2>4, <2>7, <2>8
  <2>10. m \in 0 .. k - 1
    OBVIOUS
  <2> QED BY <2>9, <2>10 DEF u, v, a, b
<1>4. ASSUME NEW m \in 1 .. k - 1, m - 1 \in T PROVE m \in T
  BY <1>3, <1>4
<1>5. \A m \in 0 .. k - 1 : m \in T
  <2> HIDE DEF T
  <2> QED BY <1>1, <1>2, <1>4, Induction
<1>6. G(k - 1) \in Int /\ G(k - 1) >= 0
  <2>1. k - 1 \in 0 .. k - 1
    BY <1>1
  <2> QED BY <1>5, <2>1
<1>7. ASSUME k > 1, x[k - 1] < x[k], z[k - 1] < z[k] PROVE G(k - 1) > 0
  <2>1. k - 1 \in 1 .. k - 1 /\ (k - 1) - 1 \in 0 .. k - 1
    BY <1>7
  <2>2. G((k - 1) - 1) \in Int /\ G((k - 1) - 1) >= 0
    BY <1>5, <2>1
  <2> HIDE DEF G, T
  <2> QED BY <1>3, <1>7, <2>1, <2>2
<1> QED BY <1>6, <1>7

LEMMA Chebyshev ==
  ASSUME NEW n \in Nat, NEW x \in [1 .. n -> Int], NEW z \in [1 .. n -> Int],
         NEW X \in [0 .. n -> Int], NEW Z \in [0 .. n -> Int], NEW P \in [0 .. n -> Int],
         Sums(X, x, n), Sums(Z, z, n), P[0] = 0,
         \A k \in 1 .. n : P[k] = P[k - 1] + x[k] * z[k],
         \A k \in 1 .. n : \A m \in 1 .. k : x[m] <= x[k] /\ z[m] <= z[k]
  PROVE  /\ n * P[n] - X[n] * Z[n] \in Int /\ n * P[n] - X[n] * Z[n] >= 0
         /\ n > 1 /\ x[n - 1] < x[n] /\ z[n - 1] < z[n] => n * P[n] - X[n] * Z[n] > 0
<1> DEFINE D(k) == k * P[k] - X[k] * Z[k]
           G(k) == Gap(x, z, X, Z, P, k, k - 1)
           T == {k \in 0 .. n : D(k) \in Int /\ D(k) >= 0}
<1>1. 0 \in T
  <2>1. X[0] = 0 /\ Z[0] = 0 /\ P[0] = 0
    BY DEF Sums
  <2> QED BY <2>1
<1>2. ASSUME NEW k \in 1 .. n
      PROVE  /\ D(k) = D(k - 1) + G(k)
             /\ G(k) \in Int /\ G(k) >= 0
             /\ k > 1 /\ x[k - 1] < x[k] /\ z[k - 1] < z[k] => G(k) > 0
  <2>1. /\ G(k) \in Int /\ G(k) >= 0
        /\ k > 1 /\ x[k - 1] < x[k] /\ z[k - 1] < z[k] => G(k) > 0
    BY GapSign
  <2> DEFINE a == x[k]
             b == z[k]
             X1 == X[k - 1]
             Z1 == Z[k - 1]
             P1 == P[k - 1]
  <2>2. k - 1 \in 0 .. n /\ k \in Int
    OBVIOUS
  <2>3. a \in Int /\ b \in Int /\ X1 \in Int /\ Z1 \in Int /\ P1 \in Int
    BY <2>2
  <2>4. X[k] = X1 + a /\ Z[k] = Z1 + b /\ P[k] = P1 + a * b
    BY DEF Sums
  <2>5. /\ D(k) = k * (P1 + a * b) - (X1 + a) * (Z1 + b)
        /\ D(k - 1) = (k - 1) * P1 - X1 * Z1
        /\ G(k) = (k - 1) * (a * b) - a * Z1 - b * X1 + P1
    BY <2>4 DEF Gap
  <2> HIDE DEF a, b, X1, Z1, P1, D, G
  <2>6. D(k) = D(k - 1) + G(k)
    BY <2>2, <2>3, <2>5, TermIdentity
  <2> QED BY <2>1, <2>6
<1>3. ASSUME NEW k \in 1 .. n, k - 1 \in T PROVE k \in T
  <2> DEFINE d == D(k)
             d1 == D(k - 1)
             g == G(k)
  <2>1. d1 \in Int /\ d1 >= 0 /\ k \in 0 .. n
    BY <1>3
  <2>2. d = d1 + g /\ g \in Int /\ g >= 0
    BY <1>2
  <2> HIDE DEF d, d1, g
  <2>3. d \in Int /\ d >= 0
    BY <2>1, <2>2
  <2> QED BY <2>1, <2>3 DEF d
<1>4. \A k \in 0 .. n : k \in T
  <2> HIDE DEF T
  <2> QED BY <1>1, <1>3, Induction
<1>5. D(n) \in Int /\ D(n) >= 0
  BY <1>4
<1>6. ASSUME n > 1, x[n - 1] < x[n], z[n - 1] < z[n] PROVE D(n) > 0
  <2> DEFINE d == D(n)
             d1 == D(n - 1)
             g == G(n)
  <2>1. n \in 1 .. n /\ n - 1 \in 0 .. n
    BY <1>6
  <2>2. d1 \in Int /\ d1 >= 0
    BY <1>4, <2>1
  <2>3. d = d1 + g /\ g \in Int /\ g > 0
    BY <1>2, <1>6, <2>1
  <2> HIDE DEF d, d1, g
  <2>4. d > 0
    BY <2>2, <2>3
  <2> QED BY <2>4 DEF d
<1> QED BY <1>5, <1>6

-----------------------------------------------------------------------------
(* The fit of a series that rises nowhere faster, or nowhere slower, than   *)
(* at some rate.                                                            *)

Ascends(s) == \A i \in 1 .. Len(s) - 1 : s[i] <= s[i + 1]

LEMMA Ascending ==
  ASSUME NEW s \in Seq(Int), Ascends(s), NEW k \in 1 .. Len(s)
  PROVE  \A m \in 1 .. k : s[m] <= s[k]
<1>1. PICK n \in Nat : n = Len(s)
  OBVIOUS
<1>2. \A i \in 1 .. n : s[i] \in Int
  BY <1>1
<1>3. \A i \in 1 .. n - 1 : s[i] <= s[i + 1]
  BY <1>1 DEF Ascends
<1> DEFINE T == {j \in 0 .. n : \A m \in 1 .. j : s[m] <= s[j]}
<1>4. 0 \in T
  OBVIOUS
<1>5. ASSUME NEW j \in 1 .. n, j - 1 \in T PROVE j \in T
  <2>1. ASSUME NEW m \in 1 .. j PROVE s[m] <= s[j]
    <3>1. CASE m = j
      BY <1>2, <3>1
    <3>2. CASE m # j
      <4>1. m \in 1 .. j - 1 /\ j - 1 \in 1 .. n - 1 /\ (j - 1) + 1 = j /\ m \in 1 .. n /\ j - 1 \in 1 .. n
        BY <3>2
      <4>2. s[m] <= s[j - 1]
        BY <1>5, <4>1
      <4>3. s[j - 1] <= s[j]
        BY <1>3, <4>1
      <4> QED BY <1>2, <4>1, <4>2, <4>3
    <3> QED BY <3>1, <3>2
  <2> QED BY <2>1
<1> HIDE DEF T
<1>6. \A j \in 0 .. n : j \in T
  BY <1>4, <1>5, Induction
<1>7. k \in 0 .. n
  BY <1>1
<1> QED BY <1>6, <1>7 DEF T

\* The sums that linfit() divides.
Deviation(xs, ys) == Len(xs) * Total([i \in DOMAIN xs |-> xs[i] * ys[i]]) - Total(xs) * Total(ys)

LEMMA Products ==
  ASSUME NEW xs \in Seq(Int), NEW ys \in Seq(Int), Len(ys) = Len(xs)
  PROVE  /\ [i \in DOMAIN xs |-> xs[i] * ys[i]] \in Seq(Int)
         /\ Len([i \in DOMAIN xs |-> xs[i] * ys[i]]) = Len(xs)
<1>1. PICK n \in Nat : n = Len(xs)
  OBVIOUS
<1>2. DOMAIN xs = 1 .. n /\ \A i \in 1 .. n : xs[i] * ys[i] \in Int
  BY <1>1
<1> DEFINE w == [i \in 1 .. n |-> xs[i] * ys[i]]
<1>3. w \in [1 .. n -> Int]
  BY <1>2
<1>4. w \in Seq(Int) /\ Len(w) = n
  <2> HIDE DEF w
  <2> QED BY <1>3, ArrayIsSequence
<1> QED BY <1>1, <1>2, <1>4

LEMMA DeviationSign ==
  ASSUME NEW xs \in Seq(Int), NEW zs \in Seq(Int), Len(zs) = Len(xs), Ascends(xs), Ascends(zs)
  PROVE  /\ Deviation(xs, zs) \in Int /\ Deviation(xs, zs) >= 0
         /\ LET n == Len(xs)
            IN  n > 1 /\ xs[n - 1] < xs[n] /\ zs[n - 1] < zs[n] => Deviation(xs, zs) > 0
<1> DEFINE w == [i \in DOMAIN xs |-> xs[i] * zs[i]]
<1>1. w \in Seq(Int) /\ Len(w) = Len(xs)
  BY Products
<1>2. PICK n \in Nat : n = Len(xs)
  OBVIOUS
<1>3. \A k \in 1 .. n : w[k] = xs[k] * zs[k]
  BY <1>2
<1>4. Deviation(xs, zs) = n * Total(w) - Total(xs) * Total(zs)
  BY <1>2 DEF Deviation
<1> HIDE DEF w
<1>5. PICK X \in [0 .. n -> Int] : Sums(X, xs, n) /\ Total(xs) = X[n]
  BY <1>2, Totalled
<1>6. PICK Z \in [0 .. n -> Int] : Sums(Z, zs, n) /\ Total(zs) = Z[n]
  BY <1>2, Totalled
<1>7. PICK P \in [0 .. n -> Int] : Sums(P, w, n) /\ Total(w) = P[n]
  BY <1>1, <1>2, Totalled
<1>8. xs \in [1 .. n -> Int] /\ zs \in [1 .. n -> Int]
  BY <1>2
<1>9. P[0] = 0 /\ \A k \in 1 .. n : P[k] = P[k - 1] + xs[k] * zs[k]
  BY <1>3, <1>7 DEF Sums
<1>10. \A k \in 1 .. n : \A m \in 1 .. k : xs[m] <= xs[k] /\ zs[m] <= zs[k]
  BY <1>2, Ascending
<1> DEFINE D == n * P[n] - X[n] * Z[n]
<1>11. /\ D \in Int /\ D >= 0
       /\ n > 1 /\ xs[n - 1] < xs[n] /\ zs[n - 1] < zs[n] => D > 0
  BY <1>5, <1>6, <1>8, <1>9, <1>10, Chebyshev
<1> QED BY <1>2, <1>4, <1>5, <1>6, <1>7, <1>11

LEMMA LinearIdentity ==
  ASSUME NEW n \in Int, NEW a \in Int, NEW b \in Int, NEW P \in Int, NEW Q \in Int, NEW X \in Int, NEW Y \in Int
  PROVE  n * (a * P + b * Q) - X * (a * X + b * Y) = a * (n * P - X * X) + b * (n * Q - X * Y)
BY SMTT(30)

LEMMA TotalInt ==
  ASSUME NEW s \in Seq(Int)
  PROVE  Total(s) \in Int
<1>1. PICK F \in [0 .. Len(s) -> Int] : Total(s) = F[Len(s)]
  BY Totalled
<1>2. Len(s) \in 0 .. Len(s)
  OBVIOUS
<1> QED BY <1>1, <1>2

LEMMA DeviationInt ==
  ASSUME NEW xs \in Seq(Int), NEW ys \in Seq(Int), Len(ys) = Len(xs)
  PROVE  Deviation(xs, ys) \in Int
<1> DEFINE w == [i \in DOMAIN xs |-> xs[i] * ys[i]]
<1>1. w \in Seq(Int)
  BY Products
<1> HIDE DEF w
<1>2. Total(w) \in Int /\ Total(xs) \in Int /\ Total(ys) \in Int /\ Len(xs) \in Int
  BY <1>1, TotalInt
<1>3. Deviation(xs, ys) = Len(xs) * Total(w) - Total(xs) * Total(ys)
  BY DEF Deviation, w
<1> QED BY <1>2, <1>3

(* Where a * x + b * y never falls, a times the spread of x and b times the *)
(* covariance add up to no less than 0.                                     *)
LEMMA TrendBound ==
  ASSUME NEW xs \in Seq(Int), NEW ys \in Seq(Int), Len(ys) = Len(xs), Ascends(xs),
         NEW a \in Int, NEW b \in Int,
         \A i \in 1 .. Len(xs) - 1 : a * xs[i] + b * ys[i] <= a * xs[i + 1] + b * ys[i + 1]
  PROVE  0 <= a * Deviation(xs, xs) + b * Deviation(xs, ys)
<1>1. PICK n \in Nat : n = Len(xs)
  OBVIOUS
<1> DEFINE z == [i \in 1 .. n |-> a * xs[i] + b * ys[i]]
           xx == [i \in DOMAIN xs |-> xs[i] * xs[i]]
           xy == [i \in DOMAIN xs |-> xs[i] * ys[i]]
           xz == [i \in DOMAIN xs |-> xs[i] * z[i]]
<1>2. \A i \in 1 .. n : xs[i] \in Int /\ ys[i] \in Int /\ a * xs[i] + b * ys[i] \in Int
  BY <1>1
<1>3. z \in [1 .. n -> Int]
  BY <1>2
<1>4. \A i \in 1 .. n : z[i] = a * xs[i] + b * ys[i]
  OBVIOUS
<1> HIDE DEF z
<1>5. z \in Seq(Int) /\ Len(z) = n
  BY <1>3, ArrayIsSequence
<1>6. Ascends(z)
  BY <1>1, <1>4, <1>5 DEF Ascends
<1>7. Deviation(xs, z) >= 0
  BY <1>1, <1>5, <1>6, DeviationSign
<1>8. /\ xx \in Seq(Int) /\ Len(xx) = n /\ xy \in Seq(Int) /\ Len(xy) = n
  BY <1>1, Products
<1>9. xz \in Seq(Int) /\ Len(xz) = n
  BY <1>1, <1>5, Products
<1>10. ASSUME NEW k \in 1 .. n PROVE xz[k] = a * xx[k] + b * xy[k]
  <2> DEFINE u == xs[k]
             v == ys[k]
  <2>1. xx[k] = u * u /\ xy[k] = u * v /\ xz[k] = u * (a * u + b * v)
    <3>1. k \in DOMAIN xs
      BY <1>1
    <3>2. z[k] = a * u + b * v
      BY <1>4
    <3> QED BY <3>1, <3>2, Zenon
  <2>2. u \in Int /\ v \in Int
    BY <1>2
  <2> HIDE DEF u, v, xx, xy, xz
  <2>3. u * (a * u + b * v) = a * (u * u) + b * (u * v)
    BY <2>2
  <2> QED BY <2>1, <2>3
<1>11. /\ Deviation(xs, xs) = n * Total(xx) - Total(xs) * Total(xs)
       /\ Deviation(xs, ys) = n * Total(xy) - Total(xs) * Total(ys)
       /\ Deviation(xs, z) = n * Total(xz) - Total(xs) * Total(z)
  BY <1>1 DEF Deviation
<1> HIDE DEF xx, xy, xz
<1>12. Total(xz) = a * Total(xx) + b * Total(xy)
  <2>1. Combines(xz, a, xx, b, xy)
    BY <1>9, <1>10 DEF Combines
  <2> QED BY <1>8, <1>9, <2>1, TotalLinear
<1>13. Total(z) = a * Total(xs) + b * Total(ys)
  <2>1. Combines(z, a, xs, b, ys)
    BY <1>4, <1>5 DEF Combines
  <2> QED BY <1>1, <1>5, <2>1, TotalLinear
<1> DEFINE P == Total(xx)
           Q == Total(xy)
           X == Total(xs)
           Y == Total(ys)
<1>14. P \in Int /\ Q \in Int /\ X \in Int /\ Y \in Int
  BY <1>8, TotalInt
<1>15. Deviation(xs, z) = n * (a * P + b * Q) - X * (a * X + b * Y)
  BY <1>11, <1>12, <1>13
<1>16. /\ Deviation(xs, xs) = n * P - X * X
       /\ Deviation(xs, ys) = n * Q - X * Y
  BY <1>11
<1> HIDE DEF P, Q, X, Y
<1>17. n * (a * P + b * Q) - X * (a * X + b * Y) = a * (n * P - X * X) + b * (n * Q - X * Y)
  BY <1>14, LinearIdentity
<1> QED BY <1>7, <1>15, <1>16, <1>17

Rises(s) == \A i \in 1 .. Len(s) - 1 : s[i] < s[i + 1]

LEMMA FitFacts ==
  ASSUME NEW xs \in Seq(Int), NEW ys \in Seq(Int), Len(ys) = Len(xs), Rises(xs)
  PROVE  /\ Ascends(xs)
         /\ Deviation(xs, xs) \in Int /\ Deviation(xs, ys) \in Int /\ Deviation(xs, xs) >= 0
         /\ Len(xs) > 1 => Deviation(xs, xs) > 0
         /\ LinFit(xs, ys) = IF Deviation(xs, xs) = 0 THEN <<0, 1>> ELSE <<Deviation(xs, ys), Deviation(xs, xs)>>
<1>1. Ascends(xs)
  BY DEF Rises, Ascends
<1>2. Deviation(xs, xs) \in Int /\ Deviation(xs, ys) \in Int /\ Deviation(xs, xs) >= 0
  BY <1>1, DeviationInt, DeviationSign
<1>3. ASSUME Len(xs) > 1 PROVE Deviation(xs, xs) > 0
  <2>1. PICK n \in Nat : n = Len(xs)
    OBVIOUS
  <2>2. n - 1 \in 1 .. n - 1 /\ (n - 1) + 1 = n
    BY <1>3, <2>1
  <2>3. xs[n - 1] < xs[n]
    BY <2>1, <2>2 DEF Rises
  <2> QED BY <1>1, <1>3, <2>1, <2>3, DeviationSign
<1>4. LinFit(xs, ys) = IF Deviation(xs, xs) = 0 THEN <<0, 1>> ELSE <<Deviation(xs, ys), Deviation(xs, xs)>>
  BY DEF LinFit, Deviation
<1> QED BY <1>1, <1>2, <1>3, <1>4

LEMMA FitBound ==
  ASSUME NEW xs \in Seq(Int), NEW ys \in Seq(Int), Len(ys) = Len(xs), Rises(xs),
         NEW a \in Int, NEW b \in Int, a >= 0 \/ Len(xs) > 1,
         \A i \in 1 .. Len(xs) - 1 : a * xs[i] + b * ys[i] <= a * xs[i + 1] + b * ys[i + 1]
  PROVE  /\ LinFit(xs, ys)[1] \in Int /\ LinFit(xs, ys)[2] \in Nat \ {0}
         /\ 0 <= a * LinFit(xs, ys)[2] + b * LinFit(xs, ys)[1]
<1> DEFINE d == Deviation(xs, xs)
           e == Deviation(xs, ys)
           f == LinFit(xs, ys)
<1>1. /\ d \in Int /\ e \in Int /\ d >= 0 /\ (Len(xs) > 1 => d > 0)
      /\ f = IF d = 0 THEN <<0, 1>> ELSE <<e, d>>
  BY FitFacts
<1>2. 0 <= a * d + b * e
  <2>1. Ascends(xs)
    BY FitFacts
  <2> QED BY <2>1, TrendBound
<1> HIDE DEF d, e, f
<1>3. CASE d = 0
  <2>1. f[1] = 0 /\ f[2] = 1 /\ a >= 0
    BY <1>1, <1>3
  <2> QED BY <2>1 DEF f
<1>4. CASE d # 0
  <2>1. f[1] = e /\ f[2] = d /\ d \in Nat \ {0}
    BY <1>1, <1>4
  <2> QED BY <1>1, <1>2, <2>1 DEF f
<1> QED BY <1>3, <1>4

LEMMA FitGrows ==
  ASSUME NEW xs \in Seq(Int), NEW ys \in Seq(Int), Len(ys) = Len(xs), Rises(xs), Ascends(ys),
         NEW n \in Nat, n = Len(xs), n > 1, ys[n - 1] < ys[n]
  PROVE  LinFit(xs, ys)[1] > 0
<1>1. n - 1 \in 1 .. n - 1 /\ (n - 1) + 1 = n
  OBVIOUS
<1>2. xs[n - 1] < xs[n] /\ Ascends(xs)
  BY <1>1, FitFacts DEF Rises
<1>3. Deviation(xs, ys) > 0
  BY <1>2, DeviationSign
<1>4. Deviation(xs, xs) > 0 /\ LinFit(xs, ys) = <<Deviation(xs, ys), Deviation(xs, xs)>>
  BY FitFacts
<1> QED BY <1>3, <1>4

-----------------------------------------------------------------------------
(* The two halves of a series.                                              *)

LEMMA Middle ==
  ASSUME NEW n \in Nat, n >= 3
  PROVE  n \div 2 \in Nat /\ n \div 2 >= 1 /\ n - n \div 2 >= 2
BY SMTT(30)

LEMMA ElementsOf ==
  ASSUME NEW S, NEW s \in Seq(S)
  PROVE  \A i \in 1 .. Len(s) : s[i] \in S
OBVIOUS

LEMMA SampleTypes ==
  ASSUME NEW s \in Seq(Nat), NEW n \in Nat, n = Len(s)
  PROVE  \A i \in 1 .. n : s[i] \in Nat /\ s[i] \in Int
OBVIOUS

LEMMA IntArray ==
  ASSUME NEW m \in Nat, NEW u \in [1 .. m -> Int]
  PROVE  u \in Seq(Int) /\ Len(u) = m
BY ArrayIsSequence

LEMMA Halves ==
  ASSUME NEW s \in Seq(Nat), NEW n \in Nat, n = Len(s), n >= 3, NEW h \in Nat, h = n \div 2
  PROVE  /\ FirstHalf(s) \in Seq(Int) /\ Len(FirstHalf(s)) = h
         /\ \A i \in 1 .. h : FirstHalf(s)[i] = s[i]
         /\ SecondHalf(s) \in Seq(Int) /\ Len(SecondHalf(s)) = n - h
         /\ \A i \in 1 .. n - h : SecondHalf(s)[i] = s[h + i]
<1>1. h >= 1 /\ n - h >= 2
  BY Middle
<1>2. FirstHalf(s) = SubSeq(s, 1, h) /\ SecondHalf(s) = SubSeq(s, h + 1, n)
  BY <1>1 DEF FirstHalf, SecondHalf
<1>3. SubSeq(s, 1, h) = [i \in 1 .. h |-> s[i]]
  <2>1. SubSeq(s, 1, h) = [i \in 1 .. (1 + h - 1) |-> s[i + 1 - 1]]
    BY <1>1
  <2> QED BY <1>1, <2>1
<1>4. SubSeq(s, h + 1, n) = [i \in 1 .. n - h |-> s[h + i]]
  <2> DEFINE f == SubSeq(s, h + 1, n)
             g == [i \in 1 .. n - h |-> s[h + i]]
  <2>1. DOMAIN f = 1 .. n - h /\ \A i \in 1 .. n - h : f[i] = s[h + i]
    BY <1>1
  <2> QED BY <1>1, <2>1
<1>5. [i \in 1 .. h |-> s[i]] \in [1 .. h -> Int] /\ [i \in 1 .. n - h |-> s[h + i]] \in [1 .. n - h -> Int]
  <2>1. \A i \in 1 .. h : i \in 1 .. n /\ s[i] \in Int
    BY <1>1
  <2>2. \A i \in 1 .. n - h : h + i \in 1 .. n /\ s[h + i] \in Int
    BY <1>1
  <2> QED BY <2>1, <2>2
<1> DEFINE f == [i \in 1 .. h |-> s[i]]
           g == [i \in 1 .. n - h |-> s[h + i]]
<1>6. f \in [1 .. h -> Int] /\ g \in [1 .. n - h -> Int]
  BY <1>5
<1>7. (\A i \in 1 .. h : f[i] = s[i]) /\ (\A i \in 1 .. n - h : g[i] = s[h + i])
  OBVIOUS
<1>8. FirstHalf(s) = f /\ SecondHalf(s) = g
  BY <1>2, <1>3, <1>4
<1> HIDE DEF f, g
<1>9. PICK m \in Nat : m = n - h
  <2>1. n - h \in Nat
    BY <1>1
  <2> QED BY <2>1
<1>10. f \in Seq(Int) /\ Len(f) = h
  <2>1. f \in [1 .. h -> Int]
    BY <1>6
  <2> QED BY <2>1, IntArray, ZenonT(30)
<1>11. g \in Seq(Int) /\ Len(g) = n - h
  <2>1. g \in [1 .. m -> Int]
    BY <1>6, <1>9
  <2>2. g \in Seq(Int) /\ Len(g) = m
    BY <2>1, IntArray
  <2> QED BY <1>9, <2>2
<1> QED BY <1>7, <1>8, <1>10, <1>11

-----------------------------------------------------------------------------
(* classify(): growth that never slows down, and growth that has stopped.   *)

LEMMA NoFaster ==
  ASSUME NEW u \in Int, NEW v \in Int, NEW y \in Int, NEW z \in Int, NEW r \in Int, NEW c \in Int,
         NEW d \in Int, d = -c, (z - y) * c <= r * (v - u)
  PROVE  r * u + d * y <= r * v + d * z
<1>1. (z - y) * c = -(d * z) + d * y /\ r * (v - u) = r * v - r * u
  BY SMTT(30)
<1> DEFINE A == d * z
           B == d * y
           C == r * v
           E == r * u
<1>2. A \in Int /\ B \in Int /\ C \in Int /\ E \in Int /\ -A + B <= C - E
  BY <1>1
<1> HIDE DEF A, B, C, E
<1>3. E + B <= C + A
  BY <1>2
<1> QED BY <1>3 DEF A, B, C, E

LEMMA NoSlower ==
  ASSUME NEW u \in Int, NEW v \in Int, NEW y \in Int, NEW z \in Int, NEW r \in Int, NEW c \in Int,
         NEW d \in Int, d = -r, r * (v - u) <= (z - y) * c
  PROVE  d * u + c * y <= d * v + c * z
<1>1. (z - y) * c = c * z - c * y /\ r * (v - u) = -(d * v) + d * u
  BY SMTT(30)
<1> DEFINE A == c * z
           B == c * y
           C == d * v
           E == d * u
<1>2. A \in Int /\ B \in Int /\ C \in Int /\ E \in Int /\ -C + E <= A - B
  BY <1>1
<1> HIDE DEF A, B, C, E
<1>3. E + B <= C + A
  BY <1>2
<1> QED BY <1>3 DEF A, B, C, E

LEMMA Factor ==
  ASSUME NEW c \in Nat \ {0}, NEW u \in Int, NEW v \in Int, c * u <= c * v
  PROVE  u <= v
BY SMTT(30)

LEMMA Scaled ==
  ASSUME NEW c \in Nat, NEW u \in Int, NEW v \in Int, u <= v
  PROVE  u * c <= v * c /\ u * c \in Int /\ v * c \in Int
BY SMTT(30)

\* Slopes on either side of a common one: the second is not much smaller.
LEMMA NotFlattened ==
  ASSUME NEW s1 \in Int, NEW d1 \in Nat \ {0}, NEW s2 \in Int, NEW d2 \in Nat \ {0},
         NEW r \in Int, NEW c \in Nat \ {0}, NEW mc \in Int, mc = -c, NEW mr \in Int, mr = -r,
         0 <= r * d1 + mc * s1, 0 <= mr * d2 + c * s2, s2 > 0
  PROVE  ~ (10 * s2 * d1 <= 3 * s1 * d2)
<1>1. c * s1 <= r * d1 /\ r * d2 <= c * s2
  <2>1. mc * s1 = -(c * s1) /\ mr * d2 = -(r * d2)
    BY SMTT(30)
  <2> DEFINE A == c * s1
             B == r * d1
             C == r * d2
             E == c * s2
  <2>2. A \in Int /\ B \in Int /\ C \in Int /\ E \in Int /\ 0 <= B + (-A) /\ 0 <= -C + E
    BY <2>1
  <2> HIDE DEF A, B, C, E
  <2>3. A <= B /\ C <= E
    BY <2>2
  <2> QED BY <2>3 DEF A, B, C, E
<1>2. c * s1 \in Int /\ r * d1 \in Int /\ r * d2 \in Int /\ c * s2 \in Int
  OBVIOUS
<1>3. (c * s1) * d2 <= (r * d1) * d2
  BY <1>1, <1>2, Scaled
<1>4. (r * d2) * d1 <= (c * s2) * d1
  BY <1>1, <1>2, Scaled
<1>5. /\ (c * s1) * d2 = c * (s1 * d2) /\ (c * s2) * d1 = c * (s2 * d1)
      /\ (r * d1) * d2 = (r * d2) * d1
  BY SMTT(30)
<1> DEFINE u == s1 * d2
           v == s2 * d1
<1>6. u \in Int /\ v \in Int /\ v > 0
  BY ProductSign
<1>7. 10 * s2 * d1 = 10 * v /\ 3 * s1 * d2 = 3 * u
  BY SMTT(30)
<1>8. c * u \in Int /\ c * v \in Int /\ (r * d1) * d2 \in Int
  BY <1>2, <1>6
<1>9. c * u <= c * v
  <2> DEFINE A == c * u
             B == c * v
             C == (r * d1) * d2
  <2>1. A \in Int /\ B \in Int /\ C \in Int /\ A <= C /\ C <= B
    BY <1>3, <1>4, <1>5, <1>8
  <2> HIDE DEF A, B, C
  <2>2. A <= B
    BY <2>1
  <2> QED BY <2>2 DEF A, B
<1> HIDE DEF u, v
<1>10. u <= v
  BY <1>6, <1>9, Factor
<1>11. ~ (10 * v <= 3 * u)
  BY <1>6, <1>10
<1> QED BY <1>7, <1>11

LEMMA SameThroughout ==
  ASSUME NEW y \in Seq(Nat), NEW n \in Nat, n = Len(y), n > 0, \A i \in 1 .. n - 1 : y[i] = y[i + 1]
  PROVE  RangeOf(y) = 0
<1> DEFINE T == {k \in 0 .. n : k = 0 \/ y[k] = y[1]}
<1>1. 0 \in T
  OBVIOUS
<1>2. ASSUME NEW k \in 1 .. n, k - 1 \in T PROVE k \in T
  <2>1. CASE k = 1
    BY <2>1
  <2>2. CASE k # 1
    <3>1. k - 1 \in 1 .. n - 1 /\ (k - 1) + 1 = k /\ y[k - 1] = y[1]
      BY <1>2, <2>2
    <3>2. y[k - 1] = y[k]
      BY <3>1
    <3> QED BY <3>1, <3>2
  <2> QED BY <2>1, <2>2
<1> HIDE DEF T
<1>3. \A k \in 0 .. n : k \in T
  BY <1>1, <1>2, Induction
<1>4. \A k \in 1 .. n : y[k] = y[1]
  BY <1>3 DEF T
<1> DEFINE S == {y[i] : i \in DOMAIN y}
<1>5. S = {y[1]} /\ y[1] \in Nat
  BY <1>4
<1> HIDE DEF S
<1>6. Max(S) = y[1]
  BY <1>5 DEF Max
<1>7. Min(S) = y[1]
  BY <1>5 DEF Min
<1> QED BY <1>5, <1>6, <1>7 DEF RangeOf, S

LEMMA RangeAscending ==
  ASSUME NEW y \in Seq(Nat), NEW n \in Nat, n = Len(y), n > 0, Ascends(y)
  PROVE  RangeOf(y) \in Int
<1> DEFINE S == {y[i] : i \in DOMAIN y}
<1>1. \A i \in 1 .. n : y[i] \in Nat
  BY SampleTypes
<1>2. 1 \in 1 .. n /\ n \in 1 .. n /\ DOMAIN y = 1 .. n
  OBVIOUS
<1>3. y \in Seq(Int)
  OBVIOUS
<1>4. \A i \in 1 .. n : y[i] <= y[n]
  BY <1>2, <1>3, Ascending
<1>5. \A i \in 1 .. n : y[1] <= y[i]
  <2> TAKE i \in 1 .. n
  <2>1. 1 \in 1 .. i /\ i \in 1 .. Len(y)
    OBVIOUS
  <2> QED BY <1>3, <2>1, Ascending
<1>6. \A v \in S : v \in Nat /\ y[1] <= v /\ v <= y[n]
  BY <1>1, <1>2, <1>4, <1>5
<1>7. y[1] \in S /\ y[n] \in S
  BY <1>2
<1> HIDE DEF S
<1>8. Max(S) \in S
  <2>1. \E m \in S : \A v \in S : m >= v
    BY <1>6, <1>7
  <2> QED BY <2>1 DEF Max
<1>9. Min(S) \in S
  <2>1. \E m \in S : \A v \in S : m <= v
    BY <1>6, <1>7
  <2> QED BY <2>1 DEF Min
<1>10. RangeOf(y) = Max(S) - Min(S)
  BY DEF RangeOf, S
<1> QED BY <1>6, <1>8, <1>9, <1>10

Steeper(t, y, i, j) == (y[i + 1] - y[i]) * (t[j + 1] - t[j]) <= (y[j + 1] - y[j]) * (t[i + 1] - t[i])

\* The last step of growth that never slows down is growth.
LEMMA StillGrowing ==
  ASSUME NEW t \in Seq(Nat), NEW y \in Seq(Nat), NEW n \in Nat, n = Len(t), n = Len(y), n >= 3,
         Rises(t), Ascends(y), RangeOf(y) >= MB, \A i, j \in 1 .. n - 1 : i < j => Steeper(t, y, i, j)
  PROVE  y[n - 1] < y[n]
<1>1. SUFFICES ASSUME ~ (y[n - 1] < y[n]) PROVE FALSE
  OBVIOUS
<1>2. n - 1 \in 1 .. n - 1 /\ (n - 1) + 1 = n /\ n - 1 \in 1 .. n /\ n \in 1 .. n
  OBVIOUS
<1>3. y[n - 1] = y[n] /\ t[n - 1] < t[n]
  BY <1>1, <1>2 DEF Ascends, Rises
<1>4. ASSUME NEW i \in 1 .. n - 1, i # n - 1 PROVE y[i] = y[i + 1]
  <2> DEFINE p1 == y[i + 1] - y[i]
             w == t[n] - t[n - 1]
             w1 == t[i + 1] - t[i]
  <2>1. i < n - 1 /\ i \in 1 .. n /\ i + 1 \in 1 .. n
    BY <1>4
  <2>2. p1 * w <= (y[n] - y[n - 1]) * w1
    BY <1>2, <2>1 DEF Steeper
  <2>a. /\ y[n] \in Nat /\ y[n - 1] \in Nat /\ y[i] \in Nat /\ y[i + 1] \in Nat
        /\ t[n] \in Nat /\ t[n - 1] \in Nat /\ t[i] \in Nat /\ t[i + 1] \in Nat
    BY <1>2, <2>1, SampleTypes
  <2>b. y[i] <= y[i + 1]
    BY DEF Ascends
  <2>3. y[n] - y[n - 1] = 0 /\ p1 \in Int /\ p1 >= 0 /\ w \in Int /\ w > 0 /\ w1 \in Int
    <3> DEFINE e1 == y[n]
               e2 == y[n - 1]
               e3 == y[i]
               e4 == y[i + 1]
               e5 == t[n]
               e6 == t[n - 1]
               e7 == t[i]
               e8 == t[i + 1]
    <3>1. /\ e1 \in Nat /\ e2 \in Nat /\ e3 \in Nat /\ e4 \in Nat
          /\ e5 \in Nat /\ e6 \in Nat /\ e7 \in Nat /\ e8 \in Nat
          /\ e2 = e1 /\ e3 <= e4 /\ e6 < e5
      BY <1>3, <2>a, <2>b
    <3> HIDE DEF e1, e2, e3, e4, e5, e6, e7, e8
    <3>2. e1 - e2 = 0 /\ e4 - e3 \in Int /\ e4 - e3 >= 0 /\ e5 - e6 \in Int /\ e5 - e6 > 0 /\ e8 - e7 \in Int
      BY <3>1
    <3> QED BY <3>2 DEF e1, e2, e3, e4, e5, e6, e7, e8
  <2> HIDE DEF w, w1
  <2>4. p1 * w <= 0
    BY <2>2, <2>3
  <2>5. ~ (p1 > 0)
    <3> HIDE DEF p1
    <3>1. p1 > 0 => p1 * w > 0
      BY <2>3, ProductSign
    <3> QED BY <2>3, <2>4, <3>1
  <2>6. p1 = 0
    <3> HIDE DEF p1
    <3> QED BY <2>3, <2>5
  <2> QED BY <2>1, <2>6
<1>5. \A i \in 1 .. n - 1 : y[i] = y[i + 1]
  <2> TAKE i \in 1 .. n - 1
  <2>1. CASE i = n - 1
    BY <1>2, <1>3, <2>1
  <2>2. CASE i # n - 1
    BY <1>4, <2>2
  <2> QED BY <2>1, <2>2
<1>6. RangeOf(y) = 0
  <2>1. n > 0
    OBVIOUS
  <2> QED BY <1>5, <2>1, SameThroughout
<1> QED BY <1>6, RssAssumption

LEMMA LeakFound ==
  ASSUME NEW t \in Seq(Nat), NEW y \in Seq(Nat), NEW n \in Nat, n = Len(t), n = Len(y), n >= 3,
         Rises(t), Ascends(y), RangeOf(y) >= MB, \A i, j \in 1 .. n - 1 : i < j => Steeper(t, y, i, j)
  PROVE  ~ Flattened(LinFit(FirstHalf(t), FirstHalf(y)), LinFit(SecondHalf(t), SecondHalf(y)))
<1>h. PICK h \in Nat : h = n \div 2
  BY Middle
<1>1. h >= 1 /\ n - h >= 2
  BY <1>h, Middle
<1> DEFINE x1 == FirstHalf(t)
           y1 == FirstHalf(y)
           x2 == SecondHalf(t)
           y2 == SecondHalf(y)
           f == LinFit(x1, y1)
           g == LinFit(x2, y2)
<1>2. /\ x1 \in Seq(Int) /\ Len(x1) = h /\ \A i \in 1 .. h : x1[i] = t[i]
      /\ x2 \in Seq(Int) /\ Len(x2) = n - h /\ \A i \in 1 .. n - h : x2[i] = t[h + i]
  BY <1>h, Halves
<1>3. /\ y1 \in Seq(Int) /\ Len(y1) = h /\ \A i \in 1 .. h : y1[i] = y[i]
      /\ y2 \in Seq(Int) /\ Len(y2) = n - h /\ \A i \in 1 .. n - h : y2[i] = y[h + i]
  BY <1>h, Halves
<1> HIDE DEF x1, y1, x2, y2
<1>l. Len(x1) = h /\ Len(x2) = n - h
  BY <1>2
<1>4. h \in 1 .. n - 1 /\ h + 1 \in 1 .. n /\ h \in 1 .. n
  BY <1>1
<1>5. \A i \in 1 .. n : t[i] \in Int /\ y[i] \in Int
  BY SampleTypes
<1>6. PICK r \in Int, c \in Nat \ {0}, mr \in Int, mc \in Int :
        /\ r = y[h + 1] - y[h] /\ c = t[h + 1] - t[h] /\ mr = -r /\ mc = -c /\ r >= 0
  <2> DEFINE u == t[h]
             v == t[h + 1]
             y0 == y[h]
             z0 == y[h + 1]
  <2>1. u \in Int /\ v \in Int /\ y0 \in Int /\ z0 \in Int
    BY <1>4, <1>5
  <2>2. u < v /\ y0 <= z0
    BY <1>4 DEF Rises, Ascends
  <2> HIDE DEF u, v, y0, z0
  <2>3. z0 - y0 \in Int /\ z0 - y0 >= 0 /\ v - u \in Nat \ {0} /\ -(z0 - y0) \in Int /\ -(v - u) \in Int
    BY <2>1, <2>2
  <2> QED BY <2>3 DEF u, v, y0, z0
<1>7. Rises(x1) /\ Rises(x2) /\ Ascends(y2)
  <2>1. ASSUME NEW i \in 1 .. h - 1 PROVE x1[i] < x1[i + 1]
    <3>1. i \in 1 .. n - 1 /\ i \in 1 .. h /\ i + 1 \in 1 .. h
      BY <1>1
    <3>2. t[i] < t[i + 1]
      BY <3>1 DEF Rises
    <3> QED BY <1>2, <3>1, <3>2
  <2>2. ASSUME NEW i \in 1 .. (n - h) - 1 PROVE x2[i] < x2[i + 1] /\ y2[i] <= y2[i + 1]
    <3>1. h + i \in 1 .. n - 1 /\ h + (i + 1) = (h + i) + 1 /\ i \in 1 .. n - h /\ i + 1 \in 1 .. n - h
      BY <1>1
    <3> QED BY <1>2, <1>3, <3>1 DEF Rises, Ascends
  <2> QED BY <1>2, <1>3, <2>1, <2>2 DEF Rises, Ascends
<1>8. ASSUME NEW i \in 1 .. Len(x1) - 1
      PROVE  r * x1[i] + mc * y1[i] <= r * x1[i + 1] + mc * y1[i + 1]
  <2>1. i \in 1 .. h - 1 /\ i \in 1 .. n - 1 /\ i < h /\ i \in 1 .. h /\ i + 1 \in 1 .. h /\ i \in 1 .. n /\ i + 1 \in 1 .. n
    <3>1. i \in 1 .. h - 1
      BY <1>l
    <3> QED BY <1>1, <3>1, SMTT(30)
  <2>2. (y[i + 1] - y[i]) * c <= r * (t[i + 1] - t[i])
    BY <1>4, <1>6, <2>1 DEF Steeper
  <2>3. r * t[i] + mc * y[i] <= r * t[i + 1] + mc * y[i + 1]
    <3>1. t[i] \in Int /\ t[i + 1] \in Int /\ y[i] \in Int /\ y[i + 1] \in Int /\ c \in Int
      BY <1>5, <2>1
    <3> QED BY <1>6, <2>2, <3>1, NoFaster
  <2> QED BY <1>2, <1>3, <2>1, <2>3
<1>9. ASSUME NEW i \in 1 .. Len(x2) - 1
      PROVE  mr * x2[i] + c * y2[i] <= mr * x2[i + 1] + c * y2[i + 1]
  <2>1. PICK j \in Nat : j = h + i
    BY <1>1, <1>l
  <2>2. /\ j \in 1 .. n - 1 /\ h < j /\ j \in 1 .. n /\ j + 1 \in 1 .. n
        /\ i \in 1 .. n - h /\ i + 1 \in 1 .. n - h /\ h + (i + 1) = j + 1
    BY <1>1, <1>l, <2>1
  <2>3. r * (t[j + 1] - t[j]) <= (y[j + 1] - y[j]) * c
    BY <1>4, <1>6, <2>2 DEF Steeper
  <2>4. mr * t[j] + c * y[j] <= mr * t[j + 1] + c * y[j + 1]
    <3>1. t[j] \in Int /\ t[j + 1] \in Int /\ y[j] \in Int /\ y[j + 1] \in Int /\ c \in Int
      BY <1>5, <2>2
    <3> QED BY <1>6, <2>3, <3>1, NoSlower
  <2>5. x2[i] = t[j] /\ x2[i + 1] = t[j + 1]
    BY <1>2, <2>1, <2>2, ZenonT(30)
  <2>6. y2[i] = y[j] /\ y2[i + 1] = y[j + 1]
    BY <1>3, <2>1, <2>2, ZenonT(30)
  <2> QED BY <2>4, <2>5, <2>6, Zenon
<1>10. f[1] \in Int /\ f[2] \in Nat \ {0} /\ 0 <= r * f[2] + mc * f[1]
  BY <1>2, <1>3, <1>6, <1>7, <1>8, FitBound
<1>11. g[1] \in Int /\ g[2] \in Nat \ {0} /\ 0 <= mr * g[2] + c * g[1]
  <2>1. Len(x2) > 1 /\ c \in Int
    BY <1>1, <1>2
  <2> QED BY <1>2, <1>3, <1>6, <1>7, <1>9, <2>1, FitBound
<1>12. g[1] > 0
  <2>1. PICK m \in Nat : m = n - h
    <3>1. n - h \in Nat
      BY <1>1
    <3> QED BY <3>1
  <2>2. m > 1 /\ m \in 1 .. m /\ m - 1 \in 1 .. m /\ h + m = n /\ h + (m - 1) = n - 1
    BY <1>1, <2>1
  <2>3. y[n - 1] < y[n]
    BY StillGrowing
  <2>4. y2[m - 1] < y2[m]
    BY <1>3, <2>1, <2>2, <2>3, ZenonT(30)
  <2>5. m = Len(x2) /\ Len(y2) = Len(x2)
    BY <1>2, <1>3, <2>1
  <2> QED BY <1>2, <1>3, <1>7, <2>2, <2>4, <2>5, FitGrows
<1> HIDE DEF f, g
<1>13. ~ (10 * g[1] * f[2] <= 3 * f[1] * g[2])
  BY <1>6, <1>10, <1>11, <1>12, NotFlattened
<1> QED BY <1>13 DEF Flattened, f, g, x1, y1, x2, y2

LEMMA PlateauFound ==
  ASSUME NEW t \in Seq(Nat), NEW y \in Seq(Nat), NEW n \in Nat, n = Len(t), n = Len(y), n >= 3,
         Rises(t), Ascends(y), \A i \in 1 .. n - 1 : i >= n \div 2 => y[i] = y[i + 1]
  PROVE  Flattened(LinFit(FirstHalf(t), FirstHalf(y)), LinFit(SecondHalf(t), SecondHalf(y)))
<1>h. PICK h \in Nat : h = n \div 2
  BY Middle
<1>1. h >= 1 /\ n - h >= 2
  BY <1>h, Middle
<1> DEFINE x1 == FirstHalf(t)
           y1 == FirstHalf(y)
           x2 == SecondHalf(t)
           y2 == SecondHalf(y)
           f == LinFit(x1, y1)
           g == LinFit(x2, y2)
<1>2. /\ x1 \in Seq(Int) /\ Len(x1) = h /\ \A i \in 1 .. h : x1[i] = t[i]
      /\ x2 \in Seq(Int) /\ Len(x2) = n - h /\ \A i \in 1 .. n - h : x2[i] = t[h + i]
  BY <1>h, Halves, ZenonT(30)
<1>3. /\ y1 \in Seq(Int) /\ Len(y1) = h /\ \A i \in 1 .. h : y1[i] = y[i]
      /\ y2 \in Seq(Int) /\ Len(y2) = n - h /\ \A i \in 1 .. n - h : y2[i] = y[h + i]
  BY <1>h, Halves, ZenonT(30)
<1> HIDE DEF x1, y1, x2, y2
<1>l. Len(x1) = h /\ Len(x2) = n - h
  BY <1>2
<1>m. /\ \A k \in 1 .. n - h : x2[k] \in Int /\ y2[k] \in Int
      /\ \A k \in 1 .. h : x1[k] \in Int /\ y1[k] \in Int
  <2>1. /\ \A k \in 1 .. Len(x2) : x2[k] \in Int
        /\ \A k \in 1 .. Len(y2) : y2[k] \in Int
        /\ \A k \in 1 .. Len(x1) : x1[k] \in Int
        /\ \A k \in 1 .. Len(y1) : y1[k] \in Int
    BY <1>2, <1>3, ElementsOf
  <2> QED BY <1>2, <1>3, <2>1
<1>4. PICK o \in Int, a \in Int, b \in Int : o = 0 /\ a = 1 /\ b = -1
  OBVIOUS
<1>5. ASSUME NEW i \in 1 .. Len(x1) - 1 PROVE x1[i] < x1[i + 1] /\ y1[i] <= y1[i + 1]
  <2>1. i \in 1 .. n - 1 /\ i \in 1 .. h /\ i + 1 \in 1 .. h
    BY <1>1, <1>l
  <2> QED BY <1>2, <1>3, <2>1 DEF Rises, Ascends
<1>6. ASSUME NEW i \in 1 .. Len(x2) - 1 PROVE x2[i] < x2[i + 1] /\ y2[i] = y2[i + 1]
  <2>1. PICK j \in Nat : j = h + i
    BY <1>1, <1>l
  <2>2. /\ j \in 1 .. n - 1 /\ j >= h /\ i \in 1 .. n - h /\ i + 1 \in 1 .. n - h /\ h + (i + 1) = j + 1
    BY <1>1, <1>l, <2>1
  <2>3. t[j] < t[j + 1] /\ y[j] = y[j + 1]
    BY <1>h, <2>2 DEF Rises
  <2> QED BY <1>2, <1>3, <2>1, <2>2, <2>3, SMTT(30)
<1>7. Rises(x1) /\ Rises(x2)
  BY <1>5, <1>6 DEF Rises
<1>8. \A i \in 1 .. Len(x1) - 1 : o * x1[i] + a * y1[i] <= o * x1[i + 1] + a * y1[i + 1]
  <2> TAKE i \in 1 .. Len(x1) - 1
  <2>1. i \in 1 .. h /\ i + 1 \in 1 .. h
    BY <1>2
  <2>2. x1[i] \in Int /\ x1[i + 1] \in Int /\ y1[i] \in Int /\ y1[i + 1] \in Int /\ y1[i] <= y1[i + 1]
    BY <1>5, <1>m, <2>1
  <2> QED BY <1>4, <2>2, SMTT(30)
<1>9. /\ \A i \in 1 .. Len(x2) - 1 : o * x2[i] + a * y2[i] <= o * x2[i + 1] + a * y2[i + 1]
      /\ \A i \in 1 .. Len(x2) - 1 : o * x2[i] + b * y2[i] <= o * x2[i + 1] + b * y2[i + 1]
  <2>1. ASSUME NEW i \in 1 .. Len(x2) - 1
        PROVE  /\ o * x2[i] + a * y2[i] <= o * x2[i + 1] + a * y2[i + 1]
               /\ o * x2[i] + b * y2[i] <= o * x2[i + 1] + b * y2[i + 1]
    <3>1. i \in 1 .. n - h /\ i + 1 \in 1 .. n - h
      BY <1>1, <1>l
    <3>2. x2[i] \in Int /\ x2[i + 1] \in Int /\ y2[i] \in Int
      <4>1. \A k \in 1 .. n - h : x2[k] \in Int /\ y2[k] \in Int
        BY <1>m
      <4> QED BY <3>1, <4>1
    <3>3. y2[i + 1] = y2[i]
      BY <1>6
    <3> DEFINE u == x2[i]
               v == x2[i + 1]
               w == y2[i]
               ww == y2[i + 1]
    <3>4. u \in Int /\ v \in Int /\ w \in Int /\ ww = w
      BY <3>2, <3>3
    <3> HIDE DEF u, v, w, ww
    <3>5. o * u + a * w <= o * v + a * ww /\ o * u + b * w <= o * v + b * ww
      BY <1>4, <3>4
    <3> QED BY <3>5 DEF u, v, w, ww
  <2> QED BY <2>1
<1>10. f[1] \in Int /\ f[2] \in Nat \ {0} /\ 0 <= o * f[2] + a * f[1]
  <2>1. o >= 0
    BY <1>4
  <2> QED BY <1>2, <1>3, <1>7, <1>8, <2>1, FitBound
<1>11. Len(x2) > 1
  BY <1>1, <1>2
<1>12. g[1] \in Int /\ g[2] \in Nat \ {0} /\ 0 <= o * g[2] + a * g[1]
  BY <1>2, <1>3, <1>7, <1>9, <1>11, FitBound
<1>13. 0 <= o * g[2] + b * g[1]
  BY <1>2, <1>3, <1>7, <1>9, <1>11, FitBound
<1> HIDE DEF f, g
<1>14. f[1] >= 0 /\ g[1] = 0
  <2> DEFINE u == f[1]
             v == f[2]
             w == g[1]
             z == g[2]
  <2>0. u \in Int /\ v \in Nat \ {0} /\ w \in Int /\ z \in Nat \ {0}
    BY <1>10, <1>12, Zenon
  <2>1. 0 <= o * v + a * u /\ 0 <= o * z + a * w /\ 0 <= o * z + b * w
    BY <1>10, <1>12, <1>13, Zenon
  <2> HIDE DEF u, v, w, z
  <2>2. o * v = 0 /\ o * z = 0 /\ a * u = u /\ a * w = w /\ b * w = -w
    BY <1>4, <2>0
  <2>3. 0 <= 0 + u /\ 0 <= 0 + w /\ 0 <= 0 + -w
    BY <2>1, <2>2, Zenon
  <2>4. u >= 0 /\ w = 0
    BY <2>0, <2>3
  <2> QED BY <2>4 DEF u, w
<1>15. 10 * g[1] * f[2] = 0 /\ 3 * f[1] * g[2] >= 0
  <2>1. f[1] * g[2] >= 0 /\ f[1] * g[2] \in Int
    <3>1. f[1] \in Int /\ g[2] \in Int /\ f[1] >= 0 /\ g[2] >= 0
      BY <1>10, <1>12, <1>14
    <3> QED BY <3>1, ProductSign
  <2>2. 3 * f[1] * g[2] = 3 * (f[1] * g[2])
    BY <1>10, <1>12, SMTT(30)
  <2> DEFINE p == f[1] * g[2]
             q == f[2]
  <2>3. p \in Int /\ p >= 0 /\ 3 * f[1] * g[2] = 3 * p
    BY <2>1, <2>2
  <2>4. q \in Int
    BY <1>10
  <2>5. 10 * g[1] * q = 10 * 0 * q
    BY <1>14
  <2> HIDE DEF p, q
  <2>6. 3 * p >= 0
    BY <2>3
  <2>7. 10 * 0 * q = 0
    BY <2>4
  <2> QED BY <2>3, <2>5, <2>6, <2>7 DEF q
<1> QED BY <1>15 DEF Flattened, f, g, x1, y1, x2, y2

(* What monitor() has sampled, at rising times.                             *)
RssInv ==
  /\ times \in Seq(Nat) /\ rss \in Seq(Nat) /\ Len(times) = Len(rss)
  /\ Rises(times)
  /\ Judged => Len(rss) = RssCount /\ verdict = Classify(times, rss)

LEMMA RssStep == RssInv /\ [RssNext]_rssVars => RssInv'
<1> SUFFICES ASSUME RssInv, [RssNext]_rssVars PROVE RssInv'
  OBVIOUS
<1>1. ASSUME NEW kb \in Sizes, NEW delay \in Delays, Sample(kb, delay) PROVE RssInv'
  <2> DEFINE n == Len(times)
             e == IF times = <<>> THEN 0 ELSE times[n] + delay
  <2>1. kb \in Nat /\ delay \in Nat /\ delay > 0 /\ n \in Nat /\ times \in Seq(Nat)
    BY RssAssumption DEF RssInv
  <2>2. e \in Nat
    BY <2>1
  <2>3. times' = Append(times, e) /\ rss' = Append(rss, kb) /\ verdict' = "none"
    BY <1>1 DEF Sample
  <2>4. times' \in Seq(Nat) /\ rss' \in Seq(Nat) /\ Len(times') = n + 1 /\ Len(rss') = n + 1
    BY <2>1, <2>2, <2>3 DEF RssInv
  <2>5. ASSUME NEW i \in 1 .. n PROVE times'[i] < times'[i + 1]
    <3>1. \A k \in 1 .. n : times'[k] = times[k] /\ times[k] \in Nat
      BY <2>1, <2>3
    <3>2. times'[n + 1] = e
      BY <2>1, <2>2, <2>3
    <3>3. CASE i = n
      <4>1. times # <<>> /\ e = times[n] + delay /\ times[n] \in Nat
        BY <2>1, <3>3
      <4> QED BY <2>1, <3>1, <3>2, <3>3, <4>1
    <3>4. CASE i # n
      <4>1. i \in 1 .. n - 1 /\ i + 1 \in 1 .. n
        BY <2>1, <3>4
      <4> QED BY <3>1, <4>1 DEF RssInv, Rises
    <3> QED BY <3>3, <3>4
  <2>6. Rises(times')
    <3> HIDE DEF n
    <3>1. (n + 1) - 1 = n
      BY <2>1
    <3> QED BY <2>4, <2>5, <3>1 DEF Rises
  <2>7. ~ Judged'
    BY <2>3 DEF Judged
  <2> QED BY <2>4, <2>6, <2>7 DEF RssInv, Rises
<1>2. CASE Gone
  BY <1>2 DEF Gone, RssInv, Judged, Rises
<1>3. CASE Judge
  BY <1>3 DEF Judge, RssInv, Judged, Rises
<1>4. CASE UNCHANGED rssVars
  BY <1>4 DEF rssVars, RssInv, Judged, Rises
<1> QED BY <1>1, <1>2, <1>3, <1>4 DEF RssNext

LEMMA RssJudged == RssInv => TrendJudged
<1> SUFFICES ASSUME RssInv, Judged, RssCount >= 3, RangeOf(rss) >= MB
             PROVE  /\ (\A i \in Steps : Rise(i) >= 0) /\ (\A i, j \in Steps : i < j => Rise(i) * Wait(j) <= Rise(j) * Wait(i))
                         => verdict = "LEAK"
                    /\ (\A i \in Steps : Rise(i) >= 0 /\ (i >= Len(rss) \div 2 => Rise(i) = 0))
                         => verdict = "PLATEAU"
  BY DEF TrendJudged
<1>1. PICK t \in Seq(Nat), y \in Seq(Nat), n \in Nat :
        t = times /\ y = rss /\ n = Len(t) /\ n = Len(y) /\ n >= 3
  BY RssAssumption DEF RssInv
<1> DEFINE F == Flattened(LinFit(FirstHalf(t), FirstHalf(y)), LinFit(SecondHalf(t), SecondHalf(y)))
<1>2. ASSUME Ascends(y) PROVE verdict = IF F THEN "PLATEAU" ELSE "LEAK"
  <2>1. verdict = Classify(t, y) /\ RangeOf(y) >= MB
    BY <1>1 DEF RssInv
  <2>2. RangeOf(y) \in Int
    BY <1>1, <1>2, RangeAscending
  <2>3. ~ (RangeOf(y) < MB)
    BY <2>1, <2>2, RssAssumption
  <2> QED BY <2>1, <2>3 DEF Classify
<1>3. Rises(t) /\ RangeOf(y) >= MB /\ Steps = 1 .. n - 1
  BY <1>1 DEF RssInv, Steps
<1>4. \A i \in 1 .. n : y[i] \in Int
  BY <1>1, SampleTypes
<1>5. ASSUME \A i \in Steps : Rise(i) >= 0 PROVE Ascends(y)
  <2>1. ASSUME NEW i \in 1 .. n - 1 PROVE y[i] <= y[i + 1]
    <3>1. y[i + 1] - y[i] >= 0 /\ i \in 1 .. n /\ i + 1 \in 1 .. n
      BY <1>1, <1>3, <1>5 DEF Rise
    <3> QED BY <1>4, <3>1
  <2> QED BY <1>1, <2>1 DEF Ascends
<1>6. ASSUME \A i \in Steps : Rise(i) >= 0, \A i, j \in Steps : i < j => Rise(i) * Wait(j) <= Rise(j) * Wait(i)
      PROVE  verdict = "LEAK"
  <2>1. \A i, j \in 1 .. n - 1 : i < j => Steeper(t, y, i, j)
    BY <1>1, <1>3, <1>6 DEF Rise, Wait, Steeper
  <2>2. ~ F
    BY <1>1, <1>3, <1>5, <1>6, <2>1, LeakFound
  <2> QED BY <1>2, <1>5, <1>6, <2>2
<1>7. ASSUME \A i \in Steps : Rise(i) >= 0 /\ (i >= Len(rss) \div 2 => Rise(i) = 0)
      PROVE  verdict = "PLATEAU"
  <2>1. ASSUME NEW i \in 1 .. n - 1, i >= n \div 2 PROVE y[i] = y[i + 1]
    <3>1. y[i + 1] - y[i] = 0 /\ i \in 1 .. n /\ i + 1 \in 1 .. n
      BY <1>1, <1>3, <1>7, <2>1 DEF Rise
    <3> QED BY <1>4, <3>1
  <2>2. F
    BY <1>1, <1>3, <1>5, <1>7, <2>1, PlateauFound
  <2> QED BY <1>2, <1>5, <1>7, <2>2
<1> QED BY <1>6, <1>7

(* classify() of rss_leak_detector.py is right about growth that never      *)
(* slows down and about growth that has stopped by the middle.              *)
THEOREM TrendsJudged == RssSpec => []TrendJudged
<1>1. RssInit => RssInv
  BY DEF RssInit, RssInv, Judged, Rises
<1> QED BY <1>1, RssStep, RssJudged, PTL DEF RssSpec
=============================================================================
