---------------------------- MODULE TokenBucket ----------------------------
(***************************************************************************)
(* TokenBucket of rate_limiter.py.  allow() holds the lock from the        *)
(* reading of the clock to the verdict, so a call is one step; time passes *)
(* between calls.  Tokens and times are whole numbers of a unit small      *)
(* enough for the rate and the costs at hand.                              *)
(*                                                                         *)
(* Two auditors watch the bucket.  One starts counting at an arbitrary     *)
(* moment, so that what it says holds for every window of time.  The other *)
(* counts since the bucket was last seen full.                             *)
(***************************************************************************)
EXTENDS Clock

CONSTANTS
  Rate,       \* self.rate, tokens per tick
  BucketCapacity,   \* self.capacity
  Costs       \* the costs that allow() is called with

ASSUME BucketAssumption ==
  /\ Rate \in Nat
  /\ BucketCapacity \in Nat
  /\ Costs \subseteq Nat

VARIABLES
  tokens, last,      \* self._tokens, self._last
  from, spent,       \* auditor: when it started, tokens spent since
  fullAt, sinceFull  \* auditor: when the bucket was last full, spent since

bucket == <<tokens, last>>
bucketVars == <<now, bucket, from, spent, fullAt, sinceFull>>

BucketInit ==
  /\ now = 0
  /\ tokens = BucketCapacity
  /\ last = 0
  /\ from = 0 /\ spent = 0
  /\ fullAt = 0 /\ sinceFull = 0

-----------------------------------------------------------------------------
(* Seeded faults.                                                           *)

\* one token per call may be borrowed
Bug_Enough(n, c) == n + 1 >= c

-----------------------------------------------------------------------------
\* min(self.capacity, ...)
Cap(n) == IF n > BucketCapacity THEN BucketCapacity ELSE n

\* _refill(): what the bucket holds now.
Refilled == Cap(tokens + (now - last) * Rate)

\* The second auditor starts afresh when it sees the bucket full.
Watch(cost) ==
  IF Refilled = BucketCapacity
  THEN fullAt' = now /\ sinceFull' = cost
  ELSE fullAt' = fullAt /\ sinceFull' = sinceFull + cost

\* self._tokens >= cost
Enough(n, c) == n >= c

\* allow(c) returns True ...
Allow(c) ==
  /\ Enough(Refilled, c)
  /\ last' = now
  /\ tokens' = Refilled - c
  /\ spent' = spent + c
  /\ Watch(c)
  /\ UNCHANGED <<now, from>>

\* Seeded fault: a denied call takes the time but not the refill.
Bug_Deny(c) ==
  /\ ~Enough(Refilled, c)
  /\ last' = now
  /\ Watch(0)
  /\ UNCHANGED <<now, tokens, from, spent>>

\* ... or False.
Deny(c) ==
  /\ ~Enough(Refilled, c)
  /\ last' = now
  /\ tokens' = Refilled
  /\ Watch(0)
  /\ UNCHANGED <<now, from, spent>>

Tick ==
  /\ now < MaxTime
  /\ now' = now + 1
  /\ UNCHANGED <<bucket, from, spent, fullAt, sinceFull>>

\* The first auditor starts, once.
StartAudit ==
  /\ from = 0
  /\ from' = now
  /\ spent' = 0
  /\ UNCHANGED <<now, bucket, fullAt, sinceFull>>

BucketNext == Tick \/ StartAudit \/ \E c \in Costs : Allow(c) \/ Deny(c)

BucketSpec == BucketInit /\ [][BucketNext]_bucketVars

-----------------------------------------------------------------------------
(* Type invariant.                                                          *)
BucketTypeOK ==
  /\ now \in 0 .. MaxTime
  /\ tokens \in 0 .. BucketCapacity
  /\ last \in 0 .. now
  /\ from \in 0 .. now
  /\ spent \in Nat
  /\ fullAt \in 0 .. last
  /\ sinceFull \in Nat

(* "ALLOWS BURSTS up to the bucket size while enforcing a long-run average  *)
(* rate" (lines 17-18): over every window of time the allowed calls cost at *)
(* most one bucket plus what the rate yields.                               *)
RateBound == spent <= BucketCapacity + Rate * (now - from)

(* The inductive form: what could still be spent at once is included.       *)
RateBoundInductive == spent + Refilled <= BucketCapacity + Rate * (now - from)

(* The limiter is not stricter than it says: since the bucket was last full *)
(* every token that accrued was spent or is still there, whatever calls     *)
(* were denied in between and however often refills were interrupted.       *)
NoTokenLost ==
  tokens + Rate * (now - last) = BucketCapacity - sinceFull + Rate * (now - fullAt)
=============================================================================
