---------------------------- MODULE EdgeLimiter ----------------------------
(***************************************************************************)
(* TokenBucket of token_bucket_ratelimiter.py.  Unlike the bucket of       *)
(* rate_limiter.py it has no lock and takes the time of a call from its    *)
(* caller: the calls' times may go backwards, and _refill() credits only a *)
(* time later than the last one it has seen.                               *)
(***************************************************************************)
EXTENDS Integers

CONSTANTS
  EdgeRate,       \* self.rate, tokens per tick
  EdgeCapacity,   \* self.capacity
  EdgeCosts,      \* the costs that allow() is called with
  MaxNow,         \* bound: the times that callers pass are 0 .. MaxNow
  MaxGranted      \* bound: no call once this much has been granted

ASSUME EdgeAssumption ==
  /\ EdgeRate \in Nat /\ EdgeCapacity \in Nat /\ MaxNow \in Nat /\ MaxGranted \in Nat
  /\ EdgeCosts \subseteq Nat

VARIABLES
  edgeTokens,     \* self.tokens
  edgeLast,       \* self.last
  granted,        \* history: what all the calls have been granted
  latestCall      \* history: the latest time of a call

edgeVars == <<edgeTokens, edgeLast, granted, latestCall>>

EdgeInit ==
  /\ edgeTokens = EdgeCapacity
  /\ edgeLast = 0
  /\ granted = 0
  /\ latestCall = 0

\* the last time follows the caller's clock backwards
Bug_NextLast(now) == now

EdgeLesser(a, b) == IF a <= b THEN a ELSE b

\* _refill(): the tokens and the last time after it
EdgeRefilled(now) ==
  IF now > edgeLast THEN EdgeLesser(EdgeCapacity, edgeTokens + (now - edgeLast) * EdgeRate)
  ELSE edgeTokens
NextLast(now) == IF now > edgeLast THEN now ELSE edgeLast

EdgeAllow(cost, now) ==
  /\ granted < MaxGranted
  /\ edgeLast' = NextLast(now)
  /\ latestCall' = IF now > latestCall THEN now ELSE latestCall
  /\ IF EdgeRefilled(now) >= cost
     THEN edgeTokens' = EdgeRefilled(now) - cost /\ granted' = granted + cost
     ELSE edgeTokens' = EdgeRefilled(now) /\ UNCHANGED granted

EdgeNext == \E cost \in EdgeCosts, now \in 0 .. MaxNow : EdgeAllow(cost, now)

EdgeSpec == EdgeInit /\ [][EdgeNext]_edgeVars

-----------------------------------------------------------------------------
(* The limit that the demonstration asserts for one clock (lines 161-183),  *)
(* for callers whose clocks disagree: whatever times they pass, all they    *)
(* have been granted is at most the burst plus what the rate yields up to   *)
(* the latest of these times.                                               *)
EdgeBound == granted + edgeTokens <= EdgeCapacity + latestCall * EdgeRate
=============================================================================
