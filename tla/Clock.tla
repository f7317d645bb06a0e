------------------------------- MODULE Clock -------------------------------
(* time.monotonic() in whole ticks, read by the rate limiters.              *)
EXTENDS Integers

CONSTANT MaxTime    \* bound: the clock stops here

ASSUME ClockAssumption == MaxTime \in Nat

VARIABLE now
=============================================================================
