--------------------------- MODULE MCDeadlockDemo ---------------------------
(* deadlock_demo.py as it stands: two threads that name two locks in        *)
(* opposite orders.                                                         *)
EXTENDS DeadlockDemo

MCRing == [t \in Threads |-> <<t, IF t + 1 \in Threads THEN t + 1 ELSE 1>>]
=============================================================================
