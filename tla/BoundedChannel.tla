--------------------------- MODULE BoundedChannel ---------------------------
(***************************************************************************)
(* What a bounded buffer promises its users, whatever its synchronization: *)
(* a FIFO channel that never holds more than Capacity values and delivers  *)
(* every value exactly once, in the order of the sends.                    *)
(***************************************************************************)
EXTENDS Naturals, Sequences

CONSTANTS Items,      \* the values that travel through the channel
          Capacity    \* how many may be under way

VARIABLES sent,       \* all the values sent so far
          received    \* all the values received so far

chanVars == <<sent, received>>

Init ==
  /\ sent = << >>
  /\ received = << >>

Send(v) ==
  /\ Len(sent) < Len(received) + Capacity
  /\ sent' = Append(sent, v)
  /\ UNCHANGED received

Receive ==
  /\ Len(received) < Len(sent)
  /\ received' = Append(received, sent[Len(received) + 1])
  /\ UNCHANGED sent

Next == (\E v \in Items : Send(v)) \/ Receive

Spec == Init /\ [][Next]_chanVars
=============================================================================
