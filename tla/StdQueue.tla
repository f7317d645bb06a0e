------------------------------ MODULE StdQueue ------------------------------
(***************************************************************************)
(* queue.Queue of the standard library, as the programs use it: a bounded  *)
(* FIFO with a count of unfinished tasks.  Its methods are atomic; put()   *)
(* waits while the queue is full, get() while it is empty, join() while    *)
(* tasks are unfinished.                                                   *)
(***************************************************************************)
EXTENDS Naturals, Sequences

CONSTANT MaxSize      \* maxsize

ASSUME QueueAssumption == MaxSize \in Nat \ {0}

VARIABLES items,      \* the queued items, oldest first
          unfinished  \* unfinished_tasks

queueVars == <<items, unfinished>>

QueueInit == items = << >> /\ unfinished = 0

QueuePut(v) ==
  /\ Len(items) < MaxSize
  /\ items' = Append(items, v)
  /\ unfinished' = unfinished + 1

\* The value that get() returns is Head(items).
QueueGet ==
  /\ items # << >>
  /\ items' = Tail(items)
  /\ UNCHANGED unfinished

QueueTaskDone ==
  /\ unfinished' = unfinished - 1
  /\ UNCHANGED items

QueueJoined == unfinished = 0
=============================================================================
