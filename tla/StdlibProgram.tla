--------------------------- MODULE StdlibProgram ---------------------------
(***************************************************************************)
(* main() of producer_consumer.py: run_with_raw_buffer() and, when it has  *)
(* returned, run_with_stdlib_queue(), the same work on a queue.Queue.  The *)
(* second run has threads, a list and a queue of its own.                  *)
(***************************************************************************)
EXTENDS ProducerConsumer, StdQueue

VARIABLES
  sent,       \* sent[p]: the loop variable of producer p
  item,       \* item[c]: the local variable of consumer c; NoItem before get()
  kept,       \* the consumers that are done with their item, in finally
  qPills,     \* how many pills main has put
  qConsumed,  \* the shared list
  qReturned   \* the threads of the second run that have returned

stdVars == <<queueVars, sent, item, kept, qPills, qConsumed, qReturned>>

StdInit ==
  /\ QueueInit
  /\ sent = [p \in Producers |-> 0]
  /\ item = [c \in Consumers |-> NoItem]
  /\ kept = {}
  /\ qPills = 0
  /\ qConsumed = << >>
  /\ qReturned = {}

-----------------------------------------------------------------------------
StdProduce(p) ==
  /\ sent[p] < PerProducer
  /\ QueuePut(Encode(p, sent[p]))
  /\ sent' = [sent EXCEPT ![p] = @ + 1]
  /\ UNCHANGED <<item, kept, qPills, qConsumed, qReturned>>

StdProducerReturn(p) ==
  /\ sent[p] = PerProducer /\ p \notin qReturned
  /\ qReturned' = qReturned \cup {p}
  /\ UNCHANGED <<queueVars, sent, item, kept, qPills, qConsumed>>

StdGet(c) ==
  /\ item[c] = NoItem /\ c \notin qReturned
  /\ QueueGet
  /\ item' = [item EXCEPT ![c] = Head(items)]
  /\ UNCHANGED <<sent, kept, qPills, qConsumed, qReturned>>

\* The body of the try: a pill leaves it at once.
StdKeep(c) ==
  /\ item[c] # NoItem /\ c \notin kept
  /\ kept' = kept \cup {c}
  /\ qConsumed' = IF item[c] = DONE THEN qConsumed ELSE Append(qConsumed, item[c])
  /\ UNCHANGED <<queueVars, sent, item, qPills, qReturned>>

StdTaskDone(c) == QueueTaskDone

StdFinally(c) ==
  /\ c \in kept
  /\ StdTaskDone(c)
  /\ kept' = kept \ {c}
  /\ item' = [item EXCEPT ![c] = NoItem]
  /\ qReturned' = IF item[c] = DONE THEN qReturned \cup {c} ELSE qReturned
  /\ UNCHANGED <<sent, qPills, qConsumed>>

StdPutPill ==
  /\ Producers \subseteq qReturned
  /\ qPills < Cardinality(Consumers)
  /\ QueuePut(DONE)
  /\ qPills' = qPills + 1
  /\ UNCHANGED <<sent, item, kept, qConsumed, qReturned>>

StdReturn ==
  /\ qPills = Cardinality(Consumers)
  /\ Consumers \subseteq qReturned /\ Main \notin qReturned
  /\ qReturned' = qReturned \cup {Main}
  /\ UNCHANGED <<queueVars, sent, item, kept, qPills, qConsumed>>

StdProducer(p) == StdProduce(p) \/ StdProducerReturn(p)
StdConsumer(c) == StdGet(c) \/ StdKeep(c) \/ StdFinally(c)
StdMain == StdPutPill \/ StdReturn

-----------------------------------------------------------------------------
(* main(): the second run begins when the first has returned.               *)
everything == <<allVars, stdVars>>

MainInit == ProgInit /\ StdInit

InRaw(step) == Main \notin returned /\ step /\ UNCHANGED stdVars
InStd(step) == Main \in returned /\ step /\ UNCHANGED allVars

Ended == Main \in qReturned /\ UNCHANGED everything

MainProgNext ==
  \/ \E p \in Producers : InRaw(ProducerNext(p)) \/ InStd(StdProducer(p))
  \/ \E c \in Consumers : InRaw(ConsumerNext(c)) \/ InStd(StdConsumer(c))
  \/ InRaw(MainNext) \/ InStd(StdMain)
  \/ Ended

(* A thread that can run is eventually scheduled: weak fairness per thread. *)
(* Locks and queues need no more: the program makes finitely many calls, so *)
(* the other threads cannot take them from a waiting one for ever.          *)
MainFairness ==
  /\ \A p \in Producers : WF_everything(InRaw(ProducerNext(p))) /\ WF_everything(InStd(StdProducer(p)))
  /\ \A c \in Consumers : WF_everything(InRaw(ConsumerNext(c))) /\ WF_everything(InStd(StdConsumer(c)))
  /\ WF_everything(InRaw(MainNext)) /\ WF_everything(InStd(StdMain))

MainSpec == MainInit /\ [][MainProgNext]_everything /\ MainFairness

-----------------------------------------------------------------------------
(* verify() of the second run (line 181), and the promise of the finally    *)
(* clause (line 140): when the run returns every number was consumed        *)
(* exactly once and a join() of the queue would not wait, for the pills     *)
(* were marked done too.                                                    *)
StdVerified ==
  Main \in qReturned =>
    /\ items = << >> /\ QueueJoined
    /\ {qConsumed[k] : k \in DOMAIN qConsumed} = Data
    /\ Len(qConsumed) = NumProducers * PerProducer

(* Both runs of main() pass verify().                                       *)
RunsVerified == Verified /\ StdVerified

\* main() has ended.
MainDone == Main \in qReturned
=============================================================================
