-------------------------- MODULE ProducerConsumer --------------------------
(***************************************************************************)
(* run_with_raw_buffer() of producer_consumer.py: producer threads put     *)
(* their numbers into a RawBoundedBuffer, consumer threads take them out,  *)
(* and the main thread joins the producers, puts one poison pill per       *)
(* consumer and joins the consumers.  The steps of put() and get() are     *)
(* those of BoundedBuffer, whose own Next (bounded by MaxPuts) is not used *)
(* here.  StdlibProgram completes the program.                             *)
(***************************************************************************)
EXTENDS BoundedBuffer

CONSTANTS
  NumProducers, \* num_producers; the producers' ids are 0 .. NumProducers - 1
  PerProducer,  \* per_producer
  Consumers,    \* the consumer threads
  Main,         \* the thread that runs run_with_raw_buffer()
  DONE          \* _DONE, the poison pill

Producers == 0 .. NumProducers - 1
Data == 0 .. NumProducers * PerProducer - 1

ASSUME ProgramAssumption ==
  /\ NumProducers \in Nat /\ PerProducer \in Nat
  /\ IsFiniteSet(Consumers) /\ Consumers # {}
  /\ Producers \cap Consumers = {} /\ Main \notin Producers \cup Consumers
  /\ Threads = Producers \cup Consumers \cup {Main}
  /\ DONE \notin Data
  /\ Items = Data \cup {DONE}

VARIABLES
  i,          \* i[p]: the loop variable of producer p
  pills,      \* how many pills main has handed to put()
  consumed,   \* the shared list
  returned    \* the threads whose function has returned

progVars == <<i, pills, consumed, returned>>
allVars == <<vars, progVars>>

ProgInit ==
  /\ Init
  /\ i = [p \in Producers |-> 0]
  /\ pills = 0
  /\ consumed = << >>
  /\ returned = {}

Idle(t) == pc[t] = "idle" /\ t \notin returned

-----------------------------------------------------------------------------
(* Seeded faults.                                                           *)

\* the pills are put without joining the producers first
Bug_ProducersJoined == TRUE

\* one pill for all the consumers
Bug_PillsNeeded == 1

-----------------------------------------------------------------------------
\* pid * per_producer + i
Encode(p, k) == p * PerProducer + k

Produce(p) ==
  /\ Idle(p)
  /\ i[p] < PerProducer
  /\ CallPut(p, Encode(p, i[p]))
  /\ i' = [i EXCEPT ![p] = @ + 1]
  /\ UNCHANGED <<pills, consumed, returned>>

ProducerReturn(p) ==
  /\ Idle(p)
  /\ i[p] = PerProducer
  /\ returned' = returned \cup {p}
  /\ UNCHANGED <<vars, i, pills, consumed>>

Consume(c) ==
  /\ Idle(c)
  /\ CallGet(c)
  /\ UNCHANGED progVars

\* with consumed_lock: consumed.append(item)
Record(c) ==
  /\ hand[c] # DONE
  /\ GetReturn(c)
  /\ consumed' = Append(consumed, hand[c])
  /\ UNCHANGED <<i, pills, returned>>

\* if item is _DONE: return
ConsumerReturn(c) ==
  /\ hand[c] = DONE
  /\ GetReturn(c)
  /\ returned' = returned \cup {c}
  /\ UNCHANGED <<i, pills, consumed>>

\* for t in producers: t.join()
ProducersJoined == Producers \subseteq returned

\* for _ in consumers
PillsNeeded == Cardinality(Consumers)

PutPill ==
  /\ ProducersJoined
  /\ Idle(Main)
  /\ pills < PillsNeeded
  /\ CallPut(Main, DONE)
  /\ pills' = pills + 1
  /\ UNCHANGED <<i, consumed, returned>>

MainReturn ==
  /\ Idle(Main)
  /\ pills = PillsNeeded
  /\ Consumers \subseteq returned
  /\ returned' = returned \cup {Main}
  /\ UNCHANGED <<vars, i, pills, consumed>>

-----------------------------------------------------------------------------
BufferStep(t) == (PutStep(t) \/ GetStep(t)) /\ UNCHANGED progVars

ProducerNext(p) == Produce(p) \/ ProducerReturn(p) \/ BufferStep(p)
ConsumerNext(c) == Consume(c) \/ Record(c) \/ ConsumerReturn(c) \/ BufferStep(c)
MainNext == PutPill \/ MainReturn \/ BufferStep(Main)

-----------------------------------------------------------------------------
(* verify(), lines 155-162: when the run returns, every number was          *)
(* consumed exactly once, and the buffer holds neither data nor pills.      *)
Verified ==
  Main \in returned =>
    /\ buf = << >>
    /\ {consumed[k] : k \in DOMAIN consumed} = Data
    /\ Len(consumed) = NumProducers * PerProducer
=============================================================================
