---------------------------- MODULE BoundedBuffer ----------------------------
(***************************************************************************)
(* RawBoundedBuffer of producer_consumer.py: a deque guarded by one mutex  *)
(* and two condition variables that share it.  put() and get() are split   *)
(* at every point where another thread can run: the acquisition of the     *)
(* mutex, the sleep in wait() (which releases it), the change of the deque *)
(* and the notify() that ends the critical section.                        *)
(*                                                                         *)
(* threading.Condition is the library's: wait() queues the caller and      *)
(* releases the mutex in one step, notify() wakes the caller that waited   *)
(* longest, and a woken caller must take the mutex again before it goes on.*)
(***************************************************************************)
EXTENDS Naturals, Sequences, FiniteSets

CONSTANTS
  Threads,    \* the threads that share the buffer
  Items,      \* the values that may be put
  Capacity,   \* self.capacity
  MaxPuts,    \* bound: Next starts a put() only while fewer values were put
  NoThread,   \* the owner of a free mutex
  NoItem      \* the hand of a thread that holds no argument and no result

ASSUME BufferAssumption ==
  /\ Capacity \in Nat \ {0}
  /\ MaxPuts \in Nat
  /\ IsFiniteSet(Threads)
  /\ NoThread \notin Threads
  /\ NoItem \notin Items

VARIABLES
  buf,        \* self._buf
  lock,       \* the owner of self._lock
  notFull,    \* threads asleep in self._not_full.wait(), oldest first
  notEmpty,   \* threads asleep in self._not_empty.wait(), oldest first
  pc,         \* where each thread is
  hand,       \* the argument of a thread's put(), the result of its get()
  puts, gets  \* history: the values appended and popped, in order

vars == <<buf, lock, notFull, notEmpty, pc, hand, puts, gets>>

PutPC == {"p_enter", "p_test", "p_append", "p_notify", "p_wait"}
GetPC == {"g_enter", "g_test", "g_pop", "g_notify", "g_wait", "g_return"}

\* Where a thread holds the mutex.
Locked == {"p_test", "p_append", "p_notify", "g_test", "g_pop", "g_notify"}

Init ==
  /\ buf = << >>
  /\ lock = NoThread
  /\ notFull = << >>
  /\ notEmpty = << >>
  /\ pc = [t \in Threads |-> "idle"]
  /\ hand = [t \in Threads |-> NoItem]
  /\ puts = << >>
  /\ gets = << >>

-----------------------------------------------------------------------------
(* Seeded faults: plausible mistakes in put() and get(), each the body of   *)
(* the definition of the same name without the prefix.                      *)

\* "> capacity" instead of ">= capacity"
Bug_Full == Len(buf) > Capacity

\* notify() only when the buffer leaves its empty (or, at two, its full) state
Bug_Woken(waiters) ==
  IF waiters = << >> \/ Len(buf) # 1 THEN {} ELSE {Head(waiters)}

-----------------------------------------------------------------------------
(* put()                                                                    *)

Full == Len(buf) >= Capacity

\* The thread that notify() wakes: the one that has waited longest, if any.
Woken(waiters) == IF waiters = << >> THEN {} ELSE {Head(waiters)}

\* The waiters that are left once notify() has woken the threads in ws.
StillAsleep(waiters, ws) == IF ws = {} THEN waiters ELSE Tail(waiters)

CallPut(t, v) ==
  /\ pc[t] = "idle"
  /\ pc' = [pc EXCEPT ![t] = "p_enter"]
  /\ hand' = [hand EXCEPT ![t] = v]
  /\ UNCHANGED <<buf, lock, notFull, notEmpty, puts, gets>>

\* with self._not_full: takes the mutex, the first time or after wait().
PutEnter(t) ==
  /\ pc[t] = "p_enter"
  /\ lock = NoThread
  /\ lock' = t
  /\ pc' = [pc EXCEPT ![t] = "p_test"]
  /\ UNCHANGED <<buf, notFull, notEmpty, hand, puts, gets>>

\* while len(self._buf) >= self.capacity: the test fails ...
PutGo(t) ==
  /\ pc[t] = "p_test"
  /\ ~Full
  /\ pc' = [pc EXCEPT ![t] = "p_append"]
  /\ UNCHANGED <<buf, lock, notFull, notEmpty, hand, puts, gets>>

\* ... or holds, and self._not_full.wait() sleeps and gives the mutex back.
PutWait(t) ==
  /\ pc[t] = "p_test"
  /\ Full
  /\ notFull' = Append(notFull, t)
  /\ lock' = NoThread
  /\ pc' = [pc EXCEPT ![t] = "p_wait"]
  /\ UNCHANGED <<buf, notEmpty, hand, puts, gets>>

PutAppend(t) ==
  /\ pc[t] = "p_append"
  /\ buf' = Append(buf, hand[t])
  /\ puts' = Append(puts, hand[t])
  /\ pc' = [pc EXCEPT ![t] = "p_notify"]
  /\ UNCHANGED <<lock, notFull, notEmpty, hand, gets>>

\* self._not_empty.notify(), then the with block gives the mutex back.
PutNotify(t) ==
  /\ pc[t] = "p_notify"
  /\ LET ws == Woken(notEmpty) IN
       /\ notEmpty' = StillAsleep(notEmpty, ws)
       /\ pc' = [u \in Threads |-> IF u = t THEN "idle"
                                   ELSE IF u \in ws THEN "g_enter"
                                   ELSE pc[u]]
  /\ lock' = NoThread
  /\ hand' = [hand EXCEPT ![t] = NoItem]
  /\ UNCHANGED <<buf, notFull, puts, gets>>

-----------------------------------------------------------------------------
(* get()                                                                    *)

CallGet(t) ==
  /\ pc[t] = "idle"
  /\ pc' = [pc EXCEPT ![t] = "g_enter"]
  /\ UNCHANGED <<buf, lock, notFull, notEmpty, hand, puts, gets>>

GetEnter(t) ==
  /\ pc[t] = "g_enter"
  /\ lock = NoThread
  /\ lock' = t
  /\ pc' = [pc EXCEPT ![t] = "g_test"]
  /\ UNCHANGED <<buf, notFull, notEmpty, hand, puts, gets>>

GetGo(t) ==
  /\ pc[t] = "g_test"
  /\ buf # << >>
  /\ pc' = [pc EXCEPT ![t] = "g_pop"]
  /\ UNCHANGED <<buf, lock, notFull, notEmpty, hand, puts, gets>>

GetWait(t) ==
  /\ pc[t] = "g_test"
  /\ buf = << >>
  /\ notEmpty' = Append(notEmpty, t)
  /\ lock' = NoThread
  /\ pc' = [pc EXCEPT ![t] = "g_wait"]
  /\ UNCHANGED <<buf, notFull, hand, puts, gets>>

GetPop(t) ==
  /\ pc[t] = "g_pop"
  /\ hand' = [hand EXCEPT ![t] = Head(buf)]
  /\ gets' = Append(gets, Head(buf))
  /\ buf' = Tail(buf)
  /\ pc' = [pc EXCEPT ![t] = "g_notify"]
  /\ UNCHANGED <<lock, notFull, notEmpty, puts>>

GetNotify(t) ==
  /\ pc[t] = "g_notify"
  /\ LET ws == Woken(notFull) IN
       /\ notFull' = StillAsleep(notFull, ws)
       /\ pc' = [u \in Threads |-> IF u = t THEN "g_return"
                                   ELSE IF u \in ws THEN "p_enter"
                                   ELSE pc[u]]
  /\ lock' = NoThread
  /\ UNCHANGED <<buf, notEmpty, hand, puts, gets>>

\* The caller takes the result and may call again.
GetReturn(t) ==
  /\ pc[t] = "g_return"
  /\ pc' = [pc EXCEPT ![t] = "idle"]
  /\ hand' = [hand EXCEPT ![t] = NoItem]
  /\ UNCHANGED <<buf, lock, notFull, notEmpty, puts, gets>>

-----------------------------------------------------------------------------
PutStep(t) ==
  PutEnter(t) \/ PutGo(t) \/ PutWait(t) \/ PutAppend(t) \/ PutNotify(t)

GetStep(t) ==
  GetEnter(t) \/ GetGo(t) \/ GetWait(t) \/ GetPop(t) \/ GetNotify(t)

\* The most general client: any thread may call put() or get() at any time.
Next ==
  \E t \in Threads :
    \/ Len(puts) < MaxPuts /\ \E v \in Items : CallPut(t, v)
    \/ CallGet(t)
    \/ PutStep(t)
    \/ GetStep(t)
    \/ GetReturn(t)

Spec == Init /\ [][Next]_vars

-----------------------------------------------------------------------------
(* Type invariant: every variable of the buffer has its type.               *)
TypeOK ==
  /\ buf \in Seq(Items)
  /\ lock \in Threads \cup {NoThread}
  /\ notFull \in Seq(Threads)
  /\ notEmpty \in Seq(Threads)
  /\ pc \in [Threads -> {"idle"} \cup PutPC \cup GetPC]
  /\ hand \in [Threads -> Items \cup {NoItem}]
  /\ puts \in Seq(Items)
  /\ gets \in Seq(Items)

(* The buffer is used under exclusion (class docstring: "the buffer is      *)
(* mutated under exclusion"): the threads between the acquisition and the   *)
(* release of the mutex, through waits and wakeups, are exactly its owner.  *)
MutualExclusion ==
  \A t \in Threads : pc[t] \in Locked <=> lock = t

(* The inductive invariant behind the theorems of ProducerConsumerProofs.   *)

\* The sleepers of a condition are distinct threads inside its wait().
Asleep(waiters, at, label) ==
  /\ \A k \in 1 .. Len(waiters) : at[waiters[k]] = label
  /\ \A k, l \in 1 .. Len(waiters) : waiters[k] = waiters[l] => k = l

\* What the loop tests established still holds when the deque is changed.
Room ==
  /\ Len(buf) <= Capacity
  /\ \A t \in Threads :
       /\ pc[t] \in PutPC => hand[t] \in Items
       /\ pc[t] = "p_append" => Len(buf) < Capacity
       /\ pc[t] = "g_pop" => buf # << >>

\* Nothing is lost, duplicated or reordered: what went in is what came out
\* followed by what is still there.
Fifo == puts = gets \o buf

IInv ==
  /\ TypeOK
  /\ MutualExclusion
  /\ Asleep(notFull, pc, "p_wait")
  /\ Asleep(notEmpty, pc, "g_wait")
  /\ Room
  /\ Fifo

-----------------------------------------------------------------------------
Count(labels) == Cardinality({t \in Threads : pc[t] \in labels})

(* No lost wakeup: while a getter sleeps in wait(), every item in the       *)
(* buffer has a thread of its own on the way to it, a getter that is awake  *)
(* or a putter that is about to notify one.  In particular no getter sleeps *)
(* next to items that nobody is coming for, though notify() wakes only one  *)
(* thread and another may overtake the one it woke.  The same for putters   *)
(* and free slots.                                                          *)
NoLostWakeup ==
  /\ notEmpty # << >> =>
       Len(buf) <= Count({"g_enter", "g_test", "g_pop", "p_notify"})
  /\ notFull # << >> =>
       Capacity - Len(buf) <= Count({"p_enter", "p_test", "p_append", "g_notify"})

Channel == INSTANCE BoundedChannel WITH sent <- puts, received <- gets

(* Refinement: through every interleaving the buffer is a FIFO channel of   *)
(* its capacity, so no item is lost, duplicated or reordered and none is    *)
(* taken from an empty buffer or added to a full one (docstring, lines      *)
(* 13-15 and 50-53).                                                        *)
ImplementsChannel == Channel!Spec
=============================================================================
