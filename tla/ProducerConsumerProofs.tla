----------------------- MODULE ProducerConsumerProofs -----------------------
(***************************************************************************)
(* RawBoundedBuffer is correct for any threads, items and capacity: the    *)
(* inductive invariant IInv, mutual exclusion, no lost wakeup, and the     *)
(* refinement of the FIFO channel BoundedChannel.  On it, and on a         *)
(* queue.Queue, both runs of producer_consumer.py pass verify() for any    *)
(* number of producers, numbers and consumers.                             *)
(***************************************************************************)
EXTENDS StdlibProgram, SequenceTheorems, FiniteSetTheorems, TLAPS

-----------------------------------------------------------------------------
(* Facts about sequences.                                                   *)

\* notify() on a non-empty queue: the oldest waiter leaves, the rest move up.
LEMMA TailFacts ==
  ASSUME NEW S, NEW s \in Seq(S), s # << >>
  PROVE  /\ Len(s) \in Nat \ {0}
         /\ Head(s) = s[1] /\ Head(s) \in S
         /\ Tail(s) \in Seq(S)
         /\ Len(Tail(s)) = Len(s) - 1
         /\ \A k \in 1 .. Len(s) - 1 : Tail(s)[k] = s[k + 1]
  BY HeadTailProperties, EmptySeq, LenProperties

LEMMA AppendFacts ==
  ASSUME NEW S, NEW s \in Seq(S), NEW e \in S
  PROVE  /\ Append(s, e) \in Seq(S) /\ Append(s, e) # << >>
         /\ Len(s) \in Nat /\ Len(Append(s, e)) = Len(s) + 1
  BY AppendProperties, LenProperties, EmptySeq

\* Appending on both sides of puts = gets \o buf keeps the equation.
LEMMA AppendConcat ==
  ASSUME NEW S, NEW s \in Seq(S), NEW r \in Seq(S), NEW e \in S
  PROVE  Append(s \o r, e) = s \o Append(r, e)
  <1>1. /\ s \o r \in Seq(S) /\ Append(s \o r, e) \in Seq(S)
        /\ Append(r, e) \in Seq(S) /\ s \o Append(r, e) \in Seq(S)
    BY ConcatProperties, AppendProperties
  <1>2. /\ Len(Append(s \o r, e)) = Len(s) + Len(r) + 1
        /\ Len(s \o Append(r, e)) = Len(s) + Len(r) + 1
    BY <1>1, ConcatProperties, AppendProperties, LenProperties
  <1>3. ASSUME NEW k \in 1 .. Len(Append(s \o r, e))
        PROVE  Append(s \o r, e)[k] = (s \o Append(r, e))[k]
    BY <1>1, <1>2, ConcatProperties, AppendProperties, LenProperties
  <1> QED
    BY <1>1, <1>2, <1>3, SeqEqual

\* Moving the head of the right part to the end of the left part.
LEMMA HeadMoves ==
  ASSUME NEW S, NEW s \in Seq(S), NEW r \in Seq(S), r # << >>
  PROVE  /\ s \o r = Append(s, Head(r)) \o Tail(r)
         /\ Len(s) < Len(s \o r)
         /\ (s \o r)[Len(s) + 1] = Head(r)
  <1> DEFINE u == Append(s, Head(r))
  <1>1. /\ Head(r) \in S /\ Tail(r) \in Seq(S) /\ Head(r) = r[1]
        /\ Len(r) \in Nat \ {0} /\ Len(Tail(r)) = Len(r) - 1
        /\ \A k \in 1 .. Len(r) - 1 : Tail(r)[k] = r[k + 1]
    BY TailFacts
  <1>2. /\ u \in Seq(S) /\ Len(u) = Len(s) + 1 /\ u[Len(s) + 1] = Head(r)
        /\ \A k \in 1 .. Len(s) : u[k] = s[k]
        /\ Len(s) \in Nat
    BY <1>1, AppendProperties, LenProperties
  <1>3. /\ s \o r \in Seq(S) /\ Len(s \o r) = Len(s) + Len(r)
        /\ \A k \in 1 .. Len(s) + Len(r) :
             (s \o r)[k] = IF k <= Len(s) THEN s[k] ELSE r[k - Len(s)]
    BY ConcatProperties
  <1> HIDE DEF u
  <1>4. /\ u \o Tail(r) \in Seq(S) /\ Len(u \o Tail(r)) = Len(u) + Len(Tail(r))
        /\ \A k \in 1 .. Len(u) + Len(Tail(r)) :
             (u \o Tail(r))[k] = IF k <= Len(u) THEN u[k] ELSE Tail(r)[k - Len(u)]
    BY <1>1, <1>2, ConcatProperties
  <1>5. Len(u \o Tail(r)) = Len(s \o r)
    BY <1>1, <1>2, <1>3, <1>4
  <1>6. ASSUME NEW k \in 1 .. Len(s \o r)
        PROVE  (s \o r)[k] = (u \o Tail(r))[k]
    <2>1. CASE k <= Len(s)
      BY <1>1, <1>2, <1>3, <1>4, <2>1
    <2>2. CASE k = Len(s) + 1
      BY <1>1, <1>2, <1>3, <1>4, <2>2
    <2>3. CASE k > Len(s) + 1
      <3>1. k - Len(s) - 1 \in 1 .. Len(r) - 1
        BY <1>1, <1>2, <1>3, <2>3
      <3>2. Tail(r)[k - Len(s) - 1] = r[k - Len(s)]
        BY <1>1, <1>2, <3>1
      <3> QED
        BY <1>1, <1>2, <1>3, <1>4, <2>3, <3>2
    <2> QED
      BY <1>2, <1>3, <2>1, <2>2, <2>3
  <1>7. s \o r = u \o Tail(r)
    BY <1>3, <1>4, <1>5, <1>6, SeqEqual
  <1>8. Len(s) < Len(s \o r) /\ (s \o r)[Len(s) + 1] = Head(r)
    BY <1>1, <1>2, <1>3
  <1> QED
    BY <1>7, <1>8 DEF u

-----------------------------------------------------------------------------
(* The inductive invariant.                                                 *)

LEMMA InitIInv == Init => IInv
  <1> SUFFICES ASSUME Init PROVE IInv
    OBVIOUS
  <1> USE BufferAssumption DEF Init
  <1>1. TypeOK
    BY DEF TypeOK
  <1>2. MutualExclusion
    BY DEF MutualExclusion, Locked
  <1>3. Asleep(notFull, pc, "p_wait") /\ Asleep(notEmpty, pc, "g_wait")
    BY DEF Asleep
  <1>4. Room
    BY DEF Room, PutPC
  <1>5. Fifo
    BY DEF Fifo
  <1> QED
    BY <1>1, <1>2, <1>3, <1>4, <1>5 DEF IInv

\* A thread that joins the sleepers of a condition.
LEMMA FallAsleep ==
  ASSUME NEW w \in Seq(Threads), NEW t \in Threads, NEW p, NEW q, NEW label,
         Asleep(w, p, label),
         p[t] # label, q[t] = label,
         \A u \in Threads : u # t => q[u] = p[u]
  PROVE  Asleep(Append(w, t), q, label)
  <1>1. /\ Len(Append(w, t)) = Len(w) + 1 /\ Len(w) \in Nat
        /\ Append(w, t)[Len(w) + 1] = t
        /\ \A k \in 1 .. Len(w) : Append(w, t)[k] = w[k] /\ w[k] \in Threads
    BY AppendProperties, LenProperties, ElementOfSeq
  <1>2. \A k \in 1 .. Len(w) : w[k] # t /\ q[w[k]] = label
    BY <1>1 DEF Asleep
  <1>3. \A k \in 1 .. Len(w) + 1 : k \in 1 .. Len(w) \/ k = Len(w) + 1
    BY <1>1
  <1> QED
    BY <1>1, <1>2, <1>3 DEF Asleep

\* A notify(): the oldest sleeper, if any, is awake and the rest still sleep.
LEMMA WakeUp ==
  ASSUME NEW w \in Seq(Threads), NEW ws, NEW r, NEW p, NEW q, NEW label,
         ws = Woken(w), r = StillAsleep(w, ws),
         Asleep(w, p, label),
         \A u \in Threads : p[u] = label /\ u \notin ws => q[u] = label
  PROVE  /\ r \in Seq(Threads)
         /\ \A u \in ws : u \in Threads /\ p[u] = label
         /\ Asleep(r, q, label)
  <1>1. CASE w = << >>
    BY <1>1 DEF Woken, StillAsleep, Asleep
  <1>2. CASE w # << >>
    <2>1. /\ w[1] \in Threads /\ Head(w) = w[1] /\ Len(w) \in Nat \ {0}
          /\ Tail(w) \in Seq(Threads) /\ Len(Tail(w)) = Len(w) - 1
          /\ \A k \in 1 .. Len(w) - 1 : Tail(w)[k] = w[k + 1]
      BY <1>2, TailFacts
    <2>2. ws = {w[1]}
      BY <1>2, <2>1 DEF Woken
    <2>3. r = Tail(w)
      BY <2>2 DEF StillAsleep
    <2>4. \A k \in 1 .. Len(w) - 1 : w[k + 1] \in Threads /\ w[k + 1] # w[1]
      BY <2>1, ElementOfSeq DEF Asleep
    <2>5. \A k \in 1 .. Len(w) - 1 : q[Tail(w)[k]] = label
      BY <2>1, <2>2, <2>4 DEF Asleep
    <2>6. \A k, l \in 1 .. Len(w) - 1 : Tail(w)[k] = Tail(w)[l] => k = l
      BY <2>1 DEF Asleep
    <2>7. \A u \in ws : u \in Threads /\ p[u] = label
      BY <2>1, <2>2 DEF Asleep
    <2>8. Len(r) = Len(w) - 1 /\ r \in Seq(Threads)
      BY <2>1, <2>3
    <2>9. Asleep(Tail(w), q, label)
      BY <2>1, <2>5, <2>6 DEF Asleep
    <2> QED
      BY <2>3, <2>7, <2>8, <2>9
  <1> QED
    BY <1>1, <1>2

(* One lemma per action: it preserves IInv.                                 *)

LEMMA PutEnterIInv ==
  ASSUME IInv, NEW t \in Threads, PutEnter(t)
  PROVE  IInv'
  <1> USE DEF PutEnter, IInv
  <1>1. TypeOK'
    BY DEF TypeOK, PutPC
  <1>2. MutualExclusion'
    BY BufferAssumption DEF TypeOK, MutualExclusion, Locked
  <1>3. Asleep(notFull, pc, "p_wait")' /\ Asleep(notEmpty, pc, "g_wait")'
    BY ElementOfSeq DEF TypeOK, Asleep
  <1>4. Room'
    BY DEF TypeOK, Room, PutPC
  <1>5. Fifo'
    BY DEF Fifo
  <1> QED
    BY <1>1, <1>2, <1>3, <1>4, <1>5

LEMMA PutWaitIInv ==
  ASSUME IInv, NEW t \in Threads, PutWait(t)
  PROVE  IInv'
  <1> USE DEF PutWait, IInv
  <1>1. TypeOK'
    BY AppendProperties DEF TypeOK, PutPC
  <1>2. MutualExclusion'
    BY BufferAssumption DEF TypeOK, MutualExclusion, Locked
  <1>3. Asleep(notFull, pc, "p_wait")'
    BY FallAsleep DEF TypeOK, Asleep
  <1>4. Asleep(notEmpty, pc, "g_wait")'
    BY ElementOfSeq DEF TypeOK, Asleep
  <1>5. Room'
    BY DEF TypeOK, Room, PutPC
  <1>6. Fifo'
    BY DEF Fifo
  <1> QED
    BY <1>1, <1>2, <1>3, <1>4, <1>5, <1>6

LEMMA PutAppendIInv ==
  ASSUME IInv, NEW t \in Threads, PutAppend(t)
  PROVE  IInv'
  <1> USE DEF PutAppend, IInv
  <1>0. hand[t] \in Items
    BY DEF Room, PutPC
  <1>1. TypeOK'
    BY <1>0, AppendProperties DEF TypeOK, PutPC
  <1>2. MutualExclusion'
    BY DEF TypeOK, MutualExclusion, Locked
  <1>3. Asleep(notFull, pc, "p_wait")' /\ Asleep(notEmpty, pc, "g_wait")'
    BY ElementOfSeq DEF TypeOK, Asleep
  <1>4. Room'
    <2>1. Len(buf') = Len(buf) + 1 /\ Len(buf) \in Nat /\ buf' # << >>
      BY <1>0, AppendFacts DEF TypeOK
    <2>2. \A u \in Threads : pc'[u] # "p_append"
      BY DEF TypeOK, MutualExclusion, Locked
    <2> QED
      BY <2>1, <2>2, BufferAssumption DEF TypeOK, Room, PutPC
  <1>5. Fifo'
    BY <1>0, AppendConcat, SMTT(30) DEF Fifo, TypeOK
  <1> QED
    BY <1>1, <1>2, <1>3, <1>4, <1>5

LEMMA PutNotifyIInv ==
  ASSUME IInv, NEW t \in Threads, PutNotify(t)
  PROVE  IInv'
  <1> USE DEF PutNotify, IInv
  <1> DEFINE ws == Woken(notEmpty)
  <1>0. /\ notEmpty' \in Seq(Threads) /\ Asleep(notEmpty, pc, "g_wait")'
        /\ \A u \in ws : u \in Threads /\ pc[u] = "g_wait"
    <2>1. \A u \in Threads : pc[u] = "g_wait" /\ u \notin ws => pc'[u] = "g_wait"
      BY DEF TypeOK
    <2>2. notEmpty' = StillAsleep(notEmpty, ws) /\ notEmpty \in Seq(Threads)
      BY DEF TypeOK
    <2>3. ws = Woken(notEmpty)
      OBVIOUS
    <2> HIDE DEF ws, PutNotify
    <2> QED
      BY <2>1, <2>2, <2>3, WakeUp
  <1> HIDE DEF ws
  <1>1. pc' = [u \in Threads |-> IF u = t THEN "idle"
                                 ELSE IF u \in ws THEN "g_enter" ELSE pc[u]]
    BY DEF ws
  <1>2. TypeOK'
    BY <1>0, <1>1 DEF TypeOK, PutPC, GetPC
  <1>3. MutualExclusion'
    BY <1>0, <1>1, BufferAssumption DEF TypeOK, MutualExclusion, Locked
  <1>4. Asleep(notFull, pc, "p_wait")'
    <2>1. \A u \in Threads : pc[u] = "p_wait" => pc'[u] = "p_wait"
      BY <1>0, <1>1
    <2>2. notFull' = notFull /\ \A k \in 1 .. Len(notFull) : notFull[k] \in Threads
      BY ElementOfSeq DEF TypeOK
    <2> QED
      BY <2>1, <2>2 DEF Asleep
  <1>5. Room'
    BY <1>0, <1>1 DEF TypeOK, Room, PutPC
  <1>6. Fifo'
    BY DEF Fifo
  <1> QED
    BY <1>0, <1>2, <1>3, <1>4, <1>5, <1>6

LEMMA CallPutIInv ==
  ASSUME IInv, NEW t \in Threads, NEW v \in Items, CallPut(t, v)
  PROVE  IInv'
  <1> USE DEF CallPut, IInv
  <1>1. TypeOK'
    BY DEF TypeOK, PutPC, GetPC
  <1>2. MutualExclusion'
    BY BufferAssumption DEF TypeOK, MutualExclusion, Locked
  <1>3. Asleep(notFull, pc, "p_wait")' /\ Asleep(notEmpty, pc, "g_wait")'
    BY ElementOfSeq DEF TypeOK, Asleep
  <1>4. Room'
    BY DEF TypeOK, Room, PutPC
  <1>5. Fifo'
    BY DEF Fifo
  <1> QED
    BY <1>1, <1>2, <1>3, <1>4, <1>5

LEMMA PutGoIInv ==
  ASSUME IInv, NEW t \in Threads, PutGo(t)
  PROVE  IInv'
  <1> USE DEF PutGo, IInv
  <1>1. TypeOK'
    BY DEF TypeOK, PutPC, GetPC
  <1>2. MutualExclusion'
    BY BufferAssumption DEF TypeOK, MutualExclusion, Locked
  <1>3. Asleep(notFull, pc, "p_wait")' /\ Asleep(notEmpty, pc, "g_wait")'
    BY ElementOfSeq DEF TypeOK, Asleep
  <1>4. Room'
    BY BufferAssumption, LenProperties DEF TypeOK, Room, PutPC, Full
  <1>5. Fifo'
    BY DEF Fifo
  <1> QED
    BY <1>1, <1>2, <1>3, <1>4, <1>5

LEMMA CallGetIInv ==
  ASSUME IInv, NEW t \in Threads, CallGet(t)
  PROVE  IInv'
  <1> USE DEF CallGet, IInv
  <1>1. TypeOK'
    BY DEF TypeOK, PutPC, GetPC
  <1>2. MutualExclusion'
    BY BufferAssumption DEF TypeOK, MutualExclusion, Locked
  <1>3. Asleep(notFull, pc, "p_wait")' /\ Asleep(notEmpty, pc, "g_wait")'
    BY ElementOfSeq DEF TypeOK, Asleep
  <1>4. Room'
    BY DEF TypeOK, Room, PutPC
  <1>5. Fifo'
    BY DEF Fifo
  <1> QED
    BY <1>1, <1>2, <1>3, <1>4, <1>5

LEMMA GetEnterIInv ==
  ASSUME IInv, NEW t \in Threads, GetEnter(t)
  PROVE  IInv'
  <1> USE DEF GetEnter, IInv
  <1>1. TypeOK'
    BY DEF TypeOK, PutPC, GetPC
  <1>2. MutualExclusion'
    BY BufferAssumption DEF TypeOK, MutualExclusion, Locked
  <1>3. Asleep(notFull, pc, "p_wait")' /\ Asleep(notEmpty, pc, "g_wait")'
    BY ElementOfSeq DEF TypeOK, Asleep
  <1>4. Room'
    BY DEF TypeOK, Room, PutPC
  <1>5. Fifo'
    BY DEF Fifo
  <1> QED
    BY <1>1, <1>2, <1>3, <1>4, <1>5

LEMMA GetGoIInv ==
  ASSUME IInv, NEW t \in Threads, GetGo(t)
  PROVE  IInv'
  <1> USE DEF GetGo, IInv
  <1>1. TypeOK'
    BY DEF TypeOK, PutPC, GetPC
  <1>2. MutualExclusion'
    BY BufferAssumption DEF TypeOK, MutualExclusion, Locked
  <1>3. Asleep(notFull, pc, "p_wait")' /\ Asleep(notEmpty, pc, "g_wait")'
    BY ElementOfSeq DEF TypeOK, Asleep
  <1>4. Room'
    BY DEF TypeOK, Room, PutPC
  <1>5. Fifo'
    BY DEF Fifo
  <1> QED
    BY <1>1, <1>2, <1>3, <1>4, <1>5

LEMMA GetReturnIInv ==
  ASSUME IInv, NEW t \in Threads, GetReturn(t)
  PROVE  IInv'
  <1> USE DEF GetReturn, IInv
  <1>1. TypeOK'
    BY DEF TypeOK, PutPC, GetPC
  <1>2. MutualExclusion'
    BY BufferAssumption DEF TypeOK, MutualExclusion, Locked
  <1>3. Asleep(notFull, pc, "p_wait")' /\ Asleep(notEmpty, pc, "g_wait")'
    BY ElementOfSeq DEF TypeOK, Asleep
  <1>4. Room'
    BY DEF TypeOK, Room, PutPC
  <1>5. Fifo'
    BY DEF Fifo
  <1> QED
    BY <1>1, <1>2, <1>3, <1>4, <1>5

LEMMA GetWaitIInv ==
  ASSUME IInv, NEW t \in Threads, GetWait(t)
  PROVE  IInv'
  <1> USE DEF GetWait, IInv
  <1>1. TypeOK'
    BY AppendProperties DEF TypeOK, GetPC
  <1>2. MutualExclusion'
    BY BufferAssumption DEF TypeOK, MutualExclusion, Locked
  <1>3. Asleep(notEmpty, pc, "g_wait")'
    BY FallAsleep DEF TypeOK, Asleep
  <1>4. Asleep(notFull, pc, "p_wait")'
    BY ElementOfSeq DEF TypeOK, Asleep
  <1>5. Room'
    BY DEF TypeOK, Room, PutPC
  <1>6. Fifo'
    BY DEF Fifo
  <1> QED
    BY <1>1, <1>2, <1>3, <1>4, <1>5, <1>6

LEMMA GetPopIInv ==
  ASSUME IInv, NEW t \in Threads, GetPop(t)
  PROVE  IInv'
  <1> USE DEF GetPop, IInv
  <1>0. /\ buf # << >> /\ buf \in Seq(Items) /\ gets \in Seq(Items)
        /\ Head(buf) \in Items /\ Tail(buf) \in Seq(Items)
        /\ Len(buf) \in Nat /\ Len(Tail(buf)) = Len(buf) - 1
    BY TailFacts DEF Room, TypeOK
  <1>1. TypeOK'
    BY <1>0, AppendProperties DEF TypeOK, GetPC
  <1>2. MutualExclusion'
    BY DEF TypeOK, MutualExclusion, Locked
  <1>3. Asleep(notFull, pc, "p_wait")' /\ Asleep(notEmpty, pc, "g_wait")'
    BY ElementOfSeq DEF TypeOK, Asleep
  <1>4. Room'
    <2>1. \A u \in Threads : pc'[u] \notin {"p_append", "g_pop"}
      BY DEF TypeOK, MutualExclusion, Locked
    <2>2. \A u \in Threads : u # t => hand'[u] = hand[u] /\ pc'[u] = pc[u]
      BY DEF TypeOK
    <2>3. Len(buf') <= Capacity
      BY <1>0, BufferAssumption DEF Room
    <2>4. pc'[t] \notin PutPC
      BY DEF TypeOK, PutPC
    <2> QED
      BY <2>1, <2>2, <2>3, <2>4 DEF Room
  <1>5. Fifo'
    BY <1>0, HeadMoves DEF Fifo
  <1> QED
    BY <1>1, <1>2, <1>3, <1>4, <1>5

LEMMA GetNotifyIInv ==
  ASSUME IInv, NEW t \in Threads, GetNotify(t)
  PROVE  IInv'
  <1> USE DEF GetNotify, IInv
  <1> DEFINE ws == Woken(notFull)
  <1>0. /\ notFull' \in Seq(Threads) /\ Asleep(notFull, pc, "p_wait")'
        /\ \A u \in ws : u \in Threads /\ pc[u] = "p_wait"
    <2>1. \A u \in Threads : pc[u] = "p_wait" /\ u \notin ws => pc'[u] = "p_wait"
      BY DEF TypeOK
    <2>2. notFull' = StillAsleep(notFull, ws) /\ notFull \in Seq(Threads)
      BY DEF TypeOK
    <2>3. ws = Woken(notFull)
      OBVIOUS
    <2> HIDE DEF ws, GetNotify
    <2> QED
      BY <2>1, <2>2, <2>3, WakeUp
  <1> HIDE DEF ws
  <1>1. pc' = [u \in Threads |-> IF u = t THEN "g_return"
                                 ELSE IF u \in ws THEN "p_enter" ELSE pc[u]]
    BY DEF ws
  <1>2. TypeOK'
    BY <1>0, <1>1 DEF TypeOK, PutPC, GetPC
  <1>3. MutualExclusion'
    BY <1>0, <1>1, BufferAssumption DEF TypeOK, MutualExclusion, Locked
  <1>4. Asleep(notEmpty, pc, "g_wait")'
    <2>1. \A u \in Threads : pc[u] = "g_wait" => pc'[u] = "g_wait"
      BY <1>0, <1>1
    <2>2. notEmpty' = notEmpty /\ \A k \in 1 .. Len(notEmpty) : notEmpty[k] \in Threads
      BY ElementOfSeq DEF TypeOK
    <2> QED
      BY <2>1, <2>2 DEF Asleep
  <1>5. Room'
    BY <1>0, <1>1 DEF TypeOK, Room, PutPC
  <1>6. Fifo'
    BY DEF Fifo
  <1> QED
    BY <1>0, <1>2, <1>3, <1>4, <1>5, <1>6

-----------------------------------------------------------------------------
(* The theorems.                                                            *)

\* What a client may do to the buffer, however many values it puts.
Calls ==
  \E t \in Threads :
    \/ \E v \in Items : CallPut(t, v)
    \/ CallGet(t)
    \/ PutStep(t)
    \/ GetStep(t)
    \/ GetReturn(t)

LEMMA NextCalls == [Next]_vars => [Calls]_vars
  BY DEF Next, Calls

LEMMA CallsIInv == IInv /\ [Calls]_vars => IInv'
  <1> SUFFICES ASSUME IInv, [Calls]_vars PROVE IInv'
    OBVIOUS
  <1>1. CASE UNCHANGED vars
    BY <1>1 DEF vars, IInv, TypeOK, MutualExclusion, Asleep, Room, Fifo
  <1>2. ASSUME NEW t \in Threads, NEW v \in Items, CallPut(t, v) PROVE IInv'
    BY <1>2, CallPutIInv
  <1>3. ASSUME NEW t \in Threads, CallGet(t) \/ GetReturn(t) PROVE IInv'
    BY <1>3, CallGetIInv, GetReturnIInv
  <1>4. ASSUME NEW t \in Threads, PutStep(t) PROVE IInv'
    BY <1>4, PutEnterIInv, PutGoIInv, PutWaitIInv, PutAppendIInv, PutNotifyIInv
       DEF PutStep
  <1>5. ASSUME NEW t \in Threads, GetStep(t) PROVE IInv'
    BY <1>5, GetEnterIInv, GetGoIInv, GetWaitIInv, GetPopIInv, GetNotifyIInv
       DEF GetStep
  <1> QED
    BY <1>1, <1>2, <1>3, <1>4, <1>5 DEF Calls

(* The inductive invariant holds in every reachable state.                  *)
THEOREM Invariance == Spec => []IInv
  BY InitIInv, NextCalls, CallsIInv, PTL DEF Spec

(* put() and get() keep every variable in its type.                         *)
THEOREM TypeCorrect == Spec => []TypeOK
  <1>1. IInv => TypeOK
    BY DEF IInv
  <1> QED
    BY <1>1, Invariance, PTL

(* The deque is only used by the owner of the mutex, for any number of      *)
(* threads, through every wait() and notify().                              *)
THEOREM Exclusion == Spec => []MutualExclusion
  <1>1. IInv => MutualExclusion
    BY DEF IInv
  <1> QED
    BY <1>1, Invariance, PTL

\* The deque stays within its capacity and loses, repeats and reorders nothing.
THEOREM CapacityAndFifo == Spec => [](Len(buf) <= Capacity /\ puts = gets \o buf)
  <1>1. IInv => Len(buf) <= Capacity /\ puts = gets \o buf
    BY DEF IInv, Room, Fifo
  <1> QED
    BY <1>1, Invariance, PTL

-----------------------------------------------------------------------------
(* No lost wakeup: a count of threads, so one lemma says how it moves.      *)

\* The threads whose next step an item (a free slot) is waiting for.
Fetchers == {"g_enter", "g_test", "g_pop", "p_notify"}
Fillers == {"p_enter", "p_test", "p_append", "g_notify"}

At(p, labels) == {u \in Threads : p[u] \in labels}

\* 1 for a member, 0 for any other.
One(t, S) == IF t \in S THEN 1 ELSE 0

\* A thread that moves in or out changes the number of threads by one.
LEMMA OneMoves ==
  ASSUME NEW S \in SUBSET Threads, NEW T \in SUBSET Threads, NEW t,
         T \ {t} = S \ {t}
  PROVE  /\ Cardinality(S) \in Nat /\ Cardinality(T) \in Nat
         /\ Cardinality(T) = Cardinality(S) + One(t, T) - One(t, S)
  <1>1. /\ IsFiniteSet(S) /\ Cardinality(S) \in Nat
        /\ IsFiniteSet(T) /\ Cardinality(T) \in Nat
    BY BufferAssumption, FS_Subset, FS_CardinalityType
  <1>2. CASE (t \in S) <=> (t \in T)
    <2>1. T = S
      BY <1>2
    <2> QED
      BY <1>1, <2>1 DEF One
  <1>3. CASE t \in S /\ t \notin T
    <2>1. T = S \ {t}
      BY <1>3
    <2>2. Cardinality(T) = Cardinality(S) - 1
      BY <1>1, <1>3, <2>1, FS_RemoveElement
    <2> QED
      BY <1>1, <1>3, <2>2 DEF One
  <1>4. CASE t \notin S /\ t \in T
    <2>1. T = S \cup {t}
      BY <1>4
    <2>2. Cardinality(T) = Cardinality(S) + 1
      BY <1>1, <1>4, <2>1, FS_AddElement
    <2> QED
      BY <1>1, <1>4, <2>2 DEF One
  <1> QED
    BY <1>2, <1>3, <1>4

\* A notify() moves two threads: the caller, and the one it wakes.
LEMMA TwoMove ==
  ASSUME NEW S \in SUBSET Threads, NEW T \in SUBSET Threads, NEW t, NEW w,
         w # t, T \ {t, w} = S \ {t, w}
  PROVE  /\ Cardinality(S) \in Nat /\ Cardinality(T) \in Nat
         /\ Cardinality(T) = Cardinality(S) + One(t, T) - One(t, S)
                                            + One(w, T) - One(w, S)
  <1> DEFINE R == (S \ {t}) \cup (T \cap {t})
  <1>1. R \in SUBSET Threads /\ R \ {t} = S \ {t} /\ T \ {w} = R \ {w}
    OBVIOUS
  <1>2. One(t, R) = One(t, T) /\ One(w, R) = One(w, S)
    BY DEF One
  <1> HIDE DEF R
  <1>3. /\ Cardinality(S) \in Nat /\ Cardinality(R) \in Nat
        /\ Cardinality(R) = Cardinality(S) + One(t, R) - One(t, S)
    BY <1>1, OneMoves
  <1>4. /\ Cardinality(T) \in Nat
        /\ Cardinality(T) = Cardinality(R) + One(w, T) - One(w, R)
    BY <1>1, OneMoves
  <1> QED
    BY <1>2, <1>3, <1>4 DEF One

LEMMA WakeupMeaning ==
  /\ NoLostWakeup <=>
       /\ notEmpty # << >> => Len(buf) <= Cardinality(At(pc, Fetchers))
       /\ notFull # << >> => Capacity - Len(buf) <= Cardinality(At(pc, Fillers))
  /\ NoLostWakeup' <=>
       /\ notEmpty' # << >> => Len(buf') <= Cardinality(At(pc', Fetchers))
       /\ notFull' # << >> => Capacity - Len(buf') <= Cardinality(At(pc', Fillers))
  BY DEF NoLostWakeup, Count, At, Fetchers, Fillers

\* A step of one thread, and what it does to the two counts.
LEMMA StepMoves ==
  ASSUME NEW t \in Threads, \A u \in Threads : u # t => pc'[u] = pc[u],
         NEW labels
  PROVE  /\ Cardinality(At(pc, labels)) \in Nat
         /\ Cardinality(At(pc', labels)) \in Nat
         /\ pc[t] \in labels /\ pc'[t] \notin labels =>
              Cardinality(At(pc', labels)) = Cardinality(At(pc, labels)) - 1
         /\ pc[t] \notin labels /\ pc'[t] \in labels =>
              Cardinality(At(pc', labels)) = Cardinality(At(pc, labels)) + 1
         /\ (pc[t] \in labels <=> pc'[t] \in labels) =>
              Cardinality(At(pc', labels)) = Cardinality(At(pc, labels))
  <1> DEFINE S == At(pc, labels) T == At(pc', labels)
  <1>1. S \in SUBSET Threads /\ T \in SUBSET Threads /\ T \ {t} = S \ {t}
    BY DEF At
  <1>2. (t \in S <=> pc[t] \in labels) /\ (t \in T <=> pc'[t] \in labels)
    BY DEF At
  <1> HIDE DEF S, T
  <1>3. /\ Cardinality(S) \in Nat /\ Cardinality(T) \in Nat
        /\ Cardinality(T) = Cardinality(S) + One(t, T) - One(t, S)
    BY <1>1, OneMoves
  <1> QED
    BY <1>2, <1>3 DEF One, S, T

\* The steps that change neither the deque nor the sleepers: the thread that
\* moves stays a fetcher, or a filler, if it was one.
LEMMA QuietWakeup ==
  ASSUME IInv, NoLostWakeup, NEW t \in Threads,
         CallGet(t) \/ GetReturn(t) \/ PutEnter(t) \/ PutGo(t)
         \/ GetEnter(t) \/ GetGo(t) \/ (\E v \in Items : CallPut(t, v))
  PROVE  NoLostWakeup'
  <1>1. /\ \A u \in Threads : u # t => pc'[u] = pc[u]
        /\ pc[t] \in Fetchers => pc'[t] \in Fetchers
        /\ pc[t] \in Fillers => pc'[t] \in Fillers
        /\ UNCHANGED <<buf, notFull, notEmpty>>
    BY DEF IInv, TypeOK, CallGet, GetReturn, PutEnter, PutGo, GetEnter, GetGo,
           CallPut, Fetchers, Fillers
  <1>2. Len(buf) \in Nat /\ Capacity \in Nat
    BY BufferAssumption, LenProperties DEF IInv, TypeOK
  <1>3. /\ Cardinality(At(pc, Fetchers)) <= Cardinality(At(pc', Fetchers))
        /\ Cardinality(At(pc, Fetchers)) \in Nat /\ Cardinality(At(pc', Fetchers)) \in Nat
    BY <1>1, StepMoves
  <1>4. /\ Cardinality(At(pc, Fillers)) <= Cardinality(At(pc', Fillers))
        /\ Cardinality(At(pc, Fillers)) \in Nat /\ Cardinality(At(pc', Fillers)) \in Nat
    BY <1>1, StepMoves
  <1> QED
    BY <1>1, <1>2, <1>3, <1>4, WakeupMeaning

\* wait(): the deque is empty (full), so nothing in it is waiting for anyone;
\* the sleeper was the other side's neither before nor after.
LEMMA WaitWakeup ==
  ASSUME IInv, NoLostWakeup, NEW t \in Threads, PutWait(t) \/ GetWait(t)
  PROVE  NoLostWakeup'
  <1>1. /\ \A u \in Threads : u # t => pc'[u] = pc[u]
        /\ PutWait(t) => pc[t] \notin Fetchers /\ pc'[t] \notin Fetchers
        /\ GetWait(t) => pc[t] \notin Fillers /\ pc'[t] \notin Fillers
        /\ buf' = buf
        /\ PutWait(t) => notEmpty' = notEmpty
        /\ GetWait(t) => notFull' = notFull
    BY DEF IInv, TypeOK, PutWait, GetWait, Fetchers, Fillers
  <1>2. Len(buf) \in Nat /\ Capacity \in Nat
    BY BufferAssumption, LenProperties DEF IInv, TypeOK
  <1>3. /\ PutWait(t) => Cardinality(At(pc, Fetchers)) = Cardinality(At(pc', Fetchers))
        /\ Cardinality(At(pc', Fetchers)) \in Nat
    BY <1>1, StepMoves
  <1>4. /\ GetWait(t) => Cardinality(At(pc, Fillers)) = Cardinality(At(pc', Fillers))
        /\ Cardinality(At(pc', Fillers)) \in Nat
    BY <1>1, StepMoves
  <1>5. /\ PutWait(t) => Capacity - Len(buf) <= 0
        /\ GetWait(t) => Len(buf) = 0
    BY <1>2, EmptySeq DEF PutWait, GetWait, Full
  <1> QED
    BY <1>1, <1>2, <1>3, <1>4, <1>5, WakeupMeaning

\* An item appended (popped) has the thread that is about to notify for it,
\* and takes the slot (the item) that its thread was coming for.
LEMMA DequeWakeup ==
  ASSUME IInv, NoLostWakeup, NEW t \in Threads, PutAppend(t) \/ GetPop(t)
  PROVE  NoLostWakeup'
  <1>1. /\ \A u \in Threads : u # t => pc'[u] = pc[u]
        /\ UNCHANGED <<notFull, notEmpty>>
        /\ PutAppend(t) => /\ pc[t] \notin Fetchers /\ pc'[t] \in Fetchers
                           /\ pc[t] \in Fillers /\ pc'[t] \notin Fillers
        /\ GetPop(t) => /\ pc[t] \in Fetchers /\ pc'[t] \notin Fetchers
                        /\ pc[t] \notin Fillers /\ pc'[t] \in Fillers
    BY DEF IInv, TypeOK, PutAppend, GetPop, Fetchers, Fillers
  <1>2. Len(buf) \in Nat /\ Capacity \in Nat
    BY BufferAssumption, LenProperties DEF IInv, TypeOK
  <1>3. PutAppend(t) => Len(buf') = Len(buf) + 1
    BY AppendFacts DEF PutAppend, IInv, TypeOK, Room, PutPC
  <1>4. GetPop(t) => Len(buf') = Len(buf) - 1
    BY TailFacts DEF GetPop, IInv, TypeOK, Room
  <1>5. /\ PutAppend(t) => Cardinality(At(pc', Fetchers)) = Cardinality(At(pc, Fetchers)) + 1
        /\ GetPop(t) => Cardinality(At(pc', Fetchers)) = Cardinality(At(pc, Fetchers)) - 1
        /\ Cardinality(At(pc, Fetchers)) \in Nat
    BY <1>1, StepMoves
  <1>6. /\ PutAppend(t) => Cardinality(At(pc', Fillers)) = Cardinality(At(pc, Fillers)) - 1
        /\ GetPop(t) => Cardinality(At(pc', Fillers)) = Cardinality(At(pc, Fillers)) + 1
        /\ Cardinality(At(pc, Fillers)) \in Nat
    BY <1>1, StepMoves
  <1> QED
    BY <1>1, <1>2, <1>3, <1>4, <1>5, <1>6, WakeupMeaning

\* put()'s notify(): if a getter still sleeps, the oldest one woke up and
\* takes over the item that the notifier was counted for.
LEMMA PutNotifyWakeup ==
  ASSUME IInv, NoLostWakeup, NEW t \in Threads, PutNotify(t)
  PROVE  NoLostWakeup'
  <1> DEFINE w == Head(notEmpty)
  <1>1. pc \in [Threads -> {"idle"} \cup PutPC \cup GetPC]
        /\ notEmpty \in Seq(Threads) /\ pc[t] = "p_notify"
        /\ UNCHANGED <<buf, notFull>>
    BY DEF IInv, TypeOK, PutNotify
  <1>2. CASE notEmpty = << >>
    <2>1. /\ \A u \in Threads : u # t => pc'[u] = pc[u]
          /\ pc'[t] = "idle" /\ notEmpty' = << >>
      BY <1>2 DEF PutNotify, Woken, StillAsleep
    <2>2. Cardinality(At(pc', Fillers)) = Cardinality(At(pc, Fillers))
      <3>1. pc[t] \notin Fillers /\ pc'[t] \notin Fillers
        BY <1>1, <2>1 DEF Fillers
      <3> QED
        BY <2>1, <3>1, StepMoves
    <2> QED
      BY <1>1, <2>1, <2>2, WakeupMeaning
  <1>3. CASE notEmpty # << >>
    <2>1. w \in Threads /\ pc[w] = "g_wait"
      BY <1>1, <1>3, TailFacts DEF IInv, Asleep
    <2>2. /\ w # t /\ pc'[t] = "idle" /\ pc'[w] = "g_enter"
          /\ \A u \in Threads : u \notin {t, w} => pc'[u] = pc[u]
      BY <1>1, <1>3, <2>1 DEF PutNotify, Woken
    <2> HIDE DEF w
    <2>3. /\ At(pc, Fetchers) \in SUBSET Threads /\ At(pc', Fetchers) \in SUBSET Threads
          /\ At(pc', Fetchers) \ {t, w} = At(pc, Fetchers) \ {t, w}
          /\ t \in At(pc, Fetchers) /\ t \notin At(pc', Fetchers)
          /\ w \notin At(pc, Fetchers) /\ w \in At(pc', Fetchers)
      BY <1>1, <2>1, <2>2 DEF At, Fetchers
    <2>4. At(pc', Fillers) = At(pc, Fillers)
      BY <1>1, <2>1, <2>2 DEF At, Fillers
    <2>5. Cardinality(At(pc', Fetchers)) = Cardinality(At(pc, Fetchers))
      BY <2>2, <2>3, TwoMove DEF One
    <2> QED
      BY <1>1, <1>3, <2>4, <2>5, WakeupMeaning
  <1> QED
    BY <1>2, <1>3

\* get()'s notify(), the same for the putters.
LEMMA GetNotifyWakeup ==
  ASSUME IInv, NoLostWakeup, NEW t \in Threads, GetNotify(t)
  PROVE  NoLostWakeup'
  <1> DEFINE w == Head(notFull)
  <1>1. pc \in [Threads -> {"idle"} \cup PutPC \cup GetPC]
        /\ notFull \in Seq(Threads) /\ pc[t] = "g_notify"
        /\ UNCHANGED <<buf, notEmpty>>
    BY DEF IInv, TypeOK, GetNotify
  <1>2. CASE notFull = << >>
    <2>1. /\ \A u \in Threads : u # t => pc'[u] = pc[u]
          /\ pc'[t] = "g_return" /\ notFull' = << >>
      BY <1>2 DEF GetNotify, Woken, StillAsleep
    <2>2. Cardinality(At(pc', Fetchers)) = Cardinality(At(pc, Fetchers))
      <3>1. pc[t] \notin Fetchers /\ pc'[t] \notin Fetchers
        BY <1>1, <2>1 DEF Fetchers
      <3> QED
        BY <2>1, <3>1, StepMoves
    <2> QED
      BY <1>1, <2>1, <2>2, WakeupMeaning
  <1>3. CASE notFull # << >>
    <2>1. w \in Threads /\ pc[w] = "p_wait"
      BY <1>1, <1>3, TailFacts DEF IInv, Asleep
    <2>2. /\ w # t /\ pc'[t] = "g_return" /\ pc'[w] = "p_enter"
          /\ \A u \in Threads : u \notin {t, w} => pc'[u] = pc[u]
      BY <1>1, <1>3, <2>1 DEF GetNotify, Woken
    <2> HIDE DEF w
    <2>3. /\ At(pc, Fillers) \in SUBSET Threads /\ At(pc', Fillers) \in SUBSET Threads
          /\ At(pc', Fillers) \ {t, w} = At(pc, Fillers) \ {t, w}
          /\ t \in At(pc, Fillers) /\ t \notin At(pc', Fillers)
          /\ w \notin At(pc, Fillers) /\ w \in At(pc', Fillers)
      BY <1>1, <2>1, <2>2 DEF At, Fillers
    <2>4. At(pc', Fetchers) = At(pc, Fetchers)
      BY <1>1, <2>1, <2>2 DEF At, Fetchers
    <2>5. Cardinality(At(pc', Fillers)) = Cardinality(At(pc, Fillers))
      BY <2>2, <2>3, TwoMove DEF One
    <2> QED
      BY <1>1, <1>3, <2>4, <2>5, WakeupMeaning
  <1> QED
    BY <1>2, <1>3

LEMMA CallsWakeup == IInv /\ NoLostWakeup /\ [Calls]_vars => NoLostWakeup'
  <1> SUFFICES ASSUME IInv, NoLostWakeup, [Calls]_vars PROVE NoLostWakeup'
    OBVIOUS
  <1>1. CASE UNCHANGED vars
    BY <1>1 DEF vars, NoLostWakeup, Count
  <1>2. ASSUME NEW t \in Threads, NEW v \in Items, CallPut(t, v) PROVE NoLostWakeup'
    BY <1>2, QuietWakeup
  <1>3. ASSUME NEW t \in Threads, CallGet(t) \/ GetReturn(t) PROVE NoLostWakeup'
    BY <1>3, QuietWakeup
  <1>4. ASSUME NEW t \in Threads, PutStep(t) PROVE NoLostWakeup'
    BY <1>4, QuietWakeup, WaitWakeup, DequeWakeup, PutNotifyWakeup DEF PutStep
  <1>5. ASSUME NEW t \in Threads, GetStep(t) PROVE NoLostWakeup'
    BY <1>5, QuietWakeup, WaitWakeup, DequeWakeup, GetNotifyWakeup DEF GetStep
  <1> QED
    BY <1>1, <1>2, <1>3, <1>4, <1>5 DEF Calls

(* However the threads overtake each other between a notify() and the       *)
(* wakeup it causes, no getter sleeps while an item lacks a thread that is  *)
(* on its way to it, and no putter while a free slot does.                  *)
THEOREM WakeupsKept == Spec => []NoLostWakeup
  <1>1. Init => NoLostWakeup
    BY DEF Init, NoLostWakeup
  <1> QED
    BY <1>1, NextCalls, CallsWakeup, Invariance, PTL DEF Spec

-----------------------------------------------------------------------------
\* A step of the buffer is a send, a receive or nothing at all.
LEMMA StepRefines ==
  ASSUME IInv, [Calls]_vars
  PROVE  [Channel!Next]_<<puts, gets>>
  <1>1. ASSUME NEW t \in Threads, PutAppend(t) PROVE Channel!Next
    <2>1. hand[t] \in Items /\ Len(buf) < Capacity
      BY <1>1 DEF PutAppend, IInv, Room, PutPC
    <2>2. Len(puts) = Len(gets) + Len(buf) /\ Len(gets) \in Nat /\ Len(buf) \in Nat
      BY ConcatProperties, LenProperties DEF IInv, TypeOK, Fifo
    <2>3. Channel!Send(hand[t])
      BY <1>1, <2>1, <2>2, BufferAssumption DEF PutAppend, Channel!Send
    <2> QED
      BY <2>1, <2>3 DEF Channel!Next
  <1>2. ASSUME NEW t \in Threads, GetPop(t) PROVE Channel!Next
    <2>1. buf # << >> /\ buf \in Seq(Items) /\ gets \in Seq(Items)
      BY <1>2 DEF GetPop, IInv, Room, TypeOK
    <2>2. Len(gets) < Len(puts) /\ puts[Len(gets) + 1] = Head(buf)
      BY <2>1, HeadMoves DEF IInv, Fifo
    <2>3. Channel!Receive
      BY <1>2, <2>2 DEF GetPop, Channel!Receive
    <2> QED
      BY <2>3 DEF Channel!Next
  <1>3. CASE UNCHANGED vars
    BY <1>3 DEF vars
  <1>4. ASSUME NEW t \in Threads, NEW v \in Items, CallPut(t, v)
        PROVE  UNCHANGED <<puts, gets>>
    BY <1>4 DEF CallPut
  <1>5. ASSUME NEW t \in Threads,
               CallGet(t) \/ GetReturn(t) \/ PutEnter(t) \/ PutGo(t) \/ PutWait(t)
               \/ PutNotify(t) \/ GetEnter(t) \/ GetGo(t) \/ GetWait(t) \/ GetNotify(t)
        PROVE  UNCHANGED <<puts, gets>>
    BY <1>5 DEF CallGet, GetReturn, PutEnter, PutGo, PutWait, PutNotify,
                GetEnter, GetGo, GetWait, GetNotify
  <1> QED
    BY <1>1, <1>2, <1>3, <1>4, <1>5 DEF Calls, PutStep, GetStep

(* RawBoundedBuffer implements the FIFO channel of its capacity.            *)
THEOREM Refinement == Spec => ImplementsChannel
  <1>1. Init => Channel!Init
    BY DEF Init, Channel!Init
  <1>2. IInv /\ [Next]_vars => [Channel!Next]_(Channel!chanVars)
    BY NextCalls, StepRefines DEF Channel!chanVars
  <1> QED
    BY <1>1, <1>2, Invariance, PTL DEF Spec, ImplementsChannel, Channel!Spec

-----------------------------------------------------------------------------
(***************************************************************************)
(* The program on the buffer, and on the queue: nothing is lost.           *)
(*                                                                         *)
(* Both runs are accounts of the same kind: numbers are handed in, wait in *)
(* a queue or in somebody's hands, and end in the list.  q is what is      *)
(* queued, g the set of pairs <<t, v>> of a thread and what it carries,    *)
(* list what was consumed and s the numbers handed in.                     *)
(***************************************************************************)

Contents(q) == {q[k] : k \in 1 .. Len(q)}

\* The numbers that are on their way.
Open(q, g) == (Contents(q) \cup {h[2] : h \in g}) \cap Data

(* A number is in one place, and the list has those that are in none.       *)
Book(q, g, list, s) ==
  /\ \A j, k \in 1 .. Len(q) : q[j] = q[k] /\ q[j] \in Data => j = k
  /\ \A h \in g : h[2] \in Data => h[2] \notin Contents(q)
  /\ \A f, h \in g : f[2] = h[2] /\ f[2] \in Data => f = h
  /\ Open(q, g) \subseteq s
  /\ Len(list) = Cardinality(s \ Open(q, g))
  /\ Contents(list) = s \ Open(q, g)

(* The last n of the queue are the pills.                                   *)
PillsLast(q, n) ==
  n \in 0 .. Len(q) /\ \A k \in 1 .. Len(q) : q[k] = DONE <=> k > Len(q) - n

\* The numbers that producers with these loop variables have handed in.
HandedIn(loopVar) == {n \in Data : \E p \in Producers : \E k \in 0 .. loopVar[p] - 1 : n = Encode(p, k)}

-----------------------------------------------------------------------------
(* run_with_raw_buffer(): where the threads of each kind are.               *)

\* Where a thread carries something that is neither queued nor consumed.
Carrying == {"p_enter", "p_test", "p_append", "p_wait", "g_notify", "g_return"}
Carried == {<<t, hand[t]>> : t \in {u \in Threads : pc[u] \in Carrying}}

\* Where a consumer has what its get() took out.
Holding == {"g_notify", "g_return"}

\* The consumers that have taken their pill.
Takers == {c \in Consumers : c \in returned \/ (pc[c] \in Holding /\ hand[c] = DONE)}
PillsIn == pills - (IF pc[Main] \in Carrying THEN 1 ELSE 0)
PillsQueued == PillsIn - Cardinality(Takers)

RawRoles ==
  /\ i \in [Producers -> 0 .. PerProducer]
  /\ pills \in 0 .. Cardinality(Consumers)
  /\ consumed \in Seq(Data)
  /\ returned \subseteq Threads
  /\ \A t \in returned : pc[t] = "idle"
  /\ \A p \in Producers : /\ pc[p] \in {"idle"} \cup PutPC
                          /\ pc[p] \in PutPC => i[p] >= 1 /\ hand[p] = Encode(p, i[p] - 1)
                          /\ p \in returned => i[p] = PerProducer
  /\ \A c \in Consumers : /\ pc[c] \in {"idle"} \cup GetPC
                          /\ pc[c] \in Holding => hand[c] \in Items
  /\ pc[Main] \in {"idle"} \cup PutPC
  /\ pc[Main] \in PutPC => hand[Main] = DONE /\ pills >= 1
  /\ pills > 0 => Producers \subseteq returned
  /\ Main \in returned => Consumers \subseteq returned /\ pills = Cardinality(Consumers)

(* The pills are behind all the numbers, and one that was taken was the     *)
(* first of what is left.                                                   *)
RawPills ==
  /\ PillsLast(buf, PillsQueued)
  /\ Takers # {} => PillsQueued = Len(buf)

RawBook == Book(buf, Carried, consumed, HandedIn(i))

RawIInv == IInv /\ RawRoles /\ RawPills /\ RawBook

-----------------------------------------------------------------------------
(* run_with_stdlib_queue(), the same on the queue.                          *)

StdCarried == {<<c, item[c]>> : c \in {d \in Consumers : item[d] # NoItem /\ d \notin kept}}
StdTakers == {c \in Consumers : c \in qReturned \/ item[c] = DONE}
StdBusy == {c \in Consumers : item[c] # NoItem}

StdRoles ==
  /\ items \in Seq(Items) /\ unfinished \in Nat
  /\ sent \in [Producers -> 0 .. PerProducer]
  /\ item \in [Consumers -> Items \cup {NoItem}]
  /\ kept \subseteq StdBusy
  /\ qPills \in 0 .. Cardinality(Consumers)
  /\ qConsumed \in Seq(Data)
  /\ \A p \in Producers : p \in qReturned => sent[p] = PerProducer
  /\ \A c \in Consumers : c \in qReturned => item[c] = NoItem
  /\ qPills > 0 => Producers \subseteq qReturned
  /\ Main \in qReturned => Consumers \subseteq qReturned /\ qPills = Cardinality(Consumers)

StdPills ==
  /\ PillsLast(items, qPills - Cardinality(StdTakers))
  /\ StdTakers # {} => qPills - Cardinality(StdTakers) = Len(items)

StdBook == Book(items, StdCarried, qConsumed, HandedIn(sent))

(* What join() would wait for: what is queued or not yet marked done.       *)
StdUnfinished == unfinished = Len(items) + Cardinality(StdBusy)

StdIInv == StdRoles /\ StdPills /\ StdBook /\ StdUnfinished

-----------------------------------------------------------------------------
(* The numbers: pid * per_producer + i.                                     *)

LEMMA ProductGap ==
  ASSUME NEW m \in Nat, NEW a \in Nat, NEW b \in Nat, a < b
  PROVE  a * m + m <= b * m /\ a * m \in Nat /\ b * m \in Nat
  <1>1. PICK d \in Nat : b = a + 1 + d
    <2>1. b - a - 1 \in Nat /\ b = a + 1 + (b - a - 1)
      OBVIOUS
    <2> QED
      BY <2>1
  <1>2. b * m = a * m + m + d * m
    BY <1>1
  <1>3. d * m \in Nat /\ a * m \in Nat
    OBVIOUS
  <1> QED
    BY <1>2, <1>3

\* The encoding is one to one.
LEMMA EncodeInjective ==
  ASSUME NEW p \in Producers, NEW j \in 0 .. PerProducer - 1,
         NEW q \in Producers, NEW k \in 0 .. PerProducer - 1,
         Encode(p, j) = Encode(q, k)
  PROVE  p = q /\ j = k
  <1>1. p \in Nat /\ q \in Nat /\ j \in Nat /\ k \in Nat /\ PerProducer \in Nat
    BY ProgramAssumption DEF Producers
  <1>2. ~ p < q
    <2>1. SUFFICES ASSUME p < q PROVE FALSE
      OBVIOUS
    <2>2. p * PerProducer + PerProducer <= q * PerProducer
          /\ p * PerProducer \in Nat /\ q * PerProducer \in Nat
      BY <1>1, <2>1, ProductGap
    <2> QED
      BY <1>1, <2>2 DEF Encode
  <1>3. ~ q < p
    <2>1. SUFFICES ASSUME q < p PROVE FALSE
      OBVIOUS
    <2>2. q * PerProducer + PerProducer <= p * PerProducer
          /\ p * PerProducer \in Nat /\ q * PerProducer \in Nat
      BY <1>1, <2>1, ProductGap
    <2> QED
      BY <1>1, <2>2 DEF Encode
  <1>4. p = q
    BY <1>1, <1>2, <1>3
  <1>5. p * PerProducer \in Nat
    BY <1>1
  <1> QED
    BY <1>1, <1>4, <1>5 DEF Encode

LEMMA EncodeInData ==
  ASSUME NEW p \in Producers, NEW j \in 0 .. PerProducer - 1
  PROVE  Encode(p, j) \in Data
  <1>1. /\ p \in Nat /\ NumProducers \in Nat /\ p < NumProducers
        /\ j \in Nat /\ PerProducer \in Nat /\ j < PerProducer
    BY ProgramAssumption DEF Producers
  <1>2. /\ p * PerProducer + PerProducer <= NumProducers * PerProducer
        /\ p * PerProducer \in Nat /\ NumProducers * PerProducer \in Nat
    BY <1>1, ProductGap
  <1> QED
    BY <1>1, <1>2 DEF Encode, Data

\* ... and every number is somebody's.
LEMMA EncodeOnto ==
  ASSUME NEW n \in Data
  PROVE  \E p \in Producers : \E k \in 0 .. PerProducer - 1 : n = Encode(p, k)
  <1> DEFINE d == n \div PerProducer  r == n % PerProducer
  <1>1. /\ NumProducers \in Nat /\ PerProducer \in Nat
        /\ NumProducers * PerProducer \in Nat
        /\ n \in Nat /\ n < NumProducers * PerProducer
    BY ProgramAssumption DEF Data
  <1>2. PerProducer # 0
    BY <1>1
  <1>3. /\ d \in Nat /\ r \in 0 .. PerProducer - 1
        /\ n = d * PerProducer + r
    BY <1>1, <1>2, SMTT(30)
  <1> HIDE DEF d, r
  <1>4. d < NumProducers
    <2>1. SUFFICES ASSUME ~ d < NumProducers PROVE FALSE
      OBVIOUS
    <2>2. CASE d = NumProducers
      BY <1>1, <1>3, <2>2
    <2>3. CASE NumProducers < d
      <3>1. NumProducers * PerProducer + PerProducer <= d * PerProducer /\ d * PerProducer \in Nat
        BY <1>1, <1>3, <2>3, ProductGap
      <3> QED
        BY <1>1, <1>3, <3>1
    <2> QED
      BY <1>1, <1>3, <2>1, <2>2, <2>3
  <1>5. d \in Producers
    BY <1>1, <1>3, <1>4 DEF Producers
  <1> QED
    BY <1>3, <1>5 DEF Encode

LEMMA DataFinite ==
  /\ IsFiniteSet(Data) /\ Cardinality(Data) = NumProducers * PerProducer
  /\ \A s \in SUBSET Data : IsFiniteSet(s) /\ Cardinality(s) \in Nat
  <1> DEFINE m == NumProducers * PerProducer
  <1>1. m \in Nat
    BY ProgramAssumption
  <1>2. Data = 0 .. m - 1
    BY DEF Data
  <1> HIDE DEF m
  <1>3. IsFiniteSet(0 .. m - 1) /\ Cardinality(0 .. m - 1) = m
    <2>1. CASE m = 0
      <3>1. 0 .. m - 1 = {}
        BY <2>1
      <3> QED
        BY <2>1, <3>1, FS_EmptySet
    <2>2. CASE m # 0
      <3>1. 0 \in Int /\ m - 1 \in Int /\ 0 <= m - 1 /\ ~ 0 > m - 1 /\ m - 1 - 0 + 1 = m
        BY <1>1, <2>2
      <3> QED
        BY <3>1, FS_Interval
    <2> QED
      BY <2>1, <2>2
  <1>4. \A s \in SUBSET Data : IsFiniteSet(s) /\ Cardinality(s) \in Nat
    BY <1>2, <1>3, FS_Subset, FS_CardinalityType
  <1> QED
    BY <1>2, <1>3, <1>4 DEF m

\* A producer that calls put() hands in a new number.
LEMMA HandIn ==
  ASSUME NEW lv \in [Producers -> 0 .. PerProducer], NEW lw,
         NEW p \in Producers, lv[p] < PerProducer,
         lw = [lv EXCEPT ![p] = @ + 1]
  PROVE  /\ HandedIn(lw) = HandedIn(lv) \cup {Encode(p, lv[p])}
         /\ Encode(p, lv[p]) \in Data \ HandedIn(lv)
         /\ lw \in [Producers -> 0 .. PerProducer]
  <1>0. PerProducer \in Nat
    BY ProgramAssumption
  <1>1. Encode(p, lv[p]) \in Data
    BY <1>0, EncodeInData
  <1>2. Encode(p, lv[p]) \notin HandedIn(lv)
    <2>1. SUFFICES ASSUME NEW q \in Producers, NEW k \in 0 .. lv[q] - 1,
                          Encode(p, lv[p]) = Encode(q, k)
                   PROVE  FALSE
      BY DEF HandedIn
    <2>2. lv[p] \in 0 .. PerProducer - 1 /\ k \in 0 .. PerProducer - 1
      BY <1>0
    <2>3. p = q /\ lv[p] = k
      BY <2>1, <2>2, EncodeInjective
    <2> QED
      BY <1>0, <2>3
  <1>3. lw \in [Producers -> 0 .. PerProducer]
    BY <1>0
  <1>4. lw[p] = lv[p] + 1 /\ \A q \in Producers : q # p => lw[q] = lv[q]
    OBVIOUS
  <1>5. ASSUME NEW n \in Data
        PROVE  n \in HandedIn(lw) <=> n \in HandedIn(lv) \cup {Encode(p, lv[p])}
    <2>1. ASSUME n \in HandedIn(lw) PROVE n \in HandedIn(lv) \cup {Encode(p, lv[p])}
      <3>0. PICK q \in Producers : \E k \in 0 .. lw[q] - 1 : n = Encode(q, k)
        BY <2>1 DEF HandedIn
      <3>1. PICK k \in 0 .. lw[q] - 1 : n = Encode(q, k)
        BY <3>0
      <3>2. CASE q = p /\ k = lv[p]
        BY <3>1, <3>2
      <3>3. CASE ~ (q = p /\ k = lv[p])
        <4>1. k \in 0 .. lv[q] - 1
          BY <1>0, <1>4, <3>3
        <4> QED
          BY <3>1, <4>1 DEF HandedIn
      <3> QED
        BY <3>2, <3>3
    <2>2. ASSUME n \in HandedIn(lv) PROVE n \in HandedIn(lw)
      <3>0. PICK q \in Producers : \E k \in 0 .. lv[q] - 1 : n = Encode(q, k)
        BY <2>2 DEF HandedIn
      <3>1. PICK k \in 0 .. lv[q] - 1 : n = Encode(q, k)
        BY <3>0
      <3>2. k \in 0 .. lw[q] - 1
        BY <1>0, <1>4
      <3> QED
        BY <3>1, <3>2 DEF HandedIn
    <2>3. Encode(p, lv[p]) \in HandedIn(lw)
      <3>1. lv[p] \in 0 .. lw[p] - 1
        BY <1>0, <1>4
      <3> QED
        BY <1>1, <3>1 DEF HandedIn
    <2> QED
      BY <2>1, <2>2, <2>3
  <1>6. HandedIn(lw) \subseteq Data /\ HandedIn(lv) \subseteq Data
    BY DEF HandedIn
  <1> QED
    BY <1>1, <1>2, <1>3, <1>5, <1>6

\* When all the producers are through, all the numbers are in.
LEMMA AllHandedIn ==
  ASSUME NEW lv \in [Producers -> 0 .. PerProducer],
         \A p \in Producers : lv[p] = PerProducer
  PROVE  HandedIn(lv) = Data
  BY EncodeOnto DEF HandedIn

LEMMA NoneHandedIn ==
  ASSUME NEW lv, \A p \in Producers : lv[p] = 0
  PROVE  HandedIn(lv) = {}
  <1>1. 0 .. 0 - 1 = {}
    OBVIOUS
  <1> QED
    BY <1>1 DEF HandedIn

-----------------------------------------------------------------------------
(* The account: how it moves.                                               *)

LEMMA ContentsAppend ==
  ASSUME NEW S, NEW q \in Seq(S), NEW v \in S
  PROVE  Contents(Append(q, v)) = Contents(q) \cup {v}
  <1>1. /\ Len(q) \in Nat /\ Len(Append(q, v)) = Len(q) + 1
        /\ Append(q, v)[Len(q) + 1] = v
        /\ \A k \in 1 .. Len(q) : Append(q, v)[k] = q[k]
    BY AppendProperties, LenProperties
  <1>2. \A k \in 1 .. Len(q) + 1 : k \in 1 .. Len(q) \/ k = Len(q) + 1
    BY <1>1
  <1>3. \A k \in 1 .. Len(q) : k \in 1 .. Len(q) + 1
    BY <1>1
  <1>4. Len(q) + 1 \in 1 .. Len(q) + 1
    BY <1>1
  <1> QED
    BY <1>1, <1>2, <1>3, <1>4 DEF Contents

LEMMA ContentsTail ==
  ASSUME NEW S, NEW q \in Seq(S), q # << >>
  PROVE  Contents(q) = Contents(Tail(q)) \cup {Head(q)}
  <1>1. /\ Len(q) \in Nat \ {0} /\ Head(q) = q[1] /\ Len(Tail(q)) = Len(q) - 1
        /\ \A k \in 1 .. Len(q) - 1 : Tail(q)[k] = q[k + 1]
    BY TailFacts
  <1>2. \A k \in 1 .. Len(q) : k = 1 \/ (k - 1 \in 1 .. Len(q) - 1 /\ Tail(q)[k - 1] = q[k])
    BY <1>1
  <1>3. \A k \in 1 .. Len(q) - 1 : k + 1 \in 1 .. Len(q)
    BY <1>1
  <1>4. 1 \in 1 .. Len(q)
    BY <1>1
  <1>5. ASSUME NEW e \in Contents(q) PROVE e \in Contents(Tail(q)) \cup {Head(q)}
    <2>1. PICK k \in 1 .. Len(q) : e = q[k]
      BY <1>5 DEF Contents
    <2> QED
      BY <1>1, <1>2, <2>1 DEF Contents
  <1>6. ASSUME NEW e \in Contents(Tail(q)) PROVE e \in Contents(q)
    <2>1. PICK k \in 1 .. Len(q) - 1 : e = Tail(q)[k]
      BY <1>1, <1>6 DEF Contents
    <2> QED
      BY <1>1, <1>3, <2>1 DEF Contents
  <1>7. Head(q) \in Contents(q)
    BY <1>1, <1>4 DEF Contents
  <1> QED
    BY <1>5, <1>6, <1>7

\* What is carried, when one more thing is.
LEMMA CarryOneMore ==
  ASSUME NEW g, NEW t, NEW v
  PROVE  {h[2] : h \in g \cup {<<t, v>>}} = {h[2] : h \in g} \cup {v}
  <1>1. <<t, v>>[2] = v
    OBVIOUS
  <1>2. ASSUME NEW e \in {h[2] : h \in g \cup {<<t, v>>}}
        PROVE  e \in {h[2] : h \in g} \cup {v}
    BY <1>1, <1>2
  <1>3. \A e \in {h[2] : h \in g} : e \in {h[2] : h \in g \cup {<<t, v>>}}
    OBVIOUS
  <1>4. v \in {h[2] : h \in g \cup {<<t, v>>}}
    BY <1>1
  <1> QED
    BY <1>2, <1>3, <1>4

\* put() is called with a new number.
LEMMA BookHand ==
  ASSUME NEW q, NEW g, NEW list, NEW s, NEW t, NEW v \in Data \ s,
         Book(q, g, list, s)
  PROVE  Book(q, g \cup {<<t, v>>}, list, s \cup {v})
  <1> DEFINE f == g \cup {<<t, v>>}
  <1>1. v \notin Open(q, g)
    BY DEF Book
  <1>2. Open(q, f) = Open(q, g) \cup {v}
    <2>1. {h[2] : h \in f} = {h[2] : h \in g} \cup {v}
      BY CarryOneMore
    <2> HIDE DEF f
    <2> QED
      BY <2>1 DEF Open
  <1>3. (s \cup {v}) \ Open(q, f) = s \ Open(q, g)
    BY <1>2
  <1>4. \A h \in f : h[2] \in Data => h[2] \notin Contents(q)
    BY <1>1 DEF Book, Open
  <1>5. \A a, h \in f : a[2] = h[2] /\ a[2] \in Data => a = h
    BY <1>1 DEF Book, Open
  <1> HIDE DEF f
  <1> QED
    BY <1>2, <1>3, <1>4, <1>5 DEF Book, f

\* What a thread carries joins the queue.
LEMMA BookIn ==
  ASSUME NEW q \in Seq(Items), NEW g, NEW list, NEW s, NEW t, NEW v \in Items,
         <<t, v>> \in g, Book(q, g, list, s)
  PROVE  Book(Append(q, v), g \ {<<t, v>>}, list, s)
  <1> DEFINE f == g \ {<<t, v>>}  r == Append(q, v)
  <1>1. Contents(r) = Contents(q) \cup {v}
    BY ContentsAppend
  <1>2. Open(r, f) = Open(q, g)
    <2>1. {h[2] : h \in g} = {h[2] : h \in f} \cup {v}
      OBVIOUS
    <2> QED
      BY <1>1, <2>1 DEF Open
  <1>3. \A j, k \in 1 .. Len(r) : r[j] = r[k] /\ r[j] \in Data => j = k
    <2>1. /\ Len(q) \in Nat /\ Len(r) = Len(q) + 1 /\ r[Len(q) + 1] = v
          /\ \A k \in 1 .. Len(q) : r[k] = q[k]
      BY AppendProperties, LenProperties
    <2>2. v \in Data => \A k \in 1 .. Len(q) : q[k] # v
      BY DEF Book, Contents
    <2>3. \A j, k \in 1 .. Len(q) : q[j] = q[k] /\ q[j] \in Data => j = k
      BY DEF Book
    <2>4. \A k \in 1 .. Len(q) + 1 : k \in 1 .. Len(q) \/ k = Len(q) + 1
      BY <2>1
    <2> HIDE DEF r
    <2> QED
      BY <2>1, <2>2, <2>3, <2>4
  <1>4. \A h \in f : h[2] \in Data => h[2] \notin Contents(r)
    BY <1>1 DEF Book
  <1>5. \A a, h \in f : a[2] = h[2] /\ a[2] \in Data => a = h
    BY DEF Book
  <1> HIDE DEF f, r
  <1> QED
    BY <1>2, <1>3, <1>4, <1>5 DEF Book, f, r

\* A thread takes the first of the queue.
LEMMA BookOut ==
  ASSUME NEW q \in Seq(Items), q # << >>, NEW g, NEW list, NEW s, NEW t,
         Book(q, g, list, s)
  PROVE  Book(Tail(q), g \cup {<<t, Head(q)>>}, list, s)
  <1> DEFINE r == Tail(q)  v == Head(q)  f == g \cup {<<t, v>>}
  <1>0. /\ Len(q) \in Nat \ {0} /\ v = q[1] /\ Len(r) = Len(q) - 1
        /\ \A k \in 1 .. Len(q) - 1 : r[k] = q[k + 1]
    BY TailFacts
  <1>1. Contents(q) = Contents(r) \cup {v}
    BY ContentsTail
  <1>2. {h[2] : h \in f} = {h[2] : h \in g} \cup {v}
    BY CarryOneMore
  <1>3. Open(r, f) = Open(q, g)
    BY <1>1, <1>2 DEF Open
  <1>4. \A j, k \in 1 .. Len(q) : q[j] = q[k] /\ q[j] \in Data => j = k
    BY DEF Book
  <1>5. \A k \in 1 .. Len(r) : k + 1 \in 1 .. Len(q) /\ k + 1 # 1 /\ r[k] = q[k + 1]
    BY <1>0
  <1>6. 1 \in 1 .. Len(q)
    BY <1>0
  <1>7. v \in Data => v \notin Contents(r)
    BY <1>0, <1>4, <1>5, <1>6 DEF Contents
  <1>8. \A j, k \in 1 .. Len(r) : r[j] = r[k] /\ r[j] \in Data => j = k
    <2>1. SUFFICES ASSUME NEW j \in 1 .. Len(r), NEW k \in 1 .. Len(r), r[j] = r[k], r[j] \in Data
                   PROVE  j = k
      OBVIOUS
    <2>2. j + 1 = k + 1
      BY <1>4, <1>5, <2>1
    <2> QED
      BY <2>2
  <1>9. v \in Data => \A h \in g : h[2] # v
    BY <1>1 DEF Book
  <1>10. \A h \in f : h[2] \in Data => h[2] \notin Contents(r)
    BY <1>1, <1>7 DEF Book
  <1>11. \A a, h \in f : a[2] = h[2] /\ a[2] \in Data => a = h
    BY <1>9 DEF Book
  <1> HIDE DEF f, r, v
  <1> QED
    BY <1>3, <1>8, <1>10, <1>11 DEF Book, f, r, v

\* A consumer appends its number to the list.
LEMMA BookRecord ==
  ASSUME NEW q, NEW g, NEW list \in Seq(Data), NEW s \in SUBSET Data, NEW t, NEW v \in Data,
         <<t, v>> \in g, Book(q, g, list, s)
  PROVE  Book(q, g \ {<<t, v>>}, Append(list, v), s)
  <1> DEFINE f == g \ {<<t, v>>}  C == s \ Open(q, g)
  <1>1. {h[2] : h \in g} = {h[2] : h \in f} \cup {v}
    OBVIOUS
  <1>2. v \notin Contents(q) /\ v \notin {h[2] : h \in f}
    BY DEF Book
  <1>3. Open(q, g) = Open(q, f) \cup {v} /\ v \notin Open(q, f)
    BY <1>1, <1>2 DEF Open
  <1>4. v \in s
    BY <1>3 DEF Book
  <1>5. s \ Open(q, f) = C \cup {v} /\ v \notin C
    BY <1>3, <1>4
  <1>6. IsFiniteSet(C) /\ Cardinality(C) \in Nat
    BY DataFinite
  <1>7. Len(list) = Cardinality(C) /\ Contents(list) = C
    BY DEF Book
  <1>8. Contents(Append(list, v)) = C \cup {v}
    BY <1>7, ContentsAppend
  <1>9. Len(Append(list, v)) = Cardinality(C \cup {v})
    <2>1. Len(Append(list, v)) = Len(list) + 1
      BY AppendProperties
    <2>2. Cardinality(C \cup {v}) = Cardinality(C) + 1
      BY <1>5, <1>6, FS_AddElement
    <2> QED
      BY <1>7, <2>1, <2>2
  <1>10. /\ \A h \in f : h[2] \in Data => h[2] \notin Contents(q)
         /\ \A a, h \in f : a[2] = h[2] /\ a[2] \in Data => a = h
    BY DEF Book
  <1>11. Open(q, f) \subseteq s
    BY <1>3 DEF Book
  <1> HIDE DEF f, C
  <1> QED
    BY <1>5, <1>8, <1>9, <1>10, <1>11 DEF Book, f

\* What is not a number is not accounted for.
LEMMA BookPill ==
  ASSUME NEW q, NEW g, NEW list, NEW s, NEW t, NEW v, v \notin Data,
         Book(q, g, list, s)
  PROVE  /\ Book(q, g \cup {<<t, v>>}, list, s)
         /\ Book(q, g \ {<<t, v>>}, list, s)
  <1> DEFINE f == g \cup {<<t, v>>}  e == g \ {<<t, v>>}
  <1>1. Open(q, f) = Open(q, g) /\ Open(q, e) = Open(q, g)
    BY DEF Open
  <1>2. /\ \A h \in f : h[2] \in Data => h[2] \notin Contents(q)
        /\ \A a, h \in f : a[2] = h[2] /\ a[2] \in Data => a = h
    BY DEF Book
  <1>3. /\ \A h \in e : h[2] \in Data => h[2] \notin Contents(q)
        /\ \A a, h \in e : a[2] = h[2] /\ a[2] \in Data => a = h
    BY DEF Book
  <1> HIDE DEF f, e
  <1> QED
    BY <1>1, <1>2, <1>3 DEF Book, e, f

\* When nothing is on its way, the list has all that was handed in, once.
LEMMA BookClosed ==
  ASSUME NEW list \in Seq(Data), Book(<< >>, {}, list, Data)
  PROVE  /\ {list[k] : k \in DOMAIN list} = Data
         /\ Len(list) = NumProducers * PerProducer
  <1>1. 1 .. Len(<< >>) = {}
    OBVIOUS
  <1>2. Open(<< >>, {}) = {}
    BY <1>1 DEF Open, Contents
  <1>3. Data \ {} = Data
    OBVIOUS
  <1>4. DOMAIN list = 1 .. Len(list)
    BY LenProperties
  <1> QED
    BY <1>2, <1>3, <1>4, DataFinite DEF Book, Contents

LEMMA BookOpened == Book(<< >>, {}, << >>, {})
  <1>1. 1 .. Len(<< >>) = {} /\ Len(<< >>) = 0
    OBVIOUS
  <1>2. Open(<< >>, {}) = {} /\ Contents(<< >>) = {}
    BY <1>1 DEF Open, Contents
  <1>3. {} \ {} = {}
    OBVIOUS
  <1> QED
    BY <1>1, <1>2, <1>3, FS_EmptySet DEF Book

-----------------------------------------------------------------------------
(* The pills.                                                               *)

LEMMA PillsOpened == PillsLast(<< >>, 0)
  BY DEF PillsLast

\* A number joins while there are no pills.
LEMMA PillsNumber ==
  ASSUME NEW q \in Seq(Items), NEW v \in Data, PillsLast(q, 0)
  PROVE  PillsLast(Append(q, v), 0)
  <1>1. v \in Items /\ v # DONE
    BY ProgramAssumption
  <1>2. /\ Len(q) \in Nat /\ Len(Append(q, v)) = Len(q) + 1
        /\ Append(q, v)[Len(q) + 1] = v
        /\ \A k \in 1 .. Len(q) : Append(q, v)[k] = q[k]
    BY <1>1, AppendProperties, LenProperties
  <1>3. \A k \in 1 .. Len(q) : q[k] # DONE
    BY <1>2 DEF PillsLast
  <1>4. \A k \in 1 .. Len(q) + 1 : k \in 1 .. Len(q) \/ k = Len(q) + 1
    BY <1>2
  <1>5. \A k \in 1 .. Len(q) + 1 : Append(q, v)[k] # DONE
    BY <1>1, <1>2, <1>3, <1>4
  <1> QED
    BY <1>2, <1>5 DEF PillsLast

\* A pill joins.
LEMMA PillsPut ==
  ASSUME NEW q \in Seq(Items), NEW n, PillsLast(q, n)
  PROVE  PillsLast(Append(q, DONE), n + 1)
  <1>1. DONE \in Items
    BY ProgramAssumption
  <1>2. /\ Len(q) \in Nat /\ Len(Append(q, DONE)) = Len(q) + 1
        /\ Append(q, DONE)[Len(q) + 1] = DONE
        /\ \A k \in 1 .. Len(q) : Append(q, DONE)[k] = q[k]
    BY <1>1, AppendProperties, LenProperties
  <1>3. n \in 0 .. Len(q) /\ \A k \in 1 .. Len(q) : q[k] = DONE <=> k > Len(q) - n
    BY DEF PillsLast
  <1>4. \A k \in 1 .. Len(q) + 1 : k \in 1 .. Len(q) \/ k = Len(q) + 1
    BY <1>2
  <1>5. n + 1 \in 0 .. Len(q) + 1 /\ Len(q) + 1 - (n + 1) = Len(q) - n
    BY <1>2, <1>3
  <1>6. Len(q) + 1 > Len(q) - n
    BY <1>2, <1>3
  <1>7. \A k \in 1 .. Len(q) + 1 : Append(q, DONE)[k] = DONE <=> k > Len(q) - n
    BY <1>2, <1>3, <1>4, <1>6
  <1> QED
    BY <1>2, <1>5, <1>7 DEF PillsLast

\* The first of the queue leaves: a pill is the first only when all are pills.
LEMMA PillsOut ==
  ASSUME NEW q \in Seq(Items), q # << >>, NEW n, PillsLast(q, n)
  PROVE  /\ Len(Tail(q)) = Len(q) - 1 /\ Len(q) \in Nat \ {0} /\ n \in Nat
         /\ Head(q) = DONE => n = Len(q) /\ PillsLast(Tail(q), n - 1)
         /\ Head(q) # DONE => n < Len(q) /\ PillsLast(Tail(q), n)
  <1>1. /\ Len(q) \in Nat \ {0} /\ Head(q) = q[1] /\ Len(Tail(q)) = Len(q) - 1
        /\ \A k \in 1 .. Len(q) - 1 : Tail(q)[k] = q[k + 1]
    BY TailFacts
  <1>2. n \in 0 .. Len(q) /\ \A k \in 1 .. Len(q) : q[k] = DONE <=> k > Len(q) - n
    BY DEF PillsLast
  <1>3. \A k \in 1 .. Len(q) - 1 : Tail(q)[k] = DONE <=> k > Len(q) - 1 - n
    BY <1>1, <1>2
  <1>4. q[1] = DONE <=> 1 > Len(q) - n
    BY <1>1, <1>2
  <1>5. n \in Nat /\ n <= Len(q)
    BY <1>1, <1>2
  <1>6. CASE Head(q) = DONE
    <2>1. n = Len(q)
      <3>1. \A x, y \in Nat : y <= x /\ 1 > x - y => y = x
        OBVIOUS
      <3>2. 1 > Len(q) - n
        BY <1>1, <1>4, <1>6
      <3> QED
        BY <1>1, <1>5, <3>1, <3>2
    <2>2. \A k \in 1 .. Len(q) - 1 : Tail(q)[k] = DONE /\ k > Len(q) - 1 - (n - 1)
      BY <1>1, <1>2, <1>3, <2>1
    <2>3. n - 1 \in 0 .. Len(q) - 1
      BY <1>1, <2>1
    <2> QED
      BY <1>1, <1>6, <1>5, <2>1, <2>2, <2>3 DEF PillsLast
  <1>7. CASE Head(q) # DONE
    <2>1. n \in 0 .. Len(q) - 1 /\ n < Len(q)
      BY <1>1, <1>2, <1>4, <1>7
    <2>2. PillsLast(Tail(q), n)
      BY <1>1, <1>3, <2>1 DEF PillsLast
    <2> QED
      BY <1>1, <1>7, <1>5, <2>1, <2>2
  <1> QED
    BY <1>6, <1>7

-----------------------------------------------------------------------------
(* run_with_stdlib_queue() keeps its invariant.                             *)

LEMMA ConsumersFinite ==
  ASSUME NEW S \in SUBSET Consumers
  PROVE  IsFiniteSet(S) /\ Cardinality(S) \in Nat
  BY ProgramAssumption, FS_Subset, FS_CardinalityType

\* While a producer is not through there are no pills at all.
LEMMA NoPillsYet ==
  ASSUME NEW q \in Seq(Items), NEW S \in SUBSET Consumers, PillsLast(q, 0 - Cardinality(S))
  PROVE  S = {} /\ 0 - Cardinality(S) = 0
  <1>1. IsFiniteSet(S) /\ Cardinality(S) \in Nat /\ Len(q) \in Nat
    BY ConsumersFinite, LenProperties
  <1>2. 0 - Cardinality(S) \in 0 .. Len(q)
    BY DEF PillsLast
  <1>3. Cardinality(S) = 0
    BY <1>1, <1>2
  <1> QED
    BY <1>1, <1>3, FS_EmptySet

LEMMA StdInitIInv == StdInit => StdIInv
  <1> SUFFICES ASSUME StdInit PROVE StdIInv
    OBVIOUS
  <1> USE DEF StdInit, QueueInit
  <1>1. StdCarried = {} /\ StdTakers = {} /\ StdBusy = {}
    BY BufferAssumption, ProgramAssumption DEF StdCarried, StdTakers, StdBusy
  <1>2. Cardinality(Consumers) \in Nat /\ PerProducer \in Nat
    BY ConsumersFinite, ProgramAssumption
  <1>3. StdRoles
    BY <1>1, <1>2 DEF StdRoles
  <1>4. StdPills
    BY <1>1, FS_EmptySet, PillsOpened DEF StdPills
  <1>5. StdBook
    <2>1. HandedIn(sent) = {}
      BY NoneHandedIn
    <2> QED
      BY <1>1, <2>1, BookOpened DEF StdBook
  <1>6. StdUnfinished
    BY <1>1, FS_EmptySet DEF StdUnfinished
  <1> QED
    BY <1>3, <1>4, <1>5, <1>6 DEF StdIInv

LEMMA StdProduceIInv ==
  ASSUME StdIInv, NEW p \in Producers, StdProduce(p)
  PROVE  StdIInv'
  <1> DEFINE v == Encode(p, sent[p])
  <1>0. /\ sent[p] < PerProducer /\ sent' = [sent EXCEPT ![p] = @ + 1]
        /\ items' = Append(items, v) /\ unfinished' = unfinished + 1
        /\ UNCHANGED <<item, kept, qPills, qConsumed, qReturned>>
    BY DEF StdProduce, QueuePut
  <1>1. /\ items \in Seq(Items) /\ sent \in [Producers -> 0 .. PerProducer]
        /\ unfinished \in Nat /\ PerProducer \in Nat
    BY ProgramAssumption DEF StdIInv, StdRoles
  <1>2. /\ HandedIn(sent') = HandedIn(sent) \cup {v} /\ v \in Data \ HandedIn(sent)
        /\ sent' \in [Producers -> 0 .. PerProducer]
    BY <1>0, <1>1, HandIn
  <1>3. v \in Items /\ v \in Data
    BY <1>2, ProgramAssumption
  <1> HIDE DEF v
  <1>4. StdCarried' = StdCarried /\ StdTakers' = StdTakers /\ StdBusy' = StdBusy
    BY <1>0 DEF StdCarried, StdTakers, StdBusy
  <1>5. p \notin qReturned
    BY <1>0, <1>1 DEF StdIInv, StdRoles
  <1>6. qPills = 0
    BY <1>5 DEF StdIInv, StdRoles
  <1>7. /\ items' \in Seq(Items) /\ Len(items') = Len(items) + 1 /\ Len(items) \in Nat
    BY <1>0, <1>1, <1>3, AppendFacts
  <1>8. StdRoles'
    <2>1. \A q \in Producers : q \in qReturned' => sent'[q] = PerProducer
      BY <1>0, <1>1, <1>5 DEF StdIInv, StdRoles
    <2> QED
      BY <1>0, <1>1, <1>2, <1>4, <1>6, <1>7, <2>1 DEF StdIInv, StdRoles
  <1>9. StdPills'
    <2>1. PillsLast(items, 0 - Cardinality(StdTakers))
      BY <1>6 DEF StdIInv, StdPills
    <2>2. StdTakers \in SUBSET Consumers
      BY DEF StdTakers
    <2>3. StdTakers = {} /\ 0 - Cardinality(StdTakers) = 0
      BY <1>1, <2>1, <2>2, NoPillsYet
    <2>4. PillsLast(items', 0)
      BY <1>0, <1>1, <1>3, <2>1, <2>3, PillsNumber
    <2> QED
      BY <1>0, <1>4, <1>6, <2>3, <2>4 DEF StdPills
  <1>10. StdBook'
    <2>1. Book(items, StdCarried \cup {<<Main, v>>}, qConsumed, HandedIn(sent) \cup {v})
      BY <1>2, BookHand DEF StdIInv, StdBook
    <2>2. Book(Append(items, v), (StdCarried \cup {<<Main, v>>}) \ {<<Main, v>>}, qConsumed,
               HandedIn(sent) \cup {v})
      BY <1>1, <1>3, <2>1, BookIn
    <2>3. (StdCarried \cup {<<Main, v>>}) \ {<<Main, v>>} = StdCarried
      BY ProgramAssumption DEF StdCarried
    <2> QED
      BY <1>0, <1>2, <1>4, <2>2, <2>3 DEF StdBook
  <1>11. StdUnfinished'
    <2>1. Cardinality(StdBusy) \in Nat
      BY ConsumersFinite DEF StdBusy
    <2> QED
      BY <1>0, <1>4, <1>7, <2>1 DEF StdIInv, StdUnfinished
  <1> QED
    BY <1>8, <1>9, <1>10, <1>11 DEF StdIInv

LEMMA StdReturnsIInv ==
  ASSUME StdIInv, StdReturn \/ \E p \in Producers : StdProducerReturn(p)
  PROVE  StdIInv'
  <1>1. UNCHANGED <<items, unfinished, sent, item, kept, qPills, qConsumed>>
    BY DEF StdReturn, StdProducerReturn, queueVars
  <1>2. \A c \in Consumers : c \in qReturned' <=> c \in qReturned
    BY ProgramAssumption DEF StdReturn, StdProducerReturn
  <1>3. StdCarried' = StdCarried /\ StdTakers' = StdTakers /\ StdBusy' = StdBusy
    BY <1>1, <1>2 DEF StdCarried, StdTakers, StdBusy
  <1>4. /\ \A p \in Producers : p \in qReturned' => sent[p] = PerProducer
        /\ qPills > 0 => Producers \subseteq qReturned'
        /\ Main \in qReturned' => Consumers \subseteq qReturned' /\ qPills = Cardinality(Consumers)
    BY ProgramAssumption DEF StdIInv, StdRoles, StdReturn, StdProducerReturn
  <1>5. StdRoles'
    BY <1>1, <1>2, <1>3, <1>4 DEF StdIInv, StdRoles
  <1>6. StdPills' /\ StdBook' /\ StdUnfinished'
    BY <1>1, <1>3 DEF StdIInv, StdPills, StdBook, StdUnfinished
  <1> QED
    BY <1>5, <1>6 DEF StdIInv

LEMMA StdGetIInv ==
  ASSUME StdIInv, NEW c \in Consumers, StdGet(c)
  PROVE  StdIInv'
  <1> DEFINE v == Head(items)
  <1>0. /\ item[c] = NoItem /\ c \notin qReturned /\ items # << >>
        /\ items' = Tail(items) /\ item' = [item EXCEPT ![c] = v]
        /\ UNCHANGED <<unfinished, sent, kept, qPills, qConsumed, qReturned>>
    BY DEF StdGet, QueueGet
  <1>1. /\ items \in Seq(Items) /\ item \in [Consumers -> Items \cup {NoItem}]
        /\ kept \subseteq StdBusy /\ unfinished \in Nat
    BY DEF StdIInv, StdRoles
  <1>2. v \in Items /\ v # NoItem /\ items' \in Seq(Items) /\ DONE # NoItem
    BY <1>0, <1>1, TailFacts, BufferAssumption, ProgramAssumption
  <1> HIDE DEF v
  <1>3. item'[c] = v /\ \A d \in Consumers : d # c => item'[d] = item[d]
    BY <1>0, <1>1
  <1>4. c \notin kept /\ c \notin StdTakers /\ c \notin StdBusy
    BY <1>0, <1>1, <1>2 DEF StdBusy, StdTakers
  <1>5. StdBusy' = StdBusy \cup {c}
    BY <1>2, <1>3, <1>4 DEF StdBusy
  <1>6. StdCarried' = StdCarried \cup {<<c, v>>}
    BY <1>0, <1>2, <1>3, <1>4 DEF StdCarried
  <1>7. StdTakers' = StdTakers \cup (IF v = DONE THEN {c} ELSE {})
    BY <1>0, <1>2, <1>3, <1>4 DEF StdTakers
  <1>8. StdRoles'
    <2>1. item' \in [Consumers -> Items \cup {NoItem}]
      BY <1>0, <1>1, <1>2
    <2>2. kept' \subseteq StdBusy'
      BY <1>0, <1>1, <1>5
    <2>3. \A d \in Consumers : d \in qReturned' => item'[d] = NoItem
      BY <1>0, <1>3 DEF StdIInv, StdRoles
    <2> QED
      BY <1>0, <1>2, <2>1, <2>2, <2>3 DEF StdIInv, StdRoles
  <1> DEFINE n == qPills - Cardinality(StdTakers)
  <1>9. /\ Cardinality(StdTakers) \in Nat /\ Cardinality(StdBusy) \in Nat
        /\ Cardinality(StdTakers \cup {c}) = Cardinality(StdTakers) + 1
        /\ Cardinality(StdBusy \cup {c}) = Cardinality(StdBusy) + 1
    <2>1. StdTakers \in SUBSET Consumers /\ StdBusy \in SUBSET Consumers
      BY DEF StdTakers, StdBusy
    <2> QED
      BY <1>4, <2>1, ConsumersFinite, FS_AddElement
  <1>10. PillsLast(items, n) /\ (StdTakers # {} => n = Len(items)) /\ qPills \in Nat
    BY ConsumersFinite DEF StdIInv, StdPills, StdRoles
  <1>11. /\ Len(items') = Len(items) - 1 /\ Len(items) \in Nat \ {0}
         /\ v = DONE => n = Len(items) /\ PillsLast(items', n - 1)
         /\ v # DONE => n < Len(items) /\ PillsLast(items', n)
         /\ n \in Nat
    BY <1>0, <1>1, <1>10, PillsOut DEF v
  <1>12. StdPills'
    <2>1. CASE v = DONE
      <3>1. StdTakers' = StdTakers \cup {c}
        BY <1>7, <2>1
      <3>2. qPills' - Cardinality(StdTakers') = n - 1
        BY <1>0, <1>9, <1>10, <3>1
      <3> QED
        BY <1>11, <2>1, <3>2 DEF StdPills
    <2>2. CASE v # DONE
      <3>1. StdTakers' = StdTakers
        BY <1>7, <2>2
      <3>2. StdTakers = {}
        BY <1>10, <1>11, <2>2
      <3> QED
        BY <1>0, <1>11, <2>2, <3>1, <3>2 DEF StdPills
    <2> QED
      BY <2>1, <2>2
  <1>13. StdBook'
    BY <1>0, <1>1, <1>6, BookOut DEF StdIInv, StdBook, v
  <1>14. StdUnfinished'
    <2>1. unfinished = Len(items) + Cardinality(StdBusy)
      BY DEF StdIInv, StdUnfinished
    <2>2. \A x, y \in Nat : x + y = x - 1 + (y + 1)
      OBVIOUS
    <2> QED
      BY <1>0, <1>5, <1>9, <1>11, <2>1, <2>2 DEF StdUnfinished
  <1> QED
    BY <1>8, <1>12, <1>13, <1>14 DEF StdIInv

LEMMA StdKeepIInv ==
  ASSUME StdIInv, NEW c \in Consumers, StdKeep(c)
  PROVE  StdIInv'
  <1> DEFINE v == item[c]
  <1>0. /\ v # NoItem /\ c \notin kept /\ kept' = kept \cup {c}
        /\ qConsumed' = IF v = DONE THEN qConsumed ELSE Append(qConsumed, v)
        /\ UNCHANGED <<items, unfinished, sent, item, qPills, qReturned>>
    BY DEF StdKeep, queueVars
  <1>1. /\ item \in [Consumers -> Items \cup {NoItem}] /\ qConsumed \in Seq(Data)
        /\ kept \subseteq StdBusy
    BY DEF StdIInv, StdRoles
  <1>2. v \in Data \cup {DONE} /\ DONE \notin Data
    BY <1>0, <1>1, ProgramAssumption
  <1>3. StdTakers' = StdTakers /\ StdBusy' = StdBusy /\ c \in StdBusy
    BY <1>0 DEF StdTakers, StdBusy
  <1>4. StdCarried' = StdCarried \ {<<c, v>>} /\ <<c, v>> \in StdCarried
    <2>1. <<c, v>> \in StdCarried
      BY <1>0 DEF StdCarried
    <2>2. ASSUME NEW h \in StdCarried' PROVE h \in StdCarried \ {<<c, v>>}
      BY <1>0, <2>2 DEF StdCarried
    <2>3. ASSUME NEW h \in StdCarried, h # <<c, v>> PROVE h \in StdCarried'
      BY <1>0, <2>3 DEF StdCarried
    <2> QED
      BY <2>1, <2>2, <2>3
  <1> HIDE DEF v
  <1>5. qConsumed' \in Seq(Data)
    BY <1>0, <1>1, <1>2, AppendProperties
  <1>6. StdRoles'
    BY <1>0, <1>1, <1>3, <1>5 DEF StdIInv, StdRoles
  <1>7. StdPills' /\ StdUnfinished'
    BY <1>0, <1>3 DEF StdIInv, StdPills, StdUnfinished
  <1>8. StdBook'
    <2>1. CASE v = DONE
      BY <1>0, <1>2, <1>4, <2>1, BookPill DEF StdIInv, StdBook
    <2>2. CASE v # DONE
      <3>1. v \in Data /\ HandedIn(sent) \in SUBSET Data
        BY <1>2, <2>2 DEF HandedIn
      <3>2. Book(items, StdCarried \ {<<c, v>>}, Append(qConsumed, v), HandedIn(sent))
        BY <1>1, <1>4, <3>1, BookRecord DEF StdIInv, StdBook
      <3> QED
        BY <1>0, <1>4, <2>2, <3>2 DEF StdBook
    <2> QED
      BY <2>1, <2>2
  <1> QED
    BY <1>6, <1>7, <1>8 DEF StdIInv

LEMMA StdFinallyIInv ==
  ASSUME StdIInv, NEW c \in Consumers, StdFinally(c)
  PROVE  StdIInv'
  <1>0. /\ c \in kept /\ kept' = kept \ {c} /\ unfinished' = unfinished - 1
        /\ item' = [item EXCEPT ![c] = NoItem]
        /\ qReturned' = IF item[c] = DONE THEN qReturned \cup {c} ELSE qReturned
        /\ UNCHANGED <<items, sent, qPills, qConsumed>>
    BY DEF StdFinally, StdTaskDone, QueueTaskDone
  <1>1. /\ item \in [Consumers -> Items \cup {NoItem}] /\ kept \subseteq StdBusy
        /\ \A d \in Consumers : d \in qReturned => item[d] = NoItem
        /\ items \in Seq(Items)
    BY DEF StdIInv, StdRoles
  <1>2. item[c] # NoItem /\ c \in StdBusy /\ c \notin qReturned /\ DONE # NoItem
    BY <1>0, <1>1, BufferAssumption, ProgramAssumption DEF StdBusy
  <1>3. item'[c] = NoItem /\ \A d \in Consumers : d # c => item'[d] = item[d]
    BY <1>0, <1>1
  <1>4. StdTakers' = StdTakers
    BY <1>0, <1>2, <1>3 DEF StdTakers
  <1>5. StdBusy' = StdBusy \ {c}
    BY <1>3 DEF StdBusy
  <1>6. StdCarried' = StdCarried
    BY <1>0, <1>3 DEF StdCarried
  <1>7. /\ Cardinality(StdBusy) \in Nat /\ Cardinality(StdBusy') \in Nat
        /\ Cardinality(StdBusy') = Cardinality(StdBusy) - 1
    <2>1. StdBusy \in SUBSET Consumers /\ StdBusy' \in SUBSET Consumers
      BY DEF StdBusy
    <2> QED
      BY <1>2, <1>5, <2>1, ConsumersFinite, FS_RemoveElement
  <1>8. StdUnfinished' /\ unfinished' \in Nat
    <2>1. Len(items) \in Nat /\ unfinished = Len(items) + Cardinality(StdBusy)
      BY <1>1, LenProperties DEF StdIInv, StdUnfinished
    <2>2. \A x, y \in Nat : x + y - 1 = x + (y - 1)
      OBVIOUS
    <2>3. unfinished' = Len(items) + Cardinality(StdBusy')
      BY <1>0, <1>7, <2>1, <2>2
    <2> QED
      BY <1>0, <1>7, <2>1, <2>3 DEF StdUnfinished
  <1>9. StdRoles'
    <2>1. item' \in [Consumers -> Items \cup {NoItem}]
      BY <1>0, <1>1
    <2>2. kept' \subseteq StdBusy'
      BY <1>0, <1>1, <1>5
    <2>3. \A d \in Consumers : d \in qReturned' => item'[d] = NoItem
      BY <1>0, <1>1, <1>3
    <2>4. /\ \A q \in Producers : q \in qReturned' <=> q \in qReturned
          /\ Main \in qReturned' <=> Main \in qReturned
          /\ qReturned \subseteq qReturned'
      BY <1>0, ProgramAssumption
    <2> QED
      BY <1>0, <1>8, <2>1, <2>2, <2>3, <2>4 DEF StdIInv, StdRoles
  <1>10. StdPills' /\ StdBook'
    BY <1>0, <1>4, <1>6 DEF StdIInv, StdPills, StdBook
  <1> QED
    BY <1>8, <1>9, <1>10 DEF StdIInv

LEMMA StdPutPillIInv ==
  ASSUME StdIInv, StdPutPill
  PROVE  StdIInv'
  <1>0. /\ Producers \subseteq qReturned /\ qPills < Cardinality(Consumers)
        /\ items' = Append(items, DONE) /\ unfinished' = unfinished + 1
        /\ qPills' = qPills + 1
        /\ UNCHANGED <<sent, item, kept, qConsumed, qReturned>>
    BY DEF StdPutPill, QueuePut
  <1>1. /\ items \in Seq(Items) /\ unfinished \in Nat /\ DONE \in Items /\ DONE \notin Data
        /\ Cardinality(Consumers) \in Nat /\ qPills \in Nat
        /\ Cardinality(StdTakers) \in Nat /\ Cardinality(StdBusy) \in Nat
    <2>1. StdTakers \in SUBSET Consumers /\ StdBusy \in SUBSET Consumers
      BY DEF StdTakers, StdBusy
    <2> QED
      BY <2>1, ConsumersFinite, ProgramAssumption DEF StdIInv, StdRoles
  <1>2. StdCarried' = StdCarried /\ StdTakers' = StdTakers /\ StdBusy' = StdBusy
    BY <1>0 DEF StdCarried, StdTakers, StdBusy
  <1>3. items' \in Seq(Items) /\ Len(items') = Len(items) + 1 /\ Len(items) \in Nat
    BY <1>0, <1>1, AppendFacts
  <1>4. StdRoles'
    <2>1. Main \notin qReturned
      BY <1>0, <1>1 DEF StdIInv, StdRoles
    <2>2. qPills' \in 0 .. Cardinality(Consumers)
      BY <1>0, <1>1
    <2> QED
      BY <1>0, <1>1, <1>2, <1>3, <2>1, <2>2 DEF StdIInv, StdRoles
  <1>5. StdPills'
    <2> DEFINE n == qPills - Cardinality(StdTakers)
    <2>1. PillsLast(items, n) /\ (StdTakers # {} => n = Len(items))
      BY DEF StdIInv, StdPills
    <2>2. qPills' - Cardinality(StdTakers') = n + 1
      BY <1>0, <1>1, <1>2
    <2> HIDE DEF n
    <2>3. PillsLast(items', n + 1)
      BY <1>0, <1>1, <2>1, PillsPut
    <2> QED
      BY <1>2, <1>3, <2>1, <2>2, <2>3 DEF StdPills
  <1>6. StdBook'
    <2>1. Book(items, StdCarried \cup {<<Main, DONE>>}, qConsumed, HandedIn(sent))
      BY <1>1, BookPill DEF StdIInv, StdBook
    <2>2. Book(Append(items, DONE), (StdCarried \cup {<<Main, DONE>>}) \ {<<Main, DONE>>}, qConsumed, HandedIn(sent))
      BY <1>1, <2>1, BookIn
    <2>3. (StdCarried \cup {<<Main, DONE>>}) \ {<<Main, DONE>>} = StdCarried
      BY ProgramAssumption DEF StdCarried
    <2> QED
      BY <1>0, <1>2, <2>2, <2>3 DEF StdBook
  <1>7. StdUnfinished'
    BY <1>0, <1>1, <1>2, <1>3 DEF StdIInv, StdUnfinished
  <1> QED
    BY <1>4, <1>5, <1>6, <1>7 DEF StdIInv

\* verify() holds of the second run because nothing can be on its way.
LEMMA StdIInvVerified == StdIInv => StdVerified
  <1> SUFFICES ASSUME StdIInv, Main \in qReturned
               PROVE  /\ items = << >> /\ QueueJoined
                      /\ {qConsumed[k] : k \in DOMAIN qConsumed} = Data
                      /\ Len(qConsumed) = NumProducers * PerProducer
    BY DEF StdVerified
  <1>1. /\ Consumers \subseteq qReturned /\ qPills = Cardinality(Consumers)
        /\ items \in Seq(Items) /\ qConsumed \in Seq(Data)
        /\ sent \in [Producers -> 0 .. PerProducer]
        /\ \A c \in Consumers : item[c] = NoItem
    BY DEF StdIInv, StdRoles
  <1>2. IsFiniteSet(Consumers) /\ Cardinality(Consumers) \in Nat /\ Cardinality(Consumers) # 0
    BY ProgramAssumption, ConsumersFinite, FS_EmptySet
  <1>3. StdTakers = Consumers /\ StdCarried = {} /\ StdBusy = {}
    BY <1>1 DEF StdTakers, StdCarried, StdBusy
  <1>4. Len(items) = 0
    <2>1. StdTakers # {}
      BY <1>3, ProgramAssumption
    <2> QED
      BY <1>1, <1>2, <1>3, <2>1 DEF StdIInv, StdPills
  <1>5. items = << >>
    BY <1>1, <1>4, EmptySeq
  <1>6. unfinished = 0
    BY <1>3, <1>4, FS_EmptySet DEF StdIInv, StdUnfinished
  <1>7. \A p \in Producers : sent[p] = PerProducer
    BY <1>1, <1>2 DEF StdIInv, StdRoles
  <1>8. HandedIn(sent) = Data
    BY <1>1, <1>7, AllHandedIn
  <1>9. Book(<< >>, {}, qConsumed, Data)
    BY <1>3, <1>5, <1>8 DEF StdIInv, StdBook
  <1> QED
    BY <1>1, <1>5, <1>6, <1>9, BookClosed DEF QueueJoined

-----------------------------------------------------------------------------
(* run_with_raw_buffer() keeps its invariant.                               *)

LEMMA Kinds ==
  /\ Threads = Producers \cup Consumers \cup {Main}
  /\ Producers \cap Consumers = {} /\ Main \notin Producers /\ Main \notin Consumers
  /\ PutPC \cap GetPC = {} /\ "idle" \notin PutPC /\ "idle" \notin GetPC
  /\ "idle" \notin Carrying /\ "idle" \notin Holding /\ Holding \subseteq Carrying
  /\ Holding \subseteq GetPC /\ Holding \cap PutPC = {}
  /\ GetPC \cap Carrying = Holding
  BY ProgramAssumption DEF PutPC, GetPC, Carrying, Holding

LEMMA RawInitIInv == ProgInit => RawIInv
  <1> SUFFICES ASSUME ProgInit PROVE RawIInv
    OBVIOUS
  <1> USE DEF ProgInit, Init
  <1>1. IInv
    BY InitIInv
  <1>2. \A t \in Threads : pc[t] = "idle"
    OBVIOUS
  <1>3. Carried = {} /\ Takers = {} /\ PillsIn = 0
    <2>1. Carried = {}
      BY <1>2, Kinds DEF Carried
    <2>2. Takers = {}
      BY <1>2, Kinds DEF Takers
    <2>3. PillsIn = 0
      <3>1. Main \in Threads
        BY Kinds
      <3>2. pc[Main] \notin Carrying
        BY <1>2, <3>1, Kinds
      <3>3. pills = 0
        OBVIOUS
      <3>4. PillsIn = pills - 0
        BY <3>2 DEF PillsIn
      <3> QED
        BY <3>3, <3>4
    <2> QED
      BY <2>1, <2>2, <2>3
  <1>4. Cardinality(Consumers) \in Nat /\ PerProducer \in Nat
    BY ConsumersFinite, ProgramAssumption
  <1>5. RawRoles
    BY <1>2, <1>4, Kinds DEF RawRoles
  <1>6. RawPills
    BY <1>3, FS_EmptySet, PillsOpened DEF RawPills, PillsQueued
  <1>7. RawBook
    <2>1. HandedIn(i) = {}
      BY NoneHandedIn
    <2> QED
      BY <1>3, <2>1, BookOpened DEF RawBook
  <1> QED
    BY <1>1, <1>5, <1>6, <1>7 DEF RawIInv

\* A notify() wakes a thread that sleeps in the condition's wait().
LEMMA WokenAsleep ==
  ASSUME IInv
  PROVE  /\ \A u \in Woken(notEmpty) : u \in Threads /\ pc[u] = "g_wait"
         /\ \A u \in Woken(notFull) : u \in Threads /\ pc[u] = "p_wait"
  <1>1. notEmpty \in Seq(Threads) /\ notFull \in Seq(Threads)
    BY DEF IInv, TypeOK
  <1>2. notEmpty # << >> => Head(notEmpty) \in Threads /\ pc[Head(notEmpty)] = "g_wait"
    BY <1>1, TailFacts DEF IInv, Asleep
  <1>3. notFull # << >> => Head(notFull) \in Threads /\ pc[Head(notFull)] = "p_wait"
    BY <1>1, TailFacts DEF IInv, Asleep
  <1> QED
    BY <1>2, <1>3 DEF Woken

\* The steps of put() and get() that neither change the deque nor hand over
\* anything: every thread carries after them what it carried before.
QuietStep(t) ==
  \/ PutEnter(t) \/ PutGo(t) \/ PutWait(t) \/ PutNotify(t)
  \/ GetEnter(t) \/ GetGo(t) \/ GetWait(t) \/ GetNotify(t)

LEMMA QuietMoves ==
  ASSUME IInv, NEW t \in Threads, QuietStep(t), NEW u \in Threads
  PROVE  /\ pc'[u] \in Carrying <=> pc[u] \in Carrying
         /\ pc'[u] \in Holding <=> pc[u] \in Holding
         /\ pc'[u] \in Carrying => hand'[u] = hand[u]
         /\ pc'[u] \in PutPC => pc[u] \in PutPC /\ hand'[u] = hand[u]
         /\ pc'[u] \in GetPC => pc[u] \in GetPC
         /\ pc[u] = "idle" => pc'[u] = "idle"
         /\ buf' = buf
  <1> USE DEF Carrying, Holding, PutPC, GetPC
  <1>0. pc \in [Threads -> {"idle"} \cup PutPC \cup GetPC] /\ hand \in [Threads -> Items \cup {NoItem}]
    BY DEF IInv, TypeOK
  <1>1. CASE PutEnter(t) \/ PutGo(t) \/ PutWait(t)
    BY <1>0, <1>1 DEF PutEnter, PutGo, PutWait
  <1>2. CASE GetEnter(t) \/ GetGo(t) \/ GetWait(t)
    BY <1>0, <1>2 DEF GetEnter, GetGo, GetWait
  <1>3. CASE PutNotify(t)
    <2>1. /\ buf' = buf /\ pc[t] = "p_notify" /\ pc'[t] = "idle"
          /\ u # t => hand'[u] = hand[u]
          /\ u # t /\ u \in Woken(notEmpty) => pc'[u] = "g_enter"
          /\ u # t /\ u \notin Woken(notEmpty) => pc'[u] = pc[u]
      BY <1>0, <1>3 DEF PutNotify
    <2> QED
      BY <1>0, <2>1, WokenAsleep
  <1>4. CASE GetNotify(t)
    <2>1. /\ buf' = buf /\ pc[t] = "g_notify" /\ pc'[t] = "g_return" /\ hand' = hand
          /\ u # t /\ u \in Woken(notFull) => pc'[u] = "p_enter"
          /\ u # t /\ u \notin Woken(notFull) => pc'[u] = pc[u]
      BY <1>0, <1>4 DEF GetNotify
    <2> QED
      BY <1>0, <2>1, WokenAsleep
  <1> QED
    BY <1>1, <1>2, <1>3, <1>4 DEF QuietStep

\* A step of put() or get() leaves every thread in its role.
LEMMA RolesKept ==
  ASSUME IInv, RawRoles, UNCHANGED progVars, IInv',
         \A u \in Threads : /\ pc'[u] \in PutPC => pc[u] \in PutPC /\ hand'[u] = hand[u]
                            /\ pc'[u] \in GetPC => pc[u] \in GetPC
                            /\ pc[u] = "idle" => pc'[u] = "idle"
                            /\ u \in Consumers /\ pc'[u] \in Holding => hand'[u] \in Items
  PROVE  RawRoles'
  <1>1. \A u \in Threads : pc'[u] \in {"idle"} \cup PutPC \cup GetPC
    BY DEF IInv, TypeOK
  <1>2. UNCHANGED <<i, pills, consumed, returned>>
    BY DEF progVars
  <1>3. \A t \in returned' : pc'[t] = "idle"
    BY <1>2 DEF RawRoles
  <1>4. ASSUME NEW p \in Producers
        PROVE  /\ pc'[p] \in {"idle"} \cup PutPC
               /\ pc'[p] \in PutPC => i[p] >= 1 /\ hand'[p] = Encode(p, i[p] - 1)
    <2>1. p \in Threads /\ pc[p] \notin GetPC
      BY <1>4, Kinds DEF RawRoles
    <2> QED
      BY <1>1, <2>1 DEF RawRoles
  <1>5. \A c \in Consumers : pc'[c] \in {"idle"} \cup GetPC
    BY <1>1, Kinds DEF RawRoles
  <1>6. pc'[Main] \in {"idle"} \cup PutPC /\ (pc'[Main] \in PutPC => hand'[Main] = DONE /\ pills >= 1)
    BY <1>1, Kinds DEF RawRoles
  <1>7. \A c \in Consumers : pc'[c] \in Holding => hand'[c] \in Items
    BY Kinds
  <1> QED
    BY <1>2, <1>3, <1>4, <1>5, <1>6, <1>7 DEF RawRoles

\* What the account depends on.
LEMMA CarriedSame ==
  ASSUME \A u \in Threads : /\ pc'[u] \in Carrying <=> pc[u] \in Carrying
                            /\ pc'[u] \in Carrying => hand'[u] = hand[u]
  PROVE  Carried' = Carried
  BY DEF Carried

LEMMA CarriedMore ==
  ASSUME NEW t \in Threads, pc[t] \notin Carrying, pc'[t] \in Carrying,
         \A u \in Threads : u # t => /\ pc'[u] \in Carrying <=> pc[u] \in Carrying
                                     /\ hand'[u] = hand[u]
  PROVE  Carried' = Carried \cup {<<t, hand'[t]>>}
  BY DEF Carried

LEMMA CarriedLess ==
  ASSUME NEW t \in Threads, pc[t] \in Carrying, pc'[t] \notin Carrying,
         \A u \in Threads : u # t => /\ pc'[u] \in Carrying <=> pc[u] \in Carrying
                                     /\ hand'[u] = hand[u]
  PROVE  Carried' = Carried \ {<<t, hand[t]>>} /\ <<t, hand[t]>> \in Carried
  <1>1. <<t, hand[t]>> \in Carried
    BY DEF Carried
  <1>2. ASSUME NEW h \in Carried' PROVE h \in Carried \ {<<t, hand[t]>>}
    BY <1>2 DEF Carried
  <1>3. ASSUME NEW h \in Carried, h # <<t, hand[t]>> PROVE h \in Carried'
    BY <1>3 DEF Carried
  <1> QED
    BY <1>1, <1>2, <1>3

LEMMA QuietRaw ==
  ASSUME RawIInv, NEW t \in Threads, QuietStep(t), UNCHANGED progVars
  PROVE  RawIInv'
  <1>1. IInv'
    BY PutEnterIInv, PutGoIInv, PutWaitIInv, PutNotifyIInv,
       GetEnterIInv, GetGoIInv, GetWaitIInv, GetNotifyIInv DEF RawIInv, QuietStep
  <1>2. \A u \in Threads :
          /\ pc'[u] \in Carrying <=> pc[u] \in Carrying
          /\ pc'[u] \in Holding <=> pc[u] \in Holding
          /\ pc'[u] \in Carrying => hand'[u] = hand[u]
          /\ pc'[u] \in PutPC => pc[u] \in PutPC /\ hand'[u] = hand[u]
          /\ pc'[u] \in GetPC => pc[u] \in GetPC
          /\ pc[u] = "idle" => pc'[u] = "idle"
    BY QuietMoves DEF RawIInv
  <1>3. buf' = buf /\ UNCHANGED <<i, pills, consumed, returned>>
    BY QuietMoves DEF RawIInv, progVars
  <1>4. Carried' = Carried
    BY <1>2, CarriedSame
  <1>5. Takers' = Takers
    BY <1>2, <1>3, Kinds DEF Takers
  <1>6. PillsIn' = PillsIn
    BY <1>2, <1>3, Kinds DEF PillsIn
  <1>7. RawRoles'
    <2>1. \A u \in Threads : u \in Consumers /\ pc'[u] \in Holding => hand'[u] \in Items
      BY <1>2, Kinds DEF RawIInv, RawRoles
    <2> QED
      BY <1>1, <1>2, <2>1, RolesKept DEF RawIInv
  <1>8. RawPills' /\ RawBook'
    BY <1>3, <1>4, <1>5, <1>6 DEF RawIInv, RawPills, RawBook, PillsQueued
  <1> QED
    BY <1>1, <1>7, <1>8 DEF RawIInv

-----------------------------------------------------------------------------
LEMMA TakersFinite ==
  /\ IsFiniteSet(Takers) /\ Cardinality(Takers) \in Nat
  /\ Cardinality(Consumers) \in Nat /\ Cardinality(Consumers) # 0
  <1>1. Takers \in SUBSET Consumers
    BY DEF Takers
  <1> QED
    BY <1>1, ConsumersFinite, ProgramAssumption, FS_EmptySet

LEMMA PillsInNat ==
  ASSUME RawRoles
  PROVE  PillsIn \in Nat /\ pills \in Nat
  <1>1. pills \in Nat /\ (pc[Main] \in Carrying => pills >= 1)
    BY TakersFinite DEF RawRoles, Carrying, PutPC
  <1> QED
    BY <1>1 DEF PillsIn

\* A producer or main appends what it was given to put().
LEMMA AppendRaw ==
  ASSUME RawIInv, NEW t \in Threads, PutAppend(t), UNCHANGED progVars
  PROVE  RawIInv'
  <1> DEFINE v == hand[t]
  <1>0. /\ pc \in [Threads -> {"idle"} \cup PutPC \cup GetPC]
        /\ buf \in Seq(Items) /\ pc[t] = "p_append" /\ v \in Items
        /\ buf' = Append(buf, v) /\ pc' = [pc EXCEPT ![t] = "p_notify"] /\ hand' = hand
        /\ UNCHANGED <<i, pills, consumed, returned>>
    BY DEF RawIInv, IInv, TypeOK, Room, PutPC, PutAppend, progVars
  <1>1. IInv'
    BY PutAppendIInv DEF RawIInv
  <1>2. /\ pc'[t] = "p_notify" /\ \A u \in Threads : u # t => pc'[u] = pc[u]
    BY <1>0
  <1>3. RawRoles'
    <2>1. \A u \in Threads : /\ pc'[u] \in PutPC => pc[u] \in PutPC /\ hand'[u] = hand[u]
                             /\ pc'[u] \in GetPC => pc[u] \in GetPC
                             /\ pc[u] = "idle" => pc'[u] = "idle"
                             /\ pc'[u] \in Holding => pc[u] \in Holding
      BY <1>0, <1>2 DEF PutPC, GetPC, Holding
    <2>2. \A u \in Threads : u \in Consumers /\ pc'[u] \in Holding => hand'[u] \in Items
      BY <1>0, <2>1 DEF RawIInv, RawRoles
    <2> QED
      BY <1>1, <2>1, <2>2, RolesKept DEF RawIInv
  <1>4. Carried' = Carried \ {<<t, v>>} /\ <<t, v>> \in Carried
    <2>1. pc[t] \in Carrying /\ pc'[t] \notin Carrying
      BY <1>0, <1>2 DEF Carrying
    <2> QED
      BY <1>0, <1>2, <2>1, CarriedLess
  <1> HIDE DEF v
  <1>5. RawBook'
    BY <1>0, <1>4, BookIn DEF RawIInv, RawBook
  <1>6. Takers' = Takers
    <2>1. t \notin Consumers
      BY <1>0 DEF RawIInv, RawRoles, GetPC
    <2> QED
      BY <1>0, <1>2, <2>1, Kinds DEF Takers
  <1> DEFINE n == PillsQueued
  <1>7. PillsLast(buf, n) /\ (Takers # {} => n = Len(buf)) /\ n = PillsIn - Cardinality(Takers)
    BY DEF RawIInv, RawPills, PillsQueued
  <1>8. PillsIn \in Nat /\ pills \in Nat /\ Cardinality(Takers) \in Nat
    BY PillsInNat, TakersFinite DEF RawIInv
  <1>9. Len(buf') = Len(buf) + 1 /\ Len(buf) \in Nat
    BY <1>0, AppendFacts
  <1> HIDE DEF n
  <1>10. CASE t \in Producers
    <2>1. v \in Data
      <3>1. i[t] >= 1 /\ v = Encode(t, i[t] - 1) /\ i[t] \in 0 .. PerProducer /\ PerProducer \in Nat
        BY <1>0, <1>10, ProgramAssumption DEF RawIInv, RawRoles, PutPC, v
      <3>2. i[t] - 1 \in 0 .. PerProducer - 1
        BY <3>1
      <3> QED
        BY <1>10, <3>1, <3>2, EncodeInData
    <2>2. pills = 0
      <3>1. t \notin returned
        BY <1>0 DEF RawIInv, RawRoles
      <3> QED
        BY <1>8, <1>10, <3>1 DEF RawIInv, RawRoles
    <2>3. PillsIn = 0
      <3>1. PillsIn = pills \/ PillsIn = pills - 1
        BY <1>8 DEF PillsIn
      <3> QED
        BY <1>8, <2>2, <3>1
    <2>4. Takers = {} /\ n = 0
      <3>1. Takers \in SUBSET Consumers
        BY DEF Takers
      <3> QED
        BY <1>0, <1>7, <2>3, <3>1, NoPillsYet
    <2>5. PillsLast(buf', 0)
      BY <1>0, <1>7, <2>1, <2>4, PillsNumber
    <2>6. PillsIn' = PillsIn
      BY <1>0, <1>2, <1>10, Kinds DEF PillsIn
    <2>7. PillsQueued' = 0
      BY <1>6, <1>7, <2>4, <2>6 DEF PillsQueued
    <2>8. RawPills'
      BY <1>6, <2>4, <2>5, <2>7 DEF RawPills
    <2> QED
      BY <1>1, <1>3, <1>5, <2>8 DEF RawIInv
  <1>11. CASE t = Main
    <2>1. v = DONE
      BY <1>0, <1>11 DEF RawIInv, RawRoles, PutPC, v
    <2>2. PillsIn' = PillsIn + 1
      BY <1>0, <1>2, <1>8, <1>11 DEF PillsIn, Carrying
    <2>3. PillsQueued' = n + 1
      BY <1>6, <1>7, <1>8, <2>2 DEF PillsQueued
    <2>4. PillsLast(buf', n + 1)
      BY <1>0, <1>7, <2>1, PillsPut
    <2>5. RawPills'
      BY <1>6, <1>7, <1>9, <2>3, <2>4 DEF RawPills
    <2> QED
      BY <1>1, <1>3, <1>5, <2>5 DEF RawIInv
  <1>12. t \in Producers \/ t = Main
    BY <1>0, Kinds DEF RawIInv, RawRoles, GetPC
  <1> QED
    BY <1>10, <1>11, <1>12

\* A consumer takes the first of the buffer.
LEMMA PopRaw ==
  ASSUME RawIInv, NEW t \in Threads, GetPop(t), UNCHANGED progVars
  PROVE  RawIInv'
  <1> DEFINE v == Head(buf)
  <1>0. /\ pc \in [Threads -> {"idle"} \cup PutPC \cup GetPC]
        /\ hand \in [Threads -> Items \cup {NoItem}]
        /\ buf \in Seq(Items) /\ buf # << >> /\ pc[t] = "g_pop"
        /\ buf' = Tail(buf) /\ pc' = [pc EXCEPT ![t] = "g_notify"]
        /\ hand' = [hand EXCEPT ![t] = v]
        /\ UNCHANGED <<i, pills, consumed, returned>>
    BY DEF RawIInv, IInv, TypeOK, Room, GetPop, progVars
  <1>1. IInv'
    BY GetPopIInv DEF RawIInv
  <1>2. v \in Items
    BY <1>0, TailFacts
  <1> HIDE DEF v
  <1>3. /\ pc'[t] = "g_notify" /\ hand'[t] = v
        /\ \A u \in Threads : u # t => pc'[u] = pc[u] /\ hand'[u] = hand[u]
    BY <1>0
  <1>4. RawRoles'
    <2>1. \A u \in Threads : /\ pc'[u] \in PutPC => pc[u] \in PutPC /\ hand'[u] = hand[u]
                             /\ pc'[u] \in GetPC => pc[u] \in GetPC
                             /\ pc[u] = "idle" => pc'[u] = "idle"
      BY <1>0, <1>3 DEF PutPC, GetPC
    <2>2. \A u \in Threads : u \in Consumers /\ pc'[u] \in Holding => hand'[u] \in Items
      BY <1>2, <1>3 DEF RawIInv, RawRoles
    <2> QED
      BY <1>1, <2>1, <2>2, RolesKept DEF RawIInv
  <1>5. Carried' = Carried \cup {<<t, v>>}
    <2>1. pc[t] \notin Carrying /\ pc'[t] \in Carrying
      BY <1>0, <1>3 DEF Carrying
    <2> QED
      BY <1>3, <2>1, CarriedMore
  <1>6. RawBook'
    BY <1>0, <1>5, BookOut DEF RawIInv, RawBook, v
  <1>7. t \in Consumers /\ t \notin returned
    BY <1>0, Kinds DEF RawIInv, RawRoles, PutPC
  <1>8. t \notin Takers /\ Takers' = Takers \cup (IF v = DONE THEN {t} ELSE {})
    BY <1>0, <1>3, <1>7, Kinds DEF Takers, Holding
  <1>9. PillsIn' = PillsIn
    BY <1>0, <1>3, <1>7, Kinds DEF PillsIn
  <1> DEFINE n == PillsQueued
  <1>10. PillsLast(buf, n) /\ (Takers # {} => n = Len(buf)) /\ n = PillsIn - Cardinality(Takers)
    BY DEF RawIInv, RawPills, PillsQueued
  <1>11. PillsIn \in Nat /\ IsFiniteSet(Takers) /\ Cardinality(Takers) \in Nat
    BY PillsInNat, TakersFinite DEF RawIInv
  <1> HIDE DEF n
  <1>12. /\ Len(buf') = Len(buf) - 1 /\ Len(buf) \in Nat \ {0} /\ n \in Nat
         /\ v = DONE => n = Len(buf) /\ PillsLast(buf', n - 1)
         /\ v # DONE => n < Len(buf) /\ PillsLast(buf', n)
    BY <1>0, <1>10, PillsOut DEF v
  <1>13. RawPills'
    <2>1. CASE v = DONE
      <3>1. Takers' = Takers \cup {t}
        BY <1>8, <2>1
      <3>2. Cardinality(Takers') = Cardinality(Takers) + 1
        BY <1>8, <1>11, <3>1, FS_AddElement
      <3>3. PillsQueued' = n - 1
        BY <1>9, <1>10, <1>11, <3>2 DEF PillsQueued
      <3> QED
        BY <1>12, <2>1, <3>3 DEF RawPills
    <2>2. CASE v # DONE
      <3>1. Takers' = Takers
        BY <1>8, <2>2
      <3>2. Takers = {}
        BY <1>10, <1>12, <2>2
      <3>3. PillsQueued' = n
        BY <1>9, <1>10, <3>1 DEF PillsQueued
      <3> QED
        BY <1>12, <2>2, <3>1, <3>2, <3>3 DEF RawPills
    <2> QED
      BY <2>1, <2>2
  <1> QED
    BY <1>1, <1>4, <1>6, <1>13 DEF RawIInv

LEMMA BufferStepRaw ==
  ASSUME RawIInv, NEW t \in Threads, BufferStep(t)
  PROVE  RawIInv'
  <1>1. UNCHANGED progVars /\ (QuietStep(t) \/ PutAppend(t) \/ GetPop(t))
    BY DEF BufferStep, PutStep, GetStep, QuietStep
  <1> QED
    BY <1>1, QuietRaw, AppendRaw, PopRaw

-----------------------------------------------------------------------------
LEMMA ProduceRaw ==
  ASSUME RawIInv, NEW p \in Producers, Produce(p)
  PROVE  RawIInv'
  <1> DEFINE v == Encode(p, i[p])
  <1>0. /\ p \in Threads /\ p \notin Consumers /\ p # Main
        /\ pc \in [Threads -> {"idle"} \cup PutPC \cup GetPC]
        /\ hand \in [Threads -> Items \cup {NoItem}]
        /\ i \in [Producers -> 0 .. PerProducer] /\ PerProducer \in Nat
        /\ pc[p] = "idle" /\ p \notin returned /\ i[p] < PerProducer
        /\ pc' = [pc EXCEPT ![p] = "p_enter"] /\ hand' = [hand EXCEPT ![p] = v]
        /\ i' = [i EXCEPT ![p] = @ + 1]
        /\ UNCHANGED <<buf, pills, consumed, returned>>
    BY Kinds, ProgramAssumption DEF RawIInv, IInv, TypeOK, RawRoles, Produce, Idle, CallPut
  <1>1. /\ HandedIn(i') = HandedIn(i) \cup {v} /\ v \in Data \ HandedIn(i)
        /\ i' \in [Producers -> 0 .. PerProducer]
    BY <1>0, HandIn
  <1>2. v \in Items
    BY <1>1, ProgramAssumption
  <1>3. IInv'
    BY <1>0, <1>2, CallPutIInv DEF RawIInv, Produce
  <1> HIDE DEF v
  <1>4. /\ pc'[p] = "p_enter" /\ hand'[p] = v /\ i'[p] = i[p] + 1 /\ i[p] \in Nat
        /\ \A u \in Threads : u # p => pc'[u] = pc[u] /\ hand'[u] = hand[u]
        /\ \A q \in Producers : q # p => i'[q] = i[q]
    BY <1>0
  <1>5. RawRoles'
    <2>1. i'[p] >= 1 /\ hand'[p] = Encode(p, i'[p] - 1)
      <3>1. i'[p] - 1 = i[p]
        BY <1>4
      <3> QED
        BY <1>4, <3>1 DEF v
    <2>2. \A q \in Producers : /\ pc'[q] \in {"idle"} \cup PutPC
                               /\ pc'[q] \in PutPC => i'[q] >= 1 /\ hand'[q] = Encode(q, i'[q] - 1)
                               /\ q \in returned => i'[q] = PerProducer
      <3>1. ASSUME NEW q \in Producers, q # p
            PROVE  /\ pc'[q] \in {"idle"} \cup PutPC
                   /\ pc'[q] \in PutPC => i'[q] >= 1 /\ hand'[q] = Encode(q, i'[q] - 1)
                   /\ q \in returned => i'[q] = PerProducer
        <4>1. pc'[q] = pc[q] /\ hand'[q] = hand[q] /\ i'[q] = i[q]
          BY <1>4, <3>1, Kinds
        <4> QED
          BY <4>1 DEF RawIInv, RawRoles
      <3>2. pc'[p] \in PutPC
        BY <1>4 DEF PutPC
      <3> QED
        BY <1>0, <2>1, <3>1, <3>2
    <2>3. \A t \in returned : pc'[t] = "idle"
      BY <1>0, <1>4 DEF RawIInv, RawRoles
    <2>4. \A c \in Consumers : pc'[c] = pc[c] /\ hand'[c] = hand[c]
      BY <1>0, <1>4, Kinds
    <2>5. pc'[Main] = pc[Main] /\ hand'[Main] = hand[Main]
      BY <1>0, <1>4, Kinds
    <2> QED
      BY <1>0, <1>1, <2>2, <2>3, <2>4, <2>5 DEF RawIInv, RawRoles
  <1>6. Carried' = Carried \cup {<<p, v>>}
    <2>1. pc[p] \notin Carrying /\ pc'[p] \in Carrying
      BY <1>0, <1>4 DEF Carrying
    <2> QED
      BY <1>0, <1>4, <2>1, CarriedMore
  <1>7. RawBook'
    <2>1. Book(buf, Carried \cup {<<p, v>>}, consumed, HandedIn(i) \cup {v})
      BY <1>1, BookHand DEF RawIInv, RawBook
    <2> QED
      BY <1>0, <1>1, <1>6, <2>1 DEF RawBook
  <1>8. Takers' = Takers /\ PillsIn' = PillsIn
    BY <1>0, <1>4, Kinds DEF Takers, PillsIn
  <1>9. RawPills'
    BY <1>0, <1>8 DEF RawIInv, RawPills, PillsQueued
  <1> QED
    BY <1>3, <1>5, <1>7, <1>9 DEF RawIInv

\* A thread whose function returns has nothing in its hands.
LEMMA ReturnRaw ==
  ASSUME RawIInv, MainReturn \/ \E p \in Producers : ProducerReturn(p)
  PROVE  RawIInv'
  <1>1. UNCHANGED <<buf, lock, notFull, notEmpty, pc, hand, puts, gets, i, pills, consumed>>
    BY DEF MainReturn, ProducerReturn, vars
  <1>2. IInv'
    BY <1>1 DEF RawIInv, IInv, TypeOK, MutualExclusion, Asleep, Room, Fifo
  <1>3. \A c \in Consumers : c \in returned' <=> c \in returned
    BY Kinds DEF MainReturn, ProducerReturn
  <1>4. Carried' = Carried /\ Takers' = Takers /\ PillsIn' = PillsIn
    BY <1>1, <1>3 DEF Carried, Takers, PillsIn
  <1>5. /\ returned' \subseteq Threads
        /\ \A t \in returned' : pc[t] = "idle"
        /\ \A p \in Producers : p \in returned' => i[p] = PerProducer
        /\ pills > 0 => Producers \subseteq returned'
        /\ Main \in returned' => Consumers \subseteq returned' /\ pills = Cardinality(Consumers)
    BY Kinds DEF RawIInv, RawRoles, MainReturn, ProducerReturn, Idle, PillsNeeded
  <1>6. RawRoles'
    BY <1>1, <1>5 DEF RawIInv, RawRoles
  <1>7. RawPills' /\ RawBook'
    BY <1>1, <1>4 DEF RawIInv, RawPills, RawBook, PillsQueued
  <1> QED
    BY <1>2, <1>6, <1>7 DEF RawIInv

LEMMA ConsumeRaw ==
  ASSUME RawIInv, NEW c \in Consumers, Consume(c)
  PROVE  RawIInv'
  <1>0. /\ c \in Threads /\ c \notin Producers /\ c # Main
        /\ pc \in [Threads -> {"idle"} \cup PutPC \cup GetPC]
        /\ pc[c] = "idle" /\ c \notin returned
        /\ pc' = [pc EXCEPT ![c] = "g_enter"]
        /\ UNCHANGED <<buf, hand, i, pills, consumed, returned>>
    BY Kinds DEF RawIInv, IInv, TypeOK, Consume, Idle, CallGet, progVars
  <1>1. IInv'
    BY <1>0, CallGetIInv DEF RawIInv, Consume
  <1>2. pc'[c] = "g_enter" /\ \A u \in Threads : u # c => pc'[u] = pc[u]
    BY <1>0
  <1>3. Carried' = Carried
    <2>1. \A u \in Threads : /\ pc'[u] \in Carrying <=> pc[u] \in Carrying
                             /\ pc'[u] \in Carrying => hand'[u] = hand[u]
      BY <1>0, <1>2 DEF Carrying
    <2> QED
      BY <2>1, CarriedSame
  <1>4. Takers' = Takers /\ PillsIn' = PillsIn
    BY <1>0, <1>2, Kinds DEF Takers, PillsIn, Holding
  <1>5. RawRoles'
    <2>1. \A p \in Producers : pc'[p] = pc[p]
      BY <1>0, <1>2, Kinds
    <2>2. \A d \in Consumers : /\ pc'[d] \in {"idle"} \cup GetPC
                               /\ pc'[d] \in Holding => hand[d] \in Items
      BY <1>2, Kinds DEF RawIInv, RawRoles, GetPC, Holding
    <2>3. pc'[Main] = pc[Main]
      BY <1>0, <1>2, Kinds
    <2>4. \A t \in returned : pc'[t] = "idle"
      BY <1>0, <1>2 DEF RawIInv, RawRoles
    <2> QED
      BY <1>0, <2>1, <2>2, <2>3, <2>4 DEF RawIInv, RawRoles
  <1>6. RawPills' /\ RawBook'
    BY <1>0, <1>3, <1>4 DEF RawIInv, RawPills, RawBook, PillsQueued
  <1> QED
    BY <1>1, <1>5, <1>6 DEF RawIInv

\* A consumer that got a number records it, one that got a pill returns.
LEMMA GotRaw ==
  ASSUME RawIInv, NEW c \in Consumers, Record(c) \/ ConsumerReturn(c)
  PROVE  RawIInv'
  <1> DEFINE v == hand[c]
  <1>0. /\ c \in Threads /\ c \notin Producers /\ c # Main
        /\ pc \in [Threads -> {"idle"} \cup PutPC \cup GetPC]
        /\ hand \in [Threads -> Items \cup {NoItem}]
        /\ consumed \in Seq(Data)
        /\ pc[c] = "g_return" /\ GetReturn(c)
        /\ pc' = [pc EXCEPT ![c] = "idle"] /\ hand' = [hand EXCEPT ![c] = NoItem]
        /\ UNCHANGED <<buf, i, pills>>
    BY Kinds DEF RawIInv, IInv, TypeOK, RawRoles, Record, ConsumerReturn, GetReturn
  <1>1. IInv'
    BY <1>0, GetReturnIInv DEF RawIInv
  <1>2. /\ pc'[c] = "idle" /\ v \in Data \cup {DONE} /\ DONE \notin Data
        /\ \A u \in Threads : u # c => pc'[u] = pc[u] /\ hand'[u] = hand[u]
    BY <1>0, ProgramAssumption DEF RawIInv, RawRoles, Holding
  <1>3. /\ Record(c) => v # DONE /\ consumed' = Append(consumed, v) /\ returned' = returned
        /\ ConsumerReturn(c) => v = DONE /\ consumed' = consumed /\ returned' = returned \cup {c}
    BY DEF Record, ConsumerReturn
  <1>4. Carried' = Carried \ {<<c, v>>} /\ <<c, v>> \in Carried
    <2>1. pc[c] \in Carrying /\ pc'[c] \notin Carrying
      BY <1>0, <1>2 DEF Carrying
    <2> QED
      BY <1>0, <1>2, <2>1, CarriedLess
  <1>5. c \notin returned
    BY <1>0 DEF RawIInv, RawRoles
  <1>6. Takers' = Takers
    BY <1>0, <1>2, <1>3, <1>5, Kinds DEF Takers, Holding
  <1>7. PillsIn' = PillsIn
    BY <1>0, <1>2, Kinds DEF PillsIn
  <1>8. RawPills'
    BY <1>0, <1>6, <1>7 DEF RawIInv, RawPills, PillsQueued
  <1> HIDE DEF v
  <1>9. consumed' \in Seq(Data)
    BY <1>0, <1>2, <1>3, AppendProperties, SMTT(30)
  <1>10. RawBook'
    <2>1. CASE Record(c)
      <3>1. v \in Data /\ HandedIn(i) \in SUBSET Data
        BY <1>2, <1>3, <2>1 DEF HandedIn
      <3>2. Book(buf, Carried \ {<<c, v>>}, Append(consumed, v), HandedIn(i))
        BY <1>0, <1>4, <3>1, BookRecord DEF RawIInv, RawBook
      <3> QED
        BY <1>0, <1>3, <1>4, <2>1, <3>2 DEF RawBook
    <2>2. CASE ConsumerReturn(c)
      <3>1. Book(buf, Carried \ {<<c, v>>}, consumed, HandedIn(i))
        BY <1>2, <1>3, <2>2, BookPill DEF RawIInv, RawBook
      <3> QED
        BY <1>0, <1>3, <1>4, <2>2, <3>1 DEF RawBook
    <2> QED
      BY <2>1, <2>2
  <1>11. RawRoles'
    <2>1. \A p \in Producers : pc'[p] = pc[p] /\ hand'[p] = hand[p]
      BY <1>0, <1>2, Kinds
    <2>2. \A d \in Consumers : /\ pc'[d] \in {"idle"} \cup GetPC
                               /\ pc'[d] \in Holding => hand'[d] \in Items
      BY <1>2, Kinds DEF RawIInv, RawRoles
    <2>3. pc'[Main] = pc[Main] /\ hand'[Main] = hand[Main]
      BY <1>0, <1>2, Kinds
    <2>4. returned' = returned \/ returned' = returned \cup {c}
      BY <1>3
    <2>5. returned' \subseteq Threads /\ \A t \in returned' : pc'[t] = "idle"
      BY <1>0, <1>2, <2>4 DEF RawIInv, RawRoles
    <2>6. /\ \A p \in Producers : p \in returned' <=> p \in returned
          /\ Main \in returned' <=> Main \in returned
          /\ returned \subseteq returned'
      BY <1>0, <2>4
    <2> QED
      BY <1>0, <1>9, <2>1, <2>2, <2>3, <2>5, <2>6 DEF RawIInv, RawRoles
  <1> QED
    BY <1>1, <1>8, <1>10, <1>11 DEF RawIInv

LEMMA PutPillRaw ==
  ASSUME RawIInv, PutPill
  PROVE  RawIInv'
  <1>0. /\ Main \in Threads /\ Main \notin Producers /\ Main \notin Consumers
        /\ DONE \in Items /\ DONE \notin Data
        /\ pc \in [Threads -> {"idle"} \cup PutPC \cup GetPC]
        /\ hand \in [Threads -> Items \cup {NoItem}]
        /\ Producers \subseteq returned /\ pc[Main] = "idle" /\ Main \notin returned
        /\ pills < Cardinality(Consumers) /\ CallPut(Main, DONE)
        /\ pc' = [pc EXCEPT ![Main] = "p_enter"] /\ hand' = [hand EXCEPT ![Main] = DONE]
        /\ pills' = pills + 1
        /\ UNCHANGED <<buf, i, consumed, returned>>
    BY Kinds, ProgramAssumption DEF RawIInv, IInv, TypeOK, PutPill, ProducersJoined, Idle,
                                    PillsNeeded, CallPut
  <1>1. IInv'
    BY <1>0, CallPutIInv DEF RawIInv
  <1>2. /\ pc'[Main] = "p_enter" /\ hand'[Main] = DONE
        /\ \A u \in Threads : u # Main => pc'[u] = pc[u] /\ hand'[u] = hand[u]
    BY <1>0
  <1>3. Carried' = Carried \cup {<<Main, DONE>>}
    <2>1. pc[Main] \notin Carrying /\ pc'[Main] \in Carrying
      BY <1>0, <1>2 DEF Carrying
    <2> QED
      BY <1>0, <1>2, <2>1, CarriedMore
  <1>4. RawBook'
    <2>1. Book(buf, Carried \cup {<<Main, DONE>>}, consumed, HandedIn(i))
      BY <1>0, BookPill DEF RawIInv, RawBook
    <2> QED
      BY <1>0, <1>3, <2>1 DEF RawBook
  <1>5. Takers' = Takers
    BY <1>0, <1>2, Kinds DEF Takers
  <1>6. PillsIn' = PillsIn
    <2>1. pills \in Nat
      BY PillsInNat DEF RawIInv
    <2>2. pc[Main] \notin Carrying /\ pc'[Main] \in Carrying
      BY <1>0, <1>2 DEF Carrying
    <2> QED
      BY <1>0, <2>1, <2>2 DEF PillsIn
  <1>7. RawPills'
    BY <1>0, <1>5, <1>6 DEF RawIInv, RawPills, PillsQueued
  <1>8. RawRoles'
    <2>1. pills \in Nat /\ Cardinality(Consumers) \in Nat
      BY PillsInNat, TakersFinite DEF RawIInv
    <2>2. pills' \in 0 .. Cardinality(Consumers) /\ pills' >= 1
      BY <1>0, <2>1
    <2>3. \A p \in Producers : pc'[p] = pc[p] /\ hand'[p] = hand[p]
      BY <1>0, <1>2, Kinds
    <2>4. \A c \in Consumers : pc'[c] = pc[c] /\ hand'[c] = hand[c]
      BY <1>0, <1>2, Kinds
    <2>5. \A t \in returned : pc'[t] = "idle"
      BY <1>0, <1>2 DEF RawIInv, RawRoles
    <2>6. pc'[Main] \in PutPC
      BY <1>2 DEF PutPC
    <2> QED
      BY <1>0, <1>2, <2>2, <2>3, <2>4, <2>5, <2>6 DEF RawIInv, RawRoles
  <1> QED
    BY <1>1, <1>4, <1>7, <1>8 DEF RawIInv

\* verify() holds of the first run because nothing can be on its way.
LEMMA RawIInvVerified == RawIInv => Verified
  <1> SUFFICES ASSUME RawIInv, Main \in returned
               PROVE  /\ buf = << >>
                      /\ {consumed[k] : k \in DOMAIN consumed} = Data
                      /\ Len(consumed) = NumProducers * PerProducer
    BY DEF Verified
  <1>1. /\ Consumers \subseteq returned /\ pills = Cardinality(Consumers)
        /\ buf \in Seq(Items) /\ consumed \in Seq(Data)
        /\ i \in [Producers -> 0 .. PerProducer]
    BY DEF RawIInv, RawRoles, IInv, TypeOK
  <1>2. Cardinality(Consumers) \in Nat /\ Cardinality(Consumers) # 0
    BY TakersFinite
  <1>3. Producers \subseteq returned
    BY <1>1, <1>2 DEF RawIInv, RawRoles
  <1>4. \A t \in Threads : pc[t] = "idle"
    BY <1>1, <1>3, Kinds DEF RawIInv, RawRoles
  <1>5. Takers = Consumers /\ Takers # {}
    BY <1>1, ProgramAssumption DEF Takers
  <1>6. Carried = {}
    BY <1>4, Kinds DEF Carried
  <1>7. PillsIn = pills
    <2>1. pc[Main] \notin Carrying
      BY <1>4, Kinds
    <2> QED
      BY <1>1, <1>2, <2>1 DEF PillsIn
  <1>8. Len(buf) = 0
    <2>1. PillsQueued = 0
      BY <1>1, <1>2, <1>5, <1>7 DEF PillsQueued
    <2> QED
      BY <1>5, <2>1 DEF RawIInv, RawPills
  <1>9. buf = << >>
    BY <1>1, <1>8, EmptySeq
  <1>10. HandedIn(i) = Data
    <2>1. \A p \in Producers : i[p] = PerProducer
      BY <1>3 DEF RawIInv, RawRoles
    <2> QED
      BY <1>1, <2>1, AllHandedIn
  <1>11. Book(<< >>, {}, consumed, Data)
    BY <1>6, <1>9, <1>10 DEF RawIInv, RawBook
  <1> QED
    BY <1>1, <1>9, <1>11, BookClosed

-----------------------------------------------------------------------------
(* main(): the two runs, one after the other.                               *)

\* Only one of the two runs takes a step.
LEMMA StepCases ==
  ASSUME MainProgNext
  PROVE  \/ /\ UNCHANGED stdVars
            /\ \/ \E p \in Producers : ProducerNext(p)
               \/ \E c \in Consumers : ConsumerNext(c)
               \/ MainNext
         \/ /\ UNCHANGED allVars
            /\ \/ \E p \in Producers : StdProducer(p)
               \/ \E c \in Consumers : StdConsumer(c)
               \/ StdMain
         \/ UNCHANGED everything
  BY DEF MainProgNext, InRaw, InStd, Ended

LEMMA RawStill == RawIInv /\ UNCHANGED allVars => RawIInv'
  <1> SUFFICES ASSUME RawIInv, UNCHANGED allVars PROVE RawIInv'
    OBVIOUS
  <1>1. UNCHANGED <<buf, lock, notFull, notEmpty, pc, hand, puts, gets, i, pills, consumed, returned>>
    BY DEF allVars, vars, progVars
  <1>2. IInv'
    BY <1>1 DEF RawIInv, IInv, TypeOK, MutualExclusion, Asleep, Room, Fifo
  <1>3. Carried' = Carried /\ Takers' = Takers /\ PillsIn' = PillsIn
    BY <1>1 DEF Carried, Takers, PillsIn
  <1>4. RawRoles'
    BY <1>1 DEF RawIInv, RawRoles
  <1> QED
    BY <1>1, <1>2, <1>3, <1>4 DEF RawIInv, RawPills, RawBook, PillsQueued

LEMMA StdStill == StdIInv /\ UNCHANGED stdVars => StdIInv'
  <1> SUFFICES ASSUME StdIInv, UNCHANGED stdVars PROVE StdIInv'
    OBVIOUS
  <1>1. UNCHANGED <<items, unfinished, sent, item, kept, qPills, qConsumed, qReturned>>
    BY DEF stdVars, queueVars
  <1>2. StdCarried' = StdCarried /\ StdTakers' = StdTakers /\ StdBusy' = StdBusy
    BY <1>1 DEF StdCarried, StdTakers, StdBusy
  <1>3. StdRoles'
    BY <1>1, <1>2 DEF StdIInv, StdRoles
  <1> QED
    BY <1>1, <1>2, <1>3 DEF StdIInv, StdPills, StdBook, StdUnfinished

LEMMA RawNext ==
  ASSUME RawIInv,
         \/ \E p \in Producers : ProducerNext(p)
         \/ \E c \in Consumers : ConsumerNext(c)
         \/ MainNext
  PROVE  RawIInv'
  <1>1. ASSUME NEW p \in Producers, ProducerNext(p) PROVE RawIInv'
    <2>1. p \in Threads
      BY Kinds
    <2> QED
      BY <1>1, <2>1, ProduceRaw, ReturnRaw, BufferStepRaw DEF ProducerNext
  <1>2. ASSUME NEW c \in Consumers, ConsumerNext(c) PROVE RawIInv'
    <2>1. c \in Threads
      BY Kinds
    <2> QED
      BY <1>2, <2>1, ConsumeRaw, GotRaw, BufferStepRaw DEF ConsumerNext
  <1>3. CASE MainNext
    <2>1. Main \in Threads
      BY Kinds
    <2> QED
      BY <1>3, <2>1, PutPillRaw, ReturnRaw, BufferStepRaw DEF MainNext
  <1> QED
    BY <1>1, <1>2, <1>3

LEMMA StdNext ==
  ASSUME StdIInv,
         \/ \E p \in Producers : StdProducer(p)
         \/ \E c \in Consumers : StdConsumer(c)
         \/ StdMain
  PROVE  StdIInv'
  <1>1. ASSUME NEW p \in Producers, StdProducer(p) PROVE StdIInv'
    BY <1>1, StdProduceIInv, StdReturnsIInv DEF StdProducer
  <1>2. ASSUME NEW c \in Consumers, StdConsumer(c) PROVE StdIInv'
    BY <1>2, StdGetIInv, StdKeepIInv, StdFinallyIInv DEF StdConsumer
  <1>3. CASE StdMain
    BY <1>3, StdPutPillIInv, StdReturnsIInv DEF StdMain
  <1> QED
    BY <1>1, <1>2, <1>3

LEMMA MainStep ==
  ASSUME RawIInv, StdIInv, [MainProgNext]_everything
  PROVE  RawIInv' /\ StdIInv'
  <1>1. CASE UNCHANGED everything
    BY <1>1, RawStill, StdStill DEF everything
  <1>2. CASE MainProgNext
    <2>1. CASE /\ UNCHANGED stdVars
               /\ \/ \E p \in Producers : ProducerNext(p)
                  \/ \E c \in Consumers : ConsumerNext(c)
                  \/ MainNext
      BY <2>1, RawNext, StdStill
    <2>2. CASE /\ UNCHANGED allVars
               /\ \/ \E p \in Producers : StdProducer(p)
                  \/ \E c \in Consumers : StdConsumer(c)
                  \/ StdMain
      BY <2>2, StdNext, RawStill
    <2> QED
      BY <1>1, <1>2, <2>1, <2>2, StepCases
  <1> QED
    BY <1>1, <1>2

LEMMA MainInvariance == MainSpec => [](RawIInv /\ StdIInv)
  <1>1. MainInit => RawIInv /\ StdIInv
    BY RawInitIInv, StdInitIInv DEF MainInit
  <1>2. RawIInv /\ StdIInv /\ [MainProgNext]_everything => (RawIInv /\ StdIInv)'
    BY MainStep
  <1> QED
    BY <1>1, <1>2, PTL DEF MainSpec

(* Both runs of main() pass verify(), for any number of producers, of       *)
(* numbers per producer and of consumers, and any capacity: when a run      *)
(* returns, every number was consumed exactly once and nothing is left in   *)
(* the buffer or the queue, pills included.                                 *)
THEOREM BothRunsVerified == MainSpec => []RunsVerified
  <1>1. RawIInv /\ StdIInv => RunsVerified
    BY RawIInvVerified, StdIInvVerified DEF RunsVerified
  <1> QED
    BY <1>1, MainInvariance, PTL

\* What main()'s threads do to the buffer is what the general client may do.
LEMMA BufferCalls ==
  ASSUME RawIInv, MainProgNext
  PROVE  [Calls]_vars
  <1>1. ASSUME NEW p \in Producers, Produce(p)
        PROVE  p \in Threads /\ \E v \in Items : CallPut(p, v)
    <2>1. i[p] \in 0 .. PerProducer - 1
      BY <1>1, ProgramAssumption DEF RawIInv, RawRoles, Produce
    <2>2. Encode(p, i[p]) \in Items
      BY <2>1, EncodeInData, ProgramAssumption
    <2> QED
      BY <1>1, <2>2, Kinds DEF Produce
  <1>2. ASSUME PutPill PROVE Main \in Threads /\ \E v \in Items : CallPut(Main, v)
    BY <1>2, Kinds, ProgramAssumption DEF PutPill
  <1>3. ASSUME NEW c \in Consumers, Consume(c) \/ Record(c) \/ ConsumerReturn(c)
        PROVE  c \in Threads /\ (CallGet(c) \/ GetReturn(c))
    BY <1>3, Kinds DEF Consume, Record, ConsumerReturn
  <1>4. ASSUME MainReturn \/ \E p \in Producers : ProducerReturn(p) PROVE UNCHANGED vars
    BY <1>4 DEF MainReturn, ProducerReturn
  <1>5. ASSUME NEW t, BufferStep(t) PROVE PutStep(t) \/ GetStep(t)
    BY <1>5 DEF BufferStep
  <1>6. UNCHANGED allVars \/ UNCHANGED everything => UNCHANGED vars
    BY DEF allVars, everything
  <1>7. ASSUME NEW p \in Producers, ProducerNext(p)
        PROVE  UNCHANGED vars \/ (p \in Threads /\ ((\E v \in Items : CallPut(p, v)) \/ PutStep(p) \/ GetStep(p)))
    BY <1>1, <1>4, <1>5, <1>7, Kinds DEF ProducerNext
  <1>8. ASSUME NEW c \in Consumers, ConsumerNext(c)
        PROVE  c \in Threads /\ (CallGet(c) \/ GetReturn(c) \/ PutStep(c) \/ GetStep(c))
    BY <1>3, <1>5, <1>8, Kinds DEF ConsumerNext
  <1>9. ASSUME MainNext
        PROVE  UNCHANGED vars \/ (Main \in Threads /\ ((\E v \in Items : CallPut(Main, v)) \/ PutStep(Main) \/ GetStep(Main)))
    BY <1>2, <1>4, <1>5, <1>9, Kinds DEF MainNext
  <1> QED
    BY <1>6, <1>7, <1>8, <1>9, StepCases DEF Calls

LEMMA MainCalls == RawIInv /\ [MainProgNext]_everything => [Calls]_vars
  BY BufferCalls DEF everything, allVars

(* In the program, too, no consumer sleeps next to a number, or a pill,     *)
(* that nobody is coming for, and neither does a producer or main next to a *)
(* free slot.                                                               *)
THEOREM ProgramWakeups == MainSpec => []NoLostWakeup
  <1>1. MainInit => NoLostWakeup
    BY DEF MainInit, ProgInit, Init, NoLostWakeup
  <1>2. RawIInv => IInv
    BY DEF RawIInv
  <1> QED
    BY <1>1, <1>2, MainCalls, CallsWakeup, MainInvariance, PTL DEF MainSpec

(* The threads of the program see a FIFO channel of the buffer's capacity.  *)
THEOREM ProgramRefinement == MainSpec => ImplementsChannel
  <1>1. MainInit => Channel!Init
    BY DEF MainInit, ProgInit, Init, Channel!Init
  <1>2. RawIInv /\ [MainProgNext]_everything => [Channel!Next]_(Channel!chanVars)
    BY MainCalls, StepRefines DEF Channel!chanVars, RawIInv
  <1> QED
    BY <1>1, <1>2, MainInvariance, PTL DEF MainSpec, ImplementsChannel, Channel!Spec
=============================================================================
