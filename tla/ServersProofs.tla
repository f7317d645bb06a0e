---------------------------- MODULE ServersProofs ----------------------------
(***************************************************************************)
(* The two servers, for any number of connections.                         *)
(*                                                                         *)
(* reverse_proxy.py: an in-flight counter is off by no more than the       *)
(* number of its updates that began inside another one, and min() runs in  *)
(* one handler at a time.  The inductive invariant carries what a          *)
(* handler's place says about its locals (min() is only entered with a     *)
(* non-empty list, so the member it chooses exists), and bounds not only   *)
(* the counter but every copy of it that a handler has read and will write *)
(* back: each of the other updates under way can put it off by one more.   *)
(*                                                                         *)
(* epoll_echo_server.py: a client gets back what it sent.  The invariant   *)
(* says where each byte of the message is.                                 *)
(***************************************************************************)
EXTENDS ReverseProxy, EchoServer, SequenceTheorems, FiniteSetTheorems,
        WellFoundedInduction, TLAPS

Conns == [pc : Labels, k : Nat, list : Seq(Members), keys : Seq(Counts),
          member : Members \cup {NONE}, reg : Counts]

Act(f, m) == {c \in Clients : f[c].pc \in {"proxy", "settling"} /\ f[c].member = m}
Upd(f, m) == {c \in Clients : f[c].pc \in {"counting", "settling"} /\ f[c].member = m}

\* x is off from a by no more than o, even when all but one of u updates that
\* are under way have put it off by one more.
Near(x, a, u, o) ==
  /\ x - a <= o /\ a - x <= o
  /\ (x - a) + (u - 1) <= o /\ (a - x) + (u - 1) <= o

CountersOK(f, m) ==
  LET a == Cardinality(Act(f, m))
      u == Cardinality(Upd(f, m))
  IN  /\ Near(inflight[m], a, u, overlaps[m])
      /\ \A c \in Upd(f, m) : Near(f[c].reg, a, u, overlaps[m])

IInv == ProxyTypeOK /\ OneSelector /\ \A m \in Members : CountersOK(conn, m)

-----------------------------------------------------------------------------
(* min(): of the keys of a non-empty list there is a first least one.       *)

LEMMA LeastNat ==
  ASSUME NEW T, T \subseteq Nat, T # {}
  PROVE  \E m \in T : \A l \in T : m <= l
  <1>1. PICK m \in T : \A l \in T : ~ (<<l, m>> \in OpToRel(<, Nat))
    BY NatLessThanWellFounded, WFMin
  <1>2. \A l \in T : ~ (l < m)
    BY <1>1 DEF OpToRel
  <1> QED
    BY <1>2

LEMMA FirstMinExists ==
  ASSUME NEW keys \in Seq(Counts), keys # << >>
  PROVE  FirstMin(keys) \in 1 .. Len(keys)
  <1> DEFINE D == 1 .. Len(keys)
             V == {keys[k] + MaxOverlaps : k \in D}
  <1>1. Len(keys) \in Nat /\ 1 \in D /\ DOMAIN keys = D /\ \A k \in D : keys[k] \in Counts
    BY EmptySeq, LenProperties, ElementOfSeq
  <1>2. \A n \in Counts : n \in Int /\ n + MaxOverlaps \in Nat
    BY ProxyAssumption DEF Counts
  <1>8. V \subseteq Nat /\ V # {}
    BY <1>1, <1>2
  <1>9. PICK w \in V : \A u \in V : w <= u
    <2> HIDE DEF V
    <2> QED
      BY <1>8, LeastNat
  <1>10. PICK g \in D : w = keys[g] + MaxOverlaps
    OBVIOUS
  <1> DEFINE v == keys[g]
  <1>3. v \in Int /\ \A k \in D : keys[k] \in Int /\ v <= keys[k]
    <2>1. v \in Int /\ MaxOverlaps \in Int
      BY <1>1, <1>2, ProxyAssumption
    <2> SUFFICES ASSUME NEW k \in D PROVE keys[k] \in Int /\ v <= keys[k]
      BY <2>1
    <2>2. keys[k] \in Int /\ keys[k] + MaxOverlaps \in V
      BY <1>1, <1>2
    <2>3. v + MaxOverlaps <= keys[k] + MaxOverlaps
      BY <1>9, <1>10, <2>2
    <2> QED
      BY <2>1, <2>2, <2>3
  <1> DEFINE F == {k \in D : keys[k] = v}
  <1>4. F \subseteq Nat /\ F # {}
    BY <1>1, <1>10
  <1>5. PICK f \in F : \A k \in F : f <= k
    <2> HIDE DEF F
    <2> QED
      BY <1>4, LeastNat
  <1>6. \A j \in D : keys[f] < keys[j] \/ (keys[f] = keys[j] /\ f <= j)
    <2> SUFFICES ASSUME NEW j \in D
                 PROVE  keys[f] < keys[j] \/ (keys[f] = keys[j] /\ f <= j)
      OBVIOUS
    <2>1. keys[f] = v /\ v \in Int /\ keys[j] \in Int /\ v <= keys[j]
      BY <1>3
    <2>2. keys[j] = v => f <= j
      BY <1>5
    <2> QED
      BY <2>1, <2>2
  <1>7. \E k \in DOMAIN keys : \A j \in DOMAIN keys :
          keys[k] < keys[j] \/ (keys[k] = keys[j] /\ k <= j)
    BY <1>1, <1>6
  <1> QED
    BY <1>1, <1>7 DEF FirstMin

-----------------------------------------------------------------------------
(* Steps that leave the counters alone.                                     *)

\* The invariant of the pool, the lock and the health loop, without conn.
PoolOK ==
  /\ backend \in [Members -> {"ok", "sick", "stopped"}]
  /\ memberUp \in [Members -> BOOLEAN]
  /\ inflight \in [Members -> Counts]
  /\ overlaps \in [Members -> 0 .. MaxOverlaps]
  /\ strategy \in {"round_robin", "least_connections"}
  /\ rrIndex \in Nat
  /\ selecting \in Clients \cup {NONE}
  /\ running \in BOOLEAN
  /\ probe \in 0 .. NMembers

LEMMA TypeSplit ==
  /\ ProxyTypeOK <=> /\ PoolOK
                     /\ conn \in [Clients -> Conns]
                     /\ \A c \in Clients : ConnOK(conn[c])
  /\ ProxyTypeOK' <=> /\ PoolOK'
                      /\ conn' \in [Clients -> Conns]
                      /\ \A c \in Clients : ConnOK(conn'[c])
  BY DEF ProxyTypeOK, PoolOK, Conns, ConnOK

\* A handler's step outside min() and the lock.
LEMMA HandlerTyped ==
  ASSUME IInv, NEW c \in Clients, NEW r \in Conns, ConnOK(r),
         conn' = [conn EXCEPT ![c] = r], PoolOK',
         \/ selecting' = selecting /\ conn[c].pc # "min" /\ r.pc # "min"
         \/ selecting' = selecting /\ conn[c].pc = "min" /\ r.pc = "min"
         \/ selecting = NONE /\ selecting' = c /\ r.pc = "min"
         \/ selecting' = NONE /\ conn[c].pc = "min" /\ r.pc # "min"
  PROVE  /\ ProxyTypeOK' /\ OneSelector'
         /\ conn'[c] = r /\ \A d \in Clients : d # c => conn'[d] = conn[d]
  <1>1. conn \in [Clients -> Conns] /\ \A d \in Clients : ConnOK(conn[d])
    BY TypeSplit DEF IInv
  <1>2. conn'[c] = r /\ \A d \in Clients : d # c => conn'[d] = conn[d]
    BY <1>1
  <1>3. ProxyTypeOK'
    BY <1>1, <1>2, TypeSplit
  <1>4. OneSelector'
    BY <1>2, ProxyAssumption DEF IInv, OneSelector, At
  <1> QED
    BY <1>2, <1>3, <1>4

Counting == {"counting", "proxy", "settling"}

\* A handler moves between places where it has not begun to count.
LEMMA HandlerMoves ==
  ASSUME IInv, NEW c \in Clients, NEW r \in Conns, ConnOK(r),
         conn' = [conn EXCEPT ![c] = r],
         conn[c].pc \notin Counting, r.pc \notin Counting,
         PoolOK', UNCHANGED counters,
         \/ selecting' = selecting /\ conn[c].pc # "min" /\ r.pc # "min"
         \/ selecting' = selecting /\ conn[c].pc = "min" /\ r.pc = "min"
         \/ selecting = NONE /\ selecting' = c /\ r.pc = "min"
         \/ selecting' = NONE /\ conn[c].pc = "min" /\ r.pc # "min"
  PROVE  IInv'
  <1>1. /\ ProxyTypeOK' /\ OneSelector'
        /\ conn'[c] = r /\ \A d \in Clients : d # c => conn'[d] = conn[d]
    BY HandlerTyped
  <1>2. \A m \in Members : Act(conn', m) = Act(conn, m) /\ Upd(conn', m) = Upd(conn, m)
    BY <1>1 DEF Act, Upd, Counting
  <1>3. \A d \in Clients : conn[d].pc \in Counting => conn'[d] = conn[d]
    BY <1>1
  <1>4. ASSUME NEW m \in Members PROVE CountersOK(conn, m)'
    <2>1. \A d \in Upd(conn, m) : conn'[d].reg = conn[d].reg
      BY <1>3 DEF Upd, Counting
    <2>2. inflight' = inflight /\ overlaps' = overlaps
      BY DEF counters
    <2> QED
      BY <1>2, <2>1, <2>2 DEF IInv, CountersOK
  <1> QED
    BY <1>1, <1>4 DEF IInv

-----------------------------------------------------------------------------
LEMMA ZeroCount == 0 \in Counts
  BY ProxyAssumption DEF Counts

LEMMA NoConnOK == NoConn \in Conns /\ ConnOK(NoConn) /\ NoConn.pc = "closed"
  BY EmptySeq, ZeroCount DEF NoConn, Conns, Labels, ConnOK

LEMMA InitIInv == ProxyInit => IInv
  <1> SUFFICES ASSUME ProxyInit PROVE IInv
    OBVIOUS
  <1>1. ProxyTypeOK
    <2>1. PoolOK
      BY ProxyAssumption DEF ProxyInit, PoolOK, Counts
    <2>2. NoConn \in Conns /\ ConnOK(NoConn)
      BY NoConnOK
    <2> QED
      BY <2>1, <2>2, TypeSplit DEF ProxyInit
  <1>2. OneSelector
    BY ProxyAssumption DEF ProxyInit, OneSelector, At, NoConn
  <1>3. \A m \in Members : Act(conn, m) = {} /\ Upd(conn, m) = {}
    BY DEF ProxyInit, Act, Upd, NoConn
  <1>4. \A m \in Members : CountersOK(conn, m)
    BY <1>3, FS_EmptySet DEF ProxyInit, CountersOK, Near
  <1> QED
    BY <1>1, <1>2, <1>4 DEF IInv

\* _health_loop() and the backends do not touch the counters.
LEMMA PoolIInv ==
  ASSUME IInv, HealthStep \/ \E m \in Members : BackendStop(m)
  PROVE  IInv'
  <1>1. UNCHANGED <<inflight, overlaps, selecting, conn>>
    BY DEF HealthStep, WakeUp, HealthProbe, BackendStop, memberVars, counters
  <1>2. PoolOK'
    <2>1. CASE WakeUp
      BY <2>1, ProxyAssumption, TypeSplit DEF IInv, PoolOK, WakeUp, memberVars, counters
    <2>2. ASSUME NEW b \in BOOLEAN, HealthProbe(b) PROVE PoolOK'
      <3>1. probe \in Members /\ HealthVerdict(probe, b) \in BOOLEAN
        BY <2>2, ProxyAssumption, TypeSplit DEF IInv, PoolOK, HealthProbe, Members, HealthVerdict
      <3> QED
        BY <2>2, <3>1, ProxyAssumption, TypeSplit DEF IInv, PoolOK, HealthProbe, Members, counters
    <2>3. ASSUME NEW m \in Members, BackendStop(m) PROVE PoolOK'
      BY <2>3, TypeSplit DEF IInv, PoolOK, BackendStop, counters
    <2> QED
      BY <2>1, <2>2, <2>3 DEF HealthStep
  <1>3. ProxyTypeOK'
    BY <1>1, <1>2, TypeSplit DEF IInv
  <1> QED
    BY <1>1, <1>3 DEF IInv, OneSelector, CountersOK, At

\* stop() resets the connections of the backlog only.
LEMMA StopIInv ==
  ASSUME IInv, ProxyStop
  PROVE  IInv'
  <1>1. /\ conn \in [Clients -> Conns] /\ PoolOK
        /\ \A c \in Clients : ConnOK(conn[c])
    BY TypeSplit DEF IInv
  <1>2. PoolOK'
    BY <1>1 DEF PoolOK, ProxyStop, memberVars, counters
  <1>3. NoConn \in Conns /\ ConnOK(NoConn) /\ NoConn.pc = "closed"
    BY NoConnOK
  <1>4. \A c \in Clients : \/ conn'[c] = conn[c]
                           \/ conn[c].pc = "backlog" /\ conn'[c] = NoConn
    BY DEF ProxyStop, At
  <1>5. conn' \in [Clients -> Conns] /\ \A c \in Clients : ConnOK(conn'[c])
    BY <1>1, <1>3, <1>4 DEF ProxyStop
  <1>6. ProxyTypeOK'
    BY <1>2, <1>5, TypeSplit
  <1>7. \A c \in Clients : conn'[c].pc = "min" <=> conn[c].pc = "min"
    BY <1>3, <1>4
  <1>8. OneSelector'
    BY <1>7 DEF IInv, OneSelector, ProxyStop, At
  <1>9. \A m \in Members : Act(conn', m) = Act(conn, m) /\ Upd(conn', m) = Upd(conn, m)
    BY <1>3, <1>4 DEF Act, Upd
  <1>10. ASSUME NEW m \in Members PROVE CountersOK(conn, m)'
    <2>1. \A d \in Upd(conn, m) : conn'[d].reg = conn[d].reg
      BY <1>4 DEF Upd
    <2>2. inflight' = inflight /\ overlaps' = overlaps
      BY DEF ProxyStop, memberVars, counters
    <2> QED
      BY <1>9, <2>1, <2>2 DEF IInv, CountersOK
  <1> QED
    BY <1>6, <1>8, <1>10 DEF IInv

\* Connections that come, are accepted or go, and the reads of a request.
LEMMA ConnectionIInv ==
  ASSUME IInv, NEW c \in Clients,
         ClientConnects(c) \/ Accept(c) \/ Read(c) \/ ReadNothing(c) \/ Unavailable(c)
  PROVE  IInv'
  <1>1. conn \in [Clients -> Conns] /\ PoolOK /\ ConnOK(conn[c]) /\ conn[c] \in Conns
    BY TypeSplit DEF IInv
  <1>2. PoolOK' /\ UNCHANGED <<counters, selecting>>
    BY <1>1 DEF PoolOK, ClientConnects, Accept, Read, ReadNothing, Unavailable, memberVars, counters
  <1>3. CASE ClientConnects(c) \/ Accept(c)
    <2>1. PICK l \in {"backlog", "read"} : conn' = [conn EXCEPT ![c] = [conn[c] EXCEPT !.pc = l]]
      BY <1>3 DEF ClientConnects, Accept, HandlerGoes
    <2> DEFINE r == [conn[c] EXCEPT !.pc = l]
    <2>2. conn[c].pc \notin {"min"} \cup Counting
      BY <1>3 DEF ClientConnects, Accept, At, Counting
    <2>3. r \in Conns /\ ConnOK(r) /\ r.pc = l
      BY <1>1, <2>2 DEF Conns, Labels, ConnOK
    <2> HIDE DEF r
    <2> QED
      BY <1>2, <2>1, <2>2, <2>3, HandlerMoves DEF r, Counting
  <1>4. CASE Read(c)
    <2> DEFINE r == [conn[c] EXCEPT !.pc = "list", !.k = 1]
    <2>1. conn' = [conn EXCEPT ![c] = r] /\ conn[c].pc = "read"
      BY <1>1, <1>4 DEF Read, At
    <2>2. r \in Conns /\ r.pc = "list" /\ r.k = 1 /\ r.keys = conn[c].keys
      BY <1>1 DEF Conns, Labels
    <2>3. ConnOK(r)
      <3> HIDE DEF r
      <3> QED
        BY <1>1, <2>1, <2>2 DEF ConnOK
    <2> HIDE DEF r
    <2> QED
      BY <1>2, <2>1, <2>2, <2>3, HandlerMoves DEF Counting
  <1>5. CASE ReadNothing(c) \/ Unavailable(c)
    <2>1. conn' = [conn EXCEPT ![c] = NoConn] /\ conn[c].pc \notin {"min"} \cup Counting
      BY <1>5 DEF ReadNothing, Unavailable, Close, At, Counting
    <2>2. NoConn \in Conns /\ ConnOK(NoConn) /\ NoConn.pc = "closed"
      BY NoConnOK
    <2> QED
      BY <1>2, <2>1, <2>2, HandlerMoves DEF Counting
  <1> QED
    BY <1>3, <1>4, <1>5

\* _healthy_members() and _select(), with both strategies.
LEMMA SelectIInv ==
  ASSUME IInv, NEW c \in Clients,
         ListMember(c) \/ SelectRoundRobin(c) \/ EnterMin(c) \/ ReadKey(c) \/ SelectLeast(c)
  PROVE  IInv'
  <1>1. conn \in [Clients -> Conns] /\ PoolOK /\ ConnOK(conn[c]) /\ conn[c] \in Conns
    BY TypeSplit DEF IInv
  <1>2. /\ conn[c].k \in Nat /\ conn[c].list \in Seq(Members) /\ conn[c].keys \in Seq(Counts)
        /\ conn[c].member \in Members \cup {NONE} /\ conn[c].pc \in Labels
        /\ Len(conn[c].list) \in Nat /\ Len(conn[c].keys) \in Nat
    BY <1>1, LenProperties DEF Conns
  <1>3. CASE ListMember(c)
    <2> DEFINE lst == IF memberUp[conn[c].k] THEN Append(conn[c].list, conn[c].k)
                                             ELSE conn[c].list
               r == [conn[c] EXCEPT !.k = conn[c].k + 1, !.list = lst]
    <2>1. conn' = [conn EXCEPT ![c] = r] /\ conn[c].pc = "list"
      BY <1>1, <1>3 DEF ListMember, At
    <2>2. conn[c].k \in Members
      BY <1>1, <1>2, <1>3, <2>1, ProxyAssumption DEF ListMember, Members, ConnOK
    <2>3. lst \in Seq(Members)
      BY <1>2, <2>2, AppendProperties
    <2>4. r \in Conns /\ r.pc = "list" /\ r.k = conn[c].k + 1 /\ r.keys = conn[c].keys
      <3> DEFINE k == conn[c].k + 1
      <3>1. k \in Nat
        BY <1>2
      <3> HIDE DEF lst, k
      <3>2. [conn[c] EXCEPT !.k = k, !.list = lst] \in Conns
        BY <1>1, <2>3, <3>1 DEF Conns
      <3>3. r.pc = "list" /\ r.k = k /\ r.keys = conn[c].keys
        BY <1>1, <2>1 DEF Conns, k
      <3> QED
        BY <3>2, <3>3 DEF k
    <2>5. ConnOK(r)
      <3> HIDE DEF r
      <3> QED
        BY <1>1, <1>2, <2>1, <2>4 DEF ConnOK
    <2>6. PoolOK' /\ UNCHANGED <<counters, selecting>>
      BY <1>1, <1>3 DEF PoolOK, ListMember, memberVars, counters
    <2> HIDE DEF r
    <2> QED
      BY <2>1, <2>4, <2>5, <2>6, HandlerMoves DEF Counting
  <1>4. CASE SelectRoundRobin(c)
    <2> DEFINE n == Len(conn[c].list)
               m == conn[c].list[rrIndex' + 1]
               r == [conn[c] EXCEPT !.pc = "selected", !.k = 0, !.list = << >>, !.member = m]
    <2>1. conn' = [conn EXCEPT ![c] = r] /\ conn[c].pc = "list"
      BY <1>1, <1>4 DEF SelectRoundRobin, At
    <2>2. n \in Nat \ {0}
      BY <1>2, <1>4, EmptySeq DEF SelectRoundRobin
    <2>3. rrIndex' \in 0 .. n - 1
      <3>1. rrIndex' = (rrIndex + 1) % n /\ rrIndex \in Nat
        BY <1>1, <1>4 DEF SelectRoundRobin, NextIndex, PoolOK
      <3> HIDE DEF n
      <3> QED
        BY <2>2, <3>1
    <2>4. m \in Members
      BY <1>2, <2>2, <2>3, ElementOfSeq
    <2>5. r \in Conns /\ r.pc = "selected" /\ r.member = m /\ r.keys = conn[c].keys
      <3> HIDE DEF m
      <3> QED
        BY <1>1, <1>2, <2>4, EmptySeq DEF Conns, Labels
    <2>6. ConnOK(r)
      <3> HIDE DEF r
      <3> QED
        BY <1>1, <2>1, <2>4, <2>5 DEF ConnOK
    <2>7. PoolOK' /\ UNCHANGED <<counters, selecting>>
      BY <1>1, <1>4, <2>3 DEF PoolOK, SelectRoundRobin, memberVars, counters
    <2> HIDE DEF r
    <2> QED
      BY <2>1, <2>5, <2>6, <2>7, HandlerMoves DEF Counting
  <1>5. CASE EnterMin(c)
    <2> DEFINE r == [conn[c] EXCEPT !.pc = "min"]
    <2>1. /\ conn' = [conn EXCEPT ![c] = r] /\ conn[c].pc = "list"
          /\ conn[c].list # << >> /\ selecting = NONE /\ selecting' = c
      BY <1>1, <1>5 DEF EnterMin, At, HandlerGoes
    <2>2. r \in Conns /\ r.pc = "min" /\ r.list = conn[c].list /\ r.keys = conn[c].keys
      BY <1>1 DEF Conns, Labels
    <2>3. Len(conn[c].keys) = 0
      BY <1>1, <2>1, EmptySeq DEF ConnOK
    <2>4. ConnOK(r)
      <3> HIDE DEF r
      <3> QED
        BY <1>2, <2>1, <2>2, <2>3 DEF ConnOK
    <2>5. PoolOK' /\ UNCHANGED counters
      BY <1>1, <1>5 DEF PoolOK, EnterMin, memberVars, counters
    <2> HIDE DEF r
    <2> QED
      BY <2>1, <2>2, <2>4, <2>5, HandlerMoves DEF Counting
  <1>6. CASE ReadKey(c)
    <2> DEFINE j == Len(conn[c].keys) + 1
               ks == Append(conn[c].keys, inflight[conn[c].list[j]])
               r == [conn[c] EXCEPT !.keys = ks]
    <2>1. conn' = [conn EXCEPT ![c] = r] /\ conn[c].pc = "min"
      BY <1>1, <1>6 DEF ReadKey, At
    <2>2. j \in 1 .. Len(conn[c].list)
      BY <1>2, <1>6 DEF ReadKey
    <2>3. inflight[conn[c].list[j]] \in Counts
      <3>1. conn[c].list[j] \in Members
        <4> HIDE DEF j
        <4> QED
          BY <1>2, <2>2, ElementOfSeq
      <3> QED
        BY <1>1, <3>1 DEF PoolOK
    <2>4. ks \in Seq(Counts) /\ Len(ks) = j
      BY <1>2, <2>3, AppendProperties
    <2>5. r \in Conns /\ r.pc = "min" /\ r.keys = ks /\ r.list = conn[c].list
      <3> HIDE DEF ks
      <3> QED
        BY <1>1, <2>1, <2>4 DEF Conns
    <2>6. ConnOK(r)
      <3> HIDE DEF r, ks
      <3> QED
        BY <1>1, <1>2, <2>1, <2>2, <2>4, <2>5 DEF ConnOK
    <2>7. PoolOK' /\ UNCHANGED <<counters, selecting>>
      BY <1>1, <1>6 DEF PoolOK, ReadKey, memberVars, counters
    <2> HIDE DEF r
    <2> QED
      BY <2>1, <2>5, <2>6, <2>7, HandlerMoves DEF Counting
  <1>7. CASE SelectLeast(c)
    <2> DEFINE m == conn[c].list[FirstMin(conn[c].keys)]
               r == [NoConn EXCEPT !.pc = "selected", !.member = m]
    <2>1. /\ conn' = [conn EXCEPT ![c] = r] /\ conn[c].pc = "min" /\ selecting' = NONE
          /\ Len(conn[c].keys) = Len(conn[c].list)
      BY <1>7 DEF SelectLeast, At
    <2>2. conn[c].list # << >> /\ conn[c].keys # << >>
      BY <1>1, <1>2, <2>1, EmptySeq DEF ConnOK
    <2>3. m \in Members
      <3>1. FirstMin(conn[c].keys) \in 1 .. Len(conn[c].list)
        BY <1>2, <2>1, <2>2, FirstMinExists
      <3> QED
        BY <1>2, <3>1, ElementOfSeq
    <2>4. r \in Conns /\ r.pc = "selected" /\ r.member = m /\ r.keys = << >>
      <3> HIDE DEF m
      <3> QED
        BY <2>3, EmptySeq, ZeroCount DEF NoConn, Conns, Labels
    <2>5. ConnOK(r)
      <3> HIDE DEF r
      <3> QED
        BY <2>3, <2>4 DEF ConnOK
    <2>6. PoolOK' /\ UNCHANGED counters
      BY <1>1, <1>7 DEF PoolOK, SelectLeast, memberVars, counters
    <2> HIDE DEF r
    <2> QED
      BY <2>1, <2>4, <2>5, <2>6, HandlerMoves DEF Counting
  <1> QED
    BY <1>3, <1>4, <1>5, <1>6, <1>7

-----------------------------------------------------------------------------
(* The steps that read or write a counter.                                  *)

LEMMA FiniteCounts ==
  ASSUME NEW f, NEW m
  PROVE  /\ IsFiniteSet(Act(f, m)) /\ Cardinality(Act(f, m)) \in Nat
         /\ IsFiniteSet(Upd(f, m)) /\ Cardinality(Upd(f, m)) \in Nat
  BY ProxyAssumption, FS_Subset, FS_CardinalityType DEF Act, Upd

\* Nothing of a member changes when a handler of another one moves.
LEMMA OtherMember ==
  ASSUME IInv, NEW c \in Clients, NEW n \in Members, conn[c].member # n,
         conn'[c].member # n \/ conn'[c].pc \notin Counting,
         \A d \in Clients : d # c => conn'[d] = conn[d],
         inflight'[n] = inflight[n], overlaps'[n] = overlaps[n]
  PROVE  CountersOK(conn, n)'
  <1>1. Act(conn', n) = Act(conn, n) /\ Upd(conn', n) = Upd(conn, n)
    BY DEF Act, Upd, Counting
  <1>2. \A d \in Upd(conn, n) : conn'[d].reg = conn[d].reg
    BY DEF Upd
  <1> QED
    BY <1>1, <1>2 DEF IInv, CountersOK

\* The first half of += 1 or -= 1: the handler has a copy of the counter.
LEMMA LoadIInv ==
  ASSUME IInv, NEW c \in Clients, NEW l \in {"counting", "settling"},
         conn[c].pc = IF l = "counting" THEN "selected" ELSE "proxy",
         Load(c, l),
         UNCHANGED <<backend, memberUp, inflight, strategy, rrIndex, selecting, running, probe>>
  PROVE  IInv'
  <1> SUFFICES ASSUME NEW m, m = conn[c].member PROVE IInv'
    OBVIOUS
  <1> DEFINE r == [conn[c] EXCEPT !.pc = l, !.reg = inflight[m]]
             a == Cardinality(Act(conn, m))
             u == Cardinality(Upd(conn, m))
             o == overlaps[m]
  <1>1. conn \in [Clients -> Conns] /\ PoolOK /\ conn[c] \in Conns /\ ConnOK(conn[c])
    BY TypeSplit DEF IInv
  <1>2. conn' = [conn EXCEPT ![c] = r]
    BY <1>1 DEF Load
  <1>3. m \in Members /\ inflight[m] \in Counts /\ o \in 0 .. MaxOverlaps
    BY <1>1 DEF ConnOK, PoolOK
  <1>4. r \in Conns /\ r.pc = l /\ r.member = m /\ r.reg = inflight[m] /\ r.keys = conn[c].keys
    BY <1>1, <1>3 DEF Conns, Labels
  <1>5. Updating(m) = Upd(conn, m)
    BY DEF Updating, Upd
  <1>6. /\ overlaps' = IF Upd(conn, m) = {} THEN overlaps ELSE [overlaps EXCEPT ![m] = o + 1]
        /\ Upd(conn, m) # {} => o < MaxOverlaps
    BY <1>5 DEF Load
  <1>7. a \in Nat /\ u \in Nat /\ IsFiniteSet(Upd(conn, m))
    BY FiniteCounts
  <1> HIDE DEF r
  <1>8. ConnOK(r)
    BY <1>1, <1>3, <1>4 DEF ConnOK
  <1>9. PoolOK'
    <2>1. overlaps' \in [Members -> 0 .. MaxOverlaps]
      BY <1>1, <1>3, <1>6, ProxyAssumption DEF PoolOK
    <2> QED
      BY <1>1, <2>1 DEF PoolOK
  <1>10. /\ ProxyTypeOK' /\ OneSelector'
         /\ conn'[c] = r /\ \A d \in Clients : d # c => conn'[d] = conn[d]
    BY <1>2, <1>4, <1>8, <1>9, HandlerTyped
  <1>11. CountersOK(conn, m)'
    <2>1. Act(conn', m) = Act(conn, m)
      BY <1>4, <1>10 DEF Act
    <2>2. Upd(conn', m) = Upd(conn, m) \cup {c} /\ c \notin Upd(conn, m)
      BY <1>4, <1>10 DEF Upd
    <2>3. Cardinality(Upd(conn', m)) = u + 1
      <3> DEFINE S == Upd(conn, m)
      <3>1. IsFiniteSet(S) /\ c \notin S
        BY <1>7, <2>2
      <3> HIDE DEF S
      <3>2. Cardinality(S \cup {c}) = Cardinality(S) + 1
        BY <3>1, FS_AddElement
      <3> QED
        BY <2>2, <3>2 DEF S
    <2>4. overlaps'[m] = IF u = 0 THEN o ELSE o + 1
      <3>1. u = 0 <=> Upd(conn, m) = {}
        BY <1>7, FS_EmptySet
      <3> QED
        BY <1>1, <1>3, <1>6, <3>1 DEF PoolOK
    <2>5. ASSUME NEW x \in Counts, Near(x, a, u, o) PROVE Near(x, a, u + 1, overlaps'[m])
      <3>1. x \in Int /\ o \in Int
        BY <1>3 DEF Counts
      <3> HIDE DEF a, u, o
      <3> QED
        BY <1>7, <2>4, <2>5, <3>1 DEF Near
    <2>6. Near(inflight[m], a, u, o) /\ \A d \in Upd(conn, m) : Near(conn[d].reg, a, u, o)
      BY <1>3 DEF IInv, CountersOK
    <2>7. ASSUME NEW d \in Upd(conn', m) PROVE Near(conn'[d].reg, a, u + 1, overlaps'[m])
      <3>1. CASE d = c
        BY <1>3, <1>4, <1>10, <2>5, <2>6, <3>1
      <3>2. CASE d # c
        <4>1. d \in Upd(conn, m) /\ d \in Clients /\ conn'[d] = conn[d]
          BY <1>10, <2>2, <3>2 DEF Upd
        <4>2. conn[d].reg \in Counts
          BY <1>1, <4>1 DEF Conns
        <4> QED
          BY <2>5, <2>6, <4>1, <4>2
      <3> QED
        BY <3>1, <3>2
    <2>8. Near(inflight[m], a, u + 1, overlaps'[m])
      BY <1>3, <2>5, <2>6
    <2> QED
      BY <2>1, <2>3, <2>7, <2>8 DEF CountersOK
  <1>12. ASSUME NEW n \in Members, n # m PROVE CountersOK(conn, n)'
    <2>1. overlaps'[n] = overlaps[n] /\ conn'[c].member # n /\ conn[c].member # n
      BY <1>1, <1>4, <1>6, <1>10, <1>12 DEF PoolOK
    <2> QED
      BY <1>10, <2>1, OtherMember
  <1>13. \A n \in Members : CountersOK(conn, n)'
    BY <1>11, <1>12
  <1> QED
    BY <1>10, <1>13 DEF IInv

\* The second half: the copy, plus n, becomes the counter.
LEMMA StoreIInv ==
  ASSUME IInv, NEW c \in Clients, NEW n \in {1, -1}, NEW r \in Conns, ConnOK(r),
         conn[c].pc = IF n = 1 THEN "counting" ELSE "settling",
         r.pc = IF n = 1 THEN "proxy" ELSE "closed",
         n = 1 => r.member = conn[c].member,
         conn' = [conn EXCEPT ![c] = r],
         Store(c, n),
         UNCHANGED <<backend, memberUp, overlaps, strategy, rrIndex, selecting, running, probe>>
  PROVE  IInv'
  <1> SUFFICES ASSUME NEW m, m = conn[c].member, NEW reg, reg = conn[c].reg PROVE IInv'
    OBVIOUS
  <1> DEFINE a == Cardinality(Act(conn, m))
             u == Cardinality(Upd(conn, m))
             o == overlaps[m]
  <1>1. conn \in [Clients -> Conns] /\ PoolOK /\ conn[c] \in Conns /\ ConnOK(conn[c])
    BY TypeSplit DEF IInv
  <1>2. m \in Members /\ reg \in Counts /\ o \in 0 .. MaxOverlaps /\ inflight \in [Members -> Counts]
    BY <1>1 DEF ConnOK, PoolOK, Conns
  <1>3. inflight' = [inflight EXCEPT ![m] = reg + n]
    BY DEF Store
  <1>4. a \in Nat /\ u \in Nat /\ IsFiniteSet(Upd(conn, m)) /\ IsFiniteSet(Act(conn, m))
    BY FiniteCounts
  <1>5. c \in Upd(conn, m)
    BY DEF Upd
  <1>6. Near(inflight[m], a, u, o) /\ \A d \in Upd(conn, m) : Near(conn[d].reg, a, u, o)
    BY <1>2 DEF IInv, CountersOK
  <1>7. conn'[c] = r /\ \A d \in Clients : d # c => conn'[d] = conn[d]
    BY <1>1
  <1>8. Upd(conn', m) = Upd(conn, m) \ {c}
    BY <1>7 DEF Upd
  <1>9. Cardinality(Upd(conn', m)) = u - 1
    <2> DEFINE S == Upd(conn, m)
    <2>1. IsFiniteSet(S) /\ c \in S
      BY <1>4, <1>5, <1>8
    <2> HIDE DEF S
    <2>2. Cardinality(S \ {c}) = Cardinality(S) - 1
      BY <2>1, FS_RemoveElement
    <2> QED
      BY <1>4, <1>5, <1>8, <2>2 DEF S
  <1>10. Cardinality(Act(conn', m)) = a + n /\ a + n \in Nat
    <2>1. CASE n = 1
      <3>1. Act(conn', m) = Act(conn, m) \cup {c} /\ c \notin Act(conn, m)
        BY <1>7, <2>1 DEF Act
      <3>2. Cardinality(Act(conn', m)) = a + 1
        <4> DEFINE S == Act(conn, m)
        <4>1. IsFiniteSet(S) /\ c \notin S
          BY <1>4, <3>1
        <4> HIDE DEF S
        <4>2. Cardinality(S \cup {c}) = Cardinality(S) + 1
          BY <4>1, FS_AddElement
        <4> QED
          BY <3>1, <4>2 DEF S
      <3> QED
        BY <1>4, <2>1, <3>2
    <2>2. CASE n = -1
      <3>1. Act(conn', m) = Act(conn, m) \ {c} /\ c \in Act(conn, m)
        BY <1>7, <2>2 DEF Act
      <3>2. Cardinality(Act(conn', m)) = a - 1
        <4> DEFINE S == Act(conn, m)
        <4>1. IsFiniteSet(S) /\ c \in S
          BY <1>4, <3>1
        <4> HIDE DEF S
        <4>2. Cardinality(S \ {c}) = Cardinality(S) - 1
          BY <4>1, FS_RemoveElement
        <4> QED
          BY <1>4, <3>1, <4>2 DEF S
      <3>3. Cardinality(Act(conn', m)) \in Nat
        BY FiniteCounts
      <3> QED
        BY <1>4, <2>2, <3>2, <3>3
    <2> QED
      BY <2>1, <2>2
  <1>11. u - 1 \in Nat
    <2>1. Cardinality(Upd(conn', m)) \in Nat
      BY FiniteCounts
    <2> QED
      BY <1>9, <2>1
  <1> HIDE DEF a, u
  <1>12. Near(reg + n, a + n, u - 1, o) /\ reg + n \in Counts
    <2>1. Near(reg, a, u, o)
      BY <1>5, <1>6
    <2>2. reg \in Int /\ o \in Int /\ o <= MaxOverlaps /\ MaxOverlaps \in Int /\ n \in Int
      BY <1>2, ProxyAssumption DEF Counts
    <2> HIDE DEF o
    <2>3. Near(reg + n, a + n, u - 1, o)
      BY <1>4, <2>1, <2>2 DEF Near
    <2>4. (a + n) - (reg + n) <= o
      BY <2>3 DEF Near
    <2> QED
      BY <1>10, <2>2, <2>3, <2>4 DEF Counts
  <1>13. ASSUME NEW d \in Upd(conn', m) PROVE Near(conn'[d].reg, a + n, u - 1, o)
    <2>1. d \in Upd(conn, m) /\ d # c /\ d \in Clients /\ conn'[d] = conn[d]
      BY <1>7, <1>8 DEF Upd
    <2>2. conn[d].reg \in Counts /\ Near(conn[d].reg, a, u, o)
      BY <1>1, <1>6, <2>1 DEF Conns
    <2> DEFINE x == conn[d].reg
    <2>3. x \in Int /\ o \in Int
      BY <1>2, <2>2 DEF Counts
    <2>4. Near(x, a, u, o) /\ u >= 2
      <3>1. Cardinality(Upd(conn', m)) # 0
        BY <1>13, FiniteCounts, FS_EmptySet
      <3>2. u - 1 # 0
        BY <1>9, <3>1
      <3>3. u >= 2
        BY <1>4, <1>11, <3>2
      <3> QED
        BY <2>2, <3>3
    <2> HIDE DEF x, o
    <2>5. Near(x, a + n, u - 1, o)
      BY <1>4, <2>3, <2>4 DEF Near
    <2> QED
      BY <2>1, <2>5 DEF x
  <1>14. CountersOK(conn, m)'
    <2>1. inflight'[m] = reg + n /\ overlaps'[m] = o
      BY <1>2, <1>3
    <2> HIDE DEF o
    <2> QED
      BY <1>9, <1>10, <1>12, <1>13, <2>1 DEF CountersOK
  <1>15. ASSUME NEW k \in Members, k # m PROVE CountersOK(conn, k)'
    <2>1. inflight'[k] = inflight[k] /\ overlaps'[k] = overlaps[k] /\ conn[c].member # k
      BY <1>2, <1>3, <1>15
    <2>2. conn'[c].member # k \/ conn'[c].pc \notin Counting
      BY <1>7, <1>15 DEF Counting
    <2> QED
      BY <1>7, <2>1, <2>2, OtherMember
  <1>16. PoolOK'
    BY <1>1, <1>2, <1>3, <1>12 DEF PoolOK
  <1>17. ProxyTypeOK' /\ OneSelector'
    BY <1>16, HandlerTyped
  <1>18. \A k \in Members : CountersOK(conn, k)'
    BY <1>14, <1>15
  <1> QED
    BY <1>17, <1>18 DEF IInv

\* member.inflight += 1, and the finally clause, after a reply or not
LEMMA CountIInv ==
  ASSUME IInv, NEW c \in Clients,
         CountIn(c) \/ Counted(c) \/ (\E ok \in BOOLEAN : Relay(c, ok)) \/ Settled(c)
  PROVE  IInv'
  <1>1. conn \in [Clients -> Conns] /\ conn[c] \in Conns /\ ConnOK(conn[c])
    BY TypeSplit DEF IInv
  <1>2. CASE CountIn(c)
    BY <1>2, LoadIInv DEF CountIn, At
  <1>3. CASE Counted(c)
    <2> DEFINE r == [conn[c] EXCEPT !.pc = "proxy", !.reg = 0]
    <2>1. conn' = [conn EXCEPT ![c] = r] /\ conn[c].pc = "counting" /\ Store(c, 1)
      BY <1>1, <1>3 DEF Counted, At
    <2>2. r \in Conns /\ r.pc = "proxy" /\ r.member = conn[c].member /\ r.keys = conn[c].keys
      BY <1>1, ZeroCount DEF Conns, Labels
    <2> HIDE DEF r
    <2>3. ConnOK(r)
      BY <1>1, <2>1, <2>2 DEF ConnOK
    <2> QED
      BY <1>3, <2>1, <2>2, <2>3, StoreIInv DEF Counted
  <1>4. ASSUME NEW ok \in BOOLEAN, Relay(c, ok) PROVE IInv'
    BY <1>4, LoadIInv DEF Relay, Settle, At
  <1>5. CASE Settled(c)
    <2>1. conn' = [conn EXCEPT ![c] = NoConn] /\ conn[c].pc = "settling" /\ Store(c, -1)
      BY <1>5 DEF Settled, At, Close
    <2>2. -1 \in {1, -1} /\ -1 # 1
      OBVIOUS
    <2> QED
      BY <1>5, <2>1, <2>2, NoConnOK, StoreIInv DEF Settled
  <1> QED
    BY <1>2, <1>3, <1>4, <1>5

-----------------------------------------------------------------------------
(* The theorems.                                                            *)

LEMMA NextIInv == IInv /\ [ProxyNext]_proxyVars => IInv'
  <1> SUFFICES ASSUME IInv, [ProxyNext]_proxyVars PROVE IInv'
    OBVIOUS
  <1>1. CASE UNCHANGED proxyVars
    BY <1>1 DEF proxyVars, memberVars, counters, IInv, ProxyTypeOK, ConnOK, OneSelector, CountersOK, Act, Upd, At
  <1>2. CASE HealthStep \/ \E m \in Members : BackendStop(m)
    BY <1>2, PoolIInv
  <1>3. CASE ProxyStop
    BY <1>3, StopIInv
  <1>4. ASSUME NEW c \in Clients, ClientConnects(c) \/ Accept(c) PROVE IInv'
    BY <1>4, ConnectionIInv
  <1>5. ASSUME NEW c \in Clients, Handle(c) PROVE IInv'
    BY <1>5, ConnectionIInv, SelectIInv, CountIInv DEF Handle
  <1> QED
    BY <1>1, <1>2, <1>3, <1>4, <1>5 DEF ProxyNext

(* The inductive invariant of the proxy holds in every reachable state: in  *)
(* particular _select() always returns a member of the pool.                *)
THEOREM ProxyInvariance == ProxySpec => []IInv
  BY InitIInv, NextIInv, PTL DEF ProxySpec

(* Whatever backends, clients and the health loop do, each counter is the   *)
(* number of its member's requests, but for one for each update that began  *)
(* inside another one (lines 179-184): exact and back at zero with the last *)
(* request when none did.                                                   *)
THEOREM CountersKept == ProxySpec => []InflightKept
  <1>1. IInv => InflightKept
    <2> SUFFICES ASSUME IInv, NEW m \in Members
                 PROVE  /\ inflight[m] - Cardinality(Active(m)) <= overlaps[m]
                        /\ Cardinality(Active(m)) - inflight[m] <= overlaps[m]
      BY DEF InflightKept
    <2>1. Active(m) = Act(conn, m)
      BY DEF Active, Act
    <2> QED
      BY <2>1 DEF IInv, CountersOK, Near
  <1> QED
    BY <1>1, ProxyInvariance, PTL

(* min() reads the counters in one handler at a time, the owner of          *)
(* self._lock.                                                              *)
THEOREM SelectionExclusive == ProxySpec => []OneSelector
  <1>1. IInv => OneSelector
    BY DEF IInv
  <1> QED
    BY <1>1, ProxyInvariance, PTL

-----------------------------------------------------------------------------
(* epoll_echo_server.py: where the bytes of a message are.                  *)

\* s is the part of m that begins after the first n bytes.
Piece(s, m, n) == n + Len(s) <= Len(m) /\ \A k \in 1 .. Len(s) : s[k] = m[n + k]

EchoTypeOK ==
  /\ client \in [EchoClients -> {"connect", "recv", "done", "gone"}]
  /\ side \in [EchoClients -> {"none", "pending", "open", "closed"}]
  /\ up \in [EchoClients -> Seq(Nat)] /\ down \in [EchoClients -> Seq(Nat)]
  /\ chunks \in [EchoClients -> Seq(Nat)]

(* The events that are left are of open connections.                        *)
EventsOpen == \A c \in EchoClients : c \in events => side[c] = "open"

(* What a client read, what is on its way to it and what the server has not *)
(* received are consecutive parts of the message, and nothing is missing    *)
(* between them before the server closes, for which there is one reason.    *)
EchoPlaces(c) ==
  LET all == Message[c] IN
  /\ client[c] = "connect" => /\ chunks[c] = << >> /\ down[c] = << >> /\ side[c] = "none"
  /\ client[c] \in {"recv", "done"} => /\ Piece(chunks[c], all, 0)
                                       /\ Piece(down[c], all, Len(chunks[c]))
  /\ client[c] = "recv" =>
       /\ Len(down[c]) <= SendBuf
       /\ side[c] = "closed" => Len(all) > SendBuf
       /\ side[c] # "closed" => Piece(up[c], all, Len(chunks[c]) + Len(down[c]))
                                /\ Len(chunks[c]) + Len(down[c]) + Len(up[c]) = Len(all)
  /\ client[c] = "done" /\ Len(all) <= SendBuf => Len(chunks[c]) = Len(all)

EchoIInv == EchoTypeOK /\ EventsOpen /\ \A c \in EchoClients : EchoPlaces(c)

LEMMA PieceSplit ==
  ASSUME NEW s \in Seq(Nat), NEW m \in Seq(Nat), NEW n \in Nat, Piece(s, m, n),
         NEW j \in 0 .. Len(s)
  PROVE  /\ SubSeq(s, 1, j) \in Seq(Nat) /\ Len(SubSeq(s, 1, j)) = j
         /\ SubSeq(s, j + 1, Len(s)) \in Seq(Nat) /\ Len(SubSeq(s, j + 1, Len(s))) = Len(s) - j
         /\ Piece(SubSeq(s, 1, j), m, n)
         /\ Piece(SubSeq(s, j + 1, Len(s)), m, n + j)
  <1> DEFINE a == SubSeq(s, 1, j)
             b == SubSeq(s, j + 1, Len(s))
             e == Len(s)
  <1>1. e \in Nat /\ Len(m) \in Nat /\ n + e <= Len(m) /\ \A k \in 1 .. e : s[k] = m[n + k]
    BY LenProperties DEF Piece
  <1>2. \A k \in 1 .. e : s[k] \in Nat
    BY ElementOfSeq
  <1>3. e = Len(s) /\ j \in 0 .. e
    OBVIOUS
  <1> HIDE DEF e
  <1>4. (\A k \in 1 .. j : s[k] \in Nat) /\ (\A k \in j + 1 .. e : s[k] \in Nat)
    <2>1. e \in Nat /\ j \in 0 .. e
      BY <1>1, <1>3
    <2>2. (\A k \in 1 .. j : k \in 1 .. e) /\ (\A k \in j + 1 .. e : k \in 1 .. e)
      BY <2>1
    <2> QED
      BY <1>2, <2>2
  <1>5. /\ a \in Seq(Nat) /\ Len(a) = j /\ \A k \in 1 .. j : a[k] = s[k]
    <2>1. /\ SubSeq(s, 1, j) \in Seq(Nat)
          /\ Len(SubSeq(s, 1, j)) = IF 1 <= j THEN j - 1 + 1 ELSE 0
          /\ \A k \in 1 .. j - 1 + 1 : SubSeq(s, 1, j)[k] = s[1 + k - 1]
      BY <1>3, <1>4, SubSeqProperties
    <2>2. j - 1 + 1 = j /\ \A k \in 1 .. j : 1 + k - 1 = k
      BY <1>3
    <2> QED
      BY <1>3, <2>1, <2>2
  <1>6. /\ b \in Seq(Nat) /\ Len(b) = e - j /\ \A k \in 1 .. e - j : b[k] = s[j + k]
    <2>1. /\ SubSeq(s, j + 1, e) \in Seq(Nat)
          /\ Len(SubSeq(s, j + 1, e)) = IF j + 1 <= e THEN e - (j + 1) + 1 ELSE 0
          /\ \A k \in 1 .. e - (j + 1) + 1 : SubSeq(s, j + 1, e)[k] = s[(j + 1) + k - 1]
      BY <1>1, <1>3, <1>4, SubSeqProperties
    <2>2. e - (j + 1) + 1 = e - j /\ \A k \in 1 .. e - j : (j + 1) + k - 1 = j + k
      BY <1>1, <1>3
    <2> QED
      BY <1>1, <1>3, <2>1, <2>2
  <1> HIDE DEF a, b
  <1>7. Piece(a, m, n)
    <2>1. n + Len(a) <= Len(m) /\ \A k \in 1 .. Len(a) : k \in 1 .. e
      BY <1>1, <1>3, <1>5
    <2>2. \A k \in 1 .. Len(a) : a[k] = m[n + k]
      BY <1>1, <1>5, <2>1
    <2> QED
      BY <2>1, <2>2 DEF Piece
  <1>8. Piece(b, m, n + j)
    <2>1. (n + j) + Len(b) <= Len(m)
      BY <1>1, <1>3, <1>6
    <2>2. ASSUME NEW k \in 1 .. Len(b) PROVE b[k] = m[(n + j) + k]
      <3>1. j + k \in 1 .. e /\ n + (j + k) = (n + j) + k /\ k \in 1 .. e - j
        BY <1>1, <1>3, <1>6
      <3> QED
        BY <3>1, <1>1, <1>6
    <2> QED
      BY <2>1, <2>2 DEF Piece
  <1> QED
    BY <1>3, <1>5, <1>6, <1>7, <1>8 DEF a, b

LEMMA PieceJoin ==
  ASSUME NEW s \in Seq(Nat), NEW t \in Seq(Nat), NEW m \in Seq(Nat), NEW n \in Nat,
         Piece(s, m, n), Piece(t, m, n + Len(s))
  PROVE  s \o t \in Seq(Nat) /\ Len(s \o t) = Len(s) + Len(t) /\ Piece(s \o t, m, n)
  <1>1. Len(s) \in Nat /\ Len(t) \in Nat /\ Len(m) \in Nat
    BY LenProperties
  <1>2. /\ s \o t \in Seq(Nat) /\ Len(s \o t) = Len(s) + Len(t)
        /\ \A k \in 1 .. Len(s) + Len(t) :
             (s \o t)[k] = IF k <= Len(s) THEN s[k] ELSE t[k - Len(s)]
    BY ConcatProperties
  <1>3. ASSUME NEW k \in 1 .. Len(s) + Len(t) PROVE (s \o t)[k] = m[n + k]
    <2>1. CASE k <= Len(s)
      BY <2>1, <1>1, <1>2 DEF Piece
    <2>2. CASE ~(k <= Len(s))
      <3>1. k - Len(s) \in 1 .. Len(t) /\ (n + Len(s)) + (k - Len(s)) = n + k
        BY <2>2, <1>1
      <3>2. t[k - Len(s)] = m[n + k]
        BY <3>1 DEF Piece
      <3> QED
        BY <2>2, <3>2, <1>2
    <2> QED
      BY <2>1, <2>2
  <1>4. n + Len(s \o t) <= Len(m)
    BY <1>1, <1>2 DEF Piece
  <1> QED
    BY <1>2, <1>3, <1>4 DEF Piece

\* A part at the beginning is a prefix; one that is as long is the whole.
LEMMA PieceIsPrefix ==
  ASSUME NEW s \in Seq(Nat), NEW m \in Seq(Nat), Piece(s, m, 0)
  PROVE  IsPrefix(s, m) /\ (Len(s) = Len(m) => s = m)
  <1> DEFINE e == Len(s)
  <1>1. e \in Nat /\ Len(m) \in Nat /\ e <= Len(m) /\ \A k \in 1 .. e : s[k] = m[k]
    <2>1. e \in Nat /\ Len(m) \in Nat /\ 0 + e <= Len(m) /\ \A k \in 1 .. e : s[k] = m[0 + k]
      BY LenProperties DEF Piece
    <2>2. \A k \in 1 .. e : 0 + k = k
      BY <2>1
    <2> QED
      BY <2>1, <2>2
  <1>2. \A k \in 1 .. e : s[k] \in Nat /\ m[k] \in Nat
    BY <1>1, ElementOfSeq
  <1>3. e = Len(s)
    OBVIOUS
  <1> HIDE DEF e
  <1>4. /\ SubSeq(s, 1, e) \in Seq(Nat) /\ Len(SubSeq(s, 1, e)) = e
        /\ SubSeq(m, 1, e) \in Seq(Nat) /\ Len(SubSeq(m, 1, e)) = e
        /\ \A k \in 1 .. e : SubSeq(s, 1, e)[k] = s[k] /\ SubSeq(m, 1, e)[k] = m[k]
    <2>1. /\ SubSeq(s, 1, e) \in Seq(Nat)
          /\ Len(SubSeq(s, 1, e)) = IF 1 <= e THEN e - 1 + 1 ELSE 0
          /\ \A k \in 1 .. e - 1 + 1 : SubSeq(s, 1, e)[k] = s[1 + k - 1]
      BY <1>1, <1>2, SubSeqProperties
    <2>2. /\ SubSeq(m, 1, e) \in Seq(Nat)
          /\ Len(SubSeq(m, 1, e)) = IF 1 <= e THEN e - 1 + 1 ELSE 0
          /\ \A k \in 1 .. e - 1 + 1 : SubSeq(m, 1, e)[k] = m[1 + k - 1]
      BY <1>1, <1>2, SubSeqProperties
    <2>3. e - 1 + 1 = e /\ \A k \in 1 .. e : 1 + k - 1 = k
      BY <1>1
    <2> QED
      BY <1>1, <2>1, <2>2, <2>3
  <1>5. SubSeq(s, 1, e) = SubSeq(m, 1, e)
    BY <1>1, <1>4, SeqEqual
  <1>6. e = Len(m) => s = m
    BY <1>1, <1>3, SeqEqual
  <1> QED
    BY <1>1, <1>3, <1>5, <1>6 DEF IsPrefix

LEMMA EmptyPiece ==
  ASSUME NEW m \in Seq(Nat), NEW n \in Nat, n <= Len(m)
  PROVE  Piece(<< >>, m, n)
  <1>1. Len(<< >>) = 0 /\ Len(m) \in Nat
    BY EmptySeq, LenProperties
  <1> QED
    BY <1>1 DEF Piece

LEMMA WholePiece ==
  ASSUME NEW m \in Seq(Nat)
  PROVE  Piece(m, m, 0)
  <1>1. Len(m) \in Nat
    BY LenProperties
  <1> QED
    BY <1>1 DEF Piece

-----------------------------------------------------------------------------
LEMMA EchoLengths ==
  ASSUME EchoTypeOK, NEW c \in EchoClients
  PROVE  /\ chunks[c] \in Seq(Nat) /\ down[c] \in Seq(Nat) /\ up[c] \in Seq(Nat)
         /\ Message[c] \in Seq(Nat) /\ SendBuf \in Nat
         /\ Len(chunks[c]) \in Nat /\ Len(down[c]) \in Nat /\ Len(up[c]) \in Nat
         /\ Len(Message[c]) \in Nat
  <1>1. /\ chunks[c] \in Seq(Nat) /\ down[c] \in Seq(Nat) /\ up[c] \in Seq(Nat)
        /\ Message[c] \in Seq(Nat) /\ SendBuf \in Nat
    BY EchoAssumption DEF EchoTypeOK
  <1> QED
    BY <1>1, LenProperties

\* A step of one connection leaves the others where they were.
LEMMA OthersKeep ==
  ASSUME EchoIInv, NEW c \in EchoClients, EchoTypeOK', EventsOpen', EchoPlaces(c)',
         \A d \in EchoClients \ {c} :
           /\ client'[d] = client[d] /\ side'[d] = side[d]
           /\ up'[d] = up[d] /\ down'[d] = down[d] /\ chunks'[d] = chunks[d]
  PROVE  EchoIInv'
  <1>1. ASSUME NEW d \in EchoClients \ {c} PROVE EchoPlaces(d)'
    <2>1. EchoPlaces(d)
      BY DEF EchoIInv
    <2> QED
      BY <2>1 DEF EchoPlaces
  <1> QED
    BY <1>1 DEF EchoIInv

LEMMA ClientConnectInv ==
  ASSUME EchoIInv, NEW c \in EchoClients, ClientConnect(c)
  PROVE  EchoIInv'
  <1>1. /\ client[c] = "connect" /\ client' = [client EXCEPT ![c] = "recv"]
        /\ side' = [side EXCEPT ![c] = "pending"] /\ up' = [up EXCEPT ![c] = Message[c]]
        /\ UNCHANGED <<down, chunks, events>>
    BY DEF ClientConnect
  <1>2. EchoTypeOK /\ EchoPlaces(c) /\ EventsOpen
    BY DEF EchoIInv
  <1>3. EchoTypeOK'
    BY <1>1, <1>2, EchoLengths DEF EchoTypeOK
  <1>4. c \notin events
    BY <1>1, <1>2 DEF EchoPlaces, EventsOpen
  <1>5. EventsOpen'
    BY <1>1, <1>2, <1>4 DEF EventsOpen, EchoTypeOK
  <1>6. /\ client'[c] = "recv" /\ side'[c] = "pending" /\ up'[c] = Message[c]
        /\ down'[c] = << >> /\ chunks'[c] = << >>
    BY <1>1, <1>2 DEF EchoPlaces, EchoTypeOK
  <1>7. Len(<< >>) = 0 /\ Message[c] \in Seq(Nat) /\ Len(Message[c]) \in Nat /\ SendBuf \in Nat
    BY <1>2, EmptySeq, EchoLengths
  <1>8. Piece(<< >>, Message[c], 0) /\ Piece(Message[c], Message[c], 0)
    BY <1>7, EmptyPiece, WholePiece
  <1>9. EchoPlaces(c)'
    BY <1>6, <1>7, <1>8 DEF EchoPlaces
  <1> QED
    BY <1>1, <1>2, <1>3, <1>5, <1>9, OthersKeep DEF EchoTypeOK

(* recv() of the client (lines 168-173) moves the first bytes on their way. *)
LEMMA ClientRecvInv ==
  ASSUME EchoIInv, NEW c \in EchoClients, ClientRecv(c)
  PROVE  EchoIInv'
  <1>1. EchoTypeOK /\ EchoPlaces(c) /\ EventsOpen
    BY DEF EchoIInv
  <1>2. PICK n \in 1 .. Len(down[c]) :
          /\ chunks' = [chunks EXCEPT ![c] = chunks[c] \o SubSeq(down[c], 1, n)]
          /\ down' = [down EXCEPT ![c] = SubSeq(down[c], n + 1, Len(down[c]))]
    BY DEF ClientRecv
  <1>3. client[c] = "recv" /\ UNCHANGED <<client, up, side, events>>
    BY DEF ClientRecv
  <1> DEFINE a == SubSeq(down[c], 1, n)
             b == SubSeq(down[c], n + 1, Len(down[c]))
             r == chunks[c]
             d == down[c]
             m == Message[c]
  <1>4. /\ r \in Seq(Nat) /\ d \in Seq(Nat) /\ m \in Seq(Nat) /\ Len(up[c]) \in Nat
        /\ Len(r) \in Nat /\ Len(d) \in Nat /\ Len(m) \in Nat /\ SendBuf \in Nat
        /\ n \in 1 .. Len(d)
    BY <1>1, EchoLengths
  <1>5. Piece(r, m, 0) /\ Piece(d, m, Len(r))
    BY <1>1, <1>3 DEF EchoPlaces
  <1>6. /\ a \in Seq(Nat) /\ Len(a) = n /\ b \in Seq(Nat) /\ Len(b) = Len(d) - n
        /\ Piece(a, m, Len(r)) /\ Piece(b, m, Len(r) + n)
    <2>1. n \in 0 .. Len(d)
      BY <1>4
    <2> QED
      BY <1>4, <1>5, <2>1, PieceSplit
  <1>7. chunks'[c] = r \o a /\ down'[c] = b
    BY <1>1, <1>2 DEF EchoTypeOK
  <1>8. client'[c] = "recv" /\ up'[c] = up[c] /\ side'[c] = side[c]
    BY <1>3
  <1> HIDE DEF a, b, r, d, m
  <1>9. r \o a \in Seq(Nat) /\ Len(r \o a) = Len(r) + n /\ Piece(r \o a, m, 0)
    <2>1. Piece(a, m, 0 + Len(r))
      BY <1>4, <1>6
    <2> QED
      BY <1>4, <1>5, <1>6, <2>1, PieceJoin
  <1>10. /\ Len(chunks'[c]) + Len(down'[c]) = Len(r) + Len(d) /\ Len(down'[c]) <= Len(d)
         /\ Len(chunks'[c]) = Len(r) + n
    <2>1. /\ Len(chunks'[c]) = Len(r) + n /\ Len(down'[c]) = Len(d) - n
      BY <1>6, <1>7, <1>9
    <2> QED
      BY <1>4, <2>1
  <1>11. EchoTypeOK'
    BY <1>1, <1>2, <1>3, <1>6, <1>9 DEF EchoTypeOK, a, b, r, d
  <1>12. EventsOpen'
    BY <1>1, <1>3 DEF EventsOpen
  <1>13. EchoPlaces(c)'
    <2>1. Len(d) <= SendBuf /\ (side[c] = "closed" => Len(m) > SendBuf)
      BY <1>1, <1>3 DEF EchoPlaces, d, m
    <2>2. side[c] # "closed" => /\ Piece(up[c], m, Len(r) + Len(d))
                                /\ Len(r) + Len(d) + Len(up[c]) = Len(m)
      BY <1>1, <1>3 DEF EchoPlaces, d, m, r
    <2>3. Piece(chunks'[c], m, 0) /\ Piece(down'[c], m, Len(chunks'[c]))
      BY <1>6, <1>7, <1>9, <1>10
    <2>4. Len(down'[c]) <= SendBuf
      BY <1>4, <1>6, <1>7, <1>10, <2>1
    <2>5. side[c] # "closed" => /\ Piece(up'[c], m, Len(chunks'[c]) + Len(down'[c]))
                                /\ Len(chunks'[c]) + Len(down'[c]) + Len(up'[c]) = Len(m)
      BY <1>8, <1>10, <2>2
    <2> QED
      BY <1>8, <2>1, <2>3, <2>4, <2>5 DEF EchoPlaces, m
  <1> QED
    BY <1>1, <1>2, <1>3, <1>11, <1>12, <1>13, OthersKeep DEF EchoTypeOK

(* The client leaves: with all of a message that fits, or with what it has. *)
LEMMA ClientLeavesInv ==
  ASSUME EchoIInv, NEW c \in EchoClients, ClientEnd(c) \/ ClientTimeout(c) \/ ClientReset(c)
  PROVE  EchoIInv'
  <1>1. EchoTypeOK /\ EchoPlaces(c) /\ EventsOpen
    BY DEF EchoIInv
  <1>2. client[c] = "recv" /\ UNCHANGED <<up, chunks, side, events>>
    BY DEF ClientEnd, ClientTimeout, ClientReset, netVars
  <1>3. EventsOpen'
    BY <1>1, <1>2 DEF EventsOpen
  <1>4. CASE ClientEnd(c)
    <2>1. /\ client' = [client EXCEPT ![c] = "done"] /\ down' = down
          /\ Len(chunks[c]) >= Len(Message[c]) \/ (side[c] = "closed" /\ down[c] = << >>)
      BY <1>4 DEF ClientEnd, netVars
    <2>2. /\ Len(chunks[c]) \in Nat /\ Len(Message[c]) \in Nat /\ SendBuf \in Nat
      BY <1>1, EchoLengths
    <2>3. Piece(chunks[c], Message[c], 0) /\ Piece(down[c], Message[c], Len(chunks[c]))
      BY <1>1, <1>2 DEF EchoPlaces
    <2>4. Len(chunks[c]) <= Len(Message[c])
      BY <2>2, <2>3 DEF Piece
    <2>5. Len(Message[c]) <= SendBuf => Len(chunks[c]) = Len(Message[c])
      BY <1>1, <1>2, <2>1, <2>2, <2>4 DEF EchoPlaces
    <2>6. EchoTypeOK' /\ client'[c] = "done"
      BY <1>1, <1>2, <2>1 DEF EchoTypeOK
    <2>7. EchoPlaces(c)'
      BY <1>2, <2>1, <2>3, <2>5, <2>6 DEF EchoPlaces
    <2> QED
      BY <1>1, <1>2, <1>3, <2>1, <2>6, <2>7, OthersKeep DEF EchoTypeOK
  <1>5. CASE ClientTimeout(c) \/ ClientReset(c)
    <2>1. /\ client' = [client EXCEPT ![c] = "gone"]
          /\ down' = [down EXCEPT ![c] = << >>]
      BY <1>5 DEF ClientTimeout, ClientReset
    <2>2. EchoTypeOK' /\ client'[c] = "gone"
      BY <1>1, <1>2, <2>1, EmptySeq DEF EchoTypeOK
    <2>3. EchoPlaces(c)'
      BY <2>2 DEF EchoPlaces
    <2> QED
      BY <1>1, <1>2, <1>3, <2>1, <2>2, <2>3, OthersKeep DEF EchoTypeOK
  <1> QED
    BY <1>4, <1>5

(* select() and _accept() (lines 78-92 and 129-136): the list names open    *)
(* connections, and an accepted one begins open.                            *)
LEMMA SelectInv ==
  ASSUME EchoIInv, Select \/ AcceptAll
  PROVE  EchoIInv'
  <1>1. EchoTypeOK /\ EventsOpen /\ UNCHANGED <<client, up, down, chunks>>
    BY DEF EchoIInv, Select, AcceptAll, netVars
  <1>2. CASE Select
    <2>1. side' = side /\ EchoTypeOK'
      BY <1>1, <1>2 DEF Select, EchoTypeOK
    <2>2. EventsOpen'
      BY <1>2, <2>1, EchoAssumption DEF Select, EventsOpen, Readable
    <2>3. \A c \in EchoClients : EchoPlaces(c)'
      BY <1>1, <2>1 DEF EchoIInv, EchoPlaces
    <2> QED
      BY <2>1, <2>2, <2>3 DEF EchoIInv
  <1>3. CASE AcceptAll
    <2>1. side' = [c \in EchoClients |-> IF Acceptable(c) THEN "open" ELSE side[c]]
      BY <1>3 DEF AcceptAll
    <2>2. \A c \in EchoClients :
            /\ side[c] # "pending" => side'[c] = side[c]
            /\ side[c] = "pending" => side'[c] = "open"
      BY <2>1 DEF Acceptable
    <2>3. EchoTypeOK'
      BY <1>1, <2>1 DEF EchoTypeOK
    <2>4. EventsOpen'
      BY <1>1, <1>3, <2>2 DEF AcceptAll, EventsOpen
    <2>5. ASSUME NEW c \in EchoClients PROVE EchoPlaces(c)'
      <3>1. EchoPlaces(c)
        BY DEF EchoIInv
      <3>2. (side'[c] = "closed" <=> side[c] = "closed") /\ (side'[c] = "none" <=> side[c] = "none")
        BY <2>2
      <3> QED
        BY <1>1, <3>1, <3>2 DEF EchoPlaces
    <2> QED
      BY <2>3, <2>4, <2>5 DEF EchoIInv
  <1> QED
    BY <1>2, <1>3

(* _service() (lines 94-112): what recv() returned goes back in the order   *)
(* it came, and only a send that does not fit closes on a client that       *)
(* still reads.                                                             *)
LEMMA EchoInv ==
  ASSUME EchoIInv, NEW c \in EchoClients, Echo(c)
  PROVE  EchoIInv'
  <1>1. EchoTypeOK /\ EchoPlaces(c) /\ EventsOpen
    BY DEF EchoIInv
  <1> DEFINE room == SendBuf - Len(down[c])
             sent(n) == IF n <= room THEN n ELSE room
  <1>2. PICK n \in 1 .. Len(up[c]) :
          /\ up' = [up EXCEPT ![c] = SubSeq(up[c], n + 1, Len(up[c]))]
          /\ down' = [down EXCEPT ![c] = IF Left(c) THEN down[c]
                                         ELSE down[c] \o SubSeq(up[c], 1, sent(n))]
          /\ side' = [side EXCEPT ![c] = AfterSend(c, sent(n) = n)]
    BY DEF Echo
  <1>3. c \in events /\ events' = events \ {c} /\ UNCHANGED <<client, chunks>>
    BY DEF Echo
  <1>4. side[c] = "open" /\ client[c] # "connect"
    BY <1>1, <1>3 DEF EventsOpen, EchoPlaces
  <1> DEFINE u == up[c]
             d == down[c]
             r == chunks[c]
             m == Message[c]
             z == sent(n)
             front == SubSeq(u, 1, z)
             rest == SubSeq(u, n + 1, Len(u))
  <1>5. /\ u \in Seq(Nat) /\ d \in Seq(Nat) /\ r \in Seq(Nat) /\ m \in Seq(Nat) /\ SendBuf \in Nat
        /\ Len(u) \in Nat /\ Len(d) \in Nat /\ Len(r) \in Nat /\ Len(m) \in Nat
        /\ n \in 1 .. Len(u)
    BY <1>1, EchoLengths
  <1>6. EventsOpen'
    <2>1. \A x \in EchoClients \ {c} : side'[x] = side[x]
      BY <1>1, <1>2 DEF EchoTypeOK
    <2> QED
      BY <1>1, <1>3, <2>1 DEF EventsOpen
  <1>7. rest \in Seq(Nat) /\ Len(rest) = Len(u) - n
    <2>1. n \in 0 .. Len(u)
      BY <1>5
    <2>2. Piece(u, u, 0)
      BY <1>5, WholePiece
    <2> QED
      BY <1>5, <2>1, <2>2, PieceSplit
  <1>8. CASE Left(c)
    <2>1. client[c] \in {"done", "gone"} /\ down' = down
      BY <1>1, <1>2, <1>8 DEF Left, EchoTypeOK
    <2>2. side'[c] \in {"open", "closed"} /\ AfterSend(c, sent(n) = n) \in {"open", "closed"}
      BY <1>1, <1>2 DEF EchoTypeOK, AfterSend
    <2> HIDE DEF sent, room
    <2>3. EchoTypeOK'
      BY <1>1, <1>2, <1>3, <1>7, <2>1, <2>2 DEF EchoTypeOK
    <2>4. EchoPlaces(c)'
      BY <1>1, <1>3, <2>1 DEF EchoPlaces
    <2> QED
      BY <1>1, <1>2, <1>3, <1>6, <2>1, <2>3, <2>4, OthersKeep DEF EchoTypeOK
  <1>9. CASE ~Left(c)
    <2>1. client[c] = "recv"
      BY <1>1, <1>4, <1>9 DEF Left, EchoTypeOK
    <2>2. /\ Piece(r, m, 0) /\ Piece(d, m, Len(r)) /\ Len(d) <= SendBuf
          /\ Piece(u, m, Len(r) + Len(d)) /\ Len(r) + Len(d) + Len(u) = Len(m)
      BY <1>1, <1>4, <2>1 DEF EchoPlaces
    <2>3. /\ z \in 0 .. n /\ z \in 0 .. Len(u) /\ n \in 0 .. Len(u) /\ z + Len(d) <= SendBuf
          /\ z # n => Len(m) > SendBuf
      <3>1. /\ Len(d) <= SendBuf /\ Len(r) + Len(d) + Len(u) = Len(m)
        BY <2>2
      <3>2. CASE n <= SendBuf - Len(d)
        <4>1. z = n
          BY <3>2
        <4> HIDE DEF z, room, sent, u, d, r, m
        <4> QED
          BY <1>5, <3>1, <3>2, <4>1
      <3>3. CASE ~(n <= SendBuf - Len(d))
        <4>1. z = SendBuf - Len(d)
          BY <3>3
        <4> HIDE DEF z, room, sent, u, d, r, m
        <4>2. \A lr, ld, lu, b \in Nat : \A k \in 1 .. lu :
                ld <= b /\ ~(k <= b - ld) =>
                  /\ b - ld \in 0 .. k /\ b - ld \in 0 .. lu /\ k \in 0 .. lu
                  /\ b - ld + ld <= b /\ lr + ld + lu > b
          OBVIOUS
        <4>3. /\ Len(r) \in Nat /\ Len(d) \in Nat /\ Len(u) \in Nat /\ SendBuf \in Nat
              /\ n \in 1 .. Len(u)
          BY <1>5, EchoAssumption
        <4>4. /\ SendBuf - Len(d) \in 0 .. n /\ SendBuf - Len(d) \in 0 .. Len(u)
              /\ n \in 0 .. Len(u) /\ SendBuf - Len(d) + Len(d) <= SendBuf
              /\ Len(r) + Len(d) + Len(u) > SendBuf
          BY <3>1, <3>3, <4>2, <4>3
        <4> QED
          BY <3>1, <4>1, <4>4
      <3> QED
        BY <3>2, <3>3
    <2>4. n \in Nat /\ z \in Nat
      BY <1>5, <2>3
    <2>5. /\ up'[c] = rest /\ down'[c] = d \o front
          /\ side'[c] = IF z = n THEN "open" ELSE "closed"
      BY <1>1, <1>2, <1>9 DEF EchoTypeOK, AfterSend
    <2>6. /\ up' = [up EXCEPT ![c] = rest] /\ down' = [down EXCEPT ![c] = d \o front]
          /\ side' = [side EXCEPT ![c] = IF z = n THEN "open" ELSE "closed"]
      BY <1>2, <1>9 DEF AfterSend
    <2>7. client'[c] = "recv" /\ chunks'[c] = r
      BY <1>3, <2>1
    <2> HIDE DEF u, d, r, m, z
    <2>8. /\ front \in Seq(Nat) /\ Len(front) = z /\ Piece(front, m, Len(r) + Len(d))
      BY <1>5, <2>2, <2>3, PieceSplit, SMTT(30)
    <2>9. Piece(rest, m, Len(r) + Len(d) + n)
      BY <1>5, <2>2, <2>3, PieceSplit
    <2> HIDE DEF front, rest
    <2>10. d \o front \in Seq(Nat) /\ Len(d \o front) = Len(d) + z /\ Piece(d \o front, m, Len(r))
      BY <1>5, <2>2, <2>8, PieceJoin
    <2>11. EchoTypeOK'
      BY <1>1, <1>3, <1>7, <2>6, <2>10 DEF EchoTypeOK
    <2>12. Len(down'[c]) <= SendBuf /\ (side'[c] = "closed" => Len(m) > SendBuf)
      BY <1>5, <2>3, <2>5, <2>10
    <2>13. z = n => /\ Len(r) + Len(down'[c]) + Len(up'[c]) = Len(m)
                    /\ Len(r) + Len(down'[c]) = Len(r) + Len(d) + n
      <3>1. /\ Len(down'[c]) = Len(d) + z /\ Len(up'[c]) = Len(u) - n
            /\ Len(r) + Len(d) + Len(u) = Len(m)
        BY <1>7, <2>2, <2>5, <2>10
      <3>2. \A x, y, w, v \in Nat : /\ x + (y + v) + (w - v) = x + y + w
                                   /\ x + (y + v) = x + y + v
        OBVIOUS
      <3>3. /\ Len(r) + (Len(d) + n) + (Len(u) - n) = Len(r) + Len(d) + Len(u)
            /\ Len(r) + (Len(d) + n) = Len(r) + Len(d) + n
        BY <1>5, <2>4, <3>2
      <3> QED
        BY <3>1, <3>3
    <2>14. side'[c] # "closed" => /\ Piece(up'[c], m, Len(r) + Len(down'[c]))
                                  /\ Len(r) + Len(down'[c]) + Len(up'[c]) = Len(m)
      BY <2>5, <2>9, <2>13
    <2>15. EchoPlaces(c)'
      BY <2>2, <2>5, <2>7, <2>10, <2>12, <2>14 DEF EchoPlaces, m
    <2> QED
      BY <1>1, <1>3, <1>6, <2>6, <2>11, <2>15, OthersKeep DEF EchoTypeOK
  <1> QED
    BY <1>8, <1>9

LEMMA DropInv ==
  ASSUME EchoIInv, NEW c \in EchoClients, Drop(c)
  PROVE  EchoIInv'
  <1>1. EchoTypeOK /\ EchoPlaces(c) /\ EventsOpen
    BY DEF EchoIInv
  <1>2. /\ client[c] \in {"done", "gone"} /\ side' = [side EXCEPT ![c] = "closed"]
        /\ up' = [up EXCEPT ![c] = << >>] /\ events' = events \ {c}
        /\ UNCHANGED <<client, down, chunks>>
    BY DEF Drop, Left
  <1>3. EchoTypeOK'
    BY <1>1, <1>2, EmptySeq DEF EchoTypeOK
  <1>4. EventsOpen'
    BY <1>1, <1>2 DEF EventsOpen, EchoTypeOK
  <1>5. EchoPlaces(c)'
    BY <1>1, <1>2 DEF EchoPlaces
  <1> QED
    BY <1>1, <1>2, <1>3, <1>4, <1>5, OthersKeep DEF EchoTypeOK

\* What the server decides about itself.
LEMMA EchoQuiet ==
  ASSUME EchoIInv, UNCHANGED <<client, up, down, chunks, side, events>>
  PROVE  EchoIInv'
  <1>1. EchoTypeOK' /\ EventsOpen'
    BY DEF EchoIInv, EchoTypeOK, EventsOpen
  <1>2. \A c \in EchoClients : EchoPlaces(c)'
    BY DEF EchoIInv, EchoPlaces
  <1> QED
    BY <1>1, <1>2 DEF EchoIInv

(* "echo mismatch" (epoll_echo_server.py, line 199) is never printed, for   *)
(* any number of clients, any messages and any size of the kernel's buffer: *)
(* what comes back is a beginning of what was sent, and all of it when it   *)
(* fits.                                                                    *)
THEOREM EchoesExact == EchoSpec => []EchoExact
  <1>1. EchoInit => EchoIInv
    <2> SUFFICES ASSUME EchoInit PROVE EchoIInv
      OBVIOUS
    <2>1. EchoTypeOK /\ EventsOpen
      BY EmptySeq DEF EchoInit, EchoTypeOK, EventsOpen
    <2>2. \A c \in EchoClients : EchoPlaces(c)
      BY DEF EchoInit, EchoPlaces
    <2> QED
      BY <2>1, <2>2 DEF EchoIInv
  <1>2. EchoIInv /\ [EchoNext]_echoVars => EchoIInv'
    <2> SUFFICES ASSUME EchoIInv, [EchoNext]_echoVars PROVE EchoIInv'
      OBVIOUS
    <2>1. ASSUME NEW c \in EchoClients, ClientStep(c) \/ ClientTimeout(c) PROVE EchoIInv'
      BY <2>1, ClientConnectInv, ClientRecvInv, ClientLeavesInv DEF ClientStep
    <2>2. ASSUME NEW c \in EchoClients, Echo(c) \/ Drop(c) PROVE EchoIInv'
      BY <2>2, EchoInv, DropInv
    <2>3. CASE Select \/ AcceptAll
      BY <2>3, SelectInv
    <2>4. CASE Serve \/ LeaveLoop \/ StopServer
      BY <2>4, EchoQuiet DEF Serve, LeaveLoop, StopServer, netVars
    <2>5. CASE UNCHANGED echoVars
      BY <2>5, EchoQuiet DEF echoVars, netVars
    <2> QED
      BY <2>1, <2>2, <2>3, <2>4, <2>5 DEF EchoNext, ServerStep
  <1>3. EchoIInv => EchoExact
    <2> SUFFICES ASSUME EchoIInv, NEW c \in EchoClients
                 PROVE  /\ client[c] # "gone" => IsPrefix(chunks[c] \o down[c], Message[c])
                        /\ client[c] = "done" /\ Len(Message[c]) <= SendBuf => chunks[c] = Message[c]
      BY DEF EchoExact
    <2>1. EchoTypeOK /\ EchoPlaces(c)
      BY DEF EchoIInv
    <2>2. /\ chunks[c] \in Seq(Nat) /\ down[c] \in Seq(Nat) /\ Message[c] \in Seq(Nat)
          /\ Len(chunks[c]) \in Nat /\ Len(Message[c]) \in Nat
      BY <2>1, EchoLengths
    <2>3. ASSUME client[c] # "gone"
          PROVE  Piece(chunks[c], Message[c], 0) /\ Piece(down[c], Message[c], Len(chunks[c]))
      <3>1. CASE client[c] = "connect"
        <4>1. chunks[c] = << >> /\ down[c] = << >> /\ Len(<< >>) = 0
          BY <2>1, <3>1, EmptySeq DEF EchoPlaces
        <4> QED
          BY <2>2, <4>1, EmptyPiece
      <3>2. CASE client[c] # "connect"
        BY <2>1, <2>3, <3>2 DEF EchoPlaces, EchoTypeOK
      <3> QED
        BY <3>1, <3>2
    <2>4. client[c] # "gone" => IsPrefix(chunks[c] \o down[c], Message[c])
      <3> SUFFICES ASSUME client[c] # "gone" PROVE IsPrefix(chunks[c] \o down[c], Message[c])
        OBVIOUS
      <3>1. 0 + Len(chunks[c]) = Len(chunks[c])
        BY <2>2
      <3>2. chunks[c] \o down[c] \in Seq(Nat) /\ Piece(chunks[c] \o down[c], Message[c], 0)
        BY <2>2, <2>3, <3>1, PieceJoin
      <3> QED
        BY <2>2, <3>2, PieceIsPrefix
    <2>5. client[c] = "done" /\ Len(Message[c]) <= SendBuf => chunks[c] = Message[c]
      BY <2>1, <2>2, <2>3, PieceIsPrefix DEF EchoPlaces
    <2> QED
      BY <2>4, <2>5
  <1> QED
    BY <1>1, <1>2, <1>3, PTL DEF EchoSpec
==============================================================================
