---------------------------- MODULE ReverseProxy ----------------------------
(***************************************************************************)
(* reverse_proxy.py: the L7 proxy with one thread per client connection,   *)
(* a health-checking thread and backends that may be sick (503 on /health) *)
(* or stopped (connections wait in the backlog and nobody answers).        *)
(*                                                                         *)
(* The list of healthy members is built by a loop that holds no lock and   *)
(* min() reads the counters one call of the key function at a time: both   *)
(* are split into a step per member.  member.inflight += 1 and -= 1 hold   *)
(* no lock either, and "counter += 1 is multiple bytecodes" (line 648 of   *)
(* 04_concurrency_synchronization.md): each is a step that reads and a     *)
(* step that writes.                                                       *)
(***************************************************************************)
EXTENDS Integers, Sequences, FiniteSets

CONSTANTS
  NMembers,     \* len(self.members); the members are 1 .. NMembers
  Clients,      \* the client connections that can be open at one time
  MaxOverlaps,  \* bound: how many updates of a counter begin inside another one
  NONE          \* None

ASSUME ProxyAssumption ==
  NMembers \in Nat \ {0} /\ IsFiniteSet(Clients) /\ MaxOverlaps \in Nat /\ NONE \notin Clients

Members == 1 .. NMembers

VARIABLES
  backend,      \* how each backend answers: "ok", "sick" or "stopped"
  memberUp,     \* PoolMember.healthy
  inflight,     \* PoolMember.inflight
  overlaps,     \* history: how many updates of each counter began inside another one
  strategy,     \* self.strategy
  rrIndex,      \* self._rr_index
  selecting,    \* the connection whose thread holds self._lock, or NONE
  running,      \* self._running
  probe,        \* the member the health loop is at; 0 in sleep()
  conn          \* each connection: where its handler is, and its locals

counters == <<inflight, overlaps>>
memberVars == <<backend, memberUp, counters, strategy>>
proxyVars == <<memberVars, rrIndex, selecting, running, probe, conn>>

NoConn == [pc |-> "closed", k |-> 0, list |-> << >>, keys |-> << >>, member |-> NONE,
           reg |-> 0]

ProxyInit ==
  /\ backend \in [Members -> {"ok", "sick"}]
  /\ memberUp = [m \in Members |-> TRUE]
  /\ inflight = [m \in Members |-> 0] /\ overlaps = [m \in Members |-> 0]
  /\ strategy \in {"round_robin", "least_connections"}
  /\ rrIndex = 0
  /\ selecting = NONE
  /\ running = TRUE
  /\ probe = 0
  /\ conn = [c \in Clients |-> NoConn]

At(c, l) == conn[c].pc = l
HandlerGoes(c, l) == conn' = [conn EXCEPT ![c].pc = l]
Close(c) == conn' = [conn EXCEPT ![c] = NoConn]

-----------------------------------------------------------------------------
(* The two halves of member.inflight += 1 (line 179) and -= 1 (line 184).   *)

\* The handlers that have read the counter and not yet written it.
Updating(m) ==
  {c \in Clients : conn[c].pc \in {"counting", "settling"} /\ conn[c].member = m}

Load(c, l) ==
  LET m == conn[c].member
  IN  /\ IF Updating(m) = {} THEN UNCHANGED overlaps
         ELSE overlaps[m] < MaxOverlaps /\ overlaps' = [overlaps EXCEPT ![m] = @ + 1]
      /\ conn' = [conn EXCEPT ![c].pc = l, ![c].reg = inflight[m]]

Store(c, n) == inflight' = [inflight EXCEPT ![conn[c].member] = conn[c].reg + n]

-----------------------------------------------------------------------------
(* Seeded faults.                                                           *)

\* the counter is decremented after the reply only, not in a finally clause
Bug_Settle(c, ok) == IF ok THEN Load(c, "settling") ELSE UNCHANGED overlaps /\ Close(c)

\* an exception of the probe is ignored
Bug_HealthVerdict(m, timely) == IF timely THEN backend[m] = "ok" ELSE memberUp[m]

\* the index only moves when it would leave the list
Bug_NextIndex(n) == IF rrIndex + 1 < n THEN rrIndex ELSE 0

-----------------------------------------------------------------------------
(* _health_loop() and the /health answers of the backends                   *)

WakeUp ==
  /\ probe = 0 /\ running
  /\ probe' = 1
  /\ UNCHANGED <<memberVars, rrIndex, selecting, running, conn>>

\* A stopped backend never answers in time, and any answer may be late.
HealthVerdict(m, timely) == timely /\ backend[m] = "ok"

HealthProbe(timely) ==
  /\ probe # 0
  /\ timely => backend[probe] # "stopped"
  /\ memberUp' = [memberUp EXCEPT ![probe] = HealthVerdict(probe, timely)]
  /\ probe' = IF probe = NMembers THEN 0 ELSE probe + 1
  /\ UNCHANGED <<backend, counters, strategy, rrIndex, selecting, running, conn>>

HealthStep == WakeUp \/ \E timely \in BOOLEAN : HealthProbe(timely)

\* Backend.stop(): shutdown() of the server, whose socket stays open
BackendStop(m) ==
  /\ backend[m] # "stopped"
  /\ backend' = [backend EXCEPT ![m] = "stopped"]
  /\ UNCHANGED <<memberUp, counters, strategy, rrIndex, selecting, running, probe, conn>>

-----------------------------------------------------------------------------
(* A client connects, and _accept_loop() starts a thread for it.            *)

ClientConnects(c) ==
  /\ At(c, "closed") /\ running
  /\ HandlerGoes(c, "backlog")
  /\ UNCHANGED <<memberVars, rrIndex, selecting, running, probe>>

Accept(c) ==
  /\ At(c, "backlog") /\ running
  /\ HandlerGoes(c, "read")
  /\ UNCHANGED <<memberVars, rrIndex, selecting, running, probe>>

\* stop(): closing the listener resets the connections of its backlog.
ProxyStop ==
  /\ running
  /\ running' = FALSE
  /\ conn' = [c \in Clients |-> IF At(c, "backlog") THEN NoConn ELSE conn[c]]
  /\ UNCHANGED <<memberVars, rrIndex, selecting, probe>>

-----------------------------------------------------------------------------
(* _handle(): _read_http_message() ends with a request (or a part of one,   *)
(* when the client closes), with nothing, or with socket.timeout.           *)

Read(c) ==
  /\ At(c, "read")
  /\ conn' = [conn EXCEPT ![c].pc = "list", ![c].k = 1]
  /\ UNCHANGED <<memberVars, rrIndex, selecting, running, probe>>

ReadNothing(c) ==
  /\ At(c, "read")
  /\ Close(c)
  /\ UNCHANGED <<memberVars, rrIndex, selecting, running, probe>>

\* _healthy_members()
ListMember(c) ==
  /\ At(c, "list") /\ conn[c].k <= NMembers
  /\ conn' = [conn EXCEPT ![c].k = @ + 1,
                          ![c].list = IF memberUp[conn[c].k] THEN Append(@, conn[c].k) ELSE @]
  /\ UNCHANGED <<memberVars, rrIndex, selecting, running, probe>>

\* No healthy member: 503.
Unavailable(c) ==
  /\ At(c, "list") /\ conn[c].k > NMembers /\ conn[c].list = << >>
  /\ Close(c)
  /\ UNCHANGED <<memberVars, rrIndex, selecting, running, probe>>

NextIndex(n) == (rrIndex + 1) % n

\* _select(), round robin: the index and the choice under the lock
SelectRoundRobin(c) ==
  /\ At(c, "list") /\ conn[c].k > NMembers /\ conn[c].list # << >>
  /\ strategy = "round_robin" /\ selecting = NONE
  /\ rrIndex' = NextIndex(Len(conn[c].list))
  /\ conn' = [conn EXCEPT ![c].pc = "selected", ![c].k = 0, ![c].list = << >>,
                          ![c].member = conn[c].list[rrIndex' + 1]]
  /\ UNCHANGED <<memberVars, selecting, running, probe>>

\* _select(), least connections: min() under the lock, a key at a time
EnterMin(c) ==
  /\ At(c, "list") /\ conn[c].k > NMembers /\ conn[c].list # << >>
  /\ strategy = "least_connections" /\ selecting = NONE
  /\ selecting' = c
  /\ HandlerGoes(c, "min")
  /\ UNCHANGED <<memberVars, rrIndex, running, probe>>

ReadKey(c) ==
  /\ At(c, "min") /\ Len(conn[c].keys) < Len(conn[c].list)
  /\ conn' = [conn EXCEPT ![c].keys = Append(@, inflight[conn[c].list[Len(@) + 1]])]
  /\ UNCHANGED <<memberVars, rrIndex, selecting, running, probe>>

FirstMin(keys) ==
  CHOOSE k \in DOMAIN keys : \A j \in DOMAIN keys : keys[k] < keys[j] \/ (keys[k] = keys[j] /\ k <= j)

SelectLeast(c) ==
  /\ At(c, "min") /\ Len(conn[c].keys) = Len(conn[c].list)
  /\ conn' = [conn EXCEPT ![c] = [NoConn EXCEPT !.pc = "selected",
                                                !.member = conn[c].list[FirstMin(conn[c].keys)]]]
  /\ selecting' = NONE
  /\ UNCHANGED <<memberVars, rrIndex, running, probe>>

-----------------------------------------------------------------------------
(* The rest of _handle() and _proxy_to_backend().                           *)

\* member.inflight += 1
CountIn(c) ==
  /\ At(c, "selected")
  /\ Load(c, "counting")
  /\ UNCHANGED <<backend, memberUp, inflight, strategy, rrIndex, selecting, running, probe>>

Counted(c) ==
  /\ At(c, "counting")
  /\ Store(c, 1)
  /\ conn' = [conn EXCEPT ![c].pc = "proxy", ![c].reg = 0]
  /\ UNCHANGED <<backend, memberUp, overlaps, strategy, rrIndex, selecting, running, probe>>

\* The finally clause, after a reply or not.
Settle(c, ok) == Load(c, "settling")

\* The backend's answer (of a sick one too), or what had come of it when the
\* timeout struck, is relayed; or connecting or sending raises.  Then
\* member.inflight -= 1.
Relay(c, ok) ==
  /\ At(c, "proxy")
  /\ Settle(c, ok)
  /\ UNCHANGED <<backend, memberUp, inflight, strategy, rrIndex, selecting, running, probe>>

Settled(c) ==
  /\ At(c, "settling")
  /\ Store(c, -1)
  /\ Close(c)
  /\ UNCHANGED <<backend, memberUp, overlaps, strategy, rrIndex, selecting, running, probe>>

Handle(c) ==
  \/ Read(c) \/ ReadNothing(c)
  \/ ListMember(c) \/ Unavailable(c)
  \/ SelectRoundRobin(c) \/ EnterMin(c) \/ ReadKey(c) \/ SelectLeast(c)
  \/ CountIn(c) \/ Counted(c) \/ (\E ok \in BOOLEAN : Relay(c, ok)) \/ Settled(c)

ProxyNext ==
  \/ HealthStep
  \/ \E m \in Members : BackendStop(m)
  \/ \E c \in Clients : ClientConnects(c) \/ Accept(c) \/ Handle(c)
  \/ ProxyStop

(* Threads that can run are scheduled: the health loop, the accept loop and *)
(* each handler, whose socket calls all have a timeout.  A thread that      *)
(* waits for self._lock may starve.                                         *)
ProxyFairness ==
  /\ WF_proxyVars(HealthStep)
  /\ \A c \in Clients : WF_proxyVars(Accept(c)) /\ WF_proxyVars(Handle(c))

ProxySpec == ProxyInit /\ [][ProxyNext]_proxyVars /\ ProxyFairness

-----------------------------------------------------------------------------
(* Type invariant, with what each handler's place says about its locals.    *)
Labels == {"closed", "backlog", "read", "list", "min", "selected", "counting", "proxy", "settling"}

ConnOK(r) ==
  /\ r.pc = "list" => r.k >= 1
  /\ r.pc = "min" => r.list # << >> /\ Len(r.keys) <= Len(r.list)
  /\ r.pc # "min" => r.keys = << >>
  /\ r.pc \in {"selected", "counting", "proxy", "settling"} => r.member \in Members

\* A counter whose updates were lost may fall below zero.
Counts == {n \in Int : n >= -MaxOverlaps}

ProxyTypeOK ==
  /\ backend \in [Members -> {"ok", "sick", "stopped"}]
  /\ memberUp \in [Members -> BOOLEAN]
  /\ inflight \in [Members -> Counts]
  /\ overlaps \in [Members -> 0 .. MaxOverlaps]
  /\ strategy \in {"round_robin", "least_connections"}
  /\ rrIndex \in Nat
  /\ selecting \in Clients \cup {NONE}
  /\ running \in BOOLEAN
  /\ probe \in 0 .. NMembers
  /\ conn \in [Clients -> [pc : Labels, k : Nat, list : Seq(Members), keys : Seq(Counts),
                           member : Members \cup {NONE}, reg : Counts]]
  /\ \A c \in Clients : ConnOK(conn[c])

(* self._lock: min() runs in one handler at a time, the lock's owner.       *)
OneSelector == \A c \in Clients : At(c, "min") <=> selecting = c

\* The requests that member m is given: from the end of += 1 to the end of -= 1.
Active(m) == {c \in Clients : conn[c].pc \in {"proxy", "settling"} /\ conn[c].member = m}

(* A member's in-flight counter, on which least_connections rests, is the   *)
(* number of requests the member has been given, but for one for each       *)
(* update that began inside another one of the same counter: no path of     *)
(* _handle() leaves a request counted or counts it off twice, whatever      *)
(* backends, clients and the order of the handlers' steps do (lines         *)
(* 179-184), and what an update can lose is one request.                    *)
InflightKept ==
  \A m \in Members :
    /\ inflight[m] - Cardinality(Active(m)) <= overlaps[m]
    /\ Cardinality(Active(m)) - inflight[m] <= overlaps[m]

(* "active requests for least-connections" (line 101): the counter is the   *)
(* number of the member's requests, always.                                 *)
InflightExact == \A m \in Members : inflight[m] = Cardinality(Active(m))

(* Ejection (lines 125-136, and line 259: "traffic reached the unhealthy    *)
(* backend!"): unless the proxy is stopped, a backend that is sick or       *)
(* stopped gets no request any more, from some moment on, though handlers   *)
(* choose from lists taken earlier.                                         *)
DownDrained ==
  \A m \in Members :
    []<>(backend[m] # "ok") =>
      <>[](~running \/ \A c \in Clients : ~(At(c, "proxy") /\ conn[c].member = m))

(* Line 260, "traffic did not spread across healthy backends": once all     *)
(* members stay healthy, round robin gives each of them requests again and  *)
(* again as long as requests come.                                          *)
RoundRobinServesAll ==
  ( /\ <>[](strategy = "round_robin" /\ \A m \in Members : memberUp[m])
    /\ []<>(\E c \in Clients : At(c, "selected"))
    /\ []<>(\A c \in Clients : ~At(c, "selected")) )
  => \A m \in Members : []<>(\E c \in Clients : At(c, "selected") /\ conn[c].member = m)
=============================================================================
