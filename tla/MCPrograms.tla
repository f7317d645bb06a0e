----------------------------- MODULE MCPrograms -----------------------------
(* The programs that must go on or end whatever the scheduler, the network, *)
(* a crash or a signal does: every behaviour is one of one of them.         *)
(*                                                                          *)
(* Pool: three workers and four tasks on a queue of two, so that main waits *)
(* in put() both for tasks and for pills; one task raises and kills a       *)
(* worker.  Shutdown: three jobs, and a signal from outside besides the     *)
(* program's own.  Supervisor: three restarts, as in its demonstration.     *)
(* Breaker: three threads, two failures to trip and two successes to close, *)
(* so that reports of calls from one period arrive in any of the next ones. *)
(* Echo: three clients, one of which sends more than the send buffer holds  *)
(* and one of which may time out.  HTTP: two chunks, of two bytes and of    *)
(* one, in every cutting of the stream and with every end of it.  DNS: the  *)
(* replies with up to two answers, whole, cut off and with another id, and  *)
(* all datagrams of up to four other bytes, which hold labels, pointers     *)
(* forwards, backwards and to themselves.  Locks: a ring of three threads   *)
(* and locks, where cycles of two and of three are possible among the pairs *)
(* of the lock ordering part.  Proxy: two members and two connections,      *)
(* whose counter updates do not overlap (MCLibrary has those that do).      *)
EXTENDS WorkerPool, GracefulShutdown, Supervisor, CircuitBreaker,
        EchoServer, HttpClient, DnsMessage, DeadlockDemo, ReverseProxy

MCMessage == <<<<1, 2>>, <<1, 2, 3, 4>>, <<1>>>>
MCPieces == <<<<"a", "b">>, <<"c">>>>
MCQName == <<<<97>>, <<98, 99>>>>
MCSub == <<119>>
MCRing == [t \in Threads |-> <<t, IF t + 1 \in Threads THEN t + 1 ELSE 1>>]

VARIABLE program

threads == <<poolVars, shutdownVars, supVars, breakerVars>>
wire == <<echoVars, httpVars, dnsVars, allVars>>
all == <<threads, wire, proxyVars, program>>

ProgramsInit ==
  /\ program \in {"pool", "shutdown", "supervisor", "breaker", "echo", "http", "dns", "locks", "proxy"}
  /\ PoolInit /\ ShutdownInit /\ SupInit /\ BreakerInit
  /\ EchoInit /\ HttpInit /\ DnsInit /\ DemoInit
  /\ program = "proxy" \/ (strategy = "round_robin" /\ backend = [m \in Members |-> "ok"])
  /\ ProxyInit

InThreads(step) == step /\ UNCHANGED <<wire, proxyVars, program>>
InPool(step) == program = "pool" /\ InThreads(step) /\ UNCHANGED <<shutdownVars, supVars, breakerVars>>
InShutdown(step) == program = "shutdown" /\ InThreads(step) /\ UNCHANGED <<poolVars, supVars, breakerVars>>
InSupervisor(step) == program = "supervisor" /\ InThreads(step) /\ UNCHANGED <<poolVars, shutdownVars, breakerVars>>
InBreaker(step) == program = "breaker" /\ InThreads(step) /\ UNCHANGED <<poolVars, shutdownVars, supVars>>

InWire(step) == step /\ UNCHANGED <<threads, proxyVars, program>>
InEcho(step) == program = "echo" /\ InWire(step) /\ UNCHANGED <<httpVars, dnsVars, allVars>>
InHttp(step) == program = "http" /\ InWire(step) /\ UNCHANGED <<echoVars, dnsVars, allVars>>
InDns(step) == program = "dns" /\ InWire(step) /\ UNCHANGED <<echoVars, httpVars, allVars>>
InLocks(step) == program = "locks" /\ InWire(step) /\ UNCHANGED <<echoVars, httpVars, dnsVars>>

InProxy(step) == program = "proxy" /\ step /\ UNCHANGED <<threads, wire, program>>

ProgramsNext ==
  \/ InPool(PoolNext) \/ InShutdown(ShutdownNext) \/ InSupervisor(SupNext) \/ InBreaker(BreakerNext)
  \/ InEcho(EchoNext) \/ InHttp(HttpNext) \/ InDns(DnsNext) \/ InLocks(DemoNext)
  \/ InProxy(ProxyNext)

\* The fairness of the program's own specification: PoolFairSpec, and so on.
ProgramsFairness ==
  /\ WF_poolVars(program = "pool" /\ MainStep)
  /\ \A w \in Workers : WF_poolVars(program = "pool" /\ WorkerStep(w))
  /\ WF_shutdownVars(program = "shutdown" /\ MainThread)
  /\ WF_shutdownVars(program = "shutdown" /\ WorkerThread)
  /\ WF_supVars(program = "supervisor" /\ (Reaped \/ Respawn))
  /\ WF_supVars(program = "supervisor" /\ \E code \in ExitCodes : ChildExit(code))
  /\ WF_breakerVars(program = "breaker" /\ Tick)
  /\ \A t \in Callers : /\ WF_breakerVars(program = "breaker" /\ Call(t))
                        /\ WF_breakerVars(program = "breaker" /\ Downstream(t))
                        /\ WF_breakerVars(program = "breaker" /\ Report(t))
  /\ WF_echoVars(program = "echo" /\ ServerStep)
  /\ \A c \in EchoClients : WF_echoVars(program = "echo" /\ ClientStep(c))
  /\ WF_httpVars(program = "http" /\ HttpStep)
  /\ WF_dnsVars(program = "dns" /\ ParseStep)
  /\ WF_allVars(program = "locks" /\ Main)
  /\ \A t \in Threads : WF_allVars(program = "locks" /\ Run(t))
  /\ WF_proxyVars(program = "proxy" /\ HealthStep)
  /\ \A c \in Clients : /\ WF_proxyVars(program = "proxy" /\ Accept(c))
                        /\ WF_proxyVars(program = "proxy" /\ Handle(c))

ProgramsSpec == ProgramsInit /\ [][ProgramsNext]_all /\ ProgramsFairness

(* Whatever is scheduled, crashes or is interrupted, the programs end: the  *)
(* pool's shutdown completes when fewer tasks raise than there are workers  *)
(* (worker_pool.py, lines 97-112), the worker of a process whose flag is    *)
(* set drains its queue and exits, even if main hangs in a nested signal    *)
(* handler (graceful_shutdown.py, lines 96-112), and run() returns          *)
(* (supervisor.py, lines 89-113).                                           *)
ProgramsEnd ==
  /\ <>[](program = "pool" => ShutdownDone)
  /\ DrainEnds
  /\ <>[](program = "supervisor" => SupervisionDone)

(* No peer keeps its program waiting: every client of the echo server is    *)
(* served (lines 205-218), http_get() returns or raises wherever the server *)
(* closes, and "stop pathological loops" (dns_query.py, line 87): parsing   *)
(* ends for every datagram.                                                 *)
WireEnds == <>[](program = "echo" => AllServed) /\ HttpEnds /\ DnsEnds

(* "it CANNOT hang" (deadlock_demo.py, line 41).                            *)
LocksGetThere == <>[](program = "locks" => AtTryLock)
=============================================================================
