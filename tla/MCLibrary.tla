----------------------------- MODULE MCLibrary -----------------------------
(* The shared buffer, the counters and the components that one caller       *)
(* drives at a time: every behaviour is one of one of them, over all the    *)
(* sequences of calls, or of steps of the threads, within the bounds.       *)
(*                                                                          *)
(* Ring: every collision-free placement of two virtual nodes for each of    *)
(* three nodes on seven positions.  Cache: four keys, so that the list of   *)
(* three has a first, a middle and a last node.  Bucket: refills reach the  *)
(* cap in the middle of a tick's worth, and the costs are one, three and    *)
(* more than the bucket.  Window: two calls in three ticks, three times     *)
(* over.  Key: candidates that are primes, composites that only the rounds  *)
(* find, primes e divides phi for, and the same prime twice.  Sockets: two  *)
(* ports and two remotes, of which the probe lists one.  Buffer: two        *)
(* producers, two consumers and main on two slots.  Proxy: one member and   *)
(* two connections, and up to two overlapping updates of its counter.       *)
EXTENDS LRUCache, TokenBucket, SlidingWindow, EdgeLimiter, SignatureVerifier,
        Subnets, ConsistentHash, Certificate, Samplers, SocketTables, CertExpiry,
        RssTrend, StdlibProgram, ReverseProxy

CONSTANTS c1, c2

MCConsumers == {c1, c2}
MCThreads == {0, 1, c1, c2, Main}
MCItems == 0 .. 3 \cup {DONE}

AllHashes == [Nodes -> [Replicas -> Pos]]
InjectiveHashes == {h \in AllHashes : Injective(h)}
SomeHash == CHOOSE h \in AllHashes : Injective(h)

MCBoots == {<<0, 0>>, <<4, 2>>}
MCActivities == {<<0, 0>>, <<1, 0>>, <<3, 1>>, <<3, 2>>}
MCWarnAt == [TIME_WAIT |-> 3, CLOSE_WAIT |-> 2, SYN_RECV |-> 2]

VARIABLE program

\* What the components keep, in four groups.
stores == <<ringVars, cacheVars, subnetVars>>
auditors == <<bucket, from, spent, fullAt, sinceFull>>
limiters == <<now, auditors, logVars, edgeVars, verifierVars>>
tools == <<rsaVars, credVars, samplerVars, socketVars, certVars, rssVars>>

threads == <<everything, proxyVars>>
all == <<stores, limiters, tools, threads, program>>

\* A component that does not run starts in one state.
Unless(name, fixed) == program = name \/ fixed

LibraryInit ==
  /\ program \in {"ring", "cache", "subnets", "bucket", "log", "edge", "verifier",
                  "credentials", "samplers", "sockets", "expiry", "rss", "buffer", "proxy"}
  /\ Unless("ring", slot = SomeHash) /\ RingInit
  /\ CacheInit /\ SubnetInit
  /\ BucketInit /\ LogInit /\ EdgeInit /\ VerifierInit
  /\ CredInit
  /\ Unless("samplers", tool = "psi" /\ counter = <<0, 0>>) /\ SamplersInit
  /\ Unless("sockets", readable = Families) /\ SocketsInit
  /\ CertInit /\ RssInit
  /\ MainInit
  /\ Unless("proxy", strategy = "round_robin" /\ backend = [m \in Members |-> "ok"]) /\ ProxyInit

InStores(step) == step /\ UNCHANGED <<limiters, tools, threads, program>>
InLimiters(step) == step /\ UNCHANGED <<stores, tools, threads, program>>
InTools(step) == step /\ UNCHANGED <<stores, limiters, threads, program>>
InThreads(step) == step /\ UNCHANGED <<stores, limiters, tools, program>>

RingStep == program = "ring" /\ InStores(RingNext) /\ UNCHANGED <<cacheVars, subnetVars>>
CacheStep == program = "cache" /\ InStores(CacheNext) /\ UNCHANGED <<ringVars, subnetVars>>
SubnetStep == program = "subnets" /\ InStores(SubnetNext) /\ UNCHANGED <<ringVars, cacheVars>>

BucketStep == program = "bucket" /\ InLimiters(BucketNext)
              /\ UNCHANGED <<logVars, edgeVars, verifierVars>>
LogStep == program = "log" /\ InLimiters(LogNext)
           /\ UNCHANGED <<auditors, edgeVars, verifierVars>>
EdgeStep == program = "edge" /\ InLimiters(EdgeNext)
            /\ UNCHANGED <<now, auditors, logVars, verifierVars>>
VerifierStep == program = "verifier" /\ InLimiters(VerifierNext)
                /\ UNCHANGED <<now, auditors, logVars, edgeVars>>

CredStep == program = "credentials" /\ InTools(CredNext)
            /\ UNCHANGED <<samplerVars, socketVars, certVars, rssVars>>
SamplerStep == program = "samplers" /\ InTools(SamplersNext)
               /\ UNCHANGED <<rsaVars, credVars, socketVars, certVars, rssVars>>
SocketStep == program = "sockets" /\ InTools(SocketsNext)
              /\ UNCHANGED <<rsaVars, credVars, samplerVars, certVars, rssVars>>
CertStep == program = "expiry" /\ InTools(CertNext)
            /\ UNCHANGED <<rsaVars, credVars, samplerVars, socketVars, rssVars>>
RssStep == program = "rss" /\ InTools(RssNext)
           /\ UNCHANGED <<rsaVars, credVars, samplerVars, socketVars, certVars>>

ThreadsStep == program = "buffer" /\ InThreads(MainProgNext) /\ UNCHANGED proxyVars
ProxyStep == program = "proxy" /\ InThreads(ProxyNext) /\ UNCHANGED everything

LibraryNext ==
  \/ RingStep \/ CacheStep \/ SubnetStep
  \/ BucketStep \/ LogStep \/ EdgeStep \/ VerifierStep
  \/ CredStep \/ SamplerStep \/ SocketStep \/ CertStep \/ RssStep
  \/ ThreadsStep \/ ProxyStep

\* MainFairness, of the threads of the buffer.
LibraryFairness ==
  /\ \A t \in Producers : /\ WF_everything(program = "buffer" /\ InRaw(ProducerNext(t)))
                           /\ WF_everything(program = "buffer" /\ InStd(StdProducer(t)))
  /\ \A t \in Consumers : /\ WF_everything(program = "buffer" /\ InRaw(ConsumerNext(t)))
                           /\ WF_everything(program = "buffer" /\ InStd(StdConsumer(t)))
  /\ WF_everything(program = "buffer" /\ InRaw(MainNext))
  /\ WF_everything(program = "buffer" /\ InStd(StdMain))

LibrarySpec == LibraryInit /\ [][LibraryNext]_all /\ LibraryFairness

(* main() of producer_consumer.py ends: in neither run does an interleaving *)
(* leave a producer, a consumer or main waiting for ever.                   *)
BufferEnds == <>[](program = "buffer" => MainDone)
=============================================================================
