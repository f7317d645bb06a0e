# TLA+ models of the Excalibur example programs

Excalibur is course material; its code is 25 stand-alone Python programs, 4413
lines, under `src/os_net/operating_system/examples/` (*OS* below) and
`src/os_net/comp_networking/examples/` (*NET*). Everything else in the
repository is Markdown. Each program isolates one mechanism that production
systems depend on (a monitor, a worker pool, a circuit breaker, a proxy, a rate
limiter, a parser, ...) and checks itself with a few `assert`s in one run. This
project models those mechanisms in TLA+, checks them in every schedule and for
every input on small instances with TLC, and proves the central results for all
instances with TLAPS.

The programs do not call each other, so there is no system-wide composition.
Within a program, components do interact, and the models are composed the same
way: `StdlibProgram` extends `ProducerConsumer`, which extends `BoundedBuffer`;
it and `WorkerPool` extend `StdQueue`; `DeadlockDemo` extends `LockOrdering`,
`Certificate` extends `RsaKey`, and both limiters of `rate_limiter.py` extend
`Clock`. `BoundedBuffer` and `LRUCache` are shown to implement the abstract
specifications `BoundedChannel` and `LRUSpec`.

## 1. Inventory

| Program | State | Operations | What is hard | What makes it correct |
|---|---|---|---|---|
| OS `producer_consumer` | deque, lock, two conditions; `queue.Queue`; consumed lists | `put`, `get`; producers, consumers, main with pills, twice | wakeups lost or given to the wrong thread, state that changes between notify and return from wait, pills overtaking data | FIFO, capacity, exclusion, no lost wakeup, every item consumed once, termination |
| OS `worker_pool` | `queue.Queue`, workers, results | `submit`, worker loop, `shutdown` | a task that raises, join versus task_done, pills | drained before pills, every worker ends |
| OS `circuit_breaker` | state, counters, opening time | admission check, report of success or failure | the call runs between two critical sections: late and stale reports, several probes | legal transitions, load shedding, recovery |
| OS `graceful_shutdown` | stop event, queue, counters | signal handler, feed, run, drain | a signal at any bytecode, also inside the handler | every accepted job processed |
| OS `supervisor` | restart count, exit codes, backoffs | spawn, reap, back off | crashes at any time | bounded restarts, growing backoff, ends |
| OS `deadlock_demo` | two locks, results | demonstration, lock ordering, try-lock | circular wait, timeout races, livelock | no circular wait, completion |
| OS `lru_cache` | dictionary, linked list, counters | `get`, `put` | pointer splices at both ends, eviction at capacity | least recently used order |
| OS `rate_limiter` | tokens and time; deque of times | `allow` of two limiters | lazy refill, cap and window boundaries | bound over every window; no loss of tokens |
| OS `rss_leak_detector` | series of samples | sample, fit, classify | slopes near 0, short series, a process that ends | verdict = what the series did |
| OS `cgroup_throttle_watch`, `psi_watcher`, NET `tcp_retrans_monitor` | counters of the last sample | sample, difference, flag | reads that fail, counters that do not move | an interval is reported as it was |
| NET `reverse_proxy` | pool members, health, in-flight counters | select, handle, health loop | unlocked counters, stale health, changing list lengths | counters kept, sick backends drained, all served |
| NET `consistent_hash` | dictionary, sorted list, node set | `add_node`, `remove_node`, `get_node` | two structures kept in step, collisions, wrap-around | lookup = nearest point clockwise, minimal remapping |
| NET `token_bucket_ratelimiter` | bucket; nonces with expiry | `allow`, `verify`, clean-up | clocks that go back, freshness window against nonce memory | bound; a request is accepted at most once |
| NET `epoll_echo_server` | selector, connections, counters | accept, service, close, loop | partial sends, resets, events of closed sockets | echo in order, every socket closed once |
| NET `http_client` | receive buffer | framing by length, chunk, close | short reads anywhere | body = what the framing announces |
| NET `dns_query` | message, offset | encode, decode names with pointers | pointer loops, truncation | decode inverts encode, ends |
| NET `subnet_calculator` | routes, allocation cursor | split, longest prefix match, VLSM | block boundaries, alignment | equal to a reference definition |
| NET `tls_inspect` | RSA key, certificate | primality test, key generation, DER encoder | long lengths, sign bits, unusable primes | the key works, the encoding decodes |
| NET `port_exhaustion_probe`, `socket_state_summary` | socket tables | count, rank, flag | a table that cannot be read, both families | no alarm missed, none false |
| NET `cert_expiry_check` | expiry date | fetch, compare | checks that fail, gaps between checks | a warning before the expiry |
| NET `tcp_handshake_observer`, OS `fork_cost_probe` | none | measure and print | pure I/O | not modelled |

`PROJECT.json` lists all components with their status and every hazard at its
line.

## 2. Plan

Done: a model of every program that keeps state or decides something (the
modules of section 3), the abstract specifications, and the proofs of section 6.

Left: what section 6 lists as only model-checked. Of that, the private key and
the certificate of `tls_inspect` would need Fermat's theorem and the Chinese
remainder theorem first, and then a proof of the DER reader along the lines of
the DNS parser's.

## 3. Modules and the code

Conventions. Atomic steps are what the code does under one lock, or between two
points where other threads can run. Where a method releases its lock or calls
out, it is split there, and so is an update of a shared attribute that holds no
lock (`member.inflight += 1`), which is "multiple bytecodes"
(04_concurrency_synchronization.md:648): a read and a write.
Definitions keep the names of the code in TLA+'s capitalisation (`_on_failure`
is `OnFailure`). Each module has *seeded faults*, `Bug_...`: variants of a
definition with a plausible mistake, used to show that each property can fail.
Variables marked *history* or *auditor* exist only for stating properties.

### Threads, processes and signals

**`BoundedBuffer`** (`RawBoundedBuffer`). The lock, the deque and the two queues
of waiters are variables, and each thread has a program counter. `put()` is
`CallPut`, `PutEnter` (take the lock), `PutWait` (the while condition held:
release and sleep), `PutGo`, `PutAppend`, `PutNotify`; `get()` likewise. `Woken`
and `StillAsleep` model `Condition.notify`, which moves the oldest waiter from
sleeping to competing for the lock. `BoundedChannel` is the atomic FIFO the
buffer implements; its queue is the refinement image of the deque.

**`ProducerConsumer`, `StdlibProgram`**. `run_with_raw_buffer()` and `verify()`;
then `main()`, which runs it and after it `run_with_stdlib_queue()`, with the
`finally: task_done()` of the consumers. Main joins threads, not the queue; that
`q.join()` would not wait is part of what is checked.

**`StdQueue`, `WorkerPool`**. `StdQueue` is `queue.Queue` as the programs use
it. A worker is `Take`, `DoWork`, `Record`, `FinallyDone`; the last is the `finally`
clause, which runs after a result, a pill and an exception alike. `join` with a
timeout may return at any time (`Reap`).

**`CircuitBreaker`**. `Admit`, `Probe` and `Reject` are the admission check,
`Downstream` the call outside the lock, `OnSuccess` and `OnFailure` the reports.
`Interrupted` is a call left by an exception that `except Exception` does not
catch. The clock is `elapsed`, the time since `_opened_at`, which is all the
code compares. `Flip` lets the dependency break and recover at any time.

**`ReverseProxy`**. A connection's handler reads the request, builds the list of
healthy members one member a step (no lock is held), selects under `_lock`,
counts itself in (`CountIn` reads the counter, `Counted` writes it), relays
(`Relay`, which ends in the read of the `finally` clause) and counts itself out
(`Settled`). `min()` reads the counters one key at a time. The health loop probes
one member a step. Backends are ok, sick (503 on `/health`) or stopped. The
history `overlaps` counts, for each counter, the updates that began while
another one of it was under way; `MaxOverlaps` bounds it.

**`GracefulShutdown`**. Python runs handlers in the main thread between two
bytecodes, so handlers under way are a stack of frames; `Event.set()` is taken
apart into acquire, set, release, since its lock is not reentrant.
**`Supervisor`** is `run()` with a child that may end at any time.

**`LockOrdering`, `DeadlockDemo`**. `LockOrdering` is
`fixed_with_global_ordering` for any number of threads, locks and pairs of
them. `DeadlockDemo` is `main()`: `Demonstrate`, then `LockOrdering`'s
`Transfer`, then `TryLock`, with new threads on the same locks, so that a lock
left behind by one part shows in the next. The demonstration and the try-lock
part take any number of threads in a ring, which is the program's AB / BA for
two. An acquire with a timeout can fail only while the lock is taken. The
`join(timeout=3.0)` of the last two parts is taken to wait until the threads
have ended: it decides only when the result is read.

### Peers and datagrams

**`EchoServer`**. The selector loop with accept, `recv`, non-blocking `sendall`
and close, against clients that send in pieces, read late, time out and reset.
Bytes in flight in each direction are sequences; `SendBuf` is the room for an
echo, so that `sendall` can send a part and raise. `recv()` is called only for a
socket that the selector reported and that nobody else reads, so its
`BlockingIOError` (lines 99-100) cannot occur and is left out.

**`HttpClient`**. Each loop around `recv()` is a phase. The server's answer is
delivered in every cutting and may end anywhere; the history `whole` tells
whether the server sent all of it. Status line, header and chunk
size are one byte each; line ends are two, so that a cut can fall between them.

**`DnsMessage`**. `build_query`, `read_name` turn by turn, `parse_response` and
`query`. The datagram is the resolver's reply with or without compression, a
prefix of it, a reply with another id, or arbitrary bytes. Fields of several
bytes are one byte, except compression pointers and addresses. Its turn limit is
the constant `MaxTurns`. A length byte from 192 on is a pointer of 14 bits
(`PointerLimit`), so labels are shorter than 192 bytes (63 in a legal name).

### Libraries and tools, driven by one caller

**`ConsistentHash`**. The hash is a function `slot` from virtual nodes to ring
positions, chosen once from the constant `Hashes`: with TLC every function on a
small ring. `_ring` is a function with `None` for absent entries, `_sorted_keys`
the multiset of its entries. `GetNode` is the lookup, with `KeyError` as a
possible outcome.

**`LRUSpec`, `LRUCache`**. `LRUCache` has the `next` and `prev` pointers of
every node and of the two sentinels, and `_remove` and `_push_front` as
functions on them. A key has at most one live node, so the key names the node.
The refinement mapping reads the abstract order off the list, as the self-test's
walk does. The last call, with its key and its result, is part of both states:
a hit that does not move its entry, or moves another one, or a put without an
effect is then a step that `LRUSpec` has not. The counters stop at `MaxCount`; no
control depends on them.

**`Clock`, `TokenBucket`, `SlidingWindow`** (rate_limiter.py), **`EdgeLimiter`**
(token_bucket_ratelimiter.py). One call of `allow` is one step: the lock of the
first two is held from the reading of the clock to the verdict, the third takes
its caller's time, which may go back. Time and costs are whole numbers; the
code's floats can round, which is not modelled.

**`SignatureVerifier`**. Requests are known by their nonce and carry a
timestamp from a clock that may be anything; they are delivered any number of
times, as signed or altered. `Verify` is the freshness check, `_gc` and the
nonce memory. The verifier's wall clock may fall back by `MaxBack`.

**`Subnets`**. CIDR arithmetic, `split`, `vlsm_allocate` one requirement a step,
routing table and lookup, on addresses of `Width` bits, where `int_to_ip` drops
what does not fit as it does in the code.

**`RsaKey`, `Certificate`** (tls_inspect.py). The loop of `_gen_prime` with
trial division and Miller-Rabin rounds, where every random number is a choice,
`generate_rsa`, the signature, and the DER encoder byte for byte, with a decoder
as the reference. Dates are kept to the year; the 3650 days of a certificate are
ten of them.

**`Samplers`**, **`SocketTables`**, **`CertExpiry`**, **`RssTrend`**. The
diagnostics: what they compute from what the kernel, a peer or a process shows,
where any read may fail. Ratios are compared as fractions. Kernel text is not
parsed character by character: a row is a record. `socket_state_summary` builds
a dictionary of counts from each table (`ParseStates`) and adds them up entry by
entry (`AddUp`, `Merged`); `SocketAlarms` holds it against a count of the rows.

## 4. Runs

`MCPrograms` and `MCLibrary` put several independent programs into one run: the
variable `program` is chosen in the initial state, and only that program's
variables move. This checks each program as if it were alone.

| Run | Instance | Shows |
|---|---|---|
| `programs` | nine programs; 285,000 states, under two minutes | see below |
| `library` | fourteen programs; 616,000 states, about three minutes | see below |

`programs`, by program:

* pool (3 workers, 4 tasks of which one raises, queue of 2): `DrainedBeforePills`;
  shutdown (3 jobs, a signal from outside): `NothingLost`; supervisor (3
  restarts): `SupervisorOutcome`; all three: `ProgramsEnd`. The last says that the
  pool's shutdown completes as long as fewer tasks raise than there are workers,
  and that the worker of a process whose flag is set ends even when main hangs in
  a nested handler; with more raising tasks, and for main, the violation runs
  `worker_pool_bad` and `signal_deadlock` show the opposite.
* breaker (3 callers, thresholds 2, cooldown 2): `LegalTransitions`,
  `OpenShedsLoad`, `CircuitHeals`.
* echo (3 clients, one with more than the send buffer, one impatient):
  `EchoExact`; HTTP (chunks of 2 and 1 bytes in every cutting, all framings):
  `BodyFramed`; DNS (replies with up to 2 answers, cut anywhere, and all datagrams
  of up to 4 of 5 byte values after the header): `DnsParsed`; all three:
  `WireEnds`.
* locks (ring of 3): `AlwaysReproduced`, `NoCircularWait`, `LocksGetThere`,
  `OneThenAll`.
* proxy (2 backends, 2 connections at a time, both strategies, updates that do
  not overlap): `DownDrained`, `RoundRobinServesAll`.

`library`, by program:

* buffer (2 producers with 2 items each, 2 consumers, main, capacity 2):
  `NoLostWakeup` (never an item or a slot left, a sleeper for it and nobody on the
  way), `RunsVerified` (the program's assertions after both runs), `BufferEnds`,
  `ImplementsChannel`.
* proxy (1 backend, 2 connections at a time, up to 2 overlapping updates):
  `InflightKept`.
* ring: `RingConsistent`, `LookupCorrect`, `MinimalRemapping`; cache:
  `ImplementsLRU`; limiters: `RateBound`, `NoTokenLost`, `WindowQuota`,
  `EdgeBound`; verifier: `AcceptedOnce`; addresses: `SubnetsSound`,
  `LongestPrefixMatch`; credentials: `PrimalityTest`, `KeyWorks`, `CertDecodes`;
  diagnostics: `SamplersHonest`, `SocketAlarms`, `WarnedBeforeExpiry`,
  `TrendJudged`.

Four of these say less than one might wish, each because the code does, and the
rest of the claim is a violation run. `BodyFramed` is about answers that came
whole (`http_short`), `LookupCorrect` about keys that are not on a virtual node's
position (`ring_point`), `InflightKept` allows one request for each overlapping
update (`inflight_lost`), and `SubnetsSound` is about requirements that the parent
could hold alone, up to a subnet that ends with the address space
(`vlsm_outside`).

Why the bounds are enough.

* Buffer: two sleepers can be on one condition while two threads run, which is
  what a misdirected wakeup needs, and main's pills meet full and empty buffers.
* Breaker: three threads let a success and a failure from one period be pending
  in the next.
* Proxy: two connections overlap in every step of choosing; with two members the
  list of healthy ones has every length from none to all. Liveness is checked
  with counters that are exact; lost updates are checked apart, with two
  connections that meet in every step of two updates.
* Shutdown: a second signal finds the handler in each of its steps.
* Ring: three nodes with two points each on seven positions give a node whose
  points surround another's, wrap-around and a removal that leaves two nodes;
  every collision-free placement is tried.
* Cache: a list of three has a first, a middle and a last node. `MaxCount` is 0:
  nothing reads the hit and miss counters.
* Limiters: the refill of 2 does not divide the capacity of 5; nine ticks span
  several windows of 3.
* Verifier: `NonceTtl = 4` is the least value above `2 * MaxSkew + MaxBack`, so
  a nonce is forgotten at the first moment at which that is safe.
* Addresses of 4 bits: every address, prefix and requirement that fits or does
  not; three routes that contain each other.
* Keys: 8-bit candidates include primes, composites that pass the trial
  division and primes for which `e` divides phi; `CnLens` and `Serials` cross
  the short, one-byte and two-byte lengths and the sign bit.
* Echo: the long message exceeds `SendBuf` and comes in several pieces. DNS: the
  junk bytes hold labels, ends, and pointers forwards, backwards and to
  themselves; `MaxTurns` is reached.
* Diagnostics: counters move or stay, reads fail between good ones; the checks
  of the certificate are at most three days apart while `WarnDays` is four; five
  samples have halves of two and three; two remotes compete for the one line
  that the probe lists, and the rows that make a pileup lie in one table or both.

Violation runs, each the disagreement of a comment, docstring or assertion with
the code:

| Run | Property | What TLC finds |
|---|---|---|
| `breaker_probe` | `SingleProbe` | a half-open circuit admits every caller, not one probe |
| `ring_point` | `PointOwned` | a key at a virtual node's own position goes to the next one: `bisect_right`, where the comment says `>=` |
| `http_short` | `ExactlyN` | the server closes early and `http_get` returns fewer bytes than `Content-Length` |
| `inflight_lost` | `InflightExact` | two handlers update a backend's counter at once and one update is lost |
| `ring_collision` | `NoKeyError` | two virtual nodes at one position, then a removal: `get_node` raises `KeyError` |
| `worker_pool_bad` | `NoWorkLost` | tasks that raise kill the workers; queued work is lost and `shutdown` hangs |
| `trylock_livelock` | `BothComplete` | both threads time out and retry in step for ever |
| `signal_deadlock` | `SignalSetsFlag` | a signal inside the handler of another waits for the event's lock in the thread that holds it |
| `vlsm_outside` | `AllocatedInside` | a requirement larger than its parent is allocated before the parent's first address; when the parent ends with the address space, the cursor also wraps to 0.0.0.0 and what no longer fits is allocated there |
| `rss_shrink` | `LeakGrows` | memory that shrinks and then stays flat is a "leak" |

Smaller things the models show, for which there is no run:

* A failure reported while the circuit is already open sets `_opened_at` again
  (circuit_breaker.py:107-110), so a circuit can stay open for longer than the
  cooldown after it tripped; `CircuitHeals` shows that this ends. The success of
  a call admitted before the trip counts like a probe's (lines 91-96).
* After a failed read, `tcp_retrans_monitor` takes the difference to nothing and
  reports the rate since boot as the interval's (tcp_retrans_monitor.py:77-82);
  `SamplersHonest` therefore speaks of intervals whose two reads succeeded.
* The mark `<== THROTTLED` of `cgroup_throttle_watch` stands behind the interval's
  ratio but is decided by the lifetime's (cgroup_throttle_watch.py:66-67, 74): a
  container that is throttled only now is not marked until its lifetime ratio
  passes the limit. `SamplersHonest` is about the two ratios, not about that mark.
* `min()` picks a backend under `_lock`, but the request is counted after the lock
  is released (reverse_proxy.py:149, 179): requests that choose at the same time
  all get the backend that was least loaded.
* `port_exhaustion_probe` reads the IPv4 table only, so outgoing IPv6
  connections, which use the same range, are not counted.
* The live check of `cert_expiry_check` never prints EXPIRED: the verifying
  handshake fails on an expired certificate first.
* With two samples, `rss_leak_detector` has halves of one sample, whose slopes
  are 0: it never reports a leak.
* A chunked body that is cut off is returned like a whole one too; what is
  returned is always a beginning of the content (theorem `BodyBegins`).
* `tls_inspect` writes the years of the certificate with two digits; run in 2040
  or later, its `notAfter` lies in the past century.

## 5. Fairness

A thread that can run is eventually scheduled: weak fairness of each thread's
steps, which the operating system's scheduler provides. No fairness of locks or
queues beyond that is assumed for the programs that end: their liveness holds
because every thread has finitely much to do.

* `CircuitBreaker`: also, the clock advances and requests keep coming (without
  calls nothing moves the breaker). `CircuitHeals` is conditional on
  `NotAlwaysInterrupted`: not every call is interrupted for ever.
* `ReverseProxy`: the health loop, the accept loop and each handler are scheduled.
  Every socket call has a timeout, so a handler always gets on; one that waits for
  `_lock` may starve. Nothing is assumed of clients or backends.
* `Supervisor`: children end, as those of the demonstration do.
* `EchoServer`: the server and the clients are scheduled, and TCP delivers.
* `HttpClient`, `DnsMessage`: the client's own steps only. The peer may stop at
  any point, which the socket shows as an end of data or a timeout.
* `DeadlockDemo`: the try-lock part gets weak fairness only, which is why it can
  livelock; `OneThenAll` (once a thread is done, all get done) holds all the
  same.

## 6. Proofs

All theorems hold for every value of the constants that satisfies the modules'
`ASSUME`s. Most of these say that thresholds and capacities are positive, that
sets of threads are finite and that markers are no members of the sets they
mark. Those that say more:

* `ProgramAssumption`: there is a consumer (without one, a workload that fits
  into the buffer would return unconsumed); the pill is not a number.
* `RingAssumption`: at least one thread, so that the demonstration has a ring.
* `CertAssumption`: checks get an answer more often than every `WarnDays` days.
* `VerifierAssumption`: `NonceTtl > 2 * MaxSkew + MaxBack`; the code's defaults,
  300 and 30 seconds, allow the clock to fall back by almost four minutes.
* `PortAssumption`: the utilisation that raises the alarm is at most one.
* `SubnetAssumption`: the width of an address is a multiple of four, as it is
  written in four octets.
* `HttpAssumption`: chunks have one or two bytes (a size is one byte in the
  model, and 0 is the last chunk); there is any number of them, with any bytes.
* `DnsAssumption`, `OffsetAssumption`: a name has labels, of 1 to 191 bytes each
  (a length byte from 192 on would be read as a pointer), and the question ends
  within the 14 bits of a pointer.
* `RssAssumption`: time passes between two samples, as `monitor()` sleeps.
* `PowerAssumption` (`Supervisor`): the two defining equations of `^` for the
  backoff factor. The provers do not know exponentiation; TLC evaluates the
  assumption for the exponents that the instance uses.

Each proof has an inductive invariant, one lemma per action and a last step that
puts them together. The invariants were checked by TLC before they were proved.

**`ProducerConsumerProofs`** (`BoundedBuffer`, `ProducerConsumer`,
`StdlibProgram`).

* `TypeCorrect`, `Exclusion`, `CapacityAndFifo`, `Refinement`. Exclusion alone
  is not inductive: a thread between wait and lock must be known to be in
  exactly one waiter queue, at most once. `IInv` therefore joins the types,
  exclusion, `Asleep` (the waiter queues have no duplicates and agree with the
  program counters), `Room` (a thread past the while loop has a slot, or an
  item) and `Fifo` (what was put is what was taken followed by the deque).
  `Refinement` maps `PutAppend` and `GetPop` to the channel's steps and
  everything else to stutters.
* `WakeupsKept`: with `IInv`, `NoLostWakeup` is inductive. It compares a length
  with the number of threads at some labels; `OneMoves` and `TwoMove` say how
  that number changes when one thread moves, or two, as in a `notify()`: the
  notifier leaves the count and the sleeper it wakes enters it.
* `BothRunsVerified`, for any number of producers, numbers, consumers and any
  capacity. Both runs keep the same account, `Book`: a number that was handed in
  is queued once, or in one thread's hands, or else in the list, once. That the
  queue is empty at the end needs `PillsLast` as well: the pills are behind all
  the numbers, so whoever takes one finds only pills left, and there are as many
  as consumers that have not taken theirs. `RawRoles` and `StdRoles` tie this to
  the program: no pill is put before all the producers have returned. That the
  numbers `pid * per_producer + i` are distinct and are all of
  `range(num_producers * per_producer)` is `EncodeInjective` and `EncodeOnto`.
* `ProgramWakeups`, `ProgramRefinement`: the same two results for the program
  that the run checks, whose calls are calls of the general client.

**`StoresProofs`** (`ConsistentHash`, `LRUCache`).

* `RingAgrees`, `LookupsCorrect`, and `Minimal` from `AddMinimal` and
  `RemoveMinimal`, under `CollisionFree`, which the violation run shows to be
  needed. The invariant is `RingConsistent` with the types. The lookup is
  characterised by `Follows`, the unique next occupied position clockwise:
  adding points can only bring a new one nearer, removing a node's points leaves
  the others' next position alone, and the next position is the nearest by
  `Clockwise`, the modular distance of the specification, for every position
  that is not itself a point's.
* `CacheConsistency`, `CacheRefinement`. `CacheInv` says that there is a
  sequence of keys without repetition, as long as the dictionary is large, whose
  neighbours the `next` and `prev` pointers are, sentinels included
  (`Linked`). `_remove` and `_push_front` take one key out of that sequence and
  put it in front; that their four assignments do so, also next to a sentinel
  and for a key that is already in front, is one lemma each. The walk of the
  refinement mapping then visits exactly that sequence, by induction along it,
  and each call maps to the same call of `LRUSpec`, with its key and its result.

**`ThresholdProofs`** (`TokenBucket`, `SlidingWindow`, `EdgeLimiter`,
`SignatureVerifier`, `CertExpiry`, `Samplers`, `SocketTables`, `RssTrend`).

* `RateBounded`, `TokensConserved`: `RateBound` is not inductive; what could be
  spent at once must be counted too (`RateBoundInductive`).
* `WindowExact`: the deque is the end of the history of allowed calls, what was
  popped from it is out of the window, and the times are in order, so that
  popping from the left is enough (`LogIInv`).
* `EdgeBounded` needs to know that `self.last` is the latest time any caller has
  passed (`EdgeIInv`).
* `NoReplay`: `AcceptedOnce` does not say when a copy of an accepted request
  turns stale; `NonceInv` does: while its nonce is kept it is kept until
  `stamp - MaxSkew + NonceTtl`, and once it is forgotten that time has been
  reached, so that the copy is stale even for a clock that fell back
  (`MemoryOutlastsFreshness`).
* `AlertInTime`: between two answered checks the days left fall by less than
  `WarnDays`, so a check sees them between the two limits (`CertIInv`).
* `SamplersTruthful`: what a sampler remembers is the counter at its last good
  read (`SampleExact`).
* `AlarmsRaised`: an exhausted endpoint has a socket on every ephemeral port
  (`ExhaustedMeansFull`, by an injection), so its count is at least the range's
  and no other endpoint can push it off the list; a port in use is one of a
  connection this host opened (`NoFalseAlarm`); and the two dictionaries added up
  give the count of the rows of both tables (`SummaryCounts`).
* `TrendsJudged`. Let r be the growth over the step between the two halves and c
  its duration. When growth never slows down, r*x - c*y rises over the first
  half and c*y - r*x over the second. By Chebyshev's sum inequality
  (`Chebyshev`, by induction: the k-th term adds a sum of products of
  differences) the first slope is then at most r/c and the second at least r/c,
  and above 0 since the last step still grows (`StillGrowing`); so the second
  cannot be below three tenths of the first. When growth has stopped, the same
  inequality applied to y and to -y gives a second slope of exactly 0.

**`DeadlockDemoProofs`** (`LockOrdering`, `DeadlockDemo`).

* `Ownership` and `DeadlockFree` for the transfers alone. With exact ownership
  (`HeldByOwner`) each member of a circular wait wants a larger lock than the
  one it is waited for; a bounded set of ids has a largest member, by the
  library's theorem on well-founded orders, which is the contradiction.
* `NoLockLeft`, `DemoDeadlockFree`: the same through all three parts of
  `main()`, on the same locks. `LocksKept` (who owns what, in all three parts)
  is inductive with the types.
* `DeadlockReproduced`: `StillClosing` says that until a thread has found its
  second lock taken nobody has got a second lock or released a first one.

**`WorkersProofs`** (`WorkerPool`, `GracefulShutdown`, `Supervisor`,
`CircuitBreaker`).

* `DrainedFirst`: `OnePlace` (a task is to be submitted, queued, in one worker's
  hands or done), `ResultsMatch` (the results are the squares of what was done)
  and `UnfinishedExact` (the queue's counter is what is queued and in hands)
  are inductive together; when `join()` returns, the counter is zero.
* `NoJobLost`: every job is in the queue, in the worker's hands or processed,
  against accepted or put and not yet counted; the worker only runs once all is
  fed.
* `OutcomeExact`: `CodesExact` and `BackoffsExact` give each exit code and each
  backoff by its index.
* `BreakerTypeCorrect`, `Consistency`, `Transitions`, `Shedding`: the types with
  `Consistent` are inductive; the transitions follow since a report that closes
  or trips the circuit sets the counter or the clock in the same step.

**`ServersProofs`** (`ReverseProxy`, `EchoServer`).

* `CountersKept`, for any number of connections. `InflightKept` is not inductive: a
  handler between its read and its write will store a number that others may have
  made old. `CountersOK` bounds what every such handler holds as well, and sharper:
  with u updates under way, the counter and the numbers held are off by at most
  `overlaps` less u - 1 (`Near`), since each of the others may still put the counter
  off by one, and has been counted when it began. The read of `min()` over the
  counters is shown to give a member. `SelectionExclusive` is the use of `_lock`.
* `EchoesExact`: at any time the message of a client is the concatenation of
  what it has read, what is on its way back, what is on its way to the server
  and what is still to be sent (`Piece`, `EchoPlaces`), each a contiguous piece.

**`NetworkProofs`** (`Subnets`). Proofs about loops and recursive functions are
inductions over data, for which the library's theorems are of no use here (they
take a predicate as a parameter). The module therefore begins with two lemmas of
its own, both from the library's theorem that `<` on the naturals is well
founded: `Induction` is stated for a *set* of numbers instead of a predicate,
and `RecursionSolved` says that a recursion over `0 .. n`, its step given as a
function, has a solution, so that a recursive definition in the model is equal to
it and its equations can be used. `MessagesProofs` and `ThresholdProofs` extend
this module for them.

* `SubnetSafety`. `ShiftedEquation` and `ShiftedSum` make powers of two out of
  `1 << n`; `IpRoundTrip` and the like say that four octets are the address.
  That subnets do not overlap is not inductive: a subnet is aligned *down* to its
  own size, so one that is larger than those before it would reach back into
  them. `VlsmInv` adds that the requirements are in falling order and that the
  cursor is a multiple of a block that has room for every one still to come
  (`CursorOK`): the parent's at first, then that of the last allocation. It speaks
  of the plan up to a subnet that ends with the address space (`NotWrapped`),
  behind which the cursor is 0 again.
* `RoutingCorrect`. `RoutesOK` (a route is stored with its network's address) and
  an induction over the routes that `lookup()` has gone through: what it holds is
  the first of the longest matching prefixes up to there.

**`MessagesProofs`** (`HttpClient`, `DnsMessage`).

* `BodyIsFramed`, for any number of chunks, every framing and cutting, and
  `BodyBegins`, for every early end as well. The
  invariant `HttpInv` says, for each place in `http_get()`, what the bytes
  received and those still in the connection are together: the beginning of what
  the server has to say from this place on (`HttpPlace`, with `Comes` for a
  server that is cut off). `find()` meets the right line end although it may
  have been cut, since the first occurrence lies where the framing has put one
  (`bytes.find()` in the module).
* `RepliesAreParsed`, for every name, any number of answers and every mixture of
  labels and pointers that a resolver may use, and for a reply cut at any byte.
  What a name at an offset *means* is defined without recursion, by `Spelled`: a
  set of triples (offset, labels to come, end of the field) that is closed under
  one turn of `read_name()`'s loop. Each way of writing a name yields such a
  set; a turn of the parser goes from a triple to the next (`DnsPlace`), so that
  when the loop ends there are no labels left to come and the next field begins
  where the resolver put it (`DnsProgress`).

Only model-checked, and why:

* All liveness (`BufferEnds`, `ProgramsEnd`, `CircuitHeals`, `DownDrained`,
  `RoundRobinServesAll`, `WireEnds`, `LocksGetThere`, `OneThenAll`): fairness and
  `ENABLED` are outside the prover's reach.
* `PrimalityTest`, `KeyWorks`: number theory. That a prime passes every round
  and that the key works rest on Fermat's theorem, that at most a quarter of the
  bases pass for a composite on Rabin's; none of these is in the prover's
  library.
* `CertDecodes`: its last clauses say that the signature opens with the key,
  which is `KeyWorks` again; the rest is about a byte-level encoder and a
  recursive reader of what it writes.

## 7. Not modelled

* `fork_cost_probe`, `tcp_handshake_observer`: they measure, observe and print;
  no state, no decision.
* `tls_inspect` from line 253 on: the TLS server, the session and what is
  printed of it are calls of the `ssl` library.
* HMAC, SHA-256 and MD5 (a choice, or exact for what was signed), the
  distribution of keys over the ring (a statistical claim), floating-point
  rounding, the splitting of kernel text into fields, printing, timing and
  throughput measurements.
* Read-only operations: `LRUCache.hit_ratio()`, `__len__()`, `state`.

## 8. Running

`tlc -config X.cfg M` for a run (the module and config of each run are in
`PROJECT.json`), `tlapm XProofs.tla` for a proof module.
