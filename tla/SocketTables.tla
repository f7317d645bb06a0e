---------------------------- MODULE SocketTables ----------------------------
(***************************************************************************)
(* The kernel's socket tables /proc/net/tcp and /proc/net/tcp6, and the    *)
(* two tools that read them: port_exhaustion_probe.py (IPv4 only) and      *)
(* socket_state_summary.py.  A row is a record; connections come and go by *)
(* the TCP states the tools tell apart.                                    *)
(***************************************************************************)
EXTENDS Integers, FiniteSets

CONSTANTS
  Lo, Hi,        \* the ephemeral port range
  ServerPort,    \* a port that this host listens on, outside the range
  Remotes,       \* the remote endpoints
  UtilNum, UtilDen,    \* WARN_UTIL as a fraction
  TopCount,      \* how many remote endpoints the probe lists: 3 in the code
  WarnAt,        \* WARN of the summary: the count that is HIGH, per state
  MaxSockets     \* bound: the rows of both tables

Pool == Hi - Lo + 1
Families == {4, 6}

ASSUME PortAssumption ==
  /\ Lo \in Nat /\ Hi \in Nat /\ Lo <= Hi /\ ServerPort \in Nat \ (Lo .. Hi)
  /\ IsFiniteSet(Remotes)
  /\ UtilNum \in Nat /\ UtilDen \in Nat /\ UtilNum <= UtilDen
  /\ TopCount \in Nat \ {0}
  /\ \A st \in DOMAIN WarnAt : WarnAt[st] \in Nat \ {0}

VARIABLES
  sockets,     \* the rows of both tables
  readable     \* the families whose table can be opened

socketVars == <<sockets, readable>>

Listening == [family |-> 4, lport |-> ServerPort, remote |-> "any", st |-> "LISTEN"]

SocketsInit == sockets = {Listening} /\ readable \in SUBSET Families

\* A port is free for a remote endpoint when no row has the pair.
Free(fam, remote) ==
  {l \in Lo .. Hi : \A s \in sockets :
     s.family = fam => ~(s.lport = l /\ (s.remote = remote \/ s.st = "LISTEN"))}
TableRoom == Cardinality(sockets) < MaxSockets

Connect(fam, remote, l) ==
  /\ TableRoom /\ l \in Free(fam, remote)
  /\ sockets' = sockets \cup {[family |-> fam, lport |-> l, remote |-> remote, st |-> "ESTABLISHED"]}
  /\ UNCHANGED readable
Inbound(remote) ==
  /\ TableRoom /\ \A s \in sockets : ~(s.lport = ServerPort /\ s.remote = remote)
  /\ sockets' = sockets \cup {[family |-> 4, lport |-> ServerPort, remote |-> remote, st |-> "ESTABLISHED"]}
  /\ UNCHANGED readable
\* This side closes first, the peer does, or the row expires.
Becomes(s, st) ==
  /\ s.st = "ESTABLISHED"
  /\ sockets' = (sockets \ {s}) \cup {[s EXCEPT !.st = st]} /\ UNCHANGED readable
Expire(s) ==
  /\ s.st \in {"TIME_WAIT", "CLOSE_WAIT"} /\ sockets' = sockets \ {s} /\ UNCHANGED readable

SocketsNext ==
  \/ \E fam \in Families, remote \in Remotes, l \in Lo .. Hi : Connect(fam, remote, l)
  \/ \E remote \in Remotes : Inbound(remote)
  \/ \E s \in sockets, st \in {"TIME_WAIT", "CLOSE_WAIT"} : Becomes(s, st)
  \/ \E s \in sockets : Expire(s)

SocketsSpec == SocketsInit /\ [][SocketsNext]_socketVars

-----------------------------------------------------------------------------
(* port_exhaustion_probe.py: ephemeral_ports_in_use() and report()         *)

Rows(fam) == {s \in sockets : s.family = fam}
Taken(s) == s.st # "LISTEN" /\ s.lport \in Lo .. Hi
UsedPorts == {s.lport : s \in {r \in Rows(4) : Taken(r)}}
PerRemote(remote) == Cardinality({s \in Rows(4) : Taken(s) /\ s.remote = remote})
NearExhaustion == Cardinality(UsedPorts) * UtilDen >= UtilNum * Pool
Listed == {remote \in Remotes : PerRemote(remote) > 0}

\* The first of them by connections, whichever way the sort leaves ties
Top == {t \in SUBSET Listed :
          /\ Cardinality(t) = IF Cardinality(Listed) < TopCount THEN Cardinality(Listed) ELSE TopCount
          /\ \A a \in t, b \in Listed \ t : PerRemote(a) >= PerRemote(b)}

-----------------------------------------------------------------------------
(* socket_state_summary.py: dictionaries of counts by state                *)

Get(counts, st) == IF st \in DOMAIN counts THEN counts[st] ELSE 0

\* Seeded fault: the counts of the second table replace those of the first.
Bug_AddUp(total, counts) ==
  [st \in DOMAIN total \cup DOMAIN counts |-> IF st \in DOMAIN counts THEN counts[st] ELSE total[st]]

\* parse_states() of a table
ParseStates(rows) == [st \in {s.st : s \in rows} |-> Cardinality({s \in rows : s.st = st})]

\* total[k] = total.get(k, 0) + v, for each state of a table
AddUp(total, counts) ==
  [st \in DOMAIN total \cup DOMAIN counts |-> Get(total, st) + Get(counts, st)]

\* read_proc_states(): a table that cannot be opened adds nothing
NoCounts == [st \in {} |-> 0]
TableCounts(fam) == IF fam \in readable THEN ParseStates(Rows(fam)) ELSE NoCounts
Merged == AddUp(AddUp(NoCounts, TableCounts(4)), TableCounts(6))

\* format_summary(): the lines flagged HIGH
SummaryHigh(st) == st \in DOMAIN Merged \cap DOMAIN WarnAt /\ Merged[st] >= WarnAt[st]

-----------------------------------------------------------------------------
\* The IPv4 endpoints that no further connection can be opened to.
Exhausted == {remote \in Remotes : Free(4, remote) = {}}

\* The IPv4 connections that this host opened: not on a port it listens on.
Outgoing ==
  {s \in sockets : s.family = 4 /\ \A r \in sockets : r.st = "LISTEN" => r.lport # s.lport}

Piled(st) == Cardinality({s \in sockets : s.st = st}) >= WarnAt[st]

(* No alarm is missed and none is false.  When every ephemeral port is      *)
(* taken for some IPv4 endpoint, in whatever states its connections are,    *)
(* the probe says NEAR EXHAUSTION and the endpoints it lists include one    *)
(* that is exhausted (lines 56-74); and when it says so, connections that   *)
(* this host opened hold that share of the ports, not those that came in or *)
(* over IPv6.  The summary flags HIGH only what is piled up, and, with both *)
(* tables, all that is, though it be spread over the two (lines 56-74).     *)
SocketAlarms ==
  /\ Exhausted # {} => NearExhaustion /\ \A t \in Top : t \cap Exhausted # {}
  /\ NearExhaustion => Cardinality({s.lport : s \in Outgoing}) * UtilDen >= UtilNum * Pool
  /\ \A st \in DOMAIN WarnAt :
       /\ SummaryHigh(st) => Piled(st)
       /\ readable = Families /\ Piled(st) => SummaryHigh(st)
=============================================================================
