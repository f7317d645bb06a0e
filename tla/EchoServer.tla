----------------------------- MODULE EchoServer -----------------------------
(***************************************************************************)
(* epoll_echo_server.py: one thread that accepts and echoes for all the    *)
(* connections, and the demonstration's clients.  The socket is the        *)
(* kernel's: a send may travel in pieces, a receive returns what has come, *)
(* and the server's non-blocking sendall() fits SendBuf bytes the client   *)
(* has not read yet; it sends what fits and raises.  A client that waits   *)
(* too long (timeout=5) raises and closes, which may reset the connection. *)
(***************************************************************************)
EXTENDS Naturals, Sequences, FiniteSets, SequencesExt

CONSTANTS
  EchoClients,    \* the clients
  Message,        \* the bytes each client sends
  SendBuf,        \* how many bytes of an echo the kernel holds for a client
  Impatient,      \* the clients that may time out
  Listener        \* the listener's key, whose data is None

ASSUME EchoAssumption ==
  /\ IsFiniteSet(EchoClients) /\ Impatient \subseteq EchoClients
  /\ Listener \notin EchoClients /\ SendBuf \in Nat
  /\ Message \in [EchoClients -> Seq(Nat)]

VARIABLES
  client,         \* where each client is
  up, down,       \* bytes on their way to the server, and to the client
  chunks,         \* what each client has read
  side,           \* the server's end: "none", "pending", "open" or "closed"
  loop,           \* where serve_forever() is
  runFlag,        \* self._running
  events,         \* the events that are left of select()'s list
  served          \* self.connections_served

netVars == <<up, down, chunks>>
echoVars == <<client, netVars, side, loop, runFlag, events, served>>

EchoInit ==
  /\ client = [c \in EchoClients |-> "connect"]
  /\ up = [c \in EchoClients |-> << >>]
  /\ down = [c \in EchoClients |-> << >>]
  /\ chunks = [c \in EchoClients |-> << >>]
  /\ side = [c \in EchoClients |-> "none"]
  /\ loop = "start"
  /\ runFlag = FALSE
  /\ events = {}
  /\ served = 0

\* a failed sendall() is ignored
Bug_AfterSend(c, complete) == "open"

-----------------------------------------------------------------------------
(* _client_roundtrip()                                                      *)

ClientConnect(c) ==
  /\ client[c] = "connect"
  /\ client' = [client EXCEPT ![c] = "recv"]
  /\ side' = [side EXCEPT ![c] = "pending"]
  /\ up' = [up EXCEPT ![c] = Message[c]]
  /\ UNCHANGED <<down, chunks, loop, runFlag, events, served>>

\* recv() returns a part of what has come; the client closes when it has all.
ClientRecv(c) ==
  /\ client[c] = "recv" /\ Len(chunks[c]) < Len(Message[c])
  /\ \E n \in 1 .. Len(down[c]) :
       /\ chunks' = [chunks EXCEPT ![c] = @ \o SubSeq(down[c], 1, n)]
       /\ down' = [down EXCEPT ![c] = SubSeq(@, n + 1, Len(@))]
  /\ UNCHANGED <<client, up, side, loop, runFlag, events, served>>

ClientEnd(c) ==
  /\ client[c] = "recv"
  /\ Len(chunks[c]) >= Len(Message[c]) \/ (side[c] = "closed" /\ down[c] = << >>)
  /\ client' = [client EXCEPT ![c] = "done"]
  /\ UNCHANGED <<netVars, side, loop, runFlag, events, served>>

ClientTimeout(c) ==
  /\ c \in Impatient /\ client[c] = "recv"
  /\ client' = [client EXCEPT ![c] = "gone"]
  /\ down' = [down EXCEPT ![c] = << >>]
  /\ UNCHANGED <<up, chunks, side, loop, runFlag, events, served>>

\* A server that closes with bytes unread resets the connection.
ClientReset(c) ==
  /\ client[c] = "recv" /\ side[c] = "closed" /\ up[c] # << >>
  /\ client' = [client EXCEPT ![c] = "gone"]
  /\ down' = [down EXCEPT ![c] = << >>]
  /\ UNCHANGED <<up, chunks, side, loop, runFlag, events, served>>

ClientStep(c) == ClientConnect(c) \/ ClientRecv(c) \/ ClientEnd(c) \/ ClientReset(c)

Left(c) == client[c] \in {"done", "gone"}

-----------------------------------------------------------------------------
(* serve_forever()                                                          *)

Serve ==
  /\ loop = "start"
  /\ loop' = "select" /\ runFlag' = TRUE
  /\ UNCHANGED <<client, netVars, side, events, served>>

Readable(c) == side[c] = "open" /\ (up[c] # << >> \/ Left(c))

\* select(): all that is ready; or nothing, after half a second.
Select ==
  /\ loop = "select" /\ events = {} /\ runFlag
  /\ events' = {c \in EchoClients : Readable(c)}
               \cup (IF \E c \in EchoClients : side[c] = "pending" THEN {Listener} ELSE {})
  /\ events' # {}
  /\ UNCHANGED <<client, netVars, side, loop, runFlag, served>>

LeaveLoop ==
  /\ loop = "select" /\ events = {} /\ ~runFlag
  /\ loop' = "ended"
  /\ UNCHANGED <<client, netVars, side, runFlag, events, served>>

Acceptable(c) == side[c] = "pending"

\* _accept(), until BlockingIOError
AcceptAll ==
  /\ Listener \in events
  /\ side' = [c \in EchoClients |-> IF Acceptable(c) THEN "open" ELSE side[c]]
  /\ events' = events \ {Listener}
  /\ UNCHANGED <<client, netVars, loop, runFlag, served>>

\* The server's end after sendall(): _close() when it raised.
AfterSend(c, complete) == IF complete THEN "open" ELSE "closed"

\* _service(): recv() returns some bytes, which are echoed.
Echo(c) ==
  /\ c \in events
  /\ \E n \in 1 .. Len(up[c]) :
       LET room == SendBuf - Len(down[c])
           sent == IF n <= room THEN n ELSE room
       IN  /\ up' = [up EXCEPT ![c] = SubSeq(@, n + 1, Len(@))]
           /\ down' = [down EXCEPT ![c] = IF Left(c) THEN @ ELSE @ \o SubSeq(up[c], 1, sent)]
           /\ side' = [side EXCEPT ![c] = AfterSend(c, sent = n)]
           /\ served' = IF side'[c] = "closed" THEN served + 1 ELSE served
  /\ events' = events \ {c}
  /\ UNCHANGED <<client, chunks, loop, runFlag>>

\* _service(): recv() returns nothing or is reset by a client that left, or
\* sendall() to it raises.  recv() never raises BlockingIOError (lines 99-100):
\* it is called for a socket that epoll reported, and nobody else reads it.
Drop(c) ==
  /\ c \in events
  /\ Left(c)
  /\ up[c] = << >> \/ client[c] = "gone"
  /\ side' = [side EXCEPT ![c] = "closed"]
  /\ up' = [up EXCEPT ![c] = << >>]
  /\ served' = served + 1
  /\ events' = events \ {c}
  /\ UNCHANGED <<client, down, chunks, loop, runFlag>>

ServerStep == Serve \/ Select \/ LeaveLoop \/ AcceptAll \/ \E c \in EchoClients : Echo(c) \/ Drop(c)

\* main joins its clients, sleeps and calls stop().
StopServer ==
  /\ \A c \in EchoClients : Left(c)
  /\ loop # "start" /\ runFlag
  /\ runFlag' = FALSE
  /\ UNCHANGED <<client, netVars, side, loop, events, served>>

-----------------------------------------------------------------------------
EchoNext ==
  \/ ServerStep
  \/ \E c \in EchoClients : ClientStep(c) \/ ClientTimeout(c)
  \/ StopServer

(* The server's thread and the clients' are scheduled.                      *)
EchoFairness ==
  WF_echoVars(ServerStep) /\ \A c \in EchoClients : WF_echoVars(ClientStep(c))

EchoSpec == EchoInit /\ [][EchoNext]_echoVars /\ EchoFairness

-----------------------------------------------------------------------------
(* "echo mismatch" (line 199): through all the pieces that sends and        *)
(* receives come in, what a client gets is at any time the beginning of     *)
(* what it sent, and a message that fits the send buffer comes back whole.  *)
(* A larger one may be cut off (lines 102-109), never garbled.              *)
EchoExact ==
  \A c \in EchoClients :
    /\ client[c] # "gone" => IsPrefix(chunks[c] \o down[c], Message[c])
    /\ client[c] = "done" /\ Len(Message[c]) <= SendBuf => chunks[c] = Message[c]

(* "One thread served all connections" (lines 205-218): every connection is *)
(* accepted, answered and, unless the server is stopped, closed and counted *)
(* once, whatever the other clients do.                                     *)
AllServed ==
  /\ \A c \in EchoClients : Left(c)
  /\ served = Cardinality(EchoClients) \/ (loop # "start" /\ ~runFlag)
=============================================================================
