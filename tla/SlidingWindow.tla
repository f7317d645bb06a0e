--------------------------- MODULE SlidingWindow ---------------------------
(***************************************************************************)
(* SlidingWindowLog of rate_limiter.py.  allow() holds the lock from the   *)
(* reading of the clock to the verdict, so a call is one step.             *)
(***************************************************************************)
EXTENDS Clock, Sequences, FiniteSets, FiniteSetsExt

CONSTANTS
  Limit,      \* self.limit
  Window      \* self.window, in ticks

ASSUME WindowAssumption ==
  /\ Limit \in Nat
  /\ Window \in Nat \ {0}

VARIABLES
  events,     \* self._events
  log         \* history: the times of all the calls that were allowed

logVars == <<events, log>>

LogInit ==
  /\ now = 0
  /\ events = << >>
  /\ log = << >>

-----------------------------------------------------------------------------
(* Seeded faults.                                                           *)

\* "< cutoff" instead of "<= cutoff": an event leaves the window a tick late
Bug_Expired(time) == time < now - Window

-----------------------------------------------------------------------------
\* self._events[0] <= cutoff
Expired(time) == time <= now - Window

\* while ... popleft(): the longest expired prefix goes.
Evicted ==
  LET kept == {k \in DOMAIN events : ~Expired(events[k])}
  IN  IF kept = {} THEN << >> ELSE SubSeq(events, Min(kept), Len(events))

Live == Len(Evicted)

\* len(self._events) < self.limit
Quota(n) == n < Limit

\* allow() returns True ...
LogAllow ==
  /\ Quota(Live)
  /\ events' = Append(Evicted, now)
  /\ log' = Append(log, now)
  /\ UNCHANGED now

\* ... or False.
LogDeny ==
  /\ ~Quota(Live)
  /\ events' = Evicted
  /\ UNCHANGED <<now, log>>

LogTick ==
  /\ now < MaxTime
  /\ now' = now + 1
  /\ UNCHANGED <<events, log>>

LogNext == LogAllow \/ LogDeny \/ LogTick

LogSpec == LogInit /\ [][LogNext]_<<now, logVars>>

-----------------------------------------------------------------------------
(* "<= `limit` events per `window` seconds" (line 73) for every position of *)
(* the window, not only those that end at a call: any Limit + 1 consecutive *)
(* allowed calls span at least a window.                                    *)
StrictQuota ==
  \A k \in DOMAIN log : k + Limit \in DOMAIN log => log[k + Limit] - log[k] >= Window

InWindow == {k \in DOMAIN log : log[k] > now - Window}

(* What allow() counts is exactly the allowed calls of the last window, so  *)
(* a call is denied only when there are Limit of them and never allowed     *)
(* when there are.                                                          *)
CountsTheWindow == Live = Cardinality(InWindow)

(* Both together: the quota is neither exceeded nor undercut.               *)
WindowQuota == StrictQuota /\ CountsTheWindow
=============================================================================
