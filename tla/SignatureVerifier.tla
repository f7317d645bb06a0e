------------------------- MODULE SignatureVerifier -------------------------
(***************************************************************************)
(* RequestSigner and SignatureVerifier of token_bucket_ratelimiter.py.  A  *)
(* request is known by its nonce, which secrets.token_hex() makes unique,  *)
(* and carries the timestamp of its client's clock.  It may be delivered   *)
(* any number of times, at any time, as it was signed or altered.  The     *)
(* verifier reads the wall clock, which time servers may set back a little.*)
(* An HMAC checks out exactly for what was signed with the secret.         *)
(***************************************************************************)
EXTENDS Integers

CONSTANTS
  Nonces,       \* the nonces of the requests
  MaxSkew,      \* self.max_skew
  NonceTtl,     \* self.nonce_ttl
  MaxBack,      \* how far the wall clock may fall back
  Horizon       \* bound: the clocks stop here

(* With the defaults, 30 and 300 seconds, the clock may fall back by less   *)
(* than four minutes.                                                       *)
ASSUME VerifierAssumption ==
  /\ MaxSkew \in Nat /\ NonceTtl \in Nat /\ MaxBack \in Nat /\ Horizon \in Nat
  /\ NonceTtl > 2 * MaxSkew + MaxBack

VARIABLES
  wall,         \* time.time() of the verifier
  latest,       \* the latest time it has shown
  stamp,        \* the timestamp of each request that has been signed
  seen,         \* self._seen: nonce -> expiry time
  accepted      \* history: how often each request was accepted

verifierVars == <<wall, latest, stamp, seen, accepted>>

VerifierInit ==
  /\ wall = 0 /\ latest = 0
  /\ stamp = << >>
  /\ seen = << >>
  /\ accepted = [n \in Nonces |-> 0]

\* a nonce is kept while its timestamp may be fresh for a clock that is right
Bug_Expiry(n) == stamp[n] + MaxSkew

SetClock(t) ==
  /\ wall' = t
  /\ latest' = IF t > latest THEN t ELSE latest
  /\ UNCHANGED <<stamp, seen, accepted>>

\* sign(), by a client whose clock may be anything
Sign(n, ts) ==
  /\ n \notin DOMAIN stamp
  /\ stamp' = [m \in DOMAIN stamp \cup {n} |-> IF m = n THEN ts ELSE stamp[m]]
  /\ UNCHANGED <<wall, latest, seen, accepted>>

Stale(n) == wall - stamp[n] > MaxSkew \/ stamp[n] - wall > MaxSkew

\* _gc()
Kept == {n \in DOMAIN seen : seen[n] > wall}

Expiry(n) == wall + NonceTtl

\* verify() of the request as it was signed
Verify(n) ==
  /\ n \in DOMAIN stamp
  /\ ~Stale(n)
  /\ IF n \in Kept
     THEN seen' = [m \in Kept |-> seen[m]] /\ UNCHANGED accepted
     ELSE /\ seen' = [m \in Kept \cup {n} |-> IF m = n THEN Expiry(n) ELSE seen[m]]
          /\ accepted' = [accepted EXCEPT ![n] = @ + 1]
  /\ UNCHANGED <<wall, latest, stamp>>

\* verify() of a stale request or of an altered one: no nonce is touched.
Refuse(n) ==
  /\ n \in DOMAIN stamp
  /\ UNCHANGED verifierVars

VerifierNext ==
  \/ \E t \in latest - MaxBack .. latest + 1 : t \in 0 .. Horizon /\ SetClock(t)
  \/ \E n \in Nonces, ts \in 0 .. Horizon : Sign(n, ts)
  \/ \E n \in Nonces : Verify(n) \/ Refuse(n)

VerifierSpec == VerifierInit /\ [][VerifierNext]_verifierVars

-----------------------------------------------------------------------------
(* Replay prevention (lines 132-139): a request is accepted at most once,   *)
(* though its nonce is forgotten some day and the clock may fall back then; *)
(* and only accepted requests hold a nonce slot, so that no altered copy    *)
(* keeps the genuine one out (lines 123-126).                               *)
AcceptedOnce ==
  \A n \in Nonces : accepted[n] <= 1 /\ (n \in DOMAIN seen => accepted[n] = 1)
=============================================================================
