------------------------------ MODULE RsaKey -------------------------------
(***************************************************************************)
(* generate_rsa() of tls_inspect.py and the signature made with its key:   *)
(* _gen_prime() draws candidates until _is_prime(), trial division and     *)
(* then Miller-Rabin rounds with random bases, accepts one.  The sizes are *)
(* constants; every random value is a choice.                              *)
(***************************************************************************)
EXTENDS Integers, Sequences, FiniteSetsExt, SequencesExt

CONSTANTS
  PrimeBits,      \* bits of a prime: bits // 2, 1024 in the code
  Draws,          \* what secrets.randbits(PrimeBits) may return
  TrialPrimes,    \* the primes of the trial division: 2 .. 37 in the code
  Rounds,         \* Miller-Rabin rounds: 20 in the code
  PublicExp,      \* e: 65537 in the code, a prime
  Radix           \* the values of a digit of a signature: 256 in the code

IsPrime(n) == n > 1 /\ \A k \in 2 .. n - 1 : n % k # 0

ASSUME RsaAssumption ==
  /\ PrimeBits \in 3 .. 15 /\ Draws \subseteq 0 .. 2 ^ PrimeBits - 1
  /\ \A p \in TrialPrimes \cup {PublicExp} : IsPrime(p)

VARIABLES
  cand,       \* the candidate that _is_prime() tests, 0 for none
  round,      \* the Miller-Rabin rounds it has passed; -1 before trial division
  tested,     \* the last verdict of _is_prime(): the number and what was returned
  p, q,       \* the primes drawn so far, 0 for none
  rsa         \* "drawing", "made", or "failed": pow() has raised ValueError

rsaVars == <<cand, round, tested, p, q, rsa>>

RsaInit ==
  /\ cand = 0 /\ round = -1 /\ tested = [n |-> 2, prime |-> TRUE]
  /\ p = 0 /\ q = 0 /\ rsa = "drawing"

\* pow(a, k, n) and pow(a, -1, n)
Pow(a, k, n) ==
  LET f[i \in Nat] ==
        IF i = 0 THEN 1
        ELSE (((f[i \div 2] ^ 2) % n) * (IF i % 2 = 1 THEN a ELSE 1)) % n
  IN  f[k] % n
Invertible(a, n) == \E k \in 1 .. n - 1 : (a * k) % n = 1
InverseMod(a, n) == CHOOSE k \in 1 .. n - 1 : (a * k) % n = 1

\* Mutants: each is what a plausible slip in the code would make of the
\* definition it is named after.
Bug_Start(x, n) == x = 1
Bug_Unusable(phi) == phi % PublicExp = 0

\* n - 1 = d * 2^r with d odd
Twos(n) == Max({r \in 0 .. PrimeBits : (n - 1) % 2 ^ r = 0})

\* One round: a^d is 1 or n - 1, or one of its r - 1 squares is n - 1.
Start(x, n) == x \in {1, n - 1}
Passes(a, n) ==
  LET r == Twos(n)
      x == Pow(a, (n - 1) \div 2 ^ r, n)
  IN  Start(x, n) \/ \E i \in 1 .. r - 1 : Pow(x, 2 ^ i, n) = n - 1
Bases(n) == 2 .. n - 2

\* randbits() with the highest and the lowest bit set
WithBit(x, b) == IF (x \div 2 ^ b) % 2 = 1 THEN x ELSE x + 2 ^ b
Draw(x) ==
  /\ rsa = "drawing" /\ cand = 0 /\ q = 0
  /\ cand' = WithBit(WithBit(x, PrimeBits - 1), 0) /\ round' = -1
  /\ UNCHANGED <<tested, p, q, rsa>>

\* _is_prime() returns: _gen_prime() keeps the candidate or draws again.
Verdict(prime) ==
  /\ tested' = [n |-> cand, prime |-> prime] /\ cand' = 0 /\ round' = -1
  /\ p' = IF prime /\ p = 0 THEN cand ELSE p
  /\ q' = IF prime /\ p # 0 THEN cand ELSE q
  /\ UNCHANGED rsa

TrialDivision ==
  /\ cand # 0 /\ round = -1
  /\ IF \E t \in TrialPrimes : cand % t = 0
     THEN Verdict(cand \in TrialPrimes)
     ELSE round' = 0 /\ UNCHANGED <<cand, tested, p, q, rsa>>

Witness(a) ==
  /\ cand # 0 /\ round \in 0 .. Rounds - 1 /\ a \in Bases(cand)
  /\ IF Passes(a, cand)
     THEN round' = round + 1 /\ UNCHANGED <<cand, tested, p, q, rsa>>
     ELSE Verdict(FALSE)

AllRounds == cand # 0 /\ round = Rounds /\ Verdict(TRUE)

\* The pair is dropped when the primes are equal or e divides phi.
Unusable(phi) == p = q \/ phi % PublicExp = 0
Drop ==
  /\ rsa = "drawing" /\ q # 0 /\ Unusable((p - 1) * (q - 1))
  /\ p' = 0 /\ q' = 0 /\ UNCHANGED <<cand, round, tested, rsa>>

\* What generate_rsa() returns
Key ==
  LET d == InverseMod(PublicExp, (p - 1) * (q - 1))
  IN  [n |-> p * q, e |-> PublicExp, d |-> d, p |-> p, q |-> q,
       dp |-> d % (p - 1), dq |-> d % (q - 1), qinv |-> InverseMod(q, p)]

MakeKey ==
  /\ rsa = "drawing" /\ q # 0 /\ ~Unusable((p - 1) * (q - 1))
  /\ rsa' = IF Invertible(q, p) THEN "made" ELSE "failed"
  /\ UNCHANGED <<cand, round, tested, p, q>>

RsaNext ==
  \/ \E x \in Draws : Draw(x)
  \/ TrialDivision \/ AllRounds \/ Drop \/ MakeKey
  \/ \E a \in Bases(cand) : Witness(a)

RsaSpec == RsaInit /\ [][RsaNext]_rsaVars

-----------------------------------------------------------------------------
(* _rsa_sign_sha256(), with a digest info of one digit.                    *)

Digits(x, base) ==
  LET f[v \in Nat] == IF v = 0 THEN <<>> ELSE Append(f[v \div base], v % base)
  IN  f[x]
FromDigits(s, base) == FoldLeft(LAMBDA v, b : v * base + b, 0, s)
Padded(s, n) == [k \in 1 .. n - Len(s) |-> 0] \o s

EmLen(k) == Len(Digits(k.n, Radix))
Encoded(k, digest) ==
  <<0, 1>> \o [i \in 1 .. EmLen(k) - 4 |-> Radix - 1] \o <<0, digest>>
Signature(k, digest) ==
  Padded(Digits(Pow(FromDigits(Encoded(k, digest), Radix), k.d, k.n), Radix), EmLen(k))

-----------------------------------------------------------------------------
(* _is_prime() never turns a prime away, whatever bases it draws, and for  *)
(* a composite that gets past the trial division at most a quarter of the  *)
(* bases pass a round: what makes twenty rounds enough to trust a prime.   *)
PrimalityTest ==
  /\ ~tested.prime => ~IsPrime(tested.n)
  /\ cand # 0 /\ round = 0 /\ ~IsPrime(cand) =>
       4 * (Cardinality({a \in Bases(cand) : Passes(a, cand)}) + 2) <= cand - 1

(* The private operation with the CRT parameters, as TLS libraries do it.  *)
ByCrt(k, m) ==
  LET m2 == Pow(m, k.dq, k.q)
      h  == (k.qinv * (Pow(m, k.dp, k.p) + k.p - (m2 % k.p))) % k.p
  IN  m2 + h * k.q

(* When the numbers that _is_prime() accepted are primes, generate_rsa()   *)
(* does not raise, and its key works: a signature of any digest opens with *)
(* the public key to the padded digest, and the CRT parameters in the key  *)
(* file give the same signature.                                           *)
KeyWorks ==
  rsa # "drawing" /\ IsPrime(p) /\ IsPrime(q) =>
    /\ rsa = "made"
    /\ \A digest \in 0 .. Radix - 1 :
         LET m   == FromDigits(Encoded(Key, digest), Radix)
             sig == FromDigits(Signature(Key, digest), Radix)
         IN  Pow(sig, Key.e, Key.n) = m /\ ByCrt(Key, m) = sig
=============================================================================
