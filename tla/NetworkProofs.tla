--------------------------- MODULE NetworkProofs ---------------------------
(***************************************************************************)
(* subnet_calculator.py, for every width of an address: vlsm_allocate()    *)
(* hands out blocks that are large enough, aligned, inside of the parent   *)
(* and apart, split() covers a block exactly, and lookup() finds the route *)
(* with the longest prefix.                                                *)
(*                                                                         *)
(* First what proofs about recursive functions rest on: a recursion over   *)
(* 0 .. n has a solution, and what holds of 0 and is passed on holds up to *)
(* n.  Both follow from the numbers being well founded.                    *)
(***************************************************************************)
EXTENDS Subnets, FiniteSetTheorems, WellFoundedInduction, TLAPS

LEMMA SameFunction ==
  ASSUME NEW A, NEW B, NEW f \in [A -> B], NEW g \in [A -> B], \A x \in A : f[x] = g[x]
  PROVE  f = g
OBVIOUS

LEMMA ElementInRange ==
  ASSUME NEW R, NEW s \in Seq(R), NEW k \in DOMAIN s
  PROVE  s[k] \in R
OBVIOUS

LEMMA ArrayIsSequence ==
  ASSUME NEW S, NEW n \in Nat, NEW f \in [1 .. n -> S]
  PROVE  f \in Seq(S) /\ Len(f) = n /\ DOMAIN f = 1 .. n
<1>1. f \in Seq(S)
  OBVIOUS
<1>2. DOMAIN f = 1 .. n
  OBVIOUS
<1>3. Len(f) \in Nat /\ DOMAIN f = 1 .. Len(f)
  BY <1>1
<1>4. Len(f) = n
  <2>1. CASE Len(f) < n
    <3>1. n \in 1 .. n /\ n \notin 1 .. Len(f)
      BY <1>3, <2>1
    <3> QED BY <1>2, <1>3, <3>1
  <2>2. CASE Len(f) > n
    <3>1. Len(f) \in 1 .. Len(f) /\ Len(f) \notin 1 .. n
      BY <1>3, <2>2
    <3> QED BY <1>2, <1>3, <3>1
  <2> QED BY <1>3, <2>1, <2>2
<1> QED BY <1>1, <1>2, <1>4

LEMMA LeastNumber ==
  ASSUME NEW T \in SUBSET Nat, T # {}
  PROVE  \E m \in T : \A l \in T : m <= l
<1>1. PICK m \in T : \A l \in T : ~ (<<l, m>> \in OpToRel(<, Nat))
  BY NatLessThanWellFounded, WFMin
<1>2. \A l \in T : ~ (l < m)
  BY <1>1 DEF OpToRel
<1> QED
  BY <1>2

-----------------------------------------------------------------------------
(* Functions defined by recursion over 0 .. n.                              *)

(* A recursion over 0 .. n, its step given as a function, has a solution:   *)
(* take the least number that a solution does not reach, and extend the one *)
(* that ends before it.                                                     *)
Solves(f, m, base, step) ==
  f[0] = base /\ \A k \in 1 .. m : f[k] = step[<<k, f[k - 1]>>]

LEMMA RecursionSolved ==
  ASSUME NEW n \in Nat, NEW V, NEW base \in V, NEW step \in [(1 .. n) \X V -> V]
  PROVE  \E f \in [0 .. n -> V] : Solves(f, n, base, step)
<1> DEFINE Reached(m) == \E f \in [0 .. m -> V] : Solves(f, m, base, step)
           D == {m \in 0 .. n : ~ Reached(m)}
<1>1. SUFFICES ASSUME D # {} PROVE FALSE
  BY DEF D
<1>2. PICK m \in D : \A l \in D : m <= l
  <2>1. D \subseteq Nat
    OBVIOUS
  <2> HIDE DEF D
  <2> QED BY <1>1, <2>1, LeastNumber
<1>3. m \in 0 .. n /\ ~ Reached(m)
  OBVIOUS
<1>4. m # 0
  <2> DEFINE f == [k \in 0 .. 0 |-> base]
  <2>1. f \in [0 .. 0 -> V] /\ Solves(f, 0, base, step)
    BY DEF Solves
  <2> HIDE DEF f
  <2>2. Reached(0)
    BY <2>1
  <2> QED BY <1>3, <2>2
<1>5. m - 1 \in 0 .. n /\ m - 1 \notin D
  BY <1>2, <1>3, <1>4
<1>6. PICK f \in [0 .. m - 1 -> V] : Solves(f, m - 1, base, step)
  BY <1>5
<1> DEFINE g == [k \in 0 .. m |-> IF k < m THEN f[k] ELSE step[<<m, f[m - 1]>>]]
<1>7. m \in 1 .. n /\ m - 1 \in 0 .. m - 1 /\ f[m - 1] \in V
  BY <1>3, <1>4
<1>8. step[<<m, f[m - 1]>>] \in V
  BY <1>7
<1>9. g \in [0 .. m -> V]
  BY <1>3, <1>8
<1>10. /\ \A k \in 0 .. m - 1 : g[k] = f[k]
       /\ g[m] = step[<<m, f[m - 1]>>]
  BY <1>3
<1> HIDE DEF g
<1>11. g[0] = base
  BY <1>6, <1>7, <1>10 DEF Solves
<1>12. ASSUME NEW k \in 1 .. m PROVE g[k] = step[<<k, g[k - 1]>>]
  <2>1. CASE k = m
    BY <1>7, <1>10, <2>1
  <2>2. CASE k # m
    <3>1. k \in 1 .. m - 1 /\ k \in 0 .. m - 1 /\ k - 1 \in 0 .. m - 1
      BY <1>7, <2>2
    <3>2. g[k] = f[k] /\ g[k - 1] = f[k - 1]
      BY <1>10, <3>1
    <3> QED BY <1>6, <3>1, <3>2 DEF Solves
  <2> QED BY <2>1, <2>2
<1>13. Reached(m)
  BY <1>9, <1>11, <1>12 DEF Solves
<1> QED BY <1>3, <1>13

(* What is true of 0 and passes on from each number to the next is true up  *)
(* to n.                                                                    *)
LEMMA Induction ==
  ASSUME NEW n \in Nat, NEW T, 0 \in T, \A k \in 1 .. n : k - 1 \in T => k \in T
  PROVE  \A k \in 0 .. n : k \in T
<1> DEFINE D == {k \in 0 .. n : k \notin T}
<1>1. SUFFICES ASSUME D # {} PROVE FALSE
  OBVIOUS
<1>2. PICK m \in D : \A l \in D : m <= l
  <2>1. D \subseteq Nat
    OBVIOUS
  <2> HIDE DEF D
  <2> QED BY <1>1, <2>1, LeastNumber
<1>3. m \in 1 .. n /\ m \notin T /\ m - 1 \notin D
  BY <1>2
<1> QED BY <1>3

LEMMA ShiftedEquation ==
  /\ Shifted[0] = 1
  /\ \A n \in 1 .. Width : Shifted[n] = 2 * Shifted[n - 1]
  /\ \A n \in 0 .. Width : Shifted[n] \in Nat \ {0}
<1> DEFINE step == [x \in (1 .. Width) \X Nat |-> 2 * x[2]]
           Body(f) == [n \in 0 .. Width |-> IF n = 0 THEN 1 ELSE 2 * f[n - 1]]
<1>1. Width \in Nat
  BY SubnetAssumption
<1>2. step \in [(1 .. Width) \X Nat -> Nat]
  OBVIOUS
<1>3. \A k \in 1 .. Width, v \in Nat : step[<<k, v>>] = 2 * v
  OBVIOUS
<1> HIDE DEF step
<1>4. PICK f \in [0 .. Width -> Nat] : Solves(f, Width, 1, step)
  BY <1>1, <1>2, RecursionSolved
<1>5. \A k \in 1 .. Width : f[k] = 2 * f[k - 1]
  <2> TAKE k \in 1 .. Width
  <2>1. f[k] = step[<<k, f[k - 1]>>]
    BY <1>4 DEF Solves
  <2>2. k - 1 \in 0 .. Width
    BY <1>1
  <2>3. f[k - 1] \in Nat
    BY <2>2
  <2> QED BY <1>3, <2>1, <2>3
<1>6. \A k \in 0 .. Width : f[k] = IF k = 0 THEN 1 ELSE 2 * f[k - 1]
  BY <1>1, <1>4, <1>5 DEF Solves
<1>7. f = Body(f)
  BY <1>6
<1>8. Shifted = CHOOSE g : g = Body(g)
  BY DEF Shifted
<1>9. Shifted = Body(Shifted)
  BY <1>7, <1>8
<1> HIDE DEF Body
<1>10. \A n \in 0 .. Width : Shifted[n] = IF n = 0 THEN 1 ELSE 2 * Shifted[n - 1]
  BY <1>9 DEF Body
<1>11. Shifted[0] = 1 /\ \A n \in 1 .. Width : Shifted[n] = 2 * Shifted[n - 1]
  BY <1>1, <1>10
<1>12. \A n \in 0 .. Width : Shifted[n] \in Nat \ {0}
  <2> DEFINE T == {n \in 0 .. Width : Shifted[n] \in Nat \ {0}}
  <2>1. 0 \in T
    BY <1>1, <1>11
  <2>2. ASSUME NEW k \in 1 .. Width, k - 1 \in T PROVE k \in T
    <3>1. Shifted[k] = 2 * Shifted[k - 1] /\ Shifted[k - 1] \in Nat \ {0}
      BY <1>11, <2>2
    <3>2. k \in 0 .. Width
      BY <1>1
    <3>3. Shifted[k] \in Nat \ {0}
      BY <3>1
    <3> QED BY <3>2, <3>3
  <2> HIDE DEF T
  <2>3. \A k \in 0 .. Width : k \in T
    BY <1>1, <2>1, <2>2, Induction
  <2> QED BY <2>3 DEF T
<1> QED BY <1>11, <1>12

(* The blocks are powers of two: a sum of exponents is a product.           *)
LEMMA ShiftedSum ==
  ASSUME NEW a \in Nat, NEW b \in Nat, a + b <= Width
  PROVE  Shifted[a + b] = Shifted[a] * Shifted[b]
<1> DEFINE T == {c \in 0 .. Width - a : Shifted[a + c] = Shifted[a] * Shifted[c]}
<1>1. Width \in Nat /\ Width - a \in Nat /\ a \in 0 .. Width
  BY SubnetAssumption
<1>2. 0 \in T
  BY <1>1, ShiftedEquation
<1>3. ASSUME NEW k \in 1 .. Width - a, k - 1 \in T PROVE k \in T
  <2> DEFINE x == Shifted[a]
             y == Shifted[k - 1]
             z == Shifted[a + (k - 1)]
  <2>1. k \in 1 .. Width /\ a + k \in 1 .. Width /\ (a + k) - 1 = a + (k - 1)
    BY <1>1
  <2>2. Shifted[k] = 2 * y /\ Shifted[a + k] = 2 * z
    BY <2>1, ShiftedEquation
  <2>3. x \in Nat /\ y \in Nat /\ z \in Nat
    BY <1>1, <2>1, ShiftedEquation
  <2>4. z = x * y
    BY <1>3
  <2> HIDE DEF x, y, z
  <2>5. 2 * z = x * (2 * y)
    BY <2>3, <2>4
  <2> QED BY <2>2, <2>5 DEF x
<1> HIDE DEF T
<1>4. \A k \in 0 .. Width - a : k \in T
  BY <1>1, <1>2, <1>3, Induction
<1> QED BY <1>1, <1>4 DEF T

-----------------------------------------------------------------------------
(* Quotients.                                                               *)

LEMMA Quotient ==
  ASSUME NEW a \in Nat, NEW B \in Nat \ {0}
  PROVE  /\ a \div B \in Nat /\ a % B \in Nat /\ a % B < B
         /\ a = (a \div B) * B + (a % B)
BY SMTT(30)

LEMMA ProductGap ==
  ASSUME NEW a \in Nat, NEW b \in Nat, NEW B \in Nat, a < b
  PROVE  a * B + B <= b * B
BY SMTT(30)

(* A number has one quotient and one remainder.                             *)
LEMMA QuotientUnique ==
  ASSUME NEW a \in Nat, NEW B \in Nat \ {0}, NEW q \in Nat, NEW r \in Nat, r < B, a = q * B + r
  PROVE  q = a \div B /\ r = a % B
<1> DEFINE p == a \div B
           t == a % B
           pB == p * B
           qB == q * B
<1>1. p \in Nat /\ t \in Nat /\ t < B /\ a = pB + t
  BY Quotient
<1>2. pB \in Nat /\ qB \in Nat /\ a = qB + r
  BY <1>1
<1>3. p < q => pB + B <= qB
  BY <1>1, ProductGap
<1>4. q < p => qB + B <= pB
  BY <1>1, ProductGap
<1>5. p = q => pB = qB
  OBVIOUS
<1> HIDE DEF p, t, pB, qB
<1>6. ~ (p < q) /\ ~ (q < p)
  BY <1>1, <1>2, <1>3, <1>4
<1>7. p = q
  BY <1>1, <1>6
<1>8. t = r
  BY <1>1, <1>2, <1>5, <1>7
<1> QED BY <1>7, <1>8 DEF p, t

LEMMA QuotientTwice ==
  ASSUME NEW a \in Nat, NEW B \in Nat \ {0}, NEW C \in Nat \ {0}
  PROVE  a \div (B * C) = (a \div B) \div C
<1> DEFINE q == a \div B
           r == a % B
           u == q \div C
           t == q % C
<1>1. q \in Nat /\ r \in Nat /\ r < B /\ a = q * B + r
  BY Quotient
<1>2. u \in Nat /\ t \in Nat /\ t < C /\ q = u * C + t
  BY <1>1, Quotient
<1> HIDE DEF q, r, u, t
<1>3. t * B + B <= C * B
  BY <1>2, ProductGap
<1>4. t * B + r < B * C
  <2> DEFINE x == t * B
             y == C * B
  <2>1. x \in Nat /\ y \in Nat /\ B * C = y /\ x + B <= y
    BY <1>2, <1>3
  <2> HIDE DEF x, y
  <2>2. x + r < y
    BY <1>1, <2>1
  <2> QED BY <2>1, <2>2 DEF x
<1>5. a = u * (B * C) + (t * B + r)
  BY <1>1, <1>2
<1>6. B * C \in Nat \ {0} /\ t * B + r \in Nat
  BY <1>1, <1>2
<1> DEFINE M == B * C
           w == t * B + r
<1>7. M \in Nat \ {0} /\ w \in Nat /\ w < M /\ a = u * M + w
  BY <1>4, <1>5, <1>6
<1> HIDE DEF M, w
<1>8. u = a \div M
  BY <1>2, <1>7, QuotientUnique
<1> QED BY <1>8 DEF M, u, q

-----------------------------------------------------------------------------
(* subnet_calculator.py: addresses and blocks.                              *)

LEMMA Distribute ==
  ASSUME NEW x \in Nat, NEW y \in Nat, NEW z \in Nat, NEW w \in Nat
  PROVE  (x * y + z) * w = x * (y * w) + z * w
BY SMTT(30)

LEMMA OctetPowers ==
  LET B == Shifted[OctetBits] IN
  /\ OctetBits \in Nat /\ B \in Nat \ {0}
  /\ Shifted[0 * OctetBits] = 1 /\ Shifted[1 * OctetBits] = B
  /\ Shifted[2 * OctetBits] = B * B
  /\ Shifted[3 * OctetBits] = B * (B * B)
  /\ Shifted[Width] = B * (B * (B * B))
<1> DEFINE b == OctetBits
           B == Shifted[b]
<1>1. Width \in Nat /\ b \in Nat /\ Width = 4 * b
  <2>1. Width \in Nat /\ Width % 4 = 0
    BY SubnetAssumption
  <2>2. Width \div 4 \in Nat /\ Width = 4 * (Width \div 4)
    BY <2>1
  <2> QED BY <2>1, <2>2 DEF OctetBits
<1> HIDE DEF b
<1>2. 2 * b = b + b /\ 3 * b = b + 2 * b /\ Width = b + 3 * b /\ 0 * b = 0 /\ 1 * b = b
  BY <1>1
<1>3. /\ b + b <= Width /\ b + 2 * b <= Width /\ b + 3 * b <= Width /\ b <= Width
      /\ 2 * b \in Nat /\ 3 * b \in Nat /\ b \in 0 .. Width
  BY <1>1
<1>4. Shifted[b + b] = B * B
  BY <1>1, <1>3, ShiftedSum
<1>5. Shifted[b + 2 * b] = B * Shifted[2 * b]
  BY <1>1, <1>3, ShiftedSum
<1>6. Shifted[b + 3 * b] = B * Shifted[3 * b]
  BY <1>1, <1>3, ShiftedSum
<1>7. B \in Nat \ {0} /\ Shifted[0] = 1
  BY <1>3, ShiftedEquation
<1>8. Shifted[2 * b] = B * B
  BY <1>2, <1>4
<1>9. Shifted[3 * b] = B * (B * B)
  BY <1>2, <1>5, <1>8
<1>10. Shifted[Width] = B * (B * (B * B))
  BY <1>2, <1>6, <1>9
<1>11. Shifted[0 * b] = 1 /\ Shifted[1 * b] = B
  BY <1>2, <1>7
<1> HIDE DEF B
<1>12. /\ b \in Nat /\ B \in Nat \ {0} /\ Shifted[0 * b] = 1 /\ Shifted[1 * b] = B
       /\ Shifted[2 * b] = B * B /\ Shifted[3 * b] = B * (B * B)
       /\ Shifted[Width] = B * (B * (B * B))
  BY <1>1, <1>7, <1>8, <1>9, <1>10, <1>11
<1> QED BY <1>12 DEF b, B

(* An address survives being written as four octets and read again.         *)
LEMMA IpRoundTrip ==
  ASSUME NEW n \in Addresses
  PROVE  IpToInt(IntToIp(n)) = n
<1> DEFINE b == OctetBits
           B == Shifted[b]
           q1 == n \div B
           q2 == q1 \div B
           q3 == q2 \div B
           r0 == n % B
           r1 == q1 % B
           r2 == q2 % B
           B2 == B * B
           B3 == B * B2
<1>1. /\ b \in Nat /\ B \in Nat \ {0} /\ Shifted[0 * b] = 1 /\ Shifted[1 * b] = B
      /\ Shifted[2 * b] = B2 /\ Shifted[3 * b] = B3 /\ Shifted[Width] = B * B3
  BY OctetPowers
<1>2. n \in Nat /\ n < Shifted[Width]
  <2>1. Width \in Nat /\ Shifted[Width] \in Nat
    BY SubnetAssumption, ShiftedEquation
  <2> QED BY <2>1 DEF Addresses
<1> HIDE DEF b, B
<1>3. q1 \in Nat /\ r0 \in Nat /\ r0 < B /\ n = q1 * B + r0
  BY <1>1, <1>2, Quotient
<1> HIDE DEF q1, r0
<1>4. q2 \in Nat /\ r1 \in Nat /\ r1 < B /\ q1 = q2 * B + r1
  BY <1>1, <1>3, Quotient
<1> HIDE DEF q2, r1
<1>5. q3 \in Nat /\ r2 \in Nat /\ r2 < B /\ q2 = q3 * B + r2
  BY <1>1, <1>4, Quotient
<1> HIDE DEF q3, r2
<1>6. B2 \in Nat \ {0} /\ B3 \in Nat \ {0}
  <2>1. B2 \in Nat \ {0}
    BY <1>1
  <2> HIDE DEF B2
  <2> QED BY <1>1, <2>1
<1>7. n \div B2 = q2
  BY <1>1, <1>2, QuotientTwice DEF q1, q2
<1>8. n \div B3 = q3
  <2>1. n \div (B2 * B) = (n \div B2) \div B
    <3> HIDE DEF B2
    <3> QED BY <1>1, <1>2, <1>6, QuotientTwice
  <2>2. B2 * B = B3
    <3>1. B2 \in Nat
      BY <1>6
    <3> HIDE DEF B2
    <3> QED BY <1>1, <3>1
  <2> HIDE DEF B2, B3
  <2> QED BY <1>7, <2>1, <2>2 DEF q3
<1>9. q1 * B = q2 * B2 + r1 * B
  BY <1>1, <1>3, <1>4, Distribute
<1>10. q2 * B2 = q3 * B3 + r2 * B2
  BY <1>1, <1>4, <1>5, <1>6, Distribute
<1> DEFINE x == q3 * B3
           y == r2 * B2
           z == r1 * B
<1> HIDE DEF B2, B3
<1>11. x \in Nat /\ y \in Nat /\ z \in Nat
  BY <1>1, <1>4, <1>5, <1>6
<1>12. n = x + y + z + r0
  <2> DEFINE u == q1 * B
             v == q2 * B2
  <2>1. u \in Nat /\ v \in Nat /\ n = u + r0 /\ u = v + z /\ v = x + y
    BY <1>1, <1>3, <1>4, <1>6, <1>9, <1>10
  <2> HIDE DEF u, v, x, y, z
  <2> QED BY <1>3, <1>11, <2>1
<1>13. q3 < B
  <2>1. SUFFICES ASSUME B <= q3 PROVE FALSE
    BY <1>1, <1>5
  <2> DEFINE m == B * B3
  <2>2. m <= x
    <3>1. CASE B = q3
      BY <1>1, <1>5, <1>6, <3>1
    <3>2. CASE B < q3
      <4>1. m + B3 <= x
        BY <1>1, <1>5, <1>6, <3>2, ProductGap
      <4>2. m \in Nat
        BY <1>1, <1>6
      <4> HIDE DEF m, x
      <4> QED BY <1>6, <1>11, <4>1, <4>2
    <3> QED BY <1>1, <1>5, <2>1, <3>1, <3>2
  <2>3. m \in Nat /\ n < m
    BY <1>1, <1>2, <1>6
  <2> HIDE DEF m, x, y, z
  <2> QED BY <1>2, <1>3, <1>11, <1>12, <2>2, <2>3
<1>14. q3 % B = q3
  <2>1. q3 = 0 * B + q3
    BY <1>1, <1>5
  <2> QED BY <1>1, <1>5, <1>13, <2>1, QuotientUnique
<1> DEFINE ip == IntToIp(n)
<1>15. /\ ip[1] = (n \div Shifted[(4 - 1) * b]) % B
       /\ ip[2] = (n \div Shifted[(4 - 2) * b]) % B
       /\ ip[3] = (n \div Shifted[(4 - 3) * b]) % B
       /\ ip[4] = (n \div Shifted[(4 - 4) * b]) % B
  BY DEF IntToIp, b, B
<1>16. 4 - 1 = 3 /\ 4 - 2 = 2 /\ 4 - 3 = 1 /\ 4 - 4 = 0
  OBVIOUS
<1>17. n \div 1 = n
  BY <1>2
<1>18. ip[1] = q3 /\ ip[2] = r2 /\ ip[3] = r1 /\ ip[4] = r0
  BY <1>1, <1>7, <1>8, <1>14, <1>15, <1>16, <1>17 DEF r2, r1, r0, q1
<1> HIDE DEF ip
<1>19. IpToInt(ip) = ip[1] * B3 + ip[2] * B2 + ip[3] * B + ip[4]
  BY <1>1 DEF IpToInt, b, B
<1>20. IpToInt(ip) = x + y + z + r0
  BY <1>18, <1>19
<1> QED BY <1>12, <1>20 DEF ip

Aligned(n, p) == \E c \in Nat : n = c * Block(p)

LEMMA BlockSize ==
  ASSUME NEW p \in PrefixLengths
  PROVE  Block(p) \in Nat \ {0} /\ Shifted[Width] = Shifted[p] * Block(p) /\ Shifted[p] \in Nat \ {0}
<1>1. Width \in Nat /\ p \in Nat /\ Width - p \in 0 .. Width /\ p + (Width - p) = Width /\ Width <= Width /\ p \in 0 .. Width
  BY SubnetAssumption DEF PrefixLengths
<1>2. Shifted[p + (Width - p)] = Shifted[p] * Shifted[Width - p]
  BY <1>1, ShiftedSum
<1> QED BY <1>1, <1>2, ShiftedEquation DEF Block

(* The longer prefix's block divides the shorter one's.                     *)
LEMMA BlockDivides ==
  ASSUME NEW p \in PrefixLengths, NEW q \in PrefixLengths, p <= q
  PROVE  Block(p) = Shifted[q - p] * Block(q) /\ Shifted[q - p] \in Nat \ {0}
<1>1. Width \in Nat /\ q - p \in 0 .. Width /\ Width - q \in Nat /\ (q - p) + (Width - q) = Width - p
      /\ Width - p <= Width /\ q - p \in Nat
  BY SubnetAssumption DEF PrefixLengths
<1>2. Shifted[(q - p) + (Width - q)] = Shifted[q - p] * Shifted[Width - q]
  BY <1>1, ShiftedSum
<1> QED BY <1>1, <1>2, ShiftedEquation DEF Block

LEMMA AlignedIsMasked ==
  ASSUME NEW p \in PrefixLengths, NEW n, Aligned(n, p)
  PROVE  Masked(n, p) = n /\ n \in Nat
<1> DEFINE B == Block(p)
<1>1. PICK c \in Nat : n = c * B
  BY DEF Aligned
<1>2. B \in Nat \ {0}
  BY BlockSize
<1> HIDE DEF B
<1>3. n \in Nat /\ n = c * B + 0 /\ 0 < B
  BY <1>1, <1>2
<1>4. c = n \div B
  BY <1>2, <1>3, QuotientUnique
<1> QED BY <1>1, <1>3, <1>4 DEF Masked, B

LEMMA AlignedForLonger ==
  ASSUME NEW p \in PrefixLengths, NEW q \in PrefixLengths, p <= q, NEW n, Aligned(n, p)
  PROVE  Aligned(n, q)
<1> DEFINE B == Block(q)
           m == Shifted[q - p]
<1>1. PICK c \in Nat : n = c * Block(p)
  BY DEF Aligned
<1>2. Block(p) = m * B /\ m \in Nat /\ B \in Nat
  BY BlockDivides, BlockSize
<1> HIDE DEF B, m
<1>3. n = (c * m) * B /\ c * m \in Nat
  BY <1>1, <1>2
<1> QED BY <1>3 DEF Aligned, B

LEMMA AlignedAfter ==
  ASSUME NEW p \in PrefixLengths, NEW n, Aligned(n, p)
  PROVE  Aligned(n + Block(p), p)
<1> DEFINE B == Block(p)
<1>1. PICK c \in Nat : n = c * B
  BY DEF Aligned
<1>2. B \in Nat
  BY BlockSize
<1> HIDE DEF B
<1>3. n + B = (c + 1) * B /\ c + 1 \in Nat
  BY <1>1, <1>2
<1> QED BY <1>3 DEF Aligned, B

(* ANDing with the mask: the start of the block that holds the address, and *)
(* of no other.                                                             *)
LEMMA MaskedFacts ==
  ASSUME NEW p \in PrefixLengths, NEW a \in Addresses
  PROVE  /\ Masked(a, p) \in Nat /\ Aligned(Masked(a, p), p)
         /\ Masked(a, p) <= a /\ a <= Masked(a, p) + Block(p) - 1
         /\ Masked(a, p) + Block(p) <= Shifted[Width]
         /\ Masked(a, p) \in Addresses
<1> DEFINE B == Block(p)
           q == a \div B
           r == a % B
           P == Shifted[p]
           m == q * B
           T == P * B
<1>1. Width \in Nat /\ Shifted[Width] \in Nat
  BY SubnetAssumption, ShiftedEquation
<1>2. a \in Nat /\ a < Shifted[Width]
  BY <1>1 DEF Addresses
<1>3. B \in Nat \ {0} /\ P \in Nat \ {0} /\ Shifted[Width] = T
  BY BlockSize
<1>4. Masked(a, p) = m
  BY DEF Masked
<1> HIDE DEF B, P
<1>5. q \in Nat /\ r \in Nat /\ r < B /\ a = m + r
  BY <1>2, <1>3, Quotient
<1> HIDE DEF q, r
<1>6. m \in Nat /\ T \in Nat
  BY <1>3, <1>5
<1>7. P <= q => T <= m
  <2>1. CASE P = q
    BY <1>6, <2>1
  <2>2. CASE P < q
    <3>1. T + B <= m
      BY <1>3, <1>5, <2>2, ProductGap
    <3> HIDE DEF T, m
    <3> QED BY <1>3, <1>6, <3>1
  <2> QED BY <1>3, <1>5, <2>1, <2>2
<1>8. q < P => m + B <= T
  BY <1>3, <1>5, ProductGap
<1>9. Aligned(m, p)
  BY <1>5 DEF Aligned, B
<1> HIDE DEF T, m
<1>10. m + B <= T
  BY <1>2, <1>3, <1>5, <1>6, <1>7, <1>8
<1>11. m <= a /\ a <= m + B - 1 /\ m \in 0 .. T - 1
  BY <1>3, <1>5, <1>6, <1>10
<1> QED BY <1>3, <1>4, <1>6, <1>9, <1>10, <1>11 DEF B, Addresses

LEMMA InBlock ==
  ASSUME NEW p \in PrefixLengths, NEW a \in Addresses, NEW n, Aligned(n, p)
  PROVE  Masked(a, p) = n <=> (n <= a /\ a <= n + Block(p) - 1)
<1> DEFINE B == Block(p)
<1>1. PICK c \in Nat : n = c * B
  BY DEF Aligned
<1>2. B \in Nat \ {0} /\ a \in Nat
  BY BlockSize, SubnetAssumption, ShiftedEquation DEF Addresses
<1>3. Masked(a, p) <= a /\ a <= Masked(a, p) + B - 1
  BY MaskedFacts
<1>4. ASSUME n <= a, a <= n + B - 1 PROVE Masked(a, p) = n
  <2> HIDE DEF B
  <2>1. n \in Nat
    BY <1>1, <1>2
  <2>2. a - n \in Nat /\ a - n < B /\ a = n + (a - n)
    BY <1>2, <1>4, <2>1
  <2>3. a = c * B + (a - n)
    BY <1>1, <2>2
  <2>4. c = a \div B
    <3> DEFINE r == a - n
    <3>1. r \in Nat /\ r < B /\ a = c * B + r
      BY <2>2, <2>3
    <3> HIDE DEF r
    <3> QED BY <1>2, <3>1, QuotientUnique
  <2> QED BY <1>1, <2>4 DEF Masked, B
<1> QED BY <1>3, <1>4

LEMMA SubnetOf ==
  ASSUME NEW p \in PrefixLengths, NEW a \in Addresses
  PROVE  Subnet(IntToIp(a), p) =
           [prefix |-> p, network |-> Masked(a, p), broadcast |-> Masked(a, p) + Block(p) - 1]
BY IpRoundTrip DEF Subnet

(* The number of hosts depends only on the prefix.                          *)
Hosts(p) == IF p >= Width - 1 THEN Block(p) ELSE Block(p) - 2

LEMMA HostsOf ==
  ASSUME NEW p \in PrefixLengths, NEW a \in Addresses
  PROVE  LET t == Subnet(IntToIp(a), p) IN
         /\ UsableHosts(t) = Hosts(p) /\ LastHost(t) - FirstHost(t) + 1 = Hosts(p)
         /\ TotalAddresses(t) = Block(p)
<1> DEFINE t == Subnet(IntToIp(a), p)
           m == Masked(a, p)
           B == Block(p)
<1>1. t = [prefix |-> p, network |-> m, broadcast |-> m + B - 1]
  BY SubnetOf
<1>2. m \in Nat /\ B \in Nat /\ p \in Nat /\ Width \in Nat
  BY MaskedFacts, BlockSize, SubnetAssumption DEF PrefixLengths
<1> HIDE DEF m, B, t
<1>3. t.prefix = p /\ t.network = m /\ t.broadcast = m + B - 1
  BY <1>1
<1>4. TotalAddresses(t) = B
  BY <1>2, <1>3 DEF TotalAddresses
<1>5. PointToPoint(t) <=> p >= Width - 1
  BY <1>3 DEF PointToPoint
<1>6. CASE p >= Width - 1
  BY <1>2, <1>3, <1>4, <1>5, <1>6 DEF UsableHosts, LastHost, FirstHost, Hosts, B, t
<1>7. CASE ~ (p >= Width - 1)
  BY <1>2, <1>3, <1>4, <1>5, <1>7 DEF UsableHosts, LastHost, FirstHost, Hosts, B, t
<1> QED BY <1>6, <1>7

-----------------------------------------------------------------------------
(* vlsm_allocate(): the prefix for a requirement.                           *)

LEMMA MaxExists ==
  ASSUME NEW n \in Nat, NEW S \in SUBSET (0 .. n), S # {}
  PROVE  Max(S) \in S /\ \A y \in S : y <= Max(S)
<1> DEFINE D == {n - x : x \in S}
<1>1. D \subseteq Nat /\ D # {}
  <2>1. \A x \in S : n - x \in Nat
    OBVIOUS
  <2> QED BY <2>1
<1>2. PICK d \in D : \A e \in D : d <= e
  <2> HIDE DEF D
  <2> QED BY <1>1, LeastNumber
<1>3. PICK x \in S : d = n - x
  OBVIOUS
<1>4. \A y \in S : x >= y
  <2> TAKE y \in S
  <2>1. d <= n - y
    BY <1>2
  <2> QED BY <1>3, <2>1
<1>5. Max(S) \in S /\ \A y \in S : Max(S) >= y
  BY <1>4 DEF Max
<1> QED BY <1>5

LEMMA RightPrefixInRange ==
  ASSUME NEW h
  PROVE  /\ RightPrefix(h) \in PrefixLengths
         /\ RightPrefix(h) # 0 => UsableHosts(Subnet(IntToIp(cursor), RightPrefix(h))) >= h
         /\ \A p \in 1 .. Width : UsableHosts(Subnet(IntToIp(cursor), p)) >= h => p <= RightPrefix(h)
<1> DEFINE E == {p \in 1 .. Width : UsableHosts(Subnet(IntToIp(cursor), p)) >= h}
           S == E \cup {0}
<1>1. Width \in Nat
  BY SubnetAssumption
<1>2. S \in SUBSET (0 .. Width) /\ S # {}
  BY <1>1
<1>3. RightPrefix(h) = Max(S)
  BY DEF RightPrefix
<1>4. Max(S) \in S /\ \A y \in S : y <= Max(S)
  <2> HIDE DEF S
  <2> QED BY <1>1, <1>2, MaxExists
<1>5. Max(S) # 0 => Max(S) \in E
  BY <1>4
<1>6. Max(S) \in 0 .. Width
  BY <1>2, <1>4
<1> DEFINE m == Max(S)
<1>7. \A p \in E : p <= m
  BY <1>4
<1> HIDE DEF m
<1> QED BY <1>3, <1>5, <1>6, <1>7 DEF PrefixLengths, m

(* At a cursor within the address space: the longest prefix with enough     *)
(* hosts, and no shorter than one that is known to have enough.             *)
LEMMA RightPrefixFits ==
  ASSUME cursor \in Addresses, NEW h \in Nat, NEW p \in PrefixLengths, Hosts(p) >= h
  PROVE  LET r == RightPrefix(h) IN
         /\ r \in PrefixLengths /\ p <= r
         /\ Hosts(r) >= h
         /\ r < Width => Hosts(r + 1) < h
<1> DEFINE r == RightPrefix(h)
<1>1. Width \in Nat /\ 1 .. Width \subseteq PrefixLengths
  BY SubnetAssumption DEF PrefixLengths
<1>2. \A q \in 1 .. Width : UsableHosts(Subnet(IntToIp(cursor), q)) = Hosts(q)
  BY <1>1, HostsOf
<1>3. /\ r \in PrefixLengths
      /\ r # 0 => UsableHosts(Subnet(IntToIp(cursor), r)) >= h
      /\ \A q \in 1 .. Width : UsableHosts(Subnet(IntToIp(cursor), q)) >= h => q <= r
  BY RightPrefixInRange
<1> HIDE DEF r
<1>4. \A q \in 1 .. Width : Hosts(q) >= h => q <= r
  BY <1>2, <1>3
<1>5. p <= r /\ p \in 0 .. Width /\ r \in 0 .. Width
  BY <1>1, <1>3, <1>4 DEF PrefixLengths
<1>6. Hosts(r) >= h
  <2>1. CASE r = 0
    BY <1>5, <2>1
  <2>2. CASE r # 0
    BY <1>1, <1>2, <1>3, <1>5, <2>2
  <2> QED BY <2>1, <2>2
<1>7. ASSUME r < Width PROVE Hosts(r + 1) < h
  <2>1. r + 1 \in 1 .. Width /\ ~ (r + 1 <= r)
    BY <1>1, <1>5, <1>7
  <2>2. ~ (Hosts(r + 1) >= h)
    BY <1>4, <2>1
  <2>3. Hosts(r + 1) \in Int
    BY <1>1, <2>1, BlockSize DEF Hosts
  <2> QED BY <2>2, <2>3
<1> QED BY <1>3, <1>5, <1>6, <1>7 DEF r

Nets == [prefix : PrefixLengths, network : Nat, broadcast : Int]

LEMMA SubnetType ==
  ASSUME NEW c \in Nat, NEW p \in PrefixLengths
  PROVE  Subnet(IntToIp(c), p) \in Nets
<1> DEFINE ip == IntToIp(c)
           B == Shifted[OctetBits]
           n == IpToInt(ip)
<1>1. /\ OctetBits \in Nat /\ B \in Nat \ {0} /\ Width \in Nat
      /\ Shifted[2 * OctetBits] = B * B /\ Shifted[3 * OctetBits] = B * (B * B)
      /\ Shifted[0 * OctetBits] = 1 /\ Shifted[1 * OctetBits] = B
  BY OctetPowers, SubnetAssumption
<1> HIDE DEF B
<1>2. B * B \in Nat \ {0}
  BY <1>1
<1>3. B * (B * B) \in Nat \ {0}
  <2> DEFINE C == B * B
  <2>1. C \in Nat \ {0}
    BY <1>2
  <2> HIDE DEF C
  <2>2. B * C \in Nat \ {0}
    BY <1>1, <2>1
  <2> QED BY <2>2 DEF C
<1>4. \A k \in 1 .. 4 : Shifted[(4 - k) * OctetBits] \in Nat \ {0}
  <2> TAKE k \in 1 .. 4
  <2>1. 4 - k \in {0, 1, 2, 3}
    OBVIOUS
  <2> QED BY <1>1, <1>2, <1>3, <2>1
<1>5. \A k \in 1 .. 4 : ip[k] \in Nat
  <2> TAKE k \in 1 .. 4
  <2> DEFINE d == c \div Shifted[(4 - k) * OctetBits]
  <2>1. d \in Nat
    BY <1>4, Quotient
  <2>2. ip[k] = d % B
    BY DEF IntToIp, B
  <2> HIDE DEF d, ip
  <2> QED BY <1>1, <2>1, <2>2, Quotient
<1>6. ip[1] \in Nat /\ ip[2] \in Nat /\ ip[3] \in Nat /\ ip[4] \in Nat
  BY <1>5
<1> HIDE DEF ip
<1>7. ip[1] * (B * (B * B)) \in Nat /\ ip[2] * (B * B) \in Nat /\ ip[3] * B \in Nat
  BY <1>1, <1>2, <1>3, <1>6
<1>8. n = ip[1] * (B * (B * B)) + ip[2] * (B * B) + ip[3] * B + ip[4]
  BY <1>1 DEF IpToInt, B
<1>9. n \in Nat
  BY <1>6, <1>7, <1>8
<1> HIDE DEF n
<1> DEFINE C == Block(p)
<1>10. C \in Nat \ {0}
  BY BlockSize
<1>11. Masked(n, p) = (n \div C) * C
  BY DEF Masked
<1> HIDE DEF C
<1>12. Masked(n, p) \in Nat
  BY <1>9, <1>10, <1>11, Quotient
<1>13. Subnet(ip, p) = [prefix |-> p, network |-> Masked(n, p), broadcast |-> Masked(n, p) + C - 1]
  BY DEF Subnet, n, C
<1> QED BY <1>10, <1>12, <1>13 DEF Nets, ip

-----------------------------------------------------------------------------
(* vlsm_allocate(): the invariant.                                          *)

Decreasing(s) == \A j, k \in DOMAIN s : j < k => s[j] >= s[k]

ParentOK ==
  /\ parent \in Nets
  /\ parent.broadcast = parent.network + Block(parent.prefix) - 1
  /\ Aligned(parent.network, parent.prefix)
  /\ parent.network + Block(parent.prefix) <= Shifted[Width]

VlsmTypeOK ==
  /\ vlsm \in {"idle", "allocate", "failed"}
  /\ cursor \in Nat
  /\ reqs \in Seq(Nat) /\ Decreasing(reqs)
  /\ plan \in Seq([hosts : Nat, sub : Nets])
  /\ vlsm = "idle" => plan = << >>

(* The cursor is aligned for a prefix p that has hosts enough for all that  *)
(* is left: the parent's at first, and then that of the last allocation,    *)
(* because what is left is no larger.  It follows all the allocations, as   *)
(* long as it has not wrapped round.                                        *)
CursorOK ==
  /\ parent.network <= cursor /\ cursor \in Addresses
  /\ \A k \in DOMAIN plan : plan[k].sub.broadcast < cursor
  /\ \E p \in PrefixLengths :
       /\ Aligned(cursor, p)
       /\ IF plan = << >> THEN p = parent.prefix ELSE \A k \in DOMAIN reqs : Hosts(p) >= reqs[k]

AllocationOK(k) ==
  LET sub == plan[k].sub IN
  /\ sub.network \in Addresses /\ sub = Subnet(IntToIp(sub.network), sub.prefix)
  /\ sub.broadcast >= sub.network
  /\ parent.network <= sub.network /\ sub.broadcast <= parent.broadcast
  /\ \A j \in 1 .. k - 1 : plan[j].sub.broadcast < sub.network
  /\ Hosts(sub.prefix) >= plan[k].hosts
  /\ sub.prefix < Width => Hosts(sub.prefix + 1) < plan[k].hosts

VlsmInv ==
  /\ ParentOK /\ VlsmTypeOK
  /\ Reasonable /\ vlsm # "idle" =>
       /\ NotWrapped(Len(plan) + 1) => CursorOK
       /\ \A k \in DOMAIN plan : NotWrapped(k) => AllocationOK(k)

LEMMA ParentFrom ==
  ASSUME NEW a \in Addresses, NEW p \in PrefixLengths, NEW t, t = Subnet(IntToIp(a), p)
  PROVE  /\ t \in Nets /\ t.prefix = p /\ t.network = Masked(a, p)
         /\ t.broadcast = t.network + Block(p) - 1
         /\ Aligned(t.network, p) /\ t.network + Block(p) <= Shifted[Width]
         /\ t.network \in Addresses
<1>1. t = [prefix |-> p, network |-> Masked(a, p), broadcast |-> Masked(a, p) + Block(p) - 1]
  BY SubnetOf
<1>2. Block(p) \in Nat
  BY BlockSize
<1> QED BY <1>1, <1>2, MaskedFacts DEF Nets

LEMMA ZeroIsAddress == 0 \in Addresses /\ 0 \in PrefixLengths /\ Addresses \subseteq Nat /\ Shifted[Width] \in Nat \ {0}
BY SubnetAssumption, ShiftedEquation DEF Addresses, PrefixLengths

LEMMA VlsmInitInv == SubnetInit => VlsmInv
<1> SUFFICES ASSUME SubnetInit PROVE VlsmInv
  OBVIOUS
<1>1. ParentOK
  BY ParentFrom, ZeroIsAddress DEF SubnetInit, ParentOK
<1>2. VlsmTypeOK
  BY DEF SubnetInit, VlsmTypeOK, Decreasing
<1> QED BY <1>1, <1>2 DEF VlsmInv, SubnetInit

LEMMA SortedNeeds ==
  ASSUME NEW n \in Nat, NEW needs \in [1 .. n -> Needs], NEW r \in LargestFirst(needs)
  PROVE  r \in Seq(Nat) /\ Decreasing(r)
<1>1. r \in [1 .. n -> Range(needs)] /\ Range(needs) \subseteq Needs /\ Needs \subseteq Nat
  BY SubnetAssumption DEF LargestFirst, Range
<1>2. \A k \in 1 .. n : r[k] \in Nat
  BY <1>1
<1>3. r \in Seq(Nat)
  BY <1>1, <1>2
<1>4. Decreasing(r)
  BY DEF LargestFirst, Decreasing
<1> QED BY <1>3, <1>4

LEMMA CallVlsmInv ==
  ASSUME VlsmInv, NEW a \in Addresses, NEW p \in PrefixLengths, NEW n \in 0 .. MaxNeeds,
         NEW needs \in [1 .. n -> Needs], CallVlsm(a, p, needs)
  PROVE  VlsmInv'
<1>1. /\ vlsm = "idle" /\ parent' = Subnet(IntToIp(a), p) /\ reqs' \in LargestFirst(needs)
      /\ cursor' = parent'.network /\ vlsm' = "allocate" /\ plan' = plan
  BY DEF CallVlsm
<1>2. n \in Nat
  BY SubnetAssumption
<1>3. plan = << >>
  BY <1>1 DEF VlsmInv, VlsmTypeOK
<1>4. /\ parent' \in Nets /\ parent'.prefix = p /\ parent'.network \in Nat /\ parent'.network \in Addresses
      /\ parent'.broadcast = parent'.network + Block(p) - 1
      /\ Aligned(parent'.network, p) /\ parent'.network + Block(p) <= Shifted[Width]
  <2>1. \A t : t = Subnet(IntToIp(a), p) =>
               /\ t \in Nets /\ t.prefix = p /\ t.network \in Addresses
               /\ t.broadcast = t.network + Block(p) - 1
               /\ Aligned(t.network, p) /\ t.network + Block(p) <= Shifted[Width]
    BY ParentFrom
  <2> QED BY <1>1, <2>1, ZeroIsAddress, Zenon
<1>5. ParentOK'
  BY <1>4 DEF ParentOK
<1>6. VlsmTypeOK'
  <2>1. reqs' \in Seq(Nat) /\ Decreasing(reqs')
    BY <1>1, <1>2, SortedNeeds
  <2>2. cursor' \in Nat /\ vlsm' = "allocate"
    BY <1>1, <1>4
  <2>3. plan' \in Seq([hosts : Nat, sub : Nets])
    BY <1>1 DEF VlsmInv, VlsmTypeOK
  <2> QED BY <2>1, <2>2, <2>3 DEF VlsmTypeOK
<1>7. CursorOK'
  <2>1. parent'.network <= cursor' /\ cursor' \in Addresses /\ p \in PrefixLengths
    BY <1>1, <1>4
  <2>2. Aligned(cursor', p) /\ plan' = << >>
    BY <1>1, <1>3, <1>4
  <2> QED BY <1>4, <2>1, <2>2 DEF CursorOK
<1>8. DOMAIN plan' = {}
  BY <1>1, <1>3
<1> QED BY <1>5, <1>6, <1>7, <1>8 DEF VlsmInv

(* One pass of the loop, when the subnet fits: the new subnet begins at the *)
(* cursor itself.                                                           *)
LEMMA AllocateReasonable ==
  ASSUME ParentOK, VlsmTypeOK, CursorOK, reqs # << >>,
         UsableHosts(parent) >= Head(reqs),
         NEW sub, sub = Subnet(IntToIp(cursor), RightPrefix(Head(reqs))), sub.broadcast <= parent.broadcast
  PROVE  /\ sub \in Nets /\ sub.network = cursor /\ cursor \in Addresses
         /\ sub = Subnet(IntToIp(sub.network), sub.prefix)
         /\ sub.broadcast = cursor + Block(sub.prefix) - 1 /\ sub.broadcast >= cursor
         /\ Hosts(sub.prefix) >= Head(reqs) /\ sub.prefix \in PrefixLengths
         /\ sub.prefix < Width => Hosts(sub.prefix + 1) < Head(reqs)
         /\ Aligned(sub.broadcast + 1, sub.prefix)
<1> DEFINE h == Head(reqs)
           r == RightPrefix(h)
<1>1. h \in Nat /\ 1 \in DOMAIN reqs /\ h = reqs[1]
  BY DEF VlsmTypeOK
<1>2. Width \in Nat /\ Shifted[Width] \in Nat /\ parent.network \in Nat /\ cursor \in Nat /\ parent.prefix \in PrefixLengths
  BY SubnetAssumption, ZeroIsAddress DEF ParentOK, Nets, VlsmTypeOK
<1>3. cursor \in Addresses
  BY DEF CursorOK
<1>4. UsableHosts(parent) = Hosts(parent.prefix)
  <2>1. /\ parent.broadcast = parent.network + Block(parent.prefix) - 1
        /\ Block(parent.prefix) \in Nat
    BY <1>2, BlockSize DEF ParentOK
  <2>2. TotalAddresses(parent) = Block(parent.prefix)
    BY <1>2, <2>1 DEF TotalAddresses
  <2> QED BY <2>2 DEF UsableHosts, PointToPoint, Hosts
<1>5. PICK p \in PrefixLengths :
        /\ Aligned(cursor, p)
        /\ IF plan = << >> THEN p = parent.prefix ELSE \A k \in DOMAIN reqs : Hosts(p) >= reqs[k]
  BY DEF CursorOK
<1>6. Hosts(p) >= h
  BY <1>1, <1>4, <1>5
<1>7. r \in PrefixLengths /\ p <= r /\ Hosts(r) >= h /\ (r < Width => Hosts(r + 1) < h)
  BY <1>1, <1>3, <1>5, <1>6, RightPrefixFits
<1>8. p \in PrefixLengths
  BY <1>5
<1> HIDE DEF r, h
<1>9. Aligned(cursor, r)
  BY <1>5, <1>7, <1>8, AlignedForLonger
<1>10. Masked(cursor, r) = cursor
  BY <1>7, <1>9, AlignedIsMasked
<1>11. sub = [prefix |-> r, network |-> cursor, broadcast |-> cursor + Block(r) - 1]
  BY <1>3, <1>7, <1>10, SubnetOf DEF r, h
<1>12. sub.prefix = r /\ sub.network = cursor /\ sub.broadcast = cursor + Block(r) - 1
  BY <1>11
<1>13. Block(r) \in Nat \ {0}
  BY <1>7, BlockSize
<1>14. sub \in Nets
  BY <1>2, <1>7, <1>11, <1>13 DEF Nets
<1>15. sub.broadcast >= cursor /\ sub.broadcast + 1 = cursor + Block(r)
  BY <1>2, <1>12, <1>13
<1>16. Aligned(sub.broadcast + 1, r)
  BY <1>7, <1>9, <1>15, AlignedAfter
<1>17. sub = Subnet(IntToIp(sub.network), sub.prefix)
  BY <1>12 DEF r, h
<1> QED
  BY <1>3, <1>7, <1>8, <1>12, <1>14, <1>15, <1>16, <1>17 DEF h

LEMMA TailDecreases ==
  ASSUME NEW s \in Seq(Nat), s # << >>, Decreasing(s)
  PROVE  /\ Head(s) \in Nat /\ Tail(s) \in Seq(Nat) /\ Decreasing(Tail(s))
         /\ \A k \in DOMAIN Tail(s) : Tail(s)[k] <= Head(s)
<1>1. Len(s) \in Nat \ {0} /\ DOMAIN s = 1 .. Len(s) /\ \A k \in 1 .. Len(s) : s[k] \in Nat
  OBVIOUS
<1>2. Tail(s) \in Seq(Nat) /\ DOMAIN Tail(s) = 1 .. Len(s) - 1 /\ Head(s) = s[1]
  BY <1>1
<1>3. \A k \in 1 .. Len(s) - 1 : Tail(s)[k] = s[k + 1]
  BY <1>1
<1>4. Decreasing(Tail(s))
  <2>1. SUFFICES ASSUME NEW j \in 1 .. Len(s) - 1, NEW k \in 1 .. Len(s) - 1, j < k
                 PROVE  Tail(s)[j] >= Tail(s)[k]
    BY <1>2 DEF Decreasing
  <2>2. j + 1 \in DOMAIN s /\ k + 1 \in DOMAIN s /\ j + 1 < k + 1
    BY <1>1, <2>1
  <2>3. s[j + 1] >= s[k + 1]
    BY <2>2 DEF Decreasing
  <2> QED BY <1>3, <2>3
<1>5. ASSUME NEW k \in 1 .. Len(s) - 1 PROVE Tail(s)[k] <= Head(s)
  <2>1. 1 \in DOMAIN s /\ k + 1 \in DOMAIN s /\ 1 < k + 1
    BY <1>1
  <2>2. s[1] >= s[k + 1] /\ s[1] \in Nat /\ s[k + 1] \in Nat
    BY <1>1, <2>1 DEF Decreasing
  <2> QED BY <1>2, <1>3, <2>2
<1> QED BY <1>1, <1>2, <1>4, <1>5

LEMMA AllocateInv == ASSUME VlsmInv, Allocate PROVE VlsmInv'
<1> DEFINE h == Head(reqs)
           sub == Subnet(IntToIp(cursor), RightPrefix(h))
           e == [hosts |-> h, sub |-> sub]
<1>1. vlsm = "allocate" /\ reqs # << >> /\ parent' = parent
  BY DEF Allocate
<1>2. ParentOK /\ VlsmTypeOK
  BY DEF VlsmInv
<1>3. ParentOK'
  BY <1>1, <1>2 DEF ParentOK
<1>4. CASE sub.broadcast <= parent.broadcast
  <2>1. /\ plan' = Append(plan, e) /\ cursor' = sub.broadcast + 1
        /\ reqs' = Tail(reqs) /\ vlsm' = vlsm
    BY <1>4 DEF Allocate
  <2>2. /\ h \in Nat /\ Tail(reqs) \in Seq(Nat) /\ Decreasing(Tail(reqs))
        /\ \A k \in DOMAIN Tail(reqs) : Tail(reqs)[k] <= h
    BY <1>1, <1>2, TailDecreases DEF VlsmTypeOK
  <2>3. sub \in Nets
    BY <1>2, RightPrefixInRange, SubnetType DEF VlsmTypeOK
  <2>4. cursor' \in Nat
    <3>1. sub.broadcast >= -1
      <4> DEFINE r == RightPrefix(h)
                 m == Masked(IpToInt(IntToIp(cursor)), r)
      <4>1. sub.broadcast = m + Block(r) - 1 /\ sub.network = m
        BY DEF Subnet
      <4>2. m \in Nat
        BY <2>3, <4>1 DEF Nets
      <4>3. Block(r) \in Nat
        BY RightPrefixInRange, BlockSize
      <4> HIDE DEF m, r, sub
      <4> QED BY <4>1, <4>2, <4>3
    <3>2. sub.broadcast \in Int
      BY <2>3 DEF Nets
    <3> QED BY <2>1, <3>1, <3>2
  <2> HIDE DEF sub, h
  <2>5. e \in [hosts : Nat, sub : Nets] /\ e.hosts = h /\ e.sub = sub
    BY <2>2, <2>3
  <2> HIDE DEF e
  <2>9. PICK n \in Nat : n = Len(plan)
    BY <1>2 DEF VlsmTypeOK
  <2>6. /\ plan \in Seq([hosts : Nat, sub : Nets]) /\ n \in Nat /\ DOMAIN plan = 1 .. n
        /\ plan' \in Seq([hosts : Nat, sub : Nets]) /\ DOMAIN plan' = 1 .. n + 1
        /\ plan'[n + 1] = e /\ \A k \in 1 .. n : plan'[k] = plan[k]
    BY <1>2, <2>1, <2>5, <2>9 DEF VlsmTypeOK
  <2>7. VlsmTypeOK'
    BY <1>1, <2>1, <2>2, <2>4, <2>6 DEF VlsmTypeOK
  <2>8. ASSUME Reasonable' PROVE Reasonable /\ UsableHosts(parent) >= h
    <3>1. \A k \in 1 .. n + 1 : UsableHosts(parent) >= plan'[k].hosts
      BY <1>1, <2>6, <2>8 DEF Reasonable
    <3>2. \A k \in 1 .. n : UsableHosts(parent) >= plan[k].hosts
      BY <2>6, <3>1
    <3>3. UsableHosts(parent) >= plan'[n + 1].hosts
      BY <2>6, <3>1
    <3> QED BY <2>5, <2>6, <3>2, <3>3 DEF Reasonable
  <2>10. \A k \in 1 .. n + 1 : NotWrapped(k)' => NotWrapped(k)
    <3> SUFFICES ASSUME NEW k \in 1 .. n + 1, NotWrapped(k)', NEW j \in 1 .. k - 1
                 PROVE  plan[j].sub.broadcast < Shifted[Width] - 1
      BY DEF NotWrapped
    <3>1. j \in 1 .. n
      BY <2>6
    <3> QED BY <2>6, <3>1 DEF NotWrapped
  <2>11. ASSUME Reasonable', NotWrapped(n + 1)
         PROVE  /\ CursorOK' \/ ~ NotWrapped(n + 2)'
                /\ AllocationOK(n + 1)'
    <3>1. Reasonable /\ UsableHosts(parent) >= h
      BY <2>8, <2>11
    <3>2. CursorOK
      BY <1>1, <2>9, <2>11, <3>1 DEF VlsmInv
    <3>3. /\ sub.network = cursor /\ cursor \in Addresses
          /\ sub = Subnet(IntToIp(sub.network), sub.prefix)
          /\ sub.broadcast = cursor + Block(sub.prefix) - 1 /\ sub.broadcast >= cursor
          /\ Hosts(sub.prefix) >= h /\ sub.prefix \in PrefixLengths
          /\ sub.prefix < Width => Hosts(sub.prefix + 1) < h
          /\ Aligned(sub.broadcast + 1, sub.prefix)
      BY <1>1, <1>2, <1>4, <3>1, <3>2, AllocateReasonable DEF sub, h
    <3>4. /\ parent.network \in Nat /\ parent.broadcast \in Int /\ cursor \in Nat /\ sub.broadcast \in Int
          /\ parent.network <= cursor
      BY <1>2, <2>3, <3>2 DEF ParentOK, Nets, VlsmTypeOK, CursorOK
    <3>5. ASSUME NotWrapped(n + 2)' PROVE CursorOK'
      <4>1. parent'.network <= cursor' /\ cursor' \in Addresses
        <5>1. n + 1 \in 1 .. (n + 2) - 1
          BY <2>6
        <5>2. plan'[n + 1].sub.broadcast < Shifted[Width] - 1
          BY <3>5, <5>1 DEF NotWrapped
        <5>3. sub.broadcast < Shifted[Width] - 1 /\ Shifted[Width] \in Nat
          BY <2>5, <2>6, <5>2, ZeroIsAddress
        <5> QED BY <1>1, <2>1, <2>4, <3>3, <3>4, <5>3 DEF Addresses
      <4>5. ASSUME NEW k \in DOMAIN plan' PROVE plan'[k].sub.broadcast < cursor'
        <5>1. CASE k \in 1 .. n
          <6>1. plan[k].sub.broadcast < cursor
            BY <2>6, <3>2, <5>1 DEF CursorOK
          <6>2. plan[k] \in [hosts : Nat, sub : Nets]
            BY <2>6, <5>1, ElementInRange
          <6>3. plan[k].sub.broadcast \in Int
            BY <6>2 DEF Nets
          <6> QED BY <2>1, <2>6, <3>3, <3>4, <5>1, <6>1, <6>3
        <5>2. CASE k = n + 1
          BY <2>1, <2>5, <2>6, <3>4, <5>2
        <5> QED BY <2>6, <5>1, <5>2
      <4>2. plan' # << >>
        BY <2>6
      <4>3. \A k \in DOMAIN reqs' : Hosts(sub.prefix) >= reqs'[k]
        <5> TAKE k \in DOMAIN reqs'
        <5>1. reqs'[k] <= h /\ reqs'[k] \in Nat
          BY <2>1, <2>2, SMTT(30)
        <5>2. Hosts(sub.prefix) \in Int
          <6>1. sub.prefix \in PrefixLengths
            BY <2>3 DEF Nets
          <6> QED BY <6>1, BlockSize DEF Hosts
        <5> QED BY <2>2, <3>3, <5>1, <5>2
      <4>4. Aligned(cursor', sub.prefix)
        BY <2>1, <3>3
      <4> QED BY <3>3, <4>1, <4>2, <4>3, <4>4, <4>5 DEF CursorOK
    <3>7. AllocationOK(n + 1)'
      <4>1. plan'[n + 1].sub = sub /\ plan'[n + 1].hosts = h
        BY <2>5, <2>6
      <4>2. \A j \in 1 .. n : plan'[j].sub.broadcast < sub.network
        BY <2>6, <3>2, <3>3 DEF CursorOK
      <4>3. (n + 1) - 1 = n
        BY <2>6
      <4>4. parent'.network <= sub.network /\ sub.broadcast <= parent'.broadcast
        BY <1>1, <1>4, <3>3, <3>4
      <4>5. sub.network \in Addresses /\ sub.broadcast >= sub.network
        BY <3>3
      <4>6. \A j \in 1 .. (n + 1) - 1 : plan'[j].sub.broadcast < sub.network
        BY <4>2, <4>3
      <4>7. Hosts(sub.prefix) >= h /\ (sub.prefix < Width => Hosts(sub.prefix + 1) < h)
        BY <3>3
      <4>8. sub = Subnet(IntToIp(sub.network), sub.prefix)
        BY <3>3
      <4> DEFINE m == n + 1
      <4>9. plan'[m].sub = sub /\ plan'[m].hosts = h /\ \A j \in 1 .. m - 1 : plan'[j].sub.broadcast < sub.network
        BY <4>1, <4>6
      <4> HIDE DEF m
      <4>10. AllocationOK(m)'
        BY <4>4, <4>5, <4>7, <4>8, <4>9 DEF AllocationOK
      <4> QED BY <4>10 DEF m
    <3> QED BY <3>5, <3>7
  <2>12. ASSUME Reasonable', NEW k \in 1 .. n, NotWrapped(k)' PROVE AllocationOK(k)'
    <3>1. AllocationOK(k)
      BY <1>1, <2>6, <2>8, <2>10, <2>12 DEF VlsmInv
    <3>2. plan'[k] = plan[k] /\ \A j \in 1 .. k - 1 : plan'[j] = plan[j]
      BY <2>6
    <3> QED BY <1>1, <3>1, <3>2 DEF AllocationOK
  <2>13. ASSUME Reasonable', NEW k \in DOMAIN plan', NotWrapped(k)' PROVE AllocationOK(k)'
    <3>1. CASE k \in 1 .. n
      BY <2>12, <2>13, <3>1
    <3>2. CASE k = n + 1
      BY <2>6, <2>10, <2>11, <2>13, <3>2
    <3> QED BY <2>6, <3>1, <3>2
  <2>14. ASSUME Reasonable', NotWrapped(Len(plan) + 1)' PROVE CursorOK'
    <3>1. (Len(plan) + 1)' = n + 2 /\ n + 1 \in 1 .. n + 1
      BY <2>6
    <3>2. NotWrapped(n + 2)'
      BY <2>14, <3>1 DEF NotWrapped
    <3>3. NotWrapped(n + 1)'
      BY <2>6, <3>2 DEF NotWrapped
    <3> QED BY <2>10, <2>11, <2>14, <3>1, <3>2, <3>3
  <2> QED BY <1>3, <2>7, <2>13, <2>14 DEF VlsmInv
<1>5. CASE ~ (sub.broadcast <= parent.broadcast)
  <2>1. vlsm' = "failed" /\ plan' = plan /\ cursor' = cursor /\ reqs' = reqs
    BY <1>5 DEF Allocate
  <2>2. VlsmTypeOK'
    BY <1>2, <2>1 DEF VlsmTypeOK
  <2>3. Reasonable' => Reasonable
    BY <1>1, <2>1 DEF Reasonable
  <2>4. ASSUME Reasonable', NotWrapped(Len(plan) + 1)' PROVE CursorOK'
    <3>1. CursorOK
      BY <1>1, <2>1, <2>3, <2>4 DEF VlsmInv, NotWrapped
    <3> QED BY <1>1, <2>1, <3>1 DEF CursorOK
  <2>5. ASSUME Reasonable', NEW k \in DOMAIN plan', NotWrapped(k)' PROVE AllocationOK(k)'
    <3>1. AllocationOK(k)
      BY <1>1, <2>1, <2>3, <2>5 DEF VlsmInv, NotWrapped
    <3> QED BY <1>1, <2>1, <3>1 DEF AllocationOK
  <2> QED BY <1>3, <2>2, <2>4, <2>5 DEF VlsmInv
<1> QED BY <1>4, <1>5

LEMMA VlsmUnchanged == VlsmInv /\ UNCHANGED vlsmVars => VlsmInv'
<1> SUFFICES ASSUME VlsmInv, UNCHANGED vlsmVars PROVE VlsmInv'
  OBVIOUS
<1>1. parent' = parent /\ reqs' = reqs /\ cursor' = cursor /\ plan' = plan /\ vlsm' = vlsm
  BY DEF vlsmVars
<1>2. ParentOK' /\ VlsmTypeOK'
  BY <1>1 DEF VlsmInv, ParentOK, VlsmTypeOK
<1>3. Reasonable' => Reasonable
  BY <1>1 DEF Reasonable
<1>4. ASSUME Reasonable', vlsm' # "idle", NotWrapped(Len(plan) + 1)' PROVE CursorOK'
  <2>1. CursorOK
    BY <1>1, <1>3, <1>4 DEF VlsmInv, NotWrapped
  <2> QED BY <1>1, <2>1 DEF CursorOK
<1>5. ASSUME Reasonable', vlsm' # "idle", NEW k \in DOMAIN plan', NotWrapped(k)' PROVE AllocationOK(k)'
  <2>1. AllocationOK(k)
    BY <1>1, <1>3, <1>5 DEF VlsmInv, NotWrapped
  <2> QED BY <1>1, <2>1 DEF AllocationOK
<1> QED BY <1>2, <1>4, <1>5 DEF VlsmInv

LEMMA VlsmNextInv == VlsmInv /\ [SubnetNext]_subnetVars => VlsmInv'
<1> SUFFICES ASSUME VlsmInv, [SubnetNext]_subnetVars PROVE VlsmInv'
  OBVIOUS
<1>1. ASSUME NEW a \in RouteIps, NEW p \in PrefixLengths, NEW hop \in Hops, AddRoute(a, p, hop)
      PROVE  VlsmInv'
  BY <1>1, VlsmUnchanged DEF AddRoute
<1>2. CASE UNCHANGED subnetVars
  BY <1>2, VlsmUnchanged DEF subnetVars
<1> QED BY <1>1, <1>2, CallVlsmInv, AllocateInv DEF SubnetNext

LEMMA VlsmIsSound == VlsmInv => VlsmSound
<1> SUFFICES ASSUME VlsmInv, Reasonable, NEW k \in DOMAIN plan, NotWrapped(k)
             PROVE  LET sub == plan[k].sub IN
                    /\ AddressesOf(sub) \subseteq AddressesOf(parent)
                    /\ \A j \in 1 .. k - 1 : Disjoint(plan[j].sub, sub)
                    /\ LastHost(sub) - FirstHost(sub) + 1 >= plan[k].hosts
                    /\ sub.prefix < Width => UsableHosts(Subnet(IntToIp(sub.network), sub.prefix + 1)) < plan[k].hosts
  BY DEF VlsmSound
<1> DEFINE sub == plan[k].sub
<1>1. plan \in Seq([hosts : Nat, sub : Nets]) /\ parent \in Nets /\ plan # << >>
  BY DEF VlsmInv, VlsmTypeOK, ParentOK
<1>2. plan[k] \in [hosts : Nat, sub : Nets]
  BY <1>1, ElementInRange
<1>3. /\ sub \in Nets /\ sub.prefix \in PrefixLengths /\ sub.network \in Nat /\ sub.broadcast \in Int
      /\ parent.network \in Nat /\ parent.broadcast \in Int
  BY <1>1, <1>2 DEF Nets
<1>4. AllocationOK(k)
  BY <1>1 DEF VlsmInv, VlsmTypeOK
<1>5. /\ sub.network \in Addresses /\ sub = Subnet(IntToIp(sub.network), sub.prefix)
      /\ parent.network <= sub.network /\ sub.broadcast <= parent.broadcast
      /\ \A j \in 1 .. k - 1 : plan[j].sub.broadcast < sub.network
      /\ Hosts(sub.prefix) >= plan[k].hosts
      /\ sub.prefix < Width => Hosts(sub.prefix + 1) < plan[k].hosts
  BY <1>4 DEF AllocationOK
<1> HIDE DEF sub
<1>6. AddressesOf(sub) \subseteq AddressesOf(parent)
  BY <1>3, <1>5 DEF AddressesOf
<1>7. \A j \in 1 .. k - 1 : Disjoint(plan[j].sub, sub)
  BY <1>5 DEF Disjoint
<1>8. LastHost(sub) - FirstHost(sub) + 1 = Hosts(sub.prefix)
  BY <1>3, <1>5, HostsOf
<1>9. ASSUME sub.prefix < Width
      PROVE  UsableHosts(Subnet(IntToIp(sub.network), sub.prefix + 1)) < plan[k].hosts
  <2>1. sub.prefix + 1 \in PrefixLengths
    BY <1>3, <1>9, SubnetAssumption DEF PrefixLengths
  <2>2. UsableHosts(Subnet(IntToIp(sub.network), sub.prefix + 1)) = Hosts(sub.prefix + 1)
    BY <1>5, <2>1, HostsOf
  <2> QED BY <1>5, <1>9, <2>2
<1> QED BY <1>5, <1>6, <1>7, <1>8, <1>9 DEF sub

(* split(): the k-th child begins k - 1 blocks after the parent.            *)
LEMMA SplitIsExact ==
  ASSUME ParentOK, NEW p \in parent.prefix + 1 .. Width
  PROVE  LET children == Split(parent, p) IN
         /\ children[1].network = parent.network
         /\ children[Len(children)].broadcast = parent.broadcast
         /\ \A k \in 2 .. Len(children) : children[k].network = children[k - 1].broadcast + 1
<1> DEFINE pp == parent.prefix
           net == parent.network
           B == Block(p)
           m == Shifted[p - pp]
           ch == Split(parent, p)
<1>1. pp \in PrefixLengths /\ net \in Nat /\ Width \in Nat /\ parent.broadcast \in Int
  BY SubnetAssumption DEF ParentOK, Nets
<1>2. p \in PrefixLengths /\ pp <= p
  BY <1>1 DEF PrefixLengths
<1>3. Block(pp) = m * B /\ m \in Nat \ {0} /\ B \in Nat \ {0} /\ Block(pp) \in Nat
  BY <1>1, <1>2, BlockDivides, BlockSize
<1>4. parent.broadcast = net + Block(pp) - 1 /\ net + Block(pp) <= Shifted[Width] /\ Shifted[Width] \in Nat
  BY ZeroIsAddress DEF ParentOK
<1>5. Aligned(net, p)
  BY <1>1, <1>2, AlignedForLonger DEF ParentOK
<1>6. PICK c \in Nat : net = c * B
  BY <1>5 DEF Aligned
<1>7. TotalAddresses(parent) = m * B
  BY <1>1, <1>3, <1>4 DEF TotalAddresses
<1>8. ch = [k \in 1 .. TotalAddresses(parent) \div B |-> Subnet(IntToIp(net + (k - 1) * B), p)]
  BY DEF Split
<1> HIDE DEF pp, net, B, m, ch
<1>9. TotalAddresses(parent) \div B = m
  <2>1. m * B \in Nat /\ m * B = m * B + 0 /\ 0 < B
    BY <1>3
  <2> QED BY <1>3, <1>7, <2>1, QuotientUnique
<1>10. ch = [k \in 1 .. m |-> Subnet(IntToIp(net + (k - 1) * B), p)]
  BY <1>8, <1>9
<1>11. Len(ch) = m /\ 1 \in 1 .. m
  BY <1>3, <1>10
<1>12. ASSUME NEW k \in 1 .. m
       PROVE  ch[k].network = net + (k - 1) * B /\ ch[k].broadcast = net + (k - 1) * B + B - 1
  <2> DEFINE d == (k - 1) * B
             x == net + d
  <2>1. k - 1 \in Nat /\ k - 1 < m /\ k \in Nat
    BY <1>3
  <2>2. d \in Nat
    BY <1>3, <2>1
  <2>3. d + B <= m * B
    BY <1>3, <2>1, ProductGap
  <2>4. x = (c + (k - 1)) * B /\ c + (k - 1) \in Nat
    BY <1>3, <1>6, <2>1
  <2>5. Aligned(x, p)
    BY <2>4 DEF Aligned, B
  <2>6. m * B \in Nat /\ net + m * B <= Shifted[Width]
    BY <1>3, <1>4
  <2>7. x \in Addresses
    <3> DEFINE y == m * B
    <3>1. y \in Nat /\ net + y <= Shifted[Width] /\ d + B <= y
      BY <2>3, <2>6
    <3> HIDE DEF d, y
    <3>2. x \in 0 .. Shifted[Width] - 1
      BY <1>1, <1>3, <1>4, <2>2, <3>1 DEF net
    <3> QED BY <3>2 DEF Addresses
  <2>8. Masked(x, p) = x
    BY <1>2, <2>5, AlignedIsMasked
  <2> HIDE DEF x
  <2>9. ch[k] = [prefix |-> p, network |-> x, broadcast |-> x + B - 1]
    BY <1>2, <1>10, <2>7, <2>8, SubnetOf DEF x, B
  <2> QED BY <2>9 DEF x
<1>13. ch[1].network = net
  <2>1. ch[1].network = net + (1 - 1) * B
    BY <1>11, <1>12
  <2> QED BY <1>1, <1>3, <2>1 DEF net
<1>14. ch[m].broadcast = parent.broadcast
  <2>1. m \in 1 .. m
    BY <1>3
  <2>2. ch[m].broadcast = net + (m - 1) * B + B - 1
    BY <1>12, <2>1
  <2>3. (m - 1) * B + B = m * B /\ (m - 1) * B \in Nat
    BY <1>3
  <2> DEFINE u == (m - 1) * B
             y == m * B
  <2>4. u + B = y /\ u \in Nat /\ y \in Nat /\ ch[m].broadcast = net + u + B - 1 /\ parent.broadcast = net + y - 1
    BY <1>3, <1>4, <2>2, <2>3
  <2> HIDE DEF u, y
  <2> QED BY <1>1, <1>3, <2>4 DEF net
<1>15. ASSUME NEW k \in 2 .. m PROVE ch[k].network = ch[k - 1].broadcast + 1
  <2>1. k \in 1 .. m /\ k - 1 \in 1 .. m /\ k - 2 \in Nat /\ (k - 1) - 1 = k - 2 /\ k - 1 = (k - 2) + 1
    BY <1>3
  <2>2. ch[k].network = net + (k - 1) * B /\ ch[k - 1].broadcast = net + (k - 2) * B + B - 1
    BY <1>12, <2>1
  <2>3. (k - 1) * B = (k - 2) * B + B /\ (k - 2) * B \in Nat
    BY <1>3, <2>1
  <2> DEFINE u == (k - 2) * B
             y == (k - 1) * B
  <2>4. u + B = y /\ u \in Nat /\ y \in Nat /\ ch[k].network = net + y /\ ch[k - 1].broadcast = net + u + B - 1
    BY <1>3, <2>2, <2>3
  <2> HIDE DEF u, y
  <2> QED BY <1>1, <1>3, <2>4 DEF net
<1> QED BY <1>11, <1>13, <1>14, <1>15 DEF ch, net

(* Lines 57-141, Subnet and vlsm_allocate(): for needs that the parent      *)
(* could hold one at a time, the subnets of a plan, up to one that ends     *)
(* with the address space (NotWrapped), are the smallest that suit their    *)
(* needs, lie in the parent and do not overlap, and what split() makes of a *)
(* block covers it without a gap.                                           *)
THEOREM SubnetSafety == SubnetSpec => []SubnetsSound
<1>1. VlsmInv => SubnetsSound
  <2>1. VlsmInv => SplitCovers
    BY SplitIsExact DEF SplitCovers, VlsmInv
  <2> QED BY <2>1, VlsmIsSound DEF SubnetsSound
<1> QED
  BY <1>1, VlsmInitInv, VlsmNextInv, PTL DEF SubnetSpec

-----------------------------------------------------------------------------
(* RoutingTable: lookup().                                                  *)

Routes == [net : Addresses, prefix : PrefixLengths, hop : Hops]
RoutesOK == routes \in Seq(Routes) /\ \A k \in DOMAIN routes : Aligned(routes[k].net, routes[k].prefix)

LEMMA RoutesInitOK == SubnetInit => RoutesOK
BY DEF SubnetInit, RoutesOK

LEMMA RoutesNextOK == RoutesOK /\ [SubnetNext]_subnetVars => RoutesOK'
<1> SUFFICES ASSUME RoutesOK, [SubnetNext]_subnetVars PROVE RoutesOK'
  OBVIOUS
<1>1. ASSUME NEW a \in RouteIps, NEW p \in PrefixLengths, NEW hop \in Hops, AddRoute(a, p, hop)
      PROVE  RoutesOK'
  <2> DEFINE t == Subnet(IntToIp(a), p)
             r == [net |-> t.network, prefix |-> p, hop |-> hop]
  <2>1. a \in Addresses
    BY SubnetAssumption
  <2>2. t.network \in Addresses /\ Aligned(t.network, p)
    BY <2>1, ParentFrom
  <2>3. routes' = Append(routes, r)
    BY <1>1 DEF AddRoute
  <2> HIDE DEF t
  <2>4. r \in Routes /\ r.net = t.network /\ r.prefix = p
    BY <2>2 DEF Routes
  <2> HIDE DEF r
  <2>5. /\ routes' \in Seq(Routes) /\ Len(routes) \in Nat /\ DOMAIN routes = 1 .. Len(routes)
        /\ DOMAIN routes' = 1 .. Len(routes) + 1
        /\ routes'[Len(routes) + 1] = r /\ \A k \in 1 .. Len(routes) : routes'[k] = routes[k]
    BY <2>3, <2>4 DEF RoutesOK
  <2>6. ASSUME NEW k \in DOMAIN routes' PROVE Aligned(routes'[k].net, routes'[k].prefix)
    <3>1. CASE k \in 1 .. Len(routes)
      BY <2>5, <3>1 DEF RoutesOK
    <3>2. CASE k = Len(routes) + 1
      BY <2>2, <2>4, <2>5, <3>2
    <3> QED BY <2>5, <3>1, <3>2
  <2> QED BY <2>5, <2>6 DEF RoutesOK
<1>2. ASSUME NEW a \in Addresses, NEW p \in PrefixLengths, NEW n \in 0 .. MaxNeeds,
             NEW needs \in [1 .. n -> Needs], CallVlsm(a, p, needs)
      PROVE  RoutesOK'
  BY <1>2 DEF CallVlsm, RoutesOK
<1>3. CASE Allocate
  BY <1>3 DEF Allocate, RoutesOK
<1>4. CASE UNCHANGED subnetVars
  BY <1>4 DEF subnetVars, RoutesOK
<1> QED BY <1>1, <1>2, <1>3, <1>4 DEF SubnetNext

(* The loop: the best route after each of them.                             *)
LEMMA LookupLoop ==
  ASSUME RoutesOK, NEW addr \in Addresses
  PROVE  \E b : /\ Lookup(addr) = b[Len(routes)].hop
                /\ b[0] = NoRoute
                /\ \A k \in 1 .. Len(routes) :
                     b[k] = IF Matches(routes[k], addr) /\ Better(routes[k], b[k - 1]) THEN routes[k] ELSE b[k - 1]
<1> DEFINE n == Len(routes)
           V == {NoRoute} \cup {routes[k] : k \in DOMAIN routes}
           Pass(k, v) == IF Matches(routes[k], addr) /\ Better(routes[k], v) THEN routes[k] ELSE v
           step == [x \in (1 .. n) \X V |-> Pass(x[1], x[2])]
           Body(f) == [k \in 0 .. n |-> IF k = 0 THEN NoRoute ELSE Pass(k, f[k - 1])]
<1>1. n \in Nat /\ DOMAIN routes = 1 .. n
  BY DEF RoutesOK
<1>2. \A k \in 1 .. n, v \in V : Pass(k, v) \in V
  BY <1>1
<1> HIDE DEF Pass, V
<1>3. step \in [(1 .. n) \X V -> V] /\ \A k \in 1 .. n, v \in V : step[<<k, v>>] = Pass(k, v)
  BY <1>2
<1>4. NoRoute \in V
  BY DEF V
<1> HIDE DEF step, n
<1>5. PICK f \in [0 .. n -> V] : Solves(f, n, NoRoute, step)
  BY <1>1, <1>3, <1>4, RecursionSolved
<1>6. ASSUME NEW k \in 1 .. n PROVE f[k] = Pass(k, f[k - 1])
  <2>1. f[k] = step[<<k, f[k - 1]>>] /\ k - 1 \in 0 .. n
    BY <1>1, <1>5 DEF Solves
  <2>2. f[k - 1] \in V
    BY <2>1
  <2> QED BY <1>3, <2>1, <2>2
<1>7. \A k \in 0 .. n : f[k] = IF k = 0 THEN NoRoute ELSE Pass(k, f[k - 1])
  BY <1>1, <1>5, <1>6 DEF Solves
<1>8. f = Body(f)
  BY <1>7
<1> DEFINE b == CHOOSE g : g = Body(g)
<1>9. b = Body(b)
  <2> HIDE DEF Body
  <2> QED BY <1>8
<1>10. Lookup(addr) = b[n].hop
  BY DEF Lookup, Pass, n
<1> HIDE DEF b
<1>11. b[0] = NoRoute /\ \A k \in 1 .. n : b[k] = Pass(k, b[k - 1])
  <2>1. \A k \in 0 .. n : b[k] = IF k = 0 THEN NoRoute ELSE Pass(k, b[k - 1])
    <3> HIDE DEF NoRoute
    <3> QED BY <1>9
  <2> QED BY <1>1, <2>1
<1> QED BY <1>10, <1>11 DEF Pass, n

(* After k routes, the best is the first of the longest that match.         *)
FirstLongest(b, k, addr) ==
  IF \A j \in 1 .. k : ~ Matches(routes[j], addr) THEN b = NoRoute
  ELSE \E j \in 1 .. k :
         /\ Matches(routes[j], addr) /\ b = routes[j]
         /\ \A i \in 1 .. k : Matches(routes[i], addr) =>
              routes[i].prefix < routes[j].prefix \/ (routes[i].prefix = routes[j].prefix /\ j <= i)

LEMMA LoopFindsFirstLongest ==
  ASSUME RoutesOK, NEW addr, NEW k \in 1 .. Len(routes), NEW b, NEW c, FirstLongest(b, k - 1, addr),
         c = IF Matches(routes[k], addr) /\ Better(routes[k], b) THEN routes[k] ELSE b
  PROVE  FirstLongest(c, k, addr)
<1>1. Len(routes) \in Nat /\ \A j \in 1 .. Len(routes) : routes[j].prefix \in Nat
  <2>1. \A j \in DOMAIN routes : routes[j] \in Routes
    BY ElementInRange DEF RoutesOK
  <2>2. Len(routes) \in Nat /\ DOMAIN routes = 1 .. Len(routes)
    BY DEF RoutesOK
  <2>3. \A r \in Routes : r.prefix \in Nat
    BY SubnetAssumption DEF Routes, PrefixLengths
  <2> QED BY <2>1, <2>2, <2>3
<1>2. k \in Nat /\ k \in 1 .. k /\ \A j \in 1 .. k : j \in 1 .. Len(routes) /\ (j \in 1 .. k - 1 \/ j = k)
  BY <1>1
<1>3. \A j \in 1 .. k - 1 : j \in 1 .. k
  BY <1>1
<1>4. CASE \A j \in 1 .. k - 1 : ~ Matches(routes[j], addr)
  <2>1. b = NoRoute
    BY <1>4 DEF FirstLongest
  <2>2. Better(routes[k], b)
    BY <1>1, <2>1 DEF Better, NoRoute
  <2>3. CASE Matches(routes[k], addr)
    <3>1. c = routes[k]
      BY <2>2, <2>3
    <3>2. \A i \in 1 .. k : Matches(routes[i], addr) => i = k
      BY <1>2, <1>4
    <3> QED BY <1>2, <2>3, <3>1, <3>2 DEF FirstLongest
  <2>4. CASE ~ Matches(routes[k], addr)
    <3>1. c = NoRoute /\ \A j \in 1 .. k : ~ Matches(routes[j], addr)
      BY <1>2, <1>4, <2>1, <2>4
    <3> QED BY <3>1 DEF FirstLongest
  <2> QED BY <2>3, <2>4
<1>5. CASE \E j \in 1 .. k - 1 : Matches(routes[j], addr)
  <2>1. PICK j \in 1 .. k - 1 :
          /\ Matches(routes[j], addr) /\ b = routes[j]
          /\ \A i \in 1 .. k - 1 : Matches(routes[i], addr) =>
               routes[i].prefix < routes[j].prefix \/ (routes[i].prefix = routes[j].prefix /\ j <= i)
    BY <1>5 DEF FirstLongest
  <2>2. j \in 1 .. k /\ j < k /\ j \in Nat
    BY <1>2, <1>3
  <2>3. Better(routes[k], b) <=> routes[k].prefix > routes[j].prefix
    BY <2>1 DEF Better
  <2>4. CASE Matches(routes[k], addr) /\ Better(routes[k], b)
    <3>1. c = routes[k]
      BY <2>4
    <3>2. ASSUME NEW i \in 1 .. k, Matches(routes[i], addr)
          PROVE  routes[i].prefix < routes[k].prefix \/ (routes[i].prefix = routes[k].prefix /\ k <= i)
      <4>1. CASE i \in 1 .. k - 1
        BY <1>1, <1>2, <2>1, <2>2, <2>3, <2>4, <3>2, <4>1
      <4>2. CASE i = k
        BY <1>2, <4>2
      <4> QED BY <1>2, <4>1, <4>2
    <3> QED BY <1>2, <2>4, <3>1, <3>2 DEF FirstLongest
  <2>5. CASE ~ (Matches(routes[k], addr) /\ Better(routes[k], b))
    <3>1. c = b
      BY <2>5
    <3>2. ASSUME NEW i \in 1 .. k, Matches(routes[i], addr)
          PROVE  routes[i].prefix < routes[j].prefix \/ (routes[i].prefix = routes[j].prefix /\ j <= i)
      <4>1. CASE i \in 1 .. k - 1
        BY <2>1, <3>2, <4>1
      <4>2. CASE i = k
        BY <1>1, <1>2, <2>2, <2>3, <2>5, <3>2, <4>2
      <4> QED BY <1>2, <4>1, <4>2
    <3> QED BY <2>1, <2>2, <3>1, <3>2 DEF FirstLongest
  <2> QED BY <2>4, <2>5
<1> QED BY <1>4, <1>5

LEMMA LookupIsLongest ==
  ASSUME RoutesOK, NEW addr \in Addresses
  PROVE  \E b : Lookup(addr) = b.hop /\ FirstLongest(b, Len(routes), addr)
<1>1. PICK b : /\ Lookup(addr) = b[Len(routes)].hop
               /\ b[0] = NoRoute
               /\ \A k \in 1 .. Len(routes) :
                    b[k] = IF Matches(routes[k], addr) /\ Better(routes[k], b[k - 1]) THEN routes[k] ELSE b[k - 1]
  BY LookupLoop
<1> DEFINE T == {k \in 0 .. Len(routes) : FirstLongest(b[k], k, addr)}
<1>2. Len(routes) \in Nat
  BY DEF RoutesOK
<1>3. 0 \in T
  BY <1>1, <1>2 DEF FirstLongest
<1>4. ASSUME NEW k \in 1 .. Len(routes), k - 1 \in T PROVE k \in T
  <2>1. FirstLongest(b[k - 1], k - 1, addr)
    BY <1>4
  <2>2. b[k] = IF Matches(routes[k], addr) /\ Better(routes[k], b[k - 1]) THEN routes[k] ELSE b[k - 1]
    BY <1>1
  <2>3. FirstLongest(b[k], k, addr)
    BY <2>1, <2>2, LoopFindsFirstLongest
  <2> QED BY <1>2, <2>3
<1> HIDE DEF T
<1>5. \A k \in 0 .. Len(routes) : k \in T
  BY <1>2, <1>3, <1>4, Induction
<1>6. Len(routes) \in T
  BY <1>2, <1>5
<1> QED BY <1>1, <1>6 DEF T

(* A route matches the addresses of its subnet and no others.               *)
LEMMA MatchesItsSubnet ==
  ASSUME RoutesOK, NEW addr \in Addresses, NEW k \in DOMAIN routes
  PROVE  Matches(routes[k], addr) <=> addr \in AddressesOf(Subnet(IntToIp(routes[k].net), routes[k].prefix))
<1> DEFINE p == routes[k].prefix
           n == routes[k].net
           t == Subnet(IntToIp(n), p)
<1>1. routes[k] \in Routes
  BY ElementInRange DEF RoutesOK
<1>2. p \in PrefixLengths /\ n \in Addresses /\ Aligned(n, p) /\ n \in Nat /\ addr \in Nat
  BY <1>1, ZeroIsAddress DEF Routes, RoutesOK
<1> HIDE DEF p, n
<1>3. Masked(n, p) = n /\ Block(p) \in Nat
  BY <1>2, AlignedIsMasked, BlockSize
<1>4. t.network = n /\ t.broadcast = n + Block(p) - 1
  BY <1>2, <1>3, SubnetOf
<1>5. Masked(addr, p) = n <=> (n <= addr /\ addr <= n + Block(p) - 1)
  BY <1>2, InBlock
<1> HIDE DEF t
<1>6. addr \in AddressesOf(t) <=> (n <= addr /\ addr <= n + Block(p) - 1)
  BY <1>2, <1>3, <1>4 DEF AddressesOf
<1> QED BY <1>5, <1>6 DEF Matches, p, n, t

(* Lines 147-164, RoutingTable: whatever routes were added and in which     *)
(* order, lookup() returns the hop of the first of the longest prefixes     *)
(* that match, and None exactly when none does.                             *)
THEOREM RoutingCorrect == SubnetSpec => []LongestPrefixMatch
<1>1. ASSUME RoutesOK PROVE LongestPrefixMatch
  <2>1. SUFFICES ASSUME NEW addr \in Addresses
        PROVE LET matching == {k \in DOMAIN routes : addr \in AddressesOf(Subnet(IntToIp(routes[k].net), routes[k].prefix))}
              IN  IF matching = {} THEN Lookup(addr) = NoHop
                  ELSE \E k \in matching :
                         /\ Lookup(addr) = routes[k].hop
                         /\ \A j \in matching : routes[j].prefix < routes[k].prefix \/ (routes[j].prefix = routes[k].prefix /\ k <= j)
    BY DEF LongestPrefixMatch
  <2> DEFINE M == {k \in DOMAIN routes : addr \in AddressesOf(Subnet(IntToIp(routes[k].net), routes[k].prefix))}
             N == {k \in 1 .. Len(routes) : Matches(routes[k], addr)}
  <2>2. M = N
    <3>1. DOMAIN routes = 1 .. Len(routes)
      BY <1>1 DEF RoutesOK
    <3> QED BY <1>1, <3>1, MatchesItsSubnet
  <2>3. PICK b : Lookup(addr) = b.hop /\ FirstLongest(b, Len(routes), addr)
    BY <1>1, LookupIsLongest
  <2>4. IF N = {} THEN Lookup(addr) = NoHop
        ELSE \E k \in N :
               /\ Lookup(addr) = routes[k].hop
               /\ \A j \in N : routes[j].prefix < routes[k].prefix \/ (routes[j].prefix = routes[k].prefix /\ k <= j)
    <3>1. CASE N = {}
      BY <2>3, <3>1 DEF FirstLongest, NoRoute
    <3>2. CASE N # {}
      <4>1. PICK k \in 1 .. Len(routes) :
              /\ Matches(routes[k], addr) /\ b = routes[k]
              /\ \A i \in 1 .. Len(routes) : Matches(routes[i], addr) =>
                   routes[i].prefix < routes[k].prefix \/ (routes[i].prefix = routes[k].prefix /\ k <= i)
        BY <2>3, <3>2 DEF FirstLongest
      <4> QED BY <2>3, <4>1
    <3> QED BY <3>1, <3>2
  <2> HIDE DEF M, N
  <2> QED BY <2>2, <2>4 DEF M
<1> QED
  BY <1>1, RoutesInitOK, RoutesNextOK, PTL DEF SubnetSpec
=============================================================================
