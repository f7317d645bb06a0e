--------------------------- MODULE MessagesProofs ---------------------------
(***************************************************************************)
(* The two programs that take a message apart: http_client.py, for every   *)
(* content, every way to cut the stream and every end of it, and           *)
(* dns_query.py, for every name, every mixture of labels and pointers in   *)
(* the reply and every place where it is cut off.                          *)
(*                                                                         *)
(* Both invariants say of the bytes not read yet what they are: what comes *)
(* of the answer is the beginning of what the server has to say from here, *)
(* and where the parser stands in the reply the rest of the name is        *)
(* spelled that it wants.                                                  *)
(***************************************************************************)
EXTENDS NetworkProofs, HttpClient, DnsMessage, SequenceTheorems

(* FlattenSeq() is the end of a chain in which each link appends one part.  *)
Chain(f, ss) == f[0] = << >> /\ \A k \in 1 .. Len(ss) : f[k] = f[k - 1] \o ss[k]

LEMMA Flattened ==
  ASSUME NEW S, NEW ss \in Seq(Seq(S))
  PROVE  \E f \in [0 .. Len(ss) -> Seq(S)] : Chain(f, ss) /\ FlattenSeq(ss) = f[Len(ss)]
<1> DEFINE n == Len(ss)
           V == Seq(S)
           step == [x \in (1 .. n) \X V |-> x[2] \o ss[x[1]]]
<1>1. n \in Nat /\ << >> \in V /\ \A k \in 1 .. n : ss[k] \in V
  OBVIOUS
<1>2. \A k \in 1 .. n : \A v \in V : v \o ss[k] \in V
  BY <1>1, ConcatProperties
<1>3. step \in [(1 .. n) \X V -> V]
  BY <1>2
<1>4. \A k \in 1 .. n : \A v \in V : step[<<k, v>>] = v \o ss[k]
  OBVIOUS
<1> HIDE DEF step, V
<1>5. PICK f \in [0 .. n -> V] : Solves(f, n, << >>, step)
  BY <1>1, <1>3, RecursionSolved
<1>6. ASSUME NEW k \in 1 .. n PROVE f[k] = f[k - 1] \o ss[k]
  <2>1. k - 1 \in 0 .. n
    BY <1>1
  <2>2. f[k - 1] \in V
    BY <2>1
  <2> QED BY <1>4, <1>5, <2>2 DEF Solves
<1>7. f[0] = << >>
  BY <1>5 DEF Solves
<1>8. Chain(f, ss)
  BY <1>6, <1>7 DEF Chain
<1>9. CASE n = 0
  <2>1. FlattenSeq(ss) = << >>
    BY <1>9 DEF FlattenSeq
  <2> QED BY <1>7, <1>8, <1>9, <2>1 DEF V
<1>10. CASE n # 0
  <2> DEFINE Body(g) == [i \in 1 .. n |-> IF i = 1 THEN ss[i] ELSE g[i - 1] \o ss[i]]
             h == [i \in 1 .. n |-> f[i]]
             fl == CHOOSE g : g = Body(g)
  <2>1. FlattenSeq(ss) = fl[n]
    BY <1>10 DEF FlattenSeq
  <2>2. f[1] = ss[1]
    <3>1. 1 \in 1 .. n /\ ss[1] \in Seq(S)
      BY <1>1, <1>10 DEF V
    <3>2. \A j, k \in 0 .. n : j + 1 = k => f[k] = f[j] \o ss[k]
      <4> TAKE j, k \in 0 .. n
      <4> HAVE j + 1 = k
      <4>1. k \in 1 .. n /\ j = k - 1
        BY <1>1
      <4> QED BY <1>6, <4>1
    <3>3. f[1] = << >> \o ss[1]
      <4>1. 0 \in 0 .. n /\ 1 \in 0 .. n /\ 0 + 1 = 1
        BY <1>1, <1>10
      <4>2. f[1] = f[0] \o ss[1]
        BY <3>2, <4>1
      <4> QED BY <1>7, <4>2
    <3> QED BY <3>1, <3>3, ConcatEmptySeq
  <2>3. ASSUME NEW i \in 1 .. n PROVE h[i] = IF i = 1 THEN ss[i] ELSE h[i - 1] \o ss[i]
    <3>1. i # 1 => i - 1 \in 1 .. n
      BY <1>1
    <3> QED BY <1>6, <2>2, <3>1
  <2>4. h = Body(h)
    <3> HIDE DEF h
    <3>1. h \in [1 .. n -> {h[i] : i \in 1 .. n}]
      BY DEF h
    <3> QED BY <2>3, <3>1
  <2>5. fl = Body(fl)
    <3> HIDE DEF h, Body
    <3> QED BY <2>4
  <2> HIDE DEF fl, h
  <2>6. \A i \in 1 .. n : fl[i] = IF i = 1 THEN ss[i] ELSE fl[i - 1] \o ss[i]
    <3> QED BY <2>5
  <2> DEFINE T == {k \in 0 .. n : k = 0 \/ fl[k] = f[k]}
  <2>7. 0 \in T
    BY <1>1
  <2>8. ASSUME NEW k \in 1 .. n, k - 1 \in T PROVE k \in T
    <3>1. CASE k = 1
      BY <2>2, <2>6, <3>1
    <3>2. CASE k # 1
      <4>1. k - 1 # 0 /\ fl[k - 1] = f[k - 1]
        BY <2>8, <3>2
      <4>2. fl[k] = fl[k - 1] \o ss[k]
        BY <2>6, <3>2
      <4>3. fl[k] = f[k]
        BY <1>6, <4>1, <4>2
      <4> QED BY <1>1, <4>3
    <3> QED BY <3>1, <3>2
  <2> HIDE DEF T
  <2>9. \A k \in 0 .. n : k \in T
    <3> HIDE DEF n
    <3> QED BY <1>1, <2>7, <2>8, Induction
  <2>10. fl[n] = f[n]
    <3>1. n \in 0 .. n
      BY <1>1
    <3>2. n \in T
      BY <2>9, <3>1
    <3> HIDE DEF n
    <3> QED BY <1>10, <3>2 DEF T
  <2> QED BY <1>8, <2>1, <2>10 DEF V
<1> QED BY <1>9, <1>10

-----------------------------------------------------------------------------
(* Beginnings of sequences.                                                 *)

Begins(s, t) == Len(s) <= Len(t) /\ \A i \in 1 .. Len(s) : s[i] = t[i]

LEMMA BeginsIsPrefix ==
  ASSUME NEW S, NEW s \in Seq(S), NEW t \in Seq(S), Begins(s, t)
  PROVE  IsPrefix(s, t)
<1>1. Len(s) \in Nat /\ Len(t) \in Nat /\ Len(s) <= Len(t)
  BY DEF Begins
<1>2. \A i \in 1 .. Len(s) : s[i] \in S /\ t[i] \in S
  BY <1>1
<1> DEFINE a == SubSeq(s, 1, Len(s))
           b == SubSeq(t, 1, Len(s))
<1>3. a \in Seq(S) /\ Len(a) = Len(s) /\ \A i \in 1 .. Len(s) : a[i] = s[i]
  BY <1>1, <1>2, SubSeqProperties
<1>4. b \in Seq(S) /\ Len(b) = Len(s) /\ \A i \in 1 .. Len(s) : b[i] = t[i]
  BY <1>1, <1>2, SubSeqProperties
<1> HIDE DEF a, b
<1>5. a = b
  BY <1>3, <1>4, SeqEqual DEF Begins
<1> QED BY <1>1, <1>5 DEF IsPrefix, a, b

LEMMA BeginsTransitive ==
  ASSUME NEW S, NEW s \in Seq(S), NEW t \in Seq(S), NEW u \in Seq(S), Begins(s, t), Begins(t, u)
  PROVE  Begins(s, u)
BY DEF Begins

LEMMA BeginsItself ==
  ASSUME NEW S, NEW s \in Seq(S)
  PROVE  Begins(s, s)
BY DEF Begins

(* A beginning of what follows s, behind s.                                 *)
LEMMA BeginsBehind ==
  ASSUME NEW S, NEW s \in Seq(S), NEW t \in Seq(S), NEW u \in Seq(S), Begins(t, u)
  PROVE  Begins(s \o t, s \o u)
<1>1. /\ Len(s) \in Nat /\ Len(t) \in Nat /\ Len(u) \in Nat /\ Len(t) <= Len(u)
      /\ \A i \in 1 .. Len(t) : t[i] = u[i]
  BY DEF Begins
<1>2. /\ Len(s \o t) = Len(s) + Len(t) /\ Len(s \o u) = Len(s) + Len(u)
      /\ \A i \in 1 .. Len(s) + Len(t) : (s \o t)[i] = IF i <= Len(s) THEN s[i] ELSE t[i - Len(s)]
      /\ \A i \in 1 .. Len(s) + Len(u) : (s \o u)[i] = IF i <= Len(s) THEN s[i] ELSE u[i - Len(s)]
  BY ConcatProperties
<1>3. ASSUME NEW i \in 1 .. Len(s) + Len(t) PROVE (s \o t)[i] = (s \o u)[i]
  <2>1. i \in 1 .. Len(s) + Len(u)
    BY <1>1
  <2>2. i > Len(s) => i - Len(s) \in 1 .. Len(t)
    BY <1>1
  <2> QED BY <1>1, <1>2, <2>1, <2>2
<1> QED BY <1>1, <1>2, <1>3 DEF Begins

LEMMA FrontBegins ==
  ASSUME NEW S, NEW s \in Seq(S), NEW t \in Seq(S)
  PROVE  Begins(s, s \o t)
BY ConcatProperties DEF Begins

LEMMA TakenBegins ==
  ASSUME NEW S, NEW s \in Seq(S), NEW n \in 0 .. Len(s)
  PROVE  SubSeq(s, 1, n) \in Seq(S) /\ Len(SubSeq(s, 1, n)) = n /\ Begins(SubSeq(s, 1, n), s)
<1>1. Len(s) \in Nat /\ n \in Nat /\ n <= Len(s) /\ \A i \in 1 .. n : s[i] \in S
  OBVIOUS
<1>2. /\ SubSeq(s, 1, n) \in Seq(S) /\ Len(SubSeq(s, 1, n)) = n
      /\ \A i \in 1 .. n : SubSeq(s, 1, n)[i] = s[i]
  BY <1>1, SubSeqProperties
<1> QED BY <1>1, <1>2 DEF Begins

(* Where two sequences begin the same, they do so piece by piece.           *)
LEMMA SameFront ==
  ASSUME NEW S, NEW s \in Seq(S), NEW t \in Seq(S), NEW u \in Seq(S), Begins(s, u), Begins(t, u),
         Len(s) <= Len(t)
  PROVE  Begins(s, t) /\ (Len(s) = Len(t) => s = t)
<1>1. Begins(s, t)
  BY DEF Begins
<1>2. ASSUME Len(s) = Len(t) PROVE s = t
  BY <1>1, <1>2, SeqEqual DEF Begins
<1> QED BY <1>1, <1>2

(* Every link of a chain begins the last.                                   *)
LEMMA ChainBegins ==
  ASSUME NEW S, NEW ss \in Seq(Seq(S)), NEW f \in [0 .. Len(ss) -> Seq(S)], Chain(f, ss)
  PROVE  \A j \in 0 .. Len(ss) : Begins(f[j], f[Len(ss)])
<1> DEFINE n == Len(ss)
           T == {k \in 0 .. n : \A j \in 0 .. k : Begins(f[j], f[k])}
<1>1. n \in Nat /\ (\A k \in 0 .. n : f[k] \in Seq(S)) /\ (\A k \in 1 .. n : ss[k] \in Seq(S))
  OBVIOUS
<1>2. 0 \in T
  <2>1. Begins(f[0], f[0])
    BY <1>1, BeginsItself
  <2> QED BY <1>1, <2>1
<1>3. ASSUME NEW k \in 1 .. n, k - 1 \in T PROVE k \in T
  <2>1. k - 1 \in 0 .. n /\ k \in 0 .. n /\ f[k - 1] \in Seq(S) /\ f[k] \in Seq(S) /\ ss[k] \in Seq(S)
    BY <1>1
  <2>2. Begins(f[k - 1], f[k])
    <3>1. f[k] = f[k - 1] \o ss[k]
      BY DEF Chain
    <3>2. Begins(f[k - 1], f[k - 1] \o ss[k])
      BY <2>1, FrontBegins
    <3> QED BY <3>1, <3>2
  <2>3. ASSUME NEW j \in 0 .. k PROVE Begins(f[j], f[k])
    <3>1. CASE j = k
      BY <2>1, <3>1, BeginsItself
    <3>2. CASE j # k
      <4>1. j \in 0 .. k - 1 /\ j \in 0 .. n
        BY <1>1, <3>2
      <4>2. Begins(f[j], f[k - 1]) /\ f[j] \in Seq(S)
        BY <1>1, <1>3, <4>1
      <4> QED BY <2>1, <2>2, <4>2, BeginsTransitive
    <3> QED BY <3>1, <3>2
  <2> QED BY <2>1, <2>3
<1> HIDE DEF T
<1>4. \A k \in 0 .. n : k \in T
  <2> HIDE DEF n
  <2> QED BY <1>1, <1>2, <1>3, Induction
<1>5. n \in T
  BY <1>1, <1>4
<1> QED BY <1>5 DEF T

-----------------------------------------------------------------------------
(* http_client.py: the answer as a sequence of bytes.                       *)

Alphabet == STRING \cup {"0", "1", "2", "CR", "LF", "status", "framing"}
Bytes == Seq(Alphabet)

(* What has come, b and then c, is the beginning of a and then r: once all  *)
(* of a is in b, what is behind it in b and c is the beginning of r.        *)
LEMMA Consume ==
  ASSUME NEW b \in Bytes, NEW c \in Bytes, NEW a \in Bytes, NEW r \in Bytes,
         Begins(b \o c, a \o r), Len(a) <= Len(b)
  PROVE  /\ SubSeq(b, 1, Len(a)) = a
         /\ SubSeq(b, Len(a) + 1, Len(b)) \in Bytes
         /\ Begins(SubSeq(b, Len(a) + 1, Len(b)) \o c, r)
         /\ Len(SubSeq(b, Len(a) + 1, Len(b))) = Len(b) - Len(a)
<1>1. Len(a) \in Nat /\ Len(b) \in Nat /\ Len(c) \in Nat /\ Len(r) \in Nat
  BY DEF Bytes
<1>2. /\ b \o c \in Bytes /\ Len(b \o c) = Len(b) + Len(c)
      /\ \A i \in 1 .. Len(b) + Len(c) : (b \o c)[i] = IF i <= Len(b) THEN b[i] ELSE c[i - Len(b)]
  BY ConcatProperties DEF Bytes
<1>3. /\ a \o r \in Bytes /\ Len(a \o r) = Len(a) + Len(r)
      /\ \A i \in 1 .. Len(a) + Len(r) : (a \o r)[i] = IF i <= Len(a) THEN a[i] ELSE r[i - Len(a)]
  BY ConcatProperties DEF Bytes
<1>4. /\ Len(b) + Len(c) <= Len(a) + Len(r)
      /\ \A i \in 1 .. Len(b) + Len(c) : (b \o c)[i] = (a \o r)[i]
  BY <1>2, <1>3 DEF Begins
<1> DEFINE f == SubSeq(b, 1, Len(a))
           d == SubSeq(b, Len(a) + 1, Len(b))
<1>5. f \in Bytes /\ Len(f) = Len(a) /\ \A i \in 1 .. Len(a) : f[i] = b[i]
  <2>1. \A i \in 1 .. Len(a) : b[i] \in Alphabet
    BY <1>1 DEF Bytes
  <2> QED BY <1>1, <2>1, SubSeqProperties DEF Bytes
<1>6. d \in Bytes /\ Len(d) = Len(b) - Len(a) /\ \A i \in 1 .. Len(b) - Len(a) : d[i] = b[Len(a) + i]
  <2>1. \A i \in Len(a) + 1 .. Len(b) : b[i] \in Alphabet
    BY <1>1 DEF Bytes
  <2>2. /\ d \in Bytes /\ Len(d) = IF Len(a) + 1 <= Len(b) THEN Len(b) - (Len(a) + 1) + 1 ELSE 0
        /\ \A i \in 1 .. Len(b) - (Len(a) + 1) + 1 : d[i] = b[Len(a) + 1 + i - 1]
    BY <1>1, <2>1, SubSeqProperties DEF Bytes
  <2> HIDE DEF d
  <2> QED BY <1>1, <2>2
<1> HIDE DEF f, d
<1>7. f = a
  <2>1. ASSUME NEW i \in 1 .. Len(f) PROVE f[i] = a[i]
    <3>1. i \in 1 .. Len(a) /\ i \in 1 .. Len(b) + Len(c) /\ i \in 1 .. Len(a) + Len(r) /\ i <= Len(b)
      BY <1>1, <1>4, <1>5
    <3> QED BY <1>2, <1>3, <1>4, <1>5, <3>1
  <2> QED BY <1>5, <2>1, SeqEqual DEF Bytes
<1>8. /\ d \o c \in Bytes /\ Len(d \o c) = Len(d) + Len(c)
      /\ \A i \in 1 .. Len(d) + Len(c) : (d \o c)[i] = IF i <= Len(d) THEN d[i] ELSE c[i - Len(d)]
  BY <1>6, ConcatProperties DEF Bytes
<1>9. ASSUME NEW i \in 1 .. Len(d \o c) PROVE (d \o c)[i] = r[i]
  <2>1. /\ i \in 1 .. Len(d) + Len(c) /\ Len(a) + i \in 1 .. Len(b) + Len(c)
        /\ Len(a) + i \in 1 .. Len(a) + Len(r) /\ ~ (Len(a) + i <= Len(a)) /\ (Len(a) + i) - Len(a) = i
        /\ (i <= Len(d) <=> Len(a) + i <= Len(b))
        /\ (i <= Len(d) => i \in 1 .. Len(b) - Len(a))
        /\ (Len(a) + i) - Len(b) = i - Len(d)
    <3> DEFINE la == Len(a)
               lb == Len(b)
               lc == Len(c)
               ld == Len(d)
               lr == Len(r)
    <3>1. /\ la \in Nat /\ lb \in Nat /\ lc \in Nat /\ lr \in Nat /\ la <= lb
          /\ ld = lb - la /\ lb + lc <= la + lr /\ i \in 1 .. ld + lc
      BY <1>1, <1>4, <1>6, <1>8
    <3> HIDE DEF la, lb, lc, ld, lr
    <3>2. /\ la + i \in 1 .. lb + lc /\ la + i \in 1 .. la + lr /\ ~ (la + i <= la) /\ (la + i) - la = i
          /\ (i <= ld <=> la + i <= lb) /\ (i <= ld => i \in 1 .. lb - la) /\ (la + i) - lb = i - ld
      BY <3>1
    <3> QED BY <3>1, <3>2 DEF la, lb, lc, ld, lr
  <2>2. (a \o r)[Len(a) + i] = r[i]
    BY <1>3, <2>1
  <2>3. (b \o c)[Len(a) + i] = IF i <= Len(d) THEN d[i] ELSE c[i - Len(d)]
    BY <1>2, <1>6, <2>1
  <2> QED BY <1>4, <1>8, <2>1, <2>2, <2>3
<1>10. Len(d \o c) <= Len(r)
  BY <1>1, <1>4, <1>6, <1>8
<1> QED BY <1>6, <1>7, <1>9, <1>10 DEF Begins, f, d

LEMMA ConsumeAll ==
  ASSUME NEW b \in Bytes, NEW c \in Bytes, NEW a \in Bytes, NEW r \in Bytes,
         b \o c = a \o r, Len(a) <= Len(b)
  PROVE  SubSeq(b, Len(a) + 1, Len(b)) \o c = r
<1>1. a \o r \in Bytes
  BY ConcatProperties DEF Bytes
<1>2. Begins(a \o r, a \o r)
  BY <1>1, BeginsItself DEF Bytes
<1>3. Begins(b \o c, a \o r)
  BY <1>2
<1> DEFINE d == SubSeq(b, Len(a) + 1, Len(b))
<1>4. d \in Bytes /\ Begins(d \o c, r) /\ Len(d) = Len(b) - Len(a)
  BY <1>3, Consume
<1>5. Len(a) \in Nat /\ Len(b) \in Nat /\ Len(c) \in Nat /\ Len(r) \in Nat
  BY DEF Bytes
<1> HIDE DEF d
<1>6. Len(b \o c) = Len(b) + Len(c)
  BY ConcatProperties DEF Bytes
<1>7. Len(a \o r) = Len(a) + Len(r)
  BY ConcatProperties DEF Bytes
<1>8. d \o c \in Bytes /\ Len(d \o c) = Len(d) + Len(c)
  BY <1>4, ConcatProperties DEF Bytes
<1>9. Len(d \o c) = Len(r)
  BY <1>4, <1>5, <1>6, <1>7, <1>8
<1>10. d \o c = r
  BY <1>4, <1>8, <1>9, SeqEqual DEF Begins, Bytes
<1> QED BY <1>10 DEF d

(* The content after k pieces, and the chunked answer from the k-th on.     *)
NumPieces == Len(Pieces)
SizeLine(d) == <<d>> \o Crlf
Trailer == SizeLine("0") \o Crlf

IsSoFar(f) == Chain(f, Pieces) /\ Content = f[NumPieces]
SoFar == CHOOSE f \in [0 .. NumPieces -> Bytes] : IsSoFar(f)

IsToCome(f) ==
  /\ f[NumPieces] = Trailer
  /\ \A k \in 1 .. NumPieces : f[k - 1] = Chunk(Pieces[k]) \o f[k]
  /\ Answer("chunked") = Headers("chunked") \o f[0]
ToCome == CHOOSE f \in [0 .. NumPieces -> Bytes] : IsToCome(f)

LEMMA PieceFacts ==
  /\ NumPieces \in Nat
  /\ \A k \in 1 .. NumPieces : Pieces[k] \in Bytes /\ Len(Pieces[k]) \in {1, 2}
<1>1. /\ Pieces \in Seq(Seq(STRING)) /\ DOMAIN Pieces = 1 .. Len(Pieces) /\ Len(Pieces) \in Nat
      /\ \A k \in DOMAIN Pieces : Len(Pieces[k]) \in {1, 2}
  BY HttpAssumption
<1>2. ASSUME NEW k \in 1 .. Len(Pieces) PROVE Pieces[k] \in Seq(Alphabet)
  <2>1. Pieces[k] \in Seq(STRING) /\ STRING \subseteq Alphabet
    BY <1>1 DEF Alphabet
  <2> QED BY <2>1, SeqMonotonic
<1> QED BY <1>1, <1>2 DEF NumPieces, Bytes

LEMMA PiecesType == Pieces \in Seq(Bytes) /\ DOMAIN Pieces = 1 .. NumPieces
<1>1. Pieces \in [1 .. NumPieces -> Bytes] /\ NumPieces \in Nat /\ DOMAIN Pieces = 1 .. NumPieces
  BY HttpAssumption, PieceFacts DEF NumPieces
<1> QED BY <1>1

(* The elements of two sequences joined.                                    *)
LEMMA Joined ==
  ASSUME NEW s \in Bytes, NEW t \in Bytes
  PROVE  /\ s \o t \in Bytes /\ Len(s \o t) = Len(s) + Len(t)
         /\ \A i \in 1 .. Len(s) : (s \o t)[i] = s[i]
         /\ \A i \in 1 .. Len(t) : (s \o t)[Len(s) + i] = t[i]
<1>1. /\ s \o t \in Bytes /\ Len(s \o t) = Len(s) + Len(t)
      /\ \A i \in 1 .. Len(s) + Len(t) : (s \o t)[i] = IF i <= Len(s) THEN s[i] ELSE t[i - Len(s)]
  BY ConcatProperties DEF Bytes
<1>2. Len(s) \in Nat /\ Len(t) \in Nat
  BY DEF Bytes
<1>3. ASSUME NEW i \in 1 .. Len(t) PROVE (s \o t)[Len(s) + i] = t[i]
  <2>1. Len(s) + i \in 1 .. Len(s) + Len(t) /\ ~ (Len(s) + i <= Len(s)) /\ (Len(s) + i) - Len(s) = i
    BY <1>2
  <2> QED BY <1>1, <2>1
<1>4. \A i \in 1 .. Len(s) : (s \o t)[i] = s[i]
  BY <1>1, <1>2
<1> QED BY <1>1, <1>3, <1>4

LEMMA JoinedType ==
  ASSUME NEW s \in Bytes, NEW t \in Bytes
  PROVE  s \o t \in Bytes
BY Joined

LEMMA Associative ==
  ASSUME NEW s \in Bytes, NEW t \in Bytes, NEW u \in Bytes
  PROVE  (s \o t) \o u = s \o (t \o u)
BY ConcatAssociative, SMTT(30) DEF Bytes

LEMMA CrlfFacts == Crlf \in Bytes /\ Len(Crlf) = 2 /\ Crlf[1] = "CR" /\ Crlf[2] = "LF"
<1>1. "CR" \in Alphabet /\ "LF" \in Alphabet
  BY DEF Alphabet
<1> HIDE DEF Alphabet
<1> QED BY <1>1 DEF Crlf, Bytes

LEMMA SizeLineFacts ==
  ASSUME NEW d \in Alphabet
  PROVE  /\ SizeLine(d) \in Bytes /\ Len(SizeLine(d)) = 3
         /\ SizeLine(d)[1] = d /\ SizeLine(d)[2] = "CR" /\ SizeLine(d)[3] = "LF"
<1> DEFINE s == <<d>>
<1>1. s \in Bytes /\ Len(s) = 1 /\ s[1] = d
  BY DEF Bytes
<1>2. SizeLine(d) = s \o Crlf
  BY DEF SizeLine
<1> HIDE DEF s
<1>3. /\ s \o Crlf \in Bytes /\ Len(s \o Crlf) = Len(s) + Len(Crlf)
      /\ \A i \in 1 .. Len(s) : (s \o Crlf)[i] = s[i]
      /\ \A i \in 1 .. Len(Crlf) : (s \o Crlf)[Len(s) + i] = Crlf[i]
  BY <1>1, CrlfFacts, Joined
<1>4. (s \o Crlf)[1] = d /\ (s \o Crlf)[1 + 1] = "CR" /\ (s \o Crlf)[1 + 2] = "LF"
  BY <1>1, <1>3, CrlfFacts
<1> QED BY <1>1, <1>2, <1>3, <1>4, CrlfFacts

LEMMA TrailerFacts ==
  /\ Trailer \in Bytes /\ Len(Trailer) = 5
  /\ Trailer[1] = "0" /\ Trailer[2] = "CR" /\ Trailer[3] = "LF"
<1> DEFINE s == SizeLine("0")
<1>1. "0" \in Alphabet
  BY DEF Alphabet
<1>2. s \in Bytes /\ Len(s) = 3 /\ s[1] = "0" /\ s[2] = "CR" /\ s[3] = "LF"
  BY <1>1, SizeLineFacts
<1>3. Trailer = s \o Crlf
  BY DEF Trailer
<1> HIDE DEF s
<1>4. /\ s \o Crlf \in Bytes /\ Len(s \o Crlf) = Len(s) + Len(Crlf)
      /\ \A i \in 1 .. Len(s) : (s \o Crlf)[i] = s[i]
  BY <1>2, CrlfFacts, Joined
<1> QED BY <1>2, <1>3, <1>4, CrlfFacts

LEMMA SoFarFacts ==
  /\ SoFar \in [0 .. NumPieces -> Bytes]
  /\ SoFar[0] = << >> /\ \A k \in 1 .. NumPieces : SoFar[k] = SoFar[k - 1] \o Pieces[k]
  /\ Content = SoFar[NumPieces] /\ Content \in Bytes
<1>1. \E f \in [0 .. NumPieces -> Bytes] : IsSoFar(f)
  BY PiecesType, Flattened DEF IsSoFar, Content, NumPieces, Bytes
<1>2. SoFar \in [0 .. NumPieces -> Bytes] /\ IsSoFar(SoFar)
  BY <1>1 DEF SoFar
<1>3. NumPieces \in 0 .. NumPieces
  BY PieceFacts
<1> QED BY <1>2, <1>3 DEF IsSoFar, Chain, NumPieces

LEMMA SoFarBegins ==
  ASSUME NEW k \in 0 .. NumPieces
  PROVE  Begins(SoFar[k], Content)
<1>1. \A j \in 1 .. NumPieces : SoFar[j] = SoFar[j - 1] \o Pieces[j]
  BY SoFarFacts
<1>2. Pieces \in Seq(Seq(Alphabet)) /\ SoFar \in [0 .. Len(Pieces) -> Seq(Alphabet)] /\ Chain(SoFar, Pieces)
  BY <1>1, PiecesType, SoFarFacts DEF Chain, NumPieces, Bytes
<1>3. \A j \in 0 .. Len(Pieces) : Begins(SoFar[j], SoFar[Len(Pieces)])
  BY <1>2, ChainBegins
<1> QED BY <1>3, SoFarFacts DEF NumPieces

(* What a chunk looks like on the wire.                                     *)
LEMMA ChunkShape ==
  ASSUME NEW k \in 1 .. NumPieces
  PROVE  \E d \in Alphabet :
           /\ d # "CR" /\ d \in DOMAIN Size /\ Size[d] = Len(Pieces[k])
           /\ Chunk(Pieces[k]) = SizeLine(d) \o (Pieces[k] \o Crlf)
           /\ Chunk(Pieces[k]) \in Bytes
<1> DEFINE d == Digit(Len(Pieces[k]))
           s == Pieces[k]
<1>1. s \in Bytes /\ Len(s) \in {1, 2}
  BY PieceFacts
<1>2. d \in {"0", "1", "2"} /\ Size[d] = Len(s)
  <2>1. Size["1"] = 1 /\ Size["2"] = 2
    BY DEF Size
  <2>2. \E b \in {"0", "1", "2"} : Size[b] = Len(s)
    BY <1>1, <2>1
  <2>3. DOMAIN Size = {"0", "1", "2"}
    BY DEF Size
  <2> QED BY <2>2, <2>3 DEF Digit
<1> HIDE DEF d
<1>3. d \in Alphabet /\ d # "CR" /\ d \in DOMAIN Size
  BY <1>2 DEF Size, Alphabet
<1>4. Chunk(s) = (SizeLine(d) \o s) \o Crlf
  BY DEF Chunk, d, SizeLine
<1> HIDE DEF s
<1>5. Chunk(s) = SizeLine(d) \o (s \o Crlf)
  <2>1. SizeLine(d) \in Bytes /\ Crlf \in Bytes
    BY <1>3, SizeLineFacts, CrlfFacts
  <2>2. (SizeLine(d) \o s) \o Crlf = SizeLine(d) \o (s \o Crlf)
    BY <1>1, <2>1, Associative
  <2> QED BY <1>4, <2>2
<1>6. s \o Crlf \in Bytes
  BY <1>1, CrlfFacts, JoinedType
<1>7. Chunk(s) \in Bytes
  <2>1. SizeLine(d) \in Bytes
    BY <1>3, SizeLineFacts
  <2>2. SizeLine(d) \o (s \o Crlf) \in Bytes
    BY <1>6, <2>1, JoinedType
  <2> QED BY <1>5, <2>2
<1> QED BY <1>2, <1>3, <1>5, <1>7 DEF s

LEMMA HeaderShape ==
  /\ \A kind \in Kinds : Headers(kind) \in Bytes
  /\ Len(Headers("close")) = 5
  /\ LET h == Headers("close") IN
       h[1] = "status" /\ h[2] = "CR" /\ h[3] = "LF" /\ h[4] = "CR" /\ h[5] = "LF"
  /\ \A kind \in {"chunked", "length"} :
       /\ Len(Headers(kind)) = 8
       /\ LET h == Headers(kind) IN
            /\ h[1] = "status" /\ h[2] = "CR" /\ h[3] = "LF" /\ h[4] = "framing"
            /\ h[5] = "CR" /\ h[6] = "LF" /\ h[7] = "CR" /\ h[8] = "LF"
<1> DEFINE a == SizeLine("status")
           m == SizeLine("framing")
<1>1. "status" \in Alphabet /\ "framing" \in Alphabet
  BY DEF Alphabet
<1>2. a \in Bytes /\ Len(a) = 3 /\ a[1] = "status" /\ a[2] = "CR" /\ a[3] = "LF"
  BY <1>1, SizeLineFacts
<1>3. m \in Bytes /\ Len(m) = 3 /\ m[1] = "framing" /\ m[2] = "CR" /\ m[3] = "LF"
  BY <1>1, SizeLineFacts
<1>4. /\ Headers("close") = (a \o << >>) \o Crlf
      /\ \A kind \in {"chunked", "length"} : Headers(kind) = (a \o m) \o Crlf
  BY DEF Headers, SizeLine
<1> HIDE DEF a, m
<1>5. a \o << >> = a
  BY <1>2, ConcatEmptySeq DEF Bytes
<1> DEFINE h == a \o Crlf
           am == a \o m
           g == am \o Crlf
<1>6. /\ h \in Bytes /\ Len(h) = Len(a) + Len(Crlf)
      /\ \A i \in 1 .. Len(a) : h[i] = a[i]
      /\ \A i \in 1 .. Len(Crlf) : h[Len(a) + i] = Crlf[i]
  BY <1>2, CrlfFacts, Joined
<1>7. /\ am \in Bytes /\ Len(am) = Len(a) + Len(m)
      /\ \A i \in 1 .. Len(a) : am[i] = a[i]
      /\ \A i \in 1 .. Len(m) : am[Len(a) + i] = m[i]
  BY <1>2, <1>3, Joined
<1> HIDE DEF am
<1>8. /\ g \in Bytes /\ Len(g) = Len(am) + Len(Crlf)
      /\ \A i \in 1 .. Len(am) : g[i] = am[i]
      /\ \A i \in 1 .. Len(Crlf) : g[Len(am) + i] = Crlf[i]
  BY <1>7, CrlfFacts, Joined
<1> HIDE DEF h, g
<1>9. h[1] = "status" /\ h[2] = "CR" /\ h[3] = "LF" /\ h[3 + 1] = "CR" /\ h[3 + 2] = "LF"
  BY <1>2, <1>6, CrlfFacts
<1>10. /\ am[1] = "status" /\ am[2] = "CR" /\ am[3] = "LF"
       /\ am[3 + 1] = "framing" /\ am[3 + 2] = "CR" /\ am[3 + 3] = "LF"
  BY <1>2, <1>3, <1>7
<1>11. /\ g[1] = am[1] /\ g[2] = am[2] /\ g[3] = am[3] /\ g[4] = am[4] /\ g[5] = am[5] /\ g[6] = am[6]
       /\ g[6 + 1] = "CR" /\ g[6 + 2] = "LF" /\ Len(g) = 6 + 2
  <2>1. Len(am) = 6
    BY <1>2, <1>3, <1>7
  <2> QED BY <1>8, <2>1, CrlfFacts
<1>12. Headers("close") = h /\ \A kind \in {"chunked", "length"} : Headers(kind) = g
  BY <1>4, <1>5 DEF h, g, am
<1>13. /\ h[4] = "CR" /\ h[5] = "LF" /\ Len(h) = 5
  BY <1>2, <1>6, <1>9, CrlfFacts
<1>14. /\ g[1] = "status" /\ g[2] = "CR" /\ g[3] = "LF" /\ g[4] = "framing"
       /\ g[5] = "CR" /\ g[6] = "LF" /\ g[7] = "CR" /\ g[8] = "LF" /\ Len(g) = 8
  BY <1>10, <1>11
<1> QED BY <1>6, <1>8, <1>9, <1>12, <1>13, <1>14 DEF Kinds

LEMMA ToComeFacts ==
  /\ ToCome \in [0 .. NumPieces -> Bytes]
  /\ ToCome[NumPieces] = Trailer
  /\ \A k \in 1 .. NumPieces : ToCome[k - 1] = Chunk(Pieces[k]) \o ToCome[k]
  /\ Answer("chunked") = Headers("chunked") \o ToCome[0]
<1> DEFINE n == NumPieces
           C(k) == Chunk(Pieces[k])
           step == [x \in (1 .. n) \X Bytes |-> C((n + 1) - x[1]) \o x[2]]
           cs == [k \in DOMAIN Pieces |-> Chunk(Pieces[k])]
<1>1. n \in Nat /\ Trailer \in Bytes
  BY PieceFacts, TrailerFacts
<1>2. \A k \in 1 .. n : C(k) \in Bytes
  BY ChunkShape
<1>3. cs \in Seq(Bytes) /\ Len(cs) = n /\ \A k \in 1 .. n : cs[k] = C(k)
  BY <1>1, <1>2, PiecesType
<1> HIDE DEF C
<1>4. ASSUME NEW k \in 1 .. n, NEW v \in Bytes PROVE C((n + 1) - k) \o v \in Bytes
  <2>1. (n + 1) - k \in 1 .. n
    BY <1>1
  <2> QED BY <1>2, <2>1, ConcatProperties DEF Bytes
<1>5. step \in [(1 .. n) \X Bytes -> Bytes]
  BY <1>4
<1>6. \A k \in 1 .. n, v \in Bytes : step[<<k, v>>] = C((n + 1) - k) \o v
  OBVIOUS
<1> HIDE DEF step, cs
<1>7. PICK g \in [0 .. n -> Bytes] : Solves(g, n, Trailer, step)
  BY <1>1, <1>5, RecursionSolved
<1>8. ASSUME NEW k \in 1 .. n PROVE g[k] = C((n + 1) - k) \o g[k - 1]
  <2>1. k - 1 \in 0 .. n
    BY <1>1
  <2> QED BY <1>6, <1>7, <2>1 DEF Solves
<1> DEFINE f == [k \in 0 .. n |-> g[n - k]]
<1>9. f \in [0 .. n -> Bytes]
  <2>1. \A k \in 0 .. n : n - k \in 0 .. n
    BY <1>1
  <2> QED BY <2>1
<1>10. f[n] = Trailer
  <2>1. n \in 0 .. n /\ n - n = 0
    BY <1>1
  <2> QED BY <1>7, <2>1 DEF Solves
<1>11. ASSUME NEW k \in 1 .. n PROVE f[k - 1] = C(k) \o f[k]
  <2>1. /\ (n + 1) - k \in 1 .. n /\ (n + 1) - ((n + 1) - k) = k /\ ((n + 1) - k) - 1 = n - k
        /\ n - (k - 1) = (n + 1) - k /\ k \in 0 .. n /\ k - 1 \in 0 .. n
    BY <1>1
  <2> QED BY <1>8, <2>1
<1> HIDE DEF f
<1>12. Answer("chunked") = Headers("chunked") \o f[0]
  <2>1. PICK h \in [0 .. n -> Bytes] : Chain(h, cs) /\ FlattenSeq(cs) = h[n]
    BY <1>3, Flattened DEF Bytes
  <2> DEFINE T == {k \in 0 .. n : h[k] \o f[k] = f[0]}
  <2>2. 0 \in T
    <3>1. h[0] = << >> /\ f[0] \in Bytes /\ 0 \in 0 .. n
      BY <1>1, <1>9, <2>1 DEF Chain
    <3> QED BY <3>1, ConcatEmptySeq DEF Bytes
  <2>3. ASSUME NEW k \in 1 .. n, k - 1 \in T PROVE k \in T
    <3>1. k \in 0 .. n /\ k - 1 \in 0 .. n
      BY <1>1
    <3>2. h[k] = h[k - 1] \o C(k)
      BY <1>3, <2>1 DEF Chain
    <3>3. h[k - 1] \in Bytes /\ f[k] \in Bytes /\ C(k) \in Bytes
      BY <1>2, <1>9, <3>1
    <3>4. h[k] \o f[k] = h[k - 1] \o (C(k) \o f[k])
      <4>1. (h[k - 1] \o C(k)) \o f[k] = h[k - 1] \o (C(k) \o f[k])
        BY <3>3, Associative
      <4> QED BY <3>2, <4>1
    <3>5. h[k - 1] \o f[k - 1] = f[0]
      BY <2>3
    <3>6. h[k] \o f[k] = f[0]
      BY <1>11, <3>4, <3>5
    <3> QED BY <3>1, <3>6
  <2> HIDE DEF T
  <2>4. n \in T
    <3>1. \A k \in 0 .. n : k \in T
      BY <1>1, <2>2, <2>3, Induction
    <3> QED BY <1>1, <3>1
  <2>5. h[n] \o Trailer = f[0]
    BY <1>10, <2>4 DEF T
  <2>6. h[n] \in Bytes /\ SizeLine("0") \in Bytes /\ <<"0">> \in Bytes
    <3>1. n \in 0 .. n /\ "0" \in Alphabet
      BY <1>1 DEF Alphabet
    <3> QED BY <2>1, <3>1, SizeLineFacts DEF Bytes
  <2>7. ((h[n] \o <<"0">>) \o Crlf) \o Crlf = h[n] \o Trailer
    <3>1. (h[n] \o <<"0">>) \o Crlf = h[n] \o (<<"0">> \o Crlf)
      BY <2>6, CrlfFacts, Associative, ZenonT(30)
    <3>2. (h[n] \o SizeLine("0")) \o Crlf = h[n] \o (SizeLine("0") \o Crlf)
      BY <2>6, CrlfFacts, Associative, ZenonT(30)
    <3> QED BY <3>1, <3>2 DEF SizeLine, Trailer
  <2>8. Answer("chunked") = Headers("chunked") \o (((h[n] \o <<"0">>) \o Crlf) \o Crlf)
    BY <2>1 DEF Answer, cs
  <2> QED BY <2>5, <2>7, <2>8
<1>13. IsToCome(f)
  BY <1>10, <1>11, <1>12 DEF IsToCome, C
<1>14. ToCome \in [0 .. NumPieces -> Bytes] /\ IsToCome(ToCome)
  BY <1>9, <1>13 DEF ToCome
<1> QED BY <1>14 DEF IsToCome

AnswerBody(kind) == IF kind = "chunked" THEN ToCome[0] ELSE Content

LEMMA AnswerShape ==
  ASSUME NEW kind \in Kinds
  PROVE  /\ AnswerBody(kind) \in Bytes /\ Answer(kind) \in Bytes
         /\ Answer(kind) = Headers(kind) \o AnswerBody(kind)
<1>1. AnswerBody(kind) \in Bytes
  <2>1. 0 \in 0 .. NumPieces
    BY PieceFacts
  <2> QED BY <2>1, ToComeFacts, SoFarFacts DEF AnswerBody
<1>2. Answer(kind) = Headers(kind) \o AnswerBody(kind)
  <2>1. CASE kind = "chunked"
    BY <2>1, ToComeFacts DEF AnswerBody
  <2>2. CASE kind # "chunked"
    BY <2>2 DEF AnswerBody, Answer
  <2> QED BY <2>1, <2>2
<1>3. Headers(kind) \in Bytes
  BY HeaderShape
<1>4. Headers(kind) \o AnswerBody(kind) \in Bytes
  BY <1>1, <1>3, JoinedType
<1> QED BY <1>1, <1>2, <1>4

-----------------------------------------------------------------------------
(* http_client.py: bytes.find(), and what follows what it finds.            *)

LEMMA PlaceIff ==
  ASSUME buf \in Bytes, NEW m \in Bytes, Len(m) > 0, NEW k \in Int
  PROVE  k \in Places(m) <=> /\ 1 <= k /\ k + Len(m) - 1 <= Len(buf)
                             /\ \A j \in 1 .. Len(m) : buf[k + j - 1] = m[j]
<1>1. Len(buf) \in Nat /\ Len(m) \in Nat
  BY DEF Bytes
<1>2. k \in Places(m) <=> k \in 1 .. Len(buf) - Len(m) + 1 /\ SubSeq(buf, k, k + Len(m) - 1) = m
  BY DEF Places
<1>3. ASSUME 1 <= k, k + Len(m) - 1 <= Len(buf)
      PROVE  SubSeq(buf, k, k + Len(m) - 1) = m <=> \A j \in 1 .. Len(m) : buf[k + j - 1] = m[j]
  <2> DEFINE s == SubSeq(buf, k, k + Len(m) - 1)
             l == k + Len(m) - 1
  <2>1. l \in Int /\ l - k + 1 = Len(m) /\ k <= l
    BY <1>1
  <2>2. \A i \in k .. l : buf[i] \in Alphabet
    <3>1. \A i \in 1 .. Len(buf) : buf[i] \in Alphabet
      BY DEF Bytes
    <3>2. \A i \in k .. l : i \in 1 .. Len(buf)
      BY <1>1, <1>3
    <3> QED BY <3>1, <3>2
  <2>3. /\ s \in Seq(Alphabet) /\ Len(s) = IF k <= l THEN l - k + 1 ELSE 0
        /\ \A i \in 1 .. l - k + 1 : s[i] = buf[k + i - 1]
    <3> HIDE DEF l
    <3>1. /\ SubSeq(buf, k, l) \in Seq(Alphabet)
          /\ Len(SubSeq(buf, k, l)) = IF k <= l THEN l - k + 1 ELSE 0
          /\ \A i \in 1 .. l - k + 1 : SubSeq(buf, k, l)[i] = buf[k + i - 1]
      BY <2>1, <2>2, SubSeqProperties
    <3> QED BY <3>1 DEF l
  <2> HIDE DEF s, l
  <2>4. Len(s) = Len(m) /\ \A i \in 1 .. Len(m) : s[i] = buf[k + i - 1]
    BY <2>1, <2>3
  <2>5. ASSUME \A j \in 1 .. Len(m) : buf[k + j - 1] = m[j] PROVE s = m
    <3>1. s \in Seq(Alphabet) /\ m \in Seq(Alphabet)
      BY <2>3 DEF Bytes
    <3>2. \A i \in 1 .. Len(s) : s[i] = m[i]
      BY <2>4, <2>5
    <3> QED BY <2>4, <3>1, <3>2, SeqEqual
  <2>6. ASSUME s = m PROVE \A j \in 1 .. Len(m) : buf[k + j - 1] = m[j]
    BY <2>4, <2>6
  <2> QED BY <2>5, <2>6 DEF s
<1>4. k \in 1 .. Len(buf) - Len(m) + 1 <=> 1 <= k /\ k + Len(m) - 1 <= Len(buf)
  BY <1>1
<1> QED BY <1>2, <1>3, <1>4

LEMMA FirstPlace ==
  ASSUME NEW m, NEW k \in Places(m), Places(m) \subseteq Int, \A l \in Places(m) : k <= l
  PROVE  Found(m) /\ Index(m) = k
<1>1. Index(m) \in Places(m) /\ \A l \in Places(m) : Index(m) <= l
  BY DEF Index, Min
<1>2. Index(m) <= k /\ k <= Index(m)
  BY <1>1
<1>3. Index(m) \in Int /\ k \in Int
  BY <1>1
<1> QED BY <1>2, <1>3 DEF Found

LEMMA PlacesInt ==
  ASSUME buf \in Bytes, NEW m \in Bytes
  PROVE  Places(m) \subseteq Int
BY DEF Places

(* Received bytes are the first of what the server sends.                   *)
LEMMA Received ==
  ASSUME buf \in Bytes, coming \in Bytes, NEW a \in Bytes, NEW r \in Bytes, Begins(buf \o coming, a \o r)
  PROVE  /\ \A i \in 1 .. Len(a) : i <= Len(buf) => buf[i] = a[i]
         /\ buf \o coming = a \o r /\ coming = << >> => Len(buf) = Len(a) + Len(r)
<1>1. Len(a) \in Nat /\ Len(r) \in Nat /\ Len(buf) \in Nat /\ Len(coming) \in Nat
  BY DEF Bytes
<1>2. /\ Len(buf \o coming) = Len(buf) + Len(coming)
      /\ \A i \in 1 .. Len(buf) : (buf \o coming)[i] = buf[i]
  BY Joined
<1>3. /\ Len(a \o r) = Len(a) + Len(r)
      /\ \A i \in 1 .. Len(a) : (a \o r)[i] = a[i]
  BY Joined
<1>4. ASSUME NEW i \in 1 .. Len(a), i <= Len(buf) PROVE buf[i] = a[i]
  <2>1. i \in 1 .. Len(buf) /\ i \in 1 .. Len(buf) + Len(coming)
    BY <1>1, <1>4
  <2>2. (buf \o coming)[i] = (a \o r)[i]
    BY <1>2, <2>1 DEF Begins
  <2> QED BY <1>2, <1>3, <2>1, <2>2
<1>5. ASSUME buf \o coming = a \o r, coming = << >> PROVE Len(buf) = Len(a) + Len(r)
  <2>1. Len(coming) = 0
    BY <1>5
  <2> QED BY <1>1, <1>2, <1>3, <1>5, <2>1
<1> QED BY <1>4, <1>5

LEMMA DoubleCrlf ==
  LET m == Crlf \o Crlf IN
  m \in Bytes /\ Len(m) = 4 /\ m[1] = "CR" /\ m[2] = "LF" /\ m[3] = "CR" /\ m[4] = "LF"
<1> DEFINE m == Crlf \o Crlf
<1>1. /\ m \in Bytes /\ Len(m) = Len(Crlf) + Len(Crlf)
      /\ \A i \in 1 .. Len(Crlf) : m[i] = Crlf[i]
      /\ \A i \in 1 .. Len(Crlf) : m[Len(Crlf) + i] = Crlf[i]
  BY CrlfFacts, Joined
<1> HIDE DEF m
<1>2. m[1] = "CR" /\ m[2] = "LF" /\ m[2 + 1] = "CR" /\ m[2 + 2] = "LF" /\ Len(m) = 2 + 2
  BY <1>1, CrlfFacts
<1> QED BY <1>1, <1>2 DEF m

(* The header ends at its empty line, wherever the bytes were cut.          *)
LEMMA HeadEnds ==
  ASSUME buf \in Bytes, coming \in Bytes, NEW kind \in Kinds, NEW r \in Bytes,
         Begins(buf \o coming, Headers(kind) \o r)
  PROVE  LET m == Crlf \o Crlf
             L == Len(Headers(kind))
         IN  /\ L <= Len(buf) => Found(m) /\ Index(m) = L - 3
             /\ Found(m) => L <= Len(buf)
<1> DEFINE m == Crlf \o Crlf
           h == Headers(kind)
           L == Len(h)
<1>1. m \in Bytes /\ Len(m) = 4 /\ m[1] = "CR" /\ m[2] = "LF" /\ m[3] = "CR" /\ m[4] = "LF"
  BY DoubleCrlf
<1>2. h \in Bytes
  BY HeaderShape
<1>3. \A i \in 1 .. L : i <= Len(buf) => buf[i] = h[i]
  BY <1>2, Received
<1>4. Len(buf) \in Nat /\ L \in Nat
  BY <1>2 DEF Bytes
<1> HIDE DEF m
<1>5. \A k \in Int : k \in Places(m) <=>
        /\ 1 <= k /\ k + 4 - 1 <= Len(buf)
        /\ buf[k] = "CR" /\ buf[k + 1] = "LF" /\ buf[k + 2] = "CR" /\ buf[k + 3] = "LF"
  <2> TAKE k \in Int
  <2>1. k \in Places(m) <=> /\ 1 <= k /\ k + Len(m) - 1 <= Len(buf)
                            /\ \A j \in 1 .. Len(m) : buf[k + j - 1] = m[j]
    <3>1. m \in Bytes /\ Len(m) > 0
      BY <1>1
    <3> QED BY <3>1, PlaceIff
  <2>2. (\A j \in 1 .. 4 : buf[k + j - 1] = m[j]) <=>
           buf[k + 1 - 1] = m[1] /\ buf[k + 2 - 1] = m[2] /\ buf[k + 3 - 1] = m[3] /\ buf[k + 4 - 1] = m[4]
    <3>1. \A j \in 1 .. 4 : j = 1 \/ j = 2 \/ j = 3 \/ j = 4
      OBVIOUS
    <3>2. 1 \in 1 .. 4 /\ 2 \in 1 .. 4 /\ 3 \in 1 .. 4 /\ 4 \in 1 .. 4
      OBVIOUS
    <3> QED BY <3>1, <3>2
  <2>3. k + 1 - 1 = k /\ k + 2 - 1 = k + 1 /\ k + 3 - 1 = k + 2 /\ k + 4 - 1 = k + 3
    OBVIOUS
  <2> QED BY <1>1, <2>1, <2>2, <2>3
<1>6. Places(m) \subseteq Int
  BY <1>1, PlacesInt
<1>7. CASE kind = "close"
  <2>1. L = 5 /\ h[1] = "status" /\ h[2] = "CR" /\ h[3] = "LF" /\ h[4] = "CR" /\ h[5] = "LF"
    BY <1>7, HeaderShape
  <2> HIDE DEF h
  <2>2. ASSUME L <= Len(buf) PROVE 2 \in Places(m)
    <3>1. /\ 2 \in 1 .. L /\ 3 \in 1 .. L /\ 4 \in 1 .. L /\ 5 \in 1 .. L /\ 2 + 4 - 1 <= Len(buf)
          /\ 2 <= Len(buf) /\ 3 <= Len(buf) /\ 4 <= Len(buf) /\ 5 <= Len(buf)
      BY <1>4, <2>1, <2>2
    <3>2. buf[2] = "CR" /\ buf[2 + 1] = "LF" /\ buf[2 + 2] = "CR" /\ buf[2 + 3] = "LF"
      BY <1>3, <2>1, <3>1
    <3> QED BY <1>5, <3>1, <3>2
  <2>3. ASSUME NEW k \in Places(m) PROVE 2 <= k /\ L <= Len(buf)
    <3>1. k \in Int /\ 1 <= k /\ k + 4 - 1 <= Len(buf) /\ buf[k] = "CR"
      BY <1>5, <1>6, <2>3
    <3>2. 1 \in 1 .. L /\ 1 <= Len(buf)
      BY <1>4, <2>1, <3>1
    <3>3. k # 1
      BY <1>3, <2>1, <3>1, <3>2
    <3> QED BY <1>4, <2>1, <3>1, <3>3
  <2>4. ASSUME L <= Len(buf) PROVE Found(m) /\ Index(m) = 2
    BY <1>6, <2>2, <2>3, <2>4, FirstPlace
  <2>5. L - 3 = 2
    BY <2>1
  <2> QED BY <2>3, <2>4, <2>5 DEF m, h, Found
<1>8. CASE kind # "close"
  <2>1. kind \in {"chunked", "length"}
    BY <1>8 DEF Kinds
  <2>2. /\ L = 8 /\ h[1] = "status" /\ h[2] = "CR" /\ h[3] = "LF" /\ h[4] = "framing"
        /\ h[5] = "CR" /\ h[6] = "LF" /\ h[7] = "CR" /\ h[8] = "LF"
    BY <2>1, HeaderShape
  <2> HIDE DEF h
  <2>3. ASSUME L <= Len(buf) PROVE 5 \in Places(m)
    <3>1. /\ 5 \in 1 .. L /\ 6 \in 1 .. L /\ 7 \in 1 .. L /\ 8 \in 1 .. L /\ 5 + 4 - 1 <= Len(buf)
          /\ 5 <= Len(buf) /\ 6 <= Len(buf) /\ 7 <= Len(buf) /\ 8 <= Len(buf)
      BY <1>4, <2>2, <2>3
    <3>2. buf[5] = "CR" /\ buf[5 + 1] = "LF" /\ buf[5 + 2] = "CR" /\ buf[5 + 3] = "LF"
      BY <1>3, <2>2, <3>1
    <3> QED BY <1>5, <3>1, <3>2
  <2>4. ASSUME NEW k \in Places(m) PROVE 5 <= k /\ L <= Len(buf)
    <3>1. k \in Int /\ 1 <= k /\ k + 4 - 1 <= Len(buf) /\ buf[k] = "CR" /\ buf[k + 2] = "CR"
      BY <1>5, <1>6, <2>4
    <3>2. /\ 1 \in 1 .. L /\ 3 \in 1 .. L /\ 4 \in 1 .. L
          /\ 1 <= Len(buf) /\ 3 <= Len(buf) /\ 4 <= Len(buf)
      BY <1>4, <2>2, <3>1
    <3>3. buf[1] = "status" /\ buf[3] = "LF" /\ buf[4] = "framing"
      BY <1>3, <2>2, <3>2
    <3>4. k # 1 /\ k # 3 /\ k # 4
      BY <3>1, <3>3
    <3>5. k # 2
      <4>1. k = 2 => k + 2 = 4
        OBVIOUS
      <4> QED BY <3>1, <3>3, <4>1
    <3> QED BY <1>4, <2>2, <3>1, <3>4, <3>5
  <2>5. ASSUME L <= Len(buf) PROVE Found(m) /\ Index(m) = 5
    BY <1>6, <2>3, <2>4, <2>5, FirstPlace
  <2>6. L - 3 = 5
    BY <2>2
  <2> QED BY <2>4, <2>5, <2>6 DEF m, h, Found
<1> QED BY <1>7, <1>8

(* A size line ends behind its digit.                                       *)
LEMMA LineEnds ==
  ASSUME buf \in Bytes, coming \in Bytes, NEW d \in Alphabet, d # "CR", NEW r \in Bytes,
         Begins(buf \o coming, SizeLine(d) \o r)
  PROVE  /\ 3 <= Len(buf) => Found(Crlf) /\ Index(Crlf) = 2
         /\ Found(Crlf) => 3 <= Len(buf)
         /\ Len(buf) > 0 => buf[1] = d
<1> DEFINE h == SizeLine(d)
<1>1. h \in Bytes /\ Len(h) = 3 /\ h[1] = d /\ h[2] = "CR" /\ h[3] = "LF"
  BY SizeLineFacts
<1>2. \A i \in 1 .. Len(h) : i <= Len(buf) => buf[i] = h[i]
  BY <1>1, Received
<1>3. Len(buf) \in Nat
  BY DEF Bytes
<1> HIDE DEF h
<1>4. \A k \in Int : k \in Places(Crlf) <=> /\ 1 <= k /\ k + 2 - 1 <= Len(buf)
                                            /\ buf[k] = "CR" /\ buf[k + 1] = "LF"
  <2> TAKE k \in Int
  <2>1. Len(Crlf) > 0
    BY CrlfFacts
  <2>2. k \in Places(Crlf) <=> /\ 1 <= k /\ k + Len(Crlf) - 1 <= Len(buf)
                               /\ \A j \in 1 .. Len(Crlf) : buf[k + j - 1] = Crlf[j]
    BY <2>1, CrlfFacts, PlaceIff
  <2>3. (\A j \in 1 .. 2 : buf[k + j - 1] = Crlf[j]) <=>
           buf[k + 1 - 1] = Crlf[1] /\ buf[k + 2 - 1] = Crlf[2]
    <3>1. \A j \in 1 .. 2 : j = 1 \/ j = 2
      OBVIOUS
    <3>2. 1 \in 1 .. 2 /\ 2 \in 1 .. 2
      OBVIOUS
    <3> QED BY <3>1, <3>2
  <2>4. k + 1 - 1 = k /\ k + 2 - 1 = k + 1
    OBVIOUS
  <2> QED BY CrlfFacts, <2>2, <2>3, <2>4
<1>5. Places(Crlf) \subseteq Int
  BY CrlfFacts, PlacesInt
<1>6. Len(buf) > 0 => buf[1] = d
  <2>1. 1 \in 1 .. Len(h)
    BY <1>1
  <2> QED BY <1>1, <1>2, <1>3, <2>1
<1>7. ASSUME 3 <= Len(buf) PROVE 2 \in Places(Crlf)
  <2>1. 2 \in 1 .. Len(h) /\ 3 \in 1 .. Len(h) /\ 2 <= Len(buf) /\ 2 + 2 - 1 <= Len(buf)
    BY <1>1, <1>3, <1>7
  <2>2. buf[2] = "CR" /\ buf[2 + 1] = "LF"
    BY <1>1, <1>2, <1>7, <2>1
  <2> QED BY <1>4, <2>1, <2>2
<1>8. ASSUME NEW k \in Places(Crlf) PROVE 2 <= k /\ 3 <= Len(buf)
  <2>1. k \in Int /\ 1 <= k /\ k + 2 - 1 <= Len(buf) /\ buf[k] = "CR"
    BY <1>4, <1>5, <1>8
  <2>2. k # 1
    BY <1>3, <1>6, <2>1
  <2> QED BY <1>3, <2>1, <2>2
<1>9. ASSUME 3 <= Len(buf) PROVE Found(Crlf) /\ Index(Crlf) = 2
  BY <1>5, <1>7, <1>8, <1>9, FirstPlace
<1> QED BY <1>6, <1>8, <1>9 DEF Found

Phases == {"idle", "head", "length", "close", "line", "data", "last", "done", "raised"}

HttpTypes ==
  /\ framing \in Kinds /\ whole \in BOOLEAN /\ phase \in Phases
  /\ buf \in Bytes /\ coming \in Bytes /\ body \in Bytes
  /\ chunkSize \in Nat

(* What has been received and not used, and what comes, is the beginning    *)
(* of r, or all of it if the server sends the whole answer.                 *)
Comes(r) == Begins(buf \o coming, r) /\ (whole => buf \o coming = r)

(* The stream has ended early, and everything of it is used.                *)
CutOff == buf = << >> /\ coming = << >> /\ ~ whole /\ Begins(body, Content)

AtLine(k) == body = SoFar[k] /\ Comes(ToCome[k])
AtData(k) ==
  /\ body = SoFar[k - 1] /\ chunkSize = Len(Pieces[k])
  /\ Comes(Pieces[k] \o (Crlf \o ToCome[k]))

HttpPlace ==
  /\ phase = "idle" => buf = << >> /\ body = << >>
  /\ phase = "head" => body = << >> /\ Comes(Answer(framing))
  /\ phase \in {"length", "close"} => CutOff \/ Comes(Content)
  /\ phase = "line" => CutOff \/ \E k \in 0 .. NumPieces : AtLine(k)
  /\ phase = "data" => CutOff \/ \E k \in 1 .. NumPieces : AtData(k)
  /\ phase \in {"last", "done"} => Begins(body, Content) /\ (whole => body = Content)

HttpInv == HttpTypes /\ HttpPlace

LEMMA EmptyFacts ==
  /\ << >> \in Bytes /\ Len(<< >>) = 0 /\ Begins(<< >>, Content)
  /\ \A s \in Bytes : << >> \o s = s /\ s \o << >> = s
<1>1. << >> \in Bytes /\ Len(<< >>) = 0
  BY DEF Bytes
<1>2. Begins(<< >>, Content)
  BY SoFarFacts DEF Begins, Bytes
<1>3. \A s \in Bytes : << >> \o s = s /\ s \o << >> = s
  BY ConcatEmptySeq DEF Bytes
<1> QED BY <1>1, <1>2, <1>3

LEMMA BytesLen == \A s \in Bytes : Len(s) \in Nat
BY DEF Bytes

LEMMA HttpInitInv == HttpInit => HttpInv
<1> SUFFICES ASSUME HttpInit PROVE HttpInv
  OBVIOUS
<1>1. HttpTypes
  BY EmptyFacts DEF HttpInit, HttpTypes, Kinds, Phases
<1> QED BY <1>1 DEF HttpInit, HttpInv, HttpPlace

LEMMA GetInv ==
  ASSUME HttpInv, NEW kind \in Kinds, NEW n \in 0 .. Len(Answer(kind)), Get(kind, n)
  PROVE  HttpInv'
<1> DEFINE a == Answer(kind)
<1>1. a \in Bytes /\ Len(a) \in Nat
  BY AnswerShape, BytesLen
<1>2. buf = << >> /\ body = << >>
  BY DEF HttpInv, HttpPlace, Get
<1>3. coming' = SubSeq(a, 1, n) /\ framing' = kind /\ phase' = "head" /\ whole' = (n = Len(a))
  BY DEF Get
<1>4. UNCHANGED <<buf, chunkSize, body>>
  BY DEF Get
<1> HIDE DEF a
<1>5. SubSeq(a, 1, n) \in Bytes /\ Begins(SubSeq(a, 1, n), a)
  <2>1. a \in Seq(Alphabet) /\ n \in 0 .. Len(a)
    BY <1>1 DEF Bytes, a
  <2> QED BY <2>1, TakenBegins DEF Bytes
<1>6. n = Len(a) => SubSeq(a, 1, n) = a
  BY <1>1, SubSeqFull DEF Bytes
<1>7. whole' \in BOOLEAN /\ (whole' => n = Len(a))
  BY <1>3, Zenon
<1>8. buf' \o coming' = SubSeq(a, 1, n)
  BY <1>2, <1>3, <1>4, <1>5, EmptyFacts
<1>9. Comes(Answer(kind))'
  BY <1>5, <1>6, <1>7, <1>8 DEF Comes, a
<1>10. HttpTypes'
  BY <1>3, <1>4, <1>5, <1>7 DEF HttpInv, HttpTypes, Phases
<1>11. HttpPlace'
  <2>1. phase' = "head" /\ body' = << >>
    BY <1>2, <1>3, <1>4
  <2>2. Comes(Answer(framing))'
    BY <1>3, <1>9 DEF Comes
  <2> QED BY <2>1, <2>2 DEF HttpPlace
<1> QED BY <1>10, <1>11 DEF HttpInv

LEMMA ReceiveInv ==
  ASSUME HttpInv, Receive
  PROVE  HttpInv'
<1>1. PICK n \in 1 .. Len(coming) :
        buf' = buf \o SubSeq(coming, 1, n) /\ coming' = SubSeq(coming, n + 1, Len(coming))
  BY DEF Receive
<1>2. UNCHANGED <<framing, whole, chunkSize, body, phase>> /\ phase # "idle" /\ ~ Ready
  BY DEF Receive
<1>3. buf \in Bytes /\ coming \in Bytes /\ Len(coming) \in Nat
  BY BytesLen DEF HttpInv, HttpTypes
<1> DEFINE f == SubSeq(coming, 1, n)
           r == SubSeq(coming, n + 1, Len(coming))
<1>4. f \in Bytes /\ r \in Bytes
  <2>1. \A i \in 1 .. Len(coming) : coming[i] \in Alphabet
    BY <1>3 DEF Bytes
  <2>2. (\A i \in 1 .. n : coming[i] \in Alphabet) /\ (\A i \in n + 1 .. Len(coming) : coming[i] \in Alphabet)
    BY <1>3, <2>1
  <2>3. 1 \in Int /\ n \in Int /\ n + 1 \in Int /\ Len(coming) \in Int
    BY <1>3
  <2> QED BY <2>2, <2>3, SubSeqProperties DEF Bytes
<1>5. f \o r = coming
  <2>1. coming \in Seq(Alphabet) /\ 1 \in 1 .. Len(coming) + 1 /\ n \in 1 - 1 .. Len(coming)
        /\ Len(coming) \in n .. Len(coming)
    BY <1>3 DEF Bytes
  <2>2. SubSeq(coming, 1, n) \o SubSeq(coming, n + 1, Len(coming)) = SubSeq(coming, 1, Len(coming))
    BY <2>1, ConcatAdjacentSubSeq
  <2>3. SubSeq(coming, 1, Len(coming)) = coming
    BY <2>1, SubSeqFull
  <2> QED BY <2>2, <2>3
<1>6. buf' = buf \o f /\ coming' = r
  BY <1>1
<1> HIDE DEF f, r
<1>7. buf' \o coming' = buf \o coming
  <2>1. (buf \o f) \o r = buf \o (f \o r)
    BY <1>3, <1>4, Associative
  <2> QED BY <1>5, <1>6, <2>1
<1>8. buf' \in Bytes /\ coming' \in Bytes
  BY <1>3, <1>4, <1>6, JoinedType
<1>9. coming # << >>
  <2>1. Len(coming) # 0
    BY <1>3
  <2> QED BY <2>1, EmptyFacts
<1>10. HttpTypes'
  BY <1>2, <1>8 DEF HttpInv, HttpTypes
<1>11. ~ CutOff
  BY <1>9 DEF CutOff
<1>12. \A x : Comes(x) => Comes(x)'
  BY <1>2, <1>7 DEF Comes
<1>13. HttpPlace'
  <2>1. ~ CutOff /\ phase # "idle" /\ HttpPlace
    BY <1>2, <1>11 DEF HttpInv
  <2>2. phase = "head" => body' = << >> /\ Comes(Answer(framing))'
    BY <1>2, <1>12, <2>1 DEF HttpPlace, Comes
  <2>3. phase \in {"length", "close"} => Comes(Content)'
    BY <1>12, <2>1 DEF HttpPlace
  <2>4. phase = "line" => \E k \in 0 .. NumPieces : AtLine(k)'
    <3>1. ASSUME phase = "line" PROVE \E k \in 0 .. NumPieces : AtLine(k)
      BY <2>1, <3>1 DEF HttpPlace
    <3>2. \A k \in 0 .. NumPieces : AtLine(k) => AtLine(k)'
      BY <1>2, <1>12 DEF AtLine
    <3> QED BY <3>1, <3>2
  <2>5. phase = "data" => \E k \in 1 .. NumPieces : AtData(k)'
    <3>1. ASSUME phase = "data" PROVE \E k \in 1 .. NumPieces : AtData(k)
      BY <2>1, <3>1 DEF HttpPlace
    <3>2. \A k \in 1 .. NumPieces : AtData(k) => AtData(k)'
      BY <1>2, <1>12 DEF AtData
    <3> QED BY <3>1, <3>2
  <2>6. phase \in {"last", "done"} => Begins(body', Content) /\ (whole' => body' = Content)
    BY <1>2, <2>1 DEF HttpPlace
  <2> QED BY <1>2, <2>1, <2>2, <2>3, <2>4, <2>5, <2>6 DEF HttpPlace
<1> QED BY <1>10, <1>13 DEF HttpInv

(* The rest of the buffer behind the first n bytes.                         *)
LEMMA Behind ==
  ASSUME buf \in Bytes, NEW n \in Nat
  PROVE  /\ SubSeq(buf, n + 1, Len(buf)) \in Bytes
         /\ n >= Len(buf) => SubSeq(buf, n + 1, Len(buf)) = << >>
<1>1. Len(buf) \in Nat /\ \A i \in 1 .. Len(buf) : buf[i] \in Alphabet
  BY DEF Bytes
<1>2. \A i \in n + 1 .. Len(buf) : buf[i] \in Alphabet
  BY <1>1
<1>3. n + 1 \in Int /\ Len(buf) \in Int
  BY <1>1
<1>4. SubSeq(buf, n + 1, Len(buf)) \in Bytes
  BY <1>2, <1>3, SubSeqProperties DEF Bytes
<1>5. n >= Len(buf) => Len(buf) < n + 1
  BY <1>1
<1> QED BY <1>3, <1>4, <1>5, SubSeqEmpty

LEMMA ParseHeadInv ==
  ASSUME HttpInv, ParseHead
  PROVE  HttpInv'
<1> DEFINE m == Crlf \o Crlf
           h == Headers(framing)
           r == AnswerBody(framing)
           L == Len(h)
<1>1. phase = "head" /\ Ready /\ buf' = Rest(m) /\ UNCHANGED <<framing, whole, coming, chunkSize, body>>
  BY DEF ParseHead
<1>2. phase' = IF Len(Before(m)) = 0 THEN "raised"
               ELSE IF \A k \in DOMAIN Before(m) : Before(m)[k] # "framing" THEN "close"
               ELSE IF framing = "chunked" THEN "line" ELSE "length"
  BY DEF ParseHead
<1>3. framing \in Kinds /\ buf \in Bytes /\ coming \in Bytes /\ body = << >> /\ Comes(Answer(framing))
  BY <1>1 DEF HttpInv, HttpTypes, HttpPlace
<1>4. h \in Bytes /\ r \in Bytes /\ Answer(framing) = h \o r
  BY <1>3, AnswerShape, HeaderShape
<1>5. L \in Nat /\ Len(buf) \in Nat /\ Len(r) \in Nat /\ L > 4
  <2> HIDE DEF L
  <2>1. L \in Nat /\ Len(buf) \in Nat /\ Len(r) \in Nat
    BY <1>3, <1>4, BytesLen DEF L
  <2>2. framing \in {"chunked", "length"} \/ framing = "close"
    BY <1>3 DEF Kinds
  <2>3. L = 5 \/ L = 8
    BY <2>2, HeaderShape DEF L
  <2> QED BY <2>1, <2>3
<1>6. Begins(buf \o coming, h \o r) /\ (whole => buf \o coming = h \o r)
  BY <1>3, <1>4 DEF Comes
<1>7. (L <= Len(buf) => Found(m) /\ Index(m) = L - 3) /\ (Found(m) => L <= Len(buf))
  BY <1>3, <1>4, <1>6, HeadEnds
<1>8. m \in Bytes /\ Len(m) = 4
  BY DoubleCrlf
<1> HIDE DEF m, h, r
<1>9. CASE Found(m)
  <2> DEFINE got == SubSeq(buf, 1, L - 4)
  <2>1. L <= Len(buf) /\ Index(m) = L - 3
    BY <1>7, <1>9
  <2>2. Before(m) = got
    <3>1. Index(m) - 1 = L - 4
      BY <1>5, <2>1
    <3> QED BY <1>9, <3>1 DEF Before
  <2>3. buf' = SubSeq(buf, L + 1, Len(buf))
    <3>1. Index(m) + Len(m) = L + 1
      BY <1>5, <1>8, <2>1
    <3> QED BY <1>1, <1>9, <3>1 DEF Rest
  <2>4. /\ buf' \in Bytes /\ Begins(buf' \o coming, r)
        /\ (whole => buf' \o coming = r)
    <3>1. buf \in Bytes /\ coming \in Bytes /\ h \in Bytes /\ r \in Bytes
      BY <1>3, <1>4
    <3>2. /\ Begins(buf \o coming, h \o r) /\ Len(h) <= Len(buf)
          /\ whole \in BOOLEAN /\ (whole => buf \o coming = h \o r)
      BY <1>6, <2>1 DEF HttpInv, HttpTypes
    <3>3. SubSeq(buf, Len(h) + 1, Len(buf)) \in Bytes
      BY <3>1, <3>2, Consume
    <3>4. Begins(SubSeq(buf, Len(h) + 1, Len(buf)) \o coming, r)
      BY <3>1, <3>2, Consume
    <3>5. ASSUME whole PROVE SubSeq(buf, Len(h) + 1, Len(buf)) \o coming = r
      <4>1. buf \o coming = h \o r
        BY <3>2, <3>5
      <4> QED BY <3>1, <3>2, <4>1, ConsumeAll
    <3> QED BY <2>3, <3>3, <3>4, <3>5
  <2>5. Begins(buf' \o coming', r) /\ (whole' => buf' \o coming' = r)
    BY <1>1, <1>6, <2>4
  <2>6. /\ got \in Seq(Alphabet) /\ Len(got) = L - 4 /\ DOMAIN got = 1 .. L - 4
        /\ \A i \in 1 .. L - 4 : got[i] = h[i]
    <3>1. L - 4 \in 0 .. Len(buf)
      BY <1>5, <2>1
    <3>2. got \in Seq(Alphabet) /\ Len(got) = L - 4 /\ Begins(got, buf)
      BY <1>3, <3>1, TakenBegins DEF Bytes
    <3>3. \A i \in 1 .. L : i <= Len(buf) => buf[i] = h[i]
      BY <1>3, <1>4, <1>6, Received
    <3>4. \A i \in 1 .. L - 4 : got[i] = h[i]
      <4> TAKE i \in 1 .. L - 4
      <4>1. i \in 1 .. L /\ i <= Len(buf) /\ i \in 1 .. Len(got)
        BY <1>5, <2>1, <3>2
      <4> QED BY <3>2, <3>3, <4>1 DEF Begins
    <3> QED BY <3>2, <3>4
  <2> HIDE DEF got
  <2>7. CASE framing = "close"
    <3>1. L = 5 /\ h[1] = "status"
      BY <2>7, HeaderShape DEF h
    <3>2. got[1] = "status" /\ DOMAIN got = {1} /\ Len(got) = 1
      BY <2>6, <3>1
    <3>3. phase' = "close"
      <4>1. \A k \in DOMAIN got : got[k] # "framing"
        BY <3>2
      <4>2. Len(got) # 0
        BY <3>2
      <4> QED BY <1>2, <2>2, <4>1, <4>2
    <3>4. r = Content
      BY <2>7 DEF r, AnswerBody
    <3>5. Comes(Content)'
      BY <2>5, <3>4 DEF Comes
    <3> QED BY <1>1, <2>4, <3>3, <3>5 DEF HttpInv, HttpTypes, HttpPlace, Phases
  <2>8. CASE framing # "close"
    <3>1. framing \in {"chunked", "length"}
      BY <1>3, <2>8 DEF Kinds
    <3>2. L = 8 /\ h[4] = "framing"
      BY <3>1, HeaderShape DEF h
    <3>3. got[4] = "framing" /\ 4 \in DOMAIN got /\ Len(got) = 4
      BY <2>6, <3>2
    <3>4. phase' = IF framing = "chunked" THEN "line" ELSE "length"
      <4>1. ~ (\A k \in DOMAIN got : got[k] # "framing")
        BY <3>3
      <4>2. Len(got) # 0
        BY <3>3
      <4> QED BY <1>2, <2>2, <4>1, <4>2
    <3>5. CASE framing = "chunked"
      <4>1. r = ToCome[0] /\ 0 \in 0 .. NumPieces
        BY <3>5, PieceFacts DEF r, AnswerBody
      <4>2. Comes(ToCome[0])'
        BY <2>5, <4>1 DEF Comes
      <4>3. body' = SoFar[0]
        BY <1>1, <1>3, SoFarFacts
      <4>4. AtLine(0)'
        BY <4>2, <4>3 DEF AtLine
      <4>5. phase' = "line" /\ \E k \in 0 .. NumPieces : AtLine(k)'
        BY <3>4, <3>5, <4>1, <4>4
      <4>6. HttpTypes'
        BY <1>1, <2>4, <4>5 DEF HttpInv, HttpTypes, Phases
      <4>7. HttpPlace'
        BY <4>5 DEF HttpPlace
      <4> QED BY <4>6, <4>7 DEF HttpInv
    <3>6. CASE framing # "chunked"
      <4>1. r = Content
        BY <3>6 DEF r, AnswerBody
      <4>2. Comes(Content)'
        BY <2>5, <4>1 DEF Comes
      <4> QED BY <1>1, <2>4, <3>4, <3>6, <4>2 DEF HttpInv, HttpTypes, HttpPlace, Phases
    <3> QED BY <3>5, <3>6
  <2> QED BY <2>7, <2>8
<1>10. CASE ~ Found(m)
  <2>1. coming = << >>
    BY <1>1, <1>10 DEF Ready, HeadReady, Eof, m
  <2>2. ~ whole
    <3>1. buf \o coming = h \o r /\ coming = << >> => Len(buf) = L + Len(r)
      BY <1>3, <1>4, <1>6, Received
    <3>2. ~ (L <= Len(buf))
      BY <1>7, <1>10
    <3> QED BY <1>5, <1>6, <2>1, <3>1, <3>2
  <2>3. buf' = << >>
    BY <1>1, <1>10 DEF Rest
  <2>4. CutOff'
    BY <1>1, <1>3, <2>1, <2>2, <2>3, EmptyFacts DEF CutOff
  <2>5. phase' \in {"raised", "close", "line", "length"}
    BY <1>2
  <2>6. HttpTypes'
    BY <1>1, <2>3, <2>5, EmptyFacts DEF HttpInv, HttpTypes, Phases
  <2>7. HttpPlace'
    BY <2>4, <2>5 DEF HttpPlace
  <2> QED BY <2>6, <2>7 DEF HttpInv
<1> QED BY <1>9, <1>10

LEMMA Used ==
  ASSUME HttpTypes, NEW a \in Bytes, NEW r \in Bytes, Comes(a \o r), Len(a) <= Len(buf),
         buf' = SubSeq(buf, Len(a) + 1, Len(buf)), UNCHANGED <<coming, whole>>
  PROVE  buf' \in Bytes /\ Begins(buf' \o coming', r) /\ (whole' => buf' \o coming' = r)
<1>1. buf \in Bytes /\ coming \in Bytes
  BY DEF HttpTypes
<1>2. Begins(buf \o coming, a \o r) /\ (whole => buf \o coming = a \o r)
  BY DEF Comes
<1>3. SubSeq(buf, Len(a) + 1, Len(buf)) \in Bytes
  BY <1>1, <1>2, Consume
<1>4. Begins(SubSeq(buf, Len(a) + 1, Len(buf)) \o coming, r)
  BY <1>1, <1>2, Consume
<1>5. ASSUME whole PROVE SubSeq(buf, Len(a) + 1, Len(buf)) \o coming = r
  <2>1. buf \o coming = a \o r
    BY <1>2, <1>5
  <2> QED BY <1>1, <2>1, ConsumeAll
<1> QED BY <1>3, <1>4, <1>5

LEMMA TakenFacts ==
  ASSUME buf \in Bytes, NEW n \in Nat
  PROVE  /\ Taken(n) \in Bytes /\ Begins(Taken(n), buf)
         /\ Len(Taken(n)) = IF n <= Len(buf) THEN n ELSE Len(buf)
         /\ n <= Len(buf) => Taken(n) = SubSeq(buf, 1, n)
<1> DEFINE m == IF n <= Len(buf) THEN n ELSE Len(buf)
<1>1. m \in 0 .. Len(buf)
  BY BytesLen
<1>2. Taken(n) = SubSeq(buf, 1, m)
  BY DEF Taken
<1> HIDE DEF m
<1>3. SubSeq(buf, 1, m) \in Bytes /\ Len(SubSeq(buf, 1, m)) = m /\ Begins(SubSeq(buf, 1, m), buf)
  BY <1>1, TakenBegins DEF Bytes
<1> QED BY <1>2, <1>3 DEF m

LEMMA StreamFacts ==
  ASSUME HttpTypes
  PROVE  /\ buf \o coming \in Bytes /\ Begins(buf, buf \o coming)
         /\ coming = << >> => buf \o coming = buf
<1>1. buf \in Bytes /\ coming \in Bytes
  BY DEF HttpTypes
<1>2. Begins(buf, buf \o coming)
  BY <1>1, FrontBegins DEF Bytes
<1> QED BY <1>1, <1>2, JoinedType, EmptyFacts

LEMMA TakeBodyInv ==
  ASSUME HttpInv, TakeBody
  PROVE  HttpInv'
<1>1. /\ phase \in {"length", "close"} /\ Ready /\ phase' = "done"
      /\ body' = IF phase = "length" THEN Taken(Len(Content)) ELSE buf
      /\ UNCHANGED <<framing, whole, coming, buf, chunkSize>>
  BY DEF TakeBody
<1>2. HttpTypes /\ buf \in Bytes /\ coming \in Bytes /\ Content \in Bytes
  BY SoFarFacts DEF HttpInv, HttpTypes
<1>3. Len(Content) \in Nat /\ Len(buf) \in Nat
  BY <1>2, BytesLen
<1> DEFINE t == Taken(Len(Content))
<1>4. /\ t \in Bytes /\ Begins(t, buf)
      /\ Len(t) = IF Len(Content) <= Len(buf) THEN Len(Content) ELSE Len(buf)
  BY <1>2, <1>3, TakenFacts
<1> HIDE DEF t
<1>5. body' \in Bytes /\ Begins(body', buf)
  <2>1. Begins(buf, buf)
    BY <1>2, BeginsItself DEF Bytes
  <2> QED BY <1>1, <1>2, <1>4, <2>1 DEF t
<1>6. CASE CutOff
  <2>1. Len(body') = 0
    <3>1. buf = << >> /\ Len(body') <= Len(buf) /\ Len(body') \in Nat
      BY <1>5, <1>6, BytesLen DEF CutOff, Begins
    <3>2. Len(buf) = 0
      BY <3>1, EmptyFacts
    <3> QED BY <3>1, <3>2
  <2>2. Begins(body', Content)
    BY <1>3, <2>1 DEF Begins
  <2>3. ~ whole'
    BY <1>1, <1>6 DEF CutOff
  <2>4. HttpTypes'
    BY <1>1, <1>5 DEF HttpInv, HttpTypes, Phases
  <2> QED BY <1>1, <2>2, <2>3, <2>4 DEF HttpInv, HttpPlace
<1>7. CASE Comes(Content)
  <2>1. buf \o coming \in Bytes /\ Begins(buf, buf \o coming) /\ (coming = << >> => buf \o coming = buf)
    BY <1>2, StreamFacts
  <2>2. Begins(buf \o coming, Content) /\ (whole => buf \o coming = Content)
    BY <1>7 DEF Comes
  <2>3. Begins(buf, Content)
    BY <1>2, <2>1, <2>2, BeginsTransitive DEF Bytes
  <2>4. Begins(body', Content)
    BY <1>2, <1>5, <2>3, BeginsTransitive DEF Bytes
  <2>5. ASSUME whole PROVE body' = Content
    <3>1. CASE phase = "close"
      <4>1. coming = << >>
        BY <1>1, <3>1 DEF Ready, Eof
      <4> QED BY <1>1, <2>1, <2>2, <2>5, <3>1, <4>1
    <3>2. CASE phase = "length"
      <4>1. Len(Content) <= Len(buf)
        <5>1. coming = << >> \/ Len(buf) >= Len(Content)
          BY <1>1, <3>2 DEF Ready, LengthReady, Eof
        <5>2. ASSUME coming = << >> PROVE buf = Content
          BY <2>1, <2>2, <2>5, <5>2
        <5> QED BY <1>3, <5>1, <5>2
      <4>2. body' = t /\ Len(t) = Len(Content)
        BY <1>1, <1>4, <3>2, <4>1 DEF t
      <4>3. Len(body') = Len(Content) /\ \A i \in 1 .. Len(body') : body'[i] = Content[i]
        BY <2>4, <4>2 DEF Begins
      <4> QED BY <1>2, <1>5, <4>3, SeqEqual DEF Bytes
    <3> QED BY <1>1, <3>1, <3>2
  <2>6. HttpTypes'
    BY <1>1, <1>5 DEF HttpInv, HttpTypes, Phases
  <2> QED BY <1>1, <2>4, <2>5, <2>6 DEF HttpInv, HttpPlace
<1> QED BY <1>1, <1>6, <1>7 DEF HttpInv, HttpPlace

(* What stands at the k-th size line.                                       *)
LEMMA LineShape ==
  ASSUME NEW k \in 0 .. NumPieces
  PROVE  \E d \in Alphabet : \E r \in Bytes :
           /\ d # "CR" /\ d \in DOMAIN Size
           /\ ToCome[k] = SizeLine(d) \o r
           /\ k = NumPieces => Size[d] = 0
           /\ k # NumPieces => /\ k + 1 \in 1 .. NumPieces
                               /\ Size[d] = Len(Pieces[k + 1]) /\ Size[d] > 0
                               /\ r = Pieces[k + 1] \o (Crlf \o ToCome[k + 1])
<1>1. NumPieces \in Nat
  BY PieceFacts
<1>2. CASE k = NumPieces
  <2>1. "0" \in Alphabet /\ "0" \in DOMAIN Size /\ Size["0"] = 0 /\ "0" # "CR"
    BY DEF Alphabet, Size
  <2>2. ToCome[k] = SizeLine("0") \o Crlf
    BY <1>2, ToComeFacts DEF Trailer
  <2> QED BY <1>2, <2>1, <2>2, CrlfFacts
<1>3. CASE k # NumPieces
  <2> DEFINE l == k + 1
             p == Pieces[l]
             T == ToCome[l]
  <2>1. l \in 1 .. NumPieces /\ l - 1 = k /\ l \in 0 .. NumPieces
    BY <1>1, <1>3
  <2> HIDE DEF l
  <2>2. PICK d \in Alphabet : /\ d # "CR" /\ d \in DOMAIN Size /\ Size[d] = Len(p)
                              /\ Chunk(p) = SizeLine(d) \o (p \o Crlf) /\ Chunk(p) \in Bytes
    BY <2>1, ChunkShape
  <2>3. p \in Bytes /\ Len(p) > 0 /\ T \in Bytes /\ SizeLine(d) \in Bytes
    <3>1. Len(p) \in {1, 2}
      BY <2>1, PieceFacts
    <3>2. Len(p) > 0
      BY <3>1, SMTT(30)
    <3>3. p \in Bytes
      BY <2>1, PieceFacts
    <3>4. T \in Bytes
      BY <2>1, ToComeFacts
    <3>5. SizeLine(d) \in Bytes
      BY SizeLineFacts
    <3> QED BY <3>2, <3>3, <3>4, <3>5
  <2>4. ToCome[k] = Chunk(p) \o T
    BY <2>1, ToComeFacts
  <2> HIDE DEF p, T
  <2>5. p \o Crlf \in Bytes /\ Crlf \o T \in Bytes
    BY <2>3, CrlfFacts, JoinedType
  <2>6. (SizeLine(d) \o (p \o Crlf)) \o T = SizeLine(d) \o ((p \o Crlf) \o T)
    BY <2>3, <2>5, Associative, ZenonT(30)
  <2>7. (p \o Crlf) \o T = p \o (Crlf \o T)
    <3>1. p \in Bytes /\ Crlf \in Bytes /\ T \in Bytes
      BY <2>3, CrlfFacts
    <3> QED BY <3>1, Associative, ZenonT(30)
  <2>8. p \o (Crlf \o T) \in Bytes
    BY <2>3, <2>5, JoinedType
  <2>9. ToCome[k] = SizeLine(d) \o (p \o (Crlf \o T))
    BY <2>2, <2>4, <2>6, <2>7
  <2> QED BY <1>3, <2>1, <2>2, <2>3, <2>8, <2>9 DEF p, T, l
<1> QED BY <1>2, <1>3

LEMMA ChunkLineInv ==
  ASSUME HttpInv, ChunkLine
  PROVE  HttpInv'
<1>1. /\ phase = "line" /\ Ready /\ buf' = Rest(Crlf)
      /\ chunkSize' = IF Before(Crlf) = << >> THEN 0 ELSE Size[Before(Crlf)[1]]
      /\ phase' = IF chunkSize' = 0 THEN "last" ELSE "data"
      /\ UNCHANGED <<framing, whole, coming, body>>
  BY DEF ChunkLine
<1>2. HttpTypes /\ buf \in Bytes /\ coming \in Bytes /\ Len(buf) \in Nat
  BY BytesLen DEF HttpInv, HttpTypes
<1>3. \A d \in DOMAIN Size : Size[d] \in Nat
  BY DEF Size
<1>4. CASE CutOff
  <2>1. ~ Found(Crlf)
    <3>1. \A k \in Places(Crlf) : k \in 1 .. Len(buf) - Len(Crlf) + 1
      BY DEF Places
    <3>2. Len(buf) = 0 /\ Len(Crlf) = 2
      BY <1>4, EmptyFacts, CrlfFacts DEF CutOff
    <3>3. Places(Crlf) = {}
      BY <3>1, <3>2
    <3> QED BY <3>3 DEF Found
  <2>2. Before(Crlf) = << >> /\ buf' = << >>
    BY <1>1, <1>4, <2>1 DEF Before, Rest, CutOff
  <2>3. chunkSize' = 0 /\ phase' = "last"
    BY <1>1, <2>2
  <2>4. HttpTypes'
    BY <1>1, <2>2, <2>3, EmptyFacts DEF HttpInv, HttpTypes, Phases
  <2>5. HttpPlace'
    BY <1>1, <1>4, <2>3 DEF CutOff, HttpPlace
  <2> QED BY <2>4, <2>5 DEF HttpInv
<1>5. CASE \E k \in 0 .. NumPieces : AtLine(k)
  <2>1. PICK k \in 0 .. NumPieces : AtLine(k)
    BY <1>5
  <2>2. PICK d \in Alphabet : \E r \in Bytes :
           /\ d # "CR" /\ d \in DOMAIN Size
           /\ ToCome[k] = SizeLine(d) \o r
           /\ k = NumPieces => Size[d] = 0
           /\ k # NumPieces => /\ k + 1 \in 1 .. NumPieces
                               /\ Size[d] = Len(Pieces[k + 1]) /\ Size[d] > 0
                               /\ r = Pieces[k + 1] \o (Crlf \o ToCome[k + 1])
    BY LineShape
  <2>3. PICK r \in Bytes :
           /\ d # "CR" /\ d \in DOMAIN Size
           /\ ToCome[k] = SizeLine(d) \o r
           /\ k = NumPieces => Size[d] = 0
           /\ k # NumPieces => /\ k + 1 \in 1 .. NumPieces
                               /\ Size[d] = Len(Pieces[k + 1]) /\ Size[d] > 0
                               /\ r = Pieces[k + 1] \o (Crlf \o ToCome[k + 1])
    BY <2>2
  <2>4. SizeLine(d) \in Bytes /\ Len(SizeLine(d)) = 3
    BY SizeLineFacts
  <2>5. body = SoFar[k] /\ Comes(SizeLine(d) \o r)
    BY <2>1, <2>3 DEF AtLine
  <2>6. Begins(buf \o coming, SizeLine(d) \o r) /\ (whole => buf \o coming = SizeLine(d) \o r)
    BY <2>5 DEF Comes
  <2>7. /\ 3 <= Len(buf) => Found(Crlf) /\ Index(Crlf) = 2
        /\ Found(Crlf) => 3 <= Len(buf)
        /\ Len(buf) > 0 => buf[1] = d
    BY <1>2, <2>3, <2>6, LineEnds
  <2>8. Begins(SoFar[k], Content)
    BY SoFarBegins
  <2>9. CASE Found(Crlf)
    <3>1. 3 <= Len(buf) /\ Index(Crlf) = 2
      BY <2>7, <2>9
    <3>2. Before(Crlf) = SubSeq(buf, 1, 1)
      BY <2>9, <3>1 DEF Before
    <3>3. SubSeq(buf, 1, 1) # << >> /\ SubSeq(buf, 1, 1)[1] = d
      <4> DEFINE s == SubSeq(buf, 1, 1)
      <4>1. 1 \in 0 .. Len(buf)
        BY <1>2, <3>1
      <4>2. Len(s) = 1 /\ Begins(s, buf)
        BY <1>2, <4>1, TakenBegins DEF Bytes
      <4> HIDE DEF s
      <4>3. s # << >>
        BY <4>2, EmptyFacts
      <4>4. s[1] = buf[1]
        BY <4>2 DEF Begins
      <4> QED BY <1>2, <2>7, <3>1, <4>3, <4>4 DEF s
    <3>4. chunkSize' = Size[d]
      BY <1>1, <3>2, <3>3
    <3>5. buf' = SubSeq(buf, Len(SizeLine(d)) + 1, Len(buf))
      <4>1. Index(Crlf) + Len(Crlf) = Len(SizeLine(d)) + 1
        BY <2>4, <3>1, CrlfFacts
      <4> QED BY <1>1, <2>9, <4>1 DEF Rest
    <3>6. buf' \in Bytes /\ Begins(buf' \o coming', r) /\ (whole' => buf' \o coming' = r)
      <4>1. Len(SizeLine(d)) <= Len(buf) /\ UNCHANGED <<coming, whole>>
        BY <1>1, <2>4, <3>1
      <4> QED BY <1>2, <2>4, <2>5, <3>5, <4>1, Used
    <3>7. CASE k = NumPieces
      <4>1. phase' = "last"
        BY <1>1, <2>3, <3>4, <3>7
      <4>2. body' = Content /\ Begins(body', Content)
        BY <1>1, <2>5, <2>8, <3>7, SoFarFacts
      <4>3. HttpTypes'
        BY <1>1, <1>3, <2>3, <3>4, <3>6, <4>1 DEF HttpInv, HttpTypes, Phases
      <4>4. HttpPlace'
        BY <4>1, <4>2 DEF HttpPlace
      <4> QED BY <4>3, <4>4 DEF HttpInv
    <3>8. CASE k # NumPieces
      <4> DEFINE l == k + 1
      <4>0. l - 1 = k
        BY PieceFacts
      <4>1. l \in 1 .. NumPieces /\ Size[d] = Len(Pieces[l]) /\ Size[d] > 0
            /\ r = Pieces[l] \o (Crlf \o ToCome[l])
        BY <2>3, <3>8
      <4> HIDE DEF l
      <4>2. phase' = "data"
        BY <1>1, <1>3, <2>3, <3>4, <4>1
      <4>3. Comes(Pieces[l] \o (Crlf \o ToCome[l]))'
        BY <3>6, <4>1 DEF Comes
      <4>4. AtData(l)'
        BY <1>1, <2>5, <3>4, <4>0, <4>1, <4>3 DEF AtData
      <4>5. HttpTypes'
        BY <1>1, <1>3, <2>3, <3>4, <3>6, <4>2 DEF HttpInv, HttpTypes, Phases
      <4>6. HttpPlace'
        BY <4>1, <4>2, <4>4 DEF HttpPlace
      <4> QED BY <4>5, <4>6 DEF HttpInv
    <3> QED BY <3>7, <3>8
  <2>10. CASE ~ Found(Crlf)
    <3>1. coming = << >> /\ ~ (3 <= Len(buf))
      BY <1>1, <2>7, <2>10 DEF Ready, LineReady, Eof
    <3>2. ~ whole
      <4>1. buf \o coming = SizeLine(d) \o r /\ coming = << >> => Len(buf) = Len(SizeLine(d)) + Len(r)
        BY <1>2, <2>4, <2>6, Received
      <4>2. Len(r) \in Nat
        BY BytesLen
      <4> QED BY <1>2, <2>4, <2>6, <3>1, <4>1, <4>2
    <3>3. Before(Crlf) = buf /\ buf' = << >>
      BY <1>1, <2>10 DEF Before, Rest
    <3>4. chunkSize' \in Nat
      <4>1. CASE buf = << >>
        BY <1>1, <3>3, <4>1
      <4>2. CASE buf # << >>
        <5>1. Len(buf) > 0
          BY <1>2, <4>2, EmptySeq DEF Bytes
        <5>2. chunkSize' = Size[d]
          BY <1>1, <2>7, <3>3, <4>2, <5>1
        <5> QED BY <1>3, <2>3, <5>2
      <4> QED BY <4>1, <4>2
    <3>5. CutOff'
      BY <1>1, <2>5, <2>8, <3>1, <3>2, <3>3 DEF CutOff
    <3>6. phase' \in {"last", "data"}
      BY <1>1
    <3>7. HttpTypes'
      BY <1>1, <3>3, <3>4, <3>6, EmptyFacts DEF HttpInv, HttpTypes, Phases
    <3>8. HttpPlace'
      BY <3>5, <3>6 DEF HttpPlace, CutOff
    <3> QED BY <3>7, <3>8 DEF HttpInv
  <2> QED BY <2>9, <2>10
<1> QED BY <1>1, <1>4, <1>5 DEF HttpInv, HttpPlace

LEMMA ChunkDataInv ==
  ASSUME HttpInv, ChunkData
  PROVE  HttpInv'
<1>1. /\ phase = "data" /\ Ready /\ phase' = "line"
      /\ body' = body \o Taken(chunkSize)
      /\ buf' = SubSeq(buf, Len(Taken(chunkSize + 2)) + 1, Len(buf))
      /\ UNCHANGED <<framing, whole, coming, chunkSize>>
  BY DEF ChunkData
<1>2. HttpTypes /\ buf \in Bytes /\ coming \in Bytes /\ body \in Bytes /\ Len(buf) \in Nat
      /\ chunkSize \in Nat /\ chunkSize + 2 \in Nat
  BY BytesLen DEF HttpInv, HttpTypes
<1> DEFINE t == Taken(chunkSize)
           u == Taken(chunkSize + 2)
<1>3. t \in Bytes /\ Begins(t, buf) /\ (Len(t) = IF chunkSize <= Len(buf) THEN chunkSize ELSE Len(buf))
      /\ (chunkSize <= Len(buf) => t = SubSeq(buf, 1, chunkSize))
  BY <1>2, TakenFacts
<1>4. u \in Bytes /\ Len(u) = IF chunkSize + 2 <= Len(buf) THEN chunkSize + 2 ELSE Len(buf)
  BY <1>2, TakenFacts
<1> HIDE DEF t, u
<1>5. body' = body \o t /\ buf' = SubSeq(buf, Len(u) + 1, Len(buf))
  BY <1>1 DEF t, u
<1>6. body' \in Bytes
  BY <1>2, <1>3, <1>5, JoinedType
<1>7. ASSUME Len(u) = Len(buf) PROVE buf' = << >>
  <2>1. SubSeq(buf, Len(u) + 1, Len(buf)) = << >>
    BY <1>2, <1>7, Behind
  <2> QED BY <1>5, <2>1
<1>8. CASE CutOff
  <2>1. Len(buf) = 0
    BY <1>8, EmptyFacts DEF CutOff
  <2>2. Len(u) = Len(buf) /\ Len(t) = 0
    BY <1>2, <1>3, <1>4, <2>1
  <2>3. t = << >>
    BY <1>3, <2>2, EmptySeq DEF Bytes
  <2>4. body' = body
    BY <1>2, <1>5, <2>3, EmptyFacts
  <2>5. CutOff'
    BY <1>1, <1>7, <1>8, <2>2, <2>4 DEF CutOff
  <2>6. HttpTypes'
    BY <1>1, <1>6, <1>7, <2>2, EmptyFacts DEF HttpInv, HttpTypes, Phases
  <2>7. HttpPlace'
    BY <1>1, <2>5 DEF HttpPlace
  <2> QED BY <2>6, <2>7 DEF HttpInv
<1>9. CASE \E k \in 1 .. NumPieces : AtData(k)
  <2>1. PICK k \in 1 .. NumPieces : AtData(k)
    BY <1>9
  <2> DEFINE p == Pieces[k]
             T == ToCome[k]
             a == p \o Crlf
  <2>2. /\ k \in 0 .. NumPieces /\ k - 1 \in 0 .. NumPieces
        /\ p \in Bytes /\ T \in Bytes /\ SoFar[k] \in Bytes /\ SoFar[k - 1] \in Bytes /\ Content \in Bytes
        /\ SoFar[k] = SoFar[k - 1] \o p
    <3>1. k \in 0 .. NumPieces /\ k - 1 \in 0 .. NumPieces
      BY PieceFacts
    <3>2. p \in Bytes
      BY PieceFacts
    <3>3. T \in Bytes
      BY <3>1, ToComeFacts
    <3>4. SoFar[k] \in Bytes /\ SoFar[k - 1] \in Bytes /\ Content \in Bytes
      BY <3>1, SoFarFacts
    <3>5. SoFar[k] = SoFar[k - 1] \o p
      BY SoFarFacts
    <3> QED BY <3>1, <3>2, <3>3, <3>4, <3>5
  <2>3. body = SoFar[k - 1] /\ chunkSize = Len(p) /\ Comes(p \o (Crlf \o T))
    BY <2>1 DEF AtData
  <2> HIDE DEF p, T
  <2>4. /\ a \in Bytes /\ Len(a) = Len(p) + Len(Crlf) /\ Crlf \o T \in Bytes
        /\ a \o T = p \o (Crlf \o T) /\ p \o (Crlf \o T) \in Bytes
    <3>1. a \in Bytes /\ Len(a) = Len(p) + Len(Crlf)
      BY <2>2, CrlfFacts, Joined
    <3>2. Crlf \o T \in Bytes
      BY <2>2, CrlfFacts, JoinedType
    <3>3. a \o T = p \o (Crlf \o T)
      <4>1. p \in Bytes /\ Crlf \in Bytes /\ T \in Bytes
        BY <2>2, CrlfFacts
      <4>2. (p \o Crlf) \o T = p \o (Crlf \o T)
        BY <4>1, Associative
      <4> QED BY <4>2
    <3>4. p \o (Crlf \o T) \in Bytes
      BY <2>2, <3>2, JoinedType
    <3> QED BY <3>1, <3>2, <3>3, <3>4
  <2> HIDE DEF a
  <2>5. Len(a) = chunkSize + 2
    BY <2>3, <2>4, CrlfFacts
  <2>6. /\ Begins(buf \o coming, p \o (Crlf \o T)) /\ (whole => buf \o coming = p \o (Crlf \o T))
        /\ Comes(a \o T)
    BY <2>3, <2>4 DEF Comes
  <2>7. Begins(SoFar[k], Content) /\ Begins(SoFar[k - 1], Content)
    BY <2>2, SoFarBegins
  <2>8. CASE chunkSize + 2 <= Len(buf)
    <3>1. t = p
      <4>1. Len(p) <= Len(buf)
        BY <1>2, <2>3, <2>8
      <4>2. SubSeq(buf, 1, Len(p)) = p
        BY <1>2, <2>2, <2>4, <2>6, <4>1, Consume
      <4> QED BY <1>3, <2>3, <4>1, <4>2
    <3>2. body' = SoFar[k]
      BY <1>5, <2>2, <2>3, <3>1
    <3>3. Len(u) = Len(a) /\ Len(a) <= Len(buf)
      BY <1>4, <2>5, <2>8
    <3>4. buf' = SubSeq(buf, Len(a) + 1, Len(buf)) /\ UNCHANGED <<coming, whole>>
      BY <1>1, <1>5, <3>3
    <3>5. buf' \in Bytes /\ Begins(buf' \o coming', T) /\ (whole' => buf' \o coming' = T)
      BY <1>2, <2>2, <2>4, <2>6, <3>3, <3>4, Used
    <3>6. Comes(ToCome[k])'
      BY <3>5 DEF Comes, T
    <3>7. AtLine(k)'
      BY <3>2, <3>6 DEF AtLine
    <3>8. HttpTypes'
      BY <1>1, <1>6, <3>5 DEF HttpInv, HttpTypes, Phases
    <3>9. HttpPlace'
      BY <1>1, <2>2, <3>7 DEF HttpPlace
    <3> QED BY <3>8, <3>9 DEF HttpInv
  <2>9. CASE ~ (chunkSize + 2 <= Len(buf))
    <3>1. coming = << >>
      BY <1>1, <1>2, <2>9 DEF Ready, DataReady, Eof
    <3>2. ~ whole
      <4>1. Len(T) \in Nat
        BY <2>2, BytesLen
      <4>2. Begins(buf \o coming, a \o T) /\ (whole => buf \o coming = a \o T)
        BY <2>6 DEF Comes
      <4>3. buf \o coming = a \o T /\ coming = << >> => Len(buf) = Len(a) + Len(T)
        BY <1>2, <2>2, <2>4, <4>2, Received
      <4> QED BY <1>2, <2>5, <2>9, <3>1, <4>1, <4>2, <4>3
    <3>3. buf' = << >>
      BY <1>4, <1>7, <2>9
    <3>4. Begins(t, p)
      <4>1. buf \o coming \in Bytes /\ Begins(buf, buf \o coming)
        BY <1>2, StreamFacts
      <4>2. Begins(t, buf \o coming)
        BY <1>2, <1>3, <4>1, BeginsTransitive DEF Bytes
      <4>3. Begins(t, p \o (Crlf \o T))
        BY <1>3, <2>4, <2>6, <4>1, <4>2, BeginsTransitive DEF Bytes
      <4>4. Begins(p, p \o (Crlf \o T))
        BY <2>2, <2>4, FrontBegins DEF Bytes
      <4>5. Len(t) <= Len(p)
        BY <1>2, <1>3, <2>3
      <4> QED BY <1>3, <2>2, <2>4, <4>3, <4>4, <4>5, SameFront DEF Bytes
    <3>5. Begins(body', SoFar[k])
      <4>1. Begins(SoFar[k - 1] \o t, SoFar[k - 1] \o p)
        BY <1>3, <2>2, <3>4, BeginsBehind DEF Bytes
      <4> QED BY <1>5, <2>2, <2>3, <4>1
    <3>6. Begins(body', Content)
      BY <1>6, <2>2, <2>7, <3>5, BeginsTransitive DEF Bytes
    <3>7. CutOff'
      BY <1>1, <3>1, <3>2, <3>3, <3>6 DEF CutOff
    <3>8. HttpTypes'
      BY <1>1, <1>6, <3>3, EmptyFacts DEF HttpInv, HttpTypes, Phases
    <3>9. HttpPlace'
      BY <1>1, <3>7 DEF HttpPlace
    <3> QED BY <3>8, <3>9 DEF HttpInv
  <2> QED BY <2>8, <2>9
<1> QED BY <1>1, <1>8, <1>9 DEF HttpInv, HttpPlace

LEMMA HttpNextInv == HttpInv /\ [HttpNext]_httpVars => HttpInv'
<1> SUFFICES ASSUME HttpInv, [HttpNext]_httpVars PROVE HttpInv'
  OBVIOUS
<1>1. CASE ParseHead
  BY <1>1, ParseHeadInv
<1>2. CASE TakeBody
  BY <1>2, TakeBodyInv
<1>3. CASE ChunkLine
  BY <1>3, ChunkLineInv
<1>4. CASE ChunkData
  BY <1>4, ChunkDataInv
<1>5. CASE ChunkLast
  BY <1>5 DEF ChunkLast, HttpInv, HttpTypes, HttpPlace, Phases
<1>6. CASE Receive
  BY <1>6, ReceiveInv
<1>7. CASE Timeout
  BY <1>7 DEF Timeout, HttpInv, HttpTypes, HttpPlace, Phases
<1>8. ASSUME NEW kind \in Kinds, NEW n \in 0 .. Len(Answer(kind)), Get(kind, n) PROVE HttpInv'
  BY <1>8, GetInv
<1>9. CASE UNCHANGED httpVars
  <2>1. UNCHANGED <<framing, whole, coming, buf, chunkSize, body, phase>>
    BY <1>9 DEF httpVars
  <2>2. HttpTypes'
    BY <2>1 DEF HttpInv, HttpTypes
  <2>3. HttpPlace'
    BY <2>1 DEF HttpInv, HttpPlace, CutOff, AtLine, AtData, Comes
  <2> QED BY <2>2, <2>3 DEF HttpInv
<1> QED BY <1>1, <1>2, <1>3, <1>4, <1>5, <1>6, <1>7, <1>8, <1>9 DEF HttpNext, HttpStep

(* Lines 84-188, http_get() and the loops around recv(): the body that is   *)
(* returned is the content when the whole answer came, however it was       *)
(* framed and cut into pieces.                                              *)
THEOREM BodyIsFramed == HttpSpec => []BodyFramed
<1>1. HttpInv => BodyFramed
  BY DEF HttpInv, HttpPlace, BodyFramed
<1> QED BY <1>1, HttpInitInv, HttpNextInv, PTL DEF HttpSpec

(* Of an answer that the server cuts off, http_get() returns a beginning of *)
(* the content: never line ends or sizes, nothing out of order (lines       *)
(* 98-141).                                                                 *)
THEOREM BodyBegins == HttpSpec => [](phase = "done" => IsPrefix(body, Content))
<1>1. HttpInv => (phase = "done" => IsPrefix(body, Content))
  <2> SUFFICES ASSUME HttpInv, phase = "done" PROVE IsPrefix(body, Content)
    OBVIOUS
  <2>1. Begins(body, Content)
    BY DEF HttpInv, HttpPlace
  <2>2. body \in Bytes /\ Content \in Bytes
    BY SoFarFacts DEF HttpInv, HttpTypes
  <2> QED BY <2>1, <2>2, BeginsIsPrefix DEF Bytes
<1> QED BY <1>1, HttpInitInv, HttpNextInv, PTL DEF HttpSpec

-----------------------------------------------------------------------------
(* dns_query.py: what is where in a datagram.                               *)

Raw == Seq(Nat)
Has(r, o, s) == o + Len(s) <= Len(r) /\ \A i \in 1 .. Len(s) : r[o + i] = s[i]

LEMMA RawLen == \A s \in Raw : Len(s) \in Nat /\ \A i \in 1 .. Len(s) : s[i] \in Nat
BY DEF Raw

LEMMA RawJoined ==
  ASSUME NEW s \in Raw, NEW t \in Raw
  PROVE  /\ s \o t \in Raw /\ Len(s \o t) = Len(s) + Len(t)
         /\ \A i \in 1 .. Len(s) : (s \o t)[i] = s[i]
         /\ \A i \in 1 .. Len(t) : (s \o t)[Len(s) + i] = t[i]
<1>1. /\ s \o t \in Raw /\ Len(s \o t) = Len(s) + Len(t)
      /\ \A i \in 1 .. Len(s) + Len(t) : (s \o t)[i] = IF i <= Len(s) THEN s[i] ELSE t[i - Len(s)]
  BY ConcatProperties DEF Raw
<1>2. Len(s) \in Nat /\ Len(t) \in Nat
  BY RawLen
<1>3. ASSUME NEW i \in 1 .. Len(s) PROVE (s \o t)[i] = s[i]
  BY <1>1, <1>2
<1>4. ASSUME NEW i \in 1 .. Len(t) PROVE (s \o t)[Len(s) + i] = t[i]
  <2>1. Len(s) + i \in 1 .. Len(s) + Len(t) /\ ~ (Len(s) + i <= Len(s)) /\ (Len(s) + i) - Len(s) = i
    BY <1>2
  <2> QED BY <1>1, <2>1
<1> QED BY <1>1, <1>3, <1>4

LEMMA HasParts ==
  ASSUME NEW r \in Raw, NEW o \in Nat, NEW s \in Raw, NEW t \in Raw, Has(r, o, s \o t)
  PROVE  Has(r, o, s) /\ Has(r, o + Len(s), t)
<1>1. Len(s) \in Nat /\ Len(t) \in Nat /\ Len(r) \in Nat
  BY RawLen
<1>2. o + (Len(s) + Len(t)) <= Len(r)
  BY RawJoined DEF Has
<1>3. ASSUME NEW i \in 1 .. Len(s) PROVE r[o + i] = s[i]
  <2>1. i \in 1 .. Len(s \o t) /\ (s \o t)[i] = s[i]
    BY <1>1, RawJoined
  <2> QED BY <2>1 DEF Has
<1>4. ASSUME NEW i \in 1 .. Len(t) PROVE r[o + Len(s) + i] = t[i]
  <2>1. Len(s) + i \in 1 .. Len(s \o t) /\ (s \o t)[Len(s) + i] = t[i]
    BY <1>1, RawJoined
  <2>2. r[o + (Len(s) + i)] = (s \o t)[Len(s) + i]
    BY <2>1 DEF Has
  <2>3. o + (Len(s) + i) = o + Len(s) + i
    BY <1>1
  <2> QED BY <2>1, <2>2, <2>3
<1> QED BY <1>1, <1>2, <1>3, <1>4 DEF Has

LEMMA HasWithin ==
  ASSUME NEW r \in Raw, NEW o \in Nat, NEW s \in Raw, NEW p \in Nat, NEW t \in Raw,
         Has(r, o, s), Has(s, p, t)
  PROVE  Has(r, o + p, t)
<1>1. Len(s) \in Nat /\ Len(t) \in Nat /\ Len(r) \in Nat
  BY RawLen
<1>2. o + Len(s) <= Len(r) /\ p + Len(t) <= Len(s)
  BY DEF Has
<1>3. ASSUME NEW i \in 1 .. Len(t) PROVE r[o + p + i] = t[i]
  <2>1. p + i \in 1 .. Len(s) /\ o + (p + i) = o + p + i
    BY <1>1, <1>2
  <2>2. r[o + (p + i)] = s[p + i] /\ s[p + i] = t[i]
    BY <2>1 DEF Has
  <2> QED BY <2>1, <2>2
<1> QED BY <1>1, <1>2, <1>3 DEF Has

LEMMA HasFront ==
  ASSUME NEW r \in Raw, NEW s \in Raw, Begins(s, r)
  PROVE  Has(r, 0, s)
<1>1. Len(s) \in Nat /\ Len(r) \in Nat
  BY RawLen
<1>2. \A i \in 1 .. Len(s) : 0 + i = i
  BY <1>1
<1> QED BY <1>1, <1>2 DEF Begins, Has

(* A beginning has what it ends with where the beginning before it ends.    *)
LEMMA HasLast ==
  ASSUME NEW r \in Raw, NEW s \in Raw, NEW t \in Raw, Begins(s \o t, r)
  PROVE  Has(r, Len(s), t)
<1>1. Len(s) \in Nat /\ Len(t) \in Nat /\ Len(r) \in Nat /\ s \o t \in Raw /\ Len(s \o t) = Len(s) + Len(t)
  BY RawLen, RawJoined
<1>2. Has(r, 0, s \o t)
  BY <1>1, HasFront
<1>3. Has(r, 0 + Len(s), t)
  BY <1>2, HasParts
<1> QED BY <1>1, <1>3

-----------------------------------------------------------------------------
(* Names and how they are written.                                          *)

Names == Seq(Raw)
LabelSizes == 1 .. 191
NumLabels == Len(QName)
Counted(label) == <<Len(label)>> \o label
Labels == [k \in DOMAIN QName |-> Counted(QName[k])]
Encoded == EncodeName(QName)

(* The encoding of the first k labels of the name.                          *)
IsEncodedTo(f) == Chain(f, Labels) /\ EncodeLabels(QName) = f[NumLabels]
EncodedTo == CHOOSE f \in [0 .. NumLabels -> Raw] : IsEncodedTo(f)

LEMMA NameFacts ==
  /\ QName \in Names /\ NumLabels \in Nat \ {0} /\ DOMAIN QName = 1 .. NumLabels
  /\ \A k \in 1 .. NumLabels : QName[k] \in Raw /\ Len(QName[k]) \in LabelSizes
  /\ Sub \in Raw /\ Len(Sub) \in LabelSizes
<1>1. QName \in Seq(Seq(0 .. 255)) /\ QName # << >> /\ Sub \in Seq(0 .. 255)
  BY DnsAssumption
<1>2. ASSUME NEW s \in Seq(0 .. 255) PROVE s \in Raw
  <2>1. 0 .. 255 \subseteq Nat
    OBVIOUS
  <2> QED BY <2>1, SeqMonotonic DEF Raw
<1>3. NumLabels \in Nat \ {0} /\ DOMAIN QName = 1 .. NumLabels
  BY <1>1 DEF NumLabels
<1>4. ASSUME NEW k \in 1 .. NumLabels PROVE QName[k] \in Raw /\ Len(QName[k]) \in LabelSizes
  <2>1. QName[k] \in Seq(0 .. 255)
    BY <1>1, <1>3, ElementInRange
  <2>2. QName[k] \in {QName[j] : j \in DOMAIN QName} \cup {Sub}
    BY <1>3
  <2>3. QName[k] \in Raw
    BY <1>2, <2>1
  <2>4. Len(QName[k]) \in LabelSizes
    BY <2>2, DnsAssumption DEF LabelSizes
  <2> QED BY <2>3, <2>4
<1>5. Len(Sub) \in LabelSizes
  BY DnsAssumption DEF LabelSizes
<1>6. QName \in Names
  <2>1. QName \in [1 .. NumLabels -> Raw]
    BY <1>1, <1>3, <1>4
  <2> QED BY <1>3, <2>1 DEF Names
<1> QED BY <1>1, <1>2, <1>3, <1>4, <1>5, <1>6

LEMMA CountedFacts ==
  ASSUME NEW label \in Raw
  PROVE  /\ Counted(label) \in Raw /\ Len(Counted(label)) = 1 + Len(label)
         /\ Counted(label)[1] = Len(label) /\ \A i \in 1 .. Len(label) : Counted(label)[1 + i] = label[i]
<1> DEFINE n == Len(label)
<1>1. n \in Nat
  BY RawLen
<1> HIDE DEF n
<1>2. <<n>> \in Raw /\ Len(<<n>>) = 1 /\ <<n>>[1] = n /\ 1 \in 1 .. Len(<<n>>)
  BY <1>1 DEF Raw
<1>3. /\ <<n>> \o label \in Raw /\ Len(<<n>> \o label) = Len(<<n>>) + Len(label)
      /\ \A i \in 1 .. Len(<<n>>) : (<<n>> \o label)[i] = <<n>>[i]
      /\ \A i \in 1 .. Len(label) : (<<n>> \o label)[Len(<<n>>) + i] = label[i]
  BY <1>2, RawJoined
<1> QED BY <1>2, <1>3 DEF Counted, n

LEMMA EncodedToFacts ==
  /\ EncodedTo \in [0 .. NumLabels -> Raw]
  /\ EncodedTo[0] = << >>
  /\ \A k \in 1 .. NumLabels : EncodedTo[k] = EncodedTo[k - 1] \o Counted(QName[k])
  /\ EncodeLabels(QName) = EncodedTo[NumLabels] /\ EncodedTo[NumLabels] \in Raw
  /\ \A k \in 0 .. NumLabels : Begins(EncodedTo[k], EncodedTo[NumLabels])
<1>1. NumLabels \in Nat /\ DOMAIN QName = 1 .. NumLabels /\ \A k \in 1 .. NumLabels : Counted(QName[k]) \in Raw
  BY NameFacts, CountedFacts
<1>2. Labels \in Seq(Raw) /\ Len(Labels) = NumLabels /\ \A k \in 1 .. NumLabels : Labels[k] = Counted(QName[k])
  <2>1. Labels \in [1 .. NumLabels -> Raw] /\ \A k \in 1 .. NumLabels : Labels[k] = Counted(QName[k])
    BY <1>1 DEF Labels
  <2> QED BY <1>1, <2>1
<1>3. \E f \in [0 .. Len(Labels) -> Seq(Nat)] : Chain(f, Labels) /\ FlattenSeq(Labels) = f[Len(Labels)]
  BY <1>2, Flattened DEF Raw
<1>4. FlattenSeq(Labels) = EncodeLabels(QName)
  BY DEF EncodeLabels, Labels, Counted
<1>5. \E f \in [0 .. NumLabels -> Raw] : IsEncodedTo(f)
  BY <1>2, <1>3, <1>4 DEF IsEncodedTo, Raw
<1>6. EncodedTo \in [0 .. NumLabels -> Raw] /\ IsEncodedTo(EncodedTo)
  BY <1>5 DEF EncodedTo
<1>7. \A k \in 0 .. Len(Labels) : Begins(EncodedTo[k], EncodedTo[Len(Labels)])
  BY <1>2, <1>6, ChainBegins DEF IsEncodedTo, Raw
<1>8. NumLabels \in 0 .. NumLabels
  BY <1>1
<1> QED BY <1>2, <1>6, <1>7, <1>8 DEF IsEncodedTo, Chain

LEMMA EncodedFacts ==
  /\ Encoded \in Raw /\ Encoded = EncodedTo[NumLabels] \o <<0>>
  /\ Len(Encoded) = Len(EncodedTo[NumLabels]) + 1
  /\ Has(Encoded, Len(EncodedTo[NumLabels]), <<0>>)
  /\ \A k \in 1 .. NumLabels : Has(Encoded, Len(EncodedTo[k - 1]), Counted(QName[k]))
<1> DEFINE l == EncodedTo[NumLabels]
<1>1. l \in Raw /\ <<0>> \in Raw /\ Len(<<0>>) = 1
  BY EncodedToFacts DEF Raw
<1>2. Encoded = l \o <<0>>
  BY EncodedToFacts DEF Encoded, EncodeName
<1>3. Encoded \in Raw /\ Len(Encoded) = Len(l) + 1
  BY <1>1, <1>2, RawJoined
<1>4. Begins(Encoded, Encoded)
  BY <1>3, BeginsItself DEF Raw
<1>5. Begins(l, Encoded)
  BY <1>1, <1>2, FrontBegins DEF Raw
<1>6. Has(Encoded, Len(l), <<0>>)
  <2>1. Begins(l \o <<0>>, Encoded)
    BY <1>2, <1>4
  <2> HIDE DEF l
  <2> QED BY <1>1, <1>3, <2>1, HasLast
<1>7. ASSUME NEW k \in 1 .. NumLabels PROVE Has(Encoded, Len(EncodedTo[k - 1]), Counted(QName[k]))
  <2>1. k - 1 \in 0 .. NumLabels /\ k \in 0 .. NumLabels /\ Counted(QName[k]) \in Raw
    BY NameFacts, CountedFacts
  <2>2. EncodedTo[k - 1] \in Raw /\ EncodedTo[k] \in Raw /\ EncodedTo[k] = EncodedTo[k - 1] \o Counted(QName[k])
    BY <2>1, EncodedToFacts
  <2>3. Begins(EncodedTo[k], l)
    BY <2>1, EncodedToFacts
  <2> HIDE DEF l
  <2>4. Begins(EncodedTo[k], Encoded)
    BY <1>1, <1>3, <1>5, <2>2, <2>3, BeginsTransitive DEF Raw
  <2> QED BY <1>3, <2>1, <2>2, <2>4, HasLast
<1> QED BY <1>2, <1>3, <1>6, <1>7

-----------------------------------------------------------------------------
(* What is spelled where: the name that read_name() finds at offset o, when *)
(* it is nm and the field it stands in ends at e.  Offsets with their names *)
(* make up a set in which each is followed by what read_name() goes on to.  *)

PointerAt(r, o) == (r[o + 1] % 64) * 256 + r[o + 2]
Follows(r, S, o, nm, e) ==
  \/ nm = << >> /\ o < Len(r) /\ r[o + 1] = 0 /\ e = o + 1
  \/ /\ o + 1 < Len(r) /\ r[o + 1] >= 192 /\ e = o + 2
     /\ \E f \in Nat : <<PointerAt(r, o), nm, f>> \in S
  \/ /\ nm # << >> /\ Len(nm[1]) \in LabelSizes /\ Has(r, o, Counted(nm[1]))
     /\ <<o + 1 + Len(nm[1]), Tail(nm), e>> \in S
Legible(r, S) ==
  \A o \in Nat, nm \in Names, e \in Nat : <<o, nm, e>> \in S => Follows(r, S, o, nm, e)
Spelled(r, o, nm, e) == \E S \in SUBSET (Nat \X Names \X Nat) : Legible(r, S) /\ <<o, nm, e>> \in S

LEMMA PointerAtType == ASSUME NEW r \in Raw, NEW o \in Nat, o + 1 < Len(r) PROVE PointerAt(r, o) \in Nat
<1>1. o + 1 \in 1 .. Len(r) /\ o + 2 \in 1 .. Len(r)
  BY RawLen
<1>2. r[o + 1] \in Nat /\ r[o + 2] \in Nat
  BY <1>1, RawLen
<1> QED BY <1>2 DEF PointerAt

LEMMA SpelledSo ==
  ASSUME NEW r \in Raw, NEW o \in Nat, NEW nm \in Names, NEW e \in Nat, Spelled(r, o, nm, e)
  PROVE  \/ nm = << >> /\ o < Len(r) /\ r[o + 1] = 0 /\ e = o + 1
         \/ /\ o + 1 < Len(r) /\ r[o + 1] >= 192 /\ e = o + 2
            /\ \E f \in Nat : Spelled(r, PointerAt(r, o), nm, f)
         \/ /\ nm # << >> /\ Len(nm[1]) \in LabelSizes /\ Has(r, o, Counted(nm[1]))
            /\ Spelled(r, o + 1 + Len(nm[1]), Tail(nm), e)
<1>1. PICK S \in SUBSET (Nat \X Names \X Nat) : Legible(r, S) /\ <<o, nm, e>> \in S
  BY DEF Spelled
<1>2. CASE nm = << >> /\ o < Len(r) /\ r[o + 1] = 0 /\ e = o + 1
  BY <1>2
<1>3. CASE /\ o + 1 < Len(r) /\ r[o + 1] >= 192 /\ e = o + 2
           /\ \E f \in Nat : <<PointerAt(r, o), nm, f>> \in S
  <2>1. \E f \in Nat : Spelled(r, PointerAt(r, o), nm, f)
    BY <1>1, <1>3 DEF Spelled
  <2> QED BY <1>3, <2>1
<1>4. CASE /\ nm # << >> /\ Len(nm[1]) \in LabelSizes /\ Has(r, o, Counted(nm[1]))
           /\ <<o + 1 + Len(nm[1]), Tail(nm), e>> \in S
  <2>1. Spelled(r, o + 1 + Len(nm[1]), Tail(nm), e)
    BY <1>1, <1>4 DEF Spelled
  <2> QED BY <1>4, <2>1
<1> QED BY <1>1, <1>2, <1>3, <1>4 DEF Legible, Follows

LEMMA SpelledPointer ==
  ASSUME NEW r \in Raw, NEW o \in Nat, NEW nm \in Names, NEW f \in Nat,
         o + 1 < Len(r), r[o + 1] >= 192, Spelled(r, PointerAt(r, o), nm, f)
  PROVE  Spelled(r, o, nm, o + 2)
<1>1. PICK S \in SUBSET (Nat \X Names \X Nat) : Legible(r, S) /\ <<PointerAt(r, o), nm, f>> \in S
  BY DEF Spelled
<1> DEFINE Z == S \cup {<<o, nm, o + 2>>}
<1>2. Z \in SUBSET (Nat \X Names \X Nat) /\ <<o, nm, o + 2>> \in Z
  BY <1>1
<1>3. ASSUME NEW a \in Nat, NEW w \in Names, NEW b \in Nat, <<a, w, b>> \in Z PROVE Follows(r, Z, a, w, b)
  <2>1. CASE <<a, w, b>> \in S
    <3>1. Follows(r, S, a, w, b)
      BY <1>1, <2>1 DEF Legible
    <3> QED BY <3>1 DEF Follows
  <2>2. CASE <<a, w, b>> \notin S
    <3>1. a = o /\ w = nm /\ b = o + 2
      BY <1>3, <2>2
    <3>2. \E g \in Nat : <<PointerAt(r, o), nm, g>> \in Z
      BY <1>1
    <3> HIDE DEF Z
    <3> QED BY <3>1, <3>2 DEF Follows
  <2> QED BY <2>1, <2>2
<1>4. Legible(r, Z)
  BY <1>3 DEF Legible
<1> QED BY <1>2, <1>4 DEF Spelled

LEMMA SpelledLabel ==
  ASSUME NEW r \in Raw, NEW o \in Nat, NEW label \in Raw, NEW nm \in Names, NEW e \in Nat,
         Len(label) \in LabelSizes, Has(r, o, Counted(label)), Spelled(r, o + 1 + Len(label), nm, e)
  PROVE  <<label>> \o nm \in Names /\ Spelled(r, o, <<label>> \o nm, e)
<1> DEFINE w == <<label>> \o nm
<1>1. w \in Names /\ w # << >> /\ w[1] = label /\ Tail(w) = nm
  <2>1. <<label>> \in Names /\ Len(<<label>>) = 1 /\ <<label>>[1] = label
    BY DEF Names
  <2>2. /\ w \in Names /\ Len(w) = 1 + Len(nm)
        /\ \A i \in 1 .. 1 + Len(nm) : w[i] = IF i <= 1 THEN <<label>>[i] ELSE nm[i - 1]
    BY <2>1, ConcatProperties DEF Names
  <2>3. Len(nm) \in Nat
    BY DEF Names
  <2> HIDE DEF w
  <2>4. w # << >> /\ w[1] = label
    BY <2>1, <2>2, <2>3 DEF Names
  <2>5. Tail(w) \in Names /\ Len(Tail(w)) = Len(nm) /\ \A i \in 1 .. Len(nm) : Tail(w)[i] = nm[i]
    BY <2>2, <2>3, <2>4, HeadTailProperties DEF Names
  <2>6. Tail(w) = nm
    BY <2>5, SeqEqual DEF Names
  <2> QED BY <2>2, <2>4, <2>6
<1> HIDE DEF w
<1>2. PICK S \in SUBSET (Nat \X Names \X Nat) : Legible(r, S) /\ <<o + 1 + Len(label), nm, e>> \in S
  BY DEF Spelled
<1> DEFINE Z == S \cup {<<o, w, e>>}
<1>3. Z \in SUBSET (Nat \X Names \X Nat) /\ <<o, w, e>> \in Z
  BY <1>1, <1>2
<1>4. ASSUME NEW a \in Nat, NEW v \in Names, NEW b \in Nat, <<a, v, b>> \in Z PROVE Follows(r, Z, a, v, b)
  <2>1. CASE <<a, v, b>> \in S
    <3>1. Follows(r, S, a, v, b)
      BY <1>2, <2>1 DEF Legible
    <3> QED BY <3>1 DEF Follows
  <2>2. CASE <<a, v, b>> \notin S
    <3>1. a = o /\ v = w /\ b = e
      BY <1>4, <2>2
    <3>2. <<o + 1 + Len(label), nm, e>> \in Z
      BY <1>2
    <3> HIDE DEF Z
    <3> QED BY <1>1, <3>1, <3>2 DEF Follows
  <2> QED BY <2>1, <2>2
<1>5. Legible(r, Z)
  BY <1>4 DEF Legible
<1> QED BY <1>1, <1>3, <1>5 DEF Spelled, w

(* A whole encoding of the name spells it, and from its second label on it  *)
(* spells the rest.                                                         *)
RestFrom(k) == SubSeq(QName, k + 1, NumLabels)

LEMMA RestFromFacts ==
  /\ RestFrom(0) = QName /\ RestFrom(1) = Tail(QName) /\ RestFrom(NumLabels) = << >>
  /\ \A k \in 0 .. NumLabels : RestFrom(k) \in Names
  /\ \A k \in 0 .. NumLabels - 1 : RestFrom(k) # << >> /\ RestFrom(k)[1] = QName[k + 1] /\ Tail(RestFrom(k)) = RestFrom(k + 1)
<1>1. QName \in Seq(Raw) /\ NumLabels \in Nat \ {0} /\ NumLabels = Len(QName) /\ QName # << >>
  BY NameFacts, DnsAssumption DEF Names, NumLabels
<1>2. RestFrom(0) = QName
  <2>1. SubSeq(QName, 1, Len(QName)) = QName
    BY <1>1, SubSeqFull
  <2> QED BY <1>1, <2>1 DEF RestFrom
<1>3. RestFrom(1) = Tail(QName)
  <2>1. Tail(QName) = SubSeq(QName, 2, Len(QName))
    BY <1>1, TailIsSubSeq
  <2> QED BY <1>1, <2>1 DEF RestFrom
<1>4. RestFrom(NumLabels) = << >>
  <2>1. NumLabels + 1 \in Int /\ NumLabels \in Int /\ NumLabels < NumLabels + 1
    BY <1>1
  <2>2. SubSeq(QName, NumLabels + 1, NumLabels) = << >>
    BY <2>1, SubSeqEmpty
  <2> QED BY <2>2 DEF RestFrom
<1>5. ASSUME NEW k \in 0 .. NumLabels
      PROVE /\ RestFrom(k) \in Names /\ Len(RestFrom(k)) = NumLabels - k
            /\ \A i \in 1 .. NumLabels - k : RestFrom(k)[i] = QName[k + i]
  <2>1. k + 1 \in Int /\ NumLabels \in Int /\ \A i \in k + 1 .. NumLabels : QName[i] \in Raw
    BY <1>1
  <2> DEFINE s == SubSeq(QName, k + 1, NumLabels)
  <2>2. /\ s \in Seq(Raw) /\ Len(s) = IF k + 1 <= NumLabels THEN NumLabels - (k + 1) + 1 ELSE 0
        /\ \A i \in 1 .. NumLabels - (k + 1) + 1 : s[i] = QName[(k + 1) + i - 1]
    BY <2>1, SubSeqProperties
  <2> HIDE DEF s
  <2>3. Len(s) = NumLabels - k /\ \A i \in 1 .. NumLabels - k : s[i] = QName[k + i]
    BY <1>1, <2>2
  <2> QED BY <2>2, <2>3 DEF s, RestFrom, Names
<1>6. ASSUME NEW k \in 0 .. NumLabels - 1
      PROVE RestFrom(k) # << >> /\ RestFrom(k)[1] = QName[k + 1] /\ Tail(RestFrom(k)) = RestFrom(k + 1)
  <2>1. k \in 0 .. NumLabels /\ k + 1 \in 0 .. NumLabels /\ 1 \in 1 .. NumLabels - k
    BY <1>1
  <2>2. RestFrom(k) \in Names /\ Len(RestFrom(k)) = NumLabels - k /\ \A i \in 1 .. NumLabels - k : RestFrom(k)[i] = QName[k + i]
    BY <1>5, <2>1
  <2>3. RestFrom(k + 1) \in Names /\ Len(RestFrom(k + 1)) = NumLabels - (k + 1)
        /\ \A i \in 1 .. NumLabels - (k + 1) : RestFrom(k + 1)[i] = QName[(k + 1) + i]
    BY <1>5, <2>1
  <2> DEFINE s == RestFrom(k)
             t == RestFrom(k + 1)
  <2> HIDE DEF s, t
  <2>4. s \in Names /\ s # << >> /\ s[1] = QName[k + 1]
    BY <1>1, <2>1, <2>2 DEF s, Names
  <2>5. Tail(s) \in Names /\ Len(Tail(s)) = Len(s) - 1 /\ \A i \in 1 .. Len(s) - 1 : Tail(s)[i] = s[i + 1]
    BY <2>4, HeadTailProperties DEF Names
  <2>6. Len(Tail(s)) = Len(t) /\ \A i \in 1 .. Len(Tail(s)) : Tail(s)[i] = t[i]
    <3>1. Len(s) = NumLabels - k /\ Len(t) = NumLabels - (k + 1)
      BY <2>2, <2>3 DEF s, t
    <3>2. ASSUME NEW i \in 1 .. Len(Tail(s)) PROVE Tail(s)[i] = t[i]
      <4>1. i \in 1 .. Len(s) - 1 /\ i + 1 \in 1 .. NumLabels - k /\ i \in 1 .. NumLabels - (k + 1) /\ k + (i + 1) = (k + 1) + i
        BY <1>1, <2>5, <3>1
      <4>2. s[i + 1] = QName[k + (i + 1)] /\ t[i] = QName[(k + 1) + i]
        BY <2>2, <2>3, <4>1 DEF s, t
      <4> QED BY <2>5, <4>1, <4>2
    <3> QED BY <1>1, <2>5, <3>1, <3>2
  <2>7. Tail(s) = t
    BY <2>3, <2>5, <2>6, SeqEqual DEF Names, t
  <2> QED BY <2>4, <2>7 DEF s, t
<1> QED BY <1>2, <1>3, <1>4, <1>5, <1>6

LEMMA SpelledName ==
  ASSUME NEW r \in Raw, NEW o \in Nat, Has(r, o, Encoded)
  PROVE  /\ Spelled(r, o, QName, o + Len(Encoded))
         /\ Spelled(r, o + 1 + Len(QName[1]), Tail(QName), o + Len(Encoded))
<1> DEFINE At(k) == o + Len(EncodedTo[k])
           e == o + Len(Encoded)
           S == {<<At(k), RestFrom(k), e>> : k \in 0 .. NumLabels}
<1>1. /\ NumLabels \in Nat \ {0} /\ e \in Nat /\ Encoded \in Raw /\ Len(Encoded) \in Nat
      /\ \A k \in 0 .. NumLabels : At(k) \in Nat /\ EncodedTo[k] \in Raw /\ Len(EncodedTo[k]) \in Nat
  <2>1. NumLabels \in Nat \ {0} /\ Encoded \in Raw /\ EncodedTo \in [0 .. NumLabels -> Raw]
    BY NameFacts, EncodedFacts, EncodedToFacts
  <2>2. Len(Encoded) \in Nat /\ e \in Nat
    BY <2>1, RawLen
  <2>3. ASSUME NEW k \in 0 .. NumLabels
        PROVE At(k) \in Nat /\ EncodedTo[k] \in Raw /\ Len(EncodedTo[k]) \in Nat
    <3>1. EncodedTo[k] \in Raw
      BY <2>1
    <3>2. Len(EncodedTo[k]) \in Nat
      BY <3>1, RawLen
    <3> QED BY <3>1, <3>2
  <2> QED BY <2>1, <2>2, <2>3
<1>2. ASSUME NEW k \in 1 .. NumLabels
      PROVE Has(r, At(k - 1), Counted(QName[k])) /\ At(k) = At(k - 1) + 1 + Len(QName[k]) /\ QName[k] \in Raw
  <2>1. /\ k - 1 \in 0 .. NumLabels /\ k \in 0 .. NumLabels /\ QName[k] \in Raw /\ Counted(QName[k]) \in Raw
        /\ Len(Counted(QName[k])) = 1 + Len(QName[k]) /\ Len(QName[k]) \in Nat
    <3>1. k - 1 \in 0 .. NumLabels /\ k \in 0 .. NumLabels
      BY <1>1
    <3>2. QName[k] \in Raw
      BY NameFacts
    <3> QED BY <3>1, <3>2, CountedFacts, RawLen
  <2>2. Has(Encoded, Len(EncodedTo[k - 1]), Counted(QName[k]))
    BY EncodedFacts
  <2>3. EncodedTo[k] = EncodedTo[k - 1] \o Counted(QName[k])
    BY EncodedToFacts
  <2>4. Len(EncodedTo[k]) = Len(EncodedTo[k - 1]) + (1 + Len(QName[k]))
    <3>1. Len(EncodedTo[k - 1] \o Counted(QName[k])) = Len(EncodedTo[k - 1]) + Len(Counted(QName[k]))
      BY <1>1, <2>1, RawJoined
    <3> QED BY <2>1, <2>3, <3>1
  <2>5. Has(r, o + Len(EncodedTo[k - 1]), Counted(QName[k]))
    BY <1>1, <2>1, <2>2, HasWithin
  <2>6. Len(EncodedTo[k - 1]) \in Nat
    BY <1>1, <2>1
  <2>7. o + (Len(EncodedTo[k - 1]) + (1 + Len(QName[k]))) = o + Len(EncodedTo[k - 1]) + 1 + Len(QName[k])
    <3> DEFINE u == Len(EncodedTo[k - 1])
               v == Len(QName[k])
    <3>1. u \in Nat /\ v \in Nat
      BY <2>1, <2>6
    <3> HIDE DEF u, v
    <3>2. o + (u + (1 + v)) = o + u + 1 + v
      BY <3>1
    <3> QED BY <3>2 DEF u, v
  <2> QED BY <2>1, <2>4, <2>5, <2>7
<1>3. At(NumLabels) < Len(r) /\ r[At(NumLabels) + 1] = 0 /\ e = At(NumLabels) + 1
  <2>1. Has(Encoded, Len(EncodedTo[NumLabels]), <<0>>) /\ Len(Encoded) = Len(EncodedTo[NumLabels]) + 1
    BY EncodedFacts
  <2>2. <<0>> \in Raw /\ Len(<<0>>) = 1 /\ <<0>>[1] = 0 /\ 1 \in 1 .. Len(<<0>>)
    BY DEF Raw
  <2>3. NumLabels \in 0 .. NumLabels
    BY <1>1
  <2>4. Has(r, At(NumLabels), <<0>>)
    BY <1>1, <2>1, <2>2, <2>3, HasWithin
  <2>5. Len(r) \in Nat
    BY RawLen
  <2> HIDE DEF At
  <2>6. r[At(NumLabels) + 1] = 0 /\ At(NumLabels) + 1 <= Len(r)
    BY <2>2, <2>4 DEF Has
  <2> QED BY <1>1, <2>1, <2>3, <2>5, <2>6 DEF At
<1>4. At(0) = o /\ At(1) = o + 1 + Len(QName[1])
  <2>1. EncodedTo[0] = << >> /\ Len(<< >>) = 0
    BY EncodedToFacts
  <2>2. At(0) = o
    BY <2>1
  <2>3. 1 \in 1 .. NumLabels /\ 1 - 1 = 0
    BY <1>1
  <2> HIDE DEF At
  <2>4. At(1) = At(1 - 1) + 1 + Len(QName[1])
    BY <1>2, <2>3
  <2> QED BY <2>2, <2>3, <2>4
<1> HIDE DEF At, e
<1>5. S \in SUBSET (Nat \X Names \X Nat)
  BY <1>1, RestFromFacts
<1>6. ASSUME NEW a \in Nat, NEW w \in Names, NEW b \in Nat, <<a, w, b>> \in S PROVE Follows(r, S, a, w, b)
  <2>1. PICK k \in 0 .. NumLabels : a = At(k) /\ w = RestFrom(k) /\ b = e
    BY <1>6
  <2>2. CASE k = NumLabels
    <3>1. w = << >>
      BY <2>1, <2>2, RestFromFacts
    <3> QED BY <1>3, <2>1, <2>2, <3>1 DEF Follows
  <2>3. CASE k # NumLabels
    <3>1. k \in 0 .. NumLabels - 1 /\ k + 1 \in 1 .. NumLabels /\ k + 1 \in 0 .. NumLabels /\ (k + 1) - 1 = k
      BY <1>1, <2>3
    <3>2. w # << >> /\ w[1] = QName[k + 1] /\ Tail(w) = RestFrom(k + 1)
      BY <2>1, <3>1, RestFromFacts
    <3>3. Len(w[1]) \in LabelSizes
      BY <3>1, <3>2, NameFacts
    <3>4. Has(r, a, Counted(w[1])) /\ At(k + 1) = a + 1 + Len(w[1])
      BY <1>2, <2>1, <3>1, <3>2
    <3>5. <<At(k + 1), RestFrom(k + 1), e>> \in S
      BY <3>1
    <3> HIDE DEF S
    <3> QED BY <2>1, <3>2, <3>3, <3>4, <3>5 DEF Follows
  <2> QED BY <2>2, <2>3
<1>7. Legible(r, S)
  BY <1>6 DEF Legible
<1>8. <<At(0), RestFrom(0), e>> \in S /\ <<At(1), RestFrom(1), e>> \in S
  BY <1>1
<1> HIDE DEF S
<1>9. Spelled(r, o, QName, e)
  BY <1>4, <1>5, <1>7, <1>8, RestFromFacts DEF Spelled
<1>10. Spelled(r, o + 1 + Len(QName[1]), Tail(QName), e)
  BY <1>4, <1>5, <1>7, <1>8, RestFromFacts DEF Spelled
<1> QED BY <1>9, <1>10 DEF e

(* A pointer spells what is spelled where it points to.                     *)
LEMMA PointerFacts ==
  ASSUME NEW p \in Nat, p < PointerLimit
  PROVE  Pointer(p) \in Raw /\ Len(Pointer(p)) = 2 /\ Pointer(p)[1] >= 192
         /\ (Pointer(p)[1] % 64) * 256 + Pointer(p)[2] = p
<1> DEFINE q == p \div 256
           m == p % 256
<1>1. q \in 0 .. 63 /\ m \in 0 .. 255 /\ p = 256 * q + m
  BY DEF PointerLimit
<1> HIDE DEF q, m
<1>2. Pointer(p) = <<192 + q, m>>
  BY DEF Pointer, q, m
<1>3. (192 + q) % 64 = q
  BY <1>1
<1>4. q * 256 + m = p
  BY <1>1
<1>5. 192 + q \in Nat /\ m \in Nat /\ 192 + q >= 192
  BY <1>1
<1> DEFINE s == <<192 + q, m>>
<1>6. s \in Raw /\ Len(s) = 2 /\ s[1] = 192 + q /\ s[2] = m
  BY <1>5 DEF Raw
<1> HIDE DEF s
<1>7. Pointer(p) = s
  BY <1>2 DEF s
<1> QED BY <1>3, <1>4, <1>5, <1>6, <1>7

LEMMA SpelledByPointer ==
  ASSUME NEW r \in Raw, NEW o \in Nat, NEW p \in Nat, p < PointerLimit, NEW nm \in Names, NEW f \in Nat,
         Has(r, o, Pointer(p)), Spelled(r, p, nm, f)
  PROVE  Spelled(r, o, nm, o + 2)
<1>1. Pointer(p) \in Raw /\ Len(Pointer(p)) = 2 /\ Pointer(p)[1] >= 192
      /\ (Pointer(p)[1] % 64) * 256 + Pointer(p)[2] = p
  BY PointerFacts
<1> DEFINE pt == Pointer(p)
<1> HIDE DEF pt
<1>2. r[o + 1] = pt[1] /\ r[o + 2] = pt[2] /\ o + 2 <= Len(r)
  BY <1>1 DEF Has, pt
<1>3. PointerAt(r, o) = p
  BY <1>1, <1>2 DEF PointerAt, pt
<1>4. o + 1 < Len(r) /\ r[o + 1] >= 192
  BY <1>1, <1>2, RawLen DEF pt
<1> QED BY <1>3, <1>4, SpelledPointer

LEMMA QueryFacts ==
  /\ Query \in Raw /\ Len(Query) = Len(Encoded) + 4
  /\ SubSeq(Query, HeaderLen + 1, Len(Query)) = Encoded \o <<TypeA>>
  /\ Query[1] = 7
<1> DEFINE h == <<7, 1, 0>>
           t == Encoded \o <<TypeA>>
<1>1. h \in Raw /\ Len(h) = 3 /\ h[1] = 7 /\ <<TypeA>> \in Raw /\ Len(<<TypeA>>) = 1 /\ 1 \in 1 .. Len(h)
  BY DEF Raw, TypeA
<1>2. Encoded \in Raw /\ Len(Encoded) \in Nat
  BY EncodedFacts, RawLen
<1>3. t \in Raw /\ Len(t) = Len(Encoded) + 1
  BY <1>1, <1>2, RawJoined
<1>4. Query = h \o t
  <2>1. Query = (h \o Encoded) \o <<TypeA>>
    BY DEF Query, Encoded
  <2> HIDE DEF h
  <2>2. (h \o Encoded) \o <<TypeA>> = h \o t
    BY <1>1, <1>2, ConcatAssociative, SMTT(30) DEF Raw
  <2> QED BY <2>1, <2>2
<1> HIDE DEF h, t
<1>5. Query \in Raw /\ Len(Query) = 3 + Len(t) /\ Query[1] = 7
  <2>1. /\ h \o t \in Raw /\ Len(h \o t) = Len(h) + Len(t)
        /\ \A i \in 1 .. Len(h) : (h \o t)[i] = h[i]
    BY <1>1, <1>3, RawJoined
  <2> QED BY <1>1, <1>4, <2>1
<1>6. SubSeq(Query, HeaderLen + 1, Len(Query)) = t
  <2>1. SubSeq(h \o t, 4, 3 + Len(t)) = SubSeq(t, 4 - Len(h), (3 + Len(t)) - Len(h))
    <3>1. 4 \in Len(h) + 1 .. Len(h) + Len(t) /\ 3 + Len(t) \in Len(h) + 1 .. Len(h) + Len(t)
      BY <1>1, <1>2, <1>3
    <3>2. h \in Seq(Nat) /\ t \in Seq(Nat)
      BY <1>1, <1>3 DEF Raw
    <3> QED BY <3>1, <3>2, SubSeqOfConcat2
  <2>2. 4 - Len(h) = 1 /\ (3 + Len(t)) - Len(h) = Len(t)
    BY <1>1, <1>2, <1>3
  <2>3. SubSeq(t, 1, Len(t)) = t
    BY <1>3, SubSeqFull DEF Raw
  <2> QED BY <1>4, <1>5, <2>1, <2>2, <2>3 DEF HeaderLen
<1>7. Len(Query) = Len(Encoded) + 4
  BY <1>2, <1>3, <1>5
<1> QED BY <1>5, <1>6, <1>7 DEF t

Forms == {Full, Same, Suffix, Again}
SecondLabel == HeaderLen + 1 + Len(QName[1])

LEMMA Offsets ==
  /\ HeaderLen \in Nat /\ HeaderLen < PointerLimit /\ Len(Query) \in Nat /\ Len(Query) < PointerLimit
  /\ SecondLabel \in Nat /\ SecondLabel < PointerLimit /\ SecondLabel = 3 + 1 + Len(QName[1])
<1>1. Len(Query) \in Nat /\ Len(Query) < PointerLimit /\ Len(Query) = Len(Encoded) + 4 /\ Len(Encoded) \in Nat
  BY QueryFacts, EncodedFacts, RawLen, OffsetAssumption
<1>2. 1 \in 1 .. NumLabels /\ 1 - 1 = 0 /\ QName[1] \in Raw
  BY NameFacts
<1>3. Has(Encoded, 0, Counted(QName[1])) /\ Len(Counted(QName[1])) = 1 + Len(QName[1]) /\ Len(QName[1]) \in Nat
  <2>1. EncodedTo[0] = << >> /\ Len(<< >>) = 0
    BY EncodedToFacts
  <2>2. Has(Encoded, Len(EncodedTo[1 - 1]), Counted(QName[1]))
    BY <1>2, EncodedFacts
  <2> QED BY <1>2, <2>1, <2>2, CountedFacts, RawLen
<1>4. 1 + Len(QName[1]) <= Len(Encoded)
  BY <1>1, <1>3 DEF Has
<1> DEFINE l == Len(QName[1])
           q == Len(Query)
           e == Len(Encoded)
<1>5. l \in Nat /\ e \in Nat /\ q = e + 4 /\ q < PointerLimit /\ 1 + l <= e
  BY <1>1, <1>3, <1>4
<1>6. SecondLabel = 3 + 1 + l
  BY DEF HeaderLen, SecondLabel
<1> HIDE DEF l, q, e
<1>7. PointerLimit \in Nat /\ 3 < PointerLimit
  BY DEF PointerLimit
<1>8. 3 + 1 + l \in Nat /\ 3 + 1 + l < PointerLimit
  BY <1>5, <1>7
<1> QED BY <1>1, <1>6, <1>7, <1>8 DEF HeaderLen, l

LEMMA FormFacts ==
  /\ Full.bytes = Encoded /\ Full.name = QName
  /\ Same.bytes = Pointer(HeaderLen) /\ Same.name = QName
  /\ Suffix.bytes = Counted(Sub) \o Pointer(SecondLabel) /\ Suffix.name = <<Sub>> \o Tail(QName)
  /\ Again.bytes = Pointer(Len(Query)) /\ Again.name = <<Sub>> \o Tail(QName)
  /\ \A a \in Forms : a.bytes \in Raw /\ a.name \in Names
<1>1. EncodeLabels(<<Sub>>) = Counted(Sub)
  <2> DEFINE ss == [k \in DOMAIN <<Sub>> |-> <<Len(<<Sub>>[k])>> \o <<Sub>>[k]]
  <2>1. Sub \in Raw /\ Counted(Sub) \in Raw
    BY NameFacts, CountedFacts
  <2>2. ss \in Seq(Raw) /\ Len(ss) = 1 /\ ss[1] = Counted(Sub)
    <3>1. DOMAIN <<Sub>> = 1 .. 1 /\ <<Sub>>[1] = Sub
      OBVIOUS
    <3>2. ss[1] = Counted(Sub)
      BY <3>1 DEF Counted
    <3>3. ss \in [1 .. 1 -> Raw]
      BY <2>1, <3>1 DEF Counted
    <3> HIDE DEF ss
    <3> QED BY <3>2, <3>3, ArrayIsSequence
  <2>3. FlattenSeq(ss) = EncodeLabels(<<Sub>>)
    BY DEF EncodeLabels
  <2> HIDE DEF ss
  <2>4. PICK f \in [0 .. Len(ss) -> Seq(Nat)] : Chain(f, ss) /\ FlattenSeq(ss) = f[Len(ss)]
    BY <2>2, Flattened DEF Raw
  <2>5. f[0] = << >> /\ 1 \in 1 .. Len(ss) /\ 1 - 1 = 0
    BY <2>2, <2>4 DEF Chain
  <2>6. f[1] = f[1 - 1] \o ss[1]
    BY <2>4, <2>5 DEF Chain
  <2>7. << >> \o Counted(Sub) = Counted(Sub)
    BY <2>1, ConcatEmptySeq DEF Raw
  <2> QED BY <2>2, <2>3, <2>4, <2>5, <2>6, <2>7
<1>2. Full.bytes = Encoded /\ Full.name = QName
  BY DEF Full, Encoded
<1>3. Same.bytes = Pointer(HeaderLen) /\ Same.name = QName
  BY DEF Same
<1>4. Suffix.bytes = Counted(Sub) \o Pointer(SecondLabel) /\ Suffix.name = <<Sub>> \o Tail(QName)
  BY <1>1 DEF Suffix, SecondLabel, Sibling
<1>5. Again.bytes = Pointer(Len(Query)) /\ Again.name = <<Sub>> \o Tail(QName)
  BY DEF Again, Sibling
<1>6. /\ Pointer(HeaderLen) \in Raw /\ Pointer(SecondLabel) \in Raw /\ Pointer(Len(Query)) \in Raw
      /\ Encoded \in Raw /\ Counted(Sub) \in Raw
  <2>1. Pointer(HeaderLen) \in Raw
    BY Offsets, PointerFacts
  <2>2. Pointer(SecondLabel) \in Raw
    BY Offsets, PointerFacts
  <2>3. Pointer(Len(Query)) \in Raw
    BY Offsets, PointerFacts
  <2>4. Counted(Sub) \in Raw
    BY NameFacts, CountedFacts
  <2> QED BY <2>1, <2>2, <2>3, <2>4, EncodedFacts
<1>7. Counted(Sub) \o Pointer(SecondLabel) \in Raw
  BY <1>6, RawJoined
<1>8. QName \in Names /\ <<Sub>> \o Tail(QName) \in Names
  <2>1. QName \in Names /\ QName # << >> /\ <<Sub>> \in Names
    BY NameFacts, DnsAssumption DEF Names
  <2>2. Tail(QName) \in Names
    BY <2>1, HeadTailProperties DEF Names
  <2> QED BY <2>1, <2>2, ConcatProperties DEF Names
<1> QED BY <1>2, <1>3, <1>4, <1>5, <1>6, <1>7, <1>8 DEF Forms

-----------------------------------------------------------------------------
(* The answers of a reply, one behind the other.                            *)

Record(a, k) == a.bytes \o <<TypeA, 4>> \o Address(k)
Records(as) == [k \in DOMAIN as |-> Record(as[k], k)]
IsWritten(f, as) == Chain(f, Records(as)) /\ FlattenSeq(Records(as)) = f[Len(as)]
Written(as) == CHOOSE f \in [0 .. Len(as) -> Raw] : IsWritten(f, as)
Start(as, k) == Len(Query) + Len(Written(as)[k - 1])
Fixed == <<TypeA, 4>>

LEMMA ListFacts ==
  ASSUME NEW as \in AnswerLists
  PROVE  /\ as \in Seq(Forms) /\ Len(as) \in Nat /\ Len(as) \in 0 .. MaxAnswers /\ DOMAIN as = 1 .. Len(as)
         /\ \A k \in 1 .. Len(as) : as[k] \in Forms /\ (as[k] = Again => k > 1 /\ as[1] = Suffix)
<1>1. /\ as \in UNION {[1 .. m -> Forms] : m \in 0 .. MaxAnswers}
      /\ \A k \in DOMAIN as : as[k] = Again => k > 1 /\ as[1] = Suffix
  BY DnsAssumption DEF AnswerLists, BoundedSeq, SeqOf, Forms
<1>2. PICK m \in 0 .. MaxAnswers : as \in [1 .. m -> Forms]
  BY <1>1
<1>3. as \in Seq(Forms) /\ Len(as) = m /\ DOMAIN as = 1 .. m
  <2>1. m \in Nat
    OBVIOUS
  <2> QED BY <1>2, <2>1, ArrayIsSequence
<1>4. \A k \in 1 .. m : as[k] \in Forms
  BY <1>2
<1>5. m \in Nat
  OBVIOUS
<1> QED BY <1>1, <1>3, <1>4, <1>5

LEMMA AddressFacts ==
  ASSUME NEW k \in Nat
  PROVE  Address(k) \in Raw /\ Len(Address(k)) = 4
BY DEF Address, Raw

LEMMA FixedFacts == Fixed \in Raw /\ Len(Fixed) = 2 /\ Fixed[1] = TypeA /\ Fixed[2] = 4
BY DEF Fixed, Raw, TypeA

LEMMA RecordFacts ==
  ASSUME NEW a \in Forms, NEW k \in Nat
  PROVE  /\ Record(a, k) \in Raw /\ Len(Record(a, k)) = Len(a.bytes) + 6
         /\ Has(Record(a, k), 0, a.bytes) /\ Has(Record(a, k), Len(a.bytes), Fixed)
         /\ Has(Record(a, k), Len(a.bytes) + 2, Address(k))
<1> DEFINE b == a.bytes
           r == Record(a, k)
<1>1. b \in Raw /\ Fixed \in Raw /\ Len(Fixed) = 2 /\ Address(k) \in Raw /\ Len(Address(k)) = 4
  BY FormFacts, FixedFacts, AddressFacts
<1>2. r = (b \o Fixed) \o Address(k)
  BY DEF Record, Fixed
<1> HIDE DEF b, r
<1>3. b \o Fixed \in Raw /\ Len(b \o Fixed) = Len(b) + 2 /\ Len(b) \in Nat
  <2>1. b \o Fixed \in Raw /\ Len(b \o Fixed) = Len(b) + Len(Fixed)
    BY <1>1, RawJoined
  <2>2. Len(b) \in Nat
    BY <1>1, RawLen
  <2> QED BY <1>1, <2>1, <2>2
<1>4. r \in Raw /\ Len(r) = Len(b) + 6
  <2>1. (b \o Fixed) \o Address(k) \in Raw
        /\ Len((b \o Fixed) \o Address(k)) = Len(b \o Fixed) + Len(Address(k))
    BY <1>1, <1>3, RawJoined
  <2>2. (Len(b) + 2) + 4 = Len(b) + 6
    BY <1>3
  <2> QED BY <1>1, <1>2, <1>3, <2>1, <2>2
<1>5. Begins(b \o Fixed, r)
  BY <1>1, <1>2, <1>3, FrontBegins DEF Raw
<1>6. Begins(b, b \o Fixed)
  BY <1>1, FrontBegins DEF Raw
<1>7. Begins(b, r)
  BY <1>1, <1>3, <1>4, <1>5, <1>6, BeginsTransitive DEF Raw
<1>8. Has(r, 0, b)
  BY <1>1, <1>3, <1>4, <1>7 DEF Has, Begins
<1>9. Has(r, Len(b), Fixed)
  BY <1>1, <1>4, <1>5, HasLast
<1>10. Has(r, Len(b) + 2, Address(k))
  <2>1. Begins((b \o Fixed) \o Address(k), r)
    BY <1>2, <1>4, BeginsItself DEF Raw
  <2>2. Has(r, Len(b \o Fixed), Address(k))
    BY <1>1, <1>3, <1>4, <2>1, HasLast
  <2> QED BY <1>3, <2>2
<1> QED BY <1>4, <1>8, <1>9, <1>10 DEF b, r

LEMMA WrittenFacts ==
  ASSUME NEW as \in AnswerLists
  PROVE  /\ Written(as) \in [0 .. Len(as) -> Raw] /\ Written(as)[0] = << >>
         /\ \A k \in 1 .. Len(as) : Written(as)[k] = Written(as)[k - 1] \o Record(as[k], k)
         /\ FlattenSeq(Records(as)) = Written(as)[Len(as)]
         /\ \A k \in 0 .. Len(as) : Begins(Written(as)[k], Written(as)[Len(as)])
<1> DEFINE n == Len(as)
<1>1. n \in Nat /\ DOMAIN as = 1 .. n /\ \A k \in 1 .. n : k \in Nat /\ as[k] \in Forms
  <2>1. n \in 0 .. MaxAnswers /\ DOMAIN as = 1 .. n /\ \A k \in 1 .. n : as[k] \in Forms
    BY ListFacts
  <2> HIDE DEF n
  <2>2. n \in Nat /\ \A k \in 1 .. n : k \in Nat
    BY <2>1
  <2> QED BY <2>1, <2>2
<1>2. Records(as) \in Seq(Raw) /\ Len(Records(as)) = n /\ \A k \in 1 .. n : Records(as)[k] = Record(as[k], k)
  <2>1. \A k \in 1 .. n : Record(as[k], k) \in Raw
    BY <1>1, RecordFacts
  <2>2. Records(as) \in [1 .. n -> Raw] /\ \A k \in 1 .. n : Records(as)[k] = Record(as[k], k)
    BY <1>1, <2>1 DEF Records
  <2> QED BY <1>1, <2>2, ArrayIsSequence
<1> DEFINE rs == Records(as)
<1> HIDE DEF rs
<1>3. \E f \in [0 .. Len(rs) -> Seq(Nat)] : Chain(f, rs) /\ FlattenSeq(rs) = f[Len(rs)]
  BY <1>2, Flattened DEF Raw, rs
<1>4. \E f \in [0 .. n -> Raw] : IsWritten(f, as)
  BY <1>2, <1>3 DEF IsWritten, rs, Raw
<1>5. Written(as) \in [0 .. n -> Raw] /\ IsWritten(Written(as), as)
  BY <1>4 DEF Written
<1>6. Chain(Written(as), rs) /\ Len(rs) = n /\ rs \in Seq(Raw)
  BY <1>2, <1>5 DEF IsWritten, rs
<1>7. \A k \in 0 .. Len(rs) : Begins(Written(as)[k], Written(as)[Len(rs)])
  BY <1>5, <1>6, ChainBegins DEF Raw
<1>8. Written(as)[0] = << >> /\ \A k \in 1 .. n : Written(as)[k] = Written(as)[k - 1] \o Record(as[k], k)
  BY <1>2, <1>6 DEF Chain, rs
<1> QED BY <1>5, <1>6, <1>7, <1>8 DEF IsWritten

LEMMA StartFacts ==
  ASSUME NEW as \in AnswerLists
  PROVE  /\ Start(as, 1) = Len(Query)
         /\ \A k \in 1 .. Len(as) + 1 : Start(as, k) \in Nat /\ Start(as, k) >= Len(Query)
         /\ \A k \in 1 .. Len(as) : Start(as, k + 1) = Start(as, k) + Len(as[k].bytes) + 6
         /\ \A k \in 1 .. Len(as) : as[k].bytes \in Raw /\ as[k].name \in Names /\ Len(as[k].bytes) \in Nat
<1> DEFINE n == Len(as)
           w == Written(as)
           q == Len(Query)
<1>1. n \in Nat /\ q \in Nat
  <2>1. n \in Nat
    BY ListFacts
  <2>2. q \in Nat
    BY Offsets
  <2> QED BY <2>1, <2>2
<1>2. ASSUME NEW k \in 1 .. n PROVE as[k] \in Forms /\ k \in Nat /\ k - 1 \in 0 .. n
  <2>1. as[k] \in Forms
    BY ListFacts
  <2> HIDE DEF n
  <2>2. k \in Nat /\ k - 1 \in 0 .. n
    BY <1>1
  <2> QED BY <2>1, <2>2
<1>3. w \in [0 .. n -> Raw] /\ w[0] = << >> /\ \A k \in 1 .. n : w[k] = w[k - 1] \o Record(as[k], k)
  BY WrittenFacts
<1> HIDE DEF n, w, q
<1>4. \A k \in 0 .. n : w[k] \in Raw /\ Len(w[k]) \in Nat
  BY <1>3, RawLen
<1>5. ASSUME NEW k \in 1 .. n
      PROVE /\ Len(w[k]) = Len(w[k - 1]) + (Len(as[k].bytes) + 6)
            /\ as[k].bytes \in Raw /\ as[k].name \in Names /\ Len(as[k].bytes) \in Nat
  <2>1. w[k - 1] \in Raw /\ Record(as[k], k) \in Raw /\ Len(Record(as[k], k)) = Len(as[k].bytes) + 6
    BY <1>2, <1>4, RecordFacts
  <2>2. Len(w[k - 1] \o Record(as[k], k)) = Len(w[k - 1]) + Len(Record(as[k], k))
    BY <2>1, RawJoined
  <2>3. as[k].bytes \in Raw /\ as[k].name \in Names
    BY <1>2, FormFacts
  <2> QED BY <1>3, <2>1, <2>2, <2>3, RawLen
<1>6. \A k \in 1 .. n + 1 : Start(as, k) = q + Len(w[k - 1]) /\ k - 1 \in 0 .. n
  BY <1>1 DEF Start, q, w
<1>7. Start(as, 1) = q
  <2>1. 1 \in 1 .. n + 1 /\ 1 - 1 = 0 /\ Len(<< >>) = 0
    BY <1>1
  <2>2. Start(as, 1) = q + Len(w[1 - 1])
    BY <1>6, <2>1
  <2>3. Start(as, 1) = q + 0
    BY <1>3, <2>1, <2>2
  <2>4. q + 0 = q
    BY <1>1
  <2> QED BY <2>3, <2>4
<1>8. ASSUME NEW k \in 1 .. n + 1 PROVE Start(as, k) \in Nat /\ Start(as, k) >= q
  <2> DEFINE u == Len(w[k - 1])
  <2>1. Start(as, k) = q + u /\ u \in Nat
    BY <1>4, <1>6
  <2> HIDE DEF u
  <2> QED BY <1>1, <2>1
<1>9. ASSUME NEW k \in 1 .. n PROVE Start(as, k + 1) = Start(as, k) + Len(as[k].bytes) + 6
  <2>1. k + 1 \in 1 .. n + 1 /\ k \in 1 .. n + 1 /\ (k + 1) - 1 = k
    BY <1>1
  <2>2. Start(as, k + 1) = q + Len(w[k]) /\ Start(as, k) = q + Len(w[k - 1])
    BY <1>6, <2>1
  <2> DEFINE u == Len(w[k - 1])
             v == Len(as[k].bytes)
  <2>3. u \in Nat /\ v \in Nat /\ Len(w[k]) = u + (v + 6)
    BY <1>2, <1>4, <1>5
  <2> HIDE DEF u, v
  <2>4. q + (u + (v + 6)) = (q + u) + v + 6
    BY <1>1, <2>3
  <2> QED BY <2>2, <2>3, <2>4 DEF u, v
<1> QED BY <1>5, <1>7, <1>8, <1>9 DEF n, q

LEMMA ReplyShape ==
  ASSUME NEW as \in AnswerLists, NEW id \in {7, 8}
  PROVE  /\ Reply(id, as) \in Raw /\ Len(Reply(id, as)) = Start(as, Len(as) + 1)
         /\ Has(Reply(id, as), 0, <<id, 1, Len(as)>>) /\ Has(Reply(id, as), 3, Encoded)
         /\ \A k \in 1 .. Len(as) : Has(Reply(id, as), Start(as, k), Record(as[k], k))
<1> DEFINE n == Len(as)
           w == Written(as)
           q == Len(Query)
           h == <<id, 1, n>>
           t == Encoded \o <<TypeA>>
           r == Reply(id, as)
<1>1. n \in Nat /\ q \in Nat /\ Encoded \in Raw /\ Len(Encoded) \in Nat /\ q = Len(Encoded) + 4
  <2>1. n \in Nat
    BY ListFacts
  <2>2. Encoded \in Raw /\ Len(Encoded) \in Nat
    BY EncodedFacts, RawLen
  <2>3. q \in Nat /\ q = Len(Encoded) + 4
    BY QueryFacts, Offsets
  <2> QED BY <2>1, <2>2, <2>3
<1> HIDE DEF n
<1>2. h \in Raw /\ Len(h) = 3 /\ <<TypeA>> \in Raw /\ Len(<<TypeA>>) = 1
  BY <1>1 DEF Raw, TypeA
<1>3. t \in Raw /\ Len(t) = Len(Encoded) + 1
  BY <1>1, <1>2, RawJoined
<1>4. w \in [0 .. n -> Raw] /\ w[n] \in Raw /\ \A k \in 0 .. n : w[k] \in Raw /\ Begins(w[k], w[n])
  <2>1. w \in [0 .. n -> Raw] /\ \A k \in 0 .. n : Begins(w[k], w[n])
    BY WrittenFacts DEF n
  <2>2. n \in 0 .. n
    BY <1>1
  <2> QED BY <2>1, <2>2
<1>5. r = (h \o t) \o w[n]
  <2>1. FlattenSeq(Records(as)) = w[n]
    BY WrittenFacts DEF n
  <2>2. FlattenSeq(Records(as)) = FlattenSeq([k \in DOMAIN as |-> as[k].bytes \o <<TypeA, 4>> \o Address(k)])
    BY DEF Records, Record
  <2>3. r = (h \o SubSeq(Query, HeaderLen + 1, Len(Query)))
              \o FlattenSeq([k \in DOMAIN as |-> as[k].bytes \o <<TypeA, 4>> \o Address(k)])
    BY DEF Reply, n
  <2>4. SubSeq(Query, HeaderLen + 1, Len(Query)) = t
    BY QueryFacts
  <2> QED BY <2>1, <2>2, <2>3, <2>4
<1> HIDE DEF h, t, w, q, r
<1>6. h \o t \in Raw /\ Len(h \o t) = q
  <2>1. h \o t \in Raw /\ Len(h \o t) = Len(h) + Len(t)
    BY <1>2, <1>3, RawJoined
  <2> QED BY <1>1, <1>2, <1>3, <2>1
<1>7. r \in Raw /\ Len(r) = q + Len(w[n])
  <2>1. (h \o t) \o w[n] \in Raw /\ Len((h \o t) \o w[n]) = Len(h \o t) + Len(w[n])
    BY <1>4, <1>6, RawJoined
  <2> QED BY <1>5, <1>6, <2>1
<1>8. Begins(r, r)
  BY <1>7, BeginsItself DEF Raw
<1>9. Begins((h \o t) \o w[n], r)
  BY <1>5, <1>8
<1>10. Begins(h \o t, r)
  BY <1>4, <1>5, <1>6, FrontBegins DEF Raw
<1>11. Has(r, 0, h) /\ Has(r, 3, t)
  <2>1. Has(r, 0, h \o t)
    BY <1>6, <1>7, <1>10, HasFront
  <2>2. Has(r, 0, h) /\ Has(r, 0 + Len(h), t)
    BY <1>2, <1>3, <1>7, <2>1, HasParts
  <2> QED BY <1>2, <2>2
<1>12. Has(r, 3, Encoded)
  <2>1. Has(r, 3, Encoded \o <<TypeA>>)
    BY <1>11 DEF t
  <2> QED BY <1>1, <1>2, <1>7, <2>1, HasParts
<1>13. Has(r, q, w[n])
  <2>1. Has(r, Len(h \o t), w[n])
    BY <1>4, <1>6, <1>7, <1>9, HasLast
  <2> QED BY <1>6, <2>1
<1>14. ASSUME NEW k \in 1 .. n PROVE Has(r, Start(as, k), Record(as[k], k))
  <2>1. k - 1 \in 0 .. n /\ k \in 0 .. n /\ k \in Nat
    BY <1>1
  <2>2. as[k] \in Forms
    BY ListFacts DEF n
  <2>3. Record(as[k], k) \in Raw
    BY <2>1, <2>2, RecordFacts
  <2>4. w[k] = w[k - 1] \o Record(as[k], k)
    BY WrittenFacts DEF n, w
  <2>5. Has(w[n], Len(w[k - 1]), Record(as[k], k))
    <3>1. w[k - 1] \in Raw /\ Begins(w[k - 1] \o Record(as[k], k), w[n])
      BY <1>4, <2>1, <2>4
    <3> QED BY <1>4, <2>3, <3>1, HasLast
  <2>6. Len(w[k - 1]) \in Nat
    BY <1>4, <2>1, RawLen
  <2>7. Has(r, q + Len(w[k - 1]), Record(as[k], k))
    <3>1. r \in Raw /\ q \in Nat /\ w[n] \in Raw
      BY <1>1, <1>4, <1>7
    <3> QED BY <1>13, <2>3, <2>5, <2>6, <3>1, HasWithin, ZenonT(30)
  <2> QED BY <2>7 DEF Start, q, w
<1>15. Len(r) = Start(as, n + 1)
  <2>1. (n + 1) - 1 = n
    BY <1>1
  <2>2. Start(as, n + 1) = q + Len(w[(n + 1) - 1])
    BY DEF Start, q, w
  <2> QED BY <1>7, <2>1, <2>2
<1> QED BY <1>7, <1>11, <1>12, <1>14, <1>15 DEF r, h, n

(* Where the k-th answer is, its name is spelled, and behind it come its    *)
(* type, its length and the address.                                        *)
LEMMA AnswerAt ==
  ASSUME NEW as \in AnswerLists, NEW id \in {7, 8}, NEW k \in 1 .. Len(as)
  PROVE  /\ Has(Reply(id, as), Start(as, k), as[k].bytes)
         /\ Has(Reply(id, as), Start(as, k) + Len(as[k].bytes), Fixed)
         /\ Has(Reply(id, as), Start(as, k) + Len(as[k].bytes) + 2, Address(k))
<1> DEFINE r == Reply(id, as)
           s == Start(as, k)
           l == Len(as[k].bytes)
<1>1. k \in Nat /\ k \in 1 .. Len(as) + 1
  <2> DEFINE n == Len(as)
  <2>1. n \in Nat /\ k \in 1 .. n
    BY ListFacts
  <2> HIDE DEF n
  <2>2. k \in Nat /\ k \in 1 .. n + 1
    BY <2>1
  <2> QED BY <2>2 DEF n
<1>2. r \in Raw /\ Has(r, s, Record(as[k], k))
  BY ReplyShape
<1>3. s \in Nat /\ l \in Nat /\ as[k].bytes \in Raw
  BY <1>1, StartFacts
<1>4. as[k] \in Forms
  BY ListFacts
<1>5. /\ Record(as[k], k) \in Raw /\ Has(Record(as[k], k), 0, as[k].bytes)
      /\ Has(Record(as[k], k), l, Fixed) /\ Has(Record(as[k], k), l + 2, Address(k))
  BY <1>1, <1>4, RecordFacts
<1>6. Fixed \in Raw /\ Address(k) \in Raw
  BY <1>1, FixedFacts, AddressFacts
<1> HIDE DEF r, s, l
<1>7. Has(r, s + 0, as[k].bytes)
  BY <1>2, <1>3, <1>5, HasWithin
<1>8. Has(r, s + l, Fixed)
  BY <1>2, <1>3, <1>5, <1>6, HasWithin
<1>9. Has(r, s + (l + 2), Address(k))
  <2>1. l + 2 \in Nat
    BY <1>3
  <2> QED BY <1>2, <1>3, <1>5, <1>6, <2>1, HasWithin
<1>10. s + 0 = s /\ s + (l + 2) = s + l + 2
  BY <1>3
<1> QED BY <1>7, <1>8, <1>9, <1>10 DEF r, s, l

LEMMA QuestionSpelled ==
  ASSUME NEW as \in AnswerLists, NEW id \in {7, 8}
  PROVE  /\ Spelled(Reply(id, as), 3, QName, Len(Query) - 1)
         /\ \E e \in Nat : Spelled(Reply(id, as), SecondLabel, Tail(QName), e)
<1> DEFINE r == Reply(id, as)
           e == 3 + Len(Encoded)
<1>1. r \in Raw /\ Has(r, 3, Encoded)
  BY ReplyShape
<1>2. Len(Encoded) \in Nat
  BY EncodedFacts, RawLen
<1>3. e \in Nat /\ Len(Query) - 1 = e
  BY <1>2, QueryFacts
<1> HIDE DEF r
<1>4. Spelled(r, 3, QName, 3 + Len(Encoded)) /\ Spelled(r, 3 + 1 + Len(QName[1]), Tail(QName), 3 + Len(Encoded))
  BY <1>1, SpelledName
<1>5. Spelled(r, SecondLabel, Tail(QName), e)
  BY <1>4, Offsets
<1> QED BY <1>3, <1>4, <1>5 DEF r

LEMMA AnswerSpelled ==
  ASSUME NEW as \in AnswerLists, NEW id \in {7, 8}, NEW k \in 1 .. Len(as)
  PROVE  Spelled(Reply(id, as), Start(as, k), as[k].name, Start(as, k) + Len(as[k].bytes))
<1> DEFINE r == Reply(id, as)
           s == Start(as, k)
           rest == Tail(QName)
           sibling == <<Sub>> \o Tail(QName)
<1>1. r \in Raw /\ Has(r, s, as[k].bytes) /\ s \in Nat
  <2>1. k \in 1 .. Len(as) + 1
    <3> DEFINE n == Len(as)
    <3>1. n \in Nat /\ k \in 1 .. n
      BY ListFacts
    <3> HIDE DEF n
    <3>2. k \in 1 .. n + 1
      BY <3>1
    <3> QED BY <3>2 DEF n
  <2> QED BY <2>1, ReplyShape, AnswerAt, StartFacts
<1>2. Spelled(r, 3, QName, Len(Query) - 1) /\ Len(Query) - 1 \in Nat
  <2>1. Len(Query) - 1 = Len(Encoded) + 3 /\ Len(Encoded) \in Nat
    <3>1. Len(Encoded) \in Nat
      BY EncodedFacts, RawLen
    <3> QED BY <3>1, QueryFacts
  <2>2. Spelled(r, 3, QName, Len(Query) - 1)
    BY QuestionSpelled
  <2>3. Len(Query) - 1 \in Nat
    BY <2>1
  <2> QED BY <2>2, <2>3
<1>3. PICK e \in Nat : Spelled(r, SecondLabel, rest, e)
  BY QuestionSpelled
<1>4. QName \in Names /\ rest \in Names /\ sibling \in Names
  <2>1. QName \in Names /\ sibling \in Names
    BY FormFacts DEF Forms
  <2>2. rest \in Names
    <3>1. 1 \in 0 .. NumLabels
      BY NameFacts
    <3> QED BY <3>1, RestFromFacts
  <2> QED BY <2>1, <2>2
<1>5. ASSUME NEW o \in Nat, Has(r, o, Counted(Sub) \o Pointer(SecondLabel))
      PROVE Spelled(r, o, sibling, o + Len(Counted(Sub) \o Pointer(SecondLabel)))
  <2>1. Counted(Sub) \in Raw /\ Len(Counted(Sub)) = 1 + Len(Sub) /\ Len(Sub) \in Nat /\ Sub \in Raw /\ Len(Sub) \in LabelSizes
    BY NameFacts, CountedFacts, RawLen
  <2>2. Pointer(SecondLabel) \in Raw /\ Len(Pointer(SecondLabel)) = 2
    BY Offsets, PointerFacts
  <2>3. Has(r, o, Counted(Sub)) /\ Has(r, o + Len(Counted(Sub)), Pointer(SecondLabel))
    BY <1>1, <1>5, <2>1, <2>2, HasParts
  <2> DEFINE p == o + 1 + Len(Sub)
  <2>4. p \in Nat /\ o + Len(Counted(Sub)) = p
    BY <2>1
  <2>5. Len(Counted(Sub) \o Pointer(SecondLabel)) = (1 + Len(Sub)) + 2
    <3>1. Len(Counted(Sub) \o Pointer(SecondLabel)) = Len(Counted(Sub)) + Len(Pointer(SecondLabel))
      BY <2>1, <2>2, RawJoined
    <3> QED BY <2>1, <2>2, <3>1
  <2>6. o + ((1 + Len(Sub)) + 2) = p + 2
    BY <2>1
  <2> HIDE DEF p, r, rest, sibling
  <2>7. Spelled(r, p, rest, p + 2)
    <3>1. Has(r, p, Pointer(SecondLabel)) /\ SecondLabel \in Nat /\ SecondLabel < PointerLimit
      BY <2>3, <2>4, Offsets
    <3> QED BY <1>1, <1>3, <1>4, <2>4, <3>1, SpelledByPointer
  <2>8. Spelled(r, o, <<Sub>> \o rest, p + 2)
    <3>1. p + 2 \in Nat /\ Spelled(r, o + 1 + Len(Sub), rest, p + 2)
      BY <2>4, <2>7 DEF p
    <3> QED BY <1>1, <1>4, <2>1, <2>3, <3>1, SpelledLabel
  <2>9. <<Sub>> \o rest = sibling
    BY DEF rest, sibling
  <2> QED BY <2>5, <2>6, <2>8, <2>9
<1> HIDE DEF r, s, rest, sibling
<1>6. CASE as[k] = Full
  <2>1. as[k].bytes = Encoded /\ as[k].name = QName
    BY <1>6, FormFacts
  <2>2. Spelled(r, s, QName, s + Len(Encoded))
    BY <1>1, <2>1, SpelledName
  <2> QED BY <2>1, <2>2 DEF r, s
<1>7. CASE as[k] = Same
  <2>1. as[k].bytes = Pointer(HeaderLen) /\ as[k].name = QName
    BY <1>7, FormFacts
  <2>2. Len(Pointer(HeaderLen)) = 2 /\ HeaderLen = 3 /\ HeaderLen \in Nat /\ HeaderLen < PointerLimit
    BY Offsets, PointerFacts DEF HeaderLen
  <2>3. Spelled(r, HeaderLen, QName, Len(Query) - 1)
    BY <1>2, <2>2
  <2>4. Spelled(r, s, QName, s + 2)
    BY <1>1, <1>2, <1>4, <2>1, <2>2, <2>3, SpelledByPointer
  <2>5. Len(as[k].bytes) = 2
    BY <2>1, <2>2
  <2> QED BY <2>1, <2>4, <2>5 DEF r, s
<1>8. CASE as[k] = Suffix
  <2>1. as[k].bytes = Counted(Sub) \o Pointer(SecondLabel) /\ as[k].name = sibling
    BY <1>8, FormFacts DEF sibling
  <2> QED BY <1>1, <1>5, <2>1 DEF r, s
<1>9. CASE as[k] = Again
  <2>1. as[k].bytes = Pointer(Len(Query)) /\ as[k].name = sibling
    BY <1>9, FormFacts DEF sibling
  <2>2. k > 1 /\ as[1] = Suffix /\ 1 \in 1 .. Len(as)
    <3>1. k > 1 /\ as[1] = Suffix
      BY <1>9, ListFacts
    <3> DEFINE n == Len(as)
    <3>2. n \in Nat /\ k \in 1 .. n
      BY ListFacts
    <3> HIDE DEF n
    <3>3. 1 \in 1 .. n
      BY <3>1, <3>2
    <3> QED BY <3>1, <3>3 DEF n
  <2>3. as[1].bytes = Counted(Sub) \o Pointer(SecondLabel)
    BY <2>2, FormFacts
  <2>4. Len(Query) \in Nat /\ Len(Query) < PointerLimit /\ Start(as, 1) = Len(Query)
    <3>1. Start(as, 1) = Len(Query)
      BY StartFacts
    <3>2. Len(Query) \in Nat /\ Len(Query) < PointerLimit
      BY Offsets
    <3> QED BY <3>1, <3>2
  <2>5. Has(r, Len(Query), Counted(Sub) \o Pointer(SecondLabel))
    <3> DEFINE b == as[1].bytes
               a == Start(as, 1)
    <3>1. Has(r, a, b)
      BY <2>2, AnswerAt DEF r
    <3>2. a = Len(Query) /\ b = Counted(Sub) \o Pointer(SecondLabel)
      BY <2>3, <2>4
    <3> HIDE DEF a, b
    <3> QED BY <3>1, <3>2
  <2> DEFINE q == Len(Query)
             f == q + Len(Counted(Sub) \o Pointer(SecondLabel))
  <2>6. Spelled(r, q, sibling, f)
    BY <1>5, <2>4, <2>5
  <2>7. f \in Nat
    <3>1. Counted(Sub) \o Pointer(SecondLabel) \in Raw
      BY FormFacts DEF Forms
    <3> QED BY <2>4, <3>1, RawLen
  <2>8. Len(Pointer(q)) = 2
    BY <2>4, PointerFacts
  <2> HIDE DEF f
  <2>9. Spelled(r, s, sibling, s + 2)
    BY <1>1, <1>4, <2>1, <2>4, <2>6, <2>7, SpelledByPointer
  <2> QED BY <2>1, <2>8, <2>9 DEF r, s
<1>10. as[k] \in Forms
  BY ListFacts
<1> QED BY <1>6, <1>7, <1>8, <1>9, <1>10 DEF Forms

(* What the first byte tells of the name that is spelled at o.              *)
LEMMA SpelledFirst ==
  ASSUME NEW r \in Raw, NEW o \in Nat, NEW label \in Raw, Has(r, o, Counted(label))
  PROVE  r[o + 1] = Len(label) /\ \A i \in 1 .. Len(label) : r[o + 1 + i] = label[i]
<1> DEFINE c == Counted(label)
           n == Len(label)
<1>1. c \in Raw /\ Len(c) = 1 + n /\ c[1] = n /\ n \in Nat /\ \A i \in 1 .. n : c[1 + i] = label[i]
  BY CountedFacts, RawLen
<1> HIDE DEF c, n
<1>2. Has(r, o, c)
  BY DEF c
<1>3. r[o + 1] = n
  <2>1. 1 \in 1 .. Len(c)
    BY <1>1
  <2> QED BY <1>1, <1>2, <2>1 DEF Has
<1>4. ASSUME NEW i \in 1 .. n PROVE r[o + 1 + i] = label[i]
  <2>1. 1 + i \in 1 .. Len(c) /\ o + (1 + i) = o + 1 + i
    BY <1>1
  <2>2. r[o + (1 + i)] = c[1 + i]
    BY <1>2, <2>1 DEF Has
  <2> QED BY <1>1, <2>1, <2>2
<1> QED BY <1>3, <1>4 DEF n

LEMMA SpelledJump ==
  ASSUME NEW r \in Raw, NEW o \in Nat, NEW nm \in Names, NEW e \in Nat, Spelled(r, o, nm, e), r[o + 1] >= 192
  PROVE  e = o + 2 /\ \E f \in Nat : Spelled(r, PointerAt(r, o), nm, f)
<1>1. CASE nm = << >> /\ o < Len(r) /\ r[o + 1] = 0 /\ e = o + 1
  BY <1>1
<1>2. CASE /\ nm # << >> /\ Len(nm[1]) \in LabelSizes /\ Has(r, o, Counted(nm[1]))
           /\ Spelled(r, o + 1 + Len(nm[1]), Tail(nm), e)
  <2>1. nm[1] \in Raw
    BY <1>2 DEF Names
  <2>2. r[o + 1] = Len(nm[1])
    BY <1>2, <2>1, SpelledFirst
  <2>3. Len(nm[1]) \in 1 .. 191
    BY <1>2 DEF LabelSizes
  <2>4. FALSE
    <3> DEFINE n == Len(nm[1])
    <3>1. n \in 1 .. 191 /\ n = r[o + 1]
      BY <2>2, <2>3
    <3> HIDE DEF n
    <3>2. n # 0 /\ ~ (n >= 192)
      BY <3>1
    <3> QED BY <3>1, <3>2
  <2> QED BY <2>4
<1> QED BY <1>1, <1>2, SpelledSo

LEMMA SpelledEnd ==
  ASSUME NEW r \in Raw, NEW o \in Nat, NEW nm \in Names, NEW e \in Nat, Spelled(r, o, nm, e), r[o + 1] = 0
  PROVE  nm = << >> /\ e = o + 1
<1>1. CASE /\ nm # << >> /\ Len(nm[1]) \in LabelSizes /\ Has(r, o, Counted(nm[1]))
           /\ Spelled(r, o + 1 + Len(nm[1]), Tail(nm), e)
  <2>1. nm[1] \in Raw
    BY <1>1 DEF Names
  <2>2. r[o + 1] = Len(nm[1])
    BY <1>1, <2>1, SpelledFirst
  <2>3. Len(nm[1]) \in 1 .. 191
    BY <1>1 DEF LabelSizes
  <2>4. FALSE
    <3> DEFINE n == Len(nm[1])
    <3>1. n \in 1 .. 191 /\ n = r[o + 1]
      BY <2>2, <2>3
    <3> HIDE DEF n
    <3>2. n # 0 /\ ~ (n >= 192)
      BY <3>1
    <3> QED BY <3>1, <3>2
  <2> QED BY <2>4
<1>2. CASE /\ o + 1 < Len(r) /\ r[o + 1] >= 192 /\ e = o + 2
           /\ \E f \in Nat : Spelled(r, PointerAt(r, o), nm, f)
  BY <1>2
<1> QED BY <1>1, <1>2, SpelledSo

LEMMA SpelledNext ==
  ASSUME NEW r \in Raw, NEW o \in Nat, NEW nm \in Names, NEW e \in Nat, Spelled(r, o, nm, e), r[o + 1] \in 1 .. 191
  PROVE  /\ nm # << >> /\ nm[1] \in Raw /\ Tail(nm) \in Names /\ r[o + 1] = Len(nm[1])
         /\ \A i \in 1 .. Len(nm[1]) : r[o + 1 + i] = nm[1][i]
         /\ Spelled(r, o + 1 + Len(nm[1]), Tail(nm), e)
<1>1. CASE /\ nm # << >> /\ Len(nm[1]) \in LabelSizes /\ Has(r, o, Counted(nm[1]))
           /\ Spelled(r, o + 1 + Len(nm[1]), Tail(nm), e)
  <2>1. nm[1] \in Raw
    BY <1>1 DEF Names
  <2>2. r[o + 1] = Len(nm[1]) /\ \A i \in 1 .. Len(nm[1]) : r[o + 1 + i] = nm[1][i]
    BY <1>1, <2>1, SpelledFirst
  <2>3. Tail(nm) \in Names
    BY <1>1, HeadTailProperties DEF Names
  <2> QED BY <1>1, <2>1, <2>2, <2>3
<1>2. CASE /\ o + 1 < Len(r) /\ r[o + 1] >= 192 /\ e = o + 2
           /\ \E f \in Nat : Spelled(r, PointerAt(r, o), nm, f)
  <2>1. r[o + 1] >= 192
    BY <1>2
  <2>2. FALSE
    BY <2>1
  <2> QED BY <2>2
<1>3. CASE nm = << >> /\ o < Len(r) /\ r[o + 1] = 0 /\ e = o + 1
  BY <1>3
<1> QED BY <1>1, <1>2, <1>3, SpelledSo

(* A label read is taken off what is still to be read.                      *)
LEMMA NameStep ==
  ASSUME NEW l \in Names, NEW nm \in Names, nm # << >>
  PROVE  Append(l, nm[1]) \in Names /\ Append(l, nm[1]) \o Tail(nm) = l \o nm
<1>1. nm[1] \in Raw /\ nm[1] = Head(nm) /\ Tail(nm) \in Names /\ Len(Tail(nm)) = Len(nm) - 1 /\ Len(nm) \in Nat \ {0}
      /\ \A i \in 1 .. Len(Tail(nm)) : Tail(nm)[i] = nm[i + 1]
  BY HeadTailProperties DEF Names
<1>2. Append(l, nm[1]) \in Names /\ Append(l, nm[1]) = l \o <<nm[1]>>
  BY <1>1, AppendProperties, AppendIsConcat DEF Names
<1>3. <<nm[1]>> \in Names
  BY <1>1 DEF Names
<1>4. <<nm[1]>> \o Tail(nm) = nm
  <2> DEFINE s == <<nm[1]>>
             t == Tail(nm)
             u == s \o t
  <2>1. s \in Names /\ Len(s) = 1 /\ s[1] = nm[1]
    BY <1>3
  <2>2. /\ u \in Seq(Raw) /\ Len(u) = Len(s) + Len(t)
        /\ \A i \in 1 .. Len(s) + Len(t) : u[i] = IF i <= Len(s) THEN s[i] ELSE t[i - Len(s)]
    BY <1>1, <2>1, ConcatProperties DEF Names
  <2> HIDE DEF s, u
  <2>3. Len(u) = Len(nm)
    BY <1>1, <2>1, <2>2
  <2>4. ASSUME NEW i \in 1 .. Len(u) PROVE u[i] = nm[i]
    <3>1. i \in 1 .. Len(s) + Len(t)
      BY <2>2
    <3>2. CASE i = 1
      BY <2>1, <2>2, <3>1, <3>2
    <3>3. CASE i # 1
      <4>1. i - 1 \in 1 .. Len(t) /\ (i - 1) + 1 = i /\ ~ (i <= Len(s)) /\ i - Len(s) = i - 1
        BY <1>1, <2>1, <2>3, <3>3
      <4>2. u[i] = t[i - 1]
        BY <2>2, <3>1, <4>1
      <4>3. t[i - 1] = nm[(i - 1) + 1]
        BY <1>1, <4>1
      <4> QED BY <4>1, <4>2, <4>3
    <3> QED BY <3>2, <3>3
  <2>5. u = nm
    <3>1. nm \in Seq(Raw)
      BY DEF Names
    <3> QED BY <2>2, <2>3, <2>4, <3>1, SeqEqual
  <2> QED BY <2>5 DEF s, u
<1>5. (l \o <<nm[1]>>) \o Tail(nm) = l \o (<<nm[1]>> \o Tail(nm))
  BY <1>1, <1>3, ConcatAssociative DEF Names
<1> QED BY <1>2, <1>4, <1>5

(* Where parse_response() is in the reply r: the field it reads, which name *)
(* that has, and where it ends.                                             *)
Field == Len(answers) + 1
FieldName == IF questions = 1 THEN QName ELSE expected[Field].name
FieldStart == IF questions = 1 THEN HeaderLen ELSE Start(expected, Field)
FieldEnd == IF questions = 1 THEN Len(Query) - 1 ELSE Start(expected, Field) + Len(expected[Field].bytes)
InField == questions = 1 \/ answersLeft > 0

(* The rest of the field's name is spelled at the offset, if that is within *)
(* what came of the reply.                                                  *)
Reading(r) ==
  offset < Len(message) =>
    \E nm \in Names, e \in Nat :
      /\ Spelled(r, offset, nm, e) /\ labels \o nm = FieldName
      /\ (IF jumped THEN afterPointer ELSE e) = FieldEnd

Answered(k) ==
  /\ answers[k].name = expected[k].name
  /\ answers[k].value = Address(k) \/ (k = Len(answers) /\ Len(message) < Start(expected, k + 1))

DnsProgress(r) ==
  /\ message \in Raw /\ Begins(message, r) /\ (intact => message = r)
  /\ expected \in AnswerLists
  /\ questions \in {0, 1} /\ answersLeft \in Nat
  /\ answers \in Seq([name : Names, value : Raw])
  /\ Len(answers) + answersLeft = Len(expected) /\ (questions = 1 => answers = << >>)
  /\ \A k \in 1 .. Len(answers) : Answered(k)

DnsPlace(r) ==
  /\ offset \in Nat /\ labels \in Names /\ jumped \in BOOLEAN
  /\ dns \in {"next", "name", "question", "record", "done"}
  /\ dns = "next" => offset = FieldStart
  /\ dns = "name" => InField /\ Reading(r)
  /\ dns = "question" => questions = 1 /\ offset = FieldEnd
  /\ dns = "record" => questions = 0 /\ answersLeft > 0 /\ offset = FieldEnd /\ labels = FieldName
  /\ dns = "done" => questions = 0 /\ answersLeft = 0

DnsIdle == dns = "idle" => labels = << >> /\ jumped = FALSE /\ answers = << >>

DnsInv ==
  dns \notin {"idle", "raised"} /\ expected # << >> =>
    \E id \in {7, 8} : DnsProgress(Reply(id, expected)) /\ DnsPlace(Reply(id, expected))

LEMMA ByteAt ==
  ASSUME NEW r \in Raw, DnsProgress(r), NEW o \in Nat, Inside(o)
  PROVE  Byte(o) = r[o + 1] /\ o < Len(r) /\ Byte(o) \in Nat
<1>1. message \in Raw /\ Len(message) \in Nat /\ Len(r) \in Nat /\ Len(message) <= Len(r)
      /\ \A i \in 1 .. Len(message) : message[i] = r[i]
  BY RawLen DEF DnsProgress, Begins
<1>2. o < Len(message)
  BY DEF Inside
<1>3. o + 1 \in 1 .. Len(message)
  BY <1>1, <1>2
<1>4. message[o + 1] = r[o + 1] /\ message[o + 1] \in Nat
  BY <1>1, <1>3, RawLen
<1> QED BY <1>1, <1>2, <1>4 DEF Byte

LEMMA SliceType ==
  ASSUME NEW r \in Raw, DnsProgress(r), NEW from \in Nat, NEW n \in Nat
  PROVE  Slice(from, n) \in Raw
<1> DEFINE to == IF from + n <= Len(message) THEN from + n ELSE Len(message)
<1>1. message \in Raw /\ Len(message) \in Nat
  BY RawLen DEF DnsProgress
<1>2. from + 1 \in Int /\ to \in Int /\ to <= Len(message)
  BY <1>1
<1> HIDE DEF to
<1>3. \A i \in from + 1 .. to : i \in 1 .. Len(message)
  BY <1>1, <1>2
<1>4. \A i \in from + 1 .. to : message[i] \in Nat
  BY <1>1, <1>3, RawLen
<1>5. SubSeq(message, from + 1, to) \in Seq(Nat)
  BY <1>2, <1>4, SubSeqProperties
<1> QED BY <1>5 DEF Slice, Raw, to

LEMMA SliceWhole ==
  ASSUME NEW r \in Raw, DnsProgress(r), NEW from \in Nat, NEW s \in Raw,
         from + Len(s) <= Len(message), \A i \in 1 .. Len(s) : r[from + i] = s[i]
  PROVE  Slice(from, Len(s)) = s
<1> DEFINE n == Len(s)
           t == SubSeq(message, from + 1, from + n)
<1>1. message \in Raw /\ Len(message) \in Nat /\ n \in Nat /\ \A i \in 1 .. Len(message) : message[i] = r[i]
  BY RawLen DEF DnsProgress, Begins
<1>2. Slice(from, n) = t
  BY DEF Slice
<1>3. from + n <= Len(message) /\ \A i \in 1 .. n : r[from + i] = s[i]
  OBVIOUS
<1> HIDE DEF n
<1>4. from + 1 \in Int /\ from + n \in Int /\ \A i \in from + 1 .. from + n : i \in 1 .. Len(message)
  BY <1>1, <1>3
<1>5. \A i \in from + 1 .. from + n : message[i] \in Nat
  BY <1>1, <1>4, RawLen
<1>6. /\ t \in Seq(Nat) /\ Len(t) = IF from + 1 <= from + n THEN (from + n) - (from + 1) + 1 ELSE 0
      /\ \A i \in 1 .. (from + n) - (from + 1) + 1 : t[i] = message[(from + 1) + i - 1]
  BY <1>4, <1>5, SubSeqProperties
<1> HIDE DEF t
<1>7. Len(t) = n
  BY <1>1, <1>6
<1>8. ASSUME NEW i \in 1 .. Len(t) PROVE t[i] = s[i]
  <2>1. /\ i \in 1 .. (from + n) - (from + 1) + 1 /\ i \in 1 .. n
        /\ from + i \in 1 .. Len(message) /\ (from + 1) + i - 1 = from + i
    BY <1>1, <1>3, <1>7
  <2> QED BY <1>1, <1>3, <1>6, <2>1
<1>9. t = s
  <2>1. Len(t) = Len(s) /\ s \in Seq(Nat) /\ t \in Seq(Nat)
    BY <1>6, <1>7 DEF n, Raw
  <2> QED BY <1>8, <2>1, SeqEqual
<1> QED BY <1>2, <1>9 DEF n

LEMMA ProgressUnchanged ==
  ASSUME NEW r, DnsProgress(r), UNCHANGED <<message, expected, intact, questions, answersLeft, answers>>
  PROVE  DnsProgress(r)' /\ FieldName' = FieldName /\ FieldEnd' = FieldEnd /\ FieldStart' = FieldStart /\ InField' = InField
<1>1. DnsProgress(r)'
  BY DEF DnsProgress, Answered
<1> QED BY <1>1 DEF FieldName, FieldEnd, FieldStart, Field, InField

(* The name of every field is spelled where the field starts.               *)
LEMMA FieldSpelled ==
  ASSUME NEW id \in {7, 8}, DnsProgress(Reply(id, expected)), InField
  PROVE  /\ Spelled(Reply(id, expected), FieldStart, FieldName, FieldEnd)
         /\ FieldName \in Names /\ FieldStart \in Nat /\ FieldEnd \in Nat
         /\ questions = 0 => Field \in 1 .. Len(expected)
<1> DEFINE as == expected
           r == Reply(id, expected)
<1>1. as \in AnswerLists
  BY DEF DnsProgress
<1>2. CASE questions = 1
  <2>1. FieldName = QName /\ FieldStart = 3 /\ FieldEnd = Len(Query) - 1
    BY <1>2 DEF FieldName, FieldStart, FieldEnd, HeaderLen
  <2>2. Spelled(r, 3, QName, Len(Query) - 1)
    BY <1>1, QuestionSpelled
  <2>3. Len(Query) - 1 \in Nat
    <3>1. Len(Encoded) \in Nat /\ Len(Query) = Len(Encoded) + 4
      BY EncodedFacts, RawLen, QueryFacts
    <3> QED BY <3>1
  <2>4. QName \in Names
    BY NameFacts
  <2> QED BY <1>2, <2>1, <2>2, <2>3, <2>4
<1>3. CASE questions # 1
  <2> DEFINE k == Field
             n == Len(expected)
  <2>1. questions = 0 /\ answersLeft > 0
    BY <1>3 DEF InField, DnsProgress
  <2>2. k \in 1 .. n /\ k \in 1 .. n + 1
    <3>1. Len(answers) \in Nat /\ answersLeft \in Nat /\ Len(answers) + answersLeft = n
      BY DEF DnsProgress
    <3> HIDE DEF n
    <3> QED BY <2>1, <3>1 DEF Field
  <2>3. FieldName = as[k].name /\ FieldStart = Start(as, k) /\ FieldEnd = Start(as, k) + Len(as[k].bytes)
    BY <2>1 DEF FieldName, FieldStart, FieldEnd
  <2>4. Spelled(r, Start(as, k), as[k].name, Start(as, k) + Len(as[k].bytes))
    BY <1>1, <2>2, AnswerSpelled
  <2>5. Start(as, k) \in Nat /\ as[k].name \in Names /\ Len(as[k].bytes) \in Nat
    BY <1>1, <2>2, StartFacts
  <2>6. Start(as, k) + Len(as[k].bytes) \in Nat
    BY <2>5
  <2> HIDE DEF k, r
  <2> QED BY <2>2, <2>3, <2>4, <2>5, <2>6 DEF k, r
<1> QED BY <1>2, <1>3

LEMMA StartNameInv ==
  ASSUME NEW id \in {7, 8}, NEW r, r = Reply(id, expected), DnsProgress(r), DnsPlace(r), StartName
  PROVE  DnsProgress(r)' /\ DnsPlace(r)'
<1>1. /\ dns = "next" /\ questions + answersLeft > 0 /\ dns' = "name" /\ labels' = << >> /\ jumped' = FALSE
      /\ UNCHANGED <<message, expected, intact, offset, questions, answersLeft, answers>>
  BY DEF StartName
<1>2. DnsProgress(r)' /\ FieldName' = FieldName /\ FieldEnd' = FieldEnd /\ InField' = InField
  BY <1>1, ProgressUnchanged
<1>3. InField
  BY <1>1 DEF DnsProgress, InField
<1>4. Spelled(r, FieldStart, FieldName, FieldEnd) /\ FieldName \in Names /\ FieldStart \in Nat /\ FieldEnd \in Nat
  BY <1>3, FieldSpelled
<1>5. offset = FieldStart /\ offset \in Nat
  BY <1>1 DEF DnsPlace
<1>6. << >> \in Names /\ << >> \o FieldName = FieldName
  BY <1>4, ConcatEmptySeq DEF Names
<1>7. Reading(r)'
  <2> DEFINE fn == FieldName
             fe == FieldEnd
  <2>1. fn \in Names /\ fe \in Nat /\ Spelled(r, offset', fn, fe) /\ labels' \o fn = FieldName' /\ fe = FieldEnd'
    BY <1>1, <1>2, <1>4, <1>5, <1>6
  <2>2. (IF jumped' THEN afterPointer' ELSE fe) = FieldEnd'
    BY <1>1, <2>1
  <2> HIDE DEF fn, fe
  <2> QED BY <2>1, <2>2 DEF Reading
<1> QED BY <1>1, <1>2, <1>3, <1>5, <1>6, <1>7 DEF DnsPlace

LEMMA JumpInv ==
  ASSUME NEW r \in Raw, DnsProgress(r), DnsPlace(r), Jump
  PROVE  DnsProgress(r)' /\ DnsPlace(r)'
<1>1. /\ dns = "name" /\ Inside(offset) /\ Inside(offset + 1) /\ Byte(offset) >= 192
      /\ afterPointer' = AfterJump /\ offset' = (Byte(offset) % 64) * 256 + Byte(offset + 1) /\ jumped' = TRUE
      /\ UNCHANGED <<message, expected, intact, labels, questions, answersLeft, answers, dns>>
  BY DEF Jump
<1>2. DnsProgress(r)' /\ FieldName' = FieldName /\ FieldEnd' = FieldEnd /\ InField' = InField
  BY <1>1, ProgressUnchanged
<1>3. offset \in Nat /\ labels \in Names /\ InField /\ Reading(r) /\ jumped \in BOOLEAN
  BY <1>1 DEF DnsPlace
<1>4. offset < Len(message)
  BY <1>1 DEF Inside
<1>5. PICK nm \in Names, e \in Nat : /\ Spelled(r, offset, nm, e) /\ labels \o nm = FieldName
                                     /\ (IF jumped THEN afterPointer ELSE e) = FieldEnd
  BY <1>3, <1>4 DEF Reading
<1>6. Byte(offset) = r[offset + 1] /\ Byte(offset + 1) = r[offset + 2] /\ offset + 1 < Len(r)
  <2> DEFINE o == offset + 1
  <2>1. o \in Nat /\ o + 1 = offset + 2
    BY <1>3
  <2> HIDE DEF o
  <2>2. Inside(o)
    BY <1>1 DEF o
  <2>3. Byte(o) = r[o + 1] /\ o < Len(r)
    BY <2>1, <2>2, ByteAt
  <2>4. Byte(offset) = r[offset + 1]
    BY <1>1, <1>3, ByteAt
  <2> QED BY <2>1, <2>3, <2>4 DEF o
<1>7. r[offset + 1] >= 192 /\ offset' = PointerAt(r, offset) /\ offset' \in Nat
  <2>1. r[offset + 1] >= 192
    BY <1>1, <1>6
  <2>2. offset' = PointerAt(r, offset)
    BY <1>1, <1>6 DEF PointerAt
  <2>3. PointerAt(r, offset) \in Nat
    BY <1>3, <1>6, PointerAtType
  <2> QED BY <2>1, <2>2, <2>3
<1>8. e = offset + 2 /\ \E f \in Nat : Spelled(r, PointerAt(r, offset), nm, f)
  BY <1>3, <1>5, <1>7, SpelledJump
<1>9. PICK f \in Nat : Spelled(r, offset', nm, f)
  BY <1>7, <1>8
<1>10. afterPointer' = FieldEnd'
  BY <1>1, <1>2, <1>5, <1>8 DEF AfterJump
<1>11. Reading(r)'
  <2>1. labels' \o nm = FieldName'
    BY <1>1, <1>2, <1>5
  <2>2. (IF jumped' THEN afterPointer' ELSE f) = FieldEnd'
    BY <1>1, <1>10
  <2> QED BY <1>9, <2>1, <2>2 DEF Reading
<1> QED BY <1>1, <1>2, <1>3, <1>7, <1>11 DEF DnsPlace

LEMMA ReadLabelInv ==
  ASSUME NEW r \in Raw, DnsProgress(r), DnsPlace(r), ReadLabel
  PROVE  DnsProgress(r)' /\ DnsPlace(r)'
<1>1. /\ dns = "name" /\ Inside(offset) /\ Byte(offset) \in 1 .. 191
      /\ labels' = Append(labels, Slice(offset + 1, Byte(offset))) /\ offset' = offset + 1 + Byte(offset)
      /\ UNCHANGED <<message, expected, intact, jumped, afterPointer, questions, answersLeft, answers, dns>>
  BY DEF ReadLabel
<1>2. DnsProgress(r)' /\ FieldName' = FieldName /\ FieldEnd' = FieldEnd /\ InField' = InField
  BY <1>1, ProgressUnchanged
<1>3. offset \in Nat /\ labels \in Names /\ InField /\ Reading(r) /\ jumped \in BOOLEAN
  BY <1>1 DEF DnsPlace
<1>4. offset < Len(message)
  BY <1>1 DEF Inside
<1>5. PICK nm \in Names, e \in Nat : /\ Spelled(r, offset, nm, e) /\ labels \o nm = FieldName
                                     /\ (IF jumped THEN afterPointer ELSE e) = FieldEnd
  BY <1>3, <1>4 DEF Reading
<1>6. Byte(offset) = r[offset + 1]
  BY <1>1, <1>3, ByteAt
<1>7. r[offset + 1] \in 1 .. 191
  BY <1>1, <1>6
<1>8. /\ nm # << >> /\ nm[1] \in Raw /\ Tail(nm) \in Names /\ r[offset + 1] = Len(nm[1])
      /\ \A i \in 1 .. Len(nm[1]) : r[offset + 1 + i] = nm[1][i]
      /\ Spelled(r, offset + 1 + Len(nm[1]), Tail(nm), e)
  BY <1>3, <1>5, <1>7, SpelledNext
<1> DEFINE n == Len(nm[1])
           label == nm[1]
<1>9. n \in Nat /\ Byte(offset) = n /\ offset' = offset + 1 + n /\ offset + 1 \in Nat
  <2>1. n \in Nat
    BY <1>8, RawLen, Zenon
  <2>2. Byte(offset) = n
    BY <1>6, <1>8, Zenon
  <2>3. offset' = offset + 1 + n
    BY <1>1, <2>2, Zenon
  <2>4. offset + 1 \in Nat
    BY <1>3
  <2> QED BY <2>1, <2>2, <2>3, <2>4, Zenon
<1>10. offset' \in Nat
  <2> HIDE DEF n
  <2> QED BY <1>3, <1>9
<1>11. labels' \in Names
  <2>1. Slice(offset + 1, Byte(offset)) \in Raw
    BY <1>9, SliceType
  <2> QED BY <1>1, <1>3, <2>1, AppendProperties DEF Names
<1>12. CASE offset' > Len(message)
  <2>1. ~ (offset' < Len(message'))
    <3>1. Len(message) \in Nat /\ message' = message
      BY <1>1, RawLen DEF DnsProgress
    <3> QED BY <1>10, <1>12, <3>1
  <2>2. Reading(r)'
    BY <2>1 DEF Reading
  <2> QED BY <1>1, <1>2, <1>3, <1>10, <1>11, <2>2 DEF DnsPlace
<1>13. CASE ~ (offset' > Len(message))
  <2>1. (offset + 1) + n <= Len(message)
    <3>1. Len(message) \in Nat
      BY RawLen DEF DnsProgress
    <3> HIDE DEF n
    <3> QED BY <1>3, <1>9, <1>10, <1>13, <3>1
  <2>2. Slice(offset + 1, Len(label)) = label
    <3>1. \A i \in 1 .. Len(label) : r[(offset + 1) + i] = label[i]
      BY <1>8
    <3>2. (offset + 1) + Len(label) <= Len(message) /\ label \in Raw
      BY <1>8, <2>1
    <3> HIDE DEF label
    <3> QED BY <1>9, <3>1, <3>2, SliceWhole
  <2>3. labels' = Append(labels, nm[1])
    BY <1>1, <1>9, <2>2
  <2>4. Append(labels, nm[1]) \o Tail(nm) = labels \o nm
    BY <1>3, <1>8, NameStep
  <2>5. Reading(r)'
    <3>1. Spelled(r, offset', Tail(nm), e)
      BY <1>8, <1>9
    <3>2. labels' \o Tail(nm) = FieldName'
      BY <1>2, <1>5, <2>3, <2>4
    <3>3. (IF jumped' THEN afterPointer' ELSE e) = FieldEnd'
      BY <1>1, <1>2, <1>5
    <3> DEFINE t == Tail(nm)
    <3>4. t \in Names /\ Spelled(r, offset', t, e) /\ labels' \o t = FieldName'
      BY <1>8, <3>1, <3>2
    <3> HIDE DEF t
    <3> QED BY <3>3, <3>4 DEF Reading
  <2> QED BY <1>1, <1>2, <1>3, <1>10, <1>11, <2>5 DEF DnsPlace
<1> QED BY <1>12, <1>13

LEMMA EndNameInv ==
  ASSUME NEW id \in {7, 8}, NEW r \in Raw, r = Reply(id, expected), DnsProgress(r), DnsPlace(r), EndName
  PROVE  DnsProgress(r)' /\ DnsPlace(r)'
<1>1. /\ dns = "name" /\ Inside(offset) /\ Byte(offset) = 0
      /\ offset' = (IF jumped THEN afterPointer ELSE offset + 1)
      /\ dns' = (IF questions > 0 THEN "question" ELSE "record")
      /\ UNCHANGED <<message, expected, intact, labels, jumped, afterPointer, questions, answersLeft, answers>>
  BY DEF EndName
<1>2. DnsProgress(r)' /\ FieldName' = FieldName /\ FieldEnd' = FieldEnd /\ InField' = InField
  BY <1>1, ProgressUnchanged
<1>3. offset \in Nat /\ labels \in Names /\ InField /\ Reading(r) /\ jumped \in BOOLEAN
  BY <1>1 DEF DnsPlace
<1>4. offset < Len(message)
  BY <1>1 DEF Inside
<1>5. PICK nm \in Names, e \in Nat : /\ Spelled(r, offset, nm, e) /\ labels \o nm = FieldName
                                     /\ (IF jumped THEN afterPointer ELSE e) = FieldEnd
  BY <1>3, <1>4 DEF Reading
<1>6. r[offset + 1] = 0
  BY <1>1, <1>3, ByteAt
<1>7. nm = << >> /\ e = offset + 1
  BY <1>3, <1>5, <1>6, SpelledEnd
<1>8. labels \o << >> = labels
  BY <1>3, ConcatEmptySeq DEF Names
<1>9. labels' = FieldName' /\ offset' = FieldEnd'
  BY <1>1, <1>2, <1>5, <1>7, <1>8
<1>10. questions \in {0, 1} /\ answersLeft \in Nat
  BY DEF DnsProgress
<1>11. offset' \in Nat
  <2>1. CASE jumped
    <3>1. offset' = FieldEnd
      BY <1>1, <1>5, <2>1
    <3>2. FieldEnd \in Nat
      BY <1>3, FieldSpelled
    <3> QED BY <3>1, <3>2
  <2>2. CASE ~ jumped
    BY <1>1, <1>3, <2>2
  <2> QED BY <2>1, <2>2
<1>12. CASE questions = 1
  BY <1>1, <1>2, <1>3, <1>9, <1>11, <1>12 DEF DnsPlace
<1>13. CASE questions = 0
  BY <1>1, <1>2, <1>3, <1>9, <1>10, <1>11, <1>13 DEF DnsPlace, InField
<1> QED BY <1>10, <1>12, <1>13

LEMMA SkipQuestionInv ==
  ASSUME NEW r \in Raw, DnsProgress(r), DnsPlace(r), SkipQuestion
  PROVE  DnsProgress(r)' /\ DnsPlace(r)'
<1>1. /\ dns = "question" /\ questions' = questions - 1 /\ offset' = offset + 1 /\ dns' = "next"
      /\ UNCHANGED <<message, expected, intact, labels, jumped, answersLeft, answers>>
  BY DEF SkipQuestion
<1>2. questions = 1 /\ offset = Len(Query) - 1 /\ offset \in Nat /\ labels \in Names /\ jumped \in BOOLEAN
  BY <1>1 DEF DnsPlace, FieldEnd
<1>3. answers = << >> /\ questions' = 0 /\ expected \in AnswerLists
  BY <1>1, <1>2 DEF DnsProgress
<1>4. DnsProgress(r)'
  BY <1>1, <1>3 DEF DnsProgress, Answered
<1>5. FieldStart' = Start(expected, 1)
  <2>1. Len(<< >>) + 1 = 1
    OBVIOUS
  <2> QED BY <1>1, <1>3, <2>1 DEF FieldStart, Field
<1>6. Start(expected, 1) = Len(Query)
  BY <1>3, StartFacts
<1>7. offset' = Len(Query) /\ offset' \in Nat
  BY <1>1, <1>2, Offsets
<1> QED BY <1>1, <1>2, <1>4, <1>5, <1>6, <1>7 DEF DnsPlace

LEMMA FinishInv ==
  ASSUME NEW r \in Raw, DnsProgress(r), DnsPlace(r), Finish, dns' # "raised"
  PROVE  DnsProgress(r)' /\ DnsPlace(r)'
<1>1. /\ dns = "next" /\ questions + answersLeft = 0 /\ dns' = "done"
      /\ UNCHANGED <<message, expected, intact, offset, labels, jumped, questions, answersLeft, answers>>
  BY DEF Finish, nameVars
<1>2. DnsProgress(r)'
  BY <1>1, ProgressUnchanged
<1>3. questions = 0 /\ answersLeft = 0
  BY <1>1 DEF DnsProgress
<1> QED BY <1>1, <1>2, <1>3 DEF DnsPlace

LEMMA ReadRecordInv ==
  ASSUME NEW id \in {7, 8}, NEW r \in Raw, r = Reply(id, expected), DnsProgress(r), DnsPlace(r),
         ReadRecord, dns' # "raised"
  PROVE  DnsProgress(r)' /\ DnsPlace(r)'
<1> DEFINE k == Field
           len == Len(message)
           v == IF Byte(offset) = TypeA /\ Byte(offset + 1) = 4 THEN Slice(offset + 2, 4) ELSE << >>
           answer == [name |-> labels, value |-> v]
<1>1. /\ dns = "record" /\ Inside(offset + 1) /\ dns' = "next"
      /\ answers' = Append(answers, answer) /\ offset' = offset + 2 + Byte(offset + 1)
      /\ answersLeft' = answersLeft - 1
      /\ UNCHANGED <<message, expected, intact, labels, jumped, questions>>
  BY DEF ReadRecord
<1>2. /\ questions = 0 /\ answersLeft > 0 /\ offset = FieldEnd /\ labels = FieldName
      /\ offset \in Nat /\ labels \in Names /\ jumped \in BOOLEAN
  BY <1>1 DEF DnsPlace
<1>3. /\ expected \in AnswerLists /\ answersLeft \in Nat /\ Len(answers) \in Nat /\ len \in Nat
      /\ Len(answers) + answersLeft = Len(expected) /\ answers \in Seq([name : Names, value : Raw])
  BY RawLen DEF DnsProgress
<1>4. k = Len(answers) + 1 /\ k \in 1 .. Len(expected) /\ k \in Nat /\ k \in 1 .. Len(expected) + 1
  <2> DEFINE n == Len(expected)
  <2>1. n \in Nat /\ Len(answers) + answersLeft = n
    BY <1>3, ListFacts
  <2> HIDE DEF n
  <2>2. k \in 1 .. n /\ k \in 1 .. n + 1 /\ k \in Nat
    BY <1>2, <1>3, <2>1 DEF Field
  <2> QED BY <2>2 DEF n, Field
<1> DEFINE s == Start(expected, k)
           l == Len(expected[k].bytes)
<1>5. /\ s \in Nat /\ l \in Nat /\ Start(expected, k + 1) = s + l + 6
      /\ offset = s + l /\ labels = expected[k].name
  <2>1. s \in Nat /\ l \in Nat /\ Start(expected, k + 1) = s + l + 6
    BY <1>3, <1>4, StartFacts
  <2>2. offset = s + l /\ labels = expected[k].name
    BY <1>2 DEF FieldEnd, FieldName
  <2> QED BY <2>1, <2>2
<1>6. Has(r, s + l, Fixed) /\ Has(r, s + l + 2, Address(k))
  BY <1>3, <1>4, AnswerAt
<1> HIDE DEF k, s, l
<1>7. Byte(offset) = TypeA /\ Byte(offset + 1) = 4 /\ offset + 1 < len
  <2>1. offset + 1 < len
    BY <1>1 DEF Inside
  <2>2. Inside(offset) /\ offset + 1 \in Nat
    BY <1>2, <1>3, <2>1 DEF Inside
  <2>3. Byte(offset) = r[offset + 1]
    BY <1>2, <2>2, ByteAt
  <2>4. Byte(offset + 1) = r[offset + 2]
    <3> DEFINE o == offset + 1
    <3>1. o + 1 = offset + 2 /\ o \in Nat /\ Inside(o)
      BY <1>1, <1>2
    <3> HIDE DEF o
    <3>2. Byte(o) = r[o + 1]
      BY <3>1, ByteAt
    <3> QED BY <3>1, <3>2 DEF o
  <2>5. r[offset + 1] = TypeA /\ r[offset + 2] = 4
    <3>1. Len(Fixed) = 2 /\ Fixed[1] = TypeA /\ Fixed[2] = 4
      BY FixedFacts
    <3>2. Has(r, offset, Fixed)
      BY <1>5, <1>6
    <3> QED BY <3>1, <3>2 DEF Has
  <2> QED BY <2>1, <2>3, <2>4, <2>5
<1>8. v = Slice(offset + 2, 4) /\ offset' = Start(expected, k + 1) /\ offset' \in Nat
  <2>1. v = Slice(offset + 2, 4)
    BY <1>7
  <2>2. offset' = offset + 2 + 4
    BY <1>1, <1>7
  <2> QED BY <1>2, <1>5, <2>1, <2>2
<1>9. v \in Raw
  <2>1. offset + 2 \in Nat /\ 4 \in Nat
    BY <1>2
  <2> QED BY <1>8, <2>1, SliceType
<1> HIDE DEF v
<1>10. v = Address(k) \/ len < Start(expected, k + 1)
  <2>1. ASSUME ~ (len < Start(expected, k + 1)) PROVE v = Address(k)
    <3>1. Address(k) \in Raw /\ Len(Address(k)) = 4
      BY <1>4, AddressFacts
    <3>2. offset + 2 \in Nat /\ (offset + 2) + 4 <= Len(message)
      BY <1>2, <1>3, <1>5, <2>1
    <3>3. offset + 2 = s + l + 2
      BY <1>5
    <3>4. Has(r, offset + 2, Address(k))
      BY <1>6, <3>3
    <3>5. \A i \in 1 .. Len(Address(k)) : r[(offset + 2) + i] = Address(k)[i]
      BY <3>4 DEF Has
    <3> DEFINE a == Address(k)
               o == offset + 2
    <3> HIDE DEF a, o
    <3>6. o \in Nat /\ a \in Raw /\ Len(a) = 4 /\ o + Len(a) <= Len(message) /\ \A i \in 1 .. Len(a) : r[o + i] = a[i]
      BY <3>1, <3>2, <3>5 DEF a, o
    <3>7. Slice(o, Len(a)) = a
      BY <3>6, SliceWhole
    <3> QED BY <1>8, <3>6, <3>7 DEF a, o
  <2> QED BY <2>1
<1>11. answer \in [name : Names, value : Raw] /\ answer.name = labels /\ answer.value = v
  BY <1>2, <1>9
<1> HIDE DEF answer
<1>12. /\ answers' \in Seq([name : Names, value : Raw]) /\ Len(answers') = k /\ answers'[k] = answer
       /\ \A j \in 1 .. Len(answers) : answers'[j] = answers[j]
  <2>1. /\ Append(answers, answer) \in Seq([name : Names, value : Raw])
        /\ Len(Append(answers, answer)) = Len(answers) + 1
        /\ Append(answers, answer)[Len(answers) + 1] = answer
        /\ \A j \in 1 .. Len(answers) : Append(answers, answer)[j] = answers[j]
    BY <1>3, <1>11, AppendProperties
  <2> QED BY <1>1, <1>4, <2>1
<1>13. ASSUME NEW j \in 1 .. Len(answers') PROVE Answered(j)'
  <2>1. CASE j = k
    <3>1. answers'[j].name = expected'[j].name
      BY <1>1, <1>5, <1>11, <1>12, <2>1
    <3>2. answers'[j].value = v
      BY <1>11, <1>12, <2>1
    <3>3. v = Address(j) \/ (j = Len(answers') /\ Len(message') < Start(expected', j + 1))
      BY <1>1, <1>10, <1>12, <2>1
    <3> QED BY <3>1, <3>2, <3>3 DEF Answered
  <2>2. CASE j # k
    <3>1. j \in 1 .. Len(answers)
      BY <1>3, <1>4, <1>12, <2>2
    <3>2. Answered(j)
      BY <3>1 DEF DnsProgress
    <3>3. answers[j].value = Address(j)
      <4>1. ASSUME j = Len(answers), len < Start(expected, j + 1) PROVE FALSE
        <5>1. j + 1 = k /\ Start(expected, j + 1) = s
          BY <1>4, <4>1 DEF s
        <5>2. len < s
          BY <4>1, <5>1
        <5> QED BY <1>2, <1>3, <1>5, <1>7, <5>2
      <4> QED BY <3>2, <4>1 DEF Answered
    <3>4. answers'[j] = answers[j] /\ expected'[j] = expected[j]
      BY <1>1, <1>12, <3>1
    <3> QED BY <3>2, <3>3, <3>4 DEF Answered
  <2> QED BY <2>1, <2>2
<1>14. DnsProgress(r)'
  <2>1. answersLeft' \in Nat /\ Len(answers') + answersLeft' = Len(expected')
    BY <1>1, <1>2, <1>3, <1>4, <1>12
  <2>2. message' \in Raw /\ Begins(message', r) /\ (intact' => message' = r) /\ expected' \in AnswerLists
    BY <1>1 DEF DnsProgress
  <2>3. questions' = 0
    BY <1>1, <1>2
  <2> QED BY <1>12, <1>13, <2>1, <2>2, <2>3 DEF DnsProgress
<1>15. FieldStart' = Start(expected, k + 1)
  <2>1. questions' = 0 /\ expected' = expected /\ Len(answers') = k
    BY <1>1, <1>2, <1>12
  <2> QED BY <2>1 DEF FieldStart, Field
<1> QED BY <1>1, <1>2, <1>8, <1>14, <1>15 DEF DnsPlace

LEMMA ReceiveReplyInv ==
  ASSUME NEW as \in AnswerLists, NEW id \in {7, 8}, NEW n \in 0 .. Len(Reply(id, as)),
         ReceiveFrom(SubSeq(Reply(id, as), 1, n), as, n = Len(Reply(id, as))), DnsIdle
  PROVE  DnsInv'
<1> DEFINE r == Reply(id, as)
           m == SubSeq(r, 1, n)
           q == Len(as)
<1>1. r \in Raw /\ Len(r) \in Nat /\ Has(r, 0, <<id, 1, q>>)
  BY ReplyShape, RawLen
<1>2. n \in 0 .. Len(r) /\ ReceiveFrom(m, as, n = Len(r))
  OBVIOUS
<1> HIDE DEF r
<1>3. m \in Raw /\ Len(m) = n /\ Begins(m, r)
  BY <1>1, <1>2, TakenBegins DEF Raw
<1>4. n = Len(r) => m = r
  <2>1. ASSUME n = Len(r) PROVE m = r
    BY <1>1, <2>1, SubSeqFull DEF Raw
  <2> QED BY <2>1
<1> HIDE DEF m
<1>5. CASE Len(m) < HeaderLen
  BY <1>2, <1>5 DEF ReceiveFrom, DnsInv
<1>6. CASE ~ (Len(m) < HeaderLen)
  <2>1. /\ message' = m /\ expected' = as /\ intact' = (n = Len(r)) /\ dns' = "next"
        /\ questions' = m[2] /\ answersLeft' = m[3] /\ offset' = HeaderLen
        /\ UNCHANGED <<labels, jumped, answers>>
    BY <1>2, <1>6 DEF ReceiveFrom
  <2>2. labels = << >> /\ jumped = FALSE /\ answers = << >>
    BY DEF DnsIdle, ReceiveFrom
  <2>3. m[2] = 1 /\ m[3] = q
    <3> DEFINE h == <<id, 1, q>>
    <3>1. Len(h) = 3 /\ h[2] = 1 /\ h[3] = q
      OBVIOUS
    <3>2. Has(r, 0, h)
      BY <1>1
    <3> HIDE DEF h
    <3>3. r[2] = 1 /\ r[3] = q
      BY <3>1, <3>2 DEF Has
    <3>4. 2 \in 1 .. Len(m) /\ 3 \in 1 .. Len(m)
      BY <1>2, <1>3, <1>6 DEF HeaderLen
    <3> QED BY <1>3, <3>3, <3>4 DEF Begins
  <2>4. q \in Nat
    BY ListFacts
  <2>5. DnsProgress(r)'
    <3>1. Len(<< >>) = 0 /\ << >> \in Seq([name : Names, value : Raw])
      OBVIOUS
    <3>2. answers' = << >> /\ Len(answers') = 0 /\ Len(expected') = q /\ answersLeft' = q
      BY <2>1, <2>2, <2>3, <3>1
    <3> HIDE DEF q
    <3>3. Len(answers') + answersLeft' = Len(expected')
      BY <2>4, <3>2
    <3>4. message' \in Raw /\ Begins(message', r) /\ (intact' => message' = r) /\ expected' \in AnswerLists
      BY <1>3, <1>4, <2>1
    <3>5. questions' \in {0, 1} /\ answersLeft' \in Nat /\ answers' \in Seq([name : Names, value : Raw])
      BY <2>1, <2>3, <2>4, <3>1, <3>2
    <3>6. \A k \in 1 .. Len(answers') : Answered(k)'
      BY <3>2
    <3> QED BY <3>2, <3>3, <3>4, <3>5, <3>6 DEF DnsProgress
  <2>6. DnsPlace(r)'
    <3>1. << >> \in Names /\ HeaderLen \in Nat
      BY DEF Names, HeaderLen
    <3>2. FieldStart' = HeaderLen
      BY <2>1, <2>3 DEF FieldStart
    <3> QED BY <2>1, <2>2, <3>1, <3>2 DEF DnsPlace
  <2> QED BY <2>1, <2>5, <2>6 DEF DnsInv, r
<1> QED BY <1>5, <1>6

LEMMA InvFrom ==
  ASSUME NEW id \in {7, 8}, NEW r, r = Reply(id, expected'), DnsProgress(r)', DnsPlace(r)'
  PROVE  DnsInv'
<1>1. DnsProgress(Reply(id, expected))'
  BY DEF DnsProgress
<1>2. DnsPlace(Reply(id, expected))'
  BY DEF DnsPlace, Reading
<1>3. \E i \in {7, 8} : DnsProgress(Reply(i, expected))' /\ DnsPlace(Reply(i, expected))'
  BY <1>1, <1>2
<1> QED BY <1>3 DEF DnsInv

LEMMA ParseStepInv ==
  ASSUME DnsInv, ParseStep
  PROVE  DnsInv' /\ dns' # "idle"
<1>1. /\ dns \notin {"idle", "raised"} /\ expected' = expected /\ dns' # "idle"
  BY DEF ParseStep, StartName, NameFails, Jump, ReadLabel, EndName, SkipQuestion, ReadRecord, Finish
<1>2. CASE dns' = "raised" \/ expected = << >>
  BY <1>1, <1>2 DEF DnsInv
<1>3. CASE dns' # "raised" /\ expected # << >>
  <2>1. PICK id \in {7, 8} : DnsProgress(Reply(id, expected)) /\ DnsPlace(Reply(id, expected))
    BY <1>1, <1>3 DEF DnsInv
  <2>2. PICK r : r = Reply(id, expected)
    OBVIOUS
  <2>3. r \in Raw /\ DnsProgress(r) /\ DnsPlace(r)
    <3>1. expected \in AnswerLists
      BY <2>1 DEF DnsProgress
    <3>2. Reply(id, expected) \in Raw
      BY <3>1, ReplyShape
    <3> QED BY <2>1, <2>2, <3>2
  <2>4. DnsProgress(r)' /\ DnsPlace(r)'
    <3>1. CASE StartName
      BY <2>2, <2>3, <3>1, StartNameInv
    <3>2. CASE NameFails
      BY <1>3, <3>2 DEF NameFails
    <3>3. CASE Jump
      BY <2>3, <3>3, JumpInv
    <3>4. CASE ReadLabel
      BY <2>3, <3>4, ReadLabelInv
    <3>5. CASE EndName
      BY <2>2, <2>3, <3>5, EndNameInv
    <3>6. CASE SkipQuestion
      BY <2>3, <3>6, SkipQuestionInv
    <3>7. CASE ReadRecord
      BY <1>3, <2>2, <2>3, <3>7, ReadRecordInv
    <3>8. CASE Finish
      BY <1>3, <2>3, <3>8, FinishInv
    <3> QED BY <3>1, <3>2, <3>3, <3>4, <3>5, <3>6, <3>7, <3>8 DEF ParseStep
  <2>5. r = Reply(id, expected')
    BY <1>1, <2>2
  <2> QED BY <1>1, <2>4, <2>5, InvFrom
<1> QED BY <1>1, <1>2, <1>3

LEMMA DnsNextInv == DnsInv /\ DnsIdle /\ [DnsNext]_dnsVars => DnsInv' /\ DnsIdle'
<1> SUFFICES ASSUME DnsInv, DnsIdle, [DnsNext]_dnsVars PROVE DnsInv' /\ DnsIdle'
  OBVIOUS
<1>1. CASE ParseStep
  <2>1. DnsInv' /\ dns' # "idle"
    BY <1>1, ParseStepInv
  <2> QED BY <2>1 DEF DnsIdle
<1>2. CASE NoReply
  BY <1>2 DEF NoReply, DnsInv, DnsIdle
<1>3. ASSUME NEW as \in AnswerLists, NEW id \in {7, 8}, NEW n \in 0 .. Len(Reply(id, as)),
             ReceiveFrom(SubSeq(Reply(id, as), 1, n), as, n = Len(Reply(id, as)))
      PROVE DnsInv' /\ DnsIdle'
  <2>1. DnsInv'
    BY <1>3, ReceiveReplyInv
  <2>2. dns' # "idle"
    BY <1>3 DEF ReceiveFrom
  <2> QED BY <2>1, <2>2 DEF DnsIdle
<1>4. ASSUME NEW m, ReceiveFrom(m, << >>, FALSE) PROVE DnsInv' /\ DnsIdle'
  BY <1>4 DEF ReceiveFrom, DnsInv, DnsIdle
<1>5. CASE UNCHANGED dnsVars
  <2>1. UNCHANGED <<message, expected, intact, offset, labels, jumped, afterPointer, questions, answersLeft, answers, dns>>
    BY <1>5 DEF dnsVars, nameVars
  <2>2. DnsIdle'
    BY <2>1 DEF DnsIdle
  <2>3. CASE dns \in {"idle", "raised"} \/ expected = << >>
    BY <2>1, <2>2, <2>3 DEF DnsInv
  <2>4. CASE dns \notin {"idle", "raised"} /\ expected # << >>
    <3>1. PICK id \in {7, 8} : DnsProgress(Reply(id, expected)) /\ DnsPlace(Reply(id, expected))
      BY <2>4 DEF DnsInv
    <3>2. PICK r : r = Reply(id, expected)
      OBVIOUS
    <3>3. DnsProgress(r) /\ DnsPlace(r) /\ r = Reply(id, expected')
      BY <2>1, <3>1, <3>2
    <3>4. /\ DnsProgress(r)' /\ FieldName' = FieldName /\ FieldEnd' = FieldEnd
          /\ FieldStart' = FieldStart /\ InField' = InField
      BY <2>1, <3>3, ProgressUnchanged
    <3>5. DnsPlace(r)'
      BY <2>1, <3>3, <3>4 DEF DnsPlace, Reading
    <3>6. DnsInv'
      BY <3>3, <3>4, <3>5, InvFrom
    <3> QED BY <2>2, <3>6
  <2> QED BY <2>2, <2>3, <2>4
<1> QED BY <1>1, <1>2, <1>3, <1>4, <1>5 DEF DnsNext

(* Lines 73-136, read_name() and parse_response(): however the resolver     *)
(* wrote the names of its reply, a reply that is parsed to its end gives    *)
(* every name and every address, but for the last when its end was lost.    *)
THEOREM RepliesAreParsed == DnsSpec => []DnsParsed
<1>1. DnsInit => DnsInv /\ DnsIdle
  BY DEF DnsInit, DnsInv, DnsIdle
<1>2. DnsInv => DnsParsed
  <2> SUFFICES ASSUME DnsInv, dns = "done", expected # << >>
               PROVE  /\ Len(answers) = Len(expected)
                      /\ \A k \in DOMAIN answers :
                           /\ answers[k].name = expected[k].name
                           /\ answers[k].value = Address(k) \/ (~intact /\ k = Len(answers))
    BY DEF DnsParsed
  <2>1. PICK id \in {7, 8} : DnsProgress(Reply(id, expected)) /\ DnsPlace(Reply(id, expected))
    BY DEF DnsInv
  <2> DEFINE n == Len(answers)
             r == Reply(id, expected)
  <2>2. n = Len(expected) /\ DOMAIN answers = 1 .. n /\ n \in Nat
    BY <2>1 DEF DnsProgress, DnsPlace
  <2>3. ASSUME NEW k \in 1 .. n
        PROVE /\ answers[k].name = expected[k].name
              /\ answers[k].value = Address(k) \/ (~intact /\ k = Len(answers))
    <3>1. Answered(k) /\ expected \in AnswerLists /\ (intact => message = r)
      BY <2>1 DEF DnsProgress
    <3>2. Len(r) = Start(expected, n + 1)
      BY <2>2, <3>1, ReplyShape
    <3>3. ASSUME intact, k = n, Len(message) < Start(expected, k + 1) PROVE FALSE
      <4>1. Len(message) = Start(expected, k + 1)
        BY <3>1, <3>2, <3>3
      <4>2. n + 1 \in 1 .. Len(expected) + 1
        BY <2>2
      <4>3. Start(expected, n + 1) \in Nat
        BY <3>1, <4>2, StartFacts
      <4> QED BY <3>3, <4>1, <4>3
    <3> QED BY <3>1, <3>3 DEF Answered
  <2> QED BY <2>2, <2>3
<1> QED BY <1>1, <1>2, DnsNextInv, PTL DEF DnsSpec
=============================================================================
