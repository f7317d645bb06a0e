---------------------------- MODULE Certificate ----------------------------
(***************************************************************************)
(* The DER encoder of tls_inspect.py, byte for byte, and what              *)
(* write_temp_credentials() does with it: the key is made, then the        *)
(* self-signed certificate and the private key file are encoded from it.   *)
(* A dotted OID is the sequence of its numbers; of a time only the year is *)
(* kept, which strftime("%y") writes with two digits.                      *)
(***************************************************************************)
EXTENDS RsaKey

CONSTANTS
  Serials,     \* what secrets.randbits(64) may return
  CnLens,      \* the lengths of the names given as cn
  Years        \* the years in which the program may run

\* the encoder forgets that DER integers are signed.
Bug_SignBit(b) == FALSE

\* _der_len(), _der(), _der_int()
Short(n) == n < 128
DerLen(n) ==
  LET b == Digits(n, 256)
  IN  IF Short(n) THEN <<n>> ELSE <<128 + Len(b)>> \o b
Der(tag, body) == <<tag>> \o DerLen(Len(body)) \o body
SignBit(b) == b[1] >= 128
DerInt(x) ==
  LET b == Digits(x, 256)
  IN  Der(2, IF x = 0 THEN <<0>> ELSE IF SignBit(b) THEN <<0>> \o b ELSE b)

DerSeq(list) == Der(48, FlattenSeq(list))
DerSet(list) == Der(49, FlattenSeq(list))
Null == <<5, 0>>
BitStr(b) == Der(3, <<0>> \o b)
Utf8(s) == Der(12, s)
UtcTime(year) == Der(23, <<48 + (year % 100) \div 10, 48 + (year % 10)>>)

\* _oid(): seven bits to a byte, all but the last with the high bit set
SevenBits(x) ==
  LET b == Digits(x, 128)
  IN  IF x = 0 THEN <<0>> ELSE [i \in 1 .. Len(b) |-> IF i < Len(b) THEN 128 + b[i] ELSE b[i]]
OidBody(parts) ==
  <<parts[1] * 40 + parts[2]>>
    \o FlattenSeq([i \in 1 .. Len(parts) - 2 |-> SevenBits(parts[i + 2])])
Oid(parts) == Der(6, OidBody(parts))

OidRsa == <<1, 2, 840, 113549, 1, 1, 1>>
OidSha256Rsa == <<1, 2, 840, 113549, 1, 1, 11>>
OidCn == <<2, 5, 4, 3>>
OidO == <<2, 5, 4, 10>>
OidSan == <<2, 5, 29, 17>>
Org == <<69, 69>>
Localhost == <<108, 111, 99>>

Spki(k) ==
  DerSeq(<<DerSeq(<<Oid(OidRsa), Null>>), BitStr(DerSeq(<<DerInt(k.n), DerInt(k.e)>>))>>)
Name(cn) ==
  DerSeq(<<DerSet(<<DerSeq(<<Oid(OidCn), Utf8(cn)>>)>>), DerSet(<<DerSeq(<<Oid(OidO), Utf8(Org)>>)>>)>>)

Fields(k) == <<k.n, k.e, k.d, k.p, k.q, k.dp, k.dq, k.qinv>>
Pkcs8PrivateKey(k) ==
  LET rsaPriv == DerSeq([i \in 1 .. 9 |-> DerInt((<<0>> \o Fields(k))[i])])
  IN  DerSeq(<<DerInt(0), DerSeq(<<Oid(OidRsa), Null>>), Der(4, rsaPriv)>>)

\* SHA-256, as a checksum of one digit
Digest(message) ==
  (Len(message) + Cardinality({i \in DOMAIN message : (message[i] + i) % 3 = 0})) % Radix

SigAlg == DerSeq(<<Oid(OidSha256Rsa), Null>>)
San == Der(48, Der(130, Localhost) \o Der(135, <<127, 0, 0, 1>>))
Extensions == Der(163, DerSeq(<<DerSeq(<<Oid(OidSan), Der(4, San)>>)>>))

\* make_self_signed_cert().  Dates are kept to the year, and the 3650 days of
\* its default are ten of them (the leap days are below that grain).
Tbs(k, serial, cn, year) ==
  DerSeq(<<Der(160, DerInt(2)), DerInt(serial), SigAlg, Name(cn),
           DerSeq(<<UtcTime(year), UtcTime(year + 10)>>), Name(cn), Spki(k), Extensions>>)
SelfSigned(k, serial, cn, year) ==
  LET tbs == Tbs(k, serial, cn, year)
  IN  DerSeq(<<tbs, SigAlg, BitStr(Signature(k, Digest(tbs)))>>)

-----------------------------------------------------------------------------
VARIABLES
  made,              \* what the certificate was made for
  certPem, keyPem    \* the files written

credVars == <<made, certPem, keyPem>>

CredInit == RsaInit /\ made = <<>> /\ certPem = <<>> /\ keyPem = <<>>

\* write_temp_credentials(), once generate_rsa() has returned
WriteCredentials(bits, cnLen, year) ==
  LET serial == WithBit(bits, 0)
      cn     == [i \in 1 .. cnLen |-> 97]
  IN  /\ rsa = "made" /\ made = <<>>
      /\ made' = <<serial, cn, year>>
      /\ certPem' = SelfSigned(Key, serial, cn, year)
      /\ keyPem' = Pkcs8PrivateKey(Key)
      /\ UNCHANGED rsaVars

CredNext ==
  \/ RsaNext /\ UNCHANGED credVars
  \/ \E bits \in Serials, cnLen \in CnLens, year \in Years : WriteCredentials(bits, cnLen, year)

CredSpec == CredInit /\ [][CredNext]_<<rsaVars, credVars>>

-----------------------------------------------------------------------------
(* A strict DER reader: the elements that lie one after the other in s, or *)
(* <<>> from the first that is not in the shortest form.                   *)
Elements(s) ==
  LET f[o \in Nat] ==
        IF o > Len(s) THEN <<>>
        ELSE LET k     == IF s[o + 1] < 128 THEN 0 ELSE s[o + 1] - 128
                 n     == IF k = 0 THEN s[o + 1] ELSE FromDigits(SubSeq(s, o + 2, o + 1 + k), 256)
                 first == o + 2 + k
             IN  IF (k > 0 /\ n < 128) \/ first + n - 1 > Len(s) THEN <<>>
                 ELSE <<[tag |-> s[o], body |-> SubSeq(s, first, first + n - 1)]>> \o f[first + n]
  IN  f[1]
Part(s, k) == Elements(s)[k].body
ReadInt(b) == IF b[1] >= 128 THEN -1 ELSE FromDigits(b, 256)
Ints(s) == [k \in DOMAIN Elements(s) |-> ReadInt(Elements(s)[k].body)]

\* X.509: the two digits of a UTCTime stand for 1950 to 2049.
ReadYear(b) ==
  LET yy == (b[1] - 48) * 10 + b[2] - 48 IN IF yy >= 50 THEN 1900 + yy ELSE 2000 + yy

ReadNames(s) == [k \in DOMAIN Elements(s) |-> Part(Part(Part(s, k), 1), 2)]

(* A strict reader of DER and X.509 gets out of the files what went in:    *)
(* the integers, positive, of the key and the certificate, the names at    *)
(* every length, the years, the same algorithm inside and outside, and a   *)
(* signature that opens to the digest of exactly the bytes that were       *)
(* signed.  The two-digit years are right for runs before 2040 only.       *)
CertDecodes ==
  made # <<>> /\ IsPrime(p) /\ IsPrime(q) =>
    LET cert == Part(certPem, 1)
        tbs  == Part(cert, 1)
        pub  == Ints(Part(Tail(Part(Part(tbs, 7), 2)), 1))
        sig  == FromDigits(Tail(Part(cert, 3)), Radix)
        info == Part(keyPem, 1)
    IN  /\ Len(Elements(certPem)) = 1 /\ Len(Elements(cert)) = 3 /\ Len(Elements(tbs)) = 8
        /\ ReadInt(Part(Part(tbs, 1), 1)) = 2
        /\ ReadInt(Part(tbs, 2)) = made[1]
        /\ Elements(tbs)[3] = Elements(cert)[2] /\ Part(Part(tbs, 3), 1) = OidBody(OidSha256Rsa)
        /\ ReadNames(Part(tbs, 4)) = <<made[2], Org>> /\ Elements(tbs)[6] = Elements(tbs)[4]
        /\ ReadYear(Part(Part(tbs, 5), 1)) = made[3]
        /\ ReadYear(Part(Part(tbs, 5), 2)) = made[3] + 10
        /\ pub = <<Key.n, Key.e>>
        /\ Pow(sig, pub[2], pub[1]) = FromDigits(Encoded(Key, Digest(Der(48, tbs))), Radix)
        /\ Ints(Part(Part(info, 3), 1)) = <<0>> \o Fields(Key)
=============================================================================
