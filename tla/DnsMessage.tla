----------------------------- MODULE DnsMessage -----------------------------
(***************************************************************************)
(* dns_query.py: query() sends a question and parses what comes back,      *)
(* which may be the resolver's reply, the beginning of it, a reply with    *)
(* another transaction id, any other datagram, or nothing.  read_name()    *)
(* runs one turn of its loop per step.  Fields of several bytes are one    *)
(* byte here, except the compression pointer and the four of an address:   *)
(* a header is <<id, qdcount, ancount>>, a question's tail its type, a     *)
(* record's <<type, rdlength>>.  Offsets count from 0 as in the code.      *)
(***************************************************************************)
EXTENDS Naturals, Sequences, SequencesExt

CONSTANTS
  QName,        \* the name asked for: a sequence of labels
  Sub,          \* a label that some answers put in front of it
  MaxAnswers,   \* bound: the answers of a reply
  MaxTurns,     \* the limit on read_name()'s turns: 128 in the code
  JunkBytes,    \* the bytes of other datagrams
  MaxJunk       \* bound: how many follow the header of such a datagram

ASSUME DnsAssumption ==
  /\ MaxTurns \in Nat \ {0} /\ MaxAnswers \in Nat /\ JunkBytes \subseteq 0 .. 255
  /\ QName \in Seq(Seq(0 .. 255)) /\ QName # << >> /\ Sub \in Seq(0 .. 255)
  /\ \A label \in {QName[k] : k \in DOMAIN QName} \cup {Sub} : Len(label) \in 1 .. 191

TypeA == 1
HeaderLen == 3
Address(k) == <<1, 2, 3, k>>     \* in the k-th answer

\* encode_qname()
EncodeLabels(name) == FlattenSeq([k \in DOMAIN name |-> <<Len(name[k])>> \o name[k]])
EncodeName(name) == EncodeLabels(name) \o <<0>>

\* build_query(), with transaction id 7
Query == <<7, 1, 0>> \o EncodeName(QName) \o <<TypeA>>

\* A pointer has 14 bits for an offset.
PointerLimit == 64 * 256
ASSUME OffsetAssumption == Len(Query) < PointerLimit

\* A resolver's ways to write a name: in full, as a pointer to the question's,
\* as a label before a pointer into it, and as a pointer to the name of the
\* first answer, when that is a label before a pointer.
Pointer(offset) == <<192 + offset \div 256, offset % 256>>
Sibling == <<Sub>> \o Tail(QName)
Full == [name |-> QName, bytes |-> EncodeName(QName)]
Same == [name |-> QName, bytes |-> Pointer(HeaderLen)]
Suffix == [name |-> Sibling,
           bytes |-> EncodeLabels(<<Sub>>) \o Pointer(HeaderLen + 1 + Len(QName[1]))]
Again == [name |-> Sibling, bytes |-> Pointer(Len(Query))]

AnswerLists ==
  {as \in BoundedSeq({Full, Same, Suffix, Again}, MaxAnswers) :
     \A k \in DOMAIN as : as[k] = Again => k > 1 /\ as[1] = Suffix}

Reply(id, as) ==
  <<id, 1, Len(as)>> \o SubSeq(Query, HeaderLen + 1, Len(Query))
    \o FlattenSeq([k \in DOMAIN as |-> as[k].bytes \o <<TypeA, 4>> \o Address(k)])

VARIABLES
  message,                  \* the datagram received
  expected,                 \* the answers it was made of, if it is a reply
  intact,                   \* it came whole
  offset, labels, jumped, afterPointer, guard,    \* read_name()'s variables
  questions, answersLeft,   \* what is left of the loops of parse_response()
  answers,                  \* the answers parsed
  dns                       \* where query() is

nameVars == <<offset, labels, jumped, afterPointer, guard>>
dnsVars == <<message, expected, intact, nameVars, questions, answersLeft, answers, dns>>

DnsInit ==
  /\ message = << >> /\ expected = << >> /\ intact = FALSE
  /\ offset = 0 /\ labels = << >> /\ jumped = FALSE /\ afterPointer = 0 /\ guard = 0
  /\ questions = 0 /\ answersLeft = 0 /\ answers = << >>
  /\ dns = "idle"

\* a jump is no turn
Bug_Turns == IF offset < Len(message) /\ message[offset + 1] >= 192 THEN guard ELSE guard + 1

\* the offset after the name is the one after the last pointer
Bug_AfterJump == offset + 2

-----------------------------------------------------------------------------
\* sendto() and recvfrom(): a datagram, or the timeout
ReceiveFrom(m, as, whole) ==
  /\ dns = "idle"
  /\ message' = m /\ expected' = as /\ intact' = whole
  /\ IF Len(m) < HeaderLen          \* struct.error
     THEN dns' = "raised" /\ UNCHANGED <<questions, answersLeft, offset>>
     ELSE dns' = "next" /\ questions' = m[2] /\ answersLeft' = m[3] /\ offset' = HeaderLen
  /\ UNCHANGED <<labels, jumped, afterPointer, guard, answers>>

NoReply == dns = "idle" /\ dns' = "raised"
           /\ UNCHANGED <<message, expected, intact, nameVars, questions, answersLeft, answers>>

\* The next name of the question or the answer section.
StartName ==
  /\ dns = "next" /\ questions + answersLeft > 0
  /\ dns' = "name"
  /\ labels' = << >> /\ jumped' = FALSE /\ afterPointer' = offset /\ guard' = 0
  /\ UNCHANGED <<message, expected, intact, offset, questions, answersLeft, answers>>

Inside(o) == o < Len(message)
Byte(o) == message[o + 1]
Slice(from, n) ==
  SubSeq(message, from + 1, IF from + n <= Len(message) THEN from + n ELSE Len(message))

Turns == guard + 1
AfterJump == IF jumped THEN afterPointer ELSE offset + 2

\* The label limit, or message[offset] outside of the message.
NameFails ==
  /\ dns = "name"
  /\ \/ Turns > MaxTurns
     \/ ~Inside(offset)
     \/ Inside(offset) /\ Byte(offset) >= 192 /\ ~Inside(offset + 1)
  /\ dns' = "raised"
  /\ UNCHANGED <<message, expected, intact, nameVars, questions, answersLeft, answers>>

Jump ==
  /\ dns = "name" /\ Turns <= MaxTurns /\ Inside(offset) /\ Inside(offset + 1)
  /\ Byte(offset) >= 192
  /\ guard' = Turns
  /\ afterPointer' = AfterJump
  /\ offset' = (Byte(offset) % 64) * 256 + Byte(offset + 1)
  /\ jumped' = TRUE
  /\ UNCHANGED <<message, expected, intact, labels, questions, answersLeft, answers, dns>>

ReadLabel ==
  /\ dns = "name" /\ Turns <= MaxTurns /\ Inside(offset)
  /\ Byte(offset) \in 1 .. 191
  /\ guard' = Turns
  /\ labels' = Append(labels, Slice(offset + 1, Byte(offset)))
  /\ offset' = offset + 1 + Byte(offset)
  /\ UNCHANGED <<message, expected, intact, jumped, afterPointer, questions, answersLeft, answers, dns>>

EndName ==
  /\ dns = "name" /\ Turns <= MaxTurns /\ Inside(offset)
  /\ Byte(offset) = 0
  /\ guard' = Turns
  /\ offset' = IF jumped THEN afterPointer ELSE offset + 1
  /\ dns' = IF questions > 0 THEN "question" ELSE "record"
  /\ UNCHANGED <<message, expected, intact, labels, jumped, afterPointer, questions, answersLeft, answers>>

\* offset += 4
SkipQuestion ==
  /\ dns = "question"
  /\ questions' = questions - 1
  /\ offset' = offset + 1
  /\ dns' = "next"
  /\ UNCHANGED <<message, expected, intact, labels, jumped, afterPointer, guard, answersLeft, answers>>

\* The fixed part of a record, or struct.error; its data may be cut short.
ReadRecord ==
  /\ dns = "record"
  /\ IF ~Inside(offset + 1)
     THEN dns' = "raised" /\ UNCHANGED <<offset, answersLeft, answers>>
     ELSE /\ answers' = Append(answers, [name |-> labels,
               value |-> IF Byte(offset) = TypeA /\ Byte(offset + 1) = 4
                         THEN Slice(offset + 2, 4) ELSE << >>])
          /\ offset' = offset + 2 + Byte(offset + 1)
          /\ answersLeft' = answersLeft - 1
          /\ dns' = "next"
  /\ UNCHANGED <<message, expected, intact, labels, jumped, afterPointer, guard, questions>>

\* assert result["id"] == txn_id
Finish ==
  /\ dns = "next" /\ questions + answersLeft = 0
  /\ dns' = IF message[1] = Query[1] THEN "done" ELSE "raised"
  /\ UNCHANGED <<message, expected, intact, nameVars, questions, answersLeft, answers>>

ParseStep ==
  StartName \/ NameFails \/ Jump \/ ReadLabel \/ EndName \/ SkipQuestion \/ ReadRecord \/ Finish

DnsNext ==
  \/ \E as \in AnswerLists, id \in {7, 8} :
       \E n \in 0 .. Len(Reply(id, as)) :
         ReceiveFrom(SubSeq(Reply(id, as), 1, n), as, n = Len(Reply(id, as)))
  \/ \E n \in 0 .. MaxJunk, an \in 0 .. 1 :
       \E junk \in [1 .. n -> JunkBytes] : ReceiveFrom(<<7, 1, an>> \o junk, << >>, FALSE)
  \/ NoReply
  \/ ParseStep

(* query() runs on.                                                         *)
DnsSpec == DnsInit /\ [][DnsNext]_dnsVars /\ WF_dnsVars(ParseStep)

-----------------------------------------------------------------------------
(* Lines 73-136: whatever mixture of labels and pointers a resolver used,   *)
(* all the names and addresses of its reply are found, each record after    *)
(* the one before.  Of a reply that lost its end no name is wrong: parsing  *)
(* fails, or only the last address is short.                                *)
DnsParsed ==
  dns = "done" /\ expected # << >> =>
    /\ Len(answers) = Len(expected)
    /\ \A k \in DOMAIN answers :
         /\ answers[k].name = expected[k].name
         /\ answers[k].value = Address(k) \/ (~intact /\ k = Len(answers))

(* "stop pathological loops" (line 87): parsing ends for every datagram,    *)
(* also when a pointer points to itself or ahead.                           *)
DnsEnds == []<>(dns \in {"idle", "done", "raised"})
=============================================================================
