----------------------------- MODULE HttpClient -----------------------------
(***************************************************************************)
(* http_get() of http_client.py against a server whose answer arrives in   *)
(* pieces and which may close the connection anywhere in it.  Each loop    *)
(* around recv() is a phase; a phase ends when it has what it waits for or *)
(* when recv() returns nothing.  The status line, a header and the size of *)
(* a chunk are one byte each, line ends two.                               *)
(***************************************************************************)
EXTENDS Naturals, Sequences, FiniteSetsExt, SequencesExt

CONSTANT Pieces     \* the content, as the pieces that /chunked sends

ASSUME HttpAssumption ==
  Pieces \in Seq(Seq(STRING)) /\ \A k \in DOMAIN Pieces : Len(Pieces[k]) \in {1, 2}

Content == FlattenSeq(Pieces)
Kinds == {"chunked", "length", "close"}
Size == [b \in {"0", "1", "2"} |-> IF b = "0" THEN 0 ELSE IF b = "1" THEN 1 ELSE 2]
Digit(n) == CHOOSE b \in DOMAIN Size : Size[b] = n

\* What DemoHandler sends; a third kind of answer has no framing header.
Crlf == <<"CR", "LF">>
Headers(kind) == <<"status">> \o Crlf \o (IF kind = "close" THEN << >> ELSE <<"framing">> \o Crlf) \o Crlf
Chunk(piece) == <<Digit(Len(piece))>> \o Crlf \o piece \o Crlf
Answer(kind) ==
  Headers(kind) \o (IF kind = "chunked"
                 THEN FlattenSeq([k \in DOMAIN Pieces |-> Chunk(Pieces[k])]) \o <<"0">> \o Crlf \o Crlf
                 ELSE Content)

VARIABLES
  framing,    \* the kind of the answer
  whole,      \* the server sends the answer to its end before it closes
  coming,     \* the bytes that recv() has yet to return
  buf,        \* what has been received and not used
  chunkSize,  \* size, in _decode_chunked()
  body,       \* the body so far
  phase       \* which loop http_get() is in, or how it ended

httpVars == <<framing, whole, coming, buf, chunkSize, body, phase>>

HttpInit ==
  /\ framing = "close" /\ whole = TRUE /\ coming = << >>
  /\ buf = << >> /\ chunkSize = 0 /\ body = << >>
  /\ phase = "idle"

\* the bytes received with the header are dropped
Bug_Rest(marker) == << >>

-----------------------------------------------------------------------------
\* bytes.find() and what follows the marker
Places(marker) ==
  {k \in 1 .. Len(buf) - Len(marker) + 1 : SubSeq(buf, k, k + Len(marker) - 1) = marker}
Found(marker) == Places(marker) # {}
Index(marker) == Min(Places(marker))
Before(marker) == IF Found(marker) THEN SubSeq(buf, 1, Index(marker) - 1) ELSE buf
Rest(marker) == IF Found(marker) THEN SubSeq(buf, Index(marker) + Len(marker), Len(buf)) ELSE << >>

Eof == coming = << >>
Taken(n) == SubSeq(buf, 1, IF n <= Len(buf) THEN n ELSE Len(buf))

\* What each phase waits for.
HeadReady == Eof \/ Found(Crlf \o Crlf)
LengthReady == Eof \/ Len(buf) >= Len(Content)
LineReady == Eof \/ Found(Crlf)
DataReady == Eof \/ Len(buf) >= chunkSize + 2

Ready ==
  CASE phase = "head" -> HeadReady
    [] phase = "length" -> LengthReady
    [] phase \in {"line", "last"} -> LineReady
    [] phase = "data" -> DataReady
    [] phase = "close" -> Eof
    [] OTHER -> TRUE

-----------------------------------------------------------------------------
\* The request; the server will send the first n bytes of its answer.
Get(kind, n) ==
  /\ phase = "idle"
  /\ framing' = kind
  /\ whole' = (n = Len(Answer(kind)))
  /\ coming' = SubSeq(Answer(kind), 1, n)
  /\ phase' = "head"
  /\ UNCHANGED <<buf, chunkSize, body>>

\* recv(), in any of the loops
Receive ==
  /\ phase # "idle" /\ ~Ready
  /\ \E n \in 1 .. Len(coming) :
       /\ buf' = buf \o SubSeq(coming, 1, n)
       /\ coming' = SubSeq(coming, n + 1, Len(coming))
  /\ UNCHANGED <<framing, whole, chunkSize, body, phase>>

Timeout ==
  /\ phase # "idle" /\ ~Ready
  /\ phase' = "raised"
  /\ UNCHANGED <<framing, whole, coming, buf, chunkSize, body>>

\* Status and headers: int("") raises; a header that did not come is no header.
ParseHead ==
  /\ phase = "head" /\ Ready
  /\ LET got == Before(Crlf \o Crlf) IN
     phase' = IF Len(got) = 0 THEN "raised"
              ELSE IF \A k \in DOMAIN got : got[k] # "framing" THEN "close"
              ELSE IF framing = "chunked" THEN "line" ELSE "length"
  /\ buf' = Rest(Crlf \o Crlf)
  /\ UNCHANGED <<framing, whole, coming, chunkSize, body>>

\* _recv_exactly(), and the loop until the end of the stream
TakeBody ==
  /\ phase \in {"length", "close"} /\ Ready
  /\ body' = IF phase = "length" THEN Taken(Len(Content)) ELSE buf
  /\ phase' = "done"
  /\ UNCHANGED <<framing, whole, coming, buf, chunkSize>>

\* _decode_chunked(): the size line, of which nothing may have come (0)
ChunkLine ==
  /\ phase = "line" /\ Ready
  /\ chunkSize' = IF Before(Crlf) = << >> THEN 0 ELSE Size[Before(Crlf)[1]]
  /\ buf' = Rest(Crlf)
  /\ phase' = IF chunkSize' = 0 THEN "last" ELSE "data"
  /\ UNCHANGED <<framing, whole, coming, body>>

\* _decode_chunked(): the data and the line end behind it
ChunkData ==
  /\ phase = "data" /\ Ready
  /\ body' = body \o Taken(chunkSize)
  /\ buf' = SubSeq(buf, Len(Taken(chunkSize + 2)) + 1, Len(buf))
  /\ phase' = "line"
  /\ UNCHANGED <<framing, whole, coming, chunkSize>>

ChunkLast ==
  /\ phase = "last" /\ Ready
  /\ phase' = "done"
  /\ UNCHANGED <<framing, whole, coming, buf, chunkSize, body>>

HttpStep == ParseHead \/ TakeBody \/ ChunkLine \/ ChunkData \/ ChunkLast \/ Receive \/ Timeout

HttpNext == HttpStep \/ \E kind \in Kinds : \E n \in 0 .. Len(Answer(kind)) : Get(kind, n)

(* The client runs, and the server sends, closes or lets it time out.       *)
HttpSpec == HttpInit /\ [][HttpNext]_httpVars /\ WF_httpVars(HttpStep)

-----------------------------------------------------------------------------
(* Lines 174-188 and 216, 228: however the stream is cut into pieces, the   *)
(* body of a complete answer is the content, without line ends or sizes.    *)
BodyFramed == phase = "done" /\ whole => body = Content

(* The loops end: http_get() returns or raises, wherever the server closes. *)
HttpEnds == []<>(phase \in {"idle", "done", "raised"})

-----------------------------------------------------------------------------
(* What the comments say and the code does not do.                          *)

(* "read exactly n body bytes" (line 14), "Return exactly n bytes" (line    *)
(* 99): a body that is framed by its length has that length when http_get() *)
(* returns it, wherever the server closed.                                  *)
ExactlyN == [][phase = "length" /\ phase' = "done" => Len(body') = Len(Content)]_httpVars
=============================================================================
