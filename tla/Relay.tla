-------------------------------- MODULE Relay --------------------------------
(***************************************************************************)
(* A message that is read from one peer and passed on to another: a        *)
(* request from the client to a server (parse_request, write_request), or  *)
(* a response on its way back (parse_response, write_response).            *)
(*                                                                         *)
(* The bytes of a message arrive in pieces of any size, and the peer may   *)
(* close in the middle.  A start line and a header line are one symbol     *)
(* each, and so is every byte of the body and of the lines between chunks. *)
(***************************************************************************)
EXTENDS Integers, Sequences

CONSTANTS
  Messages,  \* what peers send; see Message
  BufSize    \* the capacity of a BufWriter

\* A message: its symbols, the value of its Content-Length, the body meant by
\* them and how many chunks it comes in, whether it lasts until the peer closes,
\* and whether it has a Content-Length and no body (the response to a HEAD).
Symbols == {"start", "bad_start", "bad_header", "length", "chunked", "gzip", "other", "blank",
            "0", "1", "2", "SP", "CR", "LF", "a", "b"}
Message ==
  [kind : {"request", "response"}, wire : Seq(Symbols), length : Nat, body : Seq(Symbols),
   chunks : Nat, until_close : BOOLEAN, head : BOOLEAN]

MessagesAssumption == Messages \subseteq Message /\ BufSize \in Nat \ {0}
ASSUME MessagesAssumption

(* The framings the theorems about this module take in. *)

\* The start line and the header lines of m end with the empty line at k.
HeadEnds(m, k) ==
  /\ m.wire[1] = "start" /\ m.wire[k] = "blank"
  /\ \A j \in 2 .. k - 1 : m.wire[j] \notin {"blank", "bad_header"}
HeaderLines(m, k) == {m.wire[j] : j \in 2 .. k - 1}

\* A line of the head is none.
IllFormed(m) ==
  \/ m.wire[1] = "bad_start"
  \/ /\ m.wire[1] = "start"
     /\ \E k \in 2 .. Len(m.wire) :
          m.wire[k] = "bad_header" /\ \A j \in 2 .. k - 1 : m.wire[j] # "blank"

\* The body is as long as announced, or there is none.
FramedByLength(m, k) ==
  IF m.head
  THEN Len(m.wire) = k /\ m.body = <<>>
  ELSE k + m.length <= Len(m.wire) /\ m.body = SubSeq(m.wire, k + 1, k + m.length)

\* The line with the size of the first chunk ends at e, and a line break follows the chunk.
ChunkSize(digit) == IF digit = "1" THEN 1 ELSE 2
FirstChunk(m, k, e) ==
  LET size == ChunkSize(m.wire[k + 1]) IN
  /\ m.wire[k + 1] \in {"1", "2"}
  /\ m.wire[e] = "LF" /\ \A j \in k + 2 .. e - 1 : m.wire[j] # "LF"
  /\ e + size + 3 <= Len(m.wire) /\ m.wire[e + size + 1] \in {"SP", "CR"}
  /\ m.chunks = 1 => m.body = SubSeq(m.wire, e + 1, e + size)

\* A size is followed by a space or the end of its line, and an empty line is last.
FramedByChunks(m, k) ==
  LET last == Len(m.wire) IN
  /\ k + 4 <= last /\ m.wire[k + 2] \in {"SP", "CR"}
  /\ m.wire[last - 2] = "LF" /\ m.wire[last - 1] = "CR" /\ m.wire[last] = "LF"
  /\ IF m.chunks = 0
     THEN m.wire[k + 1] = "0" /\ m.body = <<>>
     ELSE \E e \in k + 3 .. last : FirstChunk(m, k, e)

\* Chunks go before a Content-Length, which may say anything when both are there.
WellFramed(m, k) ==
  LET lines == HeaderLines(m, k) IN
  IF "chunked" \in lines THEN FramedByChunks(m, k)
  ELSE IF "gzip" \in lines THEN TRUE
  ELSE IF "length" \in lines THEN FramedByLength(m, k)
  ELSE m.body = <<>> \/ m.until_close

FramingAssumption ==
  \A m \in Messages :
    /\ Len(m.wire) > 0
    /\ \/ IllFormed(m)
       \/ \E k \in 2 .. Len(m.wire) : HeadEnds(m, k) /\ WellFramed(m, k)
ASSUME FramingAssumption

VARIABLES
  message,  \* the message
  arrived,  \* how many of its symbols have come
  closed,   \* the peer has closed
  pos,      \* how many of them were read
  mode,     \* where the parser is
  headers,  \* the header lines read
  digits,   \* local length of parse_chunked_body, as text
  need,     \* bytes read_n_bytes_to still wants
  body,     \* the body read
  sent      \* what is passed on

rvars == <<message, arrived, closed, pos, mode, headers, digits, need, body, sent>>

Modes == {"start", "headers", "data", "size", "size_line", "chunk", "trailers", "trailer_line",
          "last_line", "read", "sent", "failed"}

RelayInit ==
  /\ message \in Messages
  /\ arrived = 0 /\ closed = FALSE
  /\ pos = 0 /\ mode = "start"
  /\ headers = {} /\ digits = <<>> /\ need = 0 /\ body = <<>>
  /\ sent = [headers |-> {}, length |-> 0, body |-> <<>>]

\* What fill_buf finds: bytes, the end of file, or nothing yet.
Available == pos < arrived
Eof == pos = arrived /\ closed
Waiting == pos = arrived /\ ~closed
Byte == message.wire[pos + 1]
Reading == mode \notin {"read", "sent", "failed"}

-----------------------------------------------------------------------------
(* The peer *)

Arrive ==
  /\ Reading /\ ~closed
  /\ \E n \in arrived + 1 .. Len(message.wire) : arrived' = n
  /\ UNCHANGED <<message, closed, pos, mode, headers, digits, need, body, sent>>

Close ==
  /\ Reading /\ ~closed
  /\ closed' = TRUE
  /\ UNCHANGED <<message, arrived, pos, mode, headers, digits, need, body, sent>>

-----------------------------------------------------------------------------
(* parse_start_line, parse_headers and parse_body *)

GiveUp ==
  /\ mode' = "failed"
  /\ UNCHANGED <<message, arrived, closed, pos, headers, digits, need, body, sent>>

StartLine ==
  /\ mode = "start" /\ Available /\ Byte = "start"
  /\ mode' = "headers" /\ pos' = pos + 1
  /\ UNCHANGED <<message, arrived, closed, headers, digits, need, body, sent>>

\* A space, a version, a digit or a line break is missing, or there is no line at all.
StartLineFails == mode = "start" /\ (Eof \/ (Available /\ Byte = "bad_start")) /\ GiveUp

HeaderLine ==
  /\ mode = "headers" /\ Available /\ Byte \notin {"blank", "bad_header"}
  /\ headers' = headers \cup {Byte}
  /\ pos' = pos + 1
  /\ UNCHANGED <<message, arrived, closed, mode, digits, need, body, sent>>

\* There is no colon, or the value is no text.
HeaderLineFails == mode = "headers" /\ Available /\ Byte = "bad_header" /\ GiveUp

\* Transfer-Encoding is removed from the headers and goes before Content-Length,
\* which is kept.
BeginBody ==
  /\ headers' = headers \ {"chunked", "gzip"}
  /\ mode' = IF "chunked" \in headers THEN "size"
             ELSE IF "gzip" \in headers THEN "failed"
             ELSE IF "length" \in headers THEN "data" ELSE "read"
  /\ need' = IF mode' = "data" THEN message.length ELSE 0
  /\ UNCHANGED <<message, arrived, closed, digits, body, sent>>

EndOfHeaders == mode = "headers" /\ Available /\ Byte = "blank" /\ pos' = pos + 1 /\ BeginBody

\* The end of file ends the headers of a request as an empty line does.
HeadersCut ==
  /\ mode = "headers" /\ Eof /\ UNCHANGED pos
  /\ \/ message.kind = "request" /\ BeginBody
     \/ message.kind = "response" /\ GiveUp

-----------------------------------------------------------------------------
(* read_n_bytes_to *)

Least(m, n) == IF m <= n THEN m ELSE n

\* Mutant: what is in the buffer is taken whole.
ReadBytesBeyond ==
  /\ mode \in {"data", "chunk"} /\ need > 0 /\ Available
  /\ body' = body \o SubSeq(message.wire, pos + 1, arrived)
  /\ pos' = arrived
  /\ need' = need - Least(arrived - pos, need)
  /\ UNCHANGED <<message, arrived, closed, mode, headers, digits, sent>>

\* Mutant: as many bytes are consumed as are wanted, not as were taken.
ReadBytesAhead ==
  LET n == Least(arrived - pos, need) IN
  /\ mode \in {"data", "chunk"} /\ need > 0 /\ Available
  /\ body' = body \o SubSeq(message.wire, pos + 1, pos + n)
  /\ pos' = pos + need
  /\ need' = need - n
  /\ UNCHANGED <<message, arrived, closed, mode, headers, digits, sent>>

ReadBytes ==
  LET n == Least(arrived - pos, need) IN
  /\ mode \in {"data", "chunk"} /\ need > 0 /\ Available
  /\ body' = body \o SubSeq(message.wire, pos + 1, pos + n)
  /\ pos' = pos + n
  /\ need' = need - n
  /\ UNCHANGED <<message, arrived, closed, mode, headers, digits, sent>>

\* All was read, or no more will come: that is no error.
EndOfBytes ==
  /\ mode \in {"data", "chunk"}
  /\ need = 0 \/ Eof
  /\ mode' = IF mode = "chunk" THEN "size" ELSE "read"
  /\ need' = 0
  /\ UNCHANGED <<message, arrived, closed, pos, headers, digits, body, sent>>

-----------------------------------------------------------------------------
(* parse_chunked_body *)

SizeDigit ==
  /\ mode = "size" /\ Available /\ Byte \notin {"SP", "CR"}
  /\ digits' = Append(digits, Byte)
  /\ pos' = pos + 1
  /\ UNCHANGED <<message, arrived, closed, mode, headers, need, body, sent>>

SizeRead ==
  /\ mode = "size"
  /\ Eof \/ (Available /\ Byte \in {"SP", "CR"})
  /\ mode' = "size_line"
  /\ UNCHANGED <<message, arrived, closed, pos, headers, digits, need, body, sent>>

\* skip_until_inclusive stops behind a line feed or at the end of file.
SkipByte ==
  /\ mode \in {"size_line", "trailer_line", "last_line"}
  /\ Available /\ Byte # "LF"
  /\ pos' = pos + 1
  /\ UNCHANGED <<message, arrived, closed, mode, headers, digits, need, body, sent>>

LineSkipped ==
  \/ Eof /\ UNCHANGED pos
  \/ Available /\ Byte = "LF" /\ pos' = pos + 1

\* The sizes the messages have: one hexadecimal digit.
Size == CASE digits = <<"1">> -> 1 [] digits = <<"2">> -> 2 [] OTHER -> 0
IsEmptyOrZero == digits \in {<<>>, <<"0">>}

\* An empty size ends the body as a size of zero does.  The line break behind a
\* chunk is not read with it, and makes the size of the next chunk empty.
BeginChunk ==
  /\ mode = "size_line"
  /\ LineSkipped
  /\ mode' = IF IsEmptyOrZero THEN "trailers" ELSE IF Size > 0 THEN "chunk" ELSE "failed"
  /\ need' = Size
  /\ digits' = <<>>
  /\ UNCHANGED <<message, arrived, closed, headers, body, sent>>

\* Lines are skipped until one begins with a carriage return.
PeekTrailer ==
  /\ mode = "trailers" /\ (Available \/ Eof)
  /\ mode' = IF Eof \/ Byte = "CR" THEN "last_line" ELSE "trailer_line"
  /\ UNCHANGED <<message, arrived, closed, pos, headers, digits, need, body, sent>>

TrailerSkipped ==
  /\ mode \in {"trailer_line", "last_line"}
  /\ LineSkipped
  /\ mode' = IF mode = "last_line" THEN "read" ELSE "trailers"
  /\ UNCHANGED <<message, arrived, closed, headers, digits, need, body, sent>>

-----------------------------------------------------------------------------
\* The parser is in a read that finds nothing.
Starved == Reading /\ Waiting /\ (mode \in {"data", "chunk"} => need > 0)

\* Mutant: the timer runs while there is something to read.
TimerFiresWhileReading ==
  /\ Reading /\ ~closed
  /\ GiveUp

\* Mutant: a body read by its Content-Length has no timer.
TimerFiresExceptData == Starved /\ mode # "data" /\ GiveUp

\* header_timeout, or body_timeout, which starts again with every read.
TimerFires == Starved /\ GiveUp

-----------------------------------------------------------------------------
(* write_request and write_response *)

\* The body of a request is given to one call of write, of which the socket may
\* take a part when the buffers are too small for it.
WriteRequest ==
  /\ mode = "read" /\ message.kind = "request"
  /\ \E n \in 0 .. Len(body) :
       /\ n = Len(body) \/ (Len(body) >= BufSize /\ n > 0)
       /\ sent' = [headers |-> headers, length |-> message.length, body |-> SubSeq(body, 1, n)]
  /\ mode' = "sent"
  /\ UNCHANGED <<message, arrived, closed, pos, headers, digits, need, body>>

\* Mutant: a response without a Content-Length stays without.
WriteResponseUnframed ==
  /\ mode = "read" /\ message.kind = "response"
  /\ sent' = [headers |-> headers, length |-> message.length, body |-> body]
  /\ mode' = "sent"
  /\ UNCHANGED <<message, arrived, closed, pos, headers, digits, need, body>>

\* The body of a response is written in pieces that fit, behind a Content-Length.
WriteResponse ==
  /\ mode = "read" /\ message.kind = "response"
  /\ sent' = [headers |-> headers \cup {"length"},
              length |-> IF "length" \in headers THEN message.length ELSE Len(body),
              body |-> body]
  /\ mode' = "sent"
  /\ UNCHANGED <<message, arrived, closed, pos, headers, digits, need, body>>

ParserStep ==
  \/ StartLine \/ StartLineFails \/ HeaderLine \/ HeaderLineFails \/ EndOfHeaders \/ HeadersCut
  \/ ReadBytes \/ EndOfBytes
  \/ SizeDigit \/ SizeRead \/ SkipByte \/ BeginChunk \/ PeekTrailer \/ TrailerSkipped
  \/ WriteRequest \/ WriteResponse

Settled == mode \in {"sent", "failed"} /\ UNCHANGED rvars

RelayNext == Arrive \/ Close \/ ParserStep \/ TimerFires \/ Settled

\* The task is scheduled and its timer fires.  The peer need never send or close.
RelaySpec == RelayInit /\ [][RelayNext]_rvars /\ WF_rvars(ParserStep) /\ WF_rvars(TimerFires)

-----------------------------------------------------------------------------
\* Every variable has its type; no more is read than has come.
RelayTypeOK ==
  /\ message \in Messages
  /\ arrived \in 0 .. Len(message.wire) /\ pos \in 0 .. arrived
  /\ closed \in BOOLEAN
  /\ mode \in Modes
  /\ headers \subseteq Symbols
  /\ digits \in Seq(Symbols) /\ body \in Seq(Symbols)
  /\ need \in Nat
  /\ sent.headers \subseteq Symbols /\ sent.length \in Nat /\ sent.body \in Seq(Symbols)

CutShort == closed /\ arrived < Len(message.wire)

\* However its bytes come in pieces, the body read is the body sent, unless the
\* peer closed too early, it came in several chunks, or it lasts until the close.
BodyIsRead ==
  mode \in {"read", "sent"} =>
    body = message.body \/ CutShort \/ message.chunks > 1 \/ message.until_close

\* A message is given up only when its peer falls silent or closes before its
\* end, when it is ill-formed, when its encoding is unknown, or when it has a length
\* and no body.
WholeMessagesAreRead ==
  mode = "failed" =>
    \/ arrived < Len(message.wire)
    \/ \E k \in 1 .. Len(message.wire) : message.wire[k] \in {"bad_start", "bad_header", "gzip"}
    \/ message.head

\* What the next peer reads of the message passed on, by the rules of this one.
Received ==
  IF "length" \in sent.headers
  THEN SubSeq(sent.body, 1, Least(sent.length, Len(sent.body)))
  ELSE <<>>

\* The body comes in chunks and has a Content-Length besides.
FramedTwice ==
  \E k \in 2 .. Len(message.wire) :
    HeadEnds(message, k) /\ {"length", "chunked"} \subseteq HeaderLines(message, k)

\* The client is sent the body that was read, and gets all of it behind a length
\* that is its own, unless the server closed too early or announced a body it has
\* not.  The exception is a response in chunks with a Content-Length besides, which
\* goes on with that length, whatever the chunks held.
ResponseIsFramed ==
  mode = "sent" /\ message.kind = "response" =>
    /\ sent.body = body
    /\ IF FramedTwice
       THEN sent.length = message.length
       ELSE Received = body /\ (sent.length = Len(body) \/ CutShort \/ message.head)

\* docs/index.md: a copy of the request is sent on.
RequestIsCopied ==
  mode = "sent" /\ message.kind = "request" /\ ~CutShort => Received = message.body

\* Every message is passed on or given up, whatever its peer does.
MessageEnds == <>(mode \in {"sent", "failed"})
=============================================================================
