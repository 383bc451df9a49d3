----------------------------- MODULE RelayProofs -----------------------------
(***************************************************************************)
(* Theorems about a message that is read and passed on: which symbol of it *)
(* the parser stands at in each of its modes, and what of the body it has, *)
(* for every message of the framings, every division of it into pieces and *)
(* every moment the peer may close or fall silent.                         *)
(***************************************************************************)
EXTENDS Relay, SequenceTheorems, TLAPS

\* In the head.  A line that was read was a line.
HeadPlace ==
  /\ mode = "start" => pos = 0 /\ headers = {} /\ digits = <<>> /\ body = <<>>
  /\ mode = "headers" =>
       /\ pos >= 1 /\ message.wire[1] = "start"
       /\ \A j \in 2 .. pos : message.wire[j] \notin {"blank", "bad_header"}
       /\ headers = {message.wire[j] : j \in 2 .. pos}
       /\ digits = <<>> /\ body = <<>>

\* In a body with a Content-Length, behind the empty line at k.
LengthPlace(k) ==
  /\ mode \in {"data", "read", "sent"}
  /\ pos \in k .. k + message.length /\ body = SubSeq(message.wire, k + 1, pos)
  /\ IF mode = "data" THEN need = k + message.length - pos
     ELSE pos = k + message.length \/ CutShort \/ message.head

\* Behind the last size read: lines are skipped, and the empty one at the end of the
\* message is not passed by.
TailPlace ==
  LET last == Len(message.wire) IN
  \/ mode = "size_line" /\ digits \in {<<>>, <<"0">>} /\ pos <= last - 3
  \/ mode = "trailers" /\ pos <= last - 2
  \/ mode = "trailer_line" /\ pos <= last - 3
  \/ mode = "last_line" /\ pos <= last - 1
  \/ mode \in {"read", "sent"}

\* At the first size, behind the empty line at k.
SizePlace(k) ==
  /\ mode = "size" /\ body = <<>>
  /\ \/ pos = k /\ digits = <<>>
     \/ pos = k + 1 /\ digits = <<message.wire[k + 1]>>

\* In a body of chunks whose first has its size in the line that ends at e.
FirstPlace(k, e) ==
  LET end == e + ChunkSize(message.wire[k + 1]) IN
  \/ SizePlace(k)
  \/ mode = "size_line" /\ body = <<>> /\ digits = <<message.wire[k + 1]>> /\ pos \in k + 1 .. e - 1
  \/ /\ mode = "chunk" /\ digits = <<>>
     /\ pos \in e .. end /\ body = SubSeq(message.wire, e + 1, pos) /\ need = end - pos
  \/ /\ body = SubSeq(message.wire, e + 1, end)
     /\ \/ mode = "size" /\ pos = end /\ digits = <<>>
        \/ TailPlace

ChunkModes ==
  {"size", "size_line", "chunk", "trailers", "trailer_line", "last_line", "read", "sent"}

ChunkPlace(k) ==
  /\ mode \in ChunkModes
  /\ \/ CutShort
     \/ IF message.chunks = 0 THEN SizePlace(k) \/ (body = <<>> /\ TailPlace)
        ELSE \E e \in k + 3 .. Len(message.wire) : FirstChunk(message, k, e) /\ FirstPlace(k, e)

\* Behind the head, which ended at k.
BodyPlace(k) ==
  LET lines == HeaderLines(message, k) IN
  /\ HeadEnds(message, k) /\ WellFramed(message, k)
  /\ headers = lines \ {"chunked", "gzip"}
  /\ IF "chunked" \in lines THEN ChunkPlace(k)
     ELSE /\ "gzip" \notin lines
          /\ IF "length" \in lines THEN LengthPlace(k) ELSE mode \in {"read", "sent"} /\ body = <<>>

InBody == mode \notin {"start", "headers", "failed"}

Place ==
  InBody =>
    \/ CutShort /\ message.kind = "request"
    \/ \E k \in 2 .. Len(message.wire) : BodyPlace(k)

\* A response is passed on as it was read, with a Content-Length.
ResponsePassedOn ==
  mode = "sent" /\ message.kind = "response" =>
    /\ sent.headers = headers \cup {"length"} /\ sent.body = body
    /\ sent.length = IF "length" \in headers THEN message.length ELSE Len(body)

RelayInv == RelayTypeOK /\ HeadPlace /\ Place /\ ResponsePassedOn /\ WholeMessagesAreRead

-----------------------------------------------------------------------------
(* Types *)

\* What there is to know of a message that is being read.
LEMMA MessageFacts ==
  ASSUME RelayTypeOK
  PROVE  /\ message \in Message
         /\ message.wire \in Seq(Symbols) /\ Len(message.wire) \in Nat
         /\ message.length \in Nat /\ message.chunks \in Nat
         /\ message.kind \in {"request", "response"}
         /\ arrived \in Nat /\ pos \in Nat /\ pos <= arrived /\ arrived <= Len(message.wire)
<1>1. message \in Message
  BY MessagesAssumption DEF RelayTypeOK, MessagesAssumption
<1>2. message.wire \in Seq(Symbols) /\ Len(message.wire) \in Nat
  BY <1>1 DEF Message
<1>3. arrived \in Nat /\ pos \in Nat /\ pos <= arrived /\ arrived <= Len(message.wire)
  BY <1>2 DEF RelayTypeOK
<1> QED BY <1>1, <1>2, <1>3 DEF Message

LEMMA ByteIsSymbol ==
  ASSUME RelayTypeOK, Available
  PROVE  Byte \in Symbols /\ pos + 1 \in 1 .. Len(message.wire) /\ pos + 1 \in 0 .. arrived
<1>1. pos + 1 \in 1 .. Len(message.wire) /\ pos + 1 \in 0 .. arrived
  BY MessageFacts DEF Available
<1> QED BY <1>1, MessageFacts, ElementOfSeq DEF Byte

\* The next n symbols of what has come.
LEMMA NextSymbols ==
  ASSUME RelayTypeOK, NEW n \in Nat, pos + n <= arrived
  PROVE  SubSeq(message.wire, pos + 1, pos + n) \in Seq(Symbols)
<1>1. \A i \in pos + 1 .. pos + n : i \in 1 .. Len(message.wire)
  BY MessageFacts
<1>2. \A i \in pos + 1 .. pos + n : message.wire[i] \in Symbols
  BY <1>1, MessageFacts, ElementOfSeq
<1> QED BY <1>2, MessageFacts, SubSeqProperties

LEMMA BytesTaken ==
  ASSUME RelayTypeOK, ReadBytes
  PROVE  \E n \in Nat \ {0} :
           /\ n <= need /\ pos + n <= arrived
           /\ body' = body \o SubSeq(message.wire, pos + 1, pos + n)
           /\ pos' = pos + n /\ need' = need - n
<1> DEFINE n == Least(arrived - pos, need)
<1>1. need \in Nat /\ need > 0 /\ pos < arrived
  BY DEF RelayTypeOK, ReadBytes, Available
<1>2. n \in Nat \ {0} /\ n <= need /\ pos + n <= arrived
  BY <1>1, MessageFacts DEF Least
<1>3. /\ body' = body \o SubSeq(message.wire, pos + 1, pos + n)
      /\ pos' = pos + n /\ need' = need - n
  BY DEF ReadBytes
<1> QED BY <1>2, <1>3

LEMMA RelayTypeInit == RelayInit => RelayTypeOK
<1> SUFFICES ASSUME RelayInit PROVE RelayTypeOK
  OBVIOUS
<1>1. message \in Messages /\ Len(message.wire) \in Nat
  BY MessagesAssumption DEF RelayInit, MessagesAssumption, Message
<1>2. <<>> \in Seq(Symbols)
  BY EmptySeq
<1>3. sent.headers = {} /\ sent.length = 0 /\ sent.body = <<>>
  BY DEF RelayInit
<1>4. arrived = 0 /\ pos = 0 /\ closed = FALSE /\ mode = "start" /\ headers = {}
      /\ digits = <<>> /\ need = 0 /\ body = <<>>
  BY DEF RelayInit
<1>5. arrived \in 0 .. Len(message.wire) /\ pos \in 0 .. arrived
  BY <1>1, <1>4
<1>6. mode \in Modes /\ headers \subseteq Symbols /\ closed \in BOOLEAN /\ need \in Nat
  BY <1>4 DEF Modes
<1>7. digits \in Seq(Symbols) /\ body \in Seq(Symbols)
  BY <1>2, <1>4
<1>8. sent.headers \subseteq Symbols /\ sent.length \in Nat /\ sent.body \in Seq(Symbols)
  BY <1>2, <1>3
<1> QED BY <1>1, <1>5, <1>6, <1>7, <1>8 DEF RelayTypeOK

LEMMA RelayTypeStep == RelayTypeOK /\ [RelayNext]_rvars => RelayTypeOK'
<1> SUFFICES ASSUME RelayTypeOK, [RelayNext]_rvars PROVE RelayTypeOK'
  OBVIOUS
<1>a. /\ Len(message.wire) \in Nat /\ message.length \in Nat
      /\ arrived \in Nat /\ pos \in Nat /\ pos <= arrived /\ arrived <= Len(message.wire)
  BY MessageFacts
<1>b. Available => Byte \in Symbols /\ pos + 1 \in 0 .. arrived
  BY ByteIsSymbol
<1> USE DEF RelayTypeOK, Modes
<1>1. CASE Arrive
  <2>1. PICK n \in arrived + 1 .. Len(message.wire) : arrived' = n
    BY <1>1 DEF Arrive
  <2>2. arrived' \in 0 .. Len(message.wire) /\ pos \in 0 .. arrived'
    BY <2>1, <1>a
  <2> QED BY <1>1, <2>2 DEF Arrive
<1>2. CASE Close
  BY <1>2 DEF Close
<1>3. CASE GiveUp
  BY <1>3 DEF GiveUp
<1>4. CASE StartLine
  BY <1>4, <1>b DEF StartLine
<1>5. CASE HeaderLine
  BY <1>5, <1>b DEF HeaderLine
<1>6. ASSUME pos' \in 0 .. arrived, BeginBody PROVE RelayTypeOK'
  BY <1>6, <1>a DEF BeginBody
<1>7. CASE EndOfHeaders \/ HeadersCut
  <2>1. EndOfHeaders => RelayTypeOK'
    BY <1>6, <1>b DEF EndOfHeaders
  <2>2. HeadersCut => RelayTypeOK'
    BY <1>3, <1>6 DEF HeadersCut
  <2> QED BY <1>7, <2>1, <2>2
<1>8. CASE ReadBytes
  <2>1. PICK n \in Nat : /\ n <= need /\ pos + n <= arrived
                         /\ body' = body \o SubSeq(message.wire, pos + 1, pos + n)
                         /\ pos' = pos + n /\ need' = need - n
    BY <1>8, BytesTaken
  <2>2. body' \in Seq(Symbols)
    BY <2>1, NextSymbols, ConcatProperties
  <2>3. pos' \in 0 .. arrived /\ need' \in Nat
    <3>1. need \in Nat
      OBVIOUS
    <3> QED BY <2>1, <1>a, <3>1
  <2> QED BY <1>8, <2>2, <2>3 DEF ReadBytes
<1>9. CASE EndOfBytes
  BY <1>9 DEF EndOfBytes
<1>10. CASE SizeDigit
  <2>1. digits' \in Seq(Symbols)
    BY <1>10, <1>b, AppendProperties DEF SizeDigit
  <2> QED BY <1>10, <1>b, <2>1 DEF SizeDigit
<1>11. CASE SizeRead
  BY <1>11 DEF SizeRead
<1>12. CASE SkipByte
  BY <1>12, <1>b DEF SkipByte
<1>13. LineSkipped => pos' \in 0 .. arrived
  BY <1>b DEF LineSkipped
<1>14. CASE BeginChunk
  <2>1. Size \in Nat /\ <<>> \in Seq(Symbols)
    BY EmptySeq DEF Size
  <2> QED BY <1>13, <1>14, <2>1 DEF BeginChunk
<1>15. CASE PeekTrailer
  BY <1>15 DEF PeekTrailer
<1>16. CASE TrailerSkipped
  BY <1>13, <1>16 DEF TrailerSkipped
<1>17. CASE WriteRequest
  <2>1. PICK n \in 0 .. Len(body) :
          sent' = [headers |-> headers, length |-> message.length, body |-> SubSeq(body, 1, n)]
    BY <1>17 DEF WriteRequest
  <2>2. \A i \in 1 .. n : body[i] \in Symbols
    <3>1. body \in Seq(Symbols) /\ Len(body) \in Nat
      OBVIOUS
    <3>2. \A i \in 1 .. n : i \in 1 .. Len(body)
      BY <3>1
    <3> QED BY <3>1, <3>2, ElementOfSeq
  <2>3. SubSeq(body, 1, n) \in Seq(Symbols)
    BY <2>1, <2>2, SubSeqProperties
  <2>4. sent'.headers \subseteq Symbols /\ sent'.length \in Nat /\ sent'.body \in Seq(Symbols)
    BY <1>a, <2>1, <2>3
  <2> QED BY <1>17, <2>4 DEF WriteRequest
<1>18. CASE WriteResponse
  <2>1. sent'.headers \subseteq Symbols /\ sent'.length \in Nat /\ sent'.body \in Seq(Symbols)
    <3>1. /\ sent'.headers = headers \cup {"length"} /\ sent'.body = body
          /\ sent'.length = IF "length" \in headers THEN message.length ELSE Len(body)
      BY <1>18 DEF WriteResponse
    <3>2. Len(body) \in Nat /\ headers \cup {"length"} \subseteq Symbols
      BY DEF Symbols
    <3> QED BY <1>a, <3>1, <3>2
  <2> QED BY <1>18, <2>1 DEF WriteResponse
<1>19. CASE UNCHANGED rvars
  BY <1>19 DEF rvars
<1> QED
  BY <1>1, <1>2, <1>3, <1>4, <1>5, <1>7, <1>8, <1>9, <1>10, <1>11, <1>12, <1>14, <1>15, <1>16,
     <1>17, <1>18, <1>19
  DEF RelayNext, ParserStep, StartLineFails, HeaderLineFails, TimerFires, Settled

\* For any messages and any way their symbols arrive, every variable has its type,
\* and the parser never stands behind what has come.
THEOREM RelayTypeCorrect == RelaySpec => []RelayTypeOK
BY RelayTypeInit, RelayTypeStep, PTL DEF RelaySpec

-----------------------------------------------------------------------------
(* The end of what was sent *)

\* Once a message is cut short it stays so: nothing arrives behind the close.
LEMMA CutStays ==
  ASSUME RelayTypeOK, [RelayNext]_rvars
  PROVE  message' = message /\ (CutShort => CutShort')
<1>1. CASE Arrive
  BY <1>1 DEF Arrive, CutShort
<1>2. CASE Close
  BY <1>2 DEF Close, CutShort
<1>3. CASE ParserStep \/ TimerFires \/ Settled \/ UNCHANGED rvars
  <2>1. UNCHANGED <<message, arrived, closed>>
    BY <1>3 DEF ParserStep, StartLine, StartLineFails, HeaderLine, HeaderLineFails, EndOfHeaders,
                HeadersCut, ReadBytes, EndOfBytes, SizeDigit, SizeRead, SkipByte, BeginChunk,
                PeekTrailer, TrailerSkipped, WriteRequest, WriteResponse, TimerFires, Settled,
                GiveUp, BeginBody, rvars
  <2> QED BY <2>1 DEF CutShort
<1> QED BY <1>1, <1>2, <1>3 DEF RelayNext

\* Which framing the message has.
LEMMA Framing ==
  ASSUME RelayTypeOK
  PROVE  /\ Len(message.wire) > 0
         /\ \/ IllFormed(message)
            \/ \E k \in 2 .. Len(message.wire) : HeadEnds(message, k) /\ WellFramed(message, k)
BY FramingAssumption DEF FramingAssumption, RelayTypeOK

\* The head of a message is not at its end: there is an ill-formed or an empty line.
LEMMA HeadEndsWithin ==
  ASSUME RelayTypeOK, HeadPlace, mode \in {"start", "headers"}
  PROVE  pos < Len(message.wire)
<1>1. /\ Len(message.wire) \in Nat /\ pos \in Nat /\ pos <= Len(message.wire)
      /\ Len(message.wire) > 0
  BY MessageFacts, Framing
<1>2. CASE mode = "start"
  BY <1>1, <1>2 DEF HeadPlace
<1>3. ASSUME mode = "headers", pos = Len(message.wire) PROVE FALSE
  <2>1. /\ message.wire[1] = "start"
        /\ \A j \in 2 .. Len(message.wire) : message.wire[j] \notin {"blank", "bad_header"}
    BY <1>3 DEF HeadPlace
  <2>2. ~IllFormed(message)
    BY <2>1 DEF IllFormed
  <2>3. PICK k \in 2 .. Len(message.wire) : HeadEnds(message, k)
    BY <2>2, Framing
  <2> QED BY <2>1, <2>3 DEF HeadEnds
<1> QED BY <1>1, <1>2, <1>3

\* A body of chunks is read to its end before the end of the message is reached.
LEMMA ChunksEndWithin ==
  ASSUME RelayTypeOK, NEW k \in 2 .. Len(message.wire), ChunkPlace(k), ~CutShort, Reading,
         FramedByChunks(message, k)
  PROVE  pos < Len(message.wire)
<1> DEFINE last == Len(message.wire)
<1>1. last \in Nat /\ pos \in Nat /\ k \in Nat /\ k + 4 <= last
  BY MessageFacts DEF FramedByChunks
<1> HIDE DEF last
<1>2. mode \notin {"read", "sent"}
  BY DEF Reading
<1>3. TailPlace => pos < last
  BY <1>1, <1>2 DEF TailPlace, last
<1>4. SizePlace(k) => pos < last
  BY <1>1 DEF SizePlace
<1>5. ASSUME NEW e \in k + 3 .. last, FirstChunk(message, k, e), FirstPlace(k, e)
      PROVE  pos < last
  <2>1. PICK size \in {1, 2} : size = ChunkSize(message.wire[k + 1])
    BY DEF ChunkSize
  <2>2. e + size + 3 <= last /\ e \in Nat
    BY <1>1, <1>5, <2>1 DEF FirstChunk, last
  <2>3. \/ SizePlace(k) \/ TailPlace
        \/ pos \in k + 1 .. e - 1 \/ pos \in e .. e + size \/ pos = e + size
    BY <1>5, <2>1 DEF FirstPlace
  <2> QED BY <1>1, <1>3, <1>4, <2>1, <2>2, <2>3
<1> QED BY <1>3, <1>4, <1>5 DEF ChunkPlace, last

\* With the whole message read and nothing but the end of it to come, the parser is in
\* a body that has all its symbols, or was announced and is not there.
LEMMA EndReached ==
  ASSUME RelayTypeOK, HeadPlace, Place, Reading, ~CutShort, pos = Len(message.wire)
  PROVE  mode = "data" /\ (need = 0 \/ message.head)
<1>1. InBody
  BY HeadEndsWithin, MessageFacts DEF InBody, Reading
<1>2. PICK k \in 2 .. Len(message.wire) : BodyPlace(k)
  BY <1>1 DEF Place
<1> DEFINE lines == HeaderLines(message, k)
<1>3. "chunked" \notin lines
  <2>1. ASSUME "chunked" \in lines PROVE pos < Len(message.wire)
    BY <1>2, <2>1, ChunksEndWithin DEF BodyPlace, WellFramed
  <2> QED BY <2>1, MessageFacts
<1>4. LengthPlace(k) /\ mode = "data" /\ FramedByLength(message, k)
  BY <1>2, <1>3 DEF BodyPlace, WellFramed, LengthPlace, Reading
<1>5. CASE ~message.head
  <2>1. k + message.length <= Len(message.wire) /\ need = k + message.length - pos
        /\ pos <= k + message.length
    BY <1>4, <1>5, MessageFacts DEF FramedByLength, LengthPlace
  <2> QED BY <1>4, <2>1, MessageFacts
<1> QED BY <1>4, <1>5

-----------------------------------------------------------------------------
(* Giving up *)

Steady == RelayTypeOK /\ HeadPlace /\ Place /\ WholeMessagesAreRead

\* A reason to give up that the message or its peer has given.
Justified ==
  \/ arrived < Len(message.wire)
  \/ \E k \in 1 .. Len(message.wire) : message.wire[k] \in {"bad_start", "bad_header", "gzip"}
  \/ message.head

LEMMA GivenUp ==
  ASSUME Justified, GiveUp
  PROVE  WholeMessagesAreRead' /\ HeadPlace' /\ Place' /\ ResponsePassedOn'
BY DEF Justified, GiveUp, WholeMessagesAreRead, HeadPlace, Place, InBody, ResponsePassedOn

LEMMA ByteJustifies ==
  ASSUME RelayTypeOK, Available, Byte \in {"bad_start", "bad_header", "gzip"}
  PROVE  Justified
BY ByteIsSymbol DEF Justified, Byte

\* A parser that is starved, or finds the end of file in the head, has not been sent all.
LEMMA StarvedJustified ==
  ASSUME Steady, Starved
  PROVE  Justified
<1>1. pos = arrived /\ ~CutShort /\ Reading
  BY DEF Starved, Waiting, CutShort
<1>2. CASE pos = Len(message.wire)
  BY <1>1, <1>2, EndReached DEF Steady, Starved, Justified
<1>3. CASE pos # Len(message.wire)
  BY <1>1, <1>3, MessageFacts DEF Steady, Justified
<1> QED BY <1>2, <1>3

LEMMA CutInHead ==
  ASSUME Steady, Eof, mode \in {"start", "headers"}
  PROVE  CutShort /\ Justified
BY HeadEndsWithin, MessageFacts DEF Steady, Eof, CutShort, Justified

LEMMA StepsThatGiveUp ==
  ASSUME Steady, StartLineFails \/ HeaderLineFails \/ TimerFires
  PROVE  WholeMessagesAreRead' /\ HeadPlace' /\ Place' /\ ResponsePassedOn'
<1>1. GiveUp
  BY DEF StartLineFails, HeaderLineFails, TimerFires
<1>2. Justified
  BY StarvedJustified, CutInHead, ByteJustifies
  DEF StartLineFails, HeaderLineFails, TimerFires, Steady
<1> QED BY <1>1, <1>2, GivenUp

-----------------------------------------------------------------------------
(* The head *)

LEMMA HeadStep ==
  ASSUME Steady, StartLine \/ HeaderLine
  PROVE  WholeMessagesAreRead' /\ HeadPlace' /\ Place' /\ ResponsePassedOn'
<1>1. /\ mode' = "headers" /\ pos' = pos + 1 /\ Available
      /\ UNCHANGED <<message, digits, body>>
  BY DEF StartLine, HeaderLine
<1>2. pos \in Nat /\ Byte = message.wire[pos + 1]
  BY MessageFacts DEF Steady, Byte
<1>3. CASE StartLine
  <2>1. pos = 0 /\ headers' = {} /\ digits = <<>> /\ body = <<>>
    BY <1>3 DEF StartLine, Steady, HeadPlace
  <2>2. message.wire[pos + 1] = "start" /\ pos + 1 = 1
    BY <1>2, <1>3, <2>1 DEF StartLine
  <2>3. message.wire[1] = "start"
    BY <2>2
  <2>4. 2 .. 1 = {}
    OBVIOUS
  <2>5. pos' = 1 /\ message' = message /\ digits' = <<>> /\ body' = <<>>
    BY <1>1, <2>1
  <2>6. HeadPlace'
    BY <1>1, <2>1, <2>3, <2>4, <2>5 DEF HeadPlace
  <2> QED BY <1>1, <2>6 DEF WholeMessagesAreRead, Place, InBody, ResponsePassedOn
<1>4. CASE HeaderLine
  <2>1. /\ pos >= 1 /\ message.wire[1] = "start" /\ digits = <<>> /\ body = <<>>
        /\ \A j \in 2 .. pos : message.wire[j] \notin {"blank", "bad_header"}
        /\ headers = {message.wire[j] : j \in 2 .. pos}
        /\ message.wire[pos + 1] \notin {"blank", "bad_header"}
        /\ headers' = headers \cup {message.wire[pos + 1]}
    BY <1>2, <1>4 DEF HeaderLine, Steady, HeadPlace
  <2>2. 2 .. pos + 1 = (2 .. pos) \cup {pos + 1}
    BY <1>2, <2>1
  <2>3. /\ \A j \in 2 .. pos + 1 : message.wire[j] \notin {"blank", "bad_header"}
        /\ headers' = {message.wire[j] : j \in 2 .. pos + 1}
    BY <2>1, <2>2
  <2>4. pos + 1 >= 1
    BY <1>2
  <2> QED BY <1>1, <2>1, <2>3, <2>4
          DEF HeadPlace, WholeMessagesAreRead, Place, InBody, ResponsePassedOn
<1> QED BY <1>3, <1>4

\* The first empty line is the one the framing speaks of.
LEMMA HeadFound ==
  ASSUME Steady, EndOfHeaders
  PROVE  /\ pos + 1 \in 2 .. Len(message.wire)
         /\ HeadEnds(message, pos + 1) /\ WellFramed(message, pos + 1)
         /\ headers = HeaderLines(message, pos + 1)
<1>1. PICK p \in Nat : p = pos
  BY MessageFacts DEF Steady
<1>2. p + 1 \in 2 .. Len(message.wire) /\ message.wire[p + 1] = "blank"
      /\ Len(message.wire) \in Nat
  BY <1>1, ByteIsSymbol, MessageFacts DEF Steady, HeadPlace, EndOfHeaders, Byte
<1>3. /\ p >= 1 /\ message.wire[1] = "start"
      /\ \A j \in 2 .. p : message.wire[j] \notin {"blank", "bad_header"}
      /\ headers = {message.wire[j] : j \in 2 .. p}
  BY <1>1 DEF Steady, HeadPlace, EndOfHeaders
<1>4. (p + 1) - 1 = p
  BY <1>1
<1>5. HeadEnds(message, p + 1) /\ headers = HeaderLines(message, p + 1)
  BY <1>2, <1>3, <1>4 DEF HeadEnds, HeaderLines
<1>6. ~IllFormed(message)
  <2>1. ASSUME NEW k \in 2 .. Len(message.wire), message.wire[k] = "bad_header",
               \A j \in 2 .. k - 1 : message.wire[j] # "blank"
        PROVE  FALSE
    <3>1. k \notin 2 .. p /\ k # p + 1
      BY <1>2, <1>3, <2>1
    <3>2. p + 1 \in 2 .. k - 1
      BY <1>2, <3>1
    <3> QED BY <1>2, <2>1, <3>2
  <2> QED BY <1>3, <2>1 DEF IllFormed
<1>7. PICK k \in 2 .. Len(message.wire) : HeadEnds(message, k) /\ WellFramed(message, k)
  BY <1>6, Framing DEF Steady
<1>8. k = p + 1
  <2>1. k \notin 2 .. p
    BY <1>3, <1>7 DEF HeadEnds
  <2>2. p + 1 \notin 2 .. k - 1
    BY <1>2, <1>7 DEF HeadEnds
  <2> QED BY <1>2, <2>1, <2>2
<1> QED BY <1>1, <1>2, <1>5, <1>7, <1>8

\* Behind the head the parser is at the beginning of the body.
LEMMA EndOfHeadersStep ==
  ASSUME Steady, EndOfHeaders
  PROVE  WholeMessagesAreRead' /\ HeadPlace' /\ Place' /\ ResponsePassedOn'
<1>1. PICK k \in 2 .. Len(message.wire) : k = pos + 1
  BY HeadFound
<1> DEFINE lines == HeaderLines(message, k)
<1>2. HeadEnds(message, k) /\ WellFramed(message, k) /\ headers = lines
  BY <1>1, HeadFound
<1>3. /\ pos' = k /\ headers' = lines \ {"chunked", "gzip"}
      /\ mode' = IF "chunked" \in lines THEN "size" ELSE IF "gzip" \in lines THEN "failed"
                 ELSE IF "length" \in lines THEN "data" ELSE "read"
      /\ need' = IF mode' = "data" THEN message.length ELSE 0
      /\ UNCHANGED <<message, arrived, closed, sent>>
  BY <1>1, <1>2 DEF EndOfHeaders, BeginBody
<1>4. digits' = <<>> /\ body' = <<>>
  BY DEF EndOfHeaders, BeginBody, Steady, HeadPlace
<1>5. k \in Nat /\ k < k + 1 /\ message.length \in Nat /\ Len(message.wire) \in Nat
  BY MessageFacts DEF Steady
<1>6. ASSUME "chunked" \in lines PROVE ChunkPlace(k)'
  <2>1. SizePlace(k)'
    BY <1>3, <1>4, <1>6 DEF SizePlace
  <2>2. CASE message.chunks = 0
    BY <1>3, <1>6, <2>1, <2>2 DEF ChunkPlace, ChunkModes
  <2>3. CASE message.chunks # 0
    <3>1. PICK e \in k + 3 .. Len(message.wire) : FirstChunk(message, k, e)
      BY <1>2, <1>6, <2>3 DEF WellFramed, FramedByChunks
    <3>2. FirstPlace(k, e)'
      BY <2>1 DEF FirstPlace
    <3>3. FirstChunk(message', k, e) /\ e \in k + 3 .. Len(message'.wire)
      BY <1>3, <3>1
    <3> QED BY <1>3, <1>6, <2>3, <3>2, <3>3 DEF ChunkPlace, ChunkModes
  <2> QED BY <2>2, <2>3
<1>7. ASSUME "chunked" \notin lines, "gzip" \notin lines, "length" \in lines
      PROVE  LengthPlace(k)'
  <2>1. SubSeq(message.wire, k + 1, k) = <<>>
    BY <1>5, SubSeqEmpty
  <2>2. mode' = "data" /\ need' = message.length
    BY <1>3, <1>7
  <2>3. k \in k .. k + message.length /\ message.length = k + message.length - k
    BY <1>5
  <2> QED BY <1>3, <1>4, <2>1, <2>2, <2>3 DEF LengthPlace
<1>8. CASE "gzip" \in lines /\ "chunked" \notin lines
  <2>1. PICK j \in 2 .. k - 1 : message.wire[j] = "gzip"
    BY <1>8 DEF HeaderLines
  <2>2. j \in 1 .. Len(message.wire)
    BY <1>5
  <2>3. WholeMessagesAreRead'
    BY <1>3, <2>1, <2>2 DEF WholeMessagesAreRead
  <2> QED BY <1>3, <1>8, <2>3 DEF HeadPlace, Place, InBody, ResponsePassedOn
<1>9. CASE "gzip" \notin lines \/ "chunked" \in lines
  <2>1. BodyPlace(k)'
    BY <1>2, <1>3, <1>4, <1>6, <1>7, <1>9 DEF BodyPlace
  <2>2. mode' \in {"size", "data", "read"}
    BY <1>3, <1>9
  <2> QED BY <1>3, <2>1, <2>2 DEF HeadPlace, Place, ResponsePassedOn, WholeMessagesAreRead
<1> QED BY <1>8, <1>9

LEMMA HeadersCutStep ==
  ASSUME Steady, HeadersCut
  PROVE  WholeMessagesAreRead' /\ HeadPlace' /\ Place' /\ ResponsePassedOn'
<1>1. mode = "headers" /\ CutShort /\ Justified
  BY CutInHead DEF HeadersCut
<1>2. CASE GiveUp
  BY <1>1, <1>2, GivenUp
<1>3. CASE message.kind = "request" /\ BeginBody
  <2>1. /\ mode' \in {"size", "failed", "data", "read"}
        /\ UNCHANGED <<message, arrived, closed>>
    BY <1>3 DEF BeginBody
  <2>2. CutShort' /\ arrived' < Len(message'.wire)
    BY <1>1, <2>1 DEF CutShort
  <2> QED BY <1>3, <2>1, <2>2
          DEF WholeMessagesAreRead, HeadPlace, Place, ResponsePassedOn
<1> QED BY <1>2, <1>3 DEF HeadersCut

-----------------------------------------------------------------------------
(* The body *)

BodyStep ==
  \/ ReadBytes \/ EndOfBytes \/ SizeDigit \/ SizeRead \/ SkipByte \/ BeginChunk
  \/ PeekTrailer \/ TrailerSkipped \/ WriteRequest \/ WriteResponse

\* The peer and the head are left alone, and a read parser only writes.
LEMMA BodySteps ==
  ASSUME BodyStep
  PROVE  /\ UNCHANGED <<message, arrived, closed, headers>>
         /\ InBody /\ mode # "sent" /\ CutShort' = CutShort
         /\ mode' \notin {"start", "headers"}
<1>1. CASE ReadBytes \/ EndOfBytes
  BY <1>1 DEF ReadBytes, EndOfBytes, InBody, CutShort
<1>2. CASE SizeDigit \/ SizeRead
  BY <1>2 DEF SizeDigit, SizeRead, InBody, CutShort
<1>3. CASE SkipByte \/ BeginChunk
  BY <1>3 DEF SkipByte, BeginChunk, InBody, CutShort
<1>4. CASE PeekTrailer \/ TrailerSkipped
  BY <1>4 DEF PeekTrailer, TrailerSkipped, InBody, CutShort
<1>5. CASE WriteRequest \/ WriteResponse
  BY <1>5 DEF WriteRequest, WriteResponse, InBody, CutShort
<1> QED BY <1>1, <1>2, <1>3, <1>4, <1>5 DEF BodyStep

\* Only a response is passed on as a response.
LEMMA PassedOnStep ==
  ASSUME BodyStep
  PROVE  ResponsePassedOn'
<1>1. CASE mode' # "sent"
  BY <1>1 DEF ResponsePassedOn
<1>2. CASE mode' = "sent"
  <2>1. WriteRequest \/ WriteResponse
    BY <1>2, BodySteps DEF BodyStep, ReadBytes, EndOfBytes, SizeDigit, SizeRead, SkipByte,
                           BeginChunk, PeekTrailer, TrailerSkipped
  <2>2. CASE WriteRequest
    BY <2>2 DEF WriteRequest, ResponsePassedOn
  <2>3. CASE WriteResponse
    BY <2>3 DEF WriteResponse, ResponsePassedOn
  <2> QED BY <2>1, <2>2, <2>3
<1> QED BY <1>1, <1>2

\* What is taken goes behind what was there.
LEMMA PieceAdded ==
  ASSUME RelayTypeOK, NEW a \in Nat, a <= pos, NEW n \in Nat, pos + n <= arrived
  PROVE  SubSeq(message.wire, a + 1, pos) \o SubSeq(message.wire, pos + 1, pos + n)
           = SubSeq(message.wire, a + 1, pos + n)
<1>1. /\ a + 1 \in 1 .. Len(message.wire) + 1
      /\ pos \in (a + 1) - 1 .. Len(message.wire)
      /\ pos + n \in pos .. Len(message.wire)
  BY MessageFacts
<1> QED BY <1>1, MessageFacts, ConcatAdjacentSubSeq

LEMMA LengthStep ==
  ASSUME RelayTypeOK, BodyStep, NEW k \in 2 .. Len(message.wire),
         LengthPlace(k), FramedByLength(message, k)
  PROVE  LengthPlace(k)'
<1>1. /\ UNCHANGED <<message, arrived, closed, headers>> /\ CutShort' = CutShort
      /\ mode \in {"data", "read"}
  BY BodySteps DEF LengthPlace
<1>2. /\ k \in Nat /\ message.length \in Nat /\ pos \in Nat /\ arrived \in Nat
      /\ Len(message.wire) \in Nat
      /\ k <= pos /\ pos <= k + message.length /\ body = SubSeq(message.wire, k + 1, pos)
  BY MessageFacts DEF LengthPlace
<1>3. CASE mode = "data"
  <2>1. need = k + message.length - pos
    BY <1>3 DEF LengthPlace
  <2>2. ReadBytes \/ EndOfBytes
    BY <1>3 DEF BodyStep, SizeDigit, SizeRead, SkipByte, BeginChunk, PeekTrailer,
                TrailerSkipped, WriteRequest, WriteResponse
  <2>3. CASE ReadBytes
    <3>1. PICK n \in Nat : /\ n <= need /\ pos + n <= arrived
                           /\ body' = body \o SubSeq(message.wire, pos + 1, pos + n)
                           /\ pos' = pos + n /\ need' = need - n
      BY <2>3, BytesTaken
    <3>2. body' = SubSeq(message.wire, k + 1, pos')
      BY <1>2, <3>1, PieceAdded
    <3>3. mode' = "data"
      BY <1>3, <2>3 DEF ReadBytes
    <3>4. pos' \in k .. k + message.length /\ need' = k + message.length - pos'
      <4>1. PICK l \in Nat : l = message.length
        BY <1>2
      <4>2. PICK d \in Nat : d = need
        BY DEF RelayTypeOK
      <4>3. n <= d /\ pos' = pos + n /\ need' = d - n
        BY <3>1, <4>2, Zenon
      <4>4. d = k + l - pos
        BY <2>1, <4>1, <4>2, Zenon
      <4>5. k <= pos /\ pos <= k + l /\ pos \in Nat
        BY <1>2, <4>1
      <4>6. pos' \in k .. k + l /\ need' = k + l - pos'
        BY <4>3, <4>4, <4>5
      <4> QED BY <4>1, <4>6, Zenon
    <3> QED BY <1>1, <3>2, <3>3, <3>4 DEF LengthPlace
  <2>4. CASE EndOfBytes
    <3>1. /\ mode' = "read" /\ pos' = pos /\ body' = body
          /\ need = 0 \/ Eof
      BY <1>3, <2>4 DEF EndOfBytes
    <3>2. pos = k + message.length \/ CutShort \/ message.head
      <4>1. CASE need = 0
        <5>1. k \in Nat /\ message.length \in Nat /\ pos \in Nat /\ 0 = k + message.length - pos
          BY <1>2, <2>1, <4>1
        <5> QED BY <5>1
      <4>2. ASSUME Eof, ~CutShort, ~message.head PROVE pos = k + message.length
        <5>1. pos = Len(message.wire) /\ k + message.length <= Len(message.wire)
          BY <1>2, <4>2, MessageFacts DEF Eof, CutShort, FramedByLength
        <5> QED BY <1>2, <5>1
      <4> QED BY <3>1, <4>1, <4>2
    <3> QED BY <1>1, <1>2, <3>1, <3>2 DEF LengthPlace
  <2> QED BY <2>2, <2>3, <2>4
<1>4. CASE mode = "read"
  <2>1. WriteRequest \/ WriteResponse
    BY <1>4 DEF BodyStep, ReadBytes, EndOfBytes, SizeDigit, SizeRead, SkipByte, BeginChunk,
                PeekTrailer, TrailerSkipped
  <2>2. mode' = "sent" /\ pos' = pos /\ body' = body
    BY <2>1 DEF WriteRequest, WriteResponse
  <2> QED BY <1>1, <1>4, <2>2 DEF LengthPlace
<1> QED BY <1>1, <1>3, <1>4

-----------------------------------------------------------------------------
(* Chunks *)

\* Behind the last size.
LEMMA TailStep ==
  ASSUME RelayTypeOK, BodyStep, TailPlace, Available \/ mode = "read",
         NEW k \in 2 .. Len(message.wire), FramedByChunks(message, k)
  PROVE  TailPlace' /\ body' = body
<1> DEFINE last == Len(message.wire)
<1>1. /\ UNCHANGED <<message, arrived, closed, headers>>
      /\ mode # "sent"
  BY BodySteps
<1>2. /\ last \in Nat /\ pos \in Nat
      /\ message.wire[last - 2] = "LF" /\ message.wire[last - 1] = "CR"
      /\ message.wire[last] = "LF" /\ last >= 6
  BY MessageFacts DEF FramedByChunks
<1>3. Byte = message.wire[pos + 1]
  BY DEF Byte
<1> HIDE DEF last
<1>4. Available => (LineSkipped <=> Byte = "LF" /\ pos' = pos + 1)
  <2>1. Available => ~Eof
    BY MessageFacts DEF Available, Eof
  <2> QED BY <2>1 DEF LineSkipped
<1>5. CASE mode = "size_line"
  <2>1. Available /\ digits \in {<<>>, <<"0">>} /\ pos <= last - 3
    BY <1>5 DEF TailPlace, last
  <2>2. SkipByte \/ BeginChunk
    BY <1>5 DEF BodyStep, ReadBytes, EndOfBytes, SizeDigit, SizeRead, PeekTrailer,
                TrailerSkipped, WriteRequest, WriteResponse
  <2>3. CASE SkipByte
    <3>1. pos' = pos + 1 /\ mode' = mode /\ digits' = digits /\ body' = body /\ Byte # "LF"
      BY <2>3 DEF SkipByte
    <3>2. pos + 1 # last - 2
      BY <1>2, <1>3, <3>1
    <3>3. pos' <= last - 3
      BY <1>2, <2>1, <3>1, <3>2
    <3> QED BY <1>1, <1>5, <2>1, <3>1, <3>3 DEF TailPlace, last
  <2>4. CASE BeginChunk
    <3>1. pos' = pos + 1 /\ mode' = "trailers" /\ body' = body
      BY <1>4, <2>1, <2>4 DEF BeginChunk, IsEmptyOrZero
    <3>2. pos' <= last - 2
      BY <1>2, <2>1, <3>1
    <3> QED BY <1>1, <3>1, <3>2 DEF TailPlace, last
  <2> QED BY <2>2, <2>3, <2>4
<1>6. CASE mode = "trailers"
  <2>1. Available /\ pos <= last - 2
    BY <1>6 DEF TailPlace, last
  <2>2. PeekTrailer
    BY <1>6 DEF BodyStep, ReadBytes, EndOfBytes, SizeDigit, SizeRead, SkipByte, BeginChunk,
                TrailerSkipped, WriteRequest, WriteResponse
  <2>3. /\ mode' = IF Byte = "CR" THEN "last_line" ELSE "trailer_line"
        /\ pos' = pos /\ body' = body
    <3>1. ~Eof
      BY <2>1, MessageFacts DEF Available, Eof
    <3> QED BY <2>2, <3>1 DEF PeekTrailer
  <2>4. pos + 1 = last - 1 => Byte = "CR"
    BY <1>2, <1>3
  <2>5. (Byte = "CR" => pos' <= last - 1) /\ (Byte # "CR" => pos' <= last - 3)
    BY <1>2, <2>1, <2>3, <2>4
  <2> QED BY <1>1, <2>3, <2>5 DEF TailPlace, last
<1>7. CASE mode = "trailer_line"
  <2>1. Available /\ pos <= last - 3
    BY <1>7 DEF TailPlace, last
  <2>2. SkipByte \/ TrailerSkipped
    BY <1>7 DEF BodyStep, ReadBytes, EndOfBytes, SizeDigit, SizeRead, PeekTrailer,
                BeginChunk, WriteRequest, WriteResponse
  <2>3. CASE SkipByte
    <3>1. pos' = pos + 1 /\ mode' = mode /\ body' = body /\ Byte # "LF"
      BY <2>3 DEF SkipByte
    <3>2. pos + 1 # last - 2
      BY <1>2, <1>3, <3>1
    <3>3. pos' <= last - 3
      BY <1>2, <2>1, <3>1, <3>2
    <3> QED BY <1>1, <1>7, <3>1, <3>3 DEF TailPlace, last
  <2>4. CASE TrailerSkipped
    <3>1. pos' = pos + 1 /\ mode' = "trailers" /\ body' = body
      BY <1>4, <1>7, <2>1, <2>4 DEF TrailerSkipped
    <3>2. pos' <= last - 2
      BY <1>2, <2>1, <3>1
    <3> QED BY <1>1, <3>1, <3>2 DEF TailPlace, last
  <2> QED BY <2>2, <2>3, <2>4
<1>8. CASE mode = "last_line"
  <2>1. Available /\ pos <= last - 1
    BY <1>8 DEF TailPlace, last
  <2>2. SkipByte \/ TrailerSkipped
    BY <1>8 DEF BodyStep, ReadBytes, EndOfBytes, SizeDigit, SizeRead, PeekTrailer,
                BeginChunk, WriteRequest, WriteResponse
  <2>3. CASE SkipByte
    <3>1. pos' = pos + 1 /\ mode' = mode /\ body' = body /\ Byte # "LF"
      BY <2>3 DEF SkipByte
    <3>2. pos + 1 # last
      BY <1>2, <1>3, <3>1
    <3>3. pos' <= last - 1
      BY <1>2, <2>1, <3>1, <3>2
    <3> QED BY <1>1, <1>8, <3>1, <3>3 DEF TailPlace, last
  <2>4. CASE TrailerSkipped
    <3>1. mode' = "read" /\ body' = body
      BY <1>8, <2>4 DEF TrailerSkipped
    <3> QED BY <3>1 DEF TailPlace
  <2> QED BY <2>2, <2>3, <2>4
<1>9. CASE mode = "read"
  <2>1. WriteRequest \/ WriteResponse
    BY <1>9 DEF BodyStep, ReadBytes, EndOfBytes, SizeDigit, SizeRead, SkipByte, BeginChunk,
                PeekTrailer, TrailerSkipped
  <2>2. mode' = "sent" /\ body' = body
    BY <2>1 DEF WriteRequest, WriteResponse
  <2> QED BY <2>2 DEF TailPlace
<1> QED BY <1>1, <1>5, <1>6, <1>7, <1>8, <1>9 DEF TailPlace

\* Between and behind the chunks every step reads, or finds the end of file.
LEMMA LineStepReads ==
  ASSUME BodyStep, mode \in {"size", "size_line", "trailers", "trailer_line", "last_line"}, ~Eof
  PROVE  /\ Available
         /\ mode = "size" => SizeDigit \/ SizeRead
         /\ mode = "size_line" => SkipByte \/ BeginChunk
<1>1. SizeDigit \/ SizeRead \/ SkipByte \/ BeginChunk \/ PeekTrailer \/ TrailerSkipped
  BY DEF BodyStep, ReadBytes, EndOfBytes, WriteRequest, WriteResponse
<1>2. Available
  BY <1>1 DEF SizeDigit, SizeRead, SkipByte, BeginChunk, PeekTrailer, TrailerSkipped, LineSkipped
<1> QED BY <1>1, <1>2 DEF SizeDigit, SizeRead, SkipByte, BeginChunk, PeekTrailer, TrailerSkipped

\* The first size is read digit by digit up to the space or the end of its line.
LEMMA SizeStep ==
  ASSUME RelayTypeOK, BodyStep, ~Eof, NEW k \in 2 .. Len(message.wire), SizePlace(k),
         message.wire[k + 1] \in {"0", "1", "2"}, message.wire[k + 2] \in {"SP", "CR"}
  PROVE  \/ SizePlace(k)'
         \/ /\ mode' = "size_line" /\ body' = <<>>
            /\ digits' = <<message.wire[k + 1]>> /\ pos' = k + 1
<1>1. /\ SizeDigit \/ SizeRead
      /\ mode = "size" /\ body = <<>> /\ message' = message
  BY LineStepReads, BodySteps DEF SizePlace
<1>2. ~Eof /\ Byte = message.wire[pos + 1] /\ k \in Nat
  BY MessageFacts DEF Byte
<1>3. CASE pos = k /\ digits = <<>>
  <2>1. Byte = message.wire[k + 1]
    BY <1>2, <1>3
  <2>2. SizeDigit
    BY <1>1, <1>2, <2>1 DEF SizeRead
  <2>3. digits' = <<message.wire[k + 1]>> /\ pos' = k + 1 /\ mode' = "size" /\ body' = <<>>
    BY <1>1, <1>3, <2>1, <2>2 DEF SizeDigit
  <2> QED BY <1>1, <2>3 DEF SizePlace
<1>4. CASE pos = k + 1 /\ digits = <<message.wire[k + 1]>>
  <2>1. Byte = message.wire[k + 2]
    <3>1. pos + 1 = k + 2
      BY <1>2, <1>4
    <3> QED BY <1>2, <3>1
  <2>2. SizeRead
    BY <1>1, <2>1 DEF SizeDigit
  <2> QED BY <1>1, <1>4, <2>2 DEF SizeRead
<1> QED BY <1>3, <1>4 DEF SizePlace

LEMMA FirstStep ==
  ASSUME RelayTypeOK, BodyStep, ~Eof \/ mode = "read", NEW k \in 2 .. Len(message.wire),
         NEW e \in k + 3 .. Len(message.wire), FirstChunk(message, k, e),
         FramedByChunks(message, k), FirstPlace(k, e)
  PROVE  FirstPlace(k, e)'
<1> DEFINE digit == message.wire[k + 1]
           last == Len(message.wire)
<1>1. PICK size \in {1, 2} : size = ChunkSize(digit)
  BY DEF ChunkSize
<1> DEFINE end == e + size
           First == SubSeq(message.wire, e + 1, end)
<1>2. /\ last \in Nat /\ pos \in Nat /\ arrived \in Nat /\ k \in Nat /\ e \in Nat
      /\ k + 3 <= e /\ end + 3 <= last
  BY <1>1, MessageFacts DEF FirstChunk
<1>3. /\ digit \in {"1", "2"} /\ message.wire[e] = "LF"
      /\ \A j \in k + 2 .. e - 1 : message.wire[j] # "LF"
      /\ message.wire[end + 1] \in {"SP", "CR"} /\ message.wire[k + 2] \in {"SP", "CR"}
  BY <1>1 DEF FirstChunk, FramedByChunks
<1>4. message' = message /\ mode # "sent" /\ Byte = message.wire[pos + 1]
  BY BodySteps DEF Byte
<1>5. FirstPlace(k, e) <=>
        \/ SizePlace(k)
        \/ mode = "size_line" /\ body = <<>> /\ digits = <<digit>> /\ pos \in k + 1 .. e - 1
        \/ /\ mode = "chunk" /\ digits = <<>>
           /\ pos \in e .. end /\ body = SubSeq(message.wire, e + 1, pos) /\ need = end - pos
        \/ /\ body = First
           /\ \/ mode = "size" /\ pos = end /\ digits = <<>>
              \/ TailPlace
  BY <1>1 DEF FirstPlace
<1>6. FirstPlace(k, e)' <=>
        \/ SizePlace(k)'
        \/ mode' = "size_line" /\ body' = <<>> /\ digits' = <<digit>> /\ pos' \in k + 1 .. e - 1
        \/ /\ mode' = "chunk" /\ digits' = <<>>
           /\ pos' \in e .. end /\ body' = SubSeq(message.wire, e + 1, pos') /\ need' = end - pos'
        \/ /\ body' = First
           /\ \/ mode' = "size" /\ pos' = end /\ digits' = <<>>
              \/ TailPlace'
  BY <1>1, <1>4 DEF FirstPlace
<1> HIDE DEF digit, First, last, end
<1>7. CASE SizePlace(k)
  <2>1. mode = "size" /\ ~Eof
    BY <1>7 DEF SizePlace
  <2>2. k + 1 \in k + 1 .. e - 1
    BY <1>2
  <2> QED BY <1>3, <1>6, <1>7, <2>1, <2>2, SizeStep DEF digit
<1>8. ASSUME mode = "size_line", body = <<>>, digits = <<digit>>, pos \in k + 1 .. e - 1
      PROVE  FirstPlace(k, e)'
  <2>1. ~Eof /\ Available /\ (SkipByte \/ BeginChunk)
    BY <1>8, LineStepReads
  <2>2. CASE SkipByte
    <3>1. /\ mode' = "size_line" /\ body' = <<>> /\ digits' = <<digit>>
          /\ pos' = pos + 1 /\ Byte # "LF"
      BY <1>8, <2>2 DEF SkipByte
    <3>2. pos + 1 # e
      BY <1>3, <1>4, <3>1
    <3>3. pos' \in k + 1 .. e - 1
      BY <1>2, <1>8, <3>1, <3>2
    <3> QED BY <1>6, <3>1, <3>3
  <2>3. CASE BeginChunk
    <3>1. pos' = pos + 1 /\ Byte = "LF"
      BY <1>8, <2>1, <2>3 DEF BeginChunk, LineSkipped
    <3>2. pos' = e
      <4>1. pos + 1 \notin k + 2 .. e - 1
        BY <1>3, <1>4, <3>1
      <4> QED BY <1>2, <1>8, <3>1, <4>1
    <3>3. Size = size /\ ~IsEmptyOrZero
      <4>1. digit = "1" \/ digit = "2"
        BY <1>3
      <4>2. digits # <<>> /\ digits # <<"0">>
        BY <1>8, <4>1
      <4>3. CASE digit = "1"
        <5>1. digits = <<"1">> /\ size = 1
          BY <1>1, <1>8, <4>3 DEF ChunkSize
        <5> QED BY <4>2, <5>1 DEF Size, IsEmptyOrZero
      <4>4. CASE digit = "2"
        <5>1. digits = <<"2">> /\ digits # <<"1">> /\ size = 2
          BY <1>1, <1>8, <4>4 DEF ChunkSize
        <5> QED BY <4>2, <5>1 DEF Size, IsEmptyOrZero
      <4> QED BY <4>1, <4>2, <4>3, <4>4 DEF IsEmptyOrZero
    <3>4. mode' = "chunk" /\ need' = size /\ digits' = <<>> /\ body' = <<>>
      BY <1>1, <1>8, <2>3, <3>3 DEF BeginChunk
    <3>5. SubSeq(message.wire, e + 1, e) = <<>>
      BY <1>2, SubSeqEmpty
    <3>6. e \in e .. end /\ size = end - e
      BY <1>1, <1>2 DEF end
    <3> QED BY <1>6, <3>2, <3>4, <3>5, <3>6
  <2> QED BY <2>1, <2>2, <2>3
<1>9. ASSUME mode = "chunk", digits = <<>>, pos \in e .. end,
             body = SubSeq(message.wire, e + 1, pos), need = end - pos
      PROVE  FirstPlace(k, e)'
  <2>1. ~Eof /\ (ReadBytes \/ EndOfBytes)
    BY <1>9 DEF BodyStep, SizeDigit, SizeRead, SkipByte, BeginChunk, PeekTrailer,
                TrailerSkipped, WriteRequest, WriteResponse
  <2>2. CASE ReadBytes
    <3>1. PICK n \in Nat : /\ n <= need /\ pos + n <= arrived
                           /\ body' = body \o SubSeq(message.wire, pos + 1, pos + n)
                           /\ pos' = pos + n /\ need' = need - n
      BY <2>2, BytesTaken
    <3>2. body' = SubSeq(message.wire, e + 1, pos')
      <4>1. e \in Nat /\ e <= pos
        BY <1>2, <1>9
      <4> QED BY <1>9, <3>1, <4>1, PieceAdded
    <3>3. mode' = "chunk" /\ digits' = <<>>
      BY <1>9, <2>2 DEF ReadBytes
    <3>4. pos' \in e .. end /\ need' = end - pos'
      <4>1. /\ e \in Nat /\ end \in Nat /\ pos \in Nat /\ e <= pos /\ pos <= end
            /\ n \in Nat /\ n <= end - pos
        <5>1. e \in Nat /\ end \in Nat /\ pos \in Nat
          BY <1>1, <1>2 DEF end
        <5>2. e <= pos /\ pos <= end
          BY <1>9, <5>1
        <5> QED BY <1>9, <3>1, <5>1, <5>2
      <4>2. pos' = pos + n /\ need' = (end - pos) - n
        BY <1>9, <3>1
      <4> QED BY <4>1, <4>2
    <3> QED BY <1>6, <3>2, <3>3, <3>4
  <2>3. CASE EndOfBytes
    <3>1. /\ mode' = "size" /\ pos' = pos /\ body' = body /\ digits' = <<>>
          /\ need = 0
      BY <1>9, <2>1, <2>3 DEF EndOfBytes
    <3>2. pos = end
      BY <1>1, <1>2, <1>9, <3>1 DEF end
    <3> QED BY <1>6, <1>9, <3>1, <3>2 DEF First
  <2> QED BY <2>1, <2>2, <2>3
<1>10. ASSUME mode = "size", pos = end, digits = <<>>, body = First
       PROVE  FirstPlace(k, e)'
  <2>1. ~Eof /\ (SizeDigit \/ SizeRead)
    BY <1>10, LineStepReads
  <2>2. Byte \in {"SP", "CR"}
    BY <1>3, <1>4, <1>10
  <2>3. mode' = "size_line" /\ pos' = end /\ digits' = <<>> /\ body' = First
    BY <1>10, <2>1, <2>2 DEF SizeDigit, SizeRead
  <2>4. end <= last - 3
    BY <1>1, <1>2 DEF end
  <2>5. TailPlace'
    BY <1>4, <2>3, <2>4 DEF TailPlace, last
  <2> QED BY <1>6, <2>3, <2>5
<1>11. ASSUME TailPlace, body = First PROVE FirstPlace(k, e)'
  <2>1. Available \/ mode = "read"
    BY <1>4, <1>11, LineStepReads DEF TailPlace
  <2>2. TailPlace' /\ body' = body
    BY <1>11, <2>1, TailStep
  <2> QED BY <1>6, <1>11, <2>2
<1> QED BY <1>5, <1>7, <1>8, <1>9, <1>10, <1>11

\* A body of no chunks stays empty.
LEMMA NoChunkStep ==
  ASSUME RelayTypeOK, BodyStep, ~Eof \/ mode = "read", NEW k \in 2 .. Len(message.wire),
         FramedByChunks(message, k), message.chunks = 0,
         SizePlace(k) \/ (body = <<>> /\ TailPlace)
  PROVE  (SizePlace(k) \/ (body = <<>> /\ TailPlace))'
<1>1. /\ message.wire[k + 1] = "0" /\ message.wire[k + 2] \in {"SP", "CR"}
      /\ k + 4 <= Len(message.wire) /\ message' = message /\ mode # "sent"
      /\ k \in Nat /\ Len(message.wire) \in Nat
  BY BodySteps, MessageFacts DEF FramedByChunks
<1>2. CASE SizePlace(k)
  <2>1. mode = "size" /\ ~Eof
    BY <1>2 DEF SizePlace
  <2>2. \/ SizePlace(k)'
        \/ /\ mode' = "size_line" /\ body' = <<>>
           /\ digits' = <<message.wire[k + 1]>> /\ pos' = k + 1
    BY <1>1, <1>2, <2>1, SizeStep
  <2>3. k + 1 <= Len(message.wire) - 3
    BY <1>1
  <2> QED BY <1>1, <2>2, <2>3 DEF TailPlace
<1>3. CASE body = <<>> /\ TailPlace
  <2>1. Available \/ mode = "read"
    BY <1>1, <1>3, LineStepReads DEF TailPlace
  <2> QED BY <1>3, <2>1, TailStep
<1> QED BY <1>2, <1>3

\* A size that is none of a chunk ends in failure, and only a message cut short has one.
LEMMA ChunkStep ==
  ASSUME RelayTypeOK, BodyStep, NEW k \in 2 .. Len(message.wire),
         ChunkPlace(k), FramedByChunks(message, k)
  PROVE  ChunkPlace(k)' \/ (mode' = "failed" /\ CutShort')
<1>1. /\ UNCHANGED <<message, arrived, closed, headers>> /\ CutShort' = CutShort
      /\ mode \in ChunkModes
  BY BodySteps DEF ChunkPlace
<1>2. mode # "data" /\ mode \notin {"start", "headers", "failed"}
  BY <1>1 DEF ChunkModes
<1>3. mode' \in ChunkModes \cup {"failed"}
  <2>1. CASE ReadBytes \/ EndOfBytes
    BY <1>1, <1>2, <2>1 DEF ReadBytes, EndOfBytes, ChunkModes
  <2>2. CASE SizeDigit \/ SizeRead \/ SkipByte \/ BeginChunk
    BY <1>1, <2>2 DEF SizeDigit, SizeRead, SkipByte, BeginChunk, ChunkModes
  <2>3. CASE PeekTrailer \/ TrailerSkipped \/ WriteRequest \/ WriteResponse
    BY <2>3 DEF PeekTrailer, TrailerSkipped, WriteRequest, WriteResponse, ChunkModes
  <2> QED BY <2>1, <2>2, <2>3 DEF BodyStep
<1>4. CASE CutShort
  BY <1>1, <1>3, <1>4 DEF ChunkPlace
<1>5. CASE ~CutShort
  <2>1. ~Eof \/ mode = "read"
    <3>1. CASE Reading
      <4>1. pos < Len(message.wire)
        BY <1>5, <3>1, ChunksEndWithin
      <4> QED BY <1>5, <4>1, MessageFacts DEF Eof, CutShort
    <3>2. CASE ~Reading
      BY <1>1, <3>2, BodySteps DEF Reading, InBody
    <3> QED BY <3>1, <3>2
  <2>2. CASE message.chunks = 0
    <3>1. (SizePlace(k) \/ (body = <<>> /\ TailPlace))'
      BY <1>5, <2>1, <2>2, NoChunkStep DEF ChunkPlace
    <3>2. mode' # "failed"
      BY <3>1 DEF SizePlace, TailPlace
    <3> QED BY <1>1, <1>3, <2>2, <3>1, <3>2 DEF ChunkPlace
  <2>3. CASE message.chunks # 0
    <3>1. PICK e \in k + 3 .. Len(message.wire) : FirstChunk(message, k, e) /\ FirstPlace(k, e)
      BY <1>5, <2>3 DEF ChunkPlace
    <3>2. FirstPlace(k, e)'
      BY <2>1, <3>1, FirstStep
    <3>3. mode' # "failed"
      BY <3>2 DEF FirstPlace, SizePlace, TailPlace
    <3>4. e \in k + 3 .. Len(message'.wire) /\ FirstChunk(message', k, e)
      BY <1>1, <3>1
    <3> QED BY <1>1, <1>3, <2>3, <3>2, <3>3, <3>4 DEF ChunkPlace
  <2> QED BY <2>2, <2>3
<1> QED BY <1>4, <1>5

\* Without any framing there is no body, and the message is passed on.
LEMMA UnframedStep ==
  ASSUME BodyStep, mode = "read"
  PROVE  mode' = "sent" /\ UNCHANGED <<body, pos>>
<1>1. WriteRequest \/ WriteResponse
  BY DEF BodyStep, ReadBytes, EndOfBytes, SizeDigit, SizeRead, SkipByte, BeginChunk,
         PeekTrailer, TrailerSkipped
<1> QED BY <1>1 DEF WriteRequest, WriteResponse

LEMMA PlaceStep ==
  ASSUME Steady, BodyStep
  PROVE  WholeMessagesAreRead' /\ HeadPlace' /\ Place' /\ ResponsePassedOn'
<1>1. /\ UNCHANGED <<message, arrived, closed, headers>> /\ InBody /\ CutShort' = CutShort
      /\ mode' \notin {"start", "headers"} /\ mode # "sent"
  BY BodySteps
<1>2. HeadPlace'
  BY <1>1 DEF HeadPlace
<1>3. CutShort' => WholeMessagesAreRead'
  BY DEF CutShort, WholeMessagesAreRead
<1>4. CASE CutShort /\ message.kind = "request"
  BY <1>1, <1>2, <1>3, <1>4, PassedOnStep DEF Place
<1>5. ASSUME NEW k \in 2 .. Len(message.wire), BodyPlace(k)
      PROVE  Place' /\ WholeMessagesAreRead'
  <2> DEFINE lines == HeaderLines(message, k)
  <2>1. /\ HeadEnds(message, k) /\ WellFramed(message, k)
        /\ headers = lines \ {"chunked", "gzip"}
    BY <1>5 DEF BodyPlace
  <2>2. ASSUME mode' # "failed",
               IF "chunked" \in lines THEN ChunkPlace(k)'
               ELSE /\ "gzip" \notin lines
                    /\ IF "length" \in lines THEN LengthPlace(k)'
                       ELSE mode' \in {"read", "sent"} /\ body' = <<>>
        PROVE  Place' /\ WholeMessagesAreRead'
    <3>1. HeadEnds(message', k) /\ WellFramed(message', k) /\ HeaderLines(message', k) = lines
      BY <1>1, <2>1
    <3>2. BodyPlace(k)'
      BY <1>1, <2>1, <2>2, <3>1 DEF BodyPlace
    <3>3. k \in 2 .. Len(message'.wire)
      BY <1>1
    <3> QED BY <2>2, <3>2, <3>3 DEF Place, WholeMessagesAreRead
  <2>3. CASE "chunked" \in lines
    <3>1. ChunkPlace(k) /\ FramedByChunks(message, k)
      BY <1>5, <2>1, <2>3 DEF BodyPlace, WellFramed
    <3>2. ChunkPlace(k)' \/ (mode' = "failed" /\ CutShort')
      BY <3>1, ChunkStep DEF Steady
    <3>3. ChunkPlace(k)' => mode' # "failed"
      BY DEF ChunkPlace, ChunkModes
    <3> QED BY <1>3, <2>2, <2>3, <3>2, <3>3 DEF Place, InBody
  <2>4. CASE "chunked" \notin lines /\ "length" \in lines
    <3>1. "gzip" \notin lines /\ LengthPlace(k) /\ FramedByLength(message, k)
      BY <1>5, <2>1, <2>4 DEF BodyPlace, WellFramed
    <3>2. LengthPlace(k)'
      BY <3>1, LengthStep DEF Steady
    <3>3. mode' # "failed"
      BY <3>2 DEF LengthPlace
    <3> QED BY <2>2, <2>4, <3>1, <3>2, <3>3
  <2>5. CASE "chunked" \notin lines /\ "length" \notin lines
    <3>1. "gzip" \notin lines /\ mode = "read" /\ body = <<>>
      BY <1>1, <1>5, <2>5 DEF BodyPlace
    <3>2. mode' = "sent" /\ body' = <<>>
      BY <3>1, UnframedStep
    <3> QED BY <2>2, <2>5, <3>1, <3>2
  <2> QED BY <2>3, <2>4, <2>5
<1> QED BY <1>1, <1>2, <1>4, <1>5, PassedOnStep DEF Steady, Place

-----------------------------------------------------------------------------
(* The invariant *)

\* What the peer does leaves the parser where it is.
LEMMA PeerStep ==
  ASSUME RelayInv, Arrive \/ Close \/ UNCHANGED rvars
  PROVE  WholeMessagesAreRead' /\ HeadPlace' /\ Place' /\ ResponsePassedOn'
<1>1. /\ UNCHANGED <<message, pos, mode, headers, digits, need, body, sent>>
      /\ mode = "failed" => arrived' = arrived
  BY DEF Arrive, Close, rvars, Reading
<1>2. CutShort => CutShort'
  BY CutStays DEF RelayInv, RelayNext
<1>3. WholeMessagesAreRead'
  BY <1>1 DEF RelayInv, WholeMessagesAreRead
<1>4. HeadPlace' /\ ResponsePassedOn'
  BY <1>1 DEF RelayInv, HeadPlace, ResponsePassedOn
<1>5. ASSUME NEW k \in 2 .. Len(message.wire), BodyPlace(k) PROVE BodyPlace(k)'
  <2>1. LengthPlace(k) => LengthPlace(k)'
    BY <1>1, <1>2 DEF LengthPlace
  <2>2. TailPlace' = TailPlace /\ SizePlace(k)' = SizePlace(k)
    BY <1>1 DEF TailPlace, SizePlace
  <2>3. ASSUME NEW e PROVE FirstPlace(k, e)' = FirstPlace(k, e)
    BY <1>1, <2>2 DEF FirstPlace
  <2>4. ChunkPlace(k) => ChunkPlace(k)'
    BY <1>1, <1>2, <2>2, <2>3 DEF ChunkPlace
  <2> QED BY <1>1, <1>5, <2>1, <2>4 DEF BodyPlace
<1>6. Place'
  <2>1. CASE InBody
    BY <1>1, <1>2, <1>5, <2>1 DEF RelayInv, Place
  <2>2. CASE ~InBody
    BY <1>1, <2>2 DEF Place, InBody
  <2> QED BY <2>1, <2>2
<1> QED BY <1>3, <1>4, <1>6

LEMMA RelayInvStep == RelayInv /\ [RelayNext]_rvars => RelayInv'
<1> SUFFICES ASSUME RelayInv, [RelayNext]_rvars PROVE RelayInv'
  OBVIOUS
<1>1. RelayTypeOK' /\ Steady
  BY RelayTypeStep DEF RelayInv, Steady
<1>2. CASE Arrive \/ Close \/ UNCHANGED rvars
  BY <1>1, <1>2, PeerStep DEF RelayInv
<1>3. CASE StartLineFails \/ HeaderLineFails \/ TimerFires
  BY <1>1, <1>3, StepsThatGiveUp DEF RelayInv
<1>4. CASE StartLine \/ HeaderLine
  BY <1>1, <1>4, HeadStep DEF RelayInv
<1>5. CASE EndOfHeaders \/ HeadersCut
  BY <1>1, <1>5, EndOfHeadersStep, HeadersCutStep DEF RelayInv
<1>6. CASE BodyStep
  BY <1>1, <1>6, PlaceStep DEF RelayInv
<1> QED BY <1>2, <1>3, <1>4, <1>5, <1>6 DEF RelayNext, ParserStep, BodyStep, Settled

LEMMA RelayInvInit == RelayInit => RelayInv
<1> SUFFICES ASSUME RelayInit PROVE RelayInv
  OBVIOUS
<1>1. mode = "start" /\ pos = 0 /\ headers = {} /\ digits = <<>> /\ body = <<>>
  BY DEF RelayInit
<1> QED BY <1>1, RelayTypeInit
        DEF RelayInv, HeadPlace, Place, InBody, ResponsePassedOn, WholeMessagesAreRead

LEMMA RelaySafety == RelaySpec => []RelayInv
BY RelayInvInit, RelayInvStep, PTL DEF RelaySpec

\* A message of one of the framings is given up only for what it or its peer did,
\* whatever its length, its trailers and the pieces it came in.
THEOREM WellFramedAreRead == RelaySpec => []WholeMessagesAreRead
<1>1. RelayInv => WholeMessagesAreRead
  BY DEF RelayInv
<1> QED BY <1>1, RelaySafety, PTL

\* The body of a message that is read is that of the message.
LEMMA BodyFromPlace ==
  ASSUME RelayInv, mode \in {"read", "sent"}
  PROVE  body = message.body \/ CutShort \/ message.chunks > 1 \/ message.until_close
<1>1. CASE CutShort
  BY <1>1
<1>2. ASSUME NEW k \in 2 .. Len(message.wire), BodyPlace(k), ~CutShort, ~(message.chunks > 1),
             ~message.until_close
      PROVE  body = message.body
  <2> DEFINE lines == HeaderLines(message, k)
  <2>1. CASE "chunked" \in lines
    <3>1. FramedByChunks(message, k) /\ ChunkPlace(k) /\ message.chunks \in Nat
      BY <1>2, <2>1, MessageFacts DEF BodyPlace, WellFramed, RelayInv
    <3>2. CASE message.chunks = 0
      BY <1>2, <3>1, <3>2 DEF FramedByChunks, ChunkPlace, SizePlace
    <3>3. CASE message.chunks = 1
      <4>1. PICK e \in k + 3 .. Len(message.wire) : FirstChunk(message, k, e) /\ FirstPlace(k, e)
        BY <1>2, <3>1, <3>3 DEF ChunkPlace
      <4>2. body = SubSeq(message.wire, e + 1, e + ChunkSize(message.wire[k + 1]))
        BY <4>1 DEF FirstPlace, SizePlace
      <4> QED BY <3>3, <4>1, <4>2 DEF FirstChunk
    <3> QED BY <1>2, <3>1, <3>2, <3>3
  <2>2. CASE "chunked" \notin lines /\ "length" \in lines
    <3>1. LengthPlace(k) /\ FramedByLength(message, k)
      BY <1>2, <2>2 DEF BodyPlace, WellFramed
    <3>2. CASE message.head
      <4>1. /\ Len(message.wire) = k /\ pos <= k /\ message.body = <<>>
            /\ body = SubSeq(message.wire, k + 1, pos) /\ pos \in Nat /\ k \in Nat
        BY <3>1, <3>2, MessageFacts DEF FramedByLength, LengthPlace, RelayInv
      <4>2. pos < k + 1
        BY <4>1
      <4> QED BY <4>1, <4>2, SubSeqEmpty
    <3>3. CASE ~message.head
      BY <1>2, <3>1, <3>3 DEF FramedByLength, LengthPlace
    <3> QED BY <3>2, <3>3
  <2>3. CASE "chunked" \notin lines /\ "length" \notin lines
    BY <1>2, <2>3 DEF BodyPlace, WellFramed
  <2> QED BY <2>1, <2>2, <2>3
<1> QED BY <1>1, <1>2 DEF RelayInv, Place, InBody

\* However its symbols come in pieces, the body that is read is the body of the
\* message: none is lost at the edge of a piece, none of what follows is taken.
THEOREM BodiesAreRead == RelaySpec => []BodyIsRead
<1>1. RelayInv => BodyIsRead
  BY BodyFromPlace DEF BodyIsRead
<1> QED BY <1>1, RelaySafety, PTL

\* What is passed on of a response is framed by its length, or by a length that came
\* with the chunks.
LEMMA FramedFromPlace ==
  ASSUME RelayInv, mode = "sent", message.kind = "response"
  PROVE  /\ sent.body = body
         /\ IF FramedTwice
            THEN sent.length = message.length
            ELSE Received = body /\ (sent.length = Len(body) \/ CutShort \/ message.head)
<1>1. PICK k \in 2 .. Len(message.wire) : BodyPlace(k)
  BY DEF RelayInv, Place, InBody
<1> DEFINE lines == HeaderLines(message, k)
<1>2. /\ sent.headers = headers \cup {"length"} /\ sent.body = body
      /\ sent.length = IF "length" \in headers THEN message.length ELSE Len(body)
      /\ body \in Seq(Symbols) /\ Len(body) \in Nat
  BY DEF RelayInv, ResponsePassedOn, RelayTypeOK
<1>3. ("length" \in headers) <=> ("length" \in lines)
  BY <1>1 DEF BodyPlace
<1>4. FramedTwice <=> {"length", "chunked"} \subseteq lines
  <2>1. HeadEnds(message, k)
    BY <1>1 DEF BodyPlace
  <2>2. ASSUME NEW j \in 2 .. Len(message.wire), HeadEnds(message, j) PROVE j = k
    BY <2>1, <2>2 DEF HeadEnds
  <2> QED BY <2>1, <2>2 DEF FramedTwice
<1>5. CASE FramedTwice
  BY <1>2, <1>3, <1>4, <1>5
<1>6. CASE "length" \notin lines
  <2>1. sent.length = Len(body) /\ ~FramedTwice
    BY <1>2, <1>3, <1>4, <1>6
  <2>2. Received = body
    BY <1>2, <2>1, SubSeqFull DEF Received, Least
  <2> QED BY <1>2, <2>1, <2>2
<1>7. CASE "length" \in lines /\ "chunked" \notin lines
  <2>1. LengthPlace(k) /\ sent.length = message.length
    BY <1>1, <1>2, <1>3, <1>7 DEF BodyPlace
  <2>2. /\ pos \in Nat /\ k \in Nat /\ message.length \in Nat /\ k <= pos
        /\ pos <= k + message.length /\ body = SubSeq(message.wire, k + 1, pos)
        /\ pos = k + message.length \/ CutShort \/ message.head
    BY <2>1, MessageFacts DEF LengthPlace, RelayInv
  <2>3. Len(body) = pos - k
    <3>1. \A i \in k + 1 .. pos : i \in 1 .. Len(message.wire)
      BY <2>2, MessageFacts DEF RelayInv
    <3>2. \A i \in k + 1 .. pos : message.wire[i] \in Symbols
      BY <3>1, MessageFacts, ElementOfSeq DEF RelayInv
    <3>3. Len(body) = IF k + 1 <= pos THEN pos - (k + 1) + 1 ELSE 0
      BY <2>2, <3>2, SubSeqProperties
    <3> QED BY <2>2, <3>3
  <2>4. Least(sent.length, Len(body)) = Len(body)
    BY <2>1, <2>2, <2>3 DEF Least
  <2>5. Received = body
    BY <1>2, <2>4, SubSeqFull DEF Received
  <2>6. pos = k + message.length => sent.length = Len(body)
    BY <2>1, <2>2, <2>3
  <2>7. ~FramedTwice
    BY <1>4, <1>7
  <2> QED BY <1>2, <2>2, <2>5, <2>6, <2>7
<1> QED BY <1>4, <1>5, <1>6, <1>7

\* A client is sent the body that was read, of any length, and gets all of it behind a
\* Content-Length that is its length, unless the server closed too early or announced a
\* body it has not.  A Content-Length that came with chunks goes on as it is, right or
\* wrong: then the theorem says no more than that.
THEOREM ResponsesAreFramed == RelaySpec => []ResponseIsFramed
<1>1. RelayInv => ResponseIsFramed
  BY FramedFromPlace DEF ResponseIsFramed
<1> QED BY <1>1, RelaySafety, PTL
=============================================================================
