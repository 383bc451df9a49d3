----------------------------- MODULE UrisProofs -----------------------------
(***************************************************************************)
(* Theorems about a uri, for every text: the offsets are in the order of   *)
(* the parts, the parser says what the text means, and a new prefix of the *)
(* path moves what is behind it without a change.                          *)
(*                                                                         *)
(* Components, Resolved and Joined go through a text by recursion.  Each   *)
(* is the run of a step along the text (IsRun), so that one more symbol is *)
(* one more step: that is all uri_decode needs, which takes a symbol at a  *)
(* time.  What it has written of a path is in IsMeant: all in the first    *)
(* component, or behind a last slash whose place is known.                 *)
(***************************************************************************)
EXTENDS Uris, NaturalLemmas, SequenceTheorems

Symbols == {"/", "."} \cup UNION {{t[k] : k \in DOMAIN t} : t \in Inputs \cup Prefixes}

Offsets ==
  [scheme_end : Nat, domain0 : Nat, domain1 : Nat, host_end : Nat, path0 : Nat, path1 : Nat,
   query0 : Nat, query1 : Nat, fragment_start : Nat]

UriTypes ==
  /\ step \in Steps
  /\ input \in Seq(Symbols) /\ rest \in Seq(Symbols) /\ full \in Seq(Symbols)
  /\ ends \in Offsets
  /\ step \in {"scheme", "authority"} => slash = 0
  /\ step = "decode" => slash \in 0 .. Len(full)

\* Parts that have not been read have no offsets.
NothingYet ==
  /\ step \in {"scheme", "authority", "decode"} => ends.path1 = 0
  /\ step \in {"scheme", "authority", "decode", "query"} => ends.query0 = 0 /\ ends.query1 = 0
  /\ step \in {"scheme", "authority", "decode", "query", "fragment"} => ends.fragment_start = 0

HostBeforePath ==
  /\ step \in {"scheme", "authority"} => ends.host_end = 0 /\ ends.path0 = 0
  /\ step \in {"decode", "query", "fragment"} => ends.host_end <= ends.path0
  /\ step = "parsed" => ends.host_end <= ends.path0 \/ ends.path1 = 0

\* A query and a fragment begin behind the sign that begins them.
PathBeforeTheRest ==
  /\ step = "query" => ends.path1 = Len(full)
  /\ step \in {"fragment", "parsed"} =>
       /\ ends.path1 <= Len(full)
       /\ \/ ends.query0 = 0 /\ ends.query1 = 0
          \/ ends.path1 < ends.query0 /\ ends.query0 <= ends.query1 /\ ends.query1 <= Len(full)
       /\ \/ ends.fragment_start = 0
          \/ ends.path1 < ends.fragment_start /\ ends.fragment_start <= Len(full)

PartsInv == UriTypes /\ NothingYet /\ HostBeforePath /\ PathBeforeTheRest
UriInv == PartsInv /\ RestIsKept

-----------------------------------------------------------------------------
(* Texts *)

LEMMA GivenTexts == \A t \in Inputs \cup Prefixes : t \in Seq(Symbols)
  <1> SUFFICES ASSUME NEW t \in Inputs \cup Prefixes PROVE t \in Seq(Symbols)
    OBVIOUS
  <1>1. t \in Seq({t[k] : k \in DOMAIN t})
    BY TextsAssumption DEF TextsAssumption, IsText
  <1>2. {t[k] : k \in DOMAIN t} \subseteq Symbols
    BY DEF Symbols
  <1> QED
    BY <1>1, <1>2, SeqMonotonic

LEMMA SliceOfText ==
  ASSUME NEW S, NEW t \in Seq(S), NEW a \in Nat, NEW b \in a .. Len(t)
  PROVE  /\ Slice(t, a, b) \in Seq(S)
         /\ Len(Slice(t, a, b)) = b - a
         /\ \A k \in 1 .. b - a : Slice(t, a, b)[k] = t[a + k]
  <1>1. \A k \in a + 1 .. b : t[k] \in S
    BY ElementOfSeq
  <1>2. /\ SubSeq(t, a + 1, b) \in Seq(S)
        /\ Len(SubSeq(t, a + 1, b)) = IF a + 1 <= b THEN b - (a + 1) + 1 ELSE 0
        /\ \A k \in 1 .. b - (a + 1) + 1 : SubSeq(t, a + 1, b)[k] = t[a + 1 + k - 1]
    BY <1>1, SubSeqProperties
  <1>3. b - (a + 1) + 1 = b - a /\ \A k \in 1 .. b - a : a + 1 + k - 1 = a + k
    OBVIOUS
  <1> QED
    BY <1>2, <1>3 DEF Slice

IsCutFrom(u, t, a, b) == Len(u) = b - a /\ \A k \in 1 .. b - a : u[k] = t[a + k]

LEMMA SliceIsCut ==
  ASSUME NEW S, NEW t \in Seq(S), NEW a \in Nat, NEW b \in a .. Len(t)
  PROVE  Slice(t, a, b) \in Seq(S) /\ IsCutFrom(Slice(t, a, b), t, a, b)
  BY SliceOfText DEF IsCutFrom

LEMMA StartOfText ==
  ASSUME NEW S, NEW t \in Seq(S), NEW b \in 0 .. Len(t)
  PROVE  /\ Slice(t, 0, b) \in Seq(S)
         /\ Len(Slice(t, 0, b)) = b
         /\ \A k \in 1 .. b : Slice(t, 0, b)[k] = t[k]
  <1> DEFINE a == 0
  <1>1. a \in Nat /\ b \in a .. Len(t)
    OBVIOUS
  <1> HIDE DEF a
  <1>2. /\ Slice(t, a, b) \in Seq(S)
        /\ Len(Slice(t, a, b)) = b - a
        /\ \A k \in 1 .. b - a : Slice(t, a, b)[k] = t[a + k]
    BY <1>1, SliceOfText
  <1>3. b - 0 = b /\ \A k \in 1 .. b : 0 + k = k
    OBVIOUS
  <1> QED
    BY <1>2, <1>3 DEF a

LEMMA FromText ==
  ASSUME NEW S, NEW t \in Seq(S), NEW a \in 0 .. Len(t)
  PROVE  /\ From(t, a) \in Seq(S)
         /\ Len(From(t, a)) = Len(t) - a
         /\ \A k \in 1 .. Len(t) - a : From(t, a)[k] = t[a + k]
  <1>1. a \in Nat /\ Len(t) \in a .. Len(t) /\ From(t, a) = Slice(t, a, Len(t))
    BY DEF From, Slice
  <1> QED
    BY <1>1, SliceOfText

LEMMA FindInside ==
  ASSUME NEW S, NEW t \in Seq(S), NEW symbols
  PROVE  Find(t, symbols) \in 0 .. Len(t)
  <1> DEFINE places == {k \in 1 .. Len(t) : t[k] \in symbols}
  <1>1. Len(t) \in Nat /\ places \in SUBSET Nat /\ places \subseteq 1 .. Len(t)
    OBVIOUS
  <1>2. CASE places = {}
    BY <1>1, <1>2 DEF Find
  <1>3. CASE places # {}
    <2> DEFINE place == CHOOSE k \in places : \A j \in places : k <= j
    <2>1. Find(t, symbols) = place - 1
      BY <1>3 DEF Find
    <2> HIDE DEF places
    <2>2. place \in places
      BY <1>1, <1>3, LeastNatural
    <2> HIDE DEF place
    <2> QED
      BY <1>1, <2>1, <2>2
  <1> QED
    BY <1>2, <1>3

LEMMA LastSlashInside ==
  ASSUME NEW S, NEW t \in Seq(S)
  PROVE  LastSlash(t) \in 0 .. Len(t)
  <1> DEFINE places == {k \in 1 .. Len(t) : t[k] = "/"}
  <1>1. Len(t) \in Nat /\ places \in SUBSET (1 .. Len(t))
    OBVIOUS
  <1>2. CASE places = {}
    BY <1>1, <1>2 DEF LastSlash
  <1>3. CASE places # {}
    <2> DEFINE place == CHOOSE k \in places : \A j \in places : j <= k
    <2>1. LastSlash(t) = place - 1
      BY <1>3 DEF LastSlash
    <2> HIDE DEF places
    <2>2. place \in places
      BY <1>1, <1>3, GreatestNatural
    <2> HIDE DEF place
    <2> QED
      BY <1>1, <2>1, <2>2
  <1> QED
    BY <1>2, <1>3

\* The last slash stays in the text when the last component is taken away.
LEMMA CompressedInside ==
  ASSUME NEW S, NEW t \in Seq(S), NEW s \in 0 .. Len(t)
  PROVE  /\ Compressed(t, s).text \in Seq(S)
         /\ Compressed(t, s).slash \in 0 .. Len(Compressed(t, s).text)
  <1> DEFINE u == Cut(t, 3)
             l == LastSlash(u)
  <1>1. Len(t) \in Nat /\ Len(From(t, s)) = Len(t) - s
    BY FromText
  <1>2. CASE From(t, s) = <<"/", ".">>
    <2>1. Len(t) - s = 2
      BY <1>1, <1>2
    <2>2. Cut(t, 2) = Slice(t, 0, Len(t) - 2) /\ Len(t) - 2 \in 0 .. Len(t)
      BY <1>1, <2>1 DEF Cut, Slice
    <2>3. Cut(t, 2) \in Seq(S) /\ Len(Cut(t, 2)) = s
      BY <1>1, <2>1, <2>2, StartOfText
    <2>4. Compressed(t, s) = [text |-> Cut(t, 2), slash |-> s]
      BY <1>2 DEF Compressed
    <2> QED
      BY <2>3, <2>4
  <1>3. CASE From(t, s) # <<"/", ".">> /\ From(t, s) # <<"/", ".", ".">>
    <2>1. Compressed(t, s) = [text |-> t, slash |-> s]
      BY <1>3 DEF Compressed
    <2> QED
      BY <2>1
  <1>4. CASE From(t, s) = <<"/", ".", ".">>
    <2>1. Len(t) - s = 3
      BY <1>1, <1>4
    <2>2. u = Slice(t, 0, Len(t) - 3) /\ Len(t) - 3 \in 0 .. Len(t)
      BY <1>1, <2>1 DEF Cut, Slice
    <2> HIDE DEF u
    <2>3. u \in Seq(S) /\ Len(u) = Len(t) - 3
      BY <1>1, <2>2, StartOfText
    <2>4. l \in 0 .. Len(u)
      BY <2>3, LastSlashInside
    <2> HIDE DEF l
    <2>5. Slice(u, 0, l) \in Seq(S) /\ Len(Slice(u, 0, l)) = l
      BY <2>3, <2>4, StartOfText
    <2>6. \/ Compressed(t, s) = [text |-> Slice(u, 0, l), slash |-> l]
          \/ Compressed(t, s) = [text |-> t, slash |-> l]
      BY <1>4 DEF Compressed, u, l
    <2> QED
      BY <1>1, <2>3, <2>4, <2>5, <2>6
  <1> QED
    BY <1>2, <1>3, <1>4

-----------------------------------------------------------------------------
(* The parser *)

LEMMA PartsInit == UriInit => PartsInv
  <1> SUFFICES ASSUME UriInit PROVE PartsInv
    OBVIOUS
  <1>1. input \in Seq(Symbols) /\ rest = input /\ step = "scheme" /\ full = <<>> /\ ends = NoEnds
        /\ slash = 0
    BY GivenTexts DEF UriInit
  <1>2. UriTypes
    BY <1>1, EmptySeq DEF UriTypes, Steps, Offsets, NoEnds
  <1>3. NothingYet /\ HostBeforePath /\ PathBeforeTheRest
    BY <1>1 DEF NothingYet, HostBeforePath, PathBeforeTheRest, NoEnds
  <1> QED
    BY <1>2, <1>3 DEF PartsInv

LEMMA FailKeeps == PartsInv /\ Fail => PartsInv'
  BY DEF Fail, PartsInv, UriTypes, Steps, NothingYet, HostBeforePath, PathBeforeTheRest

LEMMA BeginningsKeep == PartsInv /\ (HostOnly \/ Scheme \/ NoAuthority) => PartsInv'
  <1> SUFFICES ASSUME PartsInv, HostOnly \/ Scheme \/ NoAuthority PROVE PartsInv'
    OBVIOUS
  <1> USE DEF PartsInv, UriTypes, NothingYet, HostBeforePath, PathBeforeTheRest
  <1>1. Len(rest) \in Nat /\ Len(full) \in Nat
    OBVIOUS
  <1>2. CASE HostOnly
    <2>1. /\ step = "scheme" /\ step' = "parsed" /\ full' = rest /\ UNCHANGED <<input, rest, slash>>
          /\ ends' = [ends EXCEPT !.domain1 = Len(rest), !.host_end = Len(rest)]
      BY <1>2 DEF HostOnly
    <2>2. /\ ends' \in Offsets
          /\ ends'.path1 = ends.path1 /\ ends'.query0 = ends.query0 /\ ends'.query1 = ends.query1
          /\ ends'.fragment_start = ends.fragment_start
      BY <1>1, <2>1 DEF Offsets
    <2> QED
      BY <1>1, <2>1, <2>2 DEF Steps
  <1>3. CASE Scheme
    <2> DEFINE colon == Find(rest, {":"})
    <2>1. colon \in 0 .. Len(rest)
      BY FindInside
    <2>2. CASE StartsWith(rest, <<"/">>)
      BY <1>3, <2>2 DEF Scheme, Steps
    <2>3. CASE ~StartsWith(rest, <<"/">>)
      <3>1. colon < Len(rest)
        BY <1>3, <2>3 DEF Scheme
      <3>2. /\ full' = Slice(rest, 0, colon + 1) /\ rest' = From(rest, colon + 1)
            /\ ends' = [ends EXCEPT !.scheme_end = colon]
            /\ step = "scheme" /\ step' = "authority" /\ UNCHANGED <<input, slash, before>>
        BY <1>3, <2>3 DEF Scheme
      <3> HIDE DEF colon
      <3>3. colon + 1 \in 0 .. Len(rest)
        BY <1>1, <2>1, <3>1
      <3>4. full' \in Seq(Symbols) /\ rest' \in Seq(Symbols)
        BY <3>2, <3>3, StartOfText, FromText
      <3>5. /\ ends' \in Offsets
            /\ ends'.host_end = ends.host_end /\ ends'.path0 = ends.path0 /\ ends'.path1 = ends.path1
            /\ ends'.query0 = ends.query0 /\ ends'.query1 = ends.query1
            /\ ends'.fragment_start = ends.fragment_start
        <4>1. ends \in Offsets /\ colon \in Nat
          BY <1>1, <2>1
        <4> QED
          BY <3>2, <4>1 DEF Offsets
      <3> QED
        BY <3>2, <3>4, <3>5 DEF Steps
    <2> QED
      BY <2>2, <2>3
  <1>4. CASE NoAuthority
    <2>1. /\ step = "authority" /\ step' = "decode" /\ UNCHANGED <<input, rest, full, slash>>
          /\ ends' = [ends EXCEPT !.path0 = Len(full)]
      BY <1>4 DEF NoAuthority
    <2>2. /\ ends' \in Offsets
          /\ ends'.host_end = ends.host_end /\ ends'.path0 = Len(full) /\ ends'.path1 = ends.path1
          /\ ends'.query0 = ends.query0 /\ ends'.query1 = ends.query1
          /\ ends'.fragment_start = ends.fragment_start
      BY <1>1, <2>1 DEF Offsets
    <2> QED
      BY <1>1, <2>1, <2>2 DEF Steps
  <1> QED
    BY <1>2, <1>3, <1>4

LEMMA AuthorityKeeps == PartsInv /\ Authority => PartsInv'
  <1> SUFFICES ASSUME PartsInv, Authority, ~Fail PROVE PartsInv'
    BY FailKeeps
  <1> DEFINE slashes == IF StartsWith(rest, <<"/", "/">>) THEN <<"/", "/">> ELSE <<>>
             behind == From(rest, Len(slashes))
             host == Slice(behind, 0, Find(behind, {"/"}))
             start == Len(full) + Len(slashes)
  <1>1. /\ step = "authority" /\ step' = "decode" /\ UNCHANGED <<input, slash>>
        /\ full' = full \o slashes \o host /\ rest' = From(behind, Len(host))
        /\ ends' = [ends EXCEPT !.domain0 = start, !.domain1 = start + DomainEnd(host),
                                !.host_end = start + Len(host), !.path0 = start + Len(host)]
    BY DEF Authority
  <1>2. /\ input \in Seq(Symbols) /\ rest \in Seq(Symbols) /\ full \in Seq(Symbols) /\ ends \in Offsets
        /\ slash = 0 /\ ends.path1 = 0 /\ ends.query0 = 0 /\ ends.query1 = 0 /\ ends.fragment_start = 0
    BY <1>1 DEF PartsInv, UriTypes, NothingYet
  <1>3. slashes \in Seq(Symbols) /\ Len(slashes) \in 0 .. Len(rest)
    <2>1. <<"/", "/">> \in Seq(Symbols) /\ Len(<<"/", "/">>) = 2
      BY DEF Symbols
    <2>2. <<>> \in Seq(Symbols) /\ Len(<<>>) = 0 /\ Len(rest) \in Nat
      BY <1>2, EmptySeq
    <2> QED
      BY <2>1, <2>2 DEF StartsWith
  <1> HIDE DEF slashes
  <1>4. behind \in Seq(Symbols)
    BY <1>2, <1>3, FromText
  <1> HIDE DEF behind
  <1>5. host \in Seq(Symbols) /\ Len(host) \in 0 .. Len(behind)
    <2>1. Find(behind, {"/"}) \in 0 .. Len(behind)
      BY <1>4, FindInside
    <2> QED
      BY <1>4, <2>1, StartOfText
  <1> HIDE DEF host
  <1>6. DomainEnd(host) \in Nat
    BY <1>5, FindInside DEF DomainEnd
  <1>7. full' \in Seq(Symbols) /\ rest' \in Seq(Symbols) /\ Len(full') \in Nat
    <2>1. full' \in Seq(Symbols)
      BY <1>1, <1>2, <1>3, <1>5, ConcatProperties
    <2> QED
      BY <1>1, <1>4, <1>5, <2>1, FromText
  <1>8. start \in Nat /\ Len(host) \in Nat
    BY <1>2, <1>3, <1>5
  <1> HIDE DEF start
  <1>9. /\ ends' \in Offsets /\ ends'.host_end = ends'.path0
        /\ ends'.path1 = 0 /\ ends'.query0 = 0 /\ ends'.query1 = 0 /\ ends'.fragment_start = 0
    <2> DEFINE d == DomainEnd(host)
               h == Len(host)
    <2>1. start + d \in Nat /\ start + h \in Nat
      BY <1>6, <1>8
    <2>2. ends' = [ends EXCEPT !.domain0 = start, !.domain1 = start + d,
                               !.host_end = start + h, !.path0 = start + h]
      BY <1>1
    <2> HIDE DEF d, h
    <2>3. ends' \in Offsets
      BY <1>2, <1>8, <2>1, <2>2 DEF Offsets
    <2> QED
      BY <1>2, <2>2, <2>3 DEF Offsets
  <1>10. ends'.host_end <= ends'.path0
    BY <1>9 DEF Offsets
  <1> QED
    BY <1>1, <1>2, <1>7, <1>9, <1>10 DEF PartsInv, UriTypes, NothingYet, HostBeforePath, PathBeforeTheRest, Steps

LEMMA DecodingKeeps == PartsInv /\ (DecodeSlash \/ DecodeSymbol \/ PathEnds) => PartsInv'
  <1> SUFFICES ASSUME PartsInv, DecodeSlash \/ DecodeSymbol \/ PathEnds PROVE PartsInv'
    OBVIOUS
  <1> DEFINE c == Compressed(full, slash)
  <1>1. /\ step = "decode" /\ input \in Seq(Symbols) /\ rest \in Seq(Symbols) /\ full \in Seq(Symbols)
        /\ ends \in Offsets /\ slash \in 0 .. Len(full) /\ Len(full) \in Nat
        /\ ends.path1 = 0 /\ ends.query0 = 0 /\ ends.query1 = 0 /\ ends.fragment_start = 0
        /\ ends.host_end <= ends.path0
    BY DEF PartsInv, UriTypes, NothingYet, HostBeforePath, DecodeSlash, DecodeSymbol, PathEnds, InPath
  <1>2. c.text \in Seq(Symbols) /\ c.slash \in 0 .. Len(c.text) /\ Len(c.text) \in Nat
    BY <1>1, CompressedInside
  <1>3. ASSUME InPath PROVE Head(rest) \in Symbols /\ Tail(rest) \in Seq(Symbols)
    BY <1>1, <1>3, HeadTailProperties DEF InPath
  <1> DEFINE NextIsDecode ==
        /\ step' = "decode" /\ UNCHANGED <<input, ends>>
        /\ rest' \in Seq(Symbols) /\ full' \in Seq(Symbols) /\ slash' \in 0 .. Len(full')
  <1>4. NextIsDecode => PartsInv'
    BY <1>1 DEF PartsInv, UriTypes, NothingYet, HostBeforePath, PathBeforeTheRest, Steps
  <1>5. CASE DecodeSlash
    <2>1. /\ step' = "decode" /\ UNCHANGED <<input, ends>> /\ rest' = Tail(rest) /\ InPath
          /\ (full' = full /\ slash' = slash) \/ (full' = Append(c.text, "/") /\ slash' = Len(c.text))
      BY <1>1, <1>5 DEF DecodeSlash
    <2> HIDE DEF c
    <2>2. "/" \in Symbols
      BY DEF Symbols
    <2>3. Append(c.text, "/") \in Seq(Symbols) /\ Len(Append(c.text, "/")) = Len(c.text) + 1
      BY <1>2, <2>2, AppendProperties
    <2>4. Len(c.text) \in 0 .. Len(c.text) + 1
      BY <1>2
    <2>5. full' \in Seq(Symbols) /\ slash' \in 0 .. Len(full')
      BY <1>1, <1>2, <2>1, <2>3, <2>4
    <2> QED
      BY <1>3, <1>4, <2>1, <2>5
  <1>6. CASE DecodeSymbol
    <2>1. /\ step' = "decode" /\ UNCHANGED <<input, ends, slash>> /\ rest' = Tail(rest) /\ InPath
          /\ full' = Append(full, Decoded(Head(rest)))
      BY <1>1, <1>6 DEF DecodeSymbol
    <2>2. Decoded(Head(rest)) \in Symbols
      BY <1>3, <2>1 DEF Decoded, Symbols
    <2>3. Append(full, Decoded(Head(rest))) \in Seq(Symbols)
          /\ Len(Append(full, Decoded(Head(rest)))) = Len(full) + 1
      BY <1>1, <2>2, AppendProperties
    <2> QED
      BY <1>1, <1>3, <1>4, <2>1, <2>3
  <1>7. CASE PathEnds
    <2>1. /\ step' = "query" /\ UNCHANGED <<input, rest>> /\ full' = c.text
          /\ ends' = [ends EXCEPT !.path1 = Len(c.text)]
      BY <1>7 DEF PathEnds
    <2> HIDE DEF c
    <2>2. /\ ends' \in Offsets /\ ends'.path1 = Len(full') /\ ends'.host_end <= ends'.path0
          /\ ends'.query0 = 0 /\ ends'.query1 = 0 /\ ends'.fragment_start = 0
      BY <1>1, <1>2, <2>1 DEF Offsets
    <2> QED
      BY <1>1, <1>2, <2>1, <2>2 DEF PartsInv, UriTypes, NothingYet, HostBeforePath, PathBeforeTheRest, Steps
  <1> QED
    BY <1>5, <1>6, <1>7

LEMMA TailKeeps == PartsInv /\ (Query \/ NoQuery \/ Fragment) => PartsInv'
  <1> SUFFICES ASSUME PartsInv, Query \/ NoQuery \/ Fragment PROVE PartsInv'
    OBVIOUS
  <1>1. /\ input \in Seq(Symbols) /\ rest \in Seq(Symbols) /\ full \in Seq(Symbols)
        /\ ends \in Offsets /\ Len(full) \in Nat /\ Len(rest) \in Nat
        /\ ends.fragment_start = 0 /\ ends.host_end <= ends.path0
    BY DEF PartsInv, UriTypes, NothingYet, HostBeforePath, Query, NoQuery, Fragment
  <1>2. CASE Query
    <2> DEFINE behind == Tail(rest)
               end == Find(behind, {"#"})
    <2>1. /\ step = "query" /\ ends.path1 = Len(full) /\ ends.query0 = 0 /\ ends.query1 = 0
          /\ StartsWith(rest, <<"?">>) /\ UNCHANGED <<input, slash, before>>
      BY <1>2 DEF PartsInv, NothingYet, PathBeforeTheRest, Query
    <2>2. Len(rest) >= 1 /\ behind \in Seq(Symbols) /\ Len(behind) = Len(rest) - 1
      <3>1. Len(rest) >= 1
        BY <2>1 DEF StartsWith
      <3> QED
        BY <1>1, <3>1, HeadTailProperties
    <2>3. end \in 0 .. Len(behind)
      BY <2>2, FindInside
    <2>4. \/ end = Len(behind) /\ step' = "panicked" /\ UNCHANGED <<rest, full, ends>>
          \/ /\ full' = full \o Slice(rest, 0, end + 1)
             /\ ends' = [ends EXCEPT !.query0 = Len(full) + 1, !.query1 = Len(full) + 1 + end]
             /\ rest' = From(rest, end + 1)
             /\ step' = "fragment"
      BY <1>2 DEF Query
    <2> HIDE DEF end, behind
    <2>5. CASE end = Len(behind) /\ step' = "panicked" /\ UNCHANGED <<rest, full, ends>>
      BY <1>1, <2>1, <2>5 DEF PartsInv, UriTypes, NothingYet, HostBeforePath, PathBeforeTheRest, Steps
    <2>6. CASE /\ full' = full \o Slice(rest, 0, end + 1)
               /\ ends' = [ends EXCEPT !.query0 = Len(full) + 1, !.query1 = Len(full) + 1 + end]
               /\ rest' = From(rest, end + 1)
               /\ step' = "fragment"
      <3>1. end + 1 \in 0 .. Len(rest) /\ end \in Nat
        BY <1>1, <2>2, <2>3
      <3>2. rest' \in Seq(Symbols) /\ Slice(rest, 0, end + 1) \in Seq(Symbols)
            /\ Len(Slice(rest, 0, end + 1)) = end + 1
        BY <1>1, <2>6, <3>1, StartOfText, FromText
      <3>3. full' \in Seq(Symbols) /\ Len(full') = Len(full) + (end + 1)
        <4> DEFINE query == Slice(rest, 0, end + 1)
        <4>1. query \in Seq(Symbols) /\ Len(query) = end + 1 /\ full' = full \o query
          BY <2>6, <3>2
        <4> HIDE DEF query
        <4>2. full \o query \in Seq(Symbols) /\ Len(full \o query) = Len(full) + Len(query)
          BY <1>1, <4>1, ConcatProperties
        <4> QED
          BY <4>1, <4>2
      <3>4. /\ ends' \in Offsets /\ ends'.host_end = ends.host_end /\ ends'.path0 = ends.path0
            /\ ends'.path1 = ends.path1 /\ ends'.query0 = Len(full) + 1
            /\ ends'.query1 = Len(full) + 1 + end /\ ends'.fragment_start = 0
        <4> DEFINE q == Len(full) + 1
                   r == Len(full) + 1 + end
        <4>1. q \in Nat /\ r \in Nat
          BY <1>1, <3>1
        <4>2. ends' = [ends EXCEPT !.query0 = q, !.query1 = r]
          BY <2>6
        <4> HIDE DEF q, r
        <4>3. /\ ends' \in Offsets /\ ends'.host_end = ends.host_end /\ ends'.path0 = ends.path0
              /\ ends'.path1 = ends.path1 /\ ends'.query0 = q /\ ends'.query1 = r
              /\ ends'.fragment_start = ends.fragment_start
          BY <1>1, <4>1, <4>2 DEF Offsets
        <4> QED
          BY <1>1, <4>3 DEF q, r
      <3>5. /\ ends'.path1 < ends'.query0 /\ ends'.query0 <= ends'.query1 /\ ends'.query1 <= Len(full')
            /\ ends'.path1 <= Len(full')
        BY <1>1, <2>1, <3>1, <3>3, <3>4
      <3> QED
        BY <1>1, <2>1, <2>6, <3>2, <3>3, <3>4, <3>5
           DEF PartsInv, UriTypes, NothingYet, HostBeforePath, PathBeforeTheRest, Steps
    <2> QED
      BY <2>4, <2>5, <2>6
  <1>3. CASE NoQuery
    BY <1>1, <1>3 DEF NoQuery, PartsInv, UriTypes, NothingYet, HostBeforePath, PathBeforeTheRest, Steps, Offsets
  <1>4. CASE Fragment
    <2>1. /\ step = "fragment" /\ step' = "parsed" /\ UNCHANGED <<input, rest, slash>>
          /\ \/ UNCHANGED <<full, ends>>
             \/ rest # <<>> /\ full' = full \o rest /\ ends' = [ends EXCEPT !.fragment_start = Len(full) + 1]
      BY <1>4 DEF Fragment
    <2>2. /\ ends.path1 <= Len(full)
          /\ \/ ends.query0 = 0 /\ ends.query1 = 0
             \/ ends.path1 < ends.query0 /\ ends.query0 <= ends.query1 /\ ends.query1 <= Len(full)
      BY <2>1 DEF PartsInv, PathBeforeTheRest
    <2>3. CASE UNCHANGED <<full, ends>>
      BY <1>1, <2>1, <2>2, <2>3
         DEF PartsInv, UriTypes, NothingYet, HostBeforePath, PathBeforeTheRest, Steps
    <2>4. CASE rest # <<>> /\ full' = full \o rest /\ ends' = [ends EXCEPT !.fragment_start = Len(full) + 1]
      <3>1. Len(rest) >= 1
        BY <1>1, <2>4, EmptySeq
      <3>2. full' \in Seq(Symbols) /\ Len(full') = Len(full) + Len(rest)
        BY <1>1, <2>4, ConcatProperties
      <3>3. /\ ends' \in Offsets /\ ends'.host_end = ends.host_end /\ ends'.path0 = ends.path0
            /\ ends'.path1 = ends.path1 /\ ends'.query0 = ends.query0
            /\ ends'.query1 = ends.query1 /\ ends'.fragment_start = Len(full) + 1
        <4> DEFINE f == Len(full) + 1
        <4>1. f \in Nat /\ ends' = [ends EXCEPT !.fragment_start = f]
          BY <1>1, <2>4
        <4> HIDE DEF f
        <4>2. /\ ends' \in Offsets /\ ends'.host_end = ends.host_end /\ ends'.path0 = ends.path0
              /\ ends'.path1 = ends.path1 /\ ends'.query0 = ends.query0
              /\ ends'.query1 = ends.query1 /\ ends'.fragment_start = f
          BY <1>1, <4>1 DEF Offsets
        <4> QED
          BY <4>2 DEF f
      <3>4. /\ ends'.path1 < ends'.fragment_start /\ ends'.fragment_start <= Len(full')
            /\ ends'.path1 <= Len(full')
            /\ \/ ends'.query0 = 0 /\ ends'.query1 = 0
               \/ ends'.path1 < ends'.query0 /\ ends'.query0 <= ends'.query1 /\ ends'.query1 <= Len(full')
        <4>1. ends.path1 \in Nat /\ ends.query0 \in Nat /\ ends.query1 \in Nat
          BY <1>1 DEF Offsets
        <4> QED
          BY <1>1, <2>2, <3>1, <3>2, <3>3, <4>1
      <3> QED
        BY <1>1, <2>1, <3>2, <3>3, <3>4
           DEF PartsInv, UriTypes, NothingYet, HostBeforePath, PathBeforeTheRest, Steps
    <2> QED
      BY <2>1, <2>3, <2>4
  <1> QED
    BY <1>2, <1>3, <1>4

-----------------------------------------------------------------------------
(* The replacement *)

IsConcatOfThree(u, a, b, c) ==
  /\ Len(u) = Len(a) + Len(b) + Len(c)
  /\ \A k \in 1 .. Len(a) : u[k] = a[k]
  /\ \A k \in 1 .. Len(b) : u[Len(a) + k] = b[k]
  /\ \A k \in 1 .. Len(c) : u[Len(a) + Len(b) + k] = c[k]

LEMMA ConcatOfThree ==
  ASSUME NEW S, NEW a \in Seq(S), NEW b \in Seq(S), NEW c \in Seq(S)
  PROVE  a \o b \o c \in Seq(S) /\ IsConcatOfThree(a \o b \o c, a, b, c)
  <1>1. PICK v \in Seq(S) : v = a \o b
    BY ConcatProperties
  <1>2. /\ Len(v) = Len(a) + Len(b)
        /\ \A k \in 1 .. Len(a) + Len(b) : v[k] = IF k <= Len(a) THEN a[k] ELSE b[k - Len(a)]
    BY <1>1, ConcatProperties
  <1>3. PICK u \in Seq(S) : u = v \o c
    BY ConcatProperties
  <1>4. /\ Len(u) = Len(v) + Len(c)
        /\ \A k \in 1 .. Len(v) + Len(c) : u[k] = IF k <= Len(v) THEN v[k] ELSE c[k - Len(v)]
    BY <1>3, ConcatProperties
  <1>5. Len(a) \in Nat /\ Len(b) \in Nat /\ Len(c) \in Nat /\ Len(v) \in Nat
    OBVIOUS
  <1>6. ASSUME NEW k \in 1 .. Len(a) PROVE u[k] = a[k]
    <2>1. k \in 1 .. Len(v) + Len(c) /\ k \in 1 .. Len(a) + Len(b) /\ k <= Len(v) /\ k <= Len(a)
      BY <1>2, <1>5
    <2> QED
      BY <1>2, <1>4, <2>1, Zenon
  <1>7. ASSUME NEW k \in 1 .. Len(b) PROVE u[Len(a) + k] = b[k]
    BY <1>2, <1>4, <1>5
  <1>8. ASSUME NEW k \in 1 .. Len(c) PROVE u[Len(a) + Len(b) + k] = c[k]
    <2>1. PICK i : i = Len(a) + Len(b) + k
      OBVIOUS
    <2>2. i \in 1 .. Len(v) + Len(c) /\ ~(i <= Len(v)) /\ i - Len(v) = k
      BY <1>2, <1>5, <2>1
    <2> QED
      BY <1>4, <2>1, <2>2, Zenon
  <1>9. Len(u) = Len(a) + Len(b) + Len(c)
    BY <1>2, <1>4
  <1>10. IsConcatOfThree(u, a, b, c)
    BY <1>6, <1>7, <1>8, <1>9 DEF IsConcatOfThree
  <1> QED
    BY <1>1, <1>3, <1>10, Zenon

\* The text with a new prefix instead of l symbols behind the first p.
Spliced(t, p, l, prefix) == Slice(t, 0, p) \o prefix \o From(t, p + l)

IsSpliced(u, t, p, l, prefix) ==
  /\ Len(u) = Len(t) + Len(prefix) - l
  /\ \A k \in 1 .. p : u[k] = t[k]
  /\ \A k \in 1 .. Len(prefix) : u[p + k] = prefix[k]
  /\ \A k \in 1 .. Len(t) - (p + l) : u[p + Len(prefix) + k] = t[p + l + k]

LEMMA SplicedText ==
  ASSUME NEW S, NEW t \in Seq(S), NEW prefix \in Seq(S), NEW p \in Nat, NEW l \in Nat, p + l <= Len(t)
  PROVE  Spliced(t, p, l, prefix) \in Seq(S) /\ IsSpliced(Spliced(t, p, l, prefix), t, p, l, prefix)
  <1> DEFINE a == Slice(t, 0, p)
             c == From(t, p + l)
  <1>1. p \in 0 .. Len(t) /\ p + l \in 0 .. Len(t)
    OBVIOUS
  <1>2. a \in Seq(S) /\ Len(a) = p /\ \A k \in 1 .. p : a[k] = t[k]
    BY <1>1, StartOfText
  <1>3. c \in Seq(S) /\ Len(c) = Len(t) - (p + l) /\ \A k \in 1 .. Len(t) - (p + l) : c[k] = t[p + l + k]
    <2>1. PICK q \in 0 .. Len(t) : q = p + l
      BY <1>1
    <2>2. From(t, q) \in Seq(S) /\ Len(From(t, q)) = Len(t) - q /\ \A k \in 1 .. Len(t) - q : From(t, q)[k] = t[q + k]
      BY FromText
    <2> QED
      BY <2>1, <2>2, Zenon
  <1>4. PICK u : u = Spliced(t, p, l, prefix)
    OBVIOUS
  <1>5. u = a \o prefix \o c
    BY <1>4 DEF Spliced
  <1> HIDE DEF a, c
  <1>6. /\ u \in Seq(S) /\ Len(u) = Len(a) + Len(prefix) + Len(c)
        /\ \A k \in 1 .. Len(a) : u[k] = a[k]
        /\ \A k \in 1 .. Len(prefix) : u[Len(a) + k] = prefix[k]
        /\ \A k \in 1 .. Len(c) : u[Len(a) + Len(prefix) + k] = c[k]
    <2>1. a \o prefix \o c \in Seq(S) /\ IsConcatOfThree(a \o prefix \o c, a, prefix, c)
      BY <1>2, <1>3, ConcatOfThree
    <2>2. u \in Seq(S) /\ IsConcatOfThree(u, a, prefix, c)
      BY <1>5, <2>1, Zenon
    <2> QED
      BY <2>2, Zenon DEF IsConcatOfThree
  <1>7. Len(u) = Len(t) + Len(prefix) - l
    BY <1>2, <1>3, <1>6
  <1>8. /\ \A k \in 1 .. p : u[k] = t[k]
        /\ \A k \in 1 .. Len(prefix) : u[p + k] = prefix[k]
        /\ \A k \in 1 .. Len(t) - (p + l) : u[p + Len(prefix) + k] = t[p + l + k]
    BY <1>2, <1>3, <1>6, Zenon
  <1>9. IsSpliced(u, t, p, l, prefix)
    BY <1>7, <1>8, Zenon DEF IsSpliced
  <1> QED
    BY <1>4, <1>6, <1>9, Zenon

\* A part that is moved as a whole keeps its text.
IsPart(u, x, y, t, a, b) == y - x = b - a /\ \A k \in 1 .. b - a : u[x + k] = t[a + k]

LEMMA SliceMoves ==
  ASSUME NEW S, NEW t \in Seq(S), NEW u \in Seq(S), NEW a \in Nat, NEW b \in a .. Len(t),
         NEW x \in Nat, NEW y \in x .. Len(u), IsPart(u, x, y, t, a, b)
  PROVE  Slice(u, x, y) = Slice(t, a, b)
  <1>1. /\ Slice(u, x, y) \in Seq(S) /\ Len(Slice(u, x, y)) = y - x
        /\ \A k \in 1 .. y - x : Slice(u, x, y)[k] = u[x + k]
    BY SliceOfText
  <1>2. /\ Slice(t, a, b) \in Seq(S) /\ Len(Slice(t, a, b)) = b - a
        /\ \A k \in 1 .. b - a : Slice(t, a, b)[k] = t[a + k]
    BY SliceOfText
  <1>3. y - x = b - a
    BY DEF IsPart
  <1>4. Len(Slice(u, x, y)) = b - a
    BY <1>1, <1>3, Zenon
  <1>5. \A k \in 1 .. Len(Slice(u, x, y)) : Slice(u, x, y)[k] = Slice(t, a, b)[k]
    BY <1>1, <1>2, <1>3, <1>4, Zenon DEF IsPart
  <1> QED
    BY <1>1, <1>2, <1>4, <1>5, SeqEqual

LEMMA SplicedPath ==
  ASSUME NEW S, NEW t \in Seq(S), NEW prefix \in Seq(S), NEW p \in Nat, NEW l \in Nat, NEW q \in Nat,
         p + l <= q, q <= Len(t)
  PROVE  Slice(Spliced(t, p, l, prefix), p, q + Len(prefix) - l) = prefix \o From(Slice(t, p, q), l)
  <1> DEFINE y == q + Len(prefix) - l
             g == q - (p + l)
             m == Len(prefix)
  <1>1. g \in Nat /\ m \in Nat /\ q \in p .. Len(t) /\ y - p = m + g /\ q - p = l + g /\ g <= Len(t) - (p + l)
        /\ y \in Nat
    OBVIOUS
  <1>2. PICK u : u = Spliced(t, p, l, prefix)
    OBVIOUS
  <1>3. /\ u \in Seq(S) /\ Len(u) = Len(t) + m - l
        /\ \A k \in 1 .. m : u[p + k] = prefix[k]
        /\ \A k \in 1 .. Len(t) - (p + l) : u[p + m + k] = t[p + l + k]
    <2>1. p + l <= Len(t)
      OBVIOUS
    <2>2. Spliced(t, p, l, prefix) \in Seq(S) /\ IsSpliced(Spliced(t, p, l, prefix), t, p, l, prefix)
      BY <2>1, SplicedText
    <2>3. u \in Seq(S) /\ IsSpliced(u, t, p, l, prefix)
      BY <1>2, <2>2, Zenon
    <2> QED
      BY <2>3, Zenon DEF IsSpliced
  <1>4. y \in p .. Len(u)
    BY <1>1, <1>3
  <1> HIDE DEF g, m, y
  <1>5. PICK x : x = Slice(u, p, y)
    OBVIOUS
  <1>6. x \in Seq(S) /\ Len(x) = m + g /\ \A k \in 1 .. m + g : x[k] = u[p + k]
    <2>1. u \in Seq(S)
      BY <1>3
    <2>2. Slice(u, p, y) \in Seq(S) /\ IsCutFrom(Slice(u, p, y), u, p, y)
      BY <1>4, <2>1, SliceIsCut
    <2>3. x \in Seq(S) /\ IsCutFrom(x, u, p, y)
      BY <1>5, <2>2, Zenon
    <2> QED
      BY <1>1, <2>3, Zenon DEF IsCutFrom
  <1>7. PICK s : s = Slice(t, p, q)
    OBVIOUS
  <1>8. s \in Seq(S) /\ Len(s) = l + g /\ \A k \in 1 .. l + g : s[k] = t[p + k]
    <2>1. q \in p .. Len(t)
      BY <1>1
    <2>2. Slice(t, p, q) \in Seq(S) /\ IsCutFrom(Slice(t, p, q), t, p, q)
      BY <2>1, SliceIsCut
    <2>3. s \in Seq(S) /\ IsCutFrom(s, t, p, q)
      BY <1>7, <2>2, Zenon
    <2> QED
      BY <1>1, <2>3, Zenon DEF IsCutFrom
  <1>9. PICK r : r = From(s, l)
    OBVIOUS
  <1>10. r \in Seq(S) /\ Len(r) = g /\ \A k \in 1 .. g : r[k] = s[l + k]
    <2>1. l \in 0 .. Len(s) /\ Len(s) - l = g
      BY <1>1, <1>8
    <2>2. From(s, l) \in Seq(S) /\ Len(From(s, l)) = Len(s) - l /\ \A k \in 1 .. Len(s) - l : From(s, l)[k] = s[l + k]
      BY <1>8, <2>1, FromText
    <2> QED
      BY <1>9, <2>1, <2>2, Zenon
  <1>11. PICK z : z = prefix \o r
    OBVIOUS
  <1>12. /\ z \in Seq(S) /\ Len(z) = m + g
         /\ \A k \in 1 .. m + g : z[k] = IF k <= m THEN prefix[k] ELSE r[k - m]
    <2>1. /\ prefix \o r \in Seq(S) /\ Len(prefix \o r) = Len(prefix) + Len(r)
          /\ \A k \in 1 .. Len(prefix) + Len(r) :
               (prefix \o r)[k] = IF k <= Len(prefix) THEN prefix[k] ELSE r[k - Len(prefix)]
      BY <1>10, ConcatProperties
    <2>2. m = Len(prefix)
      BY DEF m
    <2> QED
      BY <1>10, <1>11, <2>1, <2>2, Zenon
  <1>13. ASSUME NEW k \in 1 .. m + g PROVE x[k] = z[k]
    <2>1. CASE k <= m
      <3>1. k \in 1 .. m
        BY <1>1, <2>1
      <3> QED
        BY <1>3, <1>6, <1>12, <2>1, <3>1
    <2>2. CASE ~(k <= m)
      <3>1. PICK j \in 1 .. g : j = k - m
        <4>1. k - m \in 1 .. g
          BY <1>1, <2>2
        <4> QED
          BY <4>1
      <3>2. l + j \in 1 .. l + g /\ j \in 1 .. Len(t) - (p + l)
        BY <1>1, <3>1
      <3>3. z[k] = s[l + j]
        BY <1>10, <1>12, <2>2, <3>1, Zenon
      <3>4. s[l + j] = t[p + l + j]
        <4>1. p + (l + j) = p + l + j
          OBVIOUS
        <4> QED
          BY <1>8, <3>2, <4>1, Zenon
      <3>5. x[k] = u[p + m + j]
        <4>1. p + k = p + m + j
          BY <1>1, <3>1
        <4> QED
          BY <1>6, <4>1, Zenon
      <3>6. u[p + m + j] = t[p + l + j]
        BY <1>3, <3>2, Zenon
      <3> QED
        BY <3>3, <3>4, <3>5, <3>6, Zenon
    <2> QED
      BY <2>1, <2>2
  <1>14. x = z
    <2>1. Len(x) = Len(z) /\ \A k \in 1 .. Len(x) : x[k] = z[k]
      BY <1>6, <1>12, <1>13, Zenon
    <2> QED
      BY <1>6, <1>12, <2>1, SeqEqual
  <1> QED
    BY <1>2, <1>5, <1>7, <1>9, <1>11, <1>14, Zenon DEF y

\* The offsets of a path and of what is behind it are moved with it; those of parts there
\* are none of stay numbers.
Moved(e, m, l) == IF m > l THEN Longer(e, m - l) ELSE Shorter(e, l - m)

AreMoved(w, e, m, l) ==
  /\ w.domain0 = e.domain0 /\ w.host_end = e.host_end /\ w.path0 = e.path0
  /\ e.path1 > 0 => w.path1 = e.path1 + m - l
  /\ e.query0 > 0 => w.query0 = e.query0 + m - l /\ w.query1 = e.query1 + m - l
  /\ e.fragment_start > 0 => w.fragment_start = e.fragment_start + m - l

\* The offsets are in the order of the parts of a text of n symbols.
InOrder(e, n) ==
  /\ e.path1 <= n
  /\ \/ e.query0 = 0 /\ e.query1 = 0
     \/ e.path1 < e.query0 /\ e.query0 <= e.query1 /\ e.query1 <= n
  /\ \/ e.fragment_start = 0
     \/ e.path1 < e.fragment_start /\ e.fragment_start <= n

LEMMA OffsetsMove ==
  ASSUME NEW e \in Offsets, NEW m \in Nat, NEW l \in Nat, NEW n \in Nat, l <= e.path1, InOrder(e, n)
  PROVE  Moved(e, m, l) \in Offsets /\ AreMoved(Moved(e, m, l), e, m, l)
  <1> DEFINE w == Moved(e, m, l)
             Goal == w \in Offsets /\ AreMoved(w, e, m, l)
  <1>1. /\ \/ e.query0 = 0 /\ e.query1 = 0
           \/ e.path1 < e.query0 /\ e.query0 <= e.query1
        /\ e.fragment_start = 0 \/ e.path1 < e.fragment_start
    BY DEF InOrder
  <1>2. /\ e.path1 \in Nat /\ e.query0 \in Nat /\ e.query1 \in Nat /\ e.fragment_start \in Nat
    BY DEF Offsets
  <1> DEFINE Now(a, b, c, f) ==
        /\ w \in Offsets
        /\ w.domain0 = e.domain0 /\ w.host_end = e.host_end /\ w.path0 = e.path0
        /\ w.path1 = a /\ w.query0 = b /\ w.query1 = c /\ w.fragment_start = f
  <1>3. ASSUME NEW a \in Nat, NEW b \in Nat, NEW c \in Nat, NEW f \in Nat,
               w = [e EXCEPT !.path1 = a, !.query0 = b, !.query1 = c, !.fragment_start = f]
        PROVE  Now(a, b, c, f)
    <2> HIDE DEF w
    <2> QED
      BY <1>3 DEF Offsets
  <1> HIDE DEF Now
  <1>4. CASE m > l
    <2> DEFINE a == IF e.path1 > 0 THEN e.path1 + m - l ELSE e.path1
               b == e.query0 + m - l
               c == e.query1 + m - l
               f == e.fragment_start + m - l
    <2>1. a \in Nat /\ b \in Nat /\ c \in Nat /\ f \in Nat
      BY <1>2, <1>4
    <2>2. w = [e EXCEPT !.path1 = a, !.query0 = b, !.query1 = c, !.fragment_start = f]
      BY <1>4 DEF Moved, Longer, Offsets
    <2>3. e.path1 > 0 => a = e.path1 + m - l
      OBVIOUS
    <2> HIDE DEF a, b, c, f, w
    <2>4. Now(a, b, c, f)
      BY <1>3, <2>1, <2>2, Zenon
    <2>5. /\ w \in Offsets
          /\ w.domain0 = e.domain0 /\ w.host_end = e.host_end /\ w.path0 = e.path0
          /\ w.path1 = a /\ w.query0 = b /\ w.query1 = c /\ w.fragment_start = f
      BY <2>4 DEF Now
    <2> QED
      BY <2>3, <2>5 DEF b, c, f, w, AreMoved
  <1>5. CASE ~(m > l)
    <2> DEFINE a == IF e.path1 > 0 THEN e.path1 - (l - m) ELSE e.path1
               b == IF e.query0 > 0 THEN e.query0 - (l - m) ELSE e.query0
               c == IF e.query0 > 0 THEN e.query1 - (l - m) ELSE e.query1
               f == IF e.fragment_start > 0 THEN e.fragment_start - (l - m) ELSE e.fragment_start
    <2>1. a \in Nat /\ b \in Nat /\ c \in Nat /\ f \in Nat
      BY <1>1, <1>2, <1>5
    <2>2. w = [e EXCEPT !.path1 = a, !.query0 = b, !.query1 = c, !.fragment_start = f]
      BY <1>5 DEF Moved, Shorter, Offsets
    <2>3. /\ e.path1 > 0 => a = e.path1 + m - l
          /\ e.query0 > 0 => b = e.query0 + m - l /\ c = e.query1 + m - l
          /\ e.fragment_start > 0 => f = e.fragment_start + m - l
      BY <1>2
    <2> HIDE DEF a, b, c, f, w
    <2>4. Now(a, b, c, f)
      BY <1>3, <2>1, <2>2, Zenon
    <2>5. /\ w \in Offsets
          /\ w.domain0 = e.domain0 /\ w.host_end = e.host_end /\ w.path0 = e.path0
          /\ w.path1 = a /\ w.query0 = b /\ w.query1 = c /\ w.fragment_start = f
      BY <2>4 DEF Now
    <2> QED
      BY <2>3, <2>5 DEF w, AreMoved
  <1> QED
    BY <1>4, <1>5

LEMMA PartsAreMoved ==
  ASSUME NEW t \in Seq(Symbols), NEW prefix \in Seq(Symbols), NEW e \in Offsets, NEW length \in Nat,
         e.domain0 <= e.host_end, e.host_end <= e.path0 \/ e.path1 = 0,
         e.path0 + length <= e.path1, InOrder(e, Len(t))
  PROVE  LET u == Spliced(t, e.path0, length, prefix)
             w == Moved(e, Len(prefix), length)
         IN  /\ u \in Seq(Symbols) /\ w \in Offsets
             /\ e.path1 > 0 =>
                  /\ Host(u, w) = Host(t, e)
                  /\ Path(u, w) = prefix \o From(Path(t, e), length)
                  /\ QueryOf(u, w) = QueryOf(t, e) \/ e.query0 = 0
                  /\ FragmentOf(u, w) = FragmentOf(t, e) \/ e.fragment_start = 0
  <1> DEFINE u == Spliced(t, e.path0, length, prefix)
             w == Moved(e, Len(prefix), length)
             p == e.path0
             q == e.path1
             m == Len(prefix)
             n == Len(t)
  <1>1. /\ p \in Nat /\ q \in Nat /\ m \in Nat /\ n \in Nat
        /\ e.domain0 \in Nat /\ e.host_end \in Nat /\ e.query0 \in Nat /\ e.query1 \in Nat
        /\ e.fragment_start \in Nat
    BY DEF Offsets
  <1>2. /\ p + length <= q /\ q <= n
        /\ \/ e.query0 = 0 /\ e.query1 = 0
           \/ q < e.query0 /\ e.query0 <= e.query1 /\ e.query1 <= n
        /\ \/ e.fragment_start = 0
           \/ q < e.fragment_start /\ e.fragment_start <= n
    BY DEF InOrder
  <1>3. u \in Seq(Symbols) /\ IsSpliced(u, t, p, length, prefix)
    <2>1. p + length <= n
      BY <1>1, <1>2
    <2> HIDE DEF p
    <2> QED
      BY <1>1, <2>1, SplicedText DEF p
  <1>4. w \in Offsets /\ AreMoved(w, e, m, length)
    <2>1. length <= e.path1
      BY <1>1, <1>2
    <2> QED
      BY <1>1, <2>1, OffsetsMove
  <1>5. Path(u, w) = prefix \o From(Path(t, e), length) \/ q = 0
    <2> DEFINE y == q + m - length
    <2>1. y \in Nat
      <3>1. p \in Nat /\ q \in Nat /\ m \in Nat /\ p + length <= q
        BY <1>1, <1>2
      <3> HIDE DEF p, q, m
      <3> QED
        BY <3>1
    <2>2. Slice(u, p, y) = prefix \o From(Slice(t, p, q), length)
      <3>1. p \in Nat /\ q \in Nat /\ p + length <= q /\ q <= Len(t)
        BY <1>1, <1>2
      <3> HIDE DEF p, q, u
      <3>2. Slice(Spliced(t, p, length, prefix), p, q + Len(prefix) - length)
              = prefix \o From(Slice(t, p, q), length)
        BY <3>1, SplicedPath
      <3> QED
        BY <3>2 DEF u, p
    <2>3. q = 0 \/ w.path1 = y
      BY <1>1, <1>4 DEF AreMoved
    <2> QED
      BY <1>4, <2>2, <2>3, Zenon DEF Path, AreMoved
  <1> HIDE DEF u, w, p, q, m, n
  <1>6. /\ Len(u) = n + m - length
        /\ \A k \in 1 .. p : u[k] = t[k]
        /\ \A k \in 1 .. n - (p + length) : u[p + m + k] = t[p + length + k]
    BY <1>3, Zenon DEF IsSpliced, n, m
  \* What is behind the path is moved.
  <1>7. ASSUME NEW a \in Nat, NEW b \in Nat, a > q, a <= b, b <= n
        PROVE  Slice(u, a + m - length, b + m - length) = Slice(t, a, b)
    <2> DEFINE x == a + m - length
               y == b + m - length
    <2>1. x \in Nat /\ y \in x .. Len(u) /\ y - x = b - a
      BY <1>1, <1>2, <1>6, <1>7
    <2>2. b \in a .. Len(t)
      BY <1>1, <1>7 DEF n
    <2>3. ASSUME NEW k \in 1 .. b - a PROVE u[x + k] = t[a + k]
      <3>1. PICK j \in 1 .. n - (p + length) : j = a - (p + length) + k
        <4>1. a - (p + length) + k \in 1 .. n - (p + length)
          BY <1>1, <1>2, <1>7
        <4> QED
          BY <4>1
      <3>2. p + m + j = x + k /\ p + length + j = a + k
        BY <1>1, <3>1
      <3> QED
        BY <1>6, <3>2, Zenon
    <2> HIDE DEF x, y
    <2>4. IsPart(u, x, y, t, a, b)
      BY <2>1, <2>3 DEF IsPart
    <2>5. Slice(u, x, y) = Slice(t, a, b)
      BY <1>3, <2>1, <2>2, <2>4, SliceMoves
    <2> QED
      BY <2>5 DEF x, y
  <1>8. Host(u, w) = Host(t, e) \/ q = 0
    <2>1. SUFFICES ASSUME q # 0 PROVE Slice(u, e.domain0, e.host_end) = Slice(t, e.domain0, e.host_end)
      BY <1>4, Zenon DEF Host, AreMoved
    <2> DEFINE a == e.domain0
               b == e.host_end
    <2>2. a <= b /\ b <= p
      BY <2>1 DEF p, q
    <2>3. a \in Nat /\ b \in a .. Len(t) /\ b \in a .. Len(u) /\ b - a = b - a
      BY <1>1, <1>2, <1>6, <2>2 DEF n
    <2>4. ASSUME NEW k \in 1 .. b - a PROVE u[a + k] = t[a + k]
      <3>1. a + k \in 1 .. p
        <4>1. a \in Nat /\ b \in Nat /\ p \in Nat /\ b <= p
          BY <1>1, <2>2
        <4> HIDE DEF a, b
        <4> QED
          BY <4>1
      <3> QED
        BY <1>6, <3>1
    <2> HIDE DEF a, b
    <2>5. IsPart(u, a, b, t, a, b)
      BY <2>3, <2>4 DEF IsPart
    <2>6. Slice(u, a, b) = Slice(t, a, b)
      BY <1>3, <2>3, <2>5, SliceMoves
    <2> QED
      BY <2>6 DEF a, b
  <1>9. QueryOf(u, w) = QueryOf(t, e) \/ e.query0 = 0
    <2>1. SUFFICES ASSUME e.query0 # 0 PROVE QueryOf(u, w) = QueryOf(t, e)
      OBVIOUS
    <2>2. w.query0 = e.query0 + m - length /\ w.query1 = e.query1 + m - length
      BY <1>1, <1>4, <2>1 DEF AreMoved
    <2>3. Slice(u, e.query0 + m - length, e.query1 + m - length) = Slice(t, e.query0, e.query1)
      BY <1>1, <1>2, <1>7, <2>1
    <2> QED
      BY <2>2, <2>3 DEF QueryOf
  <1>10. FragmentOf(u, w) = FragmentOf(t, e) \/ e.fragment_start = 0
    <2>1. SUFFICES ASSUME e.fragment_start # 0 PROVE FragmentOf(u, w) = FragmentOf(t, e)
      OBVIOUS
    <2>2. w.fragment_start = e.fragment_start + m - length
      BY <1>1, <1>4, <2>1 DEF AreMoved
    <2>3. Slice(u, e.fragment_start + m - length, n + m - length) = Slice(t, e.fragment_start, n)
      BY <1>1, <1>2, <1>7, <2>1
    <2> QED
      BY <1>6, <2>2, <2>3, Zenon DEF FragmentOf, From, Slice, n
  <1> QED
    <2>1. q = 0 \/ (Host(u, w) = Host(t, e) /\ Path(u, w) = prefix \o From(Path(t, e), length))
      BY <1>5, <1>8, Zenon
    <2>2. e.path1 > 0 => q # 0
      BY <1>1 DEF q
    <2> QED
      BY <1>3, <1>4, <1>9, <1>10, <2>1, <2>2, Zenon DEF u, w

LEMMA ReplacementKeeps == PartsInv /\ ReplacePathPrefix => UriInv'
  <1> SUFFICES ASSUME PartsInv, ReplacePathPrefix PROVE UriInv'
    OBVIOUS
  <1>1. PICK prefix \in Prefixes, length \in 0 .. ends.path1 - ends.path0 :
          /\ full' = Slice(full, 0, ends.path0) \o prefix \o From(full, ends.path0 + length)
          /\ ends' = IF Len(prefix) > length THEN Longer(ends, Len(prefix) - length)
                     ELSE Shorter(ends, length - Len(prefix))
          /\ before' = [full |-> full, ends |-> ends, length |-> length, prefix |-> prefix]
    BY DEF ReplacePathPrefix
  <1>2. step = "parsed" /\ Readable /\ step' = "replaced" /\ UNCHANGED <<input, rest, slash>>
    BY DEF ReplacePathPrefix
  <1>3. PICK t \in Seq(Symbols), e \in Offsets : t = full /\ e = ends
    BY DEF PartsInv, UriTypes
  <1>4. prefix \in Seq(Symbols) /\ length \in Nat
    BY GivenTexts
  <1>5. /\ e.domain0 <= e.host_end /\ (e.host_end <= e.path0 \/ e.path1 = 0)
        /\ e.path0 + length <= e.path1 /\ InOrder(e, Len(t))
    <2>1. e.domain0 <= e.host_end /\ (e.host_end <= e.path0 \/ e.path1 = 0) /\ InOrder(e, Len(t))
      BY <1>2, <1>3 DEF Readable, PartsInv, HostBeforePath, PathBeforeTheRest, InOrder
    <2>2. e.path0 + length <= e.path1
      <3>1. e.path0 \in Nat /\ e.path1 \in Nat /\ length \in 0 .. e.path1 - e.path0
        BY <1>1, <1>3 DEF Offsets
      <3> QED
        BY <3>1
    <2> QED
      BY <2>1, <2>2
  <1>6. full' = Spliced(t, e.path0, length, prefix) /\ ends' = Moved(e, Len(prefix), length)
    BY <1>1, <1>3 DEF Spliced, Moved
  <1>7. /\ full' \in Seq(Symbols) /\ ends' \in Offsets
        /\ e.path1 > 0 =>
             /\ Host(full', ends') = Host(t, e)
             /\ Path(full', ends') = prefix \o From(Path(t, e), length)
             /\ QueryOf(full', ends') = QueryOf(t, e) \/ e.query0 = 0
             /\ FragmentOf(full', ends') = FragmentOf(t, e) \/ e.fragment_start = 0
    BY <1>4, <1>5, <1>6, PartsAreMoved
  <1>8. PartsInv'
    BY <1>2, <1>7 DEF PartsInv, UriTypes, NothingYet, HostBeforePath, PathBeforeTheRest, Steps
  <1>9. before'.full = t /\ before'.ends = e /\ before'.length = length /\ before'.prefix = prefix
    BY <1>1, <1>3
  <1>10. RestIsKept'
    BY <1>7, <1>9 DEF RestIsKept, Host, Path, QueryOf, FragmentOf
  <1> QED
    BY <1>8, <1>10 DEF UriInv

-----------------------------------------------------------------------------
(* Recursion along a text *)

\* The values of a recursion along t, up to the first n of it.
IsRun(f, g, first, t, n) == f[0] = first /\ \A k \in 1 .. n : f[k] = g[<<f[k - 1], t[k]>>]

LEMMA RunExists ==
  ASSUME NEW A, NEW X, NEW first \in A, NEW g \in [A \X X -> A], NEW t \in Seq(X)
  PROVE  \E f \in [0 .. Len(t) -> A] : IsRun(f, g, first, t, Len(t))
  <1> DEFINE Has(n) == \E f \in [0 .. n -> A] : IsRun(f, g, first, t, n)
             without == {n \in 0 .. Len(t) : ~Has(n)}
  <1>1. Len(t) \in Nat /\ without \in SUBSET Nat /\ Len(t) \in 0 .. Len(t)
    OBVIOUS
  <1>2. Has(0)
    <2> DEFINE f == [k \in 0 .. 0 |-> first]
    <2>1. f \in [0 .. 0 -> A] /\ IsRun(f, g, first, t, 0)
      BY DEF IsRun
    <2> QED
      BY <2>1
  <1>3. ASSUME NEW n \in 1 .. Len(t), Has(n - 1) PROVE Has(n)
    <2>1. PICK f \in [0 .. n - 1 -> A] : IsRun(f, g, first, t, n - 1)
      BY <1>3
    <2>2. n - 1 \in 0 .. n - 1 /\ t[n] \in X
      BY ElementOfSeq
    <2> DEFINE last == g[<<f[n - 1], t[n]>>]
               h == [k \in 0 .. n |-> IF k = n THEN last ELSE f[k]]
    <2>3. last \in A
      <3>1. <<f[n - 1], t[n]>> \in A \X X
        BY <2>2
      <3> QED
        BY <3>1
    <2>4. \A k \in 0 .. n : k # n => k \in 0 .. n - 1
      OBVIOUS
    <2>5. h \in [0 .. n -> A]
      <3> HIDE DEF last
      <3> QED
        BY <2>3, <2>4
    <2>6. ASSUME NEW k \in 1 .. n PROVE h[k] = g[<<h[k - 1], t[k]>>]
      <3>1. k - 1 \in 0 .. n /\ k - 1 # n /\ k \in 0 .. n
        OBVIOUS
      <3>2. h[k - 1] = f[k - 1]
        BY <3>1
      <3>3. CASE k = n
        BY <3>1, <3>2, <3>3
      <3>4. CASE k # n
        <4>1. k \in 1 .. n - 1
          BY <3>4
        <4>2. h[k] = f[k] /\ f[k] = g[<<f[k - 1], t[k]>>]
          BY <2>1, <3>1, <3>4, <4>1 DEF IsRun
        <4> QED
          BY <3>2, <4>2
      <3> QED
        BY <3>3, <3>4
    <2>7. h[0] = first
      <3>1. 0 \in 0 .. n /\ 0 # n
        OBVIOUS
      <3> QED
        BY <2>1, <3>1 DEF IsRun
    <2> HIDE DEF h
    <2>8. IsRun(h, g, first, t, n)
      BY <2>6, <2>7 DEF IsRun
    <2> QED
      BY <2>5, <2>8
  <1> HIDE DEF Has
  <1>4. without = {}
    <2> SUFFICES ASSUME without # {} PROVE FALSE
      OBVIOUS
    <2>1. PICK n \in without : \A m \in without : n <= m
      BY <1>1, LeastNatural
    <2>2. n \in 1 .. Len(t) /\ n - 1 \in 0 .. Len(t) /\ ~(n <= n - 1)
      BY <1>1, <1>2, <2>1
    <2>3. Has(n - 1)
      BY <2>1, <2>2
    <2> QED
      BY <1>3, <2>1, <2>2, <2>3
  <1>5. Has(Len(t))
    BY <1>1, <1>4
  <1> QED
    BY <1>5 DEF Has

\* Two functions that begin alike and go on alike are the same.
GoesAlike(f, h, n) == f[0] = h[0] /\ \A k \in 1 .. n : f[k - 1] = h[k - 1] => f[k] = h[k]

LEMMA StepByStep ==
  ASSUME NEW f, NEW h, NEW n \in Nat, GoesAlike(f, h, n)
  PROVE  \A k \in 0 .. n : f[k] = h[k]
  <1> DEFINE apart == {k \in 0 .. n : f[k] # h[k]}
  <1>1. apart \in SUBSET Nat
    OBVIOUS
  <1> SUFFICES ASSUME apart # {} PROVE FALSE
    OBVIOUS
  <1>2. PICK k \in apart : \A j \in apart : k <= j
    BY <1>1, LeastNatural
  <1>3. k # 0
    BY <1>2 DEF GoesAlike
  <1>4. k \in 1 .. n /\ k - 1 \in 0 .. n /\ ~(k <= k - 1)
    BY <1>2, <1>3
  <1>5. f[k - 1] = h[k - 1]
    BY <1>2, <1>4
  <1> QED
    BY <1>2, <1>4, <1>5 DEF GoesAlike

\* One more symbol makes one more step.
LEMMA RunGrows ==
  ASSUME NEW X, NEW t \in Seq(X), NEW x \in X, NEW g, NEW first, NEW f, NEW h,
         IsRun(f, g, first, t, Len(t)), IsRun(h, g, first, Append(t, x), Len(t) + 1)
  PROVE  h[Len(t) + 1] = g[<<f[Len(t)], x>>]
  <1>1. PICK u : u = Append(t, x)
    OBVIOUS
  <1>2. PICK n \in Nat : n = Len(t)
    OBVIOUS
  <1>3. u[n + 1] = x /\ \A k \in 1 .. n : u[k] = t[k]
    BY <1>1, <1>2, AppendProperties
  <1>4. IsRun(h, g, first, u, n + 1) /\ IsRun(f, g, first, t, n)
    BY <1>1, <1>2
  <1>5. GoesAlike(f, h, n)
    <2>1. f[0] = h[0]
      BY <1>4 DEF IsRun
    <2>2. ASSUME NEW k \in 1 .. n, f[k - 1] = h[k - 1] PROVE f[k] = h[k]
      <3>1. k \in 1 .. n + 1
        OBVIOUS
      <3>2. f[k] = g[<<f[k - 1], t[k]>>] /\ h[k] = g[<<h[k - 1], u[k]>>]
        BY <1>4, <3>1 DEF IsRun
      <3> QED
        BY <1>3, <2>2, <3>2
    <2> QED
      BY <2>1, <2>2 DEF GoesAlike
  <1>6. f[n] = h[n]
    <2>1. n \in 0 .. n
      OBVIOUS
    <2> QED
      BY <1>5, <2>1, StepByStep
  <1>7. h[n + 1] = g[<<h[n], u[n + 1]>>]
    <2>1. n + 1 \in 1 .. n + 1 /\ (n + 1) - 1 = n
      OBVIOUS
    <2>2. h[n + 1] = g[<<h[(n + 1) - 1], u[n + 1]>>]
      BY <1>4, <2>1 DEF IsRun
    <2> QED
      BY <2>1, <2>2
  <1> QED
    BY <1>2, <1>3, <1>6, <1>7

-----------------------------------------------------------------------------
(* Components, grown by one *)

Lists == Seq(Seq(Symbols))
SymbolStep == [p \in (Lists \ {<<>>}) \X Symbols |-> WithSymbol(p[1], p[2])]
ComponentStep == [p \in Lists \X Seq(Symbols) |-> WithComponent(p[1], p[2])]
JoinStep == [p \in Seq(Symbols) \X Seq(Symbols) |-> p[1] \o <<"/">> \o p[2]]

LEMMA SlashIsText == <<"/">> \in Seq(Symbols) /\ <<".">> \in Seq(Symbols) /\ Up \in Seq(Symbols)
  BY DEF Symbols, Up

LEMMA DecodedIsSymbol ==
  ASSUME NEW c \in Symbols
  PROVE  Decoded(c) \in Symbols
  BY DEF Decoded, Symbols

LEMMA WithSymbolIsList ==
  ASSUME NEW cs \in Lists \ {<<>>}, NEW c \in Symbols
  PROVE  WithSymbol(cs, c) \in Lists \ {<<>>}
  <1>1. cs \in Seq(Seq(Symbols)) /\ Len(cs) \in 1 .. Len(cs) /\ <<>> \in Seq(Symbols)
    BY EmptySeq DEF Lists
  <1>2. CASE c = "/"
    BY <1>1, <1>2, AppendProperties DEF WithSymbol, Lists
  <1>3. CASE c # "/"
    <2> DEFINE n == Len(cs)
               e == Append(cs[n], Decoded(c))
    <2>1. cs[n] \in Seq(Symbols)
      BY <1>1, ElementOfSeq
    <2>2. e \in Seq(Symbols)
      BY <2>1, DecodedIsSymbol, AppendProperties
    <2>3. WithSymbol(cs, c) = [cs EXCEPT ![n] = e]
      BY <1>3 DEF WithSymbol
    <2> HIDE DEF e, n
    <2>4. [cs EXCEPT ![n] = e] \in Seq(Seq(Symbols)) /\ Len([cs EXCEPT ![n] = e]) = Len(cs)
      <3>1. n \in 1 .. Len(cs)
        BY <1>1 DEF n
      <3> QED
        BY <1>1, <2>2, <3>1, ExceptSeq
    <2>5. [cs EXCEPT ![n] = e] # <<>>
      BY <1>1, <2>4, EmptySeq
    <2> QED
      BY <2>3, <2>4, <2>5 DEF Lists
  <1> QED
    BY <1>2, <1>3

LEMMA CutText ==
  ASSUME NEW S, NEW t \in Seq(S), NEW n \in 0 .. Len(t)
  PROVE  Cut(t, n) \in Seq(S) /\ Len(Cut(t, n)) = Len(t) - n
         /\ \A k \in 1 .. Len(t) - n : Cut(t, n)[k] = t[k]
  <1>1. Len(t) - n \in 0 .. Len(t) /\ Cut(t, n) = Slice(t, 0, Len(t) - n)
    BY DEF Cut, Slice
  <1> QED
    BY <1>1, StartOfText

LEMMA WithComponentIsList ==
  ASSUME NEW left \in Lists, NEW c \in Seq(Symbols)
  PROVE  WithComponent(left, c) \in Lists
  <1>1. CASE WithComponent(left, c) = left
    BY <1>1
  <1>2. CASE WithComponent(left, c) = Append(left, c)
    BY <1>2, AppendProperties DEF Lists
  <1>3. CASE left # <<>> /\ WithComponent(left, c) = Cut(left, 1)
    <2>1. left \in Seq(Seq(Symbols)) /\ 1 \in 0 .. Len(left)
      BY <1>3, EmptySeq DEF Lists
    <2> QED
      BY <1>3, <2>1, CutText DEF Lists
  <1> QED
    BY <1>1, <1>2, <1>3 DEF WithComponent

LEMMA StepsAreFunctions ==
  /\ SymbolStep \in [(Lists \ {<<>>}) \X Symbols -> Lists \ {<<>>}]
  /\ ComponentStep \in [Lists \X Seq(Symbols) -> Lists]
  /\ JoinStep \in [Seq(Symbols) \X Seq(Symbols) -> Seq(Symbols)]
  <1>1. ASSUME NEW p \in (Lists \ {<<>>}) \X Symbols PROVE WithSymbol(p[1], p[2]) \in Lists \ {<<>>}
    BY WithSymbolIsList
  <1>2. ASSUME NEW p \in Lists \X Seq(Symbols) PROVE WithComponent(p[1], p[2]) \in Lists
    BY WithComponentIsList
  <1>3. ASSUME NEW p \in Seq(Symbols) \X Seq(Symbols) PROVE p[1] \o <<"/">> \o p[2] \in Seq(Symbols)
    BY SlashIsText, ConcatProperties
  <1> QED
    BY <1>1, <1>2, <1>3 DEF SymbolStep, ComponentStep, JoinStep

LEMMA EmptyLists == <<>> \in Lists /\ <<<<>>>> \in Lists \ {<<>>} /\ <<>> \in Seq(Symbols)
  <1>1. <<>> \in Seq(Symbols) /\ <<>> \in Seq(Seq(Symbols))
    BY EmptySeq
  <1>2. <<<<>>>> \in Seq(Seq(Symbols))
    BY <1>1
  <1>3. <<<<>>>> # <<>>
    OBVIOUS
  <1> QED
    BY <1>1, <1>2, <1>3 DEF Lists

LEMMA ComponentsRun ==
  ASSUME NEW t \in Seq(Symbols)
  PROVE  \E h \in [0 .. Len(t) -> Lists \ {<<>>}] :
           IsRun(h, SymbolStep, <<<<>>>>, t, Len(t)) /\ Components(t) = h[Len(t)]
  <1> DEFINE n == Len(t)
             Is(f) == f = [k \in 0 .. n |-> IF k = 0 THEN <<<<>>>> ELSE WithSymbol(f[k - 1], t[k])]
             chosen == CHOOSE f : Is(f)
  <1>1. Components(t) = chosen[n]
    BY DEF Components
  <1>2. n \in Nat /\ <<<<>>>> \in Lists \ {<<>>}
    BY EmptyLists DEF Lists
  <1>3. PICK h \in [0 .. n -> Lists \ {<<>>}] : IsRun(h, SymbolStep, <<<<>>>>, t, n)
    <2>1. SymbolStep \in [(Lists \ {<<>>}) \X (Symbols) -> Lists \ {<<>>}]
      BY StepsAreFunctions
    <2> QED
      BY <1>2, <2>1, RunExists
  <1>4. h[0] = <<<<>>>>
    BY <1>3 DEF IsRun
  <1>5. ASSUME NEW k \in 1 .. n PROVE h[k] = WithSymbol(h[k - 1], t[k])
    <2>1. k - 1 \in 0 .. n /\ t[k] \in Symbols
      BY ElementOfSeq
    <2>2. h[k - 1] \in Lists \ {<<>>}
      BY <2>1
    <2>3. h[k] = SymbolStep[<<h[k - 1], t[k]>>]
      BY <1>3 DEF IsRun
    <2> QED
      BY <2>1, <2>2, <2>3 DEF SymbolStep
  <1>6. Is(h)
    <2>1. ASSUME NEW k \in 0 .. n PROVE h[k] = IF k = 0 THEN <<<<>>>> ELSE WithSymbol(h[k - 1], t[k])
      <3>1. CASE k = 0
        BY <1>4, <3>1
      <3>2. CASE k # 0
        <4>1. k \in 1 .. n
          BY <1>2, <3>2
        <4> QED
          BY <1>5, <3>2, <4>1
      <3> QED
        BY <3>1, <3>2
    <2> QED
      BY <1>3, <2>1
  <1>7. Is(chosen)
    <2> HIDE DEF Is
    <2> QED
      BY <1>6
  <1> HIDE DEF chosen
  <1>8. GoesAlike(chosen, h, n)
    <2>1. chosen[0] = h[0]
      <3>1. 0 \in 0 .. n
        BY <1>2
      <3> QED
        BY <1>4, <1>7, <3>1
    <2>2. ASSUME NEW k \in 1 .. n, chosen[k - 1] = h[k - 1] PROVE chosen[k] = h[k]
      <3>1. k \in 0 .. n /\ k # 0
        BY <1>2
      <3>2. chosen[k] = WithSymbol(chosen[k - 1], t[k])
        BY <1>7, <3>1
      <3> QED
        BY <1>5, <2>2, <3>2
    <2> QED
      BY <2>1, <2>2 DEF GoesAlike
  <1>9. chosen[n] = h[n]
    <2>1. n \in 0 .. n
      BY <1>2
    <2> QED
      BY <1>2, <1>8, <2>1, StepByStep
  <1> QED
    BY <1>1, <1>3, <1>9

LEMMA ComponentsGrow ==
  /\ Components(<<>>) = <<<<>>>>
  /\ \A t \in Seq(Symbols) : Components(t) \in Lists \ {<<>>}
  /\ \A t \in Seq(Symbols), c \in Symbols : Components(Append(t, c)) = WithSymbol(Components(t), c)
  <1>1. Components(<<>>) = <<<<>>>>
    <2> DEFINE t == <<>>
    <2>1. t \in Seq(Symbols) /\ Len(t) = 0
      BY EmptySeq
    <2> HIDE DEF t
    <2>2. PICK h : IsRun(h, SymbolStep, <<<<>>>>, t, Len(t)) /\ Components(t) = h[Len(t)]
      BY <2>1, ComponentsRun
    <2> QED
      BY <2>1, <2>2 DEF IsRun, t
  <1>2. ASSUME NEW t \in Seq(Symbols) PROVE Components(t) \in Lists \ {<<>>}
    <2>1. PICK h \in [0 .. Len(t) -> Lists \ {<<>>}] : Components(t) = h[Len(t)]
      BY ComponentsRun
    <2>2. Len(t) \in 0 .. Len(t)
      OBVIOUS
    <2> QED
      BY <2>1, <2>2
  <1>3. ASSUME NEW t \in Seq(Symbols), NEW c \in Symbols
        PROVE  Components(Append(t, c)) = WithSymbol(Components(t), c)
    <2>1. PICK u \in Seq(Symbols) : u = Append(t, c) /\ Len(u) = Len(t) + 1
      BY AppendProperties
    <2>2. PICK f : IsRun(f, SymbolStep, <<<<>>>>, t, Len(t)) /\ Components(t) = f[Len(t)]
      BY ComponentsRun
    <2>3. PICK h : IsRun(h, SymbolStep, <<<<>>>>, u, Len(u)) /\ Components(u) = h[Len(u)]
      BY ComponentsRun
    <2>4. IsRun(h, SymbolStep, <<<<>>>>, Append(t, c), Len(t) + 1)
      BY <2>1, <2>3
    <2>5. h[Len(t) + 1] = SymbolStep[<<f[Len(t)], c>>]
      BY <2>2, <2>4, RunGrows
    <2>6. Components(u) = SymbolStep[<<Components(t), c>>]
      BY <2>1, <2>2, <2>3, <2>5
    <2>7. Components(t) \in Lists \ {<<>>}
      BY <1>2
    <2>8. SymbolStep[<<Components(t), c>>] = WithSymbol(Components(t), c)
      BY <2>7 DEF SymbolStep
    <2> QED
      BY <2>1, <2>6, <2>8
  <1> QED
    BY <1>1, <1>2, <1>3

LEMMA ResolvedRun ==
  ASSUME NEW t \in Seq(Seq(Symbols))
  PROVE  \E h \in [0 .. Len(t) -> Lists] :
           IsRun(h, ComponentStep, <<>>, t, Len(t)) /\ Resolved(t) = h[Len(t)]
  <1> DEFINE n == Len(t)
             Is(f) == f = [k \in 0 .. n |-> IF k = 0 THEN <<>> ELSE WithComponent(f[k - 1], t[k])]
             chosen == CHOOSE f : Is(f)
  <1>1. Resolved(t) = chosen[n]
    BY DEF Resolved
  <1>2. n \in Nat /\ <<>> \in Lists
    BY EmptyLists DEF Lists
  <1>3. PICK h \in [0 .. n -> Lists] : IsRun(h, ComponentStep, <<>>, t, n)
    <2>1. ComponentStep \in [(Lists) \X (Seq(Symbols)) -> Lists]
      BY StepsAreFunctions
    <2> QED
      BY <1>2, <2>1, RunExists
  <1>4. h[0] = <<>>
    BY <1>3 DEF IsRun
  <1>5. ASSUME NEW k \in 1 .. n PROVE h[k] = WithComponent(h[k - 1], t[k])
    <2>1. k - 1 \in 0 .. n /\ t[k] \in Seq(Symbols)
      BY ElementOfSeq
    <2>2. h[k - 1] \in Lists
      BY <2>1
    <2>3. h[k] = ComponentStep[<<h[k - 1], t[k]>>]
      BY <1>3 DEF IsRun
    <2> QED
      BY <2>1, <2>2, <2>3 DEF ComponentStep
  <1>6. Is(h)
    <2>1. ASSUME NEW k \in 0 .. n PROVE h[k] = IF k = 0 THEN <<>> ELSE WithComponent(h[k - 1], t[k])
      <3>1. CASE k = 0
        BY <1>4, <3>1
      <3>2. CASE k # 0
        <4>1. k \in 1 .. n
          BY <1>2, <3>2
        <4> QED
          BY <1>5, <3>2, <4>1
      <3> QED
        BY <3>1, <3>2
    <2> QED
      BY <1>3, <2>1
  <1>7. Is(chosen)
    <2> HIDE DEF Is
    <2> QED
      BY <1>6
  <1> HIDE DEF chosen
  <1>8. GoesAlike(chosen, h, n)
    <2>1. chosen[0] = h[0]
      <3>1. 0 \in 0 .. n
        BY <1>2
      <3> QED
        BY <1>4, <1>7, <3>1
    <2>2. ASSUME NEW k \in 1 .. n, chosen[k - 1] = h[k - 1] PROVE chosen[k] = h[k]
      <3>1. k \in 0 .. n /\ k # 0
        BY <1>2
      <3>2. chosen[k] = WithComponent(chosen[k - 1], t[k])
        BY <1>7, <3>1
      <3> QED
        BY <1>5, <2>2, <3>2
    <2> QED
      BY <2>1, <2>2 DEF GoesAlike
  <1>9. chosen[n] = h[n]
    <2>1. n \in 0 .. n
      BY <1>2
    <2> QED
      BY <1>2, <1>8, <2>1, StepByStep
  <1> QED
    BY <1>1, <1>3, <1>9

LEMMA ResolvedGrow ==
  /\ Resolved(<<>>) = <<>>
  /\ \A t \in Seq(Seq(Symbols)) : Resolved(t) \in Lists
  /\ \A t \in Seq(Seq(Symbols)), c \in Seq(Symbols) : Resolved(Append(t, c)) = WithComponent(Resolved(t), c)
  <1>1. Resolved(<<>>) = <<>>
    <2> DEFINE t == <<>>
    <2>1. t \in Seq(Seq(Symbols)) /\ Len(t) = 0
      BY EmptySeq
    <2> HIDE DEF t
    <2>2. PICK h : IsRun(h, ComponentStep, <<>>, t, Len(t)) /\ Resolved(t) = h[Len(t)]
      BY <2>1, ResolvedRun
    <2> QED
      BY <2>1, <2>2 DEF IsRun, t
  <1>2. ASSUME NEW t \in Seq(Seq(Symbols)) PROVE Resolved(t) \in Lists
    <2>1. PICK h \in [0 .. Len(t) -> Lists] : Resolved(t) = h[Len(t)]
      BY ResolvedRun
    <2>2. Len(t) \in 0 .. Len(t)
      OBVIOUS
    <2> QED
      BY <2>1, <2>2
  <1>3. ASSUME NEW t \in Seq(Seq(Symbols)), NEW c \in Seq(Symbols)
        PROVE  Resolved(Append(t, c)) = WithComponent(Resolved(t), c)
    <2>1. PICK u \in Seq(Seq(Symbols)) : u = Append(t, c) /\ Len(u) = Len(t) + 1
      BY AppendProperties
    <2>2. PICK f : IsRun(f, ComponentStep, <<>>, t, Len(t)) /\ Resolved(t) = f[Len(t)]
      BY ResolvedRun
    <2>3. PICK h : IsRun(h, ComponentStep, <<>>, u, Len(u)) /\ Resolved(u) = h[Len(u)]
      BY ResolvedRun
    <2>4. IsRun(h, ComponentStep, <<>>, Append(t, c), Len(t) + 1)
      BY <2>1, <2>3
    <2>5. h[Len(t) + 1] = ComponentStep[<<f[Len(t)], c>>]
      BY <2>2, <2>4, RunGrows
    <2>6. Resolved(u) = ComponentStep[<<Resolved(t), c>>]
      BY <2>1, <2>2, <2>3, <2>5
    <2>7. Resolved(t) \in Lists
      BY <1>2
    <2>8. ComponentStep[<<Resolved(t), c>>] = WithComponent(Resolved(t), c)
      BY <2>7 DEF ComponentStep
    <2> QED
      BY <2>1, <2>6, <2>8
  <1> QED
    BY <1>1, <1>2, <1>3

LEMMA JoinedRun ==
  ASSUME NEW t \in Seq(Seq(Symbols))
  PROVE  \E h \in [0 .. Len(t) -> Seq(Symbols)] :
           IsRun(h, JoinStep, <<>>, t, Len(t)) /\ Joined(t) = h[Len(t)]
  <1> DEFINE n == Len(t)
             Is(f) == f = [k \in 0 .. n |-> IF k = 0 THEN <<>> ELSE f[k - 1] \o <<"/">> \o t[k]]
             chosen == CHOOSE f : Is(f)
  <1>1. Joined(t) = chosen[n]
    BY DEF Joined
  <1>2. n \in Nat /\ <<>> \in Seq(Symbols)
    BY EmptyLists DEF Lists
  <1>3. PICK h \in [0 .. n -> Seq(Symbols)] : IsRun(h, JoinStep, <<>>, t, n)
    <2>1. JoinStep \in [(Seq(Symbols)) \X (Seq(Symbols)) -> Seq(Symbols)]
      BY StepsAreFunctions
    <2> QED
      BY <1>2, <2>1, RunExists
  <1>4. h[0] = <<>>
    BY <1>3 DEF IsRun
  <1>5. ASSUME NEW k \in 1 .. n PROVE h[k] = h[k - 1] \o <<"/">> \o t[k]
    <2>1. k - 1 \in 0 .. n /\ t[k] \in Seq(Symbols)
      BY ElementOfSeq
    <2>2. h[k - 1] \in Seq(Symbols)
      BY <2>1
    <2>3. h[k] = JoinStep[<<h[k - 1], t[k]>>]
      BY <1>3 DEF IsRun
    <2> QED
      BY <2>1, <2>2, <2>3 DEF JoinStep
  <1>6. Is(h)
    <2>1. ASSUME NEW k \in 0 .. n PROVE h[k] = IF k = 0 THEN <<>> ELSE h[k - 1] \o <<"/">> \o t[k]
      <3>1. CASE k = 0
        BY <1>4, <3>1
      <3>2. CASE k # 0
        <4>1. k \in 1 .. n
          BY <1>2, <3>2
        <4> QED
          BY <1>5, <3>2, <4>1
      <3> QED
        BY <3>1, <3>2
    <2> QED
      BY <1>3, <2>1
  <1>7. Is(chosen)
    <2> HIDE DEF Is
    <2> QED
      BY <1>6
  <1> HIDE DEF chosen
  <1>8. GoesAlike(chosen, h, n)
    <2>1. chosen[0] = h[0]
      <3>1. 0 \in 0 .. n
        BY <1>2
      <3> QED
        BY <1>4, <1>7, <3>1
    <2>2. ASSUME NEW k \in 1 .. n, chosen[k - 1] = h[k - 1] PROVE chosen[k] = h[k]
      <3>1. k \in 0 .. n /\ k # 0
        BY <1>2
      <3>2. chosen[k] = chosen[k - 1] \o <<"/">> \o t[k]
        BY <1>7, <3>1
      <3> QED
        BY <1>5, <2>2, <3>2
    <2> QED
      BY <2>1, <2>2 DEF GoesAlike
  <1>9. chosen[n] = h[n]
    <2>1. n \in 0 .. n
      BY <1>2
    <2> QED
      BY <1>2, <1>8, <2>1, StepByStep
  <1> QED
    BY <1>1, <1>3, <1>9

LEMMA JoinedGrow ==
  /\ Joined(<<>>) = <<>>
  /\ \A t \in Seq(Seq(Symbols)) : Joined(t) \in Seq(Symbols)
  /\ \A t \in Seq(Seq(Symbols)), c \in Seq(Symbols) : Joined(Append(t, c)) = Joined(t) \o <<"/">> \o c
  <1>1. Joined(<<>>) = <<>>
    <2> DEFINE t == <<>>
    <2>1. t \in Seq(Seq(Symbols)) /\ Len(t) = 0
      BY EmptySeq
    <2> HIDE DEF t
    <2>2. PICK h : IsRun(h, JoinStep, <<>>, t, Len(t)) /\ Joined(t) = h[Len(t)]
      BY <2>1, JoinedRun
    <2> QED
      BY <2>1, <2>2 DEF IsRun, t
  <1>2. ASSUME NEW t \in Seq(Seq(Symbols)) PROVE Joined(t) \in Seq(Symbols)
    <2>1. PICK h \in [0 .. Len(t) -> Seq(Symbols)] : Joined(t) = h[Len(t)]
      BY JoinedRun
    <2>2. Len(t) \in 0 .. Len(t)
      OBVIOUS
    <2> QED
      BY <2>1, <2>2
  <1>3. ASSUME NEW t \in Seq(Seq(Symbols)), NEW c \in Seq(Symbols)
        PROVE  Joined(Append(t, c)) = Joined(t) \o <<"/">> \o c
    <2>1. PICK u \in Seq(Seq(Symbols)) : u = Append(t, c) /\ Len(u) = Len(t) + 1
      BY AppendProperties
    <2>2. PICK f : IsRun(f, JoinStep, <<>>, t, Len(t)) /\ Joined(t) = f[Len(t)]
      BY JoinedRun
    <2>3. PICK h : IsRun(h, JoinStep, <<>>, u, Len(u)) /\ Joined(u) = h[Len(u)]
      BY JoinedRun
    <2>4. IsRun(h, JoinStep, <<>>, Append(t, c), Len(t) + 1)
      BY <2>1, <2>3
    <2>5. h[Len(t) + 1] = JoinStep[<<f[Len(t)], c>>]
      BY <2>2, <2>4, RunGrows
    <2>6. Joined(u) = JoinStep[<<Joined(t), c>>]
      BY <2>1, <2>2, <2>3, <2>5
    <2>7. Joined(t) \in Seq(Symbols)
      BY <1>2
    <2>8. JoinStep[<<Joined(t), c>>] = Joined(t) \o <<"/">> \o c
      BY <2>7 DEF JoinStep
    <2> QED
      BY <2>1, <2>6, <2>8
  <1> QED
    BY <1>1, <1>2, <1>3

-----------------------------------------------------------------------------
(* compress_last_component *)

LEMMA ConcatCuts ==
  ASSUME NEW S, NEW a \in Seq(S), NEW b \in Seq(S)
  PROVE  /\ From(a \o b, Len(a)) = b
         /\ Slice(a \o b, 0, Len(a)) = a
         /\ Cut(a \o b, Len(b)) = a
  <1>1. PICK t \in Seq(S) : t = a \o b
    BY ConcatProperties
  <1>2. /\ Len(t) = Len(a) + Len(b)
        /\ \A k \in 1 .. Len(a) + Len(b) : t[k] = IF k <= Len(a) THEN a[k] ELSE b[k - Len(a)]
    BY <1>1, ConcatProperties
  <1>3. PICK m \in Nat, n \in Nat : m = Len(a) /\ n = Len(b)
    OBVIOUS
  <1>4. Len(t) = m + n /\ (\A k \in 1 .. m : t[k] = a[k]) /\ \A k \in 1 .. n : t[m + k] = b[k]
    <2>1. ASSUME NEW k \in 1 .. m PROVE t[k] = a[k]
      BY <1>2, <1>3
    <2>2. ASSUME NEW k \in 1 .. n PROVE t[m + k] = b[k]
      <3>1. m + k \in 1 .. m + n /\ ~(m + k <= m) /\ (m + k) - m = k
        OBVIOUS
      <3> QED
        BY <1>2, <1>3, <3>1
    <2> QED
      BY <1>2, <1>3, <2>1, <2>2
  <1>5. From(t, m) = b
    <2>1. m \in 0 .. Len(t) /\ Len(t) - m = n
      BY <1>4
    <2>2. From(t, m) \in Seq(S) /\ Len(From(t, m)) = n /\ \A k \in 1 .. n : From(t, m)[k] = t[m + k]
      BY <2>1, FromText
    <2> QED
      BY <1>3, <1>4, <2>2, SeqEqual
  <1>6. Slice(t, 0, m) = a
    <2>1. m \in 0 .. Len(t)
      BY <1>4
    <2>2. Slice(t, 0, m) \in Seq(S) /\ Len(Slice(t, 0, m)) = m /\ \A k \in 1 .. m : Slice(t, 0, m)[k] = t[k]
      BY <2>1, StartOfText
    <2> QED
      BY <1>3, <1>4, <2>2, SeqEqual
  <1>7. Cut(t, n) = Slice(t, 0, m)
    <2>1. Len(t) - n = m /\ 0 + 1 = 1
      BY <1>4
    <2> QED
      BY <2>1 DEF Cut, Slice
  <1> QED
    BY <1>1, <1>3, <1>5, <1>6, <1>7

NoSlash(t) == \A k \in 1 .. Len(t) : t[k] # "/"
NoSlashes(left) == \A k \in 1 .. Len(left) : NoSlash(left[k])

LEMMA LastSlashOf ==
  ASSUME NEW S, "/" \in S, NEW a \in Seq(S), NEW r \in Seq(S), NoSlash(r)
  PROVE  LastSlash(a \o <<"/">> \o r) = Len(a)
  <1>1. <<"/">> \in Seq(S) /\ Len(<<"/">>) = 1
    OBVIOUS
  <1>2. PICK t \in Seq(S) : t = a \o <<"/">> \o r /\ IsConcatOfThree(t, a, <<"/">>, r)
    BY <1>1, ConcatOfThree
  <1>3. PICK m \in Nat, n \in Nat : m = Len(a) /\ n = Len(r)
    OBVIOUS
  <1>4. Len(t) = m + 1 + n /\ t[m + 1] = "/" /\ \A k \in 1 .. n : t[m + 1 + k] = r[k]
    <2>1. 1 \in 1 .. Len(<<"/">>) /\ <<"/">>[1] = "/"
      OBVIOUS
    <2>2. /\ Len(t) = Len(a) + Len(<<"/">>) + Len(r)
          /\ \A k \in 1 .. Len(<<"/">>) : t[Len(a) + k] = <<"/">>[k]
          /\ \A k \in 1 .. Len(r) : t[Len(a) + Len(<<"/">>) + k] = r[k]
      BY <1>2 DEF IsConcatOfThree
    <2>3. t[m + 1] = "/"
      BY <1>3, <2>1, <2>2
    <2> QED
      BY <1>1, <1>3, <2>2, <2>3
  <1> DEFINE places == {k \in 1 .. Len(t) : t[k] = "/"}
             place == CHOOSE k \in places : \A j \in places : j <= k
  <1>5. m + 1 \in places
    BY <1>4
  <1>6. \A j \in places : j <= m + 1
    <2> SUFFICES ASSUME NEW j \in 1 .. m + 1 + n, t[j] = "/", j > m + 1 PROVE FALSE
      BY <1>4
    <2>1. PICK k \in 1 .. n : j = m + 1 + k
      <3>1. j - (m + 1) \in 1 .. n /\ j = m + 1 + (j - (m + 1))
        OBVIOUS
      <3> QED
        BY <3>1
    <2> QED
      BY <1>3, <1>4, <2>1 DEF NoSlash
  <1>7. LastSlash(t) = place - 1
    BY <1>5 DEF LastSlash
  <1>8. places \subseteq Nat
    OBVIOUS
  <1> HIDE DEF places
  <1>9. place \in places /\ \A j \in places : j <= place
    BY <1>5, <1>6
  <1> HIDE DEF place
  <1>10. place = m + 1
    BY <1>5, <1>6, <1>8, <1>9
  <1> QED
    BY <1>2, <1>3, <1>7, <1>10

LEMMA SlashDots == <<"/">> \o <<".">> = <<"/", ".">> /\ <<"/">> \o Up = <<"/", ".", ".">>
  <1> DEFINE S == {"/", "."}
  <1>1. <<"/">> \in Seq(S) /\ <<".">> \in Seq(S) /\ <<".", ".">> \in Seq(S)
        /\ <<"/", ".">> \in Seq(S) /\ <<"/", ".", ".">> \in Seq(S)
    OBVIOUS
  <1> HIDE DEF S
  <1>2. PICK t : t = <<"/">> \o <<".">>
    OBVIOUS
  <1>3. t \in Seq(S) /\ Len(t) = 2 /\ \A k \in 1 .. 2 : t[k] = IF k <= 1 THEN <<"/">>[k] ELSE <<".">>[k - 1]
    BY <1>1, <1>2, ConcatProperties
  <1>4. t[1] = "/" /\ t[2] = "."
    BY <1>3
  <1>5. t = <<"/", ".">>
    BY <1>1, <1>3, <1>4
  <1>6. PICK u : u = <<"/">> \o <<".", ".">>
    OBVIOUS
  <1>7. u \in Seq(S) /\ Len(u) = 3 /\ \A k \in 1 .. 3 : u[k] = IF k <= 1 THEN <<"/">>[k] ELSE <<".", ".">>[k - 1]
    BY <1>1, <1>6, ConcatProperties
  <1>8. u[1] = "/" /\ u[2] = "." /\ u[3] = "."
    BY <1>7
  <1>9. u = <<"/", ".", ".">>
    BY <1>1, <1>7, <1>8
  <1> QED
    BY <1>2, <1>5, <1>6, <1>9 DEF Up

IsRegrouped(s, t, u) == (s \o t) \o u = s \o (t \o u)

LEMMA Regroups ==
  ASSUME NEW s \in Seq(Symbols), NEW t \in Seq(Symbols), NEW u \in Seq(Symbols)
  PROVE  IsRegrouped(s, t, u)
  BY ConcatAssociative DEF IsRegrouped

\* What compress_last_component makes of a text whose last component is c, behind a
\* head and the components that are left.
LEMMA Compresses ==
  ASSUME NEW head \in Seq(Symbols), NEW left \in Lists, NEW c \in Seq(Symbols),
         NoSlashes(left), c # <<>>, c = Up /\ left = <<>> => head = <<>>
  PROVE  Compressed((head \o Joined(left)) \o (<<"/">> \o c), Len(head \o Joined(left))).text
           = head \o Joined(WithComponent(left, c))
  <1>1. Joined(left) \in Seq(Symbols)
    BY JoinedGrow DEF Lists
  <1>2. PICK a \in Seq(Symbols) : a = head \o Joined(left)
    BY <1>1, ConcatProperties
  <1>3. PICK b \in Seq(Symbols) : b = <<"/">> \o c
    BY SlashIsText, ConcatProperties
  <1>4. PICK t \in Seq(Symbols) : t = a \o b
    BY ConcatProperties
  <1> DEFINE made == Compressed(t, Len(a)).text
  <1>5. SUFFICES made = head \o Joined(WithComponent(left, c))
    BY <1>2, <1>3, <1>4
  <1>6. From(t, Len(a)) = b /\ Cut(t, Len(b)) = a
    BY <1>4, ConcatCuts
  <1>7. (b = <<"/", ".">>) = (c = <<".">>) /\ (b = <<"/", ".", ".">>) = (c = Up)
    <2>1. Tail(b) = c
      <3>1. From(b, 1) = c /\ Len(<<"/">>) = 1
        BY <1>3, SlashIsText, ConcatCuts
      <3>2. b # <<>>
        BY <1>3, SlashIsText, ConcatEqualIffEmpty
      <3>3. Tail(b) = SubSeq(b, 2, Len(b))
        BY <3>2, TailIsSubSeq
      <3>4. From(b, 1) = SubSeq(b, 2, Len(b))
        BY DEF From
      <3> QED
        BY <3>1, <3>3, <3>4
    <2>2. (b = <<"/", ".">>) => c = <<".">>
      BY <2>1
    <2>3. (b = <<"/", ".", ".">>) => c = Up
      BY <2>1 DEF Up
    <2>4. (c = <<".">>) => b = <<"/", ".">>
      BY <1>3, SlashDots
    <2>5. (c = Up) => b = <<"/", ".", ".">>
      BY <1>3, SlashDots
    <2> QED
      BY <2>2, <2>3, <2>4, <2>5
  \* Without a change the component is one more.
  <1>8. t = head \o Joined(Append(left, c))
    <2>1. PICK s0 \in Seq(Symbols), j \in Seq(Symbols) : s0 = <<"/">> /\ j = Joined(left)
      BY SlashIsText, <1>1
    <2>2. Joined(Append(left, c)) = (j \o s0) \o c
      BY <2>1, JoinedGrow DEF Lists
    <2>3. IsRegrouped(j, s0, c) /\ IsRegrouped(head, j, b)
      BY Regroups, Zenon
    <2> QED
      BY <1>2, <1>3, <1>4, <2>1, <2>2, <2>3, Zenon DEF IsRegrouped
  <1>9. CASE c = <<".">>
    <2>1. b = <<"/", ".">> /\ Len(b) = 2
      BY <1>7, <1>9
    <2>2. made = a
      BY <1>6, <2>1 DEF Compressed
    <2>3. WithComponent(left, c) = left
      BY <1>9 DEF WithComponent
    <2> QED
      BY <1>2, <2>2, <2>3
  <1>10. CASE c = Up
    <2>1. b = <<"/", ".", ".">> /\ Len(b) = 3 /\ b # <<"/", ".">>
      BY <1>7, <1>10 DEF Up
    <2>2. made = IF From(a, LastSlash(a)) # <<"/", ".", ".">> /\ a # <<>> THEN Slice(a, 0, LastSlash(a)) ELSE t
      <3>1. Cut(t, 3) = a
        BY <1>6, <2>1
      <3> QED
        BY <1>6, <2>1, <3>1 DEF Compressed
    <2>3. c # <<>> /\ c # <<".">>
      BY <1>10 DEF Up
    <2>4. CASE left = <<>>
      <3>1. a = <<>>
        BY <1>2, <2>4, <1>10, JoinedGrow, ConcatEmptySeq, EmptySeq
      <3>2. made = t
        BY <2>2, <3>1
      <3>3. WithComponent(left, c) = Append(left, c)
        BY <2>3, <2>4 DEF WithComponent
      <3> QED
        BY <1>8, <3>2, <3>3
    <2>5. CASE left # <<>>
      <3>1. PICK before0 \in Lists, r \in Seq(Symbols) : left = Append(before0, r)
        BY <2>5, SequenceEmptyOrAppend DEF Lists
      <3>2. Len(left) = Len(before0) + 1 /\ left[Len(left)] = r /\ Len(left) \in 1 .. Len(left)
        BY <3>1, AppendProperties DEF Lists
      <3>3. NoSlash(r)
        BY <3>2 DEF NoSlashes
      <3>4. PICK a0 \in Seq(Symbols) : a0 = head \o Joined(before0)
        BY JoinedGrow, ConcatProperties DEF Lists
      <3>5. a = a0 \o <<"/">> \o r /\ a = a0 \o (<<"/">> \o r)
        <4>1. PICK s0 \in Seq(Symbols), j0 \in Seq(Symbols) : s0 = <<"/">> /\ j0 = Joined(before0)
          BY SlashIsText, JoinedGrow DEF Lists
        <4>2. PICK x \in Seq(Symbols) : x = s0 \o r
          BY ConcatProperties
        <4>3. Joined(left) = (j0 \o s0) \o r
          BY <3>1, <4>1, JoinedGrow DEF Lists
        <4>4. IsRegrouped(j0, s0, r) /\ IsRegrouped(head, j0, x) /\ IsRegrouped(a0, s0, r)
          BY Regroups, Zenon
        <4>5. a = a0 \o x
          BY <1>2, <3>4, <4>1, <4>2, <4>3, <4>4, Zenon DEF IsRegrouped
        <4>6. (a0 \o s0) \o r = a0 \o x
          BY <4>2, <4>4, Zenon DEF IsRegrouped
        <4> QED
          BY <4>1, <4>2, <4>5, <4>6, Zenon
      <3>6. PICK b0 \in Seq(Symbols) : b0 = <<"/">> \o r
        BY SlashIsText, ConcatProperties
      <3>7. LastSlash(a) = Len(a0)
        BY <3>3, <3>5, LastSlashOf DEF Symbols
      <3>8. From(a, Len(a0)) = b0 /\ Slice(a, 0, Len(a0)) = a0
        <4>1. a = a0 \o b0
          BY <3>5, <3>6
        <4> QED
          BY <4>1, ConcatCuts
      <3>9. a # <<>>
        <4>1. b0 # <<>>
          BY <3>6, SlashIsText, ConcatEqualIffEmpty
        <4> QED
          BY <3>5, <3>6, <4>1, ConcatEqualIffEmpty
      <3>10. (b0 = <<"/", ".", ".">>) = (r = Up)
        <4>1. From(b0, 1) = r /\ Len(<<"/">>) = 1
          BY <3>6, SlashIsText, ConcatCuts
        <4>2. (b0 = <<"/", ".", ".">>) => r = Up
          <5>1. b0 # <<>>
            BY <3>6, SlashIsText, ConcatEqualIffEmpty
          <5>2. Tail(b0) = r
            BY <3>6, <4>1, <5>1, TailIsSubSeq, SMTT(60) DEF From
          <5> QED
            BY <5>2 DEF Up
        <4>3. (r = Up) => b0 = <<"/", ".", ".">>
          BY <3>6, SlashDots
        <4> QED
          BY <4>2, <4>3
      <3>11. CASE r = Up
        <4>1. made = t
          BY <2>2, <3>7, <3>8, <3>10, <3>11
        <4>2. WithComponent(left, c) = Append(left, c)
          BY <2>3, <3>2, <3>11 DEF WithComponent
        <4> QED
          BY <1>8, <4>1, <4>2
      <3>12. CASE r # Up
        <4>1. made = a0
          BY <2>2, <3>7, <3>8, <3>9, <3>10, <3>12
        <4>2. WithComponent(left, c) = Cut(left, 1)
          BY <1>10, <2>3, <2>5, <3>2, <3>12 DEF WithComponent
        <4>3. Cut(left, 1) = before0
          <5>1. left = before0 \o <<r>> /\ <<r>> \in Seq(Seq(Symbols)) /\ Len(<<r>>) = 1
            BY <3>1, AppendIsConcat DEF Lists
          <5>2. before0 \in Seq(Seq(Symbols))
            BY DEF Lists
          <5>3. PICK x \in Seq(Seq(Symbols)) : x = <<r>>
            BY <5>1
          <5>4. Cut(before0 \o x, Len(x)) = before0
            BY <5>2, ConcatCuts
          <5> QED
            BY <5>1, <5>3, <5>4
        <4> QED
          BY <3>4, <4>1, <4>2, <4>3
      <3> QED
        BY <3>11, <3>12
    <2> QED
      BY <2>4, <2>5
  <1>11. CASE c # <<".">> /\ c # Up
    <2>1. made = t
      BY <1>6, <1>7, <1>11 DEF Compressed
    <2>2. WithComponent(left, c) = Append(left, c)
      BY <1>11 DEF WithComponent
    <2> QED
      BY <1>8, <2>1, <2>2
  <1> QED
    BY <1>9, <1>10, <1>11

LEMMA NoSlashesStay ==
  ASSUME NEW left \in Lists, NEW c \in Seq(Symbols), NoSlashes(left), NoSlash(c)
  PROVE  NoSlashes(WithComponent(left, c))
  <1>1. left \in Seq(Seq(Symbols))
    BY DEF Lists
  <1>2. CASE WithComponent(left, c) = left
    BY <1>2
  <1>3. CASE WithComponent(left, c) = Append(left, c)
    <2>1. PICK u : u = Append(left, c)
      OBVIOUS
    <2>2. Len(u) = Len(left) + 1 /\ (\A k \in 1 .. Len(left) : u[k] = left[k]) /\ u[Len(left) + 1] = c
      BY <1>1, <2>1, AppendProperties
    <2>3. \A k \in 1 .. Len(left) + 1 : k \in 1 .. Len(left) \/ k = Len(left) + 1
      BY <1>1
    <2> QED
      BY <1>3, <2>1, <2>2, <2>3 DEF NoSlashes
  <1>4. CASE left # <<>> /\ WithComponent(left, c) = Cut(left, 1)
    <2>1. 1 \in 0 .. Len(left)
      BY <1>1, <1>4, EmptySeq
    <2>2. PICK u : u = Cut(left, 1)
      OBVIOUS
    <2>3. Len(u) = Len(left) - 1 /\ \A k \in 1 .. Len(left) - 1 : u[k] = left[k]
      BY <1>1, <2>1, <2>2, CutText
    <2>4. \A k \in 1 .. Len(left) - 1 : k \in 1 .. Len(left)
      BY <1>1
    <2> QED
      BY <1>4, <2>2, <2>3, <2>4 DEF NoSlashes
  <1> QED
    BY <1>2, <1>3, <1>4 DEF WithComponent

LEMMA UpsStay ==
  ASSUME NEW left \in Lists, NEW c \in Seq(Symbols), Ups(left)
  PROVE  Ups(WithComponent(left, c))
  <1>1. left \in Seq(Seq(Symbols))
    BY DEF Lists
  <1>2. PICK k \in 1 .. Len(left) : left[k] = Up
    BY DEF Ups
  <1>3. CASE WithComponent(left, c) = left
    BY <1>3
  <1>4. CASE WithComponent(left, c) = Append(left, c)
    <2>1. PICK u : u = Append(left, c)
      OBVIOUS
    <2>2. Len(u) = Len(left) + 1 /\ u[k] = left[k]
      BY <1>1, <2>1, AppendProperties
    <2>3. k \in 1 .. Len(u)
      BY <1>1, <2>2
    <2> QED
      BY <1>2, <1>4, <2>1, <2>2, <2>3 DEF Ups
  <1>5. CASE left # <<>> /\ left[Len(left)] # Up /\ WithComponent(left, c) = Cut(left, 1)
    <2>1. 1 \in 0 .. Len(left) /\ k # Len(left)
      BY <1>1, <1>2, <1>5, EmptySeq
    <2>2. PICK u : u = Cut(left, 1)
      OBVIOUS
    <2>3. Len(u) = Len(left) - 1 /\ \A j \in 1 .. Len(left) - 1 : u[j] = left[j]
      BY <1>1, <2>1, <2>2, CutText
    <2>4. k \in 1 .. Len(left) - 1
      BY <1>1, <1>2, <2>1
    <2> QED
      BY <1>2, <1>5, <2>2, <2>3, <2>4 DEF Ups
  <1> QED
    BY <1>3, <1>4, <1>5 DEF WithComponent

\* Two dots that find nothing to take away are left.
LEMMA UpClimbs == Ups(WithComponent(<<>>, Up))
  <1>1. WithComponent(<<>>, Up) = <<Up>>
    BY DEF WithComponent, Up
  <1> QED
    BY <1>1 DEF Ups

-----------------------------------------------------------------------------
(* uri_decode, one symbol at a time *)

LEMMA FirstAndOthers ==
  ASSUME NEW cs \in Lists \ {<<>>}
  PROVE  cs[1] \in Seq(Symbols) /\ Tail(cs) \in Lists /\ Len(Tail(cs)) = Len(cs) - 1
         /\ \A k \in 1 .. Len(cs) - 1 : Tail(cs)[k] = cs[k + 1]
  <1>1. cs \in Seq(Seq(Symbols)) /\ cs # <<>> /\ 1 \in 1 .. Len(cs)
    BY EmptySeq DEF Lists
  <1>2. Tail(cs) \in Seq(Seq(Symbols)) /\ Len(Tail(cs)) = Len(cs) - 1
        /\ \A k \in 1 .. Len(Tail(cs)) : Tail(cs)[k] = cs[k + 1]
    BY <1>1, HeadTailProperties
  <1> QED
    BY <1>1, <1>2, ElementOfSeq DEF Lists

LEMMA SlashBegins ==
  ASSUME NEW cs \in Lists \ {<<>>}
  PROVE  WithSymbol(cs, "/")[1] = cs[1] /\ Tail(WithSymbol(cs, "/")) = Append(Tail(cs), <<>>)
  <1>1. cs \in Seq(Seq(Symbols)) /\ cs # <<>> /\ 1 \in 1 .. Len(cs) /\ <<>> \in Seq(Symbols)
    BY EmptySeq DEF Lists
  <1>2. Append(cs, <<>>)[1] = cs[1]
    BY <1>1, AppendProperties
  <1>3. Tail(Append(cs, <<>>)) = Append(Tail(cs), <<>>)
    BY <1>1, HeadTailAppend
  <1> QED
    BY <1>2, <1>3 DEF WithSymbol

LEMMA SymbolGrowsFirst ==
  ASSUME NEW cs \in Lists \ {<<>>}, NEW c \in Symbols, c # "/", Tail(cs) = <<>>
  PROVE  /\ WithSymbol(cs, c)[1] = Append(cs[1], Decoded(c))
         /\ Tail(WithSymbol(cs, c)) = <<>>
  <1>1. cs \in Seq(Seq(Symbols)) /\ Len(cs) = 1 /\ cs[1] \in Seq(Symbols)
    <2>1. cs \in Seq(Seq(Symbols)) /\ Len(<<>>) = 0
      BY EmptySeq DEF Lists
    <2>2. PICK tail : tail = Tail(cs) /\ cs[1] \in Seq(Symbols) /\ Len(tail) = Len(cs) - 1
      BY FirstAndOthers
    <2>3. Len(tail) = 0
      BY <2>1, <2>2
    <2> QED
      BY <2>1, <2>2, <2>3
  <1>2. PICK e \in Seq(Symbols) : e = Append(cs[1], Decoded(c))
    BY <1>1, DecodedIsSymbol, AppendProperties
  <1>3. PICK w : w = [cs EXCEPT ![1] = e]
    OBVIOUS
  <1>4. WithSymbol(cs, c) = w
    BY <1>1, <1>2, <1>3 DEF WithSymbol
  <1>5. w \in Seq(Seq(Symbols)) /\ Len(w) = 1 /\ w[1] = e
    <2>1. 1 \in 1 .. Len(cs)
      BY <1>1
    <2> QED
      BY <1>1, <1>3, <2>1, ExceptSeq
  <1>6. w # <<>>
    <2> SUFFICES ASSUME w = <<>> PROVE FALSE
      OBVIOUS
    <2>1. Len(w) = 0
      BY EmptySeq
    <2> QED
      BY <1>5, <2>1
  <1>7. Tail(w) \in Seq(Seq(Symbols)) /\ Len(Tail(w)) = 0
    BY <1>5, <1>6, HeadTailProperties
  <1>8. Tail(w) = <<>>
    BY <1>7, EmptySeq
  <1> QED
    BY <1>2, <1>4, <1>5, <1>8

LEMMA SymbolGrowsLast ==
  ASSUME NEW cs \in Lists \ {<<>>}, NEW c \in Symbols, c # "/",
         NEW others \in Lists, NEW last \in Seq(Symbols), Tail(cs) = Append(others, last)
  PROVE  /\ WithSymbol(cs, c)[1] = cs[1]
         /\ Tail(WithSymbol(cs, c)) = Append(others, Append(last, Decoded(c)))
  <1>1. cs \in Seq(Seq(Symbols)) /\ others \in Seq(Seq(Symbols))
    BY DEF Lists
  <1>2. PICK m \in Nat : m = Len(others)
    BY <1>1
  <1>3. PICK a : a = Append(others, last)
    OBVIOUS
  <1>4. Len(a) = m + 1 /\ (\A k \in 1 .. m : a[k] = others[k]) /\ a[m + 1] = last
    BY <1>1, <1>2, <1>3, AppendProperties
  <1>5. Len(cs) = m + 2 /\ \A k \in 1 .. m + 1 : cs[k + 1] = a[k]
    <2>1. Len(a) = Len(cs) - 1 /\ \A k \in 1 .. Len(cs) - 1 : a[k] = cs[k + 1]
      BY <1>3, FirstAndOthers
    <2>2. Len(cs) = m + 2 /\ Len(cs) - 1 = m + 1
      BY <1>1, <1>4, <2>1
    <2> QED
      BY <2>1, <2>2
  <1>6. cs[m + 2] = last
    <2>1. m + 1 \in 1 .. m + 1 /\ (m + 1) + 1 = m + 2
      OBVIOUS
    <2> QED
      BY <1>4, <1>5, <2>1
  <1>7. PICK e \in Seq(Symbols) : e = Append(last, Decoded(c))
    BY DecodedIsSymbol, AppendProperties
  <1>8. PICK w : w = [cs EXCEPT ![m + 2] = e]
    OBVIOUS
  <1>9. WithSymbol(cs, c) = w
    BY <1>5, <1>6, <1>7, <1>8 DEF WithSymbol
  <1>10. w \in Seq(Seq(Symbols)) /\ Len(w) = m + 2
         /\ \A j \in 1 .. m + 2 : w[j] = IF j = m + 2 THEN e ELSE cs[j]
    <2>1. m + 2 \in 1 .. Len(cs)
      BY <1>5
    <2> QED
      BY <1>1, <1>5, <1>8, <2>1, ExceptSeq
  <1>11. w # <<>>
    BY <1>10, EmptySeq
  <1>12. w[1] = cs[1]
    <2>1. 1 \in 1 .. m + 2 /\ 1 # m + 2
      OBVIOUS
    <2> QED
      BY <1>10, <2>1
  <1>13. Tail(w) \in Seq(Seq(Symbols)) /\ Len(Tail(w)) = m + 1 /\ \A k \in 1 .. m + 1 : Tail(w)[k] = w[k + 1]
    BY <1>10, <1>11, HeadTailProperties
  <1>14. PICK b : b = Append(others, e)
    OBVIOUS
  <1>15. b \in Seq(Seq(Symbols)) /\ Len(b) = m + 1 /\ (\A k \in 1 .. m : b[k] = others[k]) /\ b[m + 1] = e
    BY <1>1, <1>2, <1>14, AppendProperties
  <1>16. ASSUME NEW k \in 1 .. m + 1 PROVE Tail(w)[k] = b[k]
    <2>1. k + 1 \in 1 .. m + 2
      OBVIOUS
    <2>2. CASE k = m + 1
      <3>1. k + 1 = m + 2
        BY <2>2
      <3> QED
        BY <1>10, <1>13, <1>15, <2>1, <2>2, <3>1
    <2>3. CASE k # m + 1
      <3>1. k + 1 # m + 2 /\ k \in 1 .. m
        BY <2>3
      <3>2. w[k + 1] = cs[k + 1] /\ cs[k + 1] = a[k] /\ a[k] = others[k] /\ b[k] = others[k]
        BY <1>4, <1>5, <1>10, <1>15, <2>1, <3>1
      <3> QED
        BY <1>13, <3>2
    <2> QED
      BY <2>2, <2>3
  <1>17. Tail(w) = b
    <2>1. PICK v \in Seq(Seq(Symbols)) : v = Tail(w)
      BY <1>13
    <2>2. Len(v) = Len(b) /\ \A k \in 1 .. Len(v) : v[k] = b[k]
      BY <1>13, <1>15, <1>16, <2>1
    <2>3. v = b
      BY <1>15, <2>2, SeqEqual
    <2> QED
      BY <2>1, <2>3
  <1> QED
    BY <1>7, <1>9, <1>12, <1>14, <1>17

EndsInSlash(t) == t # <<>> /\ t[Len(t)] = "/"

\* The text f and the place s of its last slash, behind a start and as much of a path.
IsInFirst(start, done, f, s) ==
  LET cs == Components(done) IN
  /\ Tail(cs) = <<>> /\ s = 0 /\ f = start \o cs[1]
  /\ NoSlash(cs[1]) /\ ~EndsInSlash(done)
  /\ (cs[1] = <<>> <=> done = <<>>) /\ (start = <<>> => cs[1] = <<>>)

IsBehind(start, done, others, last, f, s) ==
  LET cs == Components(done)
      before0 == (start \o cs[1]) \o Joined(Resolved(others))
  IN
  /\ Tail(cs) = Append(others, last)
  /\ s = Len(before0) /\ f = before0 \o (<<"/">> \o last)
  /\ NoSlashes(Resolved(others)) /\ NoSlash(last)
  /\ EndsInSlash(done) <=> last = <<>>
  /\ start = <<>> => cs[1] = <<>>

IsMeant(start, done, f, s) ==
  \/ IsInFirst(start, done, f, s)
  \/ \E others \in Lists, last \in Seq(Symbols) : IsBehind(start, done, others, last, f, s)

\* A component that is complete was taken away from before the path.
HasClimbed(start, done) ==
  /\ start # <<>>
  /\ \E others \in Lists, last \in Seq(Symbols) :
       Tail(Components(done)) = Append(others, last) /\ Ups(Resolved(others))

LEMMA ClimbingGoesOn ==
  ASSUME NEW start, NEW done \in Seq(Symbols), NEW c \in Symbols, HasClimbed(start, done)
  PROVE  HasClimbed(start, Append(done, c)) /\ Ups(Resolved(Tail(Components(done))))
  <1>1. PICK others \in Lists, last \in Seq(Symbols) :
          Tail(Components(done)) = Append(others, last) /\ Ups(Resolved(others))
    BY DEF HasClimbed
  <1>2. PICK cs \in Lists \ {<<>>} : cs = Components(done) /\ Components(Append(done, c)) = WithSymbol(cs, c)
    BY ComponentsGrow
  <1>3. Resolved(Append(others, last)) = WithComponent(Resolved(others), last) /\ Resolved(others) \in Lists
    BY ResolvedGrow DEF Lists
  <1>4. Ups(Resolved(Append(others, last)))
    BY <1>1, <1>3, UpsStay
  <1>5. CASE c = "/"
    <2>1. Tail(WithSymbol(cs, c)) = Append(Append(others, last), <<>>)
      BY <1>1, <1>2, <1>5, SlashBegins
    <2>2. Append(others, last) \in Lists /\ <<>> \in Seq(Symbols)
      BY EmptySeq, AppendProperties DEF Lists
    <2>3. HasClimbed(start, Append(done, c))
      BY <1>2, <1>4, <2>1, <2>2 DEF HasClimbed
    <2> QED
      BY <1>1, <1>4, <2>3
  <1>6. CASE c # "/"
    <2>1. Tail(WithSymbol(cs, c)) = Append(others, Append(last, Decoded(c)))
      BY <1>1, <1>2, <1>6, SymbolGrowsLast
    <2>2. Append(last, Decoded(c)) \in Seq(Symbols)
      BY DecodedIsSymbol, AppendProperties
    <2>3. HasClimbed(start, Append(done, c))
      BY <1>1, <1>2, <2>1, <2>2 DEF HasClimbed
    <2> QED
      BY <1>1, <1>4, <2>3
  <1> QED
    BY <1>5, <1>6

LEMMA NothingIsMeant ==
  ASSUME NEW start \in Seq(Symbols)
  PROVE  IsMeant(start, <<>>, start, 0)
  <1>1. PICK cs : cs = Components(<<>>) /\ cs = <<<<>>>>
    BY ComponentsGrow
  <1>2. Tail(cs) = <<>> /\ cs[1] = <<>>
    <2>1. cs \in Lists \ {<<>>} /\ Len(cs) = 1 /\ cs[1] = <<>>
      BY <1>1, EmptyLists
    <2>2. Tail(cs) \in Seq(Seq(Symbols)) /\ Len(Tail(cs)) = 0
      BY <2>1, FirstAndOthers DEF Lists
    <2> QED
      BY <2>1, <2>2, EmptySeq
  <1>3. start \o cs[1] = start
    BY <1>2, ConcatEmptySeq
  <1>4. NoSlash(cs[1])
    BY <1>2 DEF NoSlash
  <1>5. IsInFirst(start, <<>>, start, 0)
    BY <1>1, <1>2, <1>3, <1>4 DEF IsInFirst, EndsInSlash
  <1> QED
    BY <1>5 DEF IsMeant

LEMMA SymbolIsMeant ==
  ASSUME NEW start \in Seq(Symbols), NEW done \in Seq(Symbols), NEW f, NEW s, NEW c \in Symbols,
         IsMeant(start, done, f, s), c \notin {"/", "%/"}, start = <<>> => done # <<>>
  PROVE  IsMeant(start, Append(done, c), Append(f, Decoded(c)), s)
  <1> DEFINE d == Decoded(c)
             more == Append(done, c)
  <1>1. PICK cs \in Lists \ {<<>>} : cs = Components(done) /\ Components(more) = WithSymbol(cs, c)
    BY ComponentsGrow
  <1>2. d \in Symbols /\ d # "/"
    BY DecodedIsSymbol DEF Decoded
  <1>3. more # <<>> /\ ~EndsInSlash(more)
    <2>1. more # <<>> /\ Len(more) = Len(done) + 1 /\ more[Len(done) + 1] = c
      BY AppendProperties
    <2> QED
      BY <2>1 DEF EndsInSlash
  <1> HIDE DEF d, more
  <1>4. ASSUME NEW t \in Seq(Symbols), NoSlash(t) PROVE NoSlash(Append(t, d)) /\ Append(t, d) # <<>>
    <2>1. PICK u : u = Append(t, d)
      OBVIOUS
    <2>2. u # <<>> /\ Len(u) = Len(t) + 1 /\ (\A k \in 1 .. Len(t) : u[k] = t[k]) /\ u[Len(t) + 1] = d
      BY <1>2, <2>1, AppendProperties
    <2>3. \A k \in 1 .. Len(t) + 1 : k \in 1 .. Len(t) \/ k = Len(t) + 1
      OBVIOUS
    <2>4. NoSlash(u)
      BY <1>2, <1>4, <2>2, <2>3 DEF NoSlash
    <2> QED
      BY <2>1, <2>2, <2>4
  <1>5. ASSUME NEW a \in Seq(Symbols), NEW t \in Seq(Symbols)
        PROVE  Append(a \o t, d) = a \o Append(t, d)
    <2>1. PICK x \in Seq(Symbols) : x = <<d>>
      <3>1. d \in Symbols
        BY <1>2
      <3>2. <<d>> \in Seq(Symbols)
        BY <3>1
      <3> QED
        BY <3>2
    <2>2. a \o t \in Seq(Symbols)
      BY ConcatProperties
    <2>3. Append(a \o t, d) = (a \o t) \o x /\ Append(t, d) = t \o x
      BY <1>2, <2>1, <2>2, AppendIsConcat
    <2>4. IsRegrouped(a, t, x)
      BY Regroups
    <2> QED
      BY <2>3, <2>4, Zenon DEF IsRegrouped
  <1>6. CASE IsInFirst(start, done, f, s)
    <2>1. Tail(cs) = <<>> /\ s = 0 /\ f = start \o cs[1] /\ NoSlash(cs[1]) /\ start # <<>>
      BY <1>1, <1>6 DEF IsInFirst
    <2>2. cs[1] \in Seq(Symbols)
      BY FirstAndOthers
    <2>3. WithSymbol(cs, c)[1] = Append(cs[1], d) /\ Tail(WithSymbol(cs, c)) = <<>>
      BY <2>1, SymbolGrowsFirst DEF d
    <2>4. Append(f, d) = start \o Append(cs[1], d)
      BY <1>5, <2>1, <2>2
    <2>5. NoSlash(Append(cs[1], d)) /\ Append(cs[1], d) # <<>>
      BY <1>4, <2>1, <2>2
    <2>6. IsInFirst(start, more, Append(f, d), s)
      BY <1>1, <1>3, <2>1, <2>3, <2>4, <2>5 DEF IsInFirst
    <2> QED
      BY <2>6 DEF IsMeant, d, more
  <1>7. ASSUME NEW others \in Lists, NEW last \in Seq(Symbols), IsBehind(start, done, others, last, f, s)
        PROVE  IsMeant(start, Append(done, c), Append(f, Decoded(c)), s)
    <2> DEFINE before0 == (start \o cs[1]) \o Joined(Resolved(others))
    <2>1. /\ Tail(cs) = Append(others, last) /\ s = Len(before0) /\ f = before0 \o (<<"/">> \o last)
          /\ NoSlashes(Resolved(others)) /\ NoSlash(last)
          /\ start = <<>> => cs[1] = <<>>
      BY <1>1, <1>7 DEF IsBehind
    <2>2. before0 \in Seq(Symbols)
      <3>1. cs[1] \in Seq(Symbols) /\ Resolved(others) \in Seq(Seq(Symbols))
        BY FirstAndOthers, ResolvedGrow DEF Lists
      <3>2. Joined(Resolved(others)) \in Seq(Symbols)
        BY <3>1, JoinedGrow
      <3>3. start \o cs[1] \in Seq(Symbols)
        BY <3>1, ConcatProperties
      <3> QED
        BY <3>2, <3>3, ConcatProperties
    <2>3. WithSymbol(cs, c)[1] = cs[1] /\ Tail(WithSymbol(cs, c)) = Append(others, Append(last, d))
      BY <1>7, <2>1, SymbolGrowsLast DEF d
    <2>4. PICK l \in Seq(Symbols) : l = Append(last, d)
      BY <1>2, AppendProperties
    <2>5. NoSlash(l) /\ l # <<>>
      BY <1>4, <2>1, <2>4
    <2>6. Append(f, d) = before0 \o (<<"/">> \o l)
      <3>1. PICK x \in Seq(Symbols) : x = <<"/">>
        BY SlashIsText
      <3>2. x \o last \in Seq(Symbols)
        BY ConcatProperties
      <3>3. Append(before0 \o (x \o last), d) = before0 \o Append(x \o last, d)
        BY <1>5, <2>2, <3>2
      <3>4. Append(x \o last, d) = x \o l
        BY <1>5, <2>4
      <3> QED
        BY <2>1, <3>1, <3>3, <3>4, Zenon
    <2> HIDE DEF before0
    <2>7. IsBehind(start, more, others, l, Append(f, d), s)
      BY <1>1, <1>3, <2>1, <2>3, <2>4, <2>5, <2>6 DEF IsBehind, before0
    <2> QED
      BY <2>7 DEF IsMeant, d, more
  <1> QED
    BY <1>6, <1>7 DEF IsMeant

\* A start that compress_last_component and the test for a run leave alone.
IsKept(start) == start = <<>> \/ (Len(start) >= 2 /\ (start[1] # "/" \/ start[2] = "/"))

LEMMA NoLastComponent ==
  ASSUME NEW f \in Seq(Symbols), f # <<"/", ".">>, f # <<"/", ".", ".">>
  PROVE  Compressed(f, 0).text = f
  <1>1. From(f, 0) = f
    <2>1. SubSeq(f, 1, Len(f)) = f
      BY SubSeqFull
    <2> QED
      BY <2>1 DEF From
  <1> QED
    BY <1>1 DEF Compressed

LEMMA FirstIsKept ==
  ASSUME NEW start \in Seq(Symbols), NEW first \in Seq(Symbols),
         \/ IsKept(start) /\ (start = <<>> => first = <<>>)
         \/ Len(start) = 1 /\ start[1] # "/"
  PROVE  /\ start \o first \in Seq(Symbols)
         /\ Compressed(start \o first, 0).text = start \o first
         /\ IsKept(start) => 0 + 1 # Len(start \o first)
  <1>1. PICK f \in Seq(Symbols) : f = start \o first
    BY ConcatProperties
  <1>2. CASE start = <<>>
    <2>1. f = <<>> /\ Len(f) = 0
      BY <1>1, <1>2, ConcatEmptySeq, EmptySeq
    <2>2. f # <<"/", ".">> /\ f # <<"/", ".", ".">>
      BY <2>1
    <2>3. Compressed(f, 0).text = f
      BY <2>2, NoLastComponent
    <2>4. 0 + 1 # Len(f)
      BY <2>1
    <2> QED
      BY <1>1, <2>3, <2>4
  <1>3. CASE start # <<>>
    <2>1. Len(start) >= 1 /\ Len(f) = Len(start) + Len(first) /\ \A k \in 1 .. Len(start) : f[k] = start[k]
      <3>1. Len(start) >= 1
        BY <1>3, EmptySeq
      <3>2. Len(f) = Len(start) + Len(first)
            /\ \A k \in 1 .. Len(start) + Len(first) : f[k] = IF k <= Len(start) THEN start[k] ELSE first[k - Len(start)]
        BY <1>1, ConcatProperties
      <3> QED
        BY <3>1, <3>2
    <2>2. f[1] = start[1] /\ (Len(start) >= 2 => f[2] = start[2])
      BY <2>1
    <2>3. f[1] # "/" \/ f[2] = "/"
      BY <1>3, <2>2 DEF IsKept
    <2>4. f # <<"/", ".">> /\ f # <<"/", ".", ".">>
      BY <2>3
    <2>5. IsKept(start) => 0 + 1 # Len(f)
      BY <1>3, <2>1 DEF IsKept
    <2> QED
      BY <1>1, <2>4, <2>5, NoLastComponent
  <1> QED
    BY <1>2, <1>3

\* What a text is made of behind its first component.
LEMMA BehindParts ==
  ASSUME NEW start \in Seq(Symbols), NEW done \in Seq(Symbols), NEW others \in Lists
  PROVE  /\ Components(done)[1] \in Seq(Symbols)
         /\ start \o Components(done)[1] \in Seq(Symbols)
         /\ Resolved(others) \in Lists
         /\ Joined(Resolved(others)) \in Seq(Symbols)
         /\ (start \o Components(done)[1]) \o Joined(Resolved(others)) \in Seq(Symbols)
  <1>1. Components(done) \in Lists \ {<<>>} /\ Resolved(others) \in Lists
    BY ComponentsGrow, ResolvedGrow DEF Lists
  <1>2. Components(done)[1] \in Seq(Symbols) /\ Joined(Resolved(others)) \in Seq(Symbols)
    BY <1>1, FirstAndOthers, JoinedGrow DEF Lists
  <1>3. start \o Components(done)[1] \in Seq(Symbols)
    BY <1>2, ConcatProperties
  <1> QED
    BY <1>1, <1>2, <1>3, ConcatProperties

LEMMA BehindCompressed ==
  ASSUME NEW start \in Seq(Symbols), NEW done \in Seq(Symbols), NEW others \in Lists,
         NEW last \in Seq(Symbols), NEW f, NEW s, IsBehind(start, done, others, last, f, s), last # <<>>
  PROVE  \/ Compressed(f, s).text
              = (start \o Components(done)[1]) \o Joined(Resolved(Append(others, last)))
         \/ start # <<>> /\ Ups(Resolved(Append(others, last)))
  <1>1. PICK head \in Seq(Symbols), left \in Lists :
          head = start \o Components(done)[1] /\ left = Resolved(others)
    BY BehindParts
  <1>2. /\ s = Len(head \o Joined(left)) /\ f = (head \o Joined(left)) \o (<<"/">> \o last)
        /\ NoSlashes(left)
        /\ start = <<>> => Components(done)[1] = <<>>
    BY <1>1 DEF IsBehind
  <1>3. Resolved(Append(others, last)) = WithComponent(left, last)
    BY <1>1, ResolvedGrow DEF Lists
  <1>4. CASE last = Up /\ left = <<>> => head = <<>>
    <2>1. Compressed((head \o Joined(left)) \o (<<"/">> \o last), Len(head \o Joined(left))).text
            = head \o Joined(WithComponent(left, last))
      <3>1. NoSlashes(left) /\ last # <<>>
        BY <1>2
      <3> QED
        BY <1>4, <3>1, Compresses
    <2> QED
      BY <1>1, <1>2, <1>3, <2>1
  <1>5. CASE last = Up /\ left = <<>> /\ head # <<>>
    <2>1. start # <<>>
      <3>1. <<>> \o <<>> = <<>>
        BY EmptyLists, ConcatEmptySeq
      <3> QED
        BY <1>1, <1>2, <1>5, <3>1
    <2>2. Ups(WithComponent(left, last))
      BY <1>5, UpClimbs
    <2> QED
      BY <1>3, <2>1, <2>2
  <1> QED
    BY <1>4, <1>5

LEMMA SlashIsMeant ==
  ASSUME NEW start \in Seq(Symbols), NEW done \in Seq(Symbols), NEW f, NEW s,
         IsMeant(start, done, f, s), IsKept(start)
  PROVE  LET c == Compressed(f, s)
             more == Append(done, "/")
         IN  \/ HasClimbed(start, more)
             \/ IF s + 1 = Len(f) THEN IsMeant(start, more, f, s)
                ELSE IsMeant(start, more, Append(c.text, "/"), Len(c.text))
  <1> DEFINE c == Compressed(f, s)
             more == Append(done, "/")
             Goal == \/ HasClimbed(start, more)
                     \/ IF s + 1 = Len(f) THEN IsMeant(start, more, f, s)
                        ELSE IsMeant(start, more, Append(c.text, "/"), Len(c.text))
  <1>1. "/" \in Symbols /\ <<>> \in Seq(Symbols)
    BY EmptySeq DEF Symbols
  <1>2. PICK cs \in Lists \ {<<>>} : cs = Components(done) /\ Components(more) = WithSymbol(cs, "/")
    BY <1>1, ComponentsGrow
  <1>3. Components(more)[1] = cs[1] /\ Tail(Components(more)) = Append(Tail(cs), <<>>) /\ cs[1] \in Seq(Symbols)
    BY <1>2, SlashBegins, FirstAndOthers
  <1>4. more \in Seq(Symbols) /\ EndsInSlash(more)
    <2>1. more \in Seq(Symbols) /\ more # <<>> /\ Len(more) = Len(done) + 1 /\ more[Len(done) + 1] = "/"
      BY <1>1, AppendProperties
    <2> HIDE DEF more
    <2> QED
      BY <2>1 DEF EndsInSlash
  <1> HIDE DEF c, more
  \* A component is complete: what comes next is behind it.
  <1>5. ASSUME NEW x \in Lists, Append(x, <<>>) = Tail(Components(more)),
               NoSlashes(Resolved(x)), start = <<>> => cs[1] = <<>>,
               NEW t \in Seq(Symbols), t = (start \o cs[1]) \o Joined(Resolved(x))
        PROVE  IsMeant(start, more, Append(t, "/"), Len(t))
    <2>1. Append(t, "/") = t \o (<<"/">> \o <<>>)
      <3>1. Append(t, "/") = t \o <<"/">>
        BY <1>1, AppendIsConcat
      <3>2. <<"/">> \o <<>> = <<"/">>
        BY SlashIsText, ConcatEmptySeq
      <3> QED
        BY <3>1, <3>2
    <2>2. NoSlash(<<>>)
      BY EmptySeq DEF NoSlash
    <2>3. IsBehind(start, more, x, <<>>, Append(t, "/"), Len(t))
      BY <1>3, <1>4, <1>5, <2>1, <2>2 DEF IsBehind
    <2> QED
      BY <1>1, <2>3 DEF IsMeant
  <1>6. CASE IsInFirst(start, done, f, s)
    <2>1. Tail(cs) = <<>> /\ s = 0 /\ f = start \o cs[1] /\ (start = <<>> => cs[1] = <<>>)
      BY <1>2, <1>6 DEF IsInFirst
    <2>2. f \in Seq(Symbols) /\ c.text = f /\ s + 1 # Len(f)
      BY <1>3, <2>1, FirstIsKept DEF c
    <2>3. PICK x \in Lists : x = <<>>
      BY EmptyLists
    <2>4. Resolved(x) = <<>> /\ Joined(Resolved(x)) = <<>>
      BY <2>3, ResolvedGrow, JoinedGrow
    <2>5. NoSlashes(Resolved(x))
      BY <2>4, EmptySeq DEF NoSlashes
    <2>6. f = (start \o cs[1]) \o Joined(Resolved(x))
      BY <2>1, <2>2, <2>4, ConcatEmptySeq
    <2>7. IsMeant(start, more, Append(f, "/"), Len(f))
      BY <1>3, <1>5, <2>1, <2>2, <2>3, <2>5, <2>6
    <2> QED
      BY <2>2, <2>7 DEF c, more
  <1>7. ASSUME NEW others \in Lists, NEW last \in Seq(Symbols), IsBehind(start, done, others, last, f, s)
        PROVE  Goal
    <2> DEFINE before0 == (start \o cs[1]) \o Joined(Resolved(others))
    <2>1. /\ Tail(cs) = Append(others, last) /\ s = Len(before0) /\ f = before0 \o (<<"/">> \o last)
          /\ NoSlashes(Resolved(others)) /\ NoSlash(last)
          /\ start = <<>> => cs[1] = <<>>
      BY <1>2, <1>7 DEF IsBehind
    <2>2. before0 \in Seq(Symbols) /\ Resolved(others) \in Lists
      BY <1>2, BehindParts
    <2>3. PICK x \in Lists : x = Append(others, last)
      BY AppendProperties DEF Lists
    <2>4. Resolved(x) = WithComponent(Resolved(others), last)
      BY <2>3, ResolvedGrow DEF Lists
    <2>5. NoSlashes(Resolved(x))
      BY <2>1, <2>2, <2>4, NoSlashesStay
    <2>6. Append(x, <<>>) = Tail(Components(more))
      BY <1>3, <2>1, <2>3
    <2>7. Len(f) = s + 1 + Len(last)
      <3>1. PICK b \in Seq(Symbols) : b = <<"/">> \o last /\ Len(b) = 1 + Len(last)
        <4>1. PICK sign \in Seq(Symbols) : sign = <<"/">> /\ Len(sign) = 1
          BY SlashIsText
        <4>2. sign \o last \in Seq(Symbols) /\ Len(sign \o last) = Len(sign) + Len(last)
          BY ConcatProperties
        <4> QED
          BY <4>1, <4>2
      <3> HIDE DEF before0
      <3>2. Len(before0 \o b) = Len(before0) + Len(b)
        BY <2>2, ConcatProperties
      <3> QED
        BY <2>1, <2>2, <3>1, <3>2
    <2>8. CASE last = <<>>
      <3>1. s + 1 = Len(f)
        <4>1. Len(last) = 0 /\ s \in Nat
          BY <2>1, <2>2, <2>8, EmptySeq
        <4> QED
          BY <2>7, <4>1
      <3>2. Resolved(x) = Resolved(others)
        BY <2>4, <2>8 DEF WithComponent
      <3>3. IsMeant(start, more, Append(before0, "/"), Len(before0))
        <4> HIDE DEF before0
        <4> QED
          BY <1>5, <2>1, <2>2, <2>5, <2>6, <3>2 DEF before0
      <3>4. f = Append(before0, "/")
        <4> HIDE DEF before0
        <4>1. <<"/">> \o <<>> = <<"/">>
          BY SlashIsText, ConcatEmptySeq
        <4> QED
          BY <1>1, <2>1, <2>2, <2>8, <4>1, AppendIsConcat
      <3> QED
        BY <2>1, <3>1, <3>3, <3>4 DEF more
    <2>9. CASE last # <<>>
      <3>1. s + 1 # Len(f)
        <4>1. Len(last) \in Nat \ {0} /\ s \in Nat
          BY <2>1, <2>2, <2>9, EmptySeq
        <4> QED
          BY <2>7, <4>1
      <3>2. CASE c.text = (start \o cs[1]) \o Joined(Resolved(x))
        <4>1. c.text \in Seq(Symbols)
          BY <1>2, <3>2, BehindParts
        <4>2. IsMeant(start, more, Append(c.text, "/"), Len(c.text))
          BY <1>5, <2>1, <2>5, <2>6, <3>2, <4>1
        <4> QED
          BY <3>1, <4>2 DEF c, more
      <3>3. CASE start # <<>> /\ Ups(Resolved(x))
        <4>1. HasClimbed(start, more)
          BY <1>1, <2>6, <3>3 DEF HasClimbed
        <4> QED
          BY <4>1 DEF more
      <3> QED
        BY <1>2, <1>7, <2>3, <2>9, <3>2, <3>3, BehindCompressed DEF c
    <2> QED
      BY <2>8, <2>9
  <1> QED
    BY <1>6, <1>7 DEF IsMeant, c, more

\* At its end the path is normal.
LEMMA PathIsNormal ==
  ASSUME NEW start \in Seq(Symbols), NEW done \in Seq(Symbols), NEW f, NEW s,
         IsMeant(start, done, f, s), IsKept(start) \/ (Len(start) = 1 /\ start[1] # "/" /\ done = <<>>)
  PROVE  \/ Compressed(f, s).text = start \o Normal(done) /\ Normal(done) \in Seq(Symbols)
         \/ start # <<>> /\ Ups(Resolved(Tail(Components(done))))
  <1> DEFINE cs == Components(done)
             slash0 == IF EndsInSlash(done) THEN <<"/">> ELSE <<>>
  <1>1. cs \in Lists \ {<<>>} /\ cs[1] \in Seq(Symbols) /\ Tail(cs) \in Lists
    BY ComponentsGrow, FirstAndOthers
  <1>2. PICK first \in Seq(Symbols), joined \in Seq(Symbols), end \in Seq(Symbols) :
          first = cs[1] /\ joined = Joined(Resolved(Tail(cs))) /\ end = slash0
    <2>1. Joined(Resolved(Tail(cs))) \in Seq(Symbols)
      BY <1>1, BehindParts
    <2> QED
      BY <1>1, <2>1, SlashIsText, EmptySeq
  <1>3. PICK normal \in Seq(Symbols) : normal = first \o joined \o end
    BY ConcatProperties
  <1>4. Normal(done) = normal
    BY <1>2, <1>3 DEF Normal, EndsInSlash
  <1>5. start \o normal = ((start \o first) \o joined) \o end
    <2>1. PICK x \in Seq(Symbols), y \in Seq(Symbols) : x = start \o first /\ y = joined \o end
      BY ConcatProperties
    <2>2. IsRegrouped(first, joined, end) /\ IsRegrouped(start, first, y) /\ IsRegrouped(x, joined, end)
      BY Regroups, Zenon
    <2> QED
      BY <1>3, <2>1, <2>2, Zenon DEF IsRegrouped
  <1> HIDE DEF cs, slash0
  <1>6. CASE IsInFirst(start, done, f, s)
    <2>1. /\ Tail(cs) = <<>> /\ s = 0 /\ f = start \o first /\ ~EndsInSlash(done)
          /\ (start = <<>> => first = <<>>)
      BY <1>2, <1>6 DEF IsInFirst, cs
    <2>2. f \in Seq(Symbols) /\ Compressed(f, s).text = f
      BY <2>1, FirstIsKept
    <2>3. joined = <<>> /\ end = <<>>
      BY <1>2, <2>1, ResolvedGrow, JoinedGrow DEF slash0
    <2>4. start \o normal = f
      BY <1>5, <2>1, <2>2, <2>3, ConcatEmptySeq
    <2> QED
      BY <1>4, <2>2, <2>4
  <1>7. ASSUME NEW others \in Lists, NEW last \in Seq(Symbols), IsBehind(start, done, others, last, f, s)
        PROVE  \/ Compressed(f, s).text = start \o normal
               \/ start # <<>> /\ Ups(Resolved(Tail(cs)))
    <2> DEFINE before0 == (start \o first) \o Joined(Resolved(others))
    <2>1. /\ Tail(cs) = Append(others, last) /\ s = Len(before0) /\ f = before0 \o (<<"/">> \o last)
          /\ EndsInSlash(done) <=> last = <<>>
      BY <1>2, <1>7 DEF IsBehind, cs
    <2>2. before0 \in Seq(Symbols) /\ Resolved(others) \in Lists
      BY <1>2, BehindParts DEF cs
    <2>3. CASE last = <<>>
      <3>1. PICK b \in Seq(Symbols) : b = <<"/">>
        BY SlashIsText
      <3>2. b \o <<>> = b /\ end = b
        BY <1>2, <2>1, <2>3, <3>1, ConcatEmptySeq DEF slash0
      <3>3. Resolved(Append(others, last)) = Resolved(others)
        <4>1. Resolved(Append(others, last)) = WithComponent(Resolved(others), last)
          BY ResolvedGrow DEF Lists
        <4> QED
          BY <2>3, <4>1 DEF WithComponent
      <3>4. start \o normal = before0 \o b
        BY <1>2, <1>5, <2>1, <3>2, <3>3
      <3> HIDE DEF before0
      <3>5. f = before0 \o b
        BY <2>1, <2>3, <3>1, <3>2
      <3>6. From(f, s) = b
        <4>1. From(before0 \o b, Len(before0)) = b
          BY <2>2, ConcatCuts
        <4> QED
          BY <2>1, <3>5, <4>1
      <3>7. b # <<"/", ".">> /\ b # <<"/", ".", ".">>
        BY <3>1
      <3>8. Compressed(f, s).text = f
        BY <3>6, <3>7 DEF Compressed
      <3> QED
        BY <3>4, <3>5, <3>8
    <2>4. CASE last # <<>>
      <3>1. end = <<>>
        BY <1>2, <2>1, <2>4 DEF slash0
      <3>2. PICK x \in Seq(Symbols) : x = (start \o first) \o joined
        BY ConcatProperties
      <3>3. start \o normal = x
        BY <1>5, <3>1, <3>2, ConcatEmptySeq
      <3>4. \/ Compressed(f, s).text = (start \o first) \o Joined(Resolved(Append(others, last)))
            \/ start # <<>> /\ Ups(Resolved(Append(others, last)))
        BY <1>2, <1>7, <2>4, BehindCompressed DEF cs
      <3> QED
        BY <1>2, <2>1, <3>2, <3>3, <3>4
    <2> QED
      BY <2>3, <2>4
  <1> QED
    BY <1>4, <1>6, <1>7 DEF IsMeant, cs

-----------------------------------------------------------------------------
(* A text that is read from its start to its end *)

LEMMA ReadsOn ==
  ASSUME NEW S, NEW t \in Seq(S), NEW n \in Nat, NEW m \in Nat, n + m <= Len(t)
  PROVE  /\ From(From(t, n), m) = From(t, n + m)
         /\ Slice(From(t, n), 0, m) = Slice(t, n, n + m)
         /\ Slice(t, 0, n) \o Slice(t, n, n + m) = Slice(t, 0, n + m)
         /\ Slice(t, n, n + m) \o From(t, n + m) = From(t, n)
  <1>1. PICK l \in Nat : l = Len(t)
    OBVIOUS
  <1>2. PICK r \in Seq(S) : r = From(t, n) /\ Len(r) = l - n /\ \A k \in 1 .. l - n : r[k] = t[n + k]
    <2>1. n \in 0 .. Len(t)
      BY <1>1
    <2>2. PICK x : x = From(t, n)
      OBVIOUS
    <2>3. x \in Seq(S) /\ Len(x) = Len(t) - n /\ \A k \in 1 .. Len(t) - n : x[k] = t[n + k]
      BY <2>1, <2>2, FromText
    <2>4. x \in Seq(S) /\ x = From(t, n) /\ Len(x) = l - n /\ \A k \in 1 .. l - n : x[k] = t[n + k]
      BY <1>1, <2>2, <2>3
    <2> QED
      BY <2>4
  <1>3. From(r, m) = From(t, n + m)
    <2>1. m \in 0 .. Len(r) /\ Len(r) - m = l - (n + m) /\ n + m \in 0 .. Len(t)
      BY <1>1, <1>2
    <2>2. PICK x : x = From(r, m)
      OBVIOUS
    <2>3. PICK y : y = From(t, n + m)
      OBVIOUS
    <2>4. x \in Seq(S) /\ Len(x) = l - (n + m) /\ \A k \in 1 .. l - (n + m) : x[k] = r[m + k]
      <3>1. From(r, m) \in Seq(S) /\ Len(From(r, m)) = Len(r) - m /\ \A k \in 1 .. Len(r) - m : From(r, m)[k] = r[m + k]
        BY <2>1, FromText
      <3> QED
        BY <2>1, <2>2, <3>1, Zenon
    <2>5. y \in Seq(S) /\ Len(y) = l - (n + m) /\ \A k \in 1 .. l - (n + m) : y[k] = t[n + m + k]
      <3>1. PICK j \in 0 .. Len(t) : j = n + m
        BY <2>1
      <3>2. From(t, j) \in Seq(S) /\ Len(From(t, j)) = Len(t) - j /\ \A k \in 1 .. Len(t) - j : From(t, j)[k] = t[j + k]
        BY FromText
      <3> QED
        BY <1>1, <2>3, <3>1, <3>2, Zenon
    <2>6. ASSUME NEW k \in 1 .. l - (n + m) PROVE x[k] = y[k]
      <3>1. m + k \in 1 .. l - n /\ n + (m + k) = n + m + k
        BY <1>1
      <3>2. r[m + k] = t[n + (m + k)]
        BY <1>2, <3>1
      <3>3. x[k] = r[m + k] /\ y[k] = t[n + m + k]
        BY <2>4, <2>5
      <3> QED
        BY <3>1, <3>2, <3>3
    <2>7. Len(x) = Len(y) /\ \A k \in 1 .. Len(x) : x[k] = y[k]
      BY <2>4, <2>5, <2>6
    <2>8. x = y
      BY <2>4, <2>5, <2>7, SeqEqual
    <2> QED
      BY <2>2, <2>3, <2>8
  <1>4. Slice(r, 0, m) = Slice(t, n, n + m)
    <2>1. m \in 0 .. Len(r) /\ n + m \in n .. Len(t) /\ (n + m) - n = m
      BY <1>1, <1>2
    <2>2. PICK x : x = Slice(r, 0, m)
      OBVIOUS
    <2>3. PICK y : y = Slice(t, n, n + m)
      OBVIOUS
    <2>4. x \in Seq(S) /\ Len(x) = m /\ \A k \in 1 .. m : x[k] = r[k]
      BY <2>1, <2>2, StartOfText
    <2>5. y \in Seq(S) /\ Len(y) = m /\ \A k \in 1 .. m : y[k] = t[n + k]
      <3>1. PICK j \in n .. Len(t) : j = n + m /\ j - n = m
        BY <2>1
      <3>2. Slice(t, n, j) \in Seq(S) /\ Len(Slice(t, n, j)) = j - n /\ \A k \in 1 .. j - n : Slice(t, n, j)[k] = t[n + k]
        BY SliceOfText
      <3> QED
        BY <2>3, <3>1, <3>2, Zenon
    <2>6. ASSUME NEW k \in 1 .. m PROVE x[k] = y[k]
      <3>1. k \in 1 .. l - n
        BY <1>1
      <3> QED
        BY <1>2, <2>4, <2>5, <3>1
    <2>7. Len(x) = Len(y) /\ \A k \in 1 .. Len(x) : x[k] = y[k]
      BY <2>4, <2>5, <2>6
    <2>8. x = y
      BY <2>4, <2>5, <2>7, SeqEqual
    <2> QED
      BY <2>2, <2>3, <2>8
  <1>5. Slice(t, 0, n) \o Slice(t, n, n + m) = Slice(t, 0, n + m)
    <2>1. 1 \in 1 .. Len(t) + 1 /\ n \in 1 - 1 .. Len(t) /\ n + m \in n .. Len(t)
      BY <1>1
    <2>2. SubSeq(t, 1, n) \o SubSeq(t, n + 1, n + m) = SubSeq(t, 1, n + m)
      BY <2>1, ConcatAdjacentSubSeq
    <2> QED
      BY <2>2 DEF Slice
  <1>6. Slice(t, n, n + m) \o From(t, n + m) = From(t, n)
    <2>1. n + 1 \in 1 .. Len(t) + 1 /\ n + m \in (n + 1) - 1 .. Len(t) /\ Len(t) \in n + m .. Len(t)
      BY <1>1
    <2>2. SubSeq(t, n + 1, n + m) \o SubSeq(t, n + m + 1, Len(t)) = SubSeq(t, n + 1, Len(t))
      BY <2>1, ConcatAdjacentSubSeq
    <2> QED
      BY <2>2 DEF Slice, From
  <1> QED
    BY <1>2, <1>3, <1>4, <1>5, <1>6

LEMMA OneMore ==
  ASSUME NEW S, NEW t \in Seq(S), NEW a \in Nat, NEW n \in Nat, a <= n, n < Len(t)
  PROVE  Slice(t, a, n + 1) = Append(Slice(t, a, n), t[n + 1])
  <1>1. a + 1 \in 1 .. Len(t) /\ n + 1 \in a + 1 .. Len(t) /\ n \in a .. Len(t) /\ n + 1 \in 1 .. Len(t)
    OBVIOUS
  <1>2. SubSeq(t, a + 1, n + 1) = SubSeq(t, a + 1, (n + 1) - 1) \o <<t[n + 1]>>
    BY <1>1, SubSeqRecursiveSecond
  <1>3. (n + 1) - 1 = n
    OBVIOUS
  <1>4. PICK u \in Seq(S) : u = Slice(t, a, n)
    BY <1>1, SliceOfText
  <1>5. PICK x \in S : x = t[n + 1]
    BY <1>1, ElementOfSeq
  <1>6. Append(u, x) = u \o <<x>>
    BY AppendIsConcat
  <1> QED
    BY <1>2, <1>3, <1>4, <1>5, <1>6 DEF Slice

LEMMA FindStops ==
  ASSUME NEW S, NEW t \in Seq(S), NEW symbols
  PROVE  /\ Find(t, symbols) \in 0 .. Len(t)
         /\ Find(t, symbols) < Len(t) => t[Find(t, symbols) + 1] \in symbols
         /\ \A k \in 1 .. Find(t, symbols) : t[k] \notin symbols
  <1> DEFINE places == {k \in 1 .. Len(t) : t[k] \in symbols}
  <1>1. Len(t) \in Nat /\ places \in SUBSET Nat
    OBVIOUS
  <1>2. CASE places = {}
    <2>1. Find(t, symbols) = Len(t)
      BY <1>2 DEF Find
    <2> QED
      BY <1>1, <1>2, <2>1
  <1>3. CASE places # {}
    <2> DEFINE place == CHOOSE k \in places : \A j \in places : k <= j
    <2>1. Find(t, symbols) = place - 1
      BY <1>3 DEF Find
    <2>2. \A k \in places : k \in 1 .. Len(t) /\ t[k] \in symbols
      OBVIOUS
    <2>3. \A k \in 1 .. Len(t) : t[k] \in symbols => k \in places
      OBVIOUS
    <2> HIDE DEF places
    <2>4. place \in places /\ \A j \in places : place <= j
      BY <1>1, <1>3, LeastNatural
    <2> HIDE DEF place
    <2>5. place \in 1 .. Len(t) /\ t[place] \in symbols /\ (place - 1) + 1 = place
      BY <2>2, <2>4
    <2>6. ASSUME NEW k \in 1 .. place - 1 PROVE t[k] \notin symbols
      <3>1. k \in 1 .. Len(t) /\ ~(place <= k)
        BY <1>1, <2>5
      <3> QED
        BY <2>3, <2>4, <3>1
    <2> QED
      BY <1>1, <2>1, <2>5, <2>6
  <1> QED
    BY <1>2, <1>3

LEMMA FindIs ==
  ASSUME NEW S, NEW t \in Seq(S), NEW symbols, NEW n \in 0 .. Len(t),
         \A k \in 1 .. n : t[k] \notin symbols, n < Len(t) => t[n + 1] \in symbols
  PROVE  Find(t, symbols) = n
  <1>1. PICK m \in 0 .. Len(t) : m = Find(t, symbols) /\ (m < Len(t) => t[m + 1] \in symbols)
                                 /\ \A k \in 1 .. m : t[k] \notin symbols
    BY FindStops
  <1>2. ~(m < n)
    <2> SUFFICES ASSUME m < n PROVE FALSE
      OBVIOUS
    <2>1. m + 1 \in 1 .. n /\ m < Len(t)
      OBVIOUS
    <2> QED
      BY <1>1, <2>1
  <1>3. ~(n < m)
    <2> SUFFICES ASSUME n < m PROVE FALSE
      OBVIOUS
    <2>1. n + 1 \in 1 .. m /\ n < Len(t)
      OBVIOUS
    <2> QED
      BY <1>1, <2>1
  <1> QED
    BY <1>1, <1>2, <1>3

LEMMA StartsWithOne ==
  ASSUME NEW S, NEW t \in Seq(S), NEW x
  PROVE  StartsWith(t, <<x>>) <=> t # <<>> /\ t[1] = x
  <1>1. Len(<<x>>) = 1 /\ Len(t) \in Nat /\ (t # <<>> => Len(t) >= 1) /\ (Len(t) >= 1 => t # <<>>)
    <2>1. t # <<>> => Len(t) >= 1
      BY EmptySeq
    <2>2. t = <<>> => Len(t) = 0
      BY EmptySeq
    <2> QED
      BY <2>1, <2>2
  <1>2. ASSUME Len(t) >= 1 PROVE SubSeq(t, 1, 1) = <<t[1]>>
    <2>1. PICK u : u = SubSeq(t, 1, 1)
      OBVIOUS
    <2>2. \A k \in 1 .. 1 : t[k] \in S
      BY <1>2, ElementOfSeq
    <2>3. u \in Seq(S) /\ Len(u) = 1 /\ u[1] = t[1]
      <3>1. /\ SubSeq(t, 1, 1) \in Seq(S)
            /\ Len(SubSeq(t, 1, 1)) = IF 1 <= 1 THEN 1 - 1 + 1 ELSE 0
            /\ \A k \in 1 .. 1 - 1 + 1 : SubSeq(t, 1, 1)[k] = t[1 + k - 1]
        BY <2>2, SubSeqProperties
      <3>2. 1 \in 1 .. 1 - 1 + 1 /\ 1 + 1 - 1 = 1 /\ (IF 1 <= 1 THEN 1 - 1 + 1 ELSE 0) = 1
        OBVIOUS
      <3> QED
        BY <2>1, <3>1, <3>2
    <2>4. u = <<t[1]>>
      BY <2>3
    <2> QED
      BY <2>1, <2>4
  <1>3. CASE t = <<>>
    BY <1>1, <1>3 DEF StartsWith
  <1>4. CASE t # <<>>
    <2>1. StartsWith(t, <<x>>) <=> <<t[1]>> = <<x>>
      BY <1>1, <1>2, <1>4 DEF StartsWith
    <2> QED
      BY <1>4, <2>1
  <1> QED
    BY <1>3, <1>4

LEMMA StartsWithTwo ==
  ASSUME NEW S, NEW t \in Seq(S), NEW x, NEW y
  PROVE  StartsWith(t, <<x, y>>) <=> Len(t) >= 2 /\ t[1] = x /\ t[2] = y
  <1>1. Len(<<x, y>>) = 2 /\ Len(t) \in Nat
    OBVIOUS
  <1>2. ASSUME Len(t) >= 2 PROVE SubSeq(t, 1, 2) = <<t[1], t[2]>>
    <2>1. PICK u : u = SubSeq(t, 1, 2)
      OBVIOUS
    <2>2. 2 \in 0 .. Len(t)
      BY <1>1, <1>2
    <2>3. u \in Seq(S) /\ Len(u) = 2 /\ \A k \in 1 .. 2 : u[k] = t[k]
      BY <2>1, <2>2, StartOfText DEF Slice
    <2>4. u = <<t[1], t[2]>>
      BY <2>3
    <2> QED
      BY <2>1, <2>4
  <1>3. CASE Len(t) >= 2
    <2>1. StartsWith(t, <<x, y>>) <=> <<t[1], t[2]>> = <<x, y>>
      BY <1>1, <1>2, <1>3 DEF StartsWith
    <2> QED
      BY <1>3, <2>1
  <1>4. CASE ~(Len(t) >= 2)
    BY <1>1, <1>4 DEF StartsWith
  <1> QED
    BY <1>3, <1>4

-----------------------------------------------------------------------------
(* parse_uri reads its text from the start to the end *)

At == Len(input) - Len(rest)
Start == Slice(input, 0, ends.path0)
Done == Slice(input, ends.path0, At)

IsReading == Len(rest) <= Len(input) /\ rest = From(input, At)

\* What a path begins behind: nothing, a scheme or a host.
BeginsAt(p) ==
  \/ p = 0 /\ input # <<>> /\ input[1] = "/"
  \/ p >= 2 /\ (input[1] # "/" \/ input[2] = "/")
  \/ p = 1 /\ input[1] # "/" /\ (LosesSlash \/ Len(input) = 1)

InScheme == step = "scheme" => rest = input /\ full = <<>> /\ ends = NoEnds

InAuthority ==
  step = "authority" =>
    /\ ~IsHost /\ full = Slice(input, 0, At) /\ ends.domain0 = 0
    /\ \/ At = 0 /\ ends.scheme_end = 0 /\ input # <<>> /\ input[1] = "/"
       \/ At = ends.scheme_end + 1 /\ input[1] # "/" /\ (ends.scheme_end = 0 => input[1] = ":")

PathBegun ==
  step \in {"decode", "query", "fragment"} =>
    /\ ~IsHost /\ ends.path0 <= Len(input) /\ BeginsAt(ends.path0)
    /\ ends.domain0 <= ends.host_end

Exempt == HasEscapedSlash \/ LosesSlash

InDecode ==
  step = "decode" =>
    /\ ends.path0 <= At
    /\ \A k \in 1 .. Len(Done) : Done[k] \notin {"?", "#"}
    /\ Exempt \/ HasClimbed(Start, Done) \/ IsMeant(Start, Done, full, slash)

LEMMA InputKept ==
  ASSUME input' = input
  PROVE  IsHost' = IsHost /\ LosesSlash' = LosesSlash /\ HasEscapedSlash' = HasEscapedSlash
  BY DEF IsHost, LosesSlash, HasEscapedSlash

LEMMA SchemeReads ==
  PartsInv /\ IsReading /\ InScheme /\ Scheme => IsReading' /\ InAuthority'
  <1> SUFFICES ASSUME PartsInv, IsReading, InScheme, Scheme PROVE IsReading' /\ InAuthority'
    OBVIOUS
  <1> DEFINE colon == Find(rest, {":"})
  <1>1. /\ step = "scheme" /\ step' = "authority" /\ UNCHANGED <<input, slash, before>>
        /\ rest = input /\ full = <<>> /\ ends = NoEnds /\ input \in Seq(Symbols)
        /\ StartsWith(rest, <<"/">>) \/ colon < Len(rest)
    BY DEF Scheme, InScheme, PartsInv, UriTypes
  <1>2. ~IsHost'
    BY <1>1, InputKept DEF IsHost
  <1>3. Len(input) \in Nat /\ colon \in 0 .. Len(input)
        /\ (colon < Len(input) => input[colon + 1] \in {":"})
    BY <1>1, FindStops
  <1>4. StartsWith(input, <<"/">>) <=> input # <<>> /\ input[1] = "/"
    BY <1>1, StartsWithOne
  <1>5. CASE StartsWith(rest, <<"/">>)
    <2>1. UNCHANGED <<full, ends, rest>>
      BY <1>5 DEF Scheme
    <2>2. At' = 0
      BY <1>1, <1>3, <2>1 DEF At
    <2>3. full' = Slice(input, 0, 0)
      <3>1. SubSeq(input, 0 + 1, 0) = <<>>
        BY SubSeqEmpty
      <3> QED
        BY <1>1, <2>1, <3>1 DEF Slice
    <2>4. IsReading'
      BY <1>1, <2>1, <1>3 DEF IsReading, At
    <2>5. InAuthority'
      BY <1>1, <1>2, <1>4, <1>5, <2>1, <2>2, <2>3 DEF InAuthority, NoEnds
    <2> QED
      BY <2>4, <2>5
  <1>6. CASE ~StartsWith(rest, <<"/">>)
    <2>1. /\ full' = Slice(input, 0, colon + 1) /\ rest' = From(input, colon + 1) /\ colon < Len(input)
          /\ ends' = [NoEnds EXCEPT !.scheme_end = colon]
      BY <1>1, <1>6 DEF Scheme
    <2> HIDE DEF colon
    <2>2. colon + 1 \in 0 .. Len(input) /\ colon \in Nat
      BY <1>3, <2>1
    <2>3. Len(rest') = Len(input) - (colon + 1)
      <3>1. PICK n \in 0 .. Len(input) : n = colon + 1
        BY <2>2
      <3>2. Len(From(input, n)) = Len(input) - n
        BY <1>1, FromText
      <3> QED
        BY <2>1, <3>1, <3>2
    <2>4. At' = colon + 1
      BY <1>1, <1>3, <2>2, <2>3 DEF At
    <2>5. IsReading'
      <3>1. Len(rest') <= Len(input)
        BY <1>3, <2>2, <2>3
      <3> QED
        BY <1>1, <2>1, <2>4, <3>1 DEF IsReading
    <2>6. input # <<>>
      <3>1. Len(<<>>) = 0
        BY EmptySeq
      <3> QED
        BY <2>1, <2>2, <3>1
    <2>7. input[1] # "/" /\ (colon = 0 => input[1] = ":")
      BY <1>1, <1>3, <1>4, <1>6, <2>1, <2>6
    <2>8. ends'.scheme_end = colon /\ ends'.domain0 = 0
      BY <2>1 DEF NoEnds
    <2>9. InAuthority'
      BY <1>1, <1>2, <2>1, <2>4, <2>7, <2>8 DEF InAuthority
    <2> QED
      BY <2>5, <2>9
  <1> QED
    BY <1>5, <1>6

\* With nothing of the path read, what is written is what is before it.
LEMMA DecodeBegins ==
  ASSUME PartsInv, input' = input, slash = 0, slash' = slash, NEW p \in Nat,
         p <= Len(input), ends'.path0 = p, rest' = From(input, p), full' = Slice(input, 0, p)
  PROVE  IsReading' /\ InDecode'
  <1>1. input \in Seq(Symbols) /\ p \in 0 .. Len(input) /\ Len(input) \in Nat
    BY DEF PartsInv, UriTypes
  <1>2. Len(rest') = Len(input) - p
    BY <1>1, FromText
  <1>3. At' = p
    BY <1>1, <1>2 DEF At
  <1>4. IsReading'
    BY <1>1, <1>2, <1>3 DEF IsReading
  <1>5. PICK start \in Seq(Symbols) : start = Slice(input, 0, p)
    BY <1>1, StartOfText
  <1>6. Start' = start /\ full' = start
    BY <1>5 DEF Start
  <1>7. Done' = <<>>
    <2>1. SubSeq(input, p + 1, p) = <<>>
      BY <1>1, SubSeqEmpty
    <2> QED
      BY <1>3, <2>1 DEF Done, Slice
  <1>8. IsMeant(start, <<>>, start, 0)
    BY NothingIsMeant
  <1>9. IsMeant(Start', Done', full', slash')
    BY <1>6, <1>7, <1>8
  <1>10. \A k \in 1 .. Len(Done') : Done'[k] \notin {"?", "#"}
    BY <1>7, EmptySeq
  <1>11. (IsMeant(Start, Done, full, slash))'
    BY <1>9 DEF IsMeant
  <1> QED
    BY <1>1, <1>3, <1>4, <1>9, <1>10, <1>11 DEF InDecode

LEMMA StartsWithThree ==
  ASSUME NEW S, NEW t \in Seq(S), NEW x, NEW y, NEW z, StartsWith(t, <<x, y, z>>)
  PROVE  Len(t) >= 3 /\ t[3] = z
  <1>1. Len(<<x, y, z>>) = 3 /\ Len(t) \in Nat /\ <<x, y, z>>[3] = z
    OBVIOUS
  <1>2. Len(t) >= 3 /\ SubSeq(t, 1, 3) = <<x, y, z>>
    BY <1>1 DEF StartsWith
  <1>3. 3 \in 0 .. Len(t)
    BY <1>1, <1>2
  <1>4. PICK u : u = Slice(t, 0, 3)
    OBVIOUS
  <1>5. \A k \in 1 .. 3 : u[k] = t[k]
    BY <1>3, <1>4, StartOfText
  <1>6. u = <<x, y, z>>
    BY <1>2, <1>4 DEF Slice
  <1> QED
    BY <1>1, <1>2, <1>5, <1>6

\* What is left and what is behind a part of it, in the text.
LEMMA RestReads ==
  ASSUME PartsInv, IsReading, NEW m \in Nat, m <= Len(rest)
  PROVE  /\ At \in Nat /\ At + m \in Nat /\ At + m <= Len(input) /\ Len(rest) = Len(input) - At
         /\ From(rest, m) = From(input, At + m)
         /\ Slice(rest, 0, m) = Slice(input, At, At + m)
         /\ Slice(input, 0, At) \o Slice(rest, 0, m) = Slice(input, 0, At + m)
         /\ \A k \in 1 .. Len(rest) : rest[k] = input[At + k]
  <1>1. PICK n \in Nat : n = At /\ n + m <= Len(input) /\ Len(rest) = Len(input) - n /\ n \in 0 .. Len(input)
        /\ input \in Seq(Symbols)
    BY SMTT(60) DEF IsReading, At, PartsInv, UriTypes
  <1>2. rest = From(input, n)
    BY <1>1 DEF IsReading
  <1>3. /\ From(From(input, n), m) = From(input, n + m)
        /\ Slice(From(input, n), 0, m) = Slice(input, n, n + m)
        /\ Slice(input, 0, n) \o Slice(input, n, n + m) = Slice(input, 0, n + m)
    <2>1. n \in Nat /\ m \in Nat /\ n + m <= Len(input) /\ input \in Seq(Symbols)
      BY <1>1
    <2> QED
      BY <2>1, ReadsOn
  <1>4. \A k \in 1 .. Len(input) - n : From(input, n)[k] = input[n + k]
    BY <1>1, FromText
  <1> QED
    BY <1>1, <1>2, <1>3, <1>4

LEMMA AuthorityReads ==
  PartsInv /\ IsReading /\ InAuthority /\ Authority /\ ~Fail
    => IsReading' /\ PathBegun' /\ InDecode'
  <1> SUFFICES ASSUME PartsInv, IsReading, InAuthority, Authority, ~Fail
               PROVE  IsReading' /\ PathBegun' /\ InDecode'
    OBVIOUS
  <1> DEFINE slashes == IF StartsWith(rest, <<"/", "/">>) THEN <<"/", "/">> ELSE <<>>
             behind == From(rest, Len(slashes))
             host == Slice(behind, 0, Find(behind, {"/"}))
             start == Len(full) + Len(slashes)
  <1>1. /\ step = "authority" /\ step' = "decode" /\ UNCHANGED <<input, slash>> /\ HasAuthority
        /\ full' = full \o slashes \o host /\ rest' = From(behind, Len(host))
        /\ ends' = [ends EXCEPT !.domain0 = start, !.domain1 = start + DomainEnd(host),
                                !.host_end = start + Len(host), !.path0 = start + Len(host)]
    BY DEF Authority
  <1>2. /\ input \in Seq(Symbols) /\ rest \in Seq(Symbols) /\ ends \in Offsets /\ slash = 0
    BY <1>1 DEF PartsInv, UriTypes
  <1>3. /\ ~IsHost /\ full = Slice(input, 0, At)
        /\ \/ At = 0 /\ ends.scheme_end = 0 /\ input # <<>> /\ input[1] = "/"
           \/ At = ends.scheme_end + 1 /\ input[1] # "/" /\ (ends.scheme_end = 0 => input[1] = ":")
    BY <1>1 DEF InAuthority
  <1>4. StartsWith(rest, <<"/", "/">>) <=> Len(rest) >= 2 /\ rest[1] = "/" /\ rest[2] = "/"
    BY <1>2, StartsWithTwo
  <1>5. StartsWith(rest, <<"/">>) <=> rest # <<>> /\ rest[1] = "/"
    BY <1>2, StartsWithOne
  <1>6. PICK n \in Nat, l \in Nat : n = At /\ l = Len(input) /\ n <= l /\ Len(rest) = l - n
                                    /\ (\A k \in 1 .. l - n : rest[k] = input[n + k])
    <2>1. 0 \in Nat /\ 0 <= Len(rest)
      BY <1>2
    <2>2. At \in Nat /\ At + 0 <= Len(input) /\ Len(rest) = Len(input) - At
          /\ \A k \in 1 .. Len(rest) : rest[k] = input[At + k]
      BY <2>1, RestReads
    <2>3. Len(input) \in Nat /\ At <= Len(input)
      BY <1>2, <2>2
    <2>4. \A k \in 1 .. Len(input) - At : rest[k] = input[At + k]
      BY <2>2
    <2> QED
      BY <2>2, <2>3, <2>4
  <1>7. Len(full) = n
    BY <1>2, <1>3, <1>6, StartOfText
  <1>8. PICK s \in Nat : s = Len(slashes) /\ s <= Len(rest) /\ slashes = Slice(rest, 0, s)
                         /\ (s = 2 \/ s = 0)
                         /\ (s = 2 => rest[1] = "/" /\ rest[2] = "/" /\ Len(rest) >= 2)
                         /\ (s = 0 => ~StartsWith(rest, <<"/", "/">>))
    <2>1. CASE StartsWith(rest, <<"/", "/">>)
      <3>1. slashes = <<"/", "/">> /\ Len(slashes) = 2
        BY <2>1
      <3>2. SubSeq(rest, 1, 2) = <<"/", "/">> /\ Len(rest) >= 2
        BY <1>4, <2>1, <3>1 DEF StartsWith
      <3> QED
        BY <1>4, <2>1, <3>1, <3>2 DEF Slice
    <2>2. CASE ~StartsWith(rest, <<"/", "/">>)
      <3>1. slashes = <<>> /\ Len(slashes) = 0
        BY <2>2, EmptySeq
      <3>2. SubSeq(rest, 0 + 1, 0) = <<>>
        BY SubSeqEmpty
      <3> QED
        BY <1>2, <2>2, <3>1, <3>2 DEF Slice
    <2> QED
      BY <2>1, <2>2
  <1> HIDE DEF slashes
  <1>9. behind = From(input, n + s) /\ behind \in Seq(Symbols) /\ Len(behind) = l - (n + s)
        /\ full \o slashes = Slice(input, 0, n + s)
    <2>1. /\ From(rest, s) = From(input, At + s)
          /\ Slice(input, 0, At) \o Slice(rest, 0, s) = Slice(input, 0, At + s)
      BY <1>8, RestReads
    <2>2. behind = From(rest, s)
      BY <1>8
    <2>3. From(rest, s) \in Seq(Symbols) /\ Len(From(rest, s)) = Len(rest) - s
      <3>1. s \in 0 .. Len(rest)
        BY <1>2, <1>8
      <3> QED
        BY <1>2, <3>1, FromText
    <2>4. (l - n) - s = l - (n + s)
      BY <1>6
    <2> QED
      BY <1>3, <1>6, <1>8, <2>1, <2>2, <2>3, <2>4
  <1> HIDE DEF behind
  <1>10. PICK h \in Nat : h = Len(host) /\ h <= Len(behind) /\ host = Slice(behind, 0, h)
                          /\ (h < Len(behind) => behind[h + 1] = "/")
    <2>1. PICK i \in 0 .. Len(behind) : i = Find(behind, {"/"}) /\ (i < Len(behind) => behind[i + 1] \in {"/"})
      BY <1>9, FindStops
    <2>2. Len(Slice(behind, 0, i)) = i
      BY <1>9, StartOfText
    <2> QED
      BY <1>9, <2>1, <2>2
  <1> HIDE DEF host
  <1>11. PICK p \in Nat : p = n + s + h /\ p <= l
    BY <1>6, <1>8, <1>9, <1>10, SMTT(60)
  <1>12. full' = Slice(input, 0, p) /\ rest' = From(input, p)
    <2>1. PICK m \in Nat : m = n + s /\ m + h = p /\ m + h <= Len(input)
      BY <1>6, <1>11
    <2>2. /\ From(From(input, m), h) = From(input, m + h)
          /\ Slice(From(input, m), 0, h) = Slice(input, m, m + h)
          /\ Slice(input, 0, m) \o Slice(input, m, m + h) = Slice(input, 0, m + h)
      BY <1>2, <2>1, ReadsOn
    <2>3. From(behind, h) = From(input, p) /\ host = Slice(input, m, p)
      BY <1>9, <1>10, <2>1, <2>2
    <2> QED
      BY <1>1, <1>9, <1>10, <2>1, <2>2, <2>3
  <1>13. start = n + s /\ start + h = p
    BY <1>7, <1>8, <1>11
  <1> HIDE DEF start
  <1>14. ends'.path0 = p /\ ends'.domain0 = start /\ ends'.host_end = p
    BY <1>1, <1>2, <1>10, <1>13 DEF Offsets
  <1>15. IsReading' /\ InDecode'
    BY <1>1, <1>2, <1>6, <1>11, <1>12, <1>14, DecodeBegins
  <1>16. BeginsAt(p)
    <2>1. CASE s = 2
      <3>1. p >= 2
        BY <1>11, <2>1
      <3>2. CASE At = 0
        <4>1. n = 0 /\ 2 \in 1 .. l - n /\ rest[2] = "/" /\ n + 2 = 2
          BY <1>6, <1>8, <2>1, <3>2
        <4>2. input[2] = "/"
          BY <1>6, <4>1
        <4> QED
          BY <3>1, <4>2 DEF BeginsAt
      <3>3. CASE At # 0
        BY <1>3, <3>1, <3>3 DEF BeginsAt
      <3> QED
        BY <3>2, <3>3
    <2>2. CASE s = 0
      <3>1. ~StartsWith(rest, <<"/">>) /\ ends.scheme_end = 0
        BY <1>1, <1>8, <2>2 DEF HasAuthority
      <3>2. n = 1 /\ input[1] # "/"
        <4>1. CASE At = 0 /\ input # <<>> /\ input[1] = "/"
          <5>1. Len(input) >= 1
            BY <1>2, <4>1, EmptySeq
          <5>2. 1 \in 1 .. l - n /\ n + 1 = 1
            BY <1>6, <4>1, <5>1
          <5>3. rest[1] = "/"
            BY <1>6, <4>1, <5>2
          <5>4. rest # <<>>
            <6>1. Len(<<>>) = 0
              BY EmptySeq
            <6> QED
              BY <1>6, <5>2, <6>1
          <5> QED
            BY <1>5, <3>1, <5>3, <5>4
        <4>2. CASE At = ends.scheme_end + 1 /\ input[1] # "/"
          BY <1>6, <3>1, <4>2
        <4> QED
          BY <1>3, <4>1, <4>2
      <3>3. CASE h = 0
        <4>1. Len(behind) = 0
          <5> SUFFICES ASSUME Len(behind) # 0 PROVE FALSE
            OBVIOUS
          <5>1. h < Len(behind) /\ behind[1] = "/"
            BY <1>9, <1>10, <3>3
          <5>2. behind = rest
            <6>1. From(rest, 0) = From(input, At + 0)
              BY <1>8, <2>2, RestReads
            <6>2. At + 0 = At /\ n + s = n
              BY <1>6, <2>2
            <6> QED
              BY <1>6, <1>9, <6>2 DEF IsReading
          <5>3. rest # <<>>
            BY <5>1, <5>2, EmptySeq
          <5> QED
            BY <1>5, <3>1, <5>1, <5>2, <5>3
        <4>2. l = 1 /\ p = 1
          BY <1>6, <1>9, <1>11, <2>2, <3>2, <3>3, <4>1
        <4> QED
          BY <1>6, <3>2, <4>2 DEF BeginsAt
      <3>4. CASE h # 0
        <4>1. p >= 2
          BY <1>11, <3>2, <3>4
        <4> QED
          BY <3>2, <4>1 DEF BeginsAt
      <3> QED
        BY <3>3, <3>4
    <2> QED
      BY <1>8, <2>1, <2>2
  <1>17. BeginsAt(p)'
    BY <1>1, <1>16, InputKept DEF BeginsAt
  <1>18. PathBegun'
    <2>1. start <= p
      BY <1>13
    <2> QED
      BY <1>1, <1>3, <1>6, <1>11, <1>14, <1>17, <2>1, InputKept DEF PathBegun
  <1> QED
    BY <1>15, <1>18

LEMMA NoAuthorityReads ==
  PartsInv /\ IsReading /\ InAuthority /\ NoAuthority => IsReading' /\ PathBegun' /\ InDecode'
  <1> SUFFICES ASSUME PartsInv, IsReading, InAuthority, NoAuthority
               PROVE  IsReading' /\ PathBegun' /\ InDecode'
    OBVIOUS
  <1>1. /\ step = "authority" /\ step' = "decode" /\ UNCHANGED <<input, rest, full, slash>> /\ ~HasAuthority
        /\ ends' = [ends EXCEPT !.path0 = Len(full)]
    BY DEF NoAuthority
  <1>2. /\ input \in Seq(Symbols) /\ rest \in Seq(Symbols) /\ ends \in Offsets /\ slash = 0 /\ ends.host_end = 0
    BY <1>1 DEF PartsInv, UriTypes, HostBeforePath
  <1>3. /\ ~IsHost /\ full = Slice(input, 0, At) /\ ends.domain0 = 0
        /\ \/ At = 0 /\ ends.scheme_end = 0 /\ input # <<>> /\ input[1] = "/"
           \/ At = ends.scheme_end + 1 /\ input[1] # "/" /\ (ends.scheme_end = 0 => input[1] = ":")
    BY <1>1 DEF InAuthority
  <1>4. PICK n \in Nat, l \in Nat : n = At /\ l = Len(input) /\ n <= l /\ Len(rest) = l - n
                                    /\ (\A k \in 1 .. l - n : rest[k] = input[n + k])
    <2>1. 0 \in Nat /\ 0 <= Len(rest)
      BY <1>2
    <2>2. At \in Nat /\ At + 0 <= Len(input) /\ Len(rest) = Len(input) - At
          /\ \A k \in 1 .. Len(rest) : rest[k] = input[At + k]
      BY <2>1, RestReads
    <2>3. Len(input) \in Nat /\ At <= Len(input)
      BY <1>2, <2>2
    <2>4. \A k \in 1 .. Len(input) - At : rest[k] = input[At + k]
      BY <2>2
    <2> QED
      BY <2>2, <2>3, <2>4
  <1>5. Len(full) = n
    BY <1>2, <1>3, <1>4, StartOfText
  <1>6. ends'.path0 = n /\ ends'.domain0 = 0 /\ ends'.host_end = 0
    BY <1>1, <1>2, <1>3, <1>5 DEF Offsets
  <1>7. IsReading' /\ InDecode'
    <2>1. rest' = From(input, n) /\ full' = Slice(input, 0, n)
      BY <1>1, <1>3, <1>4 DEF IsReading
    <2> QED
      BY <1>1, <1>2, <1>4, <1>6, <2>1, DecodeBegins
  <1>8. BeginsAt(n)
    <2>1. CASE At = 0 /\ input # <<>> /\ input[1] = "/"
      BY <1>4, <2>1 DEF BeginsAt
    <2>2. CASE At = ends.scheme_end + 1 /\ input[1] # "/" /\ (ends.scheme_end = 0 => input[1] = ":")
      <3>1. CASE ends.scheme_end # 0
        <4>1. n >= 2
          <5>1. ends.scheme_end \in Nat
            BY <1>2 DEF Offsets
          <5> QED
            BY <1>4, <2>2, <3>1, <5>1
        <4> QED
          BY <2>2, <4>1 DEF BeginsAt
      <3>2. CASE ends.scheme_end = 0
        <4>1. n = 1 /\ input[1] = ":" /\ ":" # "/"
          BY <1>4, <2>2, <3>2
        <4>2. StartsWith(rest, <<"/">>) /\ ~StartsWith(rest, <<"/", "/">>)
          BY <1>1, <3>2 DEF HasAuthority
        <4>3. rest # <<>> /\ rest[1] = "/"
          BY <1>2, <4>2, StartsWithOne
        <4>4. Len(rest) >= 1
          BY <1>2, <4>3, EmptySeq
        <4>5. l >= 2 /\ input[2] = "/"
          <5>1. 1 \in 1 .. l - n /\ n + 1 = 2
            BY <1>4, <4>1, <4>4
          <5> QED
            BY <1>4, <4>1, <4>3, <5>1
        <4>6. StartsWith(input, <<":", "/">>)
          BY <1>2, <1>4, <4>1, <4>5, StartsWithTwo
        <4>7. ~StartsWith(input, <<":", "/", "/">>)
          <5> SUFFICES ASSUME StartsWith(input, <<":", "/", "/">>) PROVE FALSE
            OBVIOUS
          <5>1. Len(input) >= 3 /\ input[3] = "/"
            BY <1>2, StartsWithThree
          <5>2. 2 \in 1 .. l - n /\ n + 2 = 3
            BY <1>4, <4>1, <5>1
          <5>3. Len(rest) >= 2 /\ rest[2] = "/"
            BY <1>4, <5>1, <5>2
          <5> QED
            BY <1>2, <4>2, <4>3, <5>3, StartsWithTwo
        <4> QED
          BY <4>1, <4>6, <4>7 DEF BeginsAt, LosesSlash
      <3> QED
        BY <3>1, <3>2
    <2> QED
      BY <1>3, <2>1, <2>2
  <1>9. BeginsAt(n)'
    BY <1>1, <1>8, InputKept DEF BeginsAt
  <1>10. PathBegun'
    BY <1>1, <1>3, <1>4, <1>6, <1>9, InputKept DEF PathBegun
  <1> QED
    BY <1>7, <1>10

\* One symbol of the path is read.
LEMMA ReadsOne ==
  ASSUME PartsInv, IsReading, PathBegun, InDecode, InPath, rest' = Tail(rest), UNCHANGED <<input, step, ends>>
  PROVE  /\ IsReading' /\ PathBegun' /\ Start' = Start /\ Start \in Seq(Symbols) /\ Done \in Seq(Symbols)
         /\ Done' = Append(Done, Head(rest)) /\ ends'.path0 <= At' /\ At < Len(input)
         /\ Head(rest) = input[At + 1] /\ Head(rest) \in Symbols
         /\ \A k \in 1 .. Len(Done') : Done'[k] \notin {"?", "#"}
         /\ Len(Done) = At - ends.path0 /\ Len(Start) = ends.path0
         /\ \A k \in 1 .. ends.path0 : Start[k] = input[k]
  <1>1. /\ step = "decode" /\ rest # <<>> /\ Head(rest) \notin {"?", "#"}
        /\ input \in Seq(Symbols) /\ rest \in Seq(Symbols) /\ ends \in Offsets
    BY DEF InPath, PartsInv, UriTypes
  <1>2. ends.path0 <= Len(input) /\ ends.path0 <= At /\ \A k \in 1 .. Len(Done) : Done[k] \notin {"?", "#"}
    BY <1>1 DEF PathBegun, InDecode
  <1>3. PICK n \in Nat, l \in Nat, p \in Nat :
          /\ n = At /\ l = Len(input) /\ p = ends.path0
          /\ Len(rest) = l - n /\ n < l /\ p <= n
    <2>1. Len(rest) >= 1 /\ Len(input) \in Nat
      BY <1>1, EmptySeq
    <2>2. 0 \in Nat /\ 0 <= Len(rest)
      BY <1>1
    <2>3. At \in Nat /\ Len(rest) = Len(input) - At
      BY <2>2, RestReads
    <2>4. ends.path0 \in Nat /\ At < Len(input)
      BY <1>1, <2>1, <2>3 DEF Offsets
    <2> QED
      BY <1>2, <2>1, <2>3, <2>4
  <1>4. PICK c \in Symbols : c = Head(rest) /\ c = rest[1]
    BY <1>1, HeadTailProperties
  <1>5. From(rest, 1) = From(input, n + 1) /\ rest[1] = input[n + 1]
    <2>1. 1 \in Nat /\ 1 <= Len(rest) /\ 1 \in 1 .. Len(rest)
      BY <1>3
    <2> QED
      BY <1>3, <2>1, RestReads
  <1>6. rest' = From(input, n + 1)
    <2>1. Tail(rest) = SubSeq(rest, 2, Len(rest))
      BY <1>1, TailIsSubSeq
    <2>2. 1 + 1 = 2
      OBVIOUS
    <2>3. From(rest, 1) = SubSeq(rest, 2, Len(rest))
      BY <2>2 DEF From
    <2>4. rest' = From(rest, 1)
      BY <2>1, <2>3
    <2> QED
      BY <1>5, <2>4
  <1>7. Len(rest') = l - (n + 1)
    <2>1. PICK m \in 0 .. Len(input) : m = n + 1
      BY <1>3
    <2> QED
      BY <1>1, <1>3, <1>6, <2>1, FromText
  <1>8. At' = n + 1
    <2>1. At' = Len(input) - Len(rest')
      BY DEF At
    <2>2. l - (l - (n + 1)) = n + 1
      BY <1>3
    <2> QED
      BY <1>3, <1>7, <2>1, <2>2
  <1>9. IsReading'
    BY <1>3, <1>6, <1>7, <1>8 DEF IsReading
  <1>10. BeginsAt(ends.path0)' = BeginsAt(ends.path0)
    BY InputKept DEF BeginsAt
  <1>11. PathBegun'
    BY <1>1, <1>10, InputKept DEF PathBegun
  <1>12. Start' = Start
    BY DEF Start
  <1>13. Start \in Seq(Symbols) /\ Len(Start) = p /\ \A k \in 1 .. p : Start[k] = input[k]
    <2>1. p \in 0 .. Len(input)
      BY <1>3
    <2> QED
      BY <1>1, <1>3, <2>1, StartOfText DEF Start
  <1>14. PICK done \in Seq(Symbols) : done = Done /\ Len(done) = n - p
    <2>1. p \in Nat /\ n \in p .. Len(input)
      BY <1>3
    <2>2. Slice(input, p, n) \in Seq(Symbols) /\ Len(Slice(input, p, n)) = n - p
      BY <1>1, <2>1, SliceOfText
    <2> QED
      BY <1>3, <2>2 DEF Done
  <1>15. Done' = Append(done, c)
    <2>1. Slice(input, p, n + 1) = Append(Slice(input, p, n), input[n + 1])
      BY <1>1, <1>3, OneMore
    <2> QED
      BY <1>3, <1>4, <1>5, <1>8, <1>14, <2>1 DEF Done
  <1>16. \A k \in 1 .. Len(Done') : Done'[k] \notin {"?", "#"}
    <2>1. PICK more : more = Append(done, c)
      OBVIOUS
    <2>2. Len(more) = Len(done) + 1 /\ (\A k \in 1 .. Len(done) : more[k] = done[k]) /\ more[Len(done) + 1] = c
      BY <2>1, AppendProperties
    <2>3. c \notin {"?", "#"}
      BY <1>1, <1>4
    <2>4. ASSUME NEW k \in 1 .. Len(more) PROVE more[k] \notin {"?", "#"}
      <3>1. k \in 1 .. Len(done) \/ k = Len(done) + 1
        BY <2>2
      <3> QED
        BY <1>2, <1>14, <2>2, <2>3, <3>1
    <2> QED
      BY <1>15, <2>1, <2>4
  <1> QED
    BY <1>3, <1>4, <1>5, <1>8, <1>9, <1>11, <1>12, <1>13, <1>14, <1>15, <1>16, SMTT(60)

LEMMA DecodingMeans ==
  PartsInv /\ IsReading /\ PathBegun /\ InDecode /\ (DecodeSlash \/ DecodeSymbol)
    => IsReading' /\ PathBegun' /\ InDecode'
  <1> SUFFICES ASSUME PartsInv, IsReading, PathBegun, InDecode, DecodeSlash \/ DecodeSymbol
               PROVE  IsReading' /\ PathBegun' /\ InDecode'
    OBVIOUS
  <1>1. InPath /\ rest' = Tail(rest) /\ UNCHANGED <<input, step, ends>>
    BY DEF DecodeSlash, DecodeSymbol
  <1>2. PICK start \in Seq(Symbols), done \in Seq(Symbols), c \in Symbols, n \in Nat :
          /\ start = Start /\ Start' = start /\ done = Done /\ Done' = Append(done, c)
          /\ c = Head(rest) /\ c = input[n + 1] /\ n = At /\ n < Len(input)
          /\ Len(done) = n - ends.path0 /\ Len(start) = ends.path0
          /\ \A k \in 1 .. ends.path0 : start[k] = input[k]
    <2>1. At \in Nat
      <3>1. 0 \in Nat /\ 0 <= Len(rest)
        BY DEF PartsInv, UriTypes
      <3> QED
        BY <3>1, RestReads
    <2> QED
      BY <1>1, <2>1, ReadsOne
  <1>3. /\ IsReading' /\ PathBegun' /\ ends'.path0 <= At'
        /\ \A k \in 1 .. Len(Done') : Done'[k] \notin {"?", "#"}
    BY <1>1, ReadsOne
  <1>4. Exempt' = Exempt
    BY <1>1, InputKept DEF Exempt
  <1>5. SUFFICES ASSUME ~Exempt
                 PROVE  HasClimbed(Start', Done') \/ IsMeant(Start', Done', full', slash')
    BY <1>3, <1>4 DEF InDecode
  <1>6. HasClimbed(start, done) \/ IsMeant(start, done, full, slash)
    BY <1>1, <1>2, <1>5 DEF InDecode, InPath
  <1>7. CASE HasClimbed(start, done)
    BY <1>2, <1>7, ClimbingGoesOn
  <1>8. ends.path0 \in Nat /\ BeginsAt(ends.path0) /\ input \in Seq(Symbols) /\ Len(input) \in Nat
        /\ ends.path0 <= n
    BY <1>1, <1>2 DEF PartsInv, UriTypes, Offsets, PathBegun, InPath, InDecode
  <1>9. CASE IsMeant(start, done, full, slash) /\ DecodeSlash
    <2>1. IsKept(start)
      <3>1. CASE ends.path0 = 0
        BY <1>2, <3>1, EmptySeq DEF IsKept
      <3>2. CASE ends.path0 >= 2 /\ (input[1] # "/" \/ input[2] = "/")
        <4>1. start[1] = input[1] /\ start[2] = input[2]
          BY <1>2, <1>8, <3>2
        <4> QED
          BY <1>2, <3>2, <4>1 DEF IsKept
      <3>3. CASE ends.path0 = 1 /\ (LosesSlash \/ Len(input) = 1)
        BY <1>2, <1>5, <1>8, <3>3 DEF Exempt
      <3> QED
        BY <1>8, <3>1, <3>2, <3>3 DEF BeginsAt
    <2>2. c = "/"
      BY <1>2, <1>9 DEF DecodeSlash
    <2> DEFINE k == Compressed(full, slash)
    <2>3. \/ HasClimbed(start, Append(done, "/"))
          \/ IF slash + 1 = Len(full) THEN IsMeant(start, Append(done, "/"), full, slash)
             ELSE IsMeant(start, Append(done, "/"), Append(k.text, "/"), Len(k.text))
      BY <1>9, <2>1, SlashIsMeant
    <2>4. IF slash + 1 = Len(full) THEN UNCHANGED <<full, slash>>
          ELSE full' = Append(k.text, "/") /\ slash' = Len(k.text)
      BY <1>9 DEF DecodeSlash
    <2> HIDE DEF k
    <2>5. \/ HasClimbed(start, Append(done, "/"))
          \/ IsMeant(start, Append(done, "/"), full', slash')
      BY <2>3, <2>4
    <2> QED
      BY <1>2, <2>2, <2>5
  <1>10. CASE IsMeant(start, done, full, slash) /\ DecodeSymbol
    <2>1. c # "/" /\ full' = Append(full, Decoded(c)) /\ slash' = slash
      BY <1>2, <1>10 DEF DecodeSymbol
    <2>2. c # "%/"
      <3>1. n + 1 \in 1 .. Len(input)
        BY <1>2, <1>8
      <3> QED
        BY <1>2, <1>5, <3>1 DEF Exempt, HasEscapedSlash
    <2>3. start = <<>> => done # <<>>
      <3> SUFFICES ASSUME start = <<>>, done = <<>> PROVE FALSE
        OBVIOUS
      <3>1. Len(start) = 0 /\ Len(done) = 0
        BY EmptySeq
      <3>2. ends.path0 = 0 /\ n = 0
        BY <1>2, <1>8, <3>1
      <3>3. input[1] = "/"
        BY <1>8, <3>2 DEF BeginsAt
      <3> QED
        BY <1>2, <2>1, <3>2, <3>3
    <2>4. IsMeant(start, Append(done, c), Append(full, Decoded(c)), slash)
      BY <1>10, <2>1, <2>2, <2>3, SymbolIsMeant
    <2> QED
      BY <1>2, <2>1, <2>4
  <1> QED
    BY <1>6, <1>7, <1>9, <1>10

-----------------------------------------------------------------------------
(* Behind the path *)

Premise == ~HasEscapedSlash /\ ~LosesSlash /\ (Climbs => ends.path0 = 0)

\* What is written of a path that keeps to itself, and all that is before it.
Base == Start \o Normal(RawPath)
BaseIsText == Normal(RawPath) \in Seq(Symbols)

AtQuery ==
  step = "query" =>
    /\ rest = RawTail
    /\ Premise => BaseIsText /\ full = Base

\* The query is read, with its sign, when there is one.
IsWritten(q) ==
  /\ RawTail = q \o rest
  /\ full = Base \o q
  /\ ends.path1 = Len(Base)
  /\ \/ q = <<>> /\ ends.query0 = 0
     \/ /\ q # <<>> /\ q[1] = "?" /\ rest # <<>>
        /\ ends.query0 = Len(Base) + 1 /\ ends.query1 = Len(Base) + Len(q)

AtFragment ==
  step = "fragment" =>
    /\ rest # <<>> => rest[1] = "#"
    /\ Premise => BaseIsText /\ \E q \in Seq(Symbols) : IsWritten(q)

LEMMA RawKept ==
  ASSUME input' = input, ends'.path0 = ends.path0
  PROVE  /\ RawPath' = RawPath /\ RawTail' = RawTail /\ Start' = Start
         /\ Premise' = Premise /\ Base' = Base /\ BaseIsText' = BaseIsText
  <1>1. RawPath' = RawPath /\ RawTail' = RawTail
    BY DEF RawPath, RawTail
  <1>2. Start' = Start
    BY DEF Start
  <1>3. Climbs' = Climbs
    BY <1>1 DEF Climbs
  <1>4. Premise' = Premise
    BY <1>3, InputKept DEF Premise
  <1>5. Base' = Base /\ BaseIsText' = BaseIsText
    BY <1>1, <1>2 DEF Base, BaseIsText
  <1> QED
    BY <1>1, <1>2, <1>4, <1>5

\* Where the path of the text ends, in what is behind its start.
LEMMA RawIsText ==
  ASSUME PartsInv, ends.path0 <= Len(input)
  PROVE  /\ RawPath \in Seq(Symbols) /\ RawTail \in Seq(Symbols)
         /\ RawTail # <<>> => RawTail[1] \in {"?", "#"}
  <1>1. input \in Seq(Symbols) /\ ends.path0 \in 0 .. Len(input)
    BY DEF PartsInv, UriTypes, Offsets
  <1>2. PICK behind \in Seq(Symbols) : behind = From(input, ends.path0)
    BY <1>1, FromText
  <1>3. PICK n \in 0 .. Len(behind) :
          n = Find(behind, {"?", "#"}) /\ (n < Len(behind) => behind[n + 1] \in {"?", "#"})
    BY <1>2, FindStops
  <1>4. RawPath = Slice(behind, 0, n) /\ RawTail = From(behind, n)
    BY <1>2, <1>3 DEF RawPath, RawTail
  <1>5. RawPath \in Seq(Symbols)
    BY <1>2, <1>3, <1>4, StartOfText
  <1>6. PICK tail : tail = From(behind, n)
    OBVIOUS
  <1>7. /\ tail \in Seq(Symbols) /\ Len(tail) = Len(behind) - n
        /\ \A k \in 1 .. Len(behind) - n : tail[k] = behind[n + k]
    <2>1. /\ From(behind, n) \in Seq(Symbols) /\ Len(From(behind, n)) = Len(behind) - n
          /\ \A k \in 1 .. Len(behind) - n : From(behind, n)[k] = behind[n + k]
      BY FromText
    <2> QED
      BY <1>6, <2>1
  <1>8. ASSUME tail # <<>> PROVE tail[1] \in {"?", "#"}
    <2>1. Len(tail) >= 1
      BY <1>7, <1>8, EmptySeq
    <2>2. 1 \in 1 .. Len(behind) - n /\ n < Len(behind)
      BY <1>2, <1>3, <1>7, <2>1
    <2> QED
      BY <1>3, <1>7, <2>2
  <1> QED
    BY <1>4, <1>5, <1>6, <1>7, <1>8

\* When decoding stops, the path of the text is what was read of it.
LEMMA RawIsDone ==
  ASSUME PartsInv, IsReading, PathBegun, InDecode, step = "decode", ~InPath
  PROVE  /\ RawPath = Done /\ RawTail = rest
         /\ Start \in Seq(Symbols) /\ Done \in Seq(Symbols) /\ Len(Start) = ends.path0
         /\ \A k \in 1 .. ends.path0 : Start[k] = input[k]
         /\ BeginsAt(ends.path0) /\ ends.path0 <= Len(input)
         /\ ends.path0 = Len(input) => Done = <<>>
  <1>1. /\ rest = <<>> \/ Head(rest) \in {"?", "#"}
        /\ input \in Seq(Symbols) /\ rest \in Seq(Symbols) /\ ends \in Offsets
        /\ ends.path0 \in Nat /\ ends.path0 <= At /\ BeginsAt(ends.path0) /\ ends.path0 <= Len(input)
        /\ \A k \in 1 .. Len(Done) : Done[k] \notin {"?", "#"}
    BY DEF InPath, PartsInv, UriTypes, Offsets, PathBegun, InDecode
  <1>2. PICK n \in Nat, l \in Nat, p \in Nat :
          /\ n = At /\ l = Len(input) /\ p = ends.path0 /\ p <= n /\ n <= l
          /\ Len(rest) = l - n
          /\ \A k \in 1 .. l - n : rest[k] = input[n + k]
    <2>1. 0 \in Nat /\ 0 <= Len(rest) /\ Len(input) \in Nat
      BY <1>1
    <2>2. At \in Nat /\ At + 0 <= Len(input) /\ Len(rest) = Len(input) - At
          /\ \A k \in 1 .. Len(rest) : rest[k] = input[At + k]
      BY <2>1, RestReads
    <2>3. At <= Len(input)
      BY <2>1, <2>2
    <2>4. \A k \in 1 .. Len(input) - At : rest[k] = input[At + k]
      BY <2>2
    <2> QED
      BY <1>1, <2>1, <2>2, <2>3, <2>4
  <1>3. PICK behind : behind = From(input, p)
    OBVIOUS
  <1>4. /\ behind \in Seq(Symbols) /\ behind = From(input, p) /\ Len(behind) = l - p
        /\ \A k \in 1 .. l - p : behind[k] = input[p + k]
    <2>1. p \in 0 .. Len(input)
      BY <1>2
    <2>2. /\ From(input, p) \in Seq(Symbols) /\ Len(From(input, p)) = Len(input) - p
          /\ \A k \in 1 .. Len(input) - p : From(input, p)[k] = input[p + k]
      BY <1>1, <2>1, FromText
    <2> QED
      BY <1>2, <1>3, <2>2
  <1>5. PICK m \in Nat : m = n - p /\ p + m = n /\ m \in 0 .. Len(behind) /\ m <= l - p
    <2>1. n - p \in Nat /\ p + (n - p) = n /\ n - p <= l - p /\ n - p \in 0 .. l - p
      BY <1>2
    <2> QED
      BY <1>4, <2>1
  <1>6. /\ Slice(behind, 0, m) = Slice(input, p, n) /\ From(behind, m) = From(input, n)
    <2>1. p + m <= Len(input)
      BY <1>2, <1>5
    <2>2. /\ From(From(input, p), m) = From(input, p + m)
          /\ Slice(From(input, p), 0, m) = Slice(input, p, p + m)
      BY <1>1, <2>1, ReadsOn
    <2> QED
      BY <1>4, <1>5, <2>2
  <1>7. Done = Slice(behind, 0, m) /\ rest = From(behind, m)
    BY <1>2, <1>6 DEF Done, IsReading
  <1>8. /\ Slice(behind, 0, m) \in Seq(Symbols) /\ Len(Slice(behind, 0, m)) = m
        /\ \A k \in 1 .. m : Slice(behind, 0, m)[k] = behind[k]
    BY <1>4, <1>5, StartOfText
  <1>9. \A k \in 1 .. m : behind[k] \notin {"?", "#"}
    BY <1>1, <1>7, <1>8
  <1>10. ASSUME m < Len(behind) PROVE behind[m + 1] \in {"?", "#"}
    <2>1. m < l - p
      BY <1>4, <1>10
    <2>2. m \in Nat /\ l \in Nat /\ p \in Nat /\ n \in Nat /\ p + m = n
      BY <1>2, <1>5
    <2>3. n < l /\ m + 1 \in 1 .. l - p /\ p + (m + 1) = n + 1
      BY <2>1, <2>2
    <2>4. 1 \in 1 .. l - n /\ m + 1 \in 1 .. l - p /\ p + (m + 1) = n + 1
      BY <1>2, <2>3
    <2>5. rest[1] = input[n + 1] /\ behind[m + 1] = input[n + 1]
      BY <1>2, <1>4, <2>4
    <2>6. rest # <<>>
      <3>1. Len(<<>>) = 0
        BY EmptySeq
      <3> QED
        BY <1>2, <2>4, <3>1
    <2>7. Head(rest) = rest[1]
      BY <1>1, <2>6, HeadTailProperties
    <2> QED
      BY <1>1, <2>5, <2>6, <2>7
  <1>11. Find(behind, {"?", "#"}) = m
    BY <1>4, <1>5, <1>9, <1>10, FindIs
  <1>12. RawPath = Done /\ RawTail = rest
    BY <1>2, <1>4, <1>7, <1>11 DEF RawPath, RawTail
  <1>13. Start \in Seq(Symbols) /\ Len(Start) = p /\ \A k \in 1 .. p : Start[k] = input[k]
    <2>1. p \in 0 .. Len(input)
      BY <1>2
    <2> QED
      BY <1>1, <1>2, <2>1, StartOfText, SMTT(60) DEF Start
  <1>14. Done \in Seq(Symbols) /\ Len(Done) = m
    BY <1>7, <1>8
  <1>15. ASSUME p = l PROVE Done = <<>>
    <2>1. m = 0
      BY <1>2, <1>5, <1>15
    <2> QED
      BY <1>14, <2>1, EmptySeq
  <1> QED
    BY <1>1, <1>2, <1>12, <1>13, <1>14, <1>15

LEMMA PathEndsMeaning ==
  PartsInv /\ IsReading /\ PathBegun /\ InDecode /\ PathEnds => IsReading' /\ PathBegun' /\ AtQuery'
  <1> SUFFICES ASSUME PartsInv, IsReading, PathBegun, InDecode, PathEnds
               PROVE  IsReading' /\ PathBegun' /\ AtQuery'
    OBVIOUS
  <1>1. /\ step = "decode" /\ ~InPath /\ step' = "query" /\ UNCHANGED <<input, rest>>
        /\ full' = Compressed(full, slash).text
        /\ ends' = [ends EXCEPT !.path1 = Len(Compressed(full, slash).text)]
    BY DEF PathEnds
  <1>2. PICK start, done :
          /\ start = Start /\ done = Done
          /\ start \in Seq(Symbols) /\ done \in Seq(Symbols) /\ Len(start) = ends.path0
          /\ \A k \in 1 .. ends.path0 : start[k] = input[k]
          /\ BeginsAt(ends.path0) /\ ends.path0 <= Len(input)
          /\ ends.path0 = Len(input) => done = <<>>
          /\ RawPath = done /\ RawTail = rest
    BY <1>1, RawIsDone
  <1>3. ends'.path0 = ends.path0 /\ ends'.domain0 = ends.domain0 /\ ends'.host_end = ends.host_end
        /\ ends.path0 \in Nat
    BY <1>1 DEF PartsInv, UriTypes, Offsets
  <1>4. IsReading'
    BY <1>1 DEF IsReading, At
  <1>5. PathBegun'
    <2>1. BeginsAt(ends.path0)' = BeginsAt(ends.path0) /\ IsHost' = IsHost
      BY <1>1, <1>3, InputKept DEF BeginsAt
    <2>2. ~IsHost /\ ends.path0 <= Len(input) /\ BeginsAt(ends.path0) /\ ends.domain0 <= ends.host_end
      BY <1>1 DEF PathBegun
    <2> QED
      BY <1>1, <1>3, <2>1, <2>2 DEF PathBegun, BeginsAt
  <1>6. rest' = RawTail'
    BY <1>1, <1>2, <1>3, RawKept
  <1>7. ASSUME Premise PROVE Normal(done) \in Seq(Symbols) /\ full' = start \o Normal(done)
    <2>1. ~Exempt /\ (Ups(Resolved(Tail(Components(done)))) => ends.path0 = 0)
      BY <1>2, <1>7 DEF Premise, Exempt, Climbs
    <2>2. start # <<>> => ends.path0 # 0
      BY <1>2, EmptySeq
    <2>3. ~(start # <<>> /\ Ups(Resolved(Tail(Components(done)))))
      BY <2>1, <2>2
    <2>4. ~HasClimbed(start, done)
      <3>1. "/" \in Symbols
        BY DEF Symbols
      <3>2. HasClimbed(start, done) => start # <<>>
        BY DEF HasClimbed
      <3> QED
        BY <1>2, <2>3, <3>1, <3>2, ClimbingGoesOn
    <2>5. IsMeant(start, done, full, slash)
      BY <1>1, <1>2, <2>1, <2>4 DEF InDecode
    <2>6. IsKept(start) \/ (Len(start) = 1 /\ start[1] # "/" /\ done = <<>>)
      <3>1. CASE ends.path0 = 0
        BY <1>2, <3>1, EmptySeq DEF IsKept
      <3>2. CASE ends.path0 >= 2 /\ (input[1] # "/" \/ input[2] = "/")
        <4>1. start[1] = input[1] /\ start[2] = input[2]
          BY <1>2, <1>3, <3>2
        <4> QED
          BY <1>2, <3>2, <4>1 DEF IsKept
      <3>3. CASE ends.path0 = 1 /\ input[1] # "/" /\ (LosesSlash \/ Len(input) = 1)
        <4>1. Len(input) = 1
          BY <2>1, <3>3 DEF Exempt
        <4>2. start[1] = input[1]
          BY <1>2, <3>3
        <4> QED
          BY <1>2, <3>3, <4>1, <4>2
      <3> QED
        BY <1>2, <3>1, <3>2, <3>3 DEF BeginsAt
    <2>7. Compressed(full, slash).text = start \o Normal(done) /\ Normal(done) \in Seq(Symbols)
      BY <1>2, <2>3, <2>5, <2>6, PathIsNormal
    <2> QED
      BY <1>1, <2>7
  <1>8. Premise => BaseIsText /\ full' = Base
    BY <1>2, <1>7 DEF Base, BaseIsText
  <1>9. AtQuery'
    <2>1. Premise' = Premise /\ Base' = Base /\ BaseIsText' = BaseIsText
      BY <1>1, <1>3, RawKept
    <2> QED
      BY <1>6, <1>8, <2>1 DEF AtQuery
  <1> QED
    BY <1>4, <1>5, <1>9

LEMMA ConcatEmpty ==
  ASSUME NEW S, NEW t \in Seq(S)
  PROVE  t \o <<>> = t /\ <<>> \o t = t
  BY ConcatProperties, ConcatEmptySeq

\* A text is its first symbol and what is behind that.
LEMMA FirstAndRest ==
  ASSUME NEW t \in Seq(Symbols), t # <<>>
  PROVE  t[1] \in Symbols /\ From(t, 1) \in Seq(Symbols) /\ t = <<t[1]>> \o From(t, 1)
         /\ Len(t) >= 1 /\ From(t, 1) = Slice(t, 1, Len(t))
  <1>1. Len(t) \in Nat /\ Len(t) >= 1
    BY EmptySeq
  <1>2. PICK l \in Nat : l = Len(t) /\ l >= 1
    BY <1>1
  <1>3. 1 \in 1 .. l /\ 1 \in 0 .. l /\ 1 \in 1 .. Len(t) /\ 1 \in 0 .. Len(t)
    BY <1>2
  <1>4. t[1] \in Symbols
    BY <1>3, ElementOfSeq
  <1>5. From(t, 1) = Slice(t, 1, Len(t))
    BY DEF From, Slice
  <1>6. PICK r : r = From(t, 1)
    OBVIOUS
  <1>7. r \in Seq(Symbols) /\ Len(r) = l - 1 /\ \A k \in 1 .. l - 1 : r[k] = t[1 + k]
    <2>1. /\ From(t, 1) \in Seq(Symbols) /\ Len(From(t, 1)) = Len(t) - 1
          /\ \A k \in 1 .. Len(t) - 1 : From(t, 1)[k] = t[1 + k]
      BY <1>3, FromText
    <2> QED
      BY <1>2, <1>6, <2>1
  <1>8. PICK x : x = <<t[1]>>
    OBVIOUS
  <1>9. x \in Seq(Symbols) /\ Len(x) = 1 /\ x[1] = t[1]
    BY <1>4, <1>8
  <1>10. PICK u : u = x \o r
    OBVIOUS
  <1>11. /\ u \in Seq(Symbols) /\ Len(u) = 1 + (l - 1)
         /\ \A k \in 1 .. 1 : u[k] = x[k]
         /\ \A k \in 1 .. l - 1 : u[1 + k] = r[k]
    <2>1. \A k \in 1 .. Len(x) + Len(r) : u[k] = IF k <= Len(x) THEN x[k] ELSE r[k - Len(x)]
      BY <1>7, <1>9, <1>10, ConcatProperties
    <2>2. u \in Seq(Symbols) /\ Len(u) = Len(x) + Len(r)
      BY <1>7, <1>9, <1>10, ConcatProperties
    <2>3. ASSUME NEW k \in 1 .. l - 1 PROVE u[1 + k] = r[k]
      <3>1. 1 + k \in 1 .. 1 + (l - 1) /\ ~(1 + k <= 1) /\ (1 + k) - 1 = k
        BY <1>2, <2>3
      <3> QED
        BY <1>7, <1>9, <2>1, <3>1
    <2>4. 1 \in 1 .. 1 + (l - 1) /\ 1 <= 1
      BY <1>2
    <2>5. u[1] = x[1]
      BY <1>7, <1>9, <2>1, <2>4
    <2> QED
      BY <1>7, <1>9, <2>2, <2>3, <2>5
  <1>12. ASSUME NEW k \in 1 .. l PROVE u[k] = t[k]
    <2>1. CASE k = 1
      BY <1>3, <1>9, <1>11, <2>1
    <2>2. CASE k # 1
      <3>1. PICK j \in 1 .. l - 1 : k = 1 + j
        <4>1. k - 1 \in 1 .. l - 1 /\ k = 1 + (k - 1)
          BY <1>2, <2>2
        <4> QED
          BY <4>1
      <3> QED
        BY <1>7, <1>11, <3>1
    <2> QED
      BY <2>1, <2>2
  <1>13. Len(u) = Len(t)
    BY <1>2, <1>11
  <1>14. u = t
    BY <1>2, <1>11, <1>12, <1>13, SeqEqual
  <1> QED
    BY <1>1, <1>4, <1>5, <1>6, <1>7, <1>8, <1>10, <1>14

LEMMA NoQueryMeaning ==
  PartsInv /\ PathBegun /\ AtQuery /\ NoQuery => PathBegun' /\ AtFragment'
  <1> SUFFICES ASSUME PartsInv, PathBegun, AtQuery, NoQuery PROVE PathBegun' /\ AtFragment'
    OBVIOUS
  <1>1. /\ step = "query" /\ step' = "fragment" /\ UNCHANGED <<input, rest, full, ends>>
        /\ ~StartsWith(rest, <<"?">>)
        /\ input \in Seq(Symbols) /\ rest \in Seq(Symbols) /\ full \in Seq(Symbols)
        /\ ends.query0 = 0 /\ ends.path1 = Len(full)
        /\ rest = RawTail /\ (Premise => BaseIsText /\ full = Base)
    BY DEF NoQuery, PartsInv, UriTypes, NothingYet, PathBeforeTheRest, AtQuery
  <1>2. PathBegun'
    <2>1. BeginsAt(ends.path0)' = BeginsAt(ends.path0) /\ IsHost' = IsHost
      BY <1>1, InputKept DEF BeginsAt
    <2> QED
      BY <1>1, <2>1 DEF PathBegun, BeginsAt
  <1>3. rest # <<>> => rest[1] = "#"
    <2>1. ends.path0 <= Len(input)
      BY <1>1 DEF PathBegun
    <2>2. RawTail # <<>> => RawTail[1] \in {"?", "#"}
      BY <2>1, RawIsText
    <2>3. StartsWith(rest, <<"?">>) <=> rest # <<>> /\ rest[1] = "?"
      BY <1>1, StartsWithOne
    <2> QED
      BY <1>1, <2>2, <2>3
  <1>4. ASSUME Premise PROVE IsWritten(<<>>)
    <2>1. <<>> \o rest = rest /\ full \o <<>> = full
      BY <1>1, ConcatEmpty
    <2> QED
      BY <1>1, <1>4, <2>1 DEF IsWritten
  <1>5. AtFragment'
    <2>1. /\ Premise' = Premise /\ Base' = Base /\ BaseIsText' = BaseIsText /\ RawTail' = RawTail
      BY <1>1, RawKept
    <2>2. \A q : IsWritten(q) => IsWritten(q)'
      BY <1>1, <2>1 DEF IsWritten
    <2>3. <<>> \in Seq(Symbols)
      BY EmptyLists
    <2>4. Premise => \E q \in Seq(Symbols) : IsWritten(q)'
      BY <1>4, <2>2, <2>3
    <2> QED
      BY <1>1, <1>3, <2>1, <2>4 DEF AtFragment
  <1> QED
    BY <1>2, <1>5

LEMMA QueryMeaning ==
  PartsInv /\ PathBegun /\ AtQuery /\ Query /\ step' # "panicked" => PathBegun' /\ AtFragment'
  <1> SUFFICES ASSUME PartsInv, PathBegun, AtQuery, Query, step' # "panicked"
               PROVE  PathBegun' /\ AtFragment'
    OBVIOUS
  <1>1. /\ step = "query" /\ StartsWith(rest, <<"?">>) /\ input' = input
        /\ input \in Seq(Symbols) /\ rest \in Seq(Symbols) /\ full \in Seq(Symbols) /\ ends \in Offsets
        /\ ends.path1 = Len(full)
        /\ rest = RawTail /\ (Premise => BaseIsText /\ full = Base)
    BY DEF Query, PartsInv, UriTypes, NothingYet, PathBeforeTheRest, AtQuery
  <1>2. PICK e : e = Find(Tail(rest), {"#"})
    OBVIOUS
  <1>3. /\ e # Len(Tail(rest)) /\ step' = "fragment" /\ full' = full \o Slice(rest, 0, e + 1)
        /\ ends' = [ends EXCEPT !.query0 = Len(full) + 1, !.query1 = Len(full) + 1 + e]
        /\ rest' = From(rest, e + 1)
    BY <1>1, <1>2 DEF Query
  <1>4. rest # <<>> /\ rest[1] = "?"
    BY <1>1, StartsWithOne
  <1>5. PICK tail : tail = Tail(rest)
    OBVIOUS
  <1>6. PICK l \in Nat : /\ l = Len(rest) /\ l >= 1 /\ tail \in Seq(Symbols) /\ Len(tail) = l - 1
                         /\ \A k \in 1 .. l - 1 : tail[k] = rest[k + 1]
    <2>1. Len(rest) \in Nat /\ Len(rest) >= 1
      BY <1>1, <1>4, EmptySeq
    <2>2. tail \in Seq(Symbols) /\ Len(tail) = Len(rest) - 1 /\ \A k \in 1 .. Len(rest) - 1 : tail[k] = rest[k + 1]
      BY <1>1, <1>4, <1>5, HeadTailProperties
    <2> QED
      BY <2>1, <2>2
  <1>7. e \in 0 .. Len(tail) /\ (e < Len(tail) => tail[e + 1] \in {"#"})
    BY <1>2, <1>5, <1>6, FindStops
  <1>8. e \in Nat /\ e < l - 1 /\ e + 1 \in 0 .. l /\ e + 1 \in 1 .. l - 1 /\ l - (e + 1) >= 1
        /\ (e + 1) + 1 \in 1 .. l /\ 1 \in 1 .. l - (e + 1)
    BY <1>3, <1>5, <1>6, <1>7
  <1>9. PICK m \in Nat : m = e + 1
    BY <1>8
  <1>10. PICK q, r : q = Slice(rest, 0, m) /\ r = From(rest, m)
    OBVIOUS
  <1>11. /\ q \in Seq(Symbols) /\ Len(q) = m /\ \A k \in 1 .. m : q[k] = rest[k]
    <2>1. m \in 0 .. Len(rest)
      BY <1>6, <1>8, <1>9
    <2>2. /\ Slice(rest, 0, m) \in Seq(Symbols) /\ Len(Slice(rest, 0, m)) = m
          /\ \A k \in 1 .. m : Slice(rest, 0, m)[k] = rest[k]
      BY <1>1, <2>1, StartOfText
    <2> QED
      BY <1>10, <2>2
  <1>12. /\ r \in Seq(Symbols) /\ Len(r) = l - m /\ r[1] = rest[m + 1]
    <2>1. m \in 0 .. Len(rest)
      BY <1>6, <1>8, <1>9
    <2>2. /\ From(rest, m) \in Seq(Symbols) /\ Len(From(rest, m)) = Len(rest) - m
          /\ \A k \in 1 .. Len(rest) - m : From(rest, m)[k] = rest[m + k]
      BY <1>1, <2>1, FromText
    <2>3. 1 \in 1 .. Len(rest) - m
      BY <1>6, <1>8, <1>9
    <2> QED
      BY <1>6, <1>10, <2>2, <2>3
  <1>13. r # <<>> /\ r[1] = "#"
    <2>1. Len(r) # 0
      BY <1>8, <1>9, <1>12
    <2>2. tail[m] = rest[m + 1] /\ tail[m] = "#"
      BY <1>6, <1>7, <1>8, <1>9
    <2> QED
      BY <1>12, <2>1, <2>2, EmptySeq
  <1>14. rest = q \o r
    <2>1. 0 + m = m /\ m <= Len(rest) /\ 0 + m <= Len(rest)
      BY <1>6, <1>8, <1>9
    <2>2. Slice(rest, 0, 0 + m) \o From(rest, 0 + m) = From(rest, 0)
      BY <1>1, <2>1, ReadsOn
    <2>3. From(rest, 0) = rest
      BY <1>1, SubSeqFull DEF From
    <2> QED
      BY <1>10, <2>1, <2>2, <2>3
  <1>15. q # <<>> /\ q[1] = "?"
    <2>1. 1 \in 1 .. m /\ m # 0
      BY <1>8, <1>9
    <2> QED
      BY <1>4, <1>11, <2>1, EmptySeq
  <1>16. /\ ends'.path0 = ends.path0 /\ ends'.domain0 = ends.domain0 /\ ends'.host_end = ends.host_end
         /\ ends'.path1 = ends.path1 /\ ends'.query0 = Len(full) + 1 /\ ends'.query1 = Len(full) + Len(q)
    <2>1. Len(full) + 1 + e = Len(full) + Len(q)
      BY <1>1, <1>8, <1>9, <1>11
    <2> QED
      BY <1>1, <1>3, <2>1 DEF Offsets
  <1>17. rest' = r /\ full' = full \o q
    BY <1>3, <1>9, <1>10
  <1>18. PathBegun'
    <2>1. BeginsAt(ends.path0)' = BeginsAt(ends.path0) /\ IsHost' = IsHost
      BY <1>1, <1>16, InputKept DEF BeginsAt
    <2> QED
      BY <1>1, <1>16, <2>1 DEF PathBegun, BeginsAt
  <1>19. AtFragment'
    <2>1. /\ Premise' = Premise /\ Base' = Base /\ BaseIsText' = BaseIsText /\ RawTail' = RawTail
      BY <1>1, <1>16, RawKept
    <2>2. ASSUME Premise PROVE IsWritten(q)'
      <3>1. full = Base
        BY <1>1, <2>2
      <3>2. /\ RawTail' = q \o rest' /\ full' = Base' \o q /\ ends'.path1 = Len(Base') /\ rest' # <<>>
            /\ ends'.query0 = Len(Base') + 1 /\ ends'.query1 = Len(Base') + Len(q)
        BY <1>1, <1>13, <1>14, <1>16, <1>17, <2>1, <3>1
      <3> QED
        BY <1>15, <3>2 DEF IsWritten
    <2>3. Premise => \E p \in Seq(Symbols) : IsWritten(p)'
      BY <1>11, <2>2
    <2>4. rest' # <<>> => rest'[1] = "#"
      BY <1>13, <1>17
    <2> QED
      BY <1>1, <1>3, <2>1, <2>3, <2>4 DEF AtFragment
  <1> QED
    BY <1>18, <1>19

\* The parser panics only at a query that no fragment follows.
NoFragmentFollows ==
  \E q \in 1 .. Len(input) : input[q] = "?" /\ \A k \in q .. Len(input) : input[k] # "#"

LEMMA QueryPanics ==
  PartsInv /\ IsReading /\ Query /\ step' = "panicked" => NoFragmentFollows
  <1> SUFFICES ASSUME PartsInv, IsReading, Query, step' = "panicked" PROVE NoFragmentFollows
    OBVIOUS
  <1>1. /\ StartsWith(rest, <<"?">>) /\ rest \in Seq(Symbols)
        /\ Find(Tail(rest), {"#"}) = Len(Tail(rest))
    BY DEF Query, PartsInv, UriTypes
  <1>2. rest # <<>> /\ rest[1] = "?"
    BY <1>1, StartsWithOne
  <1>3. PICK tail : tail = Tail(rest)
    OBVIOUS
  <1>4. PICK l \in Nat, n \in Nat, i \in Nat :
           /\ l = Len(rest) /\ l >= 1 /\ n = At /\ i = Len(input) /\ l = i - n
           /\ \A k \in 1 .. l : rest[k] = input[n + k]
    <2>1. Len(rest) \in Nat /\ Len(rest) >= 1 /\ 0 \in Nat /\ 0 <= Len(rest)
      BY <1>1, <1>2, EmptySeq
    <2>2. At \in Nat /\ Len(rest) = Len(input) - At /\ \A k \in 1 .. Len(rest) : rest[k] = input[At + k]
      BY <2>1, RestReads
    <2>3. Len(input) \in Nat
      BY DEF PartsInv, UriTypes
    <2> QED
      BY <2>1, <2>2, <2>3
  <1>5. tail \in Seq(Symbols) /\ Len(tail) = l - 1 /\ \A k \in 1 .. l - 1 : tail[k] = rest[k + 1]
    <2>1. tail \in Seq(Symbols) /\ Len(tail) = Len(rest) - 1 /\ \A k \in 1 .. Len(rest) - 1 : tail[k] = rest[k + 1]
      BY <1>1, <1>2, <1>3, HeadTailProperties
    <2> QED
      BY <1>4, <2>1
  <1>6. \A k \in 1 .. Len(tail) : tail[k] # "#"
    <2>1. \A k \in 1 .. Find(tail, {"#"}) : tail[k] \notin {"#"}
      BY <1>5, FindStops
    <2> QED
      BY <1>1, <1>3, <2>1
  <1>7. n + 1 \in 1 .. Len(input) /\ input[n + 1] = "?"
    <2>1. n + 1 \in 1 .. i /\ 1 \in 1 .. l
      BY <1>4
    <2> QED
      BY <1>2, <1>4, <2>1
  <1>8. ASSUME NEW k \in n + 1 .. Len(input) PROVE input[k] # "#"
    <2>1. CASE k = n + 1
      BY <1>7, <2>1
    <2>2. CASE k # n + 1
      <3>1. PICK j \in 1 .. l - 1 : k = n + (j + 1)
        <4>1. (k - n) - 1 \in 1 .. l - 1 /\ k = n + (((k - n) - 1) + 1)
          BY <1>4, <2>2
        <4> QED
          BY <4>1
      <3>2. j + 1 \in 1 .. l
        BY <1>4
      <3>3. tail[j] = rest[j + 1] /\ rest[j + 1] = input[k] /\ tail[j] # "#"
        BY <1>4, <1>5, <1>6, <3>1, <3>2
      <3> QED
        BY <3>3
    <2> QED
      BY <2>1, <2>2
  <1> QED
    BY <1>7, <1>8 DEF NoFragmentFollows

IsPutTogether(u, s, p, q, r) == u = ((s \o p) \o q) \o r

HasParts(u, s, p, q, r) ==
  /\ u = (s \o p) \o (q \o r)
  /\ Len(s \o p) = Len(s) + Len(p) /\ Len(s) + Len(p) <= Len(u)
  /\ Slice(u, Len(s), Len(s) + Len(p)) = p
  /\ q # <<>> => Slice(u, Len(s \o p) + 1, Len(s \o p) + Len(q)) = From(q, 1)
  /\ r # <<>> => From(u, Len((s \o p) \o q) + 1) = From(r, 1)

\* The parts of a text put together from what is before a path, a path, a query and a
\* fragment.
LEMMA PartsOfAll ==
  ASSUME NEW s \in Seq(Symbols), NEW p \in Seq(Symbols), NEW q \in Seq(Symbols), NEW r \in Seq(Symbols),
         NEW u, IsPutTogether(u, s, p, q, r)
  PROVE  u \in Seq(Symbols) /\ HasParts(u, s, p, q, r)
  <1>1. PICK b : b = s \o p
    OBVIOUS
  <1>2. PICK ls \in Nat, lp \in Nat, lq \in Nat, lr \in Nat :
          ls = Len(s) /\ lp = Len(p) /\ lq = Len(q) /\ lr = Len(r)
    OBVIOUS
  <1>3. b \in Seq(Symbols) /\ Len(b) = ls + lp /\ \A k \in 1 .. lp : b[ls + k] = p[k]
    <2>1. b \in Seq(Symbols) /\ Len(b) = Len(s) + Len(p)
          /\ \A k \in 1 .. Len(s) + Len(p) : b[k] = IF k <= Len(s) THEN s[k] ELSE p[k - Len(s)]
      BY <1>1, ConcatProperties
    <2>2. ASSUME NEW k \in 1 .. lp PROVE b[ls + k] = p[k]
      <3>1. ls + k \in 1 .. ls + lp /\ ~(ls + k <= ls) /\ (ls + k) - ls = k
        BY <1>2
      <3> QED
        BY <1>2, <2>1, <3>1
    <2> QED
      BY <1>2, <2>1, <2>2
  <1>4. PICK n \in Nat : n = ls + lp
    BY <1>2
  <1>5. /\ u \in Seq(Symbols) /\ Len(u) = n + lq + lr
        /\ \A k \in 1 .. n : u[k] = b[k]
        /\ \A k \in 1 .. lq : u[n + k] = q[k]
        /\ \A k \in 1 .. lr : u[n + lq + k] = r[k]
    <2>1. (b \o q) \o r \in Seq(Symbols) /\ IsConcatOfThree((b \o q) \o r, b, q, r)
      BY <1>3, ConcatOfThree
    <2> QED
      BY <1>1, <1>2, <1>3, <1>4, <2>1 DEF IsConcatOfThree, IsPutTogether
  <1>6. u \in Seq(Symbols)
    BY <1>5
  <1>7. u = b \o (q \o r)
    <2>1. (b \o q) \o r = b \o (q \o r)
      <3>1. IsRegrouped(b, q, r)
        BY <1>3, Regroups
      <3> QED
        BY <3>1, Zenon DEF IsRegrouped
    <2> QED
      BY <1>1, <2>1, Zenon DEF IsPutTogether
  <1>8. Slice(u, ls, n) = p
    <2>1. ls \in Nat /\ n \in ls .. Len(u) /\ 0 \in Nat /\ lp \in 0 .. Len(p) /\ n - ls = lp - 0
      BY <1>2, <1>4, <1>5
    <2>2. ASSUME NEW k \in 1 .. lp - 0 PROVE u[ls + k] = p[0 + k]
      <3>1. k \in 1 .. lp /\ ls + k \in 1 .. n /\ 0 + k = k
        BY <1>2, <1>4
      <3> QED
        BY <1>3, <1>5, <3>1
    <2>3. IsPart(u, ls, n, p, 0, lp)
      BY <2>1, <2>2 DEF IsPart
    <2>4. Slice(u, ls, n) = Slice(p, 0, lp)
      BY <1>6, <2>1, <2>3, SliceMoves
    <2>5. Slice(p, 0, Len(p)) = p
      <3>1. SubSeq(p, 1, Len(p)) = p /\ 0 + 1 = 1
        BY SubSeqFull
      <3> QED
        BY <3>1 DEF Slice
    <2> QED
      BY <1>2, <2>4, <2>5
  <1>9. ASSUME q # <<>> PROVE Slice(u, n + 1, n + lq) = From(q, 1)
    <2>1. Len(q) >= 1 /\ From(q, 1) = Slice(q, 1, Len(q))
      BY <1>9, FirstAndRest
    <2>2. n + 1 \in Nat /\ n + lq \in n + 1 .. Len(u) /\ 1 \in Nat /\ lq \in 1 .. Len(q)
          /\ (n + lq) - (n + 1) = lq - 1
      BY <1>2, <1>5, <2>1
    <2>3. ASSUME NEW k \in 1 .. lq - 1 PROVE u[(n + 1) + k] = q[1 + k]
      <3>1. 1 + k \in 1 .. lq /\ (n + 1) + k = n + (1 + k)
        BY <1>2
      <3> QED
        BY <1>5, <3>1
    <2>4. IsPart(u, n + 1, n + lq, q, 1, lq)
      BY <2>2, <2>3 DEF IsPart
    <2>5. Slice(u, n + 1, n + lq) = Slice(q, 1, lq)
      <3>1. PICK x \in Nat, y \in Nat : x = n + 1 /\ y = n + lq /\ y \in x .. Len(u)
        BY <2>2
      <3> QED
        BY <1>6, <2>2, <2>4, <3>1, SliceMoves
    <2> QED
      BY <1>2, <2>1, <2>5
  <1>10. ASSUME r # <<>> PROVE From(u, (n + lq) + 1) = From(r, 1)
    <2>1. Len(r) >= 1 /\ From(r, 1) = Slice(r, 1, Len(r))
      BY <1>10, FirstAndRest
    <2>2. PICK x \in Nat, y \in Nat : x = (n + lq) + 1 /\ y = Len(u) /\ y \in x .. Len(u)
                         /\ lr \in 1 .. Len(r) /\ y - x = lr - 1
      <3>1. (n + lq) + 1 \in Nat /\ Len(u) \in Nat /\ Len(u) \in (n + lq) + 1 .. Len(u)
            /\ lr \in 1 .. Len(r) /\ Len(u) - ((n + lq) + 1) = lr - 1
        BY <1>2, <1>5, <2>1
      <3> QED
        BY <3>1
    <2>3. ASSUME NEW k \in 1 .. lr - 1 PROVE u[x + k] = r[1 + k]
      <3>1. 1 + k \in 1 .. lr /\ x + k = n + lq + (1 + k)
        BY <1>2, <2>2
      <3> QED
        BY <1>5, <3>1
    <2>4. IsPart(u, x, y, r, 1, lr)
      BY <2>2, <2>3 DEF IsPart
    <2>5. Slice(u, x, y) = Slice(r, 1, lr)
      <3>1. 1 \in Nat
        OBVIOUS
      <3> QED
        BY <1>6, <2>2, <2>4, <3>1, SliceMoves
    <2>6. From(u, x) = Slice(u, x, y)
      BY <2>2 DEF From, Slice
    <2> QED
      BY <1>2, <2>1, <2>2, <2>5, <2>6
  <1>11. Len(b \o q) = n + lq
    <2>1. Len(b \o q) = Len(b) + Len(q)
      BY <1>3, ConcatProperties
    <2> QED
      BY <1>2, <1>3, <1>4, <2>1
  <1>12. Len(s) + Len(p) <= Len(u)
    BY <1>2, <1>4, <1>5
  <1> QED
    BY <1>1, <1>2, <1>3, <1>4, <1>7, <1>8, <1>9, <1>10, <1>11, <1>12, <1>6, Zenon DEF HasParts

\* What is said of a uri that has a path.
PartsAreMeant ==
  /\ full = Slice(input, 0, ends.path0) \o Normal(RawPath) \o RawTail
  /\ Readable
  /\ Path(full, ends) = Normal(RawPath)
  /\ ends.query0 > 0 => RawTail = <<"?">> \o QueryOf(full, ends) \o <<"#">> \o FragmentOf(full, ends)
  /\ ends.query0 = 0 /\ ends.fragment_start > 0 => RawTail = <<"#">> \o FragmentOf(full, ends)

LEMMA FragmentMeaning ==
  ASSUME PartsInv, PathBegun, AtFragment, Fragment, Premise
  PROVE  PartsAreMeant'
  <1>1. /\ step = "fragment" /\ input' = input
        /\ input \in Seq(Symbols) /\ rest \in Seq(Symbols) /\ full \in Seq(Symbols) /\ ends \in Offsets
        /\ ends.host_end <= ends.path0 /\ ends.fragment_start = 0
        /\ ends.path0 <= Len(input) /\ ends.domain0 <= ends.host_end
        /\ (rest # <<>> => rest[1] = "#") /\ BaseIsText
    BY DEF Fragment, PartsInv, UriTypes, NothingYet, HostBeforePath, PathBegun, AtFragment
  <1>2. PICK q \in Seq(Symbols) : IsWritten(q)
    BY <1>1 DEF AtFragment
  <1>3. PICK s, p, r : s = Start /\ p = Normal(RawPath) /\ r = rest
    OBVIOUS
  <1>4. /\ s \in Seq(Symbols) /\ p \in Seq(Symbols) /\ r \in Seq(Symbols) /\ Base = s \o p
        /\ Len(s) = ends.path0
    <2>1. ends.path0 \in 0 .. Len(input)
      BY <1>1 DEF Offsets
    <2> QED
      BY <1>1, <1>3, <2>1, StartOfText DEF Start, Base, BaseIsText
  <1>5. /\ RawTail = q \o r /\ full = (s \o p) \o q /\ ends.path1 = Len(s \o p)
        /\ \/ q = <<>> /\ ends.query0 = 0
           \/ /\ q # <<>> /\ q[1] = "?" /\ r # <<>>
              /\ ends.query0 = Len(s \o p) + 1 /\ ends.query1 = Len(s \o p) + Len(q)
    BY <1>2, <1>3, <1>4 DEF IsWritten
  <1>6. PICK u : u = full'
    OBVIOUS
  <1>7. IsPutTogether(u, s, p, q, r)
    <2>1. CASE rest = <<>>
      <3>1. full' = full /\ full \o <<>> = full
        BY <1>1, <2>1, ConcatEmpty DEF Fragment
      <3> QED
        BY <1>3, <1>5, <1>6, <2>1, <3>1 DEF IsPutTogether
    <2>2. CASE rest # <<>>
      <3>1. full' = full \o rest
        BY <2>2 DEF Fragment
      <3> QED
        BY <1>3, <1>5, <1>6, <3>1 DEF IsPutTogether
    <2> QED
      BY <2>1, <2>2
  <1>8. PICK e : e = ends'
    OBVIOUS
  <1>9. /\ e.domain0 = ends.domain0 /\ e.host_end = ends.host_end /\ e.path0 = ends.path0
        /\ e.path1 = ends.path1 /\ e.query0 = ends.query0 /\ e.query1 = ends.query1
        /\ e.fragment_start = IF r = <<>> THEN 0 ELSE Len(full) + 1
    BY <1>1, <1>3, <1>8 DEF Fragment, Offsets
  <1>10. /\ u = (s \o p) \o (q \o r)
         /\ Len(s \o p) = Len(s) + Len(p) /\ Len(s) + Len(p) <= Len(u)
         /\ Slice(u, Len(s), Len(s) + Len(p)) = p
         /\ q # <<>> => Slice(u, Len(s \o p) + 1, Len(s \o p) + Len(q)) = From(q, 1)
         /\ r # <<>> => From(u, Len((s \o p) \o q) + 1) = From(r, 1)
    <2>1. q \in Seq(Symbols) /\ s \in Seq(Symbols) /\ p \in Seq(Symbols) /\ r \in Seq(Symbols)
      BY <1>2, <1>4
    <2> QED
      BY <1>7, <2>1, PartsOfAll, SMTT(60) DEF HasParts
  <1>11. RawPath' = RawPath /\ RawTail' = RawTail
    BY <1>1, <1>8, <1>9, RawKept
  <1>12. full' = Slice(input, 0, ends.path0)' \o Normal(RawPath)' \o RawTail'
    BY <1>1, <1>3, <1>5, <1>6, <1>8, <1>9, <1>10, <1>11 DEF Start
  <1>13. Readable'
    <2>1. PICK a \in Nat, b \in Nat, c \in Nat, d \in Nat, m \in Nat :
            a = ends.domain0 /\ b = ends.host_end /\ c = ends.path0 /\ d = Len(p) /\ m = Len(u)
      <3>1. Len(u) \in Nat
        <4>1. u \in Seq(Symbols)
          <5>1. s \o p \in Seq(Symbols) /\ q \o r \in Seq(Symbols)
            BY <1>2, <1>4, ConcatProperties
          <5> QED
            BY <1>10, <5>1, ConcatProperties
        <4> QED
          BY <4>1
      <3>2. ends.domain0 \in Nat /\ ends.host_end \in Nat /\ ends.path0 \in Nat
        BY <1>1 DEF Offsets
      <3>3. Len(p) \in Nat
        BY <1>4
      <3> QED
        BY <3>1, <3>2, <3>3
    <2>2. a <= b /\ b <= c /\ c + d <= m /\ ends.path1 = c + d
      BY <1>1, <1>4, <1>5, <1>10, <2>1
    <2>3. a <= b /\ b <= m /\ c <= c + d /\ c + d <= m
      BY <2>1, <2>2
    <2>4. e.domain0 <= e.host_end /\ e.host_end <= Len(u) /\ e.path0 <= e.path1 /\ e.path1 <= Len(u)
      BY <1>9, <2>1, <2>2, <2>3
    <2> QED
      BY <1>6, <1>8, <2>4 DEF Readable
  <1>14. Path(full, ends)' = Normal(RawPath)'
    <2>1. Path(u, e) = p
      BY <1>4, <1>5, <1>9, <1>10 DEF Path
    <2> QED
      BY <1>3, <1>6, <1>8, <1>11, <2>1
  <1>15. r # <<>> => r = <<"#">> \o FragmentOf(u, e) /\ <<"#">> \in Seq(Symbols)
                     /\ FragmentOf(u, e) \in Seq(Symbols)
    <2> SUFFICES ASSUME r # <<>>
                 PROVE  r = <<"#">> \o FragmentOf(u, e) /\ <<"#">> \in Seq(Symbols)
                        /\ FragmentOf(u, e) \in Seq(Symbols)
      OBVIOUS
    <2>1. r[1] \in Symbols /\ From(r, 1) \in Seq(Symbols) /\ r = <<r[1]>> \o From(r, 1) /\ r[1] = "#"
      BY <1>1, <1>3, <1>4, FirstAndRest
    <2>2. FragmentOf(u, e) = From(r, 1)
      BY <1>5, <1>9, <1>10 DEF FragmentOf
    <2>3. <<"#">> \in Seq(Symbols)
      BY <2>1
    <2> QED
      BY <2>1, <2>2, <2>3, Zenon
  <1>16. ASSUME e.query0 > 0
         PROVE  RawTail = <<"?">> \o QueryOf(u, e) \o <<"#">> \o FragmentOf(u, e)
    <2>1. /\ q # <<>> /\ q[1] = "?" /\ r # <<>>
          /\ e.query0 = Len(s \o p) + 1 /\ e.query1 = Len(s \o p) + Len(q)
      BY <1>5, <1>9, <1>16
    <2>2. QueryOf(u, e) = From(q, 1)
      BY <1>10, <2>1 DEF QueryOf
    <2>3. q = <<"?">> \o QueryOf(u, e)
      <3>1. q = <<q[1]>> \o From(q, 1)
        BY <2>1, FirstAndRest
      <3> QED
        BY <2>1, <2>2, <3>1, Zenon
    <2>4. r = <<"#">> \o FragmentOf(u, e)
      BY <1>15, <2>1, Zenon
    <2>5. (q \o <<"#">>) \o FragmentOf(u, e) = q \o (<<"#">> \o FragmentOf(u, e))
      <3>1. IsRegrouped(q, <<"#">>, FragmentOf(u, e))
        BY <1>15, <2>1, Regroups
      <3> QED
        BY <3>1, Zenon DEF IsRegrouped
    <2>6. RawTail = (q \o <<"#">>) \o FragmentOf(u, e)
      BY <1>5, <2>4, <2>5, Zenon
    <2> QED
      BY <2>3, <2>6, Zenon
  <1>17. ASSUME e.query0 = 0, e.fragment_start > 0
         PROVE  RawTail = <<"#">> \o FragmentOf(u, e)
    <2>1. r # <<>>
      BY <1>9, <1>17
    <2>2. q = <<>>
      <3>1. Len(s \o p) \in Nat
        BY <1>4, ConcatProperties
      <3>2. Len(s \o p) + 1 # 0
        BY <3>1
      <3> QED
        BY <1>5, <1>9, <1>17, <3>2
    <2>3. <<>> \o r = r
      BY <1>4, ConcatEmpty
    <2>4. RawTail = r
      BY <1>5, <2>2, <2>3
    <2> QED
      BY <1>15, <2>1, <2>4, Zenon
  <1> QED
    BY <1>6, <1>8, <1>11, <1>12, <1>13, <1>14, <1>16, <1>17 DEF PartsAreMeant

-----------------------------------------------------------------------------
(* The theorems *)

LEMMA UriInvIsInductive == UriInv /\ [UriNext]_uvars => UriInv'
  <1> SUFFICES ASSUME UriInv, [UriNext]_uvars PROVE UriInv'
    OBVIOUS
  <1>1. PartsInv /\ RestIsKept
    BY DEF UriInv
  <1>2. ASSUME step' # "replaced", PartsInv' PROVE UriInv'
    BY <1>2 DEF UriInv, RestIsKept
  <1>3. CASE HostOnly \/ Scheme \/ NoAuthority
    BY <1>1, <1>2, <1>3, BeginningsKeep DEF HostOnly, Scheme, NoAuthority
  <1>4. CASE Authority
    <2>1. step' # "replaced"
      BY <1>4 DEF Authority, Fail
    <2> QED
      BY <1>1, <1>2, <1>4, <2>1, AuthorityKeeps
  <1>5. CASE DecodeSlash \/ DecodeSymbol \/ PathEnds
    <2>1. step' # "replaced"
      BY <1>5 DEF DecodeSlash, DecodeSymbol, PathEnds, InPath
    <2> QED
      BY <1>1, <1>2, <1>5, <2>1, DecodingKeeps
  <1>6. CASE DecodeFails
    BY <1>1, <1>2, <1>6, FailKeeps DEF DecodeFails, Fail
  <1>7. CASE Query \/ NoQuery \/ Fragment
    <2>1. step' # "replaced"
      BY <1>7 DEF Query, NoQuery, Fragment
    <2> QED
      BY <1>1, <1>2, <1>7, <2>1, TailKeeps
  <1>8. CASE ReplacePathPrefix
    BY <1>1, <1>8, ReplacementKeeps
  <1>9. CASE UriDone \/ UNCHANGED uvars
    <2>1. UNCHANGED uvars
      BY <1>9 DEF UriDone
    <2> QED
      BY <1>1, <2>1 DEF uvars, UriInv, PartsInv, UriTypes, NothingYet, HostBeforePath,
                        PathBeforeTheRest, RestIsKept
  <1> QED
    BY <1>3, <1>4, <1>5, <1>6, <1>7, <1>8, <1>9 DEF UriNext

LEMMA UriInvHolds == UriSpec => []UriInv
  <1>1. UriInit => UriInv
    <2>1. UriInit => PartsInv
      BY PartsInit
    <2>2. UriInit => RestIsKept
      BY DEF UriInit, RestIsKept
    <2> QED
      BY <2>1, <2>2 DEF UriInv
  <1> QED
    BY <1>1, UriInvIsInductive, PTL DEF UriSpec

\* The offsets of a uri are numbers whatever the text is, and the last slash is in the
\* text that uri_decode slices behind it, also after a component was taken away.
THEOREM UriTypeCorrect == UriSpec => []UriTypeOK
  <1>1. UriInv => UriTypeOK
    <2> SUFFICES ASSUME UriInv PROVE UriTypeOK
      OBVIOUS
    <2>1. step \in Steps /\ ends \in Offsets /\ (step = "decode" => slash \in 0 .. Len(full))
      BY DEF UriInv, PartsInv, UriTypes
    <2>2. DOMAIN ends = DOMAIN NoEnds /\ \A f \in DOMAIN ends : ends[f] \in Nat
      BY <2>1 DEF Offsets, NoEnds
    <2> QED
      BY <2>1, <2>2 DEF UriTypeOK
  <1> QED
    BY <1>1, UriInvHolds, PTL

\* When replace_path_prefix takes a new prefix for the path of a uri that has one, the
\* host, the rest of the path, the query and the fragment keep their text, whatever the
\* uri, the prefix and the length that was matched are.
THEOREM PartsAreKept == UriSpec => []RestIsKept
  <1>1. UriInv => RestIsKept
    BY DEF UriInv
  <1> QED
    BY <1>1, UriInvHolds, PTL

-----------------------------------------------------------------------------
(* What the parser says of a text *)

MeantInv ==
  /\ UriInv
  /\ step \in {"scheme", "authority", "decode", "query"} => IsReading
  /\ InScheme /\ InAuthority /\ PathBegun /\ InDecode /\ AtQuery /\ AtFragment
  /\ UriIsAsMeant

LEMMA MeantInit == UriInit => MeantInv
  <1> SUFFICES ASSUME UriInit PROVE MeantInv
    OBVIOUS
  <1>1. step = "scheme" /\ rest = input /\ full = <<>> /\ ends = NoEnds
    BY DEF UriInit
  <1>2. UriInv
    BY PartsInit DEF UriInv, UriInit, RestIsKept
  <1>3. input \in Seq(Symbols)
    BY <1>2 DEF UriInv, PartsInv, UriTypes
  <1>4. IsReading
    <2>1. At = 0 /\ Len(rest) <= Len(input)
      BY <1>1, <1>3 DEF At
    <2>2. SubSeq(input, 0 + 1, Len(input)) = input
      BY <1>3, SubSeqFull
    <2> QED
      BY <1>1, <2>1, <2>2 DEF IsReading, From
  <1> QED
    BY <1>1, <1>2, <1>4
       DEF MeantInv, InScheme, InAuthority, PathBegun, InDecode, AtQuery, AtFragment, UriIsAsMeant

\* A text without a slash or a colon is a host and nothing else.
LEMMA HostMeaning == MeantInv /\ HostOnly => UriIsAsMeant'
  <1> SUFFICES ASSUME MeantInv, HostOnly PROVE UriIsAsMeant'
    OBVIOUS
  <1>1. /\ step = "scheme" /\ step' = "parsed" /\ input' = input /\ full' = rest
        /\ ~StartsWith(rest, <<"/">>) /\ Find(rest, {":"}) = Len(rest)
        /\ ends' = [ends EXCEPT !.domain1 = Len(rest), !.host_end = Len(rest)]
    BY DEF HostOnly
  <1>2. rest = input /\ ends = NoEnds /\ input \in Seq(Symbols)
    BY <1>1 DEF MeantInv, InScheme, UriInv, PartsInv, UriTypes
  <1>3. IsHost /\ IsHost'
    BY <1>1, <1>2 DEF IsHost
  <1>4. ends'.domain0 = 0 /\ ends'.host_end = Len(input)
    BY <1>1, <1>2 DEF NoEnds
  <1>5. Slice(input, 0, Len(input)) = input
    <2>1. SubSeq(input, 0 + 1, Len(input)) = input
      BY <1>2, SubSeqFull
    <2> QED
      BY <2>1 DEF Slice
  <1>6. full' = input' /\ Host(full, ends)' = input'
    BY <1>1, <1>2, <1>4, <1>5 DEF Host
  <1> QED
    BY <1>1, <1>3, <1>6 DEF UriIsAsMeant

LEMMA MeantStutters ==
  ASSUME MeantInv, UriInv', UNCHANGED uvars
  PROVE  MeantInv'
  <1>1. UNCHANGED <<input, rest, step, full, ends, slash, before>>
    BY DEF uvars
  <1>2. IsHost' = IsHost /\ LosesSlash' = LosesSlash /\ HasEscapedSlash' = HasEscapedSlash
    BY <1>1, InputKept
  <1>3. /\ RawPath' = RawPath /\ RawTail' = RawTail /\ Start' = Start
        /\ Premise' = Premise /\ Base' = Base /\ BaseIsText' = BaseIsText
    BY <1>1, RawKept
  <1>4. At' = At
    BY <1>1 DEF At
  <1>5. Done' = Done /\ (IsReading <=> IsReading')
    BY <1>1, <1>4 DEF Done, IsReading
  <1>6. (InScheme <=> InScheme') /\ (InAuthority <=> InAuthority')
    BY <1>1, <1>2, <1>4 DEF InScheme, InAuthority
  <1>7. PathBegun <=> PathBegun'
    BY <1>1, <1>2 DEF PathBegun, BeginsAt
  <1>8. InDecode <=> InDecode'
    BY <1>1, <1>2, <1>3, <1>4, <1>5 DEF InDecode, Exempt
  <1>9. AtQuery <=> AtQuery'
    BY <1>1, <1>3 DEF AtQuery
  <1>10. AtFragment <=> AtFragment'
    <2>1. \A q : IsWritten(q)' <=> IsWritten(q)
      BY <1>1, <1>3 DEF IsWritten
    <2>2. (\E q \in Seq(Symbols) : IsWritten(q)') <=> (\E q \in Seq(Symbols) : IsWritten(q))
      BY <2>1
    <2> QED
      BY <1>1, <1>3, <2>2 DEF AtFragment
  <1>11. Climbs' = Climbs /\ Readable' = Readable
    BY <1>1, <1>3 DEF Climbs, Readable
  <1>12. UriIsAsMeant'
    BY <1>1, <1>2, <1>3, <1>11 DEF MeantInv, UriIsAsMeant
  <1> QED
    BY <1>1, <1>5, <1>6, <1>7, <1>8, <1>9, <1>10, <1>12 DEF MeantInv

LEMMA MeantInvIsInductive == MeantInv /\ [UriNext]_uvars => MeantInv'
  <1> SUFFICES ASSUME MeantInv, [UriNext]_uvars PROVE MeantInv'
    OBVIOUS
  <1>1. UriInv' /\ PartsInv /\ UriInv
    BY UriInvIsInductive DEF MeantInv, UriInv
  <1>2. /\ step \in {"scheme", "authority", "decode", "query"} => IsReading
        /\ InScheme /\ InAuthority /\ PathBegun /\ InDecode /\ AtQuery /\ AtFragment
    BY DEF MeantInv
  <1>3. ASSUME step' \in {"failed", "replaced"} PROVE MeantInv'
    BY <1>1, <1>3
       DEF MeantInv, InScheme, InAuthority, PathBegun, InDecode, AtQuery, AtFragment, UriIsAsMeant
  <1>4. CASE HostOnly
    <2>1. step' = "parsed"
      BY <1>4 DEF HostOnly
    <2> QED
      BY <1>1, <1>4, <2>1, HostMeaning
         DEF MeantInv, InScheme, InAuthority, PathBegun, InDecode, AtQuery, AtFragment
  <1>5. CASE Scheme
    <2>1. step = "scheme" /\ step' = "authority"
      BY <1>5 DEF Scheme
    <2>2. IsReading' /\ InAuthority'
      BY <1>1, <1>2, <1>5, <2>1, SchemeReads
    <2> QED
      BY <1>1, <2>1, <2>2 DEF MeantInv, InScheme, PathBegun, InDecode, AtQuery, AtFragment, UriIsAsMeant
  <1>6. CASE Authority
    <2>1. CASE Fail
      BY <1>3, <2>1 DEF Fail
    <2>2. CASE ~Fail
      <3>1. step = "authority" /\ step' = "decode"
        BY <1>6, <2>2 DEF Authority
      <3>2. IsReading' /\ PathBegun' /\ InDecode'
        BY <1>1, <1>2, <1>6, <2>2, <3>1, AuthorityReads
      <3> QED
        BY <1>1, <3>1, <3>2 DEF MeantInv, InScheme, InAuthority, AtQuery, AtFragment, UriIsAsMeant
    <2> QED
      BY <2>1, <2>2
  <1>7. CASE NoAuthority
    <2>1. step = "authority" /\ step' = "decode"
      BY <1>7 DEF NoAuthority
    <2>2. IsReading' /\ PathBegun' /\ InDecode'
      BY <1>1, <1>2, <1>7, <2>1, NoAuthorityReads
    <2> QED
      BY <1>1, <2>1, <2>2 DEF MeantInv, InScheme, InAuthority, AtQuery, AtFragment, UriIsAsMeant
  <1>8. CASE DecodeSlash \/ DecodeSymbol
    <2>1. step = "decode" /\ step' = "decode"
      BY <1>8 DEF DecodeSlash, DecodeSymbol, InPath
    <2>2. IsReading' /\ PathBegun' /\ InDecode'
      BY <1>1, <1>2, <1>8, <2>1, DecodingMeans
    <2> QED
      BY <1>1, <2>1, <2>2 DEF MeantInv, InScheme, InAuthority, AtQuery, AtFragment, UriIsAsMeant
  <1>9. CASE DecodeFails
    BY <1>3, <1>9 DEF DecodeFails, Fail
  <1>10. CASE PathEnds
    <2>1. step = "decode" /\ step' = "query"
      BY <1>10 DEF PathEnds
    <2>2. IsReading' /\ PathBegun' /\ AtQuery'
      BY <1>1, <1>2, <1>10, <2>1, PathEndsMeaning
    <2> QED
      BY <1>1, <2>1, <2>2 DEF MeantInv, InScheme, InAuthority, InDecode, AtFragment, UriIsAsMeant
  <1>11. CASE Query
    <2>1. step = "query" /\ step' \in {"panicked", "fragment"} /\ input' = input
      BY <1>11 DEF Query
    <2>2. CASE step' = "panicked"
      <3>1. NoFragmentFollows
        BY <1>1, <1>2, <1>11, <2>1, <2>2, QueryPanics
      <3>2. UriIsAsMeant'
        BY <2>1, <2>2, <3>1 DEF UriIsAsMeant, NoFragmentFollows
      <3> QED
        BY <1>1, <2>2, <3>2 DEF MeantInv, InScheme, InAuthority, PathBegun, InDecode, AtQuery, AtFragment
    <2>3. CASE step' = "fragment"
      <3>1. PathBegun' /\ AtFragment'
        BY <1>1, <1>2, <1>11, <2>3, QueryMeaning
      <3> QED
        BY <1>1, <2>3, <3>1 DEF MeantInv, InScheme, InAuthority, InDecode, AtQuery, UriIsAsMeant
    <2> QED
      BY <2>1, <2>2, <2>3
  <1>12. CASE NoQuery
    <2>1. step' = "fragment"
      BY <1>12 DEF NoQuery
    <2>2. PathBegun' /\ AtFragment'
      BY <1>1, <1>2, <1>12, NoQueryMeaning
    <2> QED
      BY <1>1, <2>1, <2>2 DEF MeantInv, InScheme, InAuthority, InDecode, AtQuery, UriIsAsMeant
  <1>13. CASE Fragment
    <2>1. step = "fragment" /\ step' = "parsed" /\ input' = input
      BY <1>13 DEF Fragment
    <2>2. ends'.path0 = ends.path0
      BY <1>1, <1>13 DEF Fragment, PartsInv, UriTypes, Offsets
    <2>3. ~IsHost'
      BY <1>2, <2>1, InputKept DEF PathBegun
    <2>4. Premise => PartsAreMeant'
      BY <1>1, <1>2, <1>13, FragmentMeaning
    <2>5. Premise' = Premise
      BY <2>1, <2>2, RawKept
    <2>6. UriIsAsMeant'
      BY <2>1, <2>3, <2>4, <2>5 DEF UriIsAsMeant, Premise, PartsAreMeant
    <2> QED
      BY <1>1, <2>1, <2>6 DEF MeantInv, InScheme, InAuthority, PathBegun, InDecode, AtQuery, AtFragment
  <1>14. CASE ReplacePathPrefix
    BY <1>3, <1>14 DEF ReplacePathPrefix
  <1>15. CASE UriDone \/ UNCHANGED uvars
    <2>1. UNCHANGED uvars
      BY <1>15 DEF UriDone
    <2> QED
      BY <1>1, <2>1, MeantStutters
  <1> QED
    BY <1>4, <1>5, <1>6, <1>7, <1>8, <1>9, <1>10, <1>11, <1>12, <1>13, <1>14, <1>15 DEF UriNext

THEOREM UrisSayWhatTheyMean == UriSpec => []UriIsAsMeant
  <1>1. MeantInv => UriIsAsMeant
    BY DEF MeantInv
  <1> QED
    BY <1>1, MeantInit, MeantInvIsInductive, PTL DEF UriSpec

=============================================================================
