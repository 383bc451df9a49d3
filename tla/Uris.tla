-------------------------------- MODULE Uris --------------------------------
(***************************************************************************)
(* A uri (uri.rs): one text and offsets into it.  parse_uri builds the     *)
(* text as it goes, decoding the path on the way, and replace_path_prefix  *)
(* changes it afterwards, when a request is sent on to a server.           *)
(*                                                                         *)
(* A text is a sequence of symbols.  An escape is one symbol: "%/" and     *)
(* "%." are those of a slash and a dot, "%!" is one that is cut off or has *)
(* a bad digit.  A port is one symbol too.  Offsets are counted from zero  *)
(* as in the code.                                                         *)
(***************************************************************************)
EXTENDS Integers, Sequences

CONSTANTS
  Inputs,     \* the texts that are parsed
  Prefixes    \* the new prefixes of a path

IsText(t) == t \in Seq({t[k] : k \in DOMAIN t})
TextsAssumption == \A t \in Inputs \cup Prefixes : IsText(t)
ASSUME TextsAssumption

VARIABLES
  input,   \* the text to parse
  rest,    \* local str: what is left of it
  step,    \* where parse_uri is
  full,    \* the text of the uri
  ends,    \* the offsets: fields of Uri
  slash,   \* local last_slash of uri_decode
  before   \* the uri that replace_path_prefix changed, and how

uvars == <<input, rest, step, full, ends, slash, before>>

Steps == {"scheme", "authority", "decode", "query", "fragment", "parsed", "replaced",
          "failed", "panicked"}

NoEnds ==
  [scheme_end |-> 0, domain0 |-> 0, domain1 |-> 0, host_end |-> 0, path0 |-> 0, path1 |-> 0,
   query0 |-> 0, query1 |-> 0, fragment_start |-> 0]

NotReplaced == [full |-> <<>>, ends |-> NoEnds, length |-> 0, prefix |-> <<>>]

UriInit ==
  /\ input \in Inputs /\ rest = input
  /\ step = "scheme" /\ full = <<>> /\ ends = NoEnds /\ slash = 0
  /\ before = NotReplaced

Slice(t, a, b) == SubSeq(t, a + 1, b)
From(t, a) == SubSeq(t, a + 1, Len(t))
StartsWith(t, u) == Len(u) <= Len(t) /\ SubSeq(t, 1, Len(u)) = u

\* find: how many symbols are before the first of these, or all of them.
Find(t, symbols) ==
  LET at == {k \in 1 .. Len(t) : t[k] \in symbols}
  IN  IF at = {} THEN Len(t) ELSE (CHOOSE k \in at : \A j \in at : k <= j) - 1

\* rposition of a slash, or zero.
LastSlash(t) ==
  LET at == {k \in 1 .. Len(t) : t[k] = "/"}
  IN  IF at = {} THEN 0 ELSE (CHOOSE k \in at : \A j \in at : j <= k) - 1

-----------------------------------------------------------------------------
(* The parts before the path *)

\* split_domain_port, of a host that begins at domain.0.
DomainEnd(host) == Find(host, {":"})
IsBadPort(host) == DomainEnd(host) < Len(host) /\ From(host, DomainEnd(host) + 1) # <<"80">>

Fail == step' = "failed" /\ UNCHANGED <<input, rest, full, ends, slash, before>>

\* Without a slash or a colon all of it is a host.
HostOnly ==
  /\ step = "scheme" /\ ~StartsWith(rest, <<"/">>) /\ Find(rest, {":"}) = Len(rest)
  /\ full' = rest
  /\ ends' = [ends EXCEPT !.domain1 = Len(rest), !.host_end = Len(rest)]
  /\ step' = "parsed"
  /\ UNCHANGED <<input, rest, slash, before>>

Scheme ==
  /\ step = "scheme" /\ (StartsWith(rest, <<"/">>) \/ Find(rest, {":"}) < Len(rest))
  /\ LET colon == Find(rest, {":"}) IN
       IF StartsWith(rest, <<"/">>) THEN UNCHANGED <<full, ends, rest>>
       ELSE /\ full' = Slice(rest, 0, colon + 1)
            /\ ends' = [ends EXCEPT !.scheme_end = colon]
            /\ rest' = From(rest, colon + 1)
  /\ step' = "authority"
  /\ UNCHANGED <<input, slash, before>>

HasAuthority ==
  StartsWith(rest, <<"/", "/">>) \/ (~StartsWith(rest, <<"/">>) /\ ends.scheme_end = 0)

Authority ==
  LET slashes == IF StartsWith(rest, <<"/", "/">>) THEN <<"/", "/">> ELSE <<>>
      behind == From(rest, Len(slashes))
      host == Slice(behind, 0, Find(behind, {"/"}))
      start == Len(full) + Len(slashes)
  IN
  /\ step = "authority" /\ HasAuthority
  /\ \/ IsBadPort(host) /\ Fail
     \/ /\ ~IsBadPort(host)
        /\ full' = full \o slashes \o host
        /\ ends' = [ends EXCEPT !.domain0 = start, !.domain1 = start + DomainEnd(host),
                                !.host_end = start + Len(host), !.path0 = start + Len(host)]
        /\ rest' = From(behind, Len(host))
        /\ step' = "decode"
        /\ UNCHANGED <<input, slash, before>>

NoAuthority ==
  /\ step = "authority" /\ ~HasAuthority
  /\ ends' = [ends EXCEPT !.path0 = Len(full)]
  /\ step' = "decode"
  /\ UNCHANGED <<input, rest, full, slash, before>>

-----------------------------------------------------------------------------
(* uri_decode *)

Cut(t, n) == SubSeq(t, 1, Len(t) - n)

\* compress_last_component: a dot is taken away, two dots with the component before
\* them, which is looked for in all of the text, the host included.
Compressed(t, s) ==
  LET u == Cut(t, 3)
      l == LastSlash(u)
  IN  IF From(t, s) = <<"/", ".">> THEN [text |-> Cut(t, 2), slash |-> s]
      ELSE IF From(t, s) # <<"/", ".", ".">> THEN [text |-> t, slash |-> s]
      ELSE IF From(u, l) # <<"/", ".", ".">> /\ u # <<>>
           THEN [text |-> Slice(u, 0, l), slash |-> l]
           ELSE [text |-> t, slash |-> l]

InPath == step = "decode" /\ rest # <<>> /\ Head(rest) \notin {"?", "#"}

\* Mutant: the place of the slash is that before the component was taken away.
DecodeSlashStale ==
  LET c == Compressed(full, slash) IN
  /\ InPath /\ Head(rest) = "/"
  /\ IF slash + 1 = Len(full) THEN UNCHANGED <<full, slash>>
     ELSE full' = Append(c.text, "/") /\ slash' = Len(full)
  /\ rest' = Tail(rest)
  /\ UNCHANGED <<input, step, ends, before>>

\* Mutant: every slash of a run is kept.
DecodeEachSlash ==
  LET c == Compressed(full, slash) IN
  /\ InPath /\ Head(rest) = "/"
  /\ full' = Append(c.text, "/") /\ slash' = Len(c.text)
  /\ rest' = Tail(rest)
  /\ UNCHANGED <<input, step, ends, before>>

DecodeSlash ==
  LET c == Compressed(full, slash) IN
  /\ InPath /\ Head(rest) = "/"
  /\ IF slash + 1 = Len(full) THEN UNCHANGED <<full, slash>>
     ELSE full' = Append(c.text, "/") /\ slash' = Len(c.text)
  /\ rest' = Tail(rest)
  /\ UNCHANGED <<input, step, ends, before>>

\* An escaped slash or dot is text; only a slash of its own begins a component.
Decoded(c) == IF c = "%/" THEN "/" ELSE IF c = "%." THEN "." ELSE c

DecodeSymbol ==
  /\ InPath /\ Head(rest) \notin {"/", "%!"}
  /\ full' = Append(full, Decoded(Head(rest)))
  /\ rest' = Tail(rest)
  /\ UNCHANGED <<input, step, ends, slash, before>>

DecodeFails == InPath /\ Head(rest) = "%!" /\ Fail

PathEnds ==
  LET c == Compressed(full, slash) IN
  /\ step = "decode" /\ ~InPath
  /\ full' = c.text /\ slash' = c.slash
  /\ ends' = [ends EXCEPT !.path1 = Len(c.text)]
  /\ step' = "query"
  /\ UNCHANGED <<input, rest, before>>

-----------------------------------------------------------------------------
(* The parts behind the path *)

\* The query ends at the fragment.  Without one its end is taken of the text with the
\* question mark and applied to the text without it, which panics.
Query ==
  /\ step = "query" /\ StartsWith(rest, <<"?">>)
  /\ LET query_end == Find(Tail(rest), {"#"}) IN
       IF query_end = Len(Tail(rest))
       THEN step' = "panicked" /\ UNCHANGED <<rest, full, ends>>
       ELSE /\ full' = full \o Slice(rest, 0, query_end + 1)
            /\ ends' = [ends EXCEPT !.query0 = Len(full) + 1, !.query1 = Len(full) + 1 + query_end]
            /\ rest' = From(rest, query_end + 1)
            /\ step' = "fragment"
  /\ UNCHANGED <<input, slash, before>>

NoQuery ==
  /\ step = "query" /\ ~StartsWith(rest, <<"?">>)
  /\ step' = "fragment"
  /\ UNCHANGED <<input, rest, full, ends, slash, before>>

Fragment ==
  /\ step = "fragment"
  /\ IF rest = <<>> THEN UNCHANGED <<full, ends>>
     ELSE /\ full' = full \o rest
          /\ ends' = [ends EXCEPT !.fragment_start = Len(full) + 1]
  /\ step' = "parsed"
  /\ UNCHANGED <<input, rest, slash, before>>

-----------------------------------------------------------------------------
(* The parts of a uri, and replace_path_prefix *)

Host(t, e) == Slice(t, e.domain0, e.host_end)
Path(t, e) == Slice(t, e.path0, e.path1)
QueryOf(t, e) == Slice(t, e.query0, e.query1)
FragmentOf(t, e) == From(t, e.fragment_start)

\* The slices by which the parts are read do not panic.
Readable ==
  /\ ends.domain0 <= ends.host_end /\ ends.host_end <= Len(full)
  /\ ends.path0 <= ends.path1 /\ ends.path1 <= Len(full)

\* Mutant: the end of a query is left where it was when the path grows.
LongerShort(e, n) ==
  [e EXCEPT !.path1 = IF @ > 0 THEN @ + n ELSE @,
            !.query0 = @ + n, !.fragment_start = @ + n]

\* The offsets when the path grows: those of parts there are none of are moved too.
Longer(e, n) ==
  [e EXCEPT !.path1 = IF @ > 0 THEN @ + n ELSE @,
            !.query0 = @ + n, !.query1 = @ + n, !.fragment_start = @ + n]

Shorter(e, n) ==
  [e EXCEPT !.path1 = IF @ > 0 THEN @ - n ELSE @,
            !.query0 = IF @ > 0 THEN @ - n ELSE @,
            !.query1 = IF e.query0 > 0 THEN @ - n ELSE @,
            !.fragment_start = IF @ > 0 THEN @ - n ELSE @]

\* The length is that of the prefix its route matched, of this path.
ReplacePathPrefix ==
  /\ step = "parsed" /\ Readable
  /\ \E prefix \in Prefixes, length \in 0 .. ends.path1 - ends.path0 :
       /\ full' = Slice(full, 0, ends.path0) \o prefix \o From(full, ends.path0 + length)
       /\ ends' = IF Len(prefix) > length THEN Longer(ends, Len(prefix) - length)
                  ELSE Shorter(ends, length - Len(prefix))
       /\ before' = [full |-> full, ends |-> ends, length |-> length, prefix |-> prefix]
  /\ step' = "replaced"
  /\ UNCHANGED <<input, rest, slash>>

UriDone ==
  /\ step \in {"replaced", "failed", "panicked"} \/ (step = "parsed" /\ ~Readable)
  /\ UNCHANGED uvars

UriNext ==
  \/ HostOnly \/ Scheme \/ Authority \/ NoAuthority
  \/ DecodeSlash \/ DecodeSymbol \/ DecodeFails \/ PathEnds
  \/ Query \/ NoQuery \/ Fragment
  \/ ReplacePathPrefix \/ UriDone

UriSpec == UriInit /\ [][UriNext]_uvars

-----------------------------------------------------------------------------
(* What a uri means, said without offsets *)

\* The path in the input begins where that of the uri does.
RawPath == LET behind == From(input, ends.path0) IN Slice(behind, 0, Find(behind, {"?", "#"}))
RawTail == LET behind == From(input, ends.path0) IN From(behind, Find(behind, {"?", "#"}))

\* The components of a path: what is between the slashes.
WithSymbol(components, c) ==
  IF c = "/" THEN Append(components, <<>>)
  ELSE [components EXCEPT ![Len(components)] = Append(@, Decoded(c))]

Components(path) ==
  LET from[n \in 0 .. Len(path)] ==
        IF n = 0 THEN <<<<>>>> ELSE WithSymbol(from[n - 1], path[n])
  IN  from[Len(path)]

Up == <<".", ".">>

\* The components that are left when dots are resolved.
WithComponent(left, c) ==
  IF c \in {<<>>, <<".">>} THEN left
  ELSE IF c = Up /\ left # <<>> /\ left[Len(left)] # Up THEN Cut(left, 1)
  ELSE Append(left, c)

Resolved(components) ==
  LET upto[n \in 0 .. Len(components)] ==
        IF n = 0 THEN <<>> ELSE WithComponent(upto[n - 1], components[n])
  IN  upto[Len(components)]

Joined(components) ==
  LET upto[n \in 0 .. Len(components)] ==
        IF n = 0 THEN <<>> ELSE upto[n - 1] \o <<"/">> \o components[n]
  IN  upto[Len(components)]

\* The path with its dots resolved and its runs of slashes made one; a slash at its
\* end is kept.  The component before the first slash stays as it is.
Normal(path) ==
  LET components == Components(path)
  IN  components[1] \o Joined(Resolved(Tail(components)))
        \o (IF path # <<>> /\ path[Len(path)] = "/" THEN <<"/">> ELSE <<>>)

\* More components are taken away than there are before them: in a uri with a scheme
\* or a host that eats into these.
Ups(left) == \E k \in 1 .. Len(left) : left[k] = Up
Climbs == Ups(Resolved(Tail(Components(RawPath))))

\* Behind an empty scheme the slash of the path is taken for one of a run, for the last
\* slash is at zero until there is one: it is lost.
LosesSlash == StartsWith(input, <<":", "/">>) /\ ~StartsWith(input, <<":", "/", "/">>)

IsHost == ~StartsWith(input, <<"/">>) /\ Find(input, {":"}) = Len(input)

HasEscapedSlash == \E k \in 1 .. Len(input) : input[k] = "%/"

\* The offsets are numbers, and the last slash is in the text that uri_decode slices
\* behind it.
UriTypeOK ==
  /\ step \in Steps
  /\ DOMAIN ends = DOMAIN NoEnds /\ \A f \in DOMAIN ends : ends[f] \in Nat
  /\ step = "decode" => slash \in 0 .. Len(full)

\* A uri says what its text does, with its path normal, and its parts are those of
\* the text, if its path does not climb out of it, keeps its first slash and has none
\* that is escaped.
\* The parser panics only at a query that no fragment follows.
UriIsAsMeant ==
  /\ step = "panicked" =>
       \E q \in 1 .. Len(input) : input[q] = "?" /\ \A k \in q .. Len(input) : input[k] # "#"
  /\ step = "parsed" /\ IsHost => full = input /\ Host(full, ends) = input
  /\ step = "parsed" /\ ~IsHost /\ ~HasEscapedSlash /\ ~LosesSlash /\ (Climbs => ends.path0 = 0) =>
       /\ full = Slice(input, 0, ends.path0) \o Normal(RawPath) \o RawTail
       /\ Readable
       /\ Path(full, ends) = Normal(RawPath)
       /\ ends.query0 > 0 => RawTail = <<"?">> \o QueryOf(full, ends) \o <<"#">> \o FragmentOf(full, ends)
       /\ ends.query0 = 0 /\ ends.fragment_start > 0 => RawTail = <<"#">> \o FragmentOf(full, ends)

\* When a prefix of the path is replaced the other parts keep their text, and the path
\* the rest of its own, in a uri that has a path.
RestIsKept ==
  step = "replaced" /\ before.ends.path1 > 0 =>
    LET e == before.ends
        t == before.full
    IN  /\ Host(full, ends) = Host(t, e)
        /\ Path(full, ends) = before.prefix \o From(Path(t, e), before.length)
        /\ QueryOf(full, ends) = QueryOf(t, e) \/ e.query0 = 0
        /\ FragmentOf(full, ends) = FragmentOf(t, e) \/ e.fragment_start = 0
=============================================================================
