------------------------------- MODULE MCRelay -------------------------------
(***************************************************************************)
(* A message of each framing, as a request and as a response: a known      *)
(* length, one chunk, chunks with trailers and a space behind the size,    *)
(* two chunks, an unknown encoding, no body, a body without any framing;   *)
(* a chunk with a Content-Length besides that is too small or too large;   *)
(* and two that are ill-formed.                                            *)
(***************************************************************************)
EXTENDS Relay

M(kind, wire, meant) ==
  [kind |-> kind, wire |-> <<"start">> \o wire, length |-> 0, body |-> meant,
   chunks |-> 0, until_close |-> FALSE, head |-> FALSE]

NL == <<"CR", "LF">>
Last == <<"0">> \o NL \o NL

Both(kind) ==
  {[M(kind, <<"length", "blank", "a", "b">>, <<"a", "b">>) EXCEPT !.length = 2],
   [M(kind, <<"length", "other", "blank", "CR", "LF", "a">>, <<"CR", "LF">>) EXCEPT !.length = 2],
   [M(kind, <<"chunked", "blank", "2">> \o NL \o <<"a", "LF">> \o NL \o Last, <<"a", "LF">>)
      EXCEPT !.chunks = 1],
   [M(kind, <<"chunked", "blank", "1", "SP">> \o NL \o <<"b">> \o NL \o <<"0">> \o NL
            \o <<"a">> \o NL \o NL, <<"b">>) EXCEPT !.chunks = 1],
   [M(kind, <<"chunked", "blank", "1">> \o NL \o <<"a">> \o NL \o <<"1">> \o NL \o <<"b">> \o NL
            \o Last, <<"a", "b">>) EXCEPT !.chunks = 2],
   [M(kind, <<"chunked", "blank">> \o Last, <<>>) EXCEPT !.chunks = 0],
   [M(kind, <<"length", "chunked", "blank", "2">> \o NL \o <<"a", "b">> \o NL \o Last, <<"a", "b">>)
      EXCEPT !.chunks = 1, !.length = 1],
   [M(kind, <<"chunked", "length", "blank", "1">> \o NL \o <<"a">> \o NL \o Last, <<"a">>)
      EXCEPT !.chunks = 1, !.length = 2],
   M(kind, <<"gzip", "blank", "a">>, <<"a">>),
   M(kind, <<"bad_header">>, <<>>),
   [M(kind, <<>>, <<>>) EXCEPT !.wire = <<"bad_start">>],
   M(kind, <<"other", "blank">>, <<>>)}

MCMessages ==
  Both("request") \cup Both("response")
  \cup {[M("response", <<"other", "blank", "a">>, <<"a">>) EXCEPT !.until_close = TRUE],
        [M("response", <<"length", "blank">>, <<>>) EXCEPT !.length = 2, !.head = TRUE]}
=============================================================================
