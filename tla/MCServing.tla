------------------------------ MODULE MCServing ------------------------------
(***************************************************************************)
(* Two listeners, one of them with TLS, that serve the same two servers.   *)
(* The routes have every kind of content and every template that may be    *)
(* bad; the error pages are a file, a proxied page, a page without a route *)
(* and a page that fails.                                                  *)
(***************************************************************************)
EXTENDS Serving, TLC

CONSTANTS plain, secure

R(matcher, uri, content, status, files, bad) ==
  [matcher |-> matcher, uri |-> uri, content |-> content, status |-> status,
   files |-> files, bad |-> bad]

Root == <<"/">>
X == <<"/", "x">>
XY == <<"/", "x", "y">>
Z == <<"/", "z">>
P == <<"/", "p">>
N == <<"/", "n">>
Q == <<"/", "q">>

Named ==
  [domains |-> {"a"},
   routes |-> <<R("Prefix", X, "FileAny", 0, <<"f", "g">>, "none"),
                R("Regex", <<"y">>, "Proxy", 0, <<>>, "content_type"),
                R("Exact", Root, "None", 0, <<>>, "none"),
                R("Prefix", Z, "RawData", 0, <<>>, "content"),
                R("PrefixPrioritiesed", P, "Redirect", 0, <<>>, "none"),
                R("Exact", N, "Proxy", 0, <<>>, "uri")>>,
   error_pages |-> (404 :> X @@ 500 :> P)]

Default ==
  [domains |-> {},
   routes |-> <<R("Prefix", Root, "None", 200, <<>>, "content_type"),
                R("Prefix", X, "NoContent", 404, <<>>, "none"),
                R("Prefix", XY, "FileAny", 0, <<"f">>, "content_type"),
                R("Prefix", P, "Proxy", 0, <<>>, "none"),
                R("Exact", Root, "None", 403, <<>>, "none"),
                R("Exact", Z, "None", 0, <<>>, "headers"),
                R("Regex", <<"q">>, "Redirect", 0, <<>>, "content"),
                R("Exact", N, "Proxy", 0, <<>>, "group")>>,
   error_pages |-> (404 :> P @@ 400 :> X @@ 408 :> Root @@ 500 :> Z)]

Broken == [domains |-> {"b"},
           routes |-> <<R("Regex", <<"(">>, "NoContent", 0, <<>>, "none")>>,
           error_pages |-> (404 :> Root)]

MCGroup ==
  (plain :> [servers |-> <<Named, Default>>, default |-> 2, tls |-> FALSE]
   @@ secure :> [servers |-> <<Broken, Named>>, default |-> 1, tls |-> TRUE])

MCRequests ==
  [host : {"a", "other"}, path : {Root, X, XY, Z, P, N, Q}, chunked : {FALSE}]
  \cup {[host |-> NoHost, path |-> Root, chunked |-> FALSE],
        [host |-> "a", path |-> X, chunked |-> TRUE]}

MCDisks ==
  {<<"f", <<>>>> :> f @@ <<"g", <<>>>> :> g @@ <<"f", <<"y">>>> :> "data" @@ <<"cwd", N>> :> n
     : f \in {"data", "io_error"}, g \in {"data", "absent"}, n \in {"data", "absent", "io_error"}}

MCBadRegexes == {<<"(">>}
=============================================================================
