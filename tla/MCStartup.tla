------------------------------ MODULE MCStartup ------------------------------
(***************************************************************************)
(* Configurations of six kinds: routes with every few lines of content,    *)
(* sets in every place, servers on two addresses, servers with every few   *)
(* lines, upstream groups, and a file that ends anywhere and lacks a line  *)
(* break or a brace anywhere.                                              *)
(***************************************************************************)
EXTENDS Startup

D(name, args) == [name |-> name, args |-> args]
Close == <<D("}", <<>>)>>
Server(lines) == <<D("server", <<>>)>> \o lines \o Close
Route(args, lines) == <<D("route", args)>> \o lines \o Close
Group(name, lines) == <<D("upstream", <<name>>)>> \o lines \o Close

\* Up to n of these lines, in any order.
LinesOf(lines, n) == UNION {[1 .. k -> lines] : k \in 0 .. n}

RouteLines ==
  {D("nocontent", <<>>), D("body", <<"x">>), D("redirect", <<"x">>), D("file", <<"x", "y">>),
   D("file", <<"y">>), D("proxy", <<"">>), D("proxy", <<"x">>), D("proxy_header", <<"h", "x">>),
   D("proxy_header", <<"h", "y">>)}
OtherRouteLines ==
  {D("status", <<"80">>), D("status", <<"x">>), D("default_content_type", <<"x">>), D("header", <<"h", "x">>),
   D("header", <<"h", "y">>), D("nocontent", <<>>), D("port", <<"80">>), D("", <<>>)}

WithRoute(args, lines) == Server(Route(args, lines))

RouteTexts ==
  {WithRoute(<<"/">>, lines) : lines \in LinesOf(RouteLines, 3) \cup LinesOf(OtherRouteLines, 2)}
  \cup {WithRoute(<<m, "/">>, <<>>) : m \in {"~*", "^~", "?"}}

Sets ==
  {<<>>, <<D("set", <<"a", "80">>)>>, <<D("set", <<"a", "81">>)>>, <<D("set", <<"a", "$b">>)>>,
   <<D("set", <<"b", "a">>)>>, <<D("set", <<"$b", "82">>)>>}

SetTexts ==
  {before \o Server(in_server \o <<D("port", <<"$a">>)>>
                      \o Route(<<"$a">>, in_route \o <<D("header", <<"$a", "$b">>)>>)
                      \o <<D("error_page", <<"80", "81", "$a">>)>>)
     \o Group("g", after \o <<D("server", <<"$a">>)>>)
    : before \in Sets \cup {s \o r : s, r \in Sets}, in_server, in_route, after \in Sets}

Tls(c) == <<D("ssl_cert", <<c>>), D("ssl_keys", <<"k">>)>>
ServerTexts ==
  {<<>>, <<D("default", <<>>)>>, <<D("port", <<"80">>), D("domain", <<"o">>)>>, <<D("domain", <<"m">>)>>,
   Tls("c"), <<D("default", <<>>)>> \o Tls("d"), <<D("domain", <<"m", "n">>)>> \o Tls("c"),
   <<D("default", <<>>), D("domain", <<"n">>)>> \o Tls("d"), <<D("port", <<"80">>)>> \o Tls("e")}

GroupedTexts ==
  {Server(a) : a \in ServerTexts} \cup {Server(a) \o Server(b) : a, b \in ServerTexts}
  \cup {Server(a) \o Server(b) \o Server(c) : a, b, c \in ServerTexts}

ServerLines ==
  {D("port", <<"80">>), D("port", <<"x">>), D("ip", <<"::1">>), D("ip", <<"80">>), D("default", <<>>),
   D("domain", <<>>), D("domain", <<"m", "$a">>), D("header_timeout", <<"80">>), D("send_timeout", <<"$a">>),
   D("ssl_cert", <<"c">>), D("ssl_keys", <<"k">>), D("error_page", <<"80">>), D("error_page", <<"80", "x">>),
   D("error_page", <<"81", "80", "y">>), D("nocontent", <<>>), D("", <<>>)}

GroupLines ==
  {D("round_robin", <<>>), D("least_conn", <<>>), D("server", <<"x">>), D("server", <<"y">>),
   D("connect_timeout", <<"80">>), D("connect_timeout", <<"x">>), D("max_fails", <<"80">>), D("", <<>>)}

GroupTexts ==
  {Group("g", lines) : lines \in LinesOf(GroupLines, 3)}
  \cup {<<D("server", <<"x">>)>> \o Close}
  \cup {Group("g", a) \o Group(name, b) \o <<D("", <<>>), D("port", <<"80">>)>>
         : name \in {"g", "m"}, a, b \in LinesOf({D("least_conn", <<>>), D("server", <<"x">>)}, 2)}

Whole ==
  <<D("set", <<"a", "80">>)>> \o Group("g", <<D("server", <<"x">>)>>)
  \o Server(<<D("domain", <<"m">>), D("error_page", <<"80", "x">>), D("ip", <<"::1">>)>>
              \o Route(<<"=", "/">>, <<D("file", <<"x">>), D("header", <<"h", "x">>), D("status", <<"80">>)>>))

\* Nothing is missing, or one line break or brace.
Lacks(n) == {{}} \cup {{k} : k \in {k \in 1 .. n : Whole[k].name \in Lists => k = n}}

MCInputs ==
  ((RouteTexts \cup SetTexts \cup GroupedTexts \cup GroupTexts
     \cup {Server(lines) : lines \in LinesOf(ServerLines, 2)})
   \X {{}})
  \cup UNION {{<<SubSeq(Whole, 1, n), places>> : places \in Lacks(n)} : n \in 0 .. Len(Whole)}

MCVarOf == ("$a" :> "a") @@ ("$b" :> "b")
MCNumbers == {"80", "81", "82"}
MCIpAddresses == {"::1"}
=============================================================================
