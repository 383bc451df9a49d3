----------------------------- MODULE ConfigParse -----------------------------
(***************************************************************************)
(* parse_config and the functions for its blocks (config/parse.rs): one    *)
(* pass over the directives of a file, one step for each directive.  The   *)
(* variables of blocks are scopes on a stack, the innermost first; the     *)
(* block that is read is built in open, and moved into the one around it   *)
(* when it is closed.                                                      *)
(*                                                                         *)
(* A directive has a name and tokens behind it; a token is a text or one   *)
(* variable.  A route has its matcher, if it has one, before its uri.  The *)
(* line break or the brace that must follow a directive is no directive    *)
(* itself: missing has the places at which another token or the end of the *)
(* file is there instead.                                                  *)
(***************************************************************************)
EXTENDS Integers, Sequences, SequencesExt, TLC

CONSTANTS
  Inputs,       \* pairs of a text and the places at which no line break or brace follows
  VarOf,        \* a token that is a variable -> its name
  Numbers,      \* the tokens that are numbers
  IpAddresses   \* the tokens that are addresses

None == "None"

Balancings == {"round_robin", "least_conn", "ip_hash"}
Timeouts == {"connect_timeout", "header_timeout", "body_timeout", "send_timeout"}
Contents == {"nocontent", "body", "redirect"}

IsSequence(s) == s \in Seq({s[k] : k \in DOMAIN s})

\* Behind a name are the tokens that are read there, whatever they are, and what comes
\* then is another directive.
IsDirective(d) ==
  /\ IsSequence(d.args) /\ \A k \in DOMAIN d.args : d.args[k] # None
  /\ d.name \in Balancings \cup {"default", "nocontent", "}"} => Len(d.args) = 0
  /\ d.name \in Timeouts \cup {"port", "ip", "ssl_cert", "ssl_keys", "status", "default_content_type",
                               "body", "redirect", "proxy", "upstream"} => Len(d.args) = 1
  /\ d.name \in {"set", "header", "proxy_header"} => Len(d.args) = 2
  /\ d.name = "route" => Len(d.args) \in 1 .. 2
  /\ d.name = "server" => Len(d.args) \in 0 .. 1

\* Behind a server in a group is its uri, which may be a brace.
IsText(t) ==
  /\ IsSequence(t)
  /\ \A k \in DOMAIN t : IsDirective(t[k])
  /\ \A g, k \in DOMAIN t :
       g < k /\ t[g].name = "upstream" /\ t[k].name = "server" /\ t[k].args = <<>> =>
         \E c \in g .. k : t[c].name = "}"

\* Those that are read to the end of the line.
Lists == {"file", "domain", "error_page"}

\* What follows a directive may be missing anywhere, but for a list, which takes what
\* there is on its line: only at the end of the file.
IsInput(t, places) ==
  /\ IsText(t) /\ places \subseteq DOMAIN t
  /\ \A k \in places : t[k].name \in Lists => k = Len(t)

ASSUME InputsAssumption == \A input \in Inputs : IsInput(input[1], input[2])

VARIABLES
  text,       \* the directives of the file
  missing,    \* the places of directives that no line break or brace follows
  pos,        \* how many directives were read
  at,         \* the block that is read, or how the parse ended
  scopes,     \* maps vars, the innermost first
  open,       \* kind of block -> local server, route or upstream
  servers,    \* local servers of parse_config
  upstreams   \* config.upstreams

pvars == <<text, missing, pos, at, scopes, open, servers, upstreams>>

Blocks == {"top", "server", "route", "upstream"}

Empty == <<>>
NoContent == [kind |-> None, value |-> <<>>, headers |-> Empty]

NewServer ==
  [port |-> None, ip |-> None, default |-> None, ssl_cert |-> None, ssl_keys |-> None,
   header_timeout |-> None, body_timeout |-> None, send_timeout |-> None,
   domains |-> <<>>, routes |-> <<>>, error_pages |-> Empty]
NewRoute(matcher, uri) ==
  [matcher |-> matcher, uri |-> uri, content |-> NoContent, status |-> None,
   default_content_type |-> None, headers |-> Empty]
NewUpstream(name) ==
  [name |-> name, servers |-> <<>>, balancing |-> None, connect_timeout |-> None,
   header_timeout |-> None, body_timeout |-> None, send_timeout |-> None]

ParseInit ==
  /\ \E input \in Inputs : text = input[1] /\ missing = input[2]
  /\ pos = 0 /\ at = "top" /\ scopes = <<Empty>>
  /\ open = [server |-> NewServer, route |-> NewRoute("", ""), upstream |-> NewUpstream("")]
  /\ servers = <<>> /\ upstreams = Empty

-----------------------------------------------------------------------------
(* Tokens and lines *)

\* Mutant: the outermost scope that has the variable is asked first.
ExpandOutermost(token) ==
  LET having == {k \in DOMAIN scopes : VarOf[token] \in DOMAIN scopes[k]}
  IN  IF token \notin DOMAIN VarOf THEN token
      ELSE IF having = {} THEN token
      ELSE scopes[CHOOSE k \in having : \A j \in having : j <= k][VarOf[token]]

\* replace_static_vars: the value in the first scope that has the variable; it is not
\* expanded again, and a variable without a value is left as it is.
Expand(token) ==
  LET having == {k \in DOMAIN scopes : VarOf[token] \in DOMAIN scopes[k]}
  IN  IF token \notin DOMAIN VarOf THEN token
      ELSE IF having = {} THEN token
      ELSE scopes[CHOOSE k \in having : \A j \in having : k <= j][VarOf[token]]

Directive == text[pos + 1]
Raw == Directive.args
Args == [k \in DOMAIN Raw |-> Expand(Raw[k])]

\* The directives of a block of which it has at most one.
Single ==
  [top |-> {},
   server |-> {"port", "ip", "default", "ssl_cert", "ssl_keys"} \cup (Timeouts \ {"connect_timeout"}),
   route |-> {"status", "default_content_type"},
   upstream |-> Balancings \cup Timeouts]

Known ==
  [top |-> {"server", "upstream", "set", ""},
   server |-> Single.server \cup {"domain", "route", "error_page", "set", "}", ""},
   route |-> Single.route \cup Contents \cup {"file", "proxy", "proxy_header", "header", "set", "}", ""},
   upstream |-> Single.upstream \cup {"server", "set", "}", ""}]

\* Those that a line break must follow, the end of a route too, and those that open a block.
EndsLine(name) ==
  \/ name \in {"set", "status", "body", "redirect", "proxy", "proxy_header", "header",
               "port", "ip", "default"} \cup Lists
  \/ at = "route" /\ name = "}"
OpensBlock(name) ==
  \/ at = "top" /\ name \in {"server", "upstream"}
  \/ at = "server" /\ name = "route"

\* What consume_fixed wants behind the next directive is not there.
Missing == pos + 1 \in missing /\ (EndsLine(Directive.name) \/ OpensBlock(Directive.name))

Reads(block, names) ==
  /\ at = block /\ pos < Len(text) /\ ~Missing
  /\ Directive.name \in names

Fail == at' = "failed" /\ UNCHANGED <<text, missing, pos, scopes, open, servers, upstreams>>

\* The block that is read takes this value for a field.
Take(block, field, value) ==
  /\ open' = [open EXCEPT ![block][field] = value]
  /\ pos' = pos + 1
  /\ UNCHANGED <<text, missing, at, scopes, servers, upstreams>>

\* It goes on in this block, with these scopes.
Enter(block, s) == at' = block /\ scopes' = s /\ pos' = pos + 1 /\ UNCHANGED <<text, missing>>

Put(map, key, value) ==
  [k \in {key} \cup DOMAIN map |-> IF k = key THEN value ELSE map[k]]
PutAll(map, keys, value) ==
  [k \in keys \cup DOMAIN map |-> IF k \in keys THEN value ELSE map[k]]

-----------------------------------------------------------------------------
(* Directives of every block *)

\* parse_set: the name is expanded too.
SetVariable ==
  /\ at \in Blocks /\ Reads(at, {"set"})
  /\ Enter(at, <<Put(Head(scopes), Args[1], Args[2])>> \o Tail(scopes))
  /\ UNCHANGED <<open, servers, upstreams>>

\* Timeouts and the paths of certificates are not expanded.
Unexpanded == Timeouts \cup {"ssl_cert", "ssl_keys"}

SingleValue ==
  IF Raw = <<>> THEN Directive.name
  ELSE IF Directive.name \in Unexpanded THEN Raw[1]
  ELSE Args[1]

IsWellFormed(name, value) ==
  /\ name \in Timeouts \cup {"port", "status"} => value \in Numbers
  /\ name = "ip" => value \in IpAddresses

GiveOnce ==
  LET name == Directive.name
      field == IF name \in Balancings THEN "balancing" ELSE name
  IN
  /\ at \in Blocks /\ Reads(at, Single[at])
  /\ IF IsWellFormed(name, SingleValue) /\ open[at][field] = None
     THEN Take(at, field, SingleValue)
     ELSE Fail

Unknown == at \in Blocks /\ pos < Len(text) /\ Directive.name \notin Known[at] /\ Fail

\* Another token follows, or the file ends: a list is then read on for ever.
IsNotFollowed ==
  /\ at \in Blocks /\ pos < Len(text) /\ Missing /\ Directive.name \in Known[at]
  /\ IF Directive.name \in Lists
     THEN at' = "endless" /\ UNCHANGED <<text, missing, pos, scopes, open, servers, upstreams>>
     ELSE Fail

\* Mutant: a block takes the empty token for a line break.
FileEndsAtTop ==
  /\ at \in Blocks /\ (pos < Len(text) => Directive.name = "")
  /\ at' = (IF at = "top" THEN "read" ELSE at)
  /\ UNCHANGED <<text, missing, pos, scopes, open, servers, upstreams>>

\* The empty token of the end of file, which empty quotes are as well.
FileEnds ==
  /\ at \in Blocks /\ (pos < Len(text) => Directive.name = "")
  /\ at' = (IF at = "top" THEN "read" ELSE "failed")
  /\ UNCHANGED <<text, missing, pos, scopes, open, servers, upstreams>>

-----------------------------------------------------------------------------
(* parse_route *)

Matchers == {"=", "~", "~*", "^~"}

OpenRoute ==
  /\ Reads("server", {"route"})
  /\ IF Len(Raw) = 2 /\ Args[1] \notin Matchers THEN Fail
     ELSE /\ open' = [open EXCEPT !.route = IF Len(Raw) = 1 THEN NewRoute(None, Args[1])
                                            ELSE NewRoute(Args[1], Args[2])]
          /\ Enter("route", <<Empty>> \o scopes)
          /\ UNCHANGED <<servers, upstreams>>

Content == open.route.content
TakeContent(kind, value, headers) ==
  Take("route", "content", [kind |-> kind, value |-> value, headers |-> headers])

GiveContent ==
  /\ Reads("route", Contents)
  /\ IF Content.kind = None THEN TakeContent(Directive.name, Args, Empty) ELSE Fail

AddFiles ==
  /\ Reads("route", {"file"})
  /\ IF Content.kind \in {None, "file"} THEN TakeContent("file", Content.value \o Args, Empty) ELSE Fail

\* Mutant: a proxy behind its headers begins the content anew.
GiveProxyAnew ==
  /\ Reads("route", {"proxy"})
  /\ IF Content.kind = None \/ (Content.kind = "proxy" /\ Content.value = <<"">>)
     THEN TakeContent("proxy", Args, Empty) ELSE Fail

\* An empty uri stands for one that has not been given.
GiveProxy ==
  /\ Reads("route", {"proxy"})
  /\ IF Content.kind = None \/ (Content.kind = "proxy" /\ Content.value = <<"">>)
     THEN TakeContent("proxy", Args, Content.headers) ELSE Fail

AddProxyHeader ==
  /\ Reads("route", {"proxy_header"})
  /\ IF Content.kind \in {None, "proxy"}
     THEN TakeContent("proxy", IF Content.kind = None THEN <<"">> ELSE Content.value,
                      Put(Content.headers, Args[1], Args[2]))
     ELSE Fail

AddHeader ==
  /\ Reads("route", {"header"})
  /\ Take("route", "headers", Put(open.route.headers, Args[1], Args[2]))

\* Mutant: the variables of a route outlive it.
CloseRouteInScope ==
  /\ Reads("route", {"}"})
  /\ open' = [open EXCEPT !.server.routes = Append(@, open.route)]
  /\ Enter("server", scopes)
  /\ UNCHANGED <<servers, upstreams>>

CloseRoute ==
  /\ Reads("route", {"}"})
  /\ open' = [open EXCEPT !.server.routes = Append(@, open.route)]
  /\ Enter("server", Tail(scopes))
  /\ UNCHANGED <<servers, upstreams>>

-----------------------------------------------------------------------------
(* parse_server_config *)

\* Its brace follows at once.
OpenServer ==
  /\ Reads("top", {"server"})
  /\ IF Raw # <<>> THEN Fail
     ELSE /\ open' = [open EXCEPT !.server = NewServer]
          /\ Enter("server", <<Empty>> \o scopes)
          /\ UNCHANGED <<servers, upstreams>>

\* Domains are not expanded.
AddDomains ==
  /\ Reads("server", {"domain"})
  /\ Take("server", "domains", open.server.domains \o Raw)

AddErrorPage ==
  LET statuses == {Args[k] : k \in 1 .. Len(Raw) - 1} IN
  /\ Reads("server", {"error_page"})
  /\ IF Len(Raw) >= 2 /\ statuses \subseteq Numbers
     THEN Take("server", "error_pages", PutAll(open.server.error_pages, statuses, Args[Len(Raw)]))
     ELSE Fail

CloseServer ==
  /\ Reads("server", {"}"})
  /\ IF (open.server.ssl_cert = None) # (open.server.ssl_keys = None) THEN Fail
     ELSE /\ servers' = Append(servers, open.server)
          /\ Enter("top", Tail(scopes))
          /\ UNCHANGED <<open, upstreams>>

-----------------------------------------------------------------------------
(* parse_upstream_config *)

OpenUpstream ==
  /\ Reads("top", {"upstream"})
  /\ open' = [open EXCEPT !.upstream = NewUpstream(Raw[1])]
  /\ Enter("upstream", <<Empty>> \o scopes)
  /\ UNCHANGED <<servers, upstreams>>

AddUpstreamServer ==
  /\ Reads("upstream", {"server"})
  /\ Take("upstream", "servers", Append(open.upstream.servers, Args[1]))

\* A second group of a name replaces the first.
CloseUpstream ==
  /\ Reads("upstream", {"}"})
  /\ upstreams' = Put(upstreams, open.upstream.name, open.upstream)
  /\ Enter("top", Tail(scopes))
  /\ UNCHANGED <<open, servers>>

ParseStep ==
  \/ SetVariable \/ GiveOnce \/ Unknown \/ IsNotFollowed \/ FileEnds
  \/ OpenRoute \/ GiveContent \/ AddFiles \/ GiveProxy \/ AddProxyHeader \/ AddHeader \/ CloseRoute
  \/ OpenServer \/ AddDomains \/ AddErrorPage \/ CloseServer
  \/ OpenUpstream \/ AddUpstreamServer \/ CloseUpstream
=============================================================================
