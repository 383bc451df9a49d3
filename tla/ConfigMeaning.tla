---------------------------- MODULE ConfigMeaning ----------------------------
(***************************************************************************)
(* What the text of a configuration means, said of the whole text and not  *)
(* of a pass over it: blocks are what is between a brace and its partner,  *)
(* and the value of a variable is that of the last set before it in a      *)
(* block that is still open there.                                         *)
(***************************************************************************)
EXTENDS ConfigParse

IsOpening(d) == d.name \in {"route", "upstream"} \/ (d.name = "server" /\ d.args = <<>>)

\* How many blocks are open before the k-th directive.
Depth(t, k) ==
  Cardinality({j \in 1 .. k - 1 : IsOpening(t[j])}) - Cardinality({j \in 1 .. k - 1 : t[j].name = "}"})

\* The j-th directive is in the block opened at b, and not in a block in it; the file is
\* opened at 0.
DepthIn(t, b) == IF b = 0 THEN 0 ELSE Depth(t, b) + 1

IsIn(t, b, j) ==
  b < j /\ Depth(t, j) = DepthIn(t, b) /\ \A i \in b + 1 .. j : Depth(t, i) >= DepthIn(t, b)

\* Those of the first n directives that are in the block and have one of these names.
Lines(t, n, b, names) == {j \in 1 .. n : t[j].name \in names /\ IsIn(t, b, j)}

\* The members of a set up to n, in order.
InOrder(S, n) ==
  LET places[k \in 0 .. n] ==
        IF k = 0 THEN <<>> ELSE IF k \in S THEN Append(places[k - 1], k) ELSE places[k - 1]
  IN  places[n]

In(t, n, b, names) == InOrder(Lines(t, n, b, names), n)

\* A set is seen as long as its block is open.
IsSeen(t, j, k) == t[j].name = "set" /\ \A i \in j .. k : Depth(t, i) >= Depth(t, j)

\* The value of a token at the k-th directive, which may be the one behind the text, by
\* what the sets before it say.
ValueBy(t, said, k, token) ==
  LET sets == {j \in 1 .. k - 1 : IsSeen(t, j, k) /\ said[j][1] = VarOf[token]}
  IN  IF token \notin DOMAIN VarOf \/ sets = {} THEN token ELSE said[Max(sets)][2]

SaidBy(t, said, k) == [i \in DOMAIN t[k].args |-> ValueBy(t, said, k, t[k].args[i])]

\* What each directive says: the values of its tokens.
Said(t) == LET said[k \in 1 .. Len(t)] == SaidBy(t, said, k) IN said

ValueAt(t, k, token) == ValueBy(t, Said(t), k, token)
Values(t, k) == Said(t)[k]

\* The value a directive gives, or its name when it has none.
SingleOf(t, j) ==
  IF t[j].args = <<>> THEN t[j].name
  ELSE IF t[j].name \in Unexpanded THEN t[j].args[1]
  ELSE Values(t, j)[1]

\* The value of the only directive of these names.
One(t, n, b, names) ==
  LET given == Lines(t, n, b, names) IN IF given = {} THEN None ELSE SingleOf(t, Min(given))

\* The last directive with a key gives its value.
LastOf(t, n, b, name) ==
  LET given == Lines(t, n, b, {name})
      Key(j) == Values(t, j)[1]
  IN  [key \in {Key(j) : j \in given} |-> Values(t, Max({j \in given : Key(j) = key}))[2]]

ContentLines == Contents \cup {"file", "proxy", "proxy_header"}
KindsOf(t, n, b) == {t[j].name : j \in Lines(t, n, b, ContentLines)}

ContentOf(t, n, b) ==
  LET given == In(t, n, b, ContentLines)
      kinds == KindsOf(t, n, b)
      proxies == Lines(t, n, b, {"proxy"})
      Given(kind, value, headers) == [kind |-> kind, value |-> value, headers |-> headers]
  IN  IF kinds = {} THEN NoContent
      ELSE IF kinds \subseteq {"proxy", "proxy_header"}
           THEN Given("proxy", IF proxies = {} THEN <<"">> ELSE Values(t, Max(proxies)),
                      LastOf(t, n, b, "proxy_header"))
      ELSE Given(t[given[1]].name, FlattenSeq([k \in DOMAIN given |-> Values(t, given[k])]), Empty)

RouteOf(t, n, b) ==
  LET said == Values(t, b)
  IN  [matcher |-> IF Len(said) = 1 THEN None ELSE said[1], uri |-> said[Len(said)],
       content |-> ContentOf(t, n, b), headers |-> LastOf(t, n, b, "header"),
       status |-> One(t, n, b, {"status"}),
       default_content_type |-> One(t, n, b, {"default_content_type"})]

DomainsOf(t, n, b) ==
  LET given == In(t, n, b, {"domain"}) IN FlattenSeq([k \in DOMAIN given |-> t[given[k]].args])

\* The last line that lists a status gives its page.
PagesOf(t, n, b) ==
  LET given == Lines(t, n, b, {"error_page"})
      Listed(j) == {Values(t, j)[i] : i \in 1 .. Len(t[j].args) - 1}
      Page(j) == Values(t, j)[Len(t[j].args)]
  IN  [s \in UNION {Listed(j) : j \in given} |-> Page(Max({j \in given : s \in Listed(j)}))]

RoutesOf(t, n, b) ==
  LET blocks == In(t, n, b, {"route"}) IN [k \in DOMAIN blocks |-> RouteOf(t, n, blocks[k])]

ServerOf(t, n, b) ==
  [port |-> One(t, n, b, {"port"}), ip |-> One(t, n, b, {"ip"}), default |-> One(t, n, b, {"default"}),
   ssl_cert |-> One(t, n, b, {"ssl_cert"}), ssl_keys |-> One(t, n, b, {"ssl_keys"}),
   header_timeout |-> One(t, n, b, {"header_timeout"}), body_timeout |-> One(t, n, b, {"body_timeout"}),
   send_timeout |-> One(t, n, b, {"send_timeout"}),
   domains |-> DomainsOf(t, n, b), routes |-> RoutesOf(t, n, b), error_pages |-> PagesOf(t, n, b)]

ServersOf(t, n) ==
  LET blocks == In(t, n, 0, {"server"}) IN [k \in DOMAIN blocks |-> ServerOf(t, n, blocks[k])]

MembersOf(t, n, b) ==
  LET given == In(t, n, b, {"server"}) IN [k \in DOMAIN given |-> Values(t, given[k])[1]]

GroupOf(t, n, b) ==
  [name |-> t[b].args[1], servers |-> MembersOf(t, n, b), balancing |-> One(t, n, b, Balancings),
   connect_timeout |-> One(t, n, b, {"connect_timeout"}), header_timeout |-> One(t, n, b, {"header_timeout"}),
   body_timeout |-> One(t, n, b, {"body_timeout"}), send_timeout |-> One(t, n, b, {"send_timeout"})]

\* The last group of a name.
GroupsOf(t, n) ==
  LET blocks == Lines(t, n, 0, {"upstream"})
      Name(b) == t[b].args[1]
  IN  [name \in {Name(b) : b \in blocks} |-> GroupOf(t, n, Max({b \in blocks : Name(b) = name}))]

\* A route says only one thing, and what it says once, but for headers and files; a
\* proxy may follow empty ones.
SaysOneThing(t, n, b) ==
  LET kinds == KindsOf(t, n, b)
      given == Lines(t, n, b, ContentLines)
      proxies == Lines(t, n, b, {"proxy"})
  IN  /\ kinds \subseteq {"proxy", "proxy_header"} \/ \E kind \in kinds : kinds = {kind}
      /\ kinds \subseteq Contents => \A i, j \in given : i = j
      /\ \A i, j \in proxies : i < j => Values(t, i) = <<"">>
=============================================================================
