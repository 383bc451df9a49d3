------------------------------- MODULE Startup -------------------------------
(***************************************************************************)
(* From the blocks of the configuration to the listeners: the end of       *)
(* parse_config groups the servers by address, and each listener makes its *)
(* acceptor of the certificates of its group (tls.rs).  What results are   *)
(* the constants of Serving.                                               *)
(***************************************************************************)
EXTENDS ConfigMeaning

VARIABLES
  grouped,   \* how many servers are in their group
  groups,    \* config.servers: address -> ServerGroup
  checked,   \* the addresses whose group was checked
  acceptor   \* address -> what make_acceptor returned

gvars == <<grouped, groups, checked, acceptor>>
uvars == <<pvars, gvars>>

NotMade == [kind |-> "not made"]
Plain == [kind |-> "plain"]
Unreadable == [kind |-> "unreadable"]

StartupInit ==
  /\ ParseInit
  /\ grouped = 0 /\ groups = Empty /\ checked = {} /\ acceptor = Empty

-----------------------------------------------------------------------------
(* The end of parse_config *)

Address(server) ==
  <<IF server.ip = None THEN "0.0.0.0" ELSE server.ip,
    IF server.port = None THEN "8080" ELSE server.port>>

GroupServer ==
  LET server == servers[grouped + 1]
      a == Address(server)
  IN
  /\ at = "read" /\ grouped < Len(servers)
  /\ groups' = IF a \in DOMAIN groups
               THEN [groups EXCEPT ![a].servers = Append(@, server)]
               ELSE Put(groups, a, [servers |-> <<server>>, default |-> 1])
  /\ grouped' = grouped + 1
  /\ UNCHANGED <<pvars, checked, acceptor>>

HasCert(server) == server.ssl_cert # None
SomeIn(group, test(_)) == \E k \in DOMAIN group.servers : test(group.servers[k])

\* Mutant: the last server that is marked is the default one.
DefaultLast(group) ==
  LET marked == {k \in DOMAIN group.servers : group.servers[k].default # None}
  IN  IF marked = {} THEN 1 ELSE CHOOSE k \in marked : \A j \in marked : j <= k

\* The first server that is marked, else the first.
Default(group) ==
  LET marked == {k \in DOMAIN group.servers : group.servers[k].default # None}
  IN  IF marked = {} THEN 1 ELSE CHOOSE k \in marked : \A j \in marked : k <= j

\* The groups are in a map, which is gone through in any order.
CheckGroup(a) ==
  LET HasNone(server) == ~HasCert(server) IN
  /\ at = "read" /\ grouped = Len(servers) /\ a \notin checked
  /\ IF SomeIn(groups[a], HasCert) /\ SomeIn(groups[a], HasNone)
     THEN Fail /\ UNCHANGED gvars
     ELSE /\ groups' = [groups EXCEPT ![a].default = Default(groups[a])]
          /\ checked' = checked \cup {a}
          /\ UNCHANGED <<pvars, grouped, acceptor>>

ParseReturns ==
  /\ at = "read" /\ grouped = Len(servers) /\ checked = DOMAIN groups
  /\ at' = "parsed"
  /\ acceptor' = [a \in DOMAIN groups |-> NotMade]
  /\ UNCHANGED <<text, missing, pos, scopes, open, servers, upstreams, grouped, groups, checked>>

-----------------------------------------------------------------------------
(* make_acceptor and Resolver *)

LastCert(group, test(_)) ==
  LET found == {k \in DOMAIN group.servers : test(group.servers[k])}
  IN  IF found = {} THEN None ELSE group.servers[CHOOSE k \in found : \A j \in found : j <= k].ssl_cert

\* A later server takes a name, or the default, from an earlier one.
Resolver(group) ==
  LET names == UNION {Range(group.servers[k].domains) : k \in DOMAIN group.servers}
      NoName(server) == server.domains = <<>>
      Named(name) == LastCert(group, LAMBDA server : name \in Range(server.domains))
  IN  [kind |-> "tls", by_name |-> [name \in names |-> Named(name)], default |-> LastCert(group, NoName)]

MakeAcceptor(a) ==
  /\ at = "parsed" /\ acceptor[a] = NotMade
  /\ \/ ~SomeIn(groups[a], HasCert) /\ acceptor' = [acceptor EXCEPT ![a] = Plain]
     \/ SomeIn(groups[a], HasCert) /\ acceptor' = [acceptor EXCEPT ![a] = Resolver(groups[a])]
     \/ SomeIn(groups[a], HasCert) /\ acceptor' = [acceptor EXCEPT ![a] = Unreadable]
  /\ UNCHANGED <<pvars, grouped, groups, checked>>

\* Mutant: a name that is not listed has no certificate.
ResolveListed(resolver, name) ==
  IF name = None THEN resolver.default
  ELSE IF name \in DOMAIN resolver.by_name THEN resolver.by_name[name] ELSE None

\* The certificate for a name that the client sends, or None when it sends none.
Resolve(resolver, name) ==
  IF name \in DOMAIN resolver.by_name THEN resolver.by_name[name] ELSE resolver.default

StartupStep ==
  \/ ParseStep /\ UNCHANGED gvars
  \/ GroupServer
  \/ \E a \in DOMAIN groups : CheckGroup(a)
  \/ ParseReturns
  \/ \E a \in DOMAIN acceptor : MakeAcceptor(a)

\* The configuration was refused, or every listener has its acceptor; or the parser
\* reads a line that does not end, over and over.
StartupDone ==
  /\ at \in {"failed", "endless"} \/ (at = "parsed" /\ \A a \in DOMAIN acceptor : acceptor[a] # NotMade)
  /\ UNCHANGED uvars

StartupNext == StartupStep \/ StartupDone

StartupSpec == StartupInit /\ [][StartupNext]_uvars /\ WF_uvars(StartupStep)

-----------------------------------------------------------------------------
\* The scopes are those of the blocks around the one that is read, and indices are of
\* servers there are.
ConfigTypeOK ==
  /\ at \in Blocks \cup {"read", "parsed", "failed", "endless"}
  /\ pos \in 0 .. Len(text)
  /\ at \in Blocks => Len(scopes) = Depth(text, pos + 1) + 1
  /\ grouped \in 0 .. Len(servers)
  /\ checked \subseteq DOMAIN groups
  /\ DOMAIN acceptor \in {{}, DOMAIN groups}
  /\ \A a \in DOMAIN groups : groups[a].default \in DOMAIN groups[a].servers

\* A variable has the value of the last set before it in a block that is still open:
\* a set ends with its block, may be overridden in it, and does not reach back.
VariablesAreScoped ==
  at \in Blocks => \A token \in DOMAIN VarOf : Expand(token) = ValueAt(text, pos + 1, token)

\* What is built is what the blocks say, in any order of their lines: the content of a
\* route, which says one thing, its headers and those for the proxied server, and the
\* servers of each group, of which the last of a name counts.
BlocksAreAsWritten ==
  at = "read" /\ grouped = 0 =>
    /\ servers = ServersOf(text, pos)
    /\ upstreams = GroupsOf(text, pos)
    /\ \A r \in 1 .. pos : text[r].name = "route" => SaysOneThing(text, pos, r)

\* Those servers of a list that have this address.
OfAddress(list, a) ==
  LET places == InOrder({k \in DOMAIN list : Address(list[k]) = a}, Len(list))
  IN  [i \in DOMAIN places |-> list[places[i]]]

\* Each server is in the group of its address, in the order of the file; the default
\* one is the first that is marked, or the first; and an address has TLS or has not,
\* so that a connection never comes without TLS to a server with a certificate.
ServersAreGrouped ==
  at = "parsed" =>
    /\ DOMAIN groups = {Address(servers[k]) : k \in DOMAIN servers}
    /\ \A a \in DOMAIN groups :
         LET group == groups[a].servers
             d == groups[a].default
         IN  /\ group = OfAddress(ServersOf(text, pos), a)
             /\ \A k \in 1 .. d - 1 : group[k].default = None
             /\ group[d].default = None => d = 1 /\ \A k \in DOMAIN group : group[k].default = None
             /\ \A j, k \in DOMAIN group :
                  (group[j].ssl_cert = None) = (group[k].ssl_keys = None)

\* get_host: the first server that lists the name, else the default one.
ServerFor(group, name) ==
  LET named == {k \in DOMAIN group.servers : name \in Range(group.servers[k].domains)}
  IN  group.servers[IF named = {} THEN group.default ELSE CHOOSE k \in named : \A j \in named : k <= j]

\* The certificate shown for a name, chosen before a request is read, is that of the
\* server that will answer it, when only one server lists the name; and for every other
\* name when the default server is the only one without names.
CertificatesFitServers ==
  \A a \in DOMAIN acceptor :
    acceptor[a].kind = "tls" =>
      LET group == groups[a]
          Listing(name) == {k \in DOMAIN group.servers : name \in Range(group.servers[k].domains)}
          unnamed == {k \in DOMAIN group.servers : group.servers[k].domains = <<>>}
          names == {None} \cup UNION {Range(servers[k].domains) : k \in DOMAIN servers}
      IN  \A name \in names :
            \/ Cardinality(Listing(name)) = 1
            \/ Listing(name) = {} /\ unnamed = {group.default}
            => Resolve(acceptor[a], name) = ServerFor(group, name).ssl_cert

\* The parser comes to an end and every listener gets its acceptor, unless the file ends
\* inside a line of file, domain or error_page, which is read for ever.
ParsingEnds ==
  <>(\/ at = "failed"
     \/ at = "endless" /\ Len(text) \in missing /\ Last(text).name \in Lists
     \/ at = "parsed" /\ \A a \in DOMAIN acceptor : acceptor[a] # NotMade)
=============================================================================
