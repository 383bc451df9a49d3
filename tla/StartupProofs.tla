---------------------------- MODULE StartupProofs ----------------------------
(***************************************************************************)
(* From the servers that were parsed to the acceptors of the listeners,    *)
(* for every file.  Until the file is read there is no group; while the    *)
(* groups are made each one is the servers of its address, in their order, *)
(* among those the loop has gone past; and once the first group is checked *)
(* no server comes to any of them any more, so that what was found out     *)
(* about a group, and the certificates chosen from it, stay true.          *)
(*                                                                         *)
(* And the variables of a file: each scope of the parser has the names     *)
(* that are set in one of the blocks that are open, with their last        *)
(* values; so that what a token is expanded to is what the last set that   *)
(* can be seen from there says.                                            *)
(*                                                                         *)
(* And what is built from it: the block that is read holds what its        *)
(* directives so far say, and the servers, routes and groups that are      *)
(* closed hold what all of theirs say.  A directive of the block that is   *)
(* read changes the one field it is about; it is in no block that is       *)
(* closed, whose lists therefore stay; and a brace says nothing, so that a *)
(* block that is closed can be taken as it is.                             *)
(***************************************************************************)
EXTENDS Startup, NaturalLemmas, FiniteSetTheorems, SequenceTheorems

\* The n servers that were gone past have these places in the group of address a.
ArePlaces(place, a, n) ==
  /\ \A j \in DOMAIN groups[a].servers : groups[a].servers[j] = servers[place[j]]
  /\ \A j, k \in DOMAIN groups[a].servers : j < k => place[j] < place[k]
  /\ {place[j] : j \in DOMAIN groups[a].servers} = {k \in 1 .. n : Address(servers[k]) = a}

IsSelection(a, n) ==
  \E place \in [DOMAIN groups[a].servers -> 1 .. n] : ArePlaces(place, a, n)

\* The certificate and the key of a server are given together.
KeysAreWithCertificates ==
  \A k \in DOMAIN servers : (servers[k].ssl_cert = None) <=> (servers[k].ssl_keys = None)

\* What has not been begun, and what cannot change any more.
PhasesInOrder ==
  /\ at \in Blocks => grouped = 0
  /\ at = "parsed" => grouped = Len(servers) /\ checked = DOMAIN groups /\ DOMAIN acceptor = DOMAIN groups
  /\ at # "parsed" => DOMAIN acceptor = {}
  /\ checked \subseteq DOMAIN groups
  /\ checked # {} => grouped = Len(servers)

GroupsAreSelections ==
  /\ DOMAIN groups = {Address(servers[k]) : k \in 1 .. grouped}
  /\ \A a \in DOMAIN groups :
       /\ DOMAIN groups[a] = {"servers", "default"}
       /\ IsSequence(groups[a].servers)
       /\ IsSelection(a, grouped)

HasOneKind(group) ==
  (\E k \in DOMAIN group.servers : group.servers[k].ssl_cert # None) =>
    \A k \in DOMAIN group.servers : group.servers[k].ssl_cert # None

CheckedAreChecked ==
  \A a \in checked : groups[a].default = Default(groups[a]) /\ HasOneKind(groups[a])

AcceptorsAreOfGroups ==
  \A a \in DOMAIN acceptor : acceptor[a].kind = "tls" => acceptor[a] = Resolver(groups[a])

ListenersInv ==
  /\ IsSequence(servers) /\ grouped \in 0 .. Len(servers)
  /\ KeysAreWithCertificates
  /\ PhasesInOrder
  /\ GroupsAreSelections
  /\ CheckedAreChecked
  /\ AcceptorsAreOfGroups

-----------------------------------------------------------------------------
(* Sequences *)

LEMMA SequenceHasPlaces ==
  ASSUME NEW s, IsSequence(s)
  PROVE  Len(s) \in Nat /\ DOMAIN s = 1 .. Len(s)
  BY DEF IsSequence

LEMMA SequenceOfItsElements ==
  ASSUME NEW T, NEW s \in Seq(T)
  PROVE  IsSequence(s)
  <1> DEFINE S == {s[k] : k \in DOMAIN s}
  <1>1. PICK n \in Nat : s \in [1 .. n -> T]
    BY SeqDef
  <1>2. s \in [1 .. n -> S]
    BY <1>1
  <1>3. s \in UNION {[1 .. m -> S] : m \in Nat}
    BY <1>2
  <1> HIDE DEF S
  <1>4. s \in Seq(S)
    BY <1>3, SeqDef
  <1> QED
    BY <1>4 DEF IsSequence, S

LEMMA AppendIsSequence ==
  ASSUME NEW s, IsSequence(s), NEW e
  PROVE  /\ IsSequence(Append(s, e))
         /\ Len(Append(s, e)) = Len(s) + 1
         /\ DOMAIN Append(s, e) = 1 .. Len(s) + 1
         /\ Append(s, e)[Len(s) + 1] = e
         /\ \A k \in 1 .. Len(s) : Append(s, e)[k] = s[k]
  <1> DEFINE T == {s[k] : k \in DOMAIN s} \cup {e}
             u == Append(s, e)
  <1>1. s \in Seq(T) /\ e \in T
    BY DEF IsSequence
  <1>2. u \in Seq(T) /\ Len(u) = Len(s) + 1 /\ Len(s) \in Nat
    BY <1>1
  <1>3. u[Len(s) + 1] = e /\ \A k \in 1 .. Len(s) : u[k] = s[k]
    BY <1>1
  <1>4. DOMAIN u = 1 .. Len(u)
    BY <1>2
  <1>5. IsSequence(u)
    BY <1>2, SequenceOfItsElements
  <1> QED
    BY <1>2, <1>3, <1>4, <1>5

-----------------------------------------------------------------------------
(* The parser of blocks *)

\* While blocks are read no group is made, and a server is added as a whole.
LEMMA ParseStepAddsServers ==
  ASSUME ParseStep
  PROVE  /\ at \in Blocks /\ at' # "parsed"
         /\ \/ servers' = servers
            \/ /\ servers' = Append(servers, open.server)
               /\ (open.server.ssl_cert = None) <=> (open.server.ssl_keys = None)
  <1> USE DEF Reads, Blocks, Fail, Take, Enter
  <1>1. CASE SetVariable
    BY <1>1 DEF SetVariable
  <1>2. CASE GiveOnce
    BY <1>2 DEF GiveOnce
  <1>3. CASE Unknown \/ IsNotFollowed
    BY <1>3 DEF Unknown, IsNotFollowed
  <1>4. CASE FileEnds
    BY <1>4 DEF FileEnds
  <1>5. CASE OpenRoute
    BY <1>5 DEF OpenRoute
  <1>6. CASE GiveContent \/ AddFiles \/ GiveProxy
    BY <1>6 DEF GiveContent, AddFiles, GiveProxy, TakeContent
  <1>7. CASE AddProxyHeader \/ AddHeader
    BY <1>7 DEF AddProxyHeader, AddHeader, TakeContent
  <1>8. CASE CloseRoute
    BY <1>8 DEF CloseRoute
  <1>9. CASE OpenServer
    BY <1>9 DEF OpenServer
  <1>10. CASE AddDomains \/ AddErrorPage
    BY <1>10 DEF AddDomains, AddErrorPage
  <1>11. CASE CloseServer
    BY <1>11 DEF CloseServer
  <1>12. CASE OpenUpstream
    BY <1>12 DEF OpenUpstream
  <1>13. CASE AddUpstreamServer \/ CloseUpstream
    BY <1>13 DEF AddUpstreamServer, CloseUpstream
  <1> QED
    BY <1>1, <1>2, <1>3, <1>4, <1>5, <1>6, <1>7, <1>8, <1>9, <1>10, <1>11, <1>12, <1>13 DEF ParseStep

-----------------------------------------------------------------------------
(* What is said of a group depends on its servers only *)

LEMMA SameServersSameGroup ==
  ASSUME NEW g, NEW h, g.servers = h.servers
  PROVE  Default(g) = Default(h) /\ HasOneKind(g) = HasOneKind(h) /\ Resolver(g) = Resolver(h)
  BY DEF Default, HasOneKind, Resolver, LastCert

\* The next server is not of this group.
LEMMA OthersAreSelections ==
  ASSUME NEW a, NEW n \in Nat, IsSelection(a, n), Address(servers[n + 1]) # a,
         UNCHANGED servers, groups'[a].servers = groups[a].servers
  PROVE  IsSelection(a, n + 1)'
  <1>1. PICK place \in [DOMAIN groups[a].servers -> 1 .. n] : ArePlaces(place, a, n)
    BY DEF IsSelection
  <1>2. place \in [DOMAIN groups[a].servers -> 1 .. n + 1]
    BY <1>1
  <1>3. {k \in 1 .. n + 1 : Address(servers[k]) = a} = {k \in 1 .. n : Address(servers[k]) = a}
    OBVIOUS
  <1>4. ArePlaces(place, a, n + 1)'
    BY <1>1, <1>3 DEF ArePlaces
  <1> QED
    BY <1>2, <1>4 DEF IsSelection

LEMMA SameIsSelection ==
  ASSUME NEW a, NEW n, IsSelection(a, n), UNCHANGED servers, groups'[a].servers = groups[a].servers
  PROVE  IsSelection(a, n)'
  BY DEF IsSelection, ArePlaces

\* The next server is the first of its address, or comes behind the others.
LEMMA FirstIsSelection ==
  ASSUME NEW n \in Nat, NEW a, a = Address(servers[n + 1]), UNCHANGED servers,
         \A k \in 1 .. n : Address(servers[k]) # a,
         groups'[a].servers = <<servers[n + 1]>>
  PROVE  IsSelection(a, n + 1)'
  <1> DEFINE place == [j \in 1 .. 1 |-> n + 1]
  <1>1. DOMAIN groups'[a].servers = 1 .. 1 /\ groups'[a].servers[1] = servers[n + 1]
    OBVIOUS
  <1>2. place \in [1 .. 1 -> 1 .. n + 1] /\ \A j \in 1 .. 1 : place[j] = n + 1 /\ j = 1
    OBVIOUS
  <1>3. {k \in 1 .. n + 1 : Address(servers[k]) = a} = {n + 1}
    OBVIOUS
  <1>4. {place[j] : j \in 1 .. 1} = {n + 1}
    BY <1>2
  <1> HIDE DEF place
  <1>5. ArePlaces(place, a, n + 1)'
    BY <1>1, <1>2, <1>3, <1>4 DEF ArePlaces
  <1> QED
    BY <1>1, <1>2, <1>5 DEF IsSelection

LEMMA AppendedIsSelection ==
  ASSUME NEW n \in Nat, NEW a, a = Address(servers[n + 1]), UNCHANGED servers,
         IsSelection(a, n), IsSequence(groups[a].servers),
         groups'[a].servers = Append(groups[a].servers, servers[n + 1])
  PROVE  IsSelection(a, n + 1)'
  <1> DEFINE old == groups[a].servers
             new == groups'[a].servers
  <1>1. PICK place \in [DOMAIN old -> 1 .. n] : ArePlaces(place, a, n)
    BY DEF IsSelection
  <1>2. /\ Len(old) \in Nat /\ DOMAIN old = 1 .. Len(old) /\ DOMAIN new = 1 .. Len(old) + 1
        /\ new[Len(old) + 1] = servers[n + 1]
        /\ \A j \in 1 .. Len(old) : new[j] = old[j]
    <2>1. new = Append(old, servers[n + 1]) /\ IsSequence(old)
      OBVIOUS
    <2> HIDE DEF old, new
    <2>2. Len(old) \in Nat /\ DOMAIN old = 1 .. Len(old)
      BY <2>1, SequenceHasPlaces
    <2> QED
      BY <2>1, <2>2, AppendIsSequence
  <1> HIDE DEF old, new
  <1>3. PICK wider \in [DOMAIN new -> 1 .. n + 1] :
          /\ wider[Len(old) + 1] = n + 1
          /\ \A j \in 1 .. Len(old) : wider[j] = place[j] /\ place[j] \in 1 .. n
    <2> DEFINE w == [j \in 1 .. Len(old) + 1 |-> IF j = Len(old) + 1 THEN n + 1 ELSE place[j]]
    <2>1. w \in [DOMAIN new -> 1 .. n + 1]
      BY <1>1, <1>2
    <2>2. w[Len(old) + 1] = n + 1 /\ \A j \in 1 .. Len(old) : w[j] = place[j] /\ place[j] \in 1 .. n
      BY <1>1, <1>2
    <2> QED
      BY <2>1, <2>2
  <1>4. 1 .. Len(old) + 1 = (1 .. Len(old)) \cup {Len(old) + 1}
    BY <1>2
  <1>5. \A j \in DOMAIN new : new[j] = servers[wider[j]]
    <2>1. \A j \in 1 .. Len(old) : old[j] = servers[place[j]]
      BY <1>1, <1>2 DEF ArePlaces, old
    <2>2. \A j \in 1 .. Len(old) : new[j] = servers[wider[j]]
      BY <1>2, <1>3, <2>1, Zenon
    <2>3. new[Len(old) + 1] = servers[wider[Len(old) + 1]]
      BY <1>2, <1>3, Zenon
    <2> QED
      BY <1>2, <1>4, <2>2, <2>3, Zenon
  <1>6. ASSUME NEW j \in DOMAIN new, NEW k \in DOMAIN new, j < k PROVE wider[j] < wider[k]
    <2>1. j \in 1 .. Len(old)
      BY <1>2, <1>6
    <2>2. CASE k = Len(old) + 1
      BY <1>3, <2>1, <2>2
    <2>3. CASE k \in 1 .. Len(old)
      <3>1. place[j] < place[k]
        BY <1>1, <1>2, <1>6, <2>1, <2>3 DEF ArePlaces, old
      <3> QED
        BY <1>3, <2>1, <2>3, <3>1
    <2> QED
      BY <1>2, <1>4, <2>2, <2>3
  <1>7. {wider[j] : j \in DOMAIN new} = {place[j] : j \in DOMAIN old} \cup {n + 1}
    BY <1>2, <1>3, <1>4
  <1>8. {k \in 1 .. n + 1 : Address(servers[k]) = a} = {k \in 1 .. n : Address(servers[k]) = a} \cup {n + 1}
    OBVIOUS
  <1>9. {place[j] : j \in DOMAIN old} = {k \in 1 .. n : Address(servers[k]) = a}
    BY <1>1 DEF ArePlaces, old
  <1>10. ArePlaces(wider, a, n + 1)'
    BY <1>5, <1>6, <1>7, <1>8, <1>9 DEF ArePlaces, new
  <1> QED
    BY <1>3, <1>10 DEF IsSelection, new

-----------------------------------------------------------------------------
(* The steps *)

LEMMA ListenersInit == StartupInit => ListenersInv
  <1> SUFFICES ASSUME StartupInit PROVE ListenersInv
    OBVIOUS
  <1>1. /\ servers = <<>> /\ grouped = 0 /\ DOMAIN groups = {} /\ checked = {}
        /\ DOMAIN acceptor = {} /\ at = "top"
    <2>1. DOMAIN <<>> = {}
      OBVIOUS
    <2> QED
      BY <2>1 DEF StartupInit, ParseInit, Empty
  <1>2. IsSequence(servers) /\ Len(servers) = 0 /\ DOMAIN servers = {}
    <2>1. <<>> \in Seq({}) /\ Len(<<>>) = 0 /\ DOMAIN <<>> = {}
      OBVIOUS
    <2> QED
      BY <1>1, <2>1, SequenceOfItsElements
  <1>3. KeysAreWithCertificates /\ PhasesInOrder
    BY <1>1, <1>2 DEF KeysAreWithCertificates, PhasesInOrder
  <1>4. GroupsAreSelections
    BY <1>1 DEF GroupsAreSelections
  <1>5. CheckedAreChecked /\ AcceptorsAreOfGroups
    BY <1>1 DEF CheckedAreChecked, AcceptorsAreOfGroups
  <1> QED
    BY <1>1, <1>2, <1>3, <1>4, <1>5 DEF ListenersInv

LEMMA ParseStepKeeps == ListenersInv /\ ParseStep /\ UNCHANGED gvars => ListenersInv'
  <1> SUFFICES ASSUME ListenersInv, ParseStep, UNCHANGED gvars PROVE ListenersInv'
    OBVIOUS
  <1>1. /\ at \in Blocks /\ at' # "parsed"
        /\ \/ servers' = servers
           \/ /\ servers' = Append(servers, open.server)
              /\ (open.server.ssl_cert = None) <=> (open.server.ssl_keys = None)
    BY ParseStepAddsServers
  <1>2. at # "parsed" /\ grouped = 0 /\ DOMAIN acceptor = {} /\ DOMAIN groups = {} /\ checked = {}
    BY <1>1 DEF ListenersInv, PhasesInOrder, GroupsAreSelections, Blocks
  <1>3. UNCHANGED <<grouped, groups, checked, acceptor>>
    BY DEF gvars
  <1>4. IsSequence(servers)' /\ KeysAreWithCertificates'
    <2>1. CASE servers' = servers
      BY <2>1 DEF ListenersInv, IsSequence, KeysAreWithCertificates
    <2>2. CASE servers' # servers
      <3>1. IsSequence(servers) /\ DOMAIN servers = 1 .. Len(servers) /\ Len(servers) \in Nat
        BY SequenceHasPlaces DEF ListenersInv
      <3>2. servers' = Append(servers, open.server)
        BY <1>1, <2>2
      <3>3. /\ IsSequence(servers')
            /\ DOMAIN servers' = 1 .. Len(servers) + 1
            /\ servers'[Len(servers) + 1] = open.server
            /\ \A k \in 1 .. Len(servers) : servers'[k] = servers[k]
        BY <3>1, <3>2, AppendIsSequence
      <3>4. \A k \in 1 .. Len(servers) + 1 : k \in 1 .. Len(servers) \/ k = Len(servers) + 1
        BY <3>1
      <3> QED
        BY <1>1, <2>2, <3>1, <3>3, <3>4 DEF ListenersInv, IsSequence, KeysAreWithCertificates
    <2> QED
      BY <2>1, <2>2
  <1>5. Len(servers') \in Nat
    BY <1>4, SequenceHasPlaces
  <1>6. grouped' \in 0 .. Len(servers')
    BY <1>2, <1>3, <1>5
  <1>7. PhasesInOrder'
    BY <1>1, <1>2, <1>3 DEF PhasesInOrder
  <1>8. GroupsAreSelections'
    BY <1>2, <1>3 DEF GroupsAreSelections
  <1>9. CheckedAreChecked' /\ AcceptorsAreOfGroups'
    BY <1>2, <1>3 DEF CheckedAreChecked, AcceptorsAreOfGroups
  <1> QED
    BY <1>4, <1>6, <1>7, <1>8, <1>9 DEF ListenersInv

LEMMA GroupServerKeeps == ListenersInv /\ GroupServer => ListenersInv'
  <1> SUFFICES ASSUME ListenersInv, GroupServer PROVE ListenersInv'
    OBVIOUS
  <1>0. PICK n, server, a : n = grouped /\ server = servers[n + 1] /\ a = Address(server)
    OBVIOUS
  <1>1. /\ at = "read" /\ n < Len(servers) /\ grouped' = n + 1
        /\ UNCHANGED <<at, servers, checked, acceptor>>
        /\ groups' = IF a \in DOMAIN groups
                     THEN [groups EXCEPT ![a].servers = Append(@, server)]
                     ELSE Put(groups, a, [servers |-> <<server>>, default |-> 1])
    BY <1>0 DEF GroupServer, pvars
  <1>2. /\ n \in Nat /\ Len(servers) \in Nat /\ grouped' \in 0 .. Len(servers)
        /\ checked = {} /\ DOMAIN acceptor = {}
    BY <1>0, <1>1, SequenceHasPlaces DEF ListenersInv, PhasesInOrder
  <1>3. PhasesInOrder'
    BY <1>1, <1>2 DEF PhasesInOrder, Blocks
  <1>4. CheckedAreChecked' /\ AcceptorsAreOfGroups'
    BY <1>1, <1>2 DEF CheckedAreChecked, AcceptorsAreOfGroups
  <1>5. KeysAreWithCertificates' /\ IsSequence(servers)'
    BY <1>1 DEF ListenersInv, KeysAreWithCertificates, IsSequence
  <1>6. GroupsAreSelections
    BY DEF ListenersInv
  <1>7. DOMAIN groups' = DOMAIN groups \cup {a}
    BY <1>1 DEF Put
  <1>8. DOMAIN groups' = {Address(servers'[k]) : k \in 1 .. grouped'}
    <2>1. 1 .. n + 1 = (1 .. n) \cup {n + 1}
      BY <1>2
    <2> QED
      BY <1>0, <1>1, <1>6, <1>7, <2>1 DEF GroupsAreSelections
  <1>9. ASSUME NEW b \in DOMAIN groups \ {a}
        PROVE  /\ DOMAIN groups'[b] = {"servers", "default"}
               /\ IsSequence(groups'[b].servers)
               /\ IsSelection(b, n + 1)'
    <2>1. groups'[b] = groups[b]
      <3>1. Put(groups, a, [servers |-> <<server>>, default |-> 1])[b] = groups[b]
        BY DEF Put
      <3> QED
        BY <1>1, <3>1
    <2>2. IsSelection(b, n + 1)'
      <3>1. IsSelection(b, n) /\ Address(servers[n + 1]) # b
        BY <1>0, <1>6 DEF GroupsAreSelections
      <3> QED
        BY <1>1, <1>2, <2>1, <3>1, OthersAreSelections
    <2> QED
      BY <1>6, <2>1, <2>2 DEF GroupsAreSelections
  <1>10. /\ DOMAIN groups'[a] = {"servers", "default"}
         /\ IsSequence(groups'[a].servers)
         /\ IsSelection(a, n + 1)'
    <2>1. CASE a \in DOMAIN groups
      <3>1. DOMAIN groups[a] = {"servers", "default"} /\ IsSequence(groups[a].servers) /\ IsSelection(a, n)
        BY <1>0, <1>6, <2>1 DEF GroupsAreSelections
      <3>2. groups'[a] = [groups[a] EXCEPT !.servers = Append(groups[a].servers, server)]
        BY <1>1, <2>1
      <3>3. DOMAIN groups'[a] = {"servers", "default"}
            /\ groups'[a].servers = Append(groups[a].servers, server)
        BY <3>1, <3>2
      <3>4. IsSequence(groups'[a].servers)
        BY <3>1, <3>3, AppendIsSequence
      <3> QED
        BY <1>0, <1>1, <1>2, <3>1, <3>3, <3>4, AppendedIsSelection
    <2>2. CASE a \notin DOMAIN groups
      <3>1. groups'[a] = [servers |-> <<server>>, default |-> 1]
        <4>1. Put(groups, a, [servers |-> <<server>>, default |-> 1])[a] = [servers |-> <<server>>, default |-> 1]
          BY DEF Put
        <4> QED
          BY <1>1, <2>2, <4>1
      <3>2. DOMAIN groups'[a] = {"servers", "default"} /\ groups'[a].servers = <<server>>
        BY <3>1
      <3>3. <<server>> \in Seq({server})
        OBVIOUS
      <3>4. \A k \in 1 .. n : Address(servers[k]) # a
        BY <1>0, <1>6, <2>2 DEF GroupsAreSelections
      <3> QED
        BY <1>0, <1>1, <1>2, <3>2, <3>3, <3>4, SequenceOfItsElements, FirstIsSelection
    <2> QED
      BY <2>1, <2>2
  <1>11. GroupsAreSelections'
    BY <1>1, <1>7, <1>8, <1>9, <1>10 DEF GroupsAreSelections
  <1> QED
    BY <1>1, <1>2, <1>3, <1>4, <1>5, <1>11 DEF ListenersInv

LEMMA SameGroupsAreAsBefore ==
  ASSUME ListenersInv, UNCHANGED <<servers, grouped, groups, checked>>
  PROVE  /\ IsSequence(servers)' /\ (grouped \in 0 .. Len(servers))'
         /\ GroupsAreSelections' /\ CheckedAreChecked' /\ KeysAreWithCertificates'
  <1>1. ASSUME NEW a \in DOMAIN groups PROVE IsSelection(a, grouped)'
    BY DEF ListenersInv, GroupsAreSelections, IsSelection, ArePlaces
  <1>2. GroupsAreSelections'
    BY <1>1 DEF ListenersInv, GroupsAreSelections
  <1>3. CheckedAreChecked'
    BY DEF ListenersInv, CheckedAreChecked
  <1>4. KeysAreWithCertificates'
    BY DEF ListenersInv, KeysAreWithCertificates
  <1> QED
    BY <1>2, <1>3, <1>4 DEF ListenersInv, IsSequence

\* A check changes the default server of one group, and nothing else of the groups.
LEMMA CheckGroupKeeps ==
  ASSUME ListenersInv, NEW a \in DOMAIN groups, CheckGroup(a)
  PROVE  ListenersInv'
  <1>1. at = "read" /\ grouped = Len(servers) /\ UNCHANGED <<servers, grouped, acceptor>>
    BY DEF CheckGroup, Fail, pvars, gvars
  <1>2. DOMAIN acceptor = {} /\ IsSequence(servers) /\ grouped \in 0 .. Len(servers)
    BY <1>1 DEF ListenersInv, PhasesInOrder
  <1>3. KeysAreWithCertificates' /\ IsSequence(servers)' /\ AcceptorsAreOfGroups'
    BY <1>1, <1>2 DEF ListenersInv, KeysAreWithCertificates, IsSequence, AcceptorsAreOfGroups
  <1>4. CASE UNCHANGED gvars /\ at' = "failed"
    <2>1. UNCHANGED <<groups, checked>>
      BY <1>4 DEF gvars
    <2>2. PhasesInOrder'
      BY <1>1, <1>2, <1>4, <2>1 DEF ListenersInv, PhasesInOrder, Blocks
    <2>3. GroupsAreSelections' /\ CheckedAreChecked'
      BY <1>1, <2>1, SameGroupsAreAsBefore
    <2> QED
      BY <1>1, <1>2, <1>3, <2>2, <2>3 DEF ListenersInv
  <1>5. CASE /\ groups' = [groups EXCEPT ![a].default = Default(groups[a])]
             /\ checked' = checked \cup {a} /\ at' = at /\ HasOneKind(groups[a])
    <2>1. GroupsAreSelections
      BY DEF ListenersInv
    <2>2. DOMAIN groups' = DOMAIN groups
      BY <1>5
    <2>3. ASSUME NEW b \in DOMAIN groups
          PROVE  /\ groups'[b].servers = groups[b].servers
                 /\ DOMAIN groups'[b] = {"servers", "default"}
                 /\ b = a => groups'[b].default = Default(groups[a])
                 /\ b # a => groups'[b] = groups[b]
      BY <1>5, <2>1 DEF GroupsAreSelections
    <2>4. ASSUME NEW b \in DOMAIN groups PROVE IsSequence(groups'[b].servers) /\ IsSelection(b, grouped)'
      <3>1. IsSequence(groups[b].servers) /\ IsSelection(b, grouped)
        BY <2>1 DEF GroupsAreSelections
      <3>2. PICK place \in [DOMAIN groups[b].servers -> 1 .. grouped] : ArePlaces(place, b, grouped)
        BY <3>1 DEF IsSelection
      <3>3. ArePlaces(place, b, grouped)'
        BY <1>1, <2>3, <3>2 DEF ArePlaces
      <3>4. IsSelection(b, grouped)'
        BY <1>1, <2>3, <3>2, <3>3, Zenon DEF IsSelection
      <3> QED
        BY <2>3, <3>1, <3>4
    <2>5. GroupsAreSelections'
      BY <1>1, <2>1, <2>2, <2>3, <2>4 DEF GroupsAreSelections
    <2>6. PhasesInOrder'
      BY <1>1, <1>2, <1>5, <2>2 DEF ListenersInv, PhasesInOrder, Blocks
    <2>7. CheckedAreChecked'
      <3>1. ASSUME NEW b \in checked \cup {a}
            PROVE  groups'[b].default = Default(groups'[b]) /\ HasOneKind(groups'[b])
        <4>1. b \in DOMAIN groups
          BY DEF ListenersInv, PhasesInOrder
        <4>2. Default(groups'[b]) = Default(groups[b]) /\ HasOneKind(groups'[b]) = HasOneKind(groups[b])
          BY <2>3, <4>1, SameServersSameGroup
        <4>3. CASE b = a
          BY <1>5, <2>3, <4>1, <4>2, <4>3
        <4>4. CASE b # a
          BY <2>3, <4>1, <4>2, <4>4 DEF ListenersInv, CheckedAreChecked
        <4> QED
          BY <4>3, <4>4
      <3> QED
        BY <1>5, <3>1 DEF CheckedAreChecked
    <2> QED
      BY <1>1, <1>2, <1>3, <2>5, <2>6, <2>7 DEF ListenersInv
  <1> QED
    BY <1>4, <1>5 DEF CheckGroup, Fail, SomeIn, HasCert, HasOneKind, pvars

LEMMA ParseReturnsKeeps == ListenersInv /\ ParseReturns => ListenersInv'
  <1> SUFFICES ASSUME ListenersInv, ParseReturns PROVE ListenersInv'
    OBVIOUS
  <1>1. /\ grouped = Len(servers) /\ checked = DOMAIN groups /\ at' = "parsed"
        /\ acceptor' = [a \in DOMAIN groups |-> NotMade]
        /\ UNCHANGED <<servers, grouped, groups, checked>>
    BY DEF ParseReturns
  <1>2. PhasesInOrder'
    BY <1>1 DEF PhasesInOrder, Blocks
  <1>3. AcceptorsAreOfGroups'
    BY <1>1 DEF AcceptorsAreOfGroups, NotMade
  <1>4. GroupsAreSelections' /\ CheckedAreChecked' /\ KeysAreWithCertificates'
    BY <1>1, SameGroupsAreAsBefore
  <1> QED
    BY <1>1, <1>2, <1>3, <1>4 DEF ListenersInv

LEMMA MakeAcceptorKeeps ==
  ASSUME ListenersInv, NEW a \in DOMAIN acceptor, MakeAcceptor(a)
  PROVE  ListenersInv'
  <1>1. UNCHANGED <<at, servers, grouped, groups, checked>> /\ DOMAIN acceptor' = DOMAIN acceptor
    BY DEF MakeAcceptor, pvars
  <1>2. AcceptorsAreOfGroups'
    <2>1. ASSUME NEW b \in DOMAIN acceptor, acceptor'[b].kind = "tls"
          PROVE  acceptor'[b] = Resolver(groups[b])
      <3>1. CASE b # a
        BY <2>1, <3>1 DEF MakeAcceptor, ListenersInv, AcceptorsAreOfGroups
      <3>2. CASE b = a
        BY <2>1, <3>2 DEF MakeAcceptor, Plain, Unreadable
      <3> QED
        BY <3>1, <3>2
    <2> QED
      BY <1>1, <2>1 DEF AcceptorsAreOfGroups
  <1>3. PhasesInOrder'
    BY <1>1 DEF ListenersInv, PhasesInOrder
  <1>4. GroupsAreSelections' /\ CheckedAreChecked' /\ KeysAreWithCertificates'
    BY <1>1, SameGroupsAreAsBefore
  <1> QED
    BY <1>1, <1>2, <1>3, <1>4 DEF ListenersInv

LEMMA ListenersStutter == ListenersInv /\ UNCHANGED uvars => ListenersInv'
  <1> SUFFICES ASSUME ListenersInv, UNCHANGED uvars PROVE ListenersInv'
    OBVIOUS
  <1>1. UNCHANGED <<at, servers, grouped, groups, checked, acceptor>>
    BY DEF uvars, pvars, gvars
  <1>2. PhasesInOrder' /\ AcceptorsAreOfGroups'
    BY <1>1 DEF ListenersInv, PhasesInOrder, AcceptorsAreOfGroups
  <1> QED
    BY <1>1, <1>2, SameGroupsAreAsBefore DEF ListenersInv

LEMMA ListenersStep == ListenersInv /\ [StartupNext]_uvars => ListenersInv'
  BY ParseStepKeeps, GroupServerKeeps, CheckGroupKeeps, ParseReturnsKeeps, MakeAcceptorKeeps, ListenersStutter
     DEF StartupNext, StartupStep, StartupDone

-----------------------------------------------------------------------------
(* What the invariant says of certificates *)

LEMMA LastOfOne ==
  ASSUME NEW k \in Int, NEW passing, passing = {k}
  PROVE  (CHOOSE q \in passing : \A j \in passing : j <= q) = k
  <1>1. \A q \in passing : (\A j \in passing : j <= q) <=> q = k
    OBVIOUS
  <1> QED
    BY <1>1

LEMMA InvFitsServers == ListenersInv => CertificatesFitServers
  <1> SUFFICES ASSUME ListenersInv, NEW a \in DOMAIN acceptor, acceptor[a].kind = "tls", NEW name
               PROVE  LET group == groups[a]
                          Listing == {k \in DOMAIN group.servers : name \in Range(group.servers[k].domains)}
                          unnamed == {k \in DOMAIN group.servers : group.servers[k].domains = <<>>}
                      IN  (Cardinality(Listing) = 1 \/ (Listing = {} /\ unnamed = {group.default}))
                            => Resolve(acceptor[a], name) = ServerFor(group, name).ssl_cert
    BY DEF CertificatesFitServers
  <1> DEFINE group == groups[a]
             listing == {k \in DOMAIN group.servers : name \in Range(group.servers[k].domains)}
             unnamed == {k \in DOMAIN group.servers : group.servers[k].domains = <<>>}
             names == UNION {Range(group.servers[k].domains) : k \in DOMAIN group.servers}
  <1>1. a \in DOMAIN groups /\ acceptor[a] = Resolver(group)
    BY DEF ListenersInv, PhasesInOrder, AcceptorsAreOfGroups
  <1>2. Len(group.servers) \in Nat /\ DOMAIN group.servers = 1 .. Len(group.servers)
    BY <1>1, SequenceHasPlaces DEF ListenersInv, GroupsAreSelections
  <1>3. DOMAIN acceptor[a].by_name = names
    BY <1>1 DEF Resolver
  <1>4. name \in names <=> listing # {}
    OBVIOUS
  <1>5. CASE Cardinality(listing) = 1
    <2>1. IsFiniteSet(1 .. Len(group.servers)) /\ listing \subseteq 1 .. Len(group.servers)
      BY <1>2, FS_Interval
    <2>2. IsFiniteSet(listing)
      BY <2>1, FS_Subset
    <2> HIDE DEF listing
    <2>3. PICK k : listing = {k}
      BY <1>5, <2>2, FS_Singleton
    <2>4. k \in Int
      BY <1>2, <2>1, <2>3
    <2>5. acceptor[a].by_name[name] = group.servers[k].ssl_cert
      <3>1. Resolver(group).by_name =
              [m \in names |->
                 IF {q \in DOMAIN group.servers : m \in Range(group.servers[q].domains)} = {} THEN None
                 ELSE group.servers[CHOOSE q \in {r \in DOMAIN group.servers : m \in Range(group.servers[r].domains)} :
                        \A j \in {r \in DOMAIN group.servers : m \in Range(group.servers[r].domains)} : j <= q].ssl_cert]
        BY DEF Resolver, LastCert
      <3>2. name \in names
        BY <1>4, <2>3
      <3> HIDE DEF names, group
      <3>3. Resolver(group).by_name[name] =
              IF listing = {} THEN None
              ELSE group.servers[CHOOSE q \in listing : \A j \in listing : j <= q].ssl_cert
        BY <3>1, <3>2 DEF listing
      <3>4. (CHOOSE q \in listing : \A j \in listing : j <= q) = k
        BY <2>3, <2>4, LastOfOne
      <3> QED
        BY <1>1, <2>3, <3>3, <3>4
    <2>6. ServerFor(group, name) = group.servers[k]
      <3>1. \A q \in listing : (\A j \in listing : q <= j) <=> q = k
        BY <2>3, <2>4
      <3>2. (CHOOSE q \in listing : \A j \in listing : q <= j) = k
        BY <2>3, <3>1
      <3>3. ServerFor(group, name) =
              group.servers[IF listing = {} THEN group.default
                            ELSE CHOOSE q \in listing : \A j \in listing : q <= j]
        BY DEF ServerFor, listing
      <3> QED
        BY <2>3, <3>2, <3>3
    <2> QED
      BY <1>3, <1>4, <2>3, <2>5, <2>6 DEF Resolve
  <1>6. CASE listing = {} /\ unnamed = {group.default}
    <2>1. ServerFor(group, name) = group.servers[group.default]
      BY <1>6 DEF ServerFor
    <2>2. acceptor[a].default
            = IF unnamed = {} THEN None
              ELSE group.servers[CHOOSE q \in unnamed : \A j \in unnamed : j <= q].ssl_cert
      BY <1>1 DEF Resolver, LastCert
    <2>3. group.default \in Int
      BY <1>2, <1>6
    <2> HIDE DEF unnamed
    <2>4. (CHOOSE q \in unnamed : \A j \in unnamed : j <= q) = group.default
      BY <1>6, <2>3, LastOfOne
    <2>5. acceptor[a].default = group.servers[group.default].ssl_cert
      BY <1>6, <2>2, <2>4
    <2> QED
      BY <1>3, <1>4, <1>6, <2>1, <2>5 DEF Resolve
  <1> QED
    BY <1>5, <1>6

\* make_acceptor (tls.rs) and get_host (process.rs): for every configuration, the
\* certificate shown for a name is that of the server that answers it, when one server
\* lists the name, or when none does and the default one alone has no names.
THEOREM CertificatesFit == StartupSpec => []CertificatesFitServers
  <1>1. StartupInit => ListenersInv
    BY ListenersInit
  <1>2. ListenersInv /\ [StartupNext]_uvars => ListenersInv'
    BY ListenersStep
  <1>3. ListenersInv => CertificatesFitServers
    BY InvFitsServers
  <1> QED
    BY <1>1, <1>2, <1>3, PTL DEF StartupSpec

-----------------------------------------------------------------------------
(* What the invariant says of groups *)

\* ServersAreGrouped, said of the servers that were parsed and not of the text: a group
\* is all the servers of its address in their order, the default one is the first that
\* is marked, or the first, and all of them have a certificate and a key, or none has.
ServersAreSelected ==
  at = "parsed" =>
    /\ DOMAIN groups = {Address(servers[k]) : k \in DOMAIN servers}
    /\ \A a \in DOMAIN groups :
         LET group == groups[a].servers
             d == groups[a].default
         IN  /\ IsSelection(a, Len(servers))
             /\ d \in DOMAIN group
             /\ \A k \in 1 .. d - 1 : group[k].default = None
             /\ group[d].default = None => d = 1 /\ \A k \in DOMAIN group : group[k].default = None
             /\ \A j, k \in DOMAIN group : (group[j].ssl_cert = None) <=> (group[k].ssl_keys = None)

LEMMA DefaultIsFirstMarked ==
  ASSUME NEW group, NEW n \in Nat, n > 0, DOMAIN group.servers = 1 .. n
  PROVE  /\ Default(group) \in 1 .. n
         /\ \A k \in 1 .. Default(group) - 1 : group.servers[k].default = None
         /\ group.servers[Default(group)].default = None =>
              Default(group) = 1 /\ \A k \in 1 .. n : group.servers[k].default = None
  <1> DEFINE marked == {k \in DOMAIN group.servers : group.servers[k].default # None}
  <1>1. marked \in SUBSET Nat /\ marked \subseteq 1 .. n
    OBVIOUS
  <1>2. CASE marked = {}
    <2>1. Default(group) = 1
      BY <1>2 DEF Default
    <2> QED
      BY <1>2, <2>1
  <1>3. CASE marked # {}
    <2>1. Default(group) = CHOOSE k \in marked : \A j \in marked : k <= j
      BY <1>3 DEF Default
    <2> HIDE DEF marked
    <2>2. \E k \in marked : \A j \in marked : k <= j
      BY <1>1, <1>3, LeastNatural
    <2>3. Default(group) \in marked /\ \A j \in marked : Default(group) <= j
      BY <2>1, <2>2
    <2>4. Default(group) \in 1 .. n
      BY <1>1, <2>3
    <2>5. ASSUME NEW k \in 1 .. Default(group) - 1 PROVE group.servers[k].default = None
      <3>1. k \in 1 .. n /\ ~(Default(group) <= k)
        BY <2>4
      <3> QED
        BY <2>3, <3>1 DEF marked
    <2> QED
      BY <2>3, <2>4, <2>5 DEF marked
  <1> QED
    BY <1>2, <1>3

LEMMA InvSelectsServers == ListenersInv => ServersAreSelected
  <1> SUFFICES ASSUME ListenersInv, at = "parsed" PROVE ServersAreSelected
    BY DEF ServersAreSelected
  <1>1. grouped = Len(servers) /\ checked = DOMAIN groups
    BY DEF ListenersInv, PhasesInOrder
  <1>2. Len(servers) \in Nat /\ DOMAIN servers = 1 .. Len(servers)
    BY SequenceHasPlaces DEF ListenersInv
  <1>3. DOMAIN groups = {Address(servers[k]) : k \in DOMAIN servers}
    BY <1>1, <1>2 DEF ListenersInv, GroupsAreSelections
  <1>4. ASSUME NEW a \in DOMAIN groups
        PROVE  LET group == groups[a].servers
                   d == groups[a].default
               IN  /\ IsSelection(a, Len(servers))
                   /\ d \in DOMAIN group
                   /\ \A k \in 1 .. d - 1 : group[k].default = None
                   /\ group[d].default = None => d = 1 /\ \A k \in DOMAIN group : group[k].default = None
                   /\ \A j, k \in DOMAIN group : (group[j].ssl_cert = None) <=> (group[k].ssl_keys = None)
    <2> DEFINE group == groups[a].servers
               n == Len(group)
    <2>1. IsSequence(group) /\ IsSelection(a, Len(servers))
      BY <1>1 DEF ListenersInv, GroupsAreSelections
    <2>2. n \in Nat /\ DOMAIN group = 1 .. n
      BY <2>1, SequenceHasPlaces
    <2>3. PICK place \in [DOMAIN group -> 1 .. Len(servers)] : ArePlaces(place, a, Len(servers))
      BY <2>1 DEF IsSelection
    <2>4. n > 0
      <3>1. {k \in 1 .. Len(servers) : Address(servers[k]) = a} # {}
        BY <1>2, <1>3
      <3>2. DOMAIN group # {}
        BY <2>3, <3>1 DEF ArePlaces
      <3> QED
        BY <2>2, <3>2
    <2>5. groups[a].default = Default(groups[a]) /\ HasOneKind(groups[a])
      BY <1>1 DEF ListenersInv, CheckedAreChecked
    <2>6. \A j \in DOMAIN group : (group[j].ssl_cert = None) <=> (group[j].ssl_keys = None)
      BY <1>2, <2>3 DEF ListenersInv, KeysAreWithCertificates, ArePlaces
    <2>7. \A j, k \in DOMAIN group : (group[j].ssl_cert = None) <=> (group[k].ssl_keys = None)
      BY <2>5, <2>6 DEF HasOneKind
    <2>8. /\ Default(groups[a]) \in DOMAIN group
          /\ \A k \in 1 .. Default(groups[a]) - 1 : group[k].default = None
          /\ group[Default(groups[a])].default = None =>
               Default(groups[a]) = 1 /\ \A k \in DOMAIN group : group[k].default = None
      BY <2>2, <2>4, DefaultIsFirstMarked
    <2> QED
      BY <2>1, <2>5, <2>7, <2>8
  <1> QED
    BY <1>3, <1>4 DEF ServersAreSelected

\* The end of parse_config: for every configuration that is accepted, what the
\* listeners are made of is the servers of it, grouped by their addresses.
THEOREM ServersAreListenedFor == StartupSpec => []ServersAreSelected
  <1>1. StartupInit => ListenersInv
    BY ListenersInit
  <1>2. ListenersInv /\ [StartupNext]_uvars => ListenersInv'
    BY ListenersStep
  <1>3. ListenersInv => ServersAreSelected
    BY InvSelectsServers
  <1> QED
    BY <1>1, <1>2, <1>3, PTL DEF StartupSpec

-----------------------------------------------------------------------------
(* How many blocks are open *)

LEMMA Cardinals ==
  ASSUME NEW k \in Nat, NEW S \in SUBSET (1 .. k)
  PROVE  IsFiniteSet(S) /\ Cardinality(S) \in Nat
  <1>1. IsFiniteSet(1 .. k)
    BY FS_Interval
  <1>2. IsFiniteSet(S)
    BY <1>1, FS_Subset
  <1> QED
    BY <1>2, FS_CardinalityType

\* One more place changes a count by one or leaves it.
LEMMA CountOneMore ==
  ASSUME NEW k \in Nat \ {0}, NEW T \in SUBSET (1 .. k)
  PROVE  /\ k \in T => Cardinality(T) = Cardinality(T \ {k}) + 1
         /\ k \notin T => Cardinality(T) = Cardinality(T \ {k})
         /\ Cardinality(T \ {k}) \in Nat
  <1>1. IsFiniteSet(T \ {k}) /\ Cardinality(T \ {k}) \in Nat /\ k \notin T \ {k}
    BY Cardinals
  <1>2. Cardinality((T \ {k}) \cup {k}) = Cardinality(T \ {k}) + 1
    BY <1>1, FS_AddElement
  <1>3. k \in T => (T \ {k}) \cup {k} = T
    OBVIOUS
  <1>4. k \notin T => T \ {k} = T
    OBVIOUS
  <1> QED
    BY <1>1, <1>2, <1>3, <1>4, Zenon

IsClosing(d) == d.name = "}"

Openings(t, k) == {j \in 1 .. k : IsOpening(t[j])}
Closings(t, k) == {j \in 1 .. k : IsClosing(t[j])}

LEMMA DepthIsCounted ==
  ASSUME NEW t, NEW k \in Nat
  PROVE  /\ Depth(t, k + 1) = Cardinality(Openings(t, k)) - Cardinality(Closings(t, k))
         /\ Depth(t, k + 1) \in Int
  <1>1. 1 .. (k + 1) - 1 = 1 .. k
    OBVIOUS
  <1>2. Depth(t, k + 1) = Cardinality(Openings(t, k)) - Cardinality(Closings(t, k))
    BY <1>1 DEF Depth, Openings, Closings, IsClosing
  <1>3. Cardinality(Openings(t, k)) \in Nat /\ Cardinality(Closings(t, k)) \in Nat
    BY Cardinals DEF Openings, Closings
  <1> QED
    BY <1>2, <1>3

LEMMA OpensOrCloses ==
  ASSUME NEW d
  PROVE  ~(IsOpening(d) /\ IsClosing(d)) /\ ~(IsOpening(d) /\ d.name = "set")
         /\ ~(IsClosing(d) /\ d.name = "set")
  BY DEF IsOpening, IsClosing

LEMMA DepthStep ==
  ASSUME NEW t, NEW k \in Nat \ {0}
  PROVE  /\ IsOpening(t[k]) => Depth(t, k + 1) = Depth(t, k) + 1
         /\ IsClosing(t[k]) => Depth(t, k + 1) = Depth(t, k) - 1
         /\ ~IsOpening(t[k]) /\ ~IsClosing(t[k]) => Depth(t, k + 1) = Depth(t, k)
  <1>1. k - 1 \in Nat /\ (k - 1) + 1 = k /\ 1 .. k - 1 = (1 .. k) \ {k}
    OBVIOUS
  <1>2. Openings(t, k - 1) = Openings(t, k) \ {k} /\ (k \in Openings(t, k) <=> IsOpening(t[k]))
    BY <1>1 DEF Openings
  <1>3. Closings(t, k - 1) = Closings(t, k) \ {k} /\ (k \in Closings(t, k) <=> IsClosing(t[k]))
    BY <1>1 DEF Closings
  <1>4. PICK o, c, o1, c1 :
          /\ o = Cardinality(Openings(t, k) \ {k}) /\ c = Cardinality(Closings(t, k) \ {k})
          /\ o1 = Cardinality(Openings(t, k)) /\ c1 = Cardinality(Closings(t, k))
    OBVIOUS
  <1>5. Depth(t, k + 1) = o1 - c1
    BY <1>4, DepthIsCounted
  <1>6. Depth(t, k) = o - c
    <2>1. Depth(t, (k - 1) + 1) = Cardinality(Openings(t, k - 1)) - Cardinality(Closings(t, k - 1))
      BY <1>1, DepthIsCounted
    <2> QED
      BY <1>1, <1>2, <1>3, <1>4, <2>1, Zenon
  <1>7. o \in Nat /\ (IsOpening(t[k]) => o1 = o + 1) /\ (~IsOpening(t[k]) => o1 = o)
    <2>1. Openings(t, k) \in SUBSET (1 .. k)
      BY DEF Openings
    <2> QED
      BY <1>2, <1>4, <2>1, CountOneMore
  <1>8. c \in Nat /\ (IsClosing(t[k]) => c1 = c + 1) /\ (~IsClosing(t[k]) => c1 = c)
    <2>1. Closings(t, k) \in SUBSET (1 .. k)
      BY DEF Closings
    <2> QED
      BY <1>3, <1>4, <2>1, CountOneMore
  <1>9. ~(IsOpening(t[k]) /\ IsClosing(t[k]))
    BY OpensOrCloses
  <1>10. CASE IsOpening(t[k])
    <2>1. o1 = o + 1 /\ c1 = c /\ ~IsClosing(t[k])
      BY <1>7, <1>8, <1>9, <1>10
    <2>2. o1 - c1 = (o - c) + 1
      BY <1>7, <1>8, <2>1
    <2> QED
      BY <1>5, <1>6, <1>10, <2>1, <2>2, Zenon
  <1>11. CASE IsClosing(t[k])
    <2>1. o1 = o /\ c1 = c + 1 /\ ~IsOpening(t[k])
      BY <1>7, <1>8, <1>9, <1>11
    <2>2. o1 - c1 = (o - c) - 1
      BY <1>7, <1>8, <2>1
    <2> QED
      BY <1>5, <1>6, <1>11, <2>1, <2>2, Zenon
  <1>12. CASE ~IsOpening(t[k]) /\ ~IsClosing(t[k])
    BY <1>5, <1>6, <1>7, <1>8, <1>12, Zenon
  <1> QED
    BY <1>10, <1>11, <1>12, Zenon

\* Depth depends on what is before the place only.
LEMMA DepthOfSame ==
  ASSUME NEW t, NEW u, NEW k \in Nat, \A j \in 1 .. k - 1 : t[j] = u[j]
  PROVE  Depth(t, k) = Depth(u, k)
  <1>1. \A j \in 1 .. k - 1 : IsOpening(t[j]) <=> IsOpening(u[j])
    BY Zenon
  <1>2. {j \in 1 .. k - 1 : IsOpening(t[j])} = {j \in 1 .. k - 1 : IsOpening(u[j])}
    BY <1>1
  <1>3. {j \in 1 .. k - 1 : t[j].name = "}"} = {j \in 1 .. k - 1 : u[j].name = "}"}
    OBVIOUS
  <1> QED
    BY <1>2, <1>3 DEF Depth

-----------------------------------------------------------------------------
(* What the directives say *)

\* The same directives before a place: the same sets are seen there.
LEMMA SeenOfSame ==
  ASSUME NEW t, NEW u, NEW k \in Nat, NEW j \in 1 .. k - 1, \A i \in 1 .. k - 1 : t[i] = u[i]
  PROVE  IsSeen(t, j, k) <=> IsSeen(u, j, k)
  <1>1. t[j].name = u[j].name
    OBVIOUS
  <1>2. \A i \in 1 .. k : Depth(t, i) = Depth(u, i)
    <2>1. SUFFICES ASSUME NEW i \in 1 .. k PROVE Depth(t, i) = Depth(u, i)
      OBVIOUS
    <2>2. i \in Nat /\ \A l \in 1 .. i - 1 : t[l] = u[l]
      OBVIOUS
    <2> QED
      BY <2>2, DepthOfSame
  <1>3. \A i \in j .. k : Depth(t, i) = Depth(u, i)
    BY <1>2
  <1>4. Depth(t, j) = Depth(u, j)
    BY <1>2
  <1>5. (\A i \in j .. k : Depth(t, i) >= Depth(t, j)) <=> (\A i \in j .. k : Depth(u, i) >= Depth(u, j))
    BY <1>3, <1>4, Zenon
  <1> QED
    BY <1>1, <1>5, Zenon DEF IsSeen

Agree(t, u, n) == \A i \in 1 .. n : t[i] = u[i]

LEMMA ValueOfSame ==
  ASSUME NEW t, NEW u, NEW f, NEW g, NEW k \in Nat, NEW token,
         Agree(t, u, k - 1), Agree(f, g, k - 1)
  PROVE  ValueBy(t, f, k, token) = ValueBy(u, g, k, token)
  <1> USE DEF Agree
  <1>1. \A j \in 1 .. k - 1 : IsSeen(t, j, k) <=> IsSeen(u, j, k)
    BY SeenOfSame
  <1>2. \A j \in 1 .. k - 1 : f[j] = g[j]
    OBVIOUS
  <1>3. \A v : {j \in 1 .. k - 1 : IsSeen(t, j, k) /\ f[j][1] = v} = {j \in 1 .. k - 1 : IsSeen(u, j, k) /\ g[j][1] = v}
    BY <1>1, <1>2
  <1> DEFINE S == {j \in 1 .. k - 1 : IsSeen(t, j, k) /\ f[j][1] = VarOf[token]}
  <1>4. S # {} => Max(S) \in 1 .. k - 1
    <2>1. S \in SUBSET (1 .. k - 1) /\ (k = 0 \/ k - 1 \in Nat)
      OBVIOUS
    <2> SUFFICES ASSUME S # {} PROVE Max(S) \in S
      BY <2>1
    <2> HIDE DEF S
    <2>2. k - 1 \in Nat
      <3>1. PICK x \in S : x \in 1 .. k - 1
        BY <2>1
      <3> QED
        BY <3>1
    <2>3. \E x \in S : \A y \in S : y <= x
      BY <2>1, <2>2, GreatestNatural
    <2>4. \E x \in S : \A y \in S : x >= y
      BY <2>1, <2>3
    <2> QED
      BY <2>4, Zenon DEF Max
  <1>5. S = {j \in 1 .. k - 1 : IsSeen(u, j, k) /\ g[j][1] = VarOf[token]}
    BY <1>3
  <1>6. S # {} => f[Max(S)] = g[Max(S)]
    BY <1>2, <1>4, Zenon
  <1>7. ValueBy(t, f, k, token) = IF token \notin DOMAIN VarOf \/ S = {} THEN token ELSE f[Max(S)][2]
    BY DEF ValueBy
  <1>8. ValueBy(u, g, k, token) = IF token \notin DOMAIN VarOf \/ S = {} THEN token ELSE g[Max(S)][2]
    BY <1>5 DEF ValueBy
  <1> HIDE DEF S
  <1>9. CASE token \notin DOMAIN VarOf \/ S = {}
    BY <1>7, <1>8, <1>9, Zenon
  <1>10. CASE ~(token \notin DOMAIN VarOf \/ S = {})
    BY <1>6, <1>7, <1>8, <1>10, Zenon
  <1> QED
    BY <1>9, <1>10

LEMMA SaidOfSame ==
  ASSUME NEW t, NEW u, NEW f, NEW g, NEW k \in Nat \ {0},
         Agree(t, u, k), Agree(f, g, k - 1)
  PROVE  SaidBy(t, f, k) = SaidBy(u, g, k)
  <1>1. Agree(t, u, k - 1)
    BY DEF Agree
  <1>2. \A token : ValueBy(t, f, k, token) = ValueBy(u, g, k, token)
    BY <1>1, ValueOfSame
  <1>3. t[k].args = u[k].args
    BY DEF Agree
  <1> QED
    BY <1>2, <1>3, Zenon DEF SaidBy

\* What is said by the first n directives.
Says(t, n, f) == f = [k \in 1 .. n |-> SaidBy(t, f, k)]

LEMMA SaysPlaces ==
  ASSUME NEW t, NEW n, NEW f, Says(t, n, f)
  PROVE  DOMAIN f = 1 .. n /\ \A k \in 1 .. n : f[k] = SaidBy(t, f, k)
  <1>1. DOMAIN f = DOMAIN [k \in 1 .. n |-> SaidBy(t, f, k)]
    BY Zenon DEF Says
  <1>2. \A k \in 1 .. n : f[k] = [j \in 1 .. n |-> SaidBy(t, f, j)][k]
    BY Zenon DEF Says
  <1> QED
    BY <1>1, <1>2

LEMMA SaysExists ==
  ASSUME NEW t, NEW n \in Nat
  PROVE  \E f : Says(t, n, f)
  <1> DEFINE Bad == {m \in Nat : ~ \E f : Says(t, m, f)}
  <1> SUFFICES ASSUME Bad # {} PROVE FALSE
    OBVIOUS
  <1>1. Bad \in SUBSET Nat
    OBVIOUS
  <1>2. PICK m \in Bad : \A j \in Bad : m <= j
    <2> HIDE DEF Bad
    <2> QED
      BY <1>1, LeastNatural
  <1>3. m # 0
    <2>1. Says(t, 0, [k \in {} |-> k])
      BY DEF Says
    <2> QED
      BY <2>1
  <1>4. m - 1 \in Nat /\ m - 1 \notin Bad /\ m \in Nat \ {0}
    BY <1>2, <1>3
  <1>5. PICK f : Says(t, m - 1, f)
    BY <1>4
  <1> DEFINE g == [k \in 1 .. m |-> IF k = m THEN SaidBy(t, f, m) ELSE f[k]]
  <1>6. \A k \in 1 .. m - 1 : g[k] = f[k] /\ f[k] = SaidBy(t, f, k)
    <2>1. \A k \in 1 .. m - 1 : f[k] = SaidBy(t, f, k)
      BY <1>5, SaysPlaces
    <2>2. \A k \in 1 .. m - 1 : g[k] = f[k]
      BY <1>4
    <2> QED
      BY <2>1, <2>2
  <1>7. g[m] = SaidBy(t, f, m)
    BY <1>4
  <1>8. DOMAIN g = 1 .. m /\ g = [k \in 1 .. m |-> g[k]]
    OBVIOUS
  <1> HIDE DEF g
  <1>9. \A k \in 1 .. m : SaidBy(t, f, k) = SaidBy(t, g, k)
    <2> SUFFICES ASSUME NEW k \in 1 .. m PROVE SaidBy(t, f, k) = SaidBy(t, g, k)
      OBVIOUS
    <2>1. k \in Nat \ {0} /\ Agree(f, g, k - 1) /\ Agree(t, t, k)
      BY <1>4, <1>6 DEF Agree
    <2> QED
      BY <2>1, SaidOfSame
  <1>10. \A k \in 1 .. m : g[k] = SaidBy(t, g, k)
    <2> SUFFICES ASSUME NEW k \in 1 .. m PROVE g[k] = SaidBy(t, g, k)
      OBVIOUS
    <2>1. k = m \/ k \in 1 .. m - 1
      BY <1>4
    <2>2. g[k] = SaidBy(t, f, k)
      BY <1>6, <1>7, <2>1
    <2> QED
      BY <1>9, <2>2
  <1>11. g = [k \in 1 .. m |-> SaidBy(t, g, k)]
    BY <1>8, <1>10
  <1>12. Says(t, m, g)
    BY <1>11 DEF Says
  <1> QED
    BY <1>2, <1>12

LEMMA SaidSays ==
  ASSUME NEW t, Len(t) \in Nat
  PROVE  /\ Says(t, Len(t), Said(t))
         /\ DOMAIN Said(t) = 1 .. Len(t)
         /\ \A k \in 1 .. Len(t) : Said(t)[k] = SaidBy(t, Said(t), k)
  <1>1. \E f : f = [k \in 1 .. Len(t) |-> SaidBy(t, f, k)]
    BY SaysExists, Zenon DEF Says
  <1>2. Said(t) = CHOOSE f : f = [k \in 1 .. Len(t) |-> SaidBy(t, f, k)]
    BY DEF Said
  <1>3. Says(t, Len(t), Said(t))
    BY <1>1, <1>2, Zenon DEF Says
  <1> QED
    BY <1>3, SaysPlaces

-----------------------------------------------------------------------------
(* The steps of the parser: which blocks they open and close *)

\* How many scopes there are in a block.
Levels == [top |-> 1, server |-> 2, route |-> 3, upstream |-> 2]

InGroup == \E g \in 1 .. pos : text[g].name = "upstream" /\ \A c \in g .. pos : ~IsClosing(text[c])

StackInv ==
  /\ IsText(text) /\ pos \in 0 .. Len(text)
  /\ at \in Blocks \cup {"read", "parsed", "failed", "endless"}
  /\ at \in Blocks =>
       /\ IsSequence(scopes) /\ Len(scopes) = Levels[at]
       /\ \A i \in 1 .. pos + 1 : Depth(text, i) \in Nat
       /\ Depth(text, pos + 1) = Levels[at] - 1
  /\ at = "upstream" => InGroup

Ends == at' \notin Blocks /\ pos' = pos /\ at' \in {"read", "failed", "endless"}
Moves == pos < Len(text) /\ pos' = pos + 1 /\ at' \in Blocks
GoesOn ==
  /\ Moves /\ at' = at /\ scopes' = scopes
  /\ ~IsOpening(Directive) /\ ~IsClosing(Directive) /\ Directive.name # "set"
SetsOne ==
  /\ Moves /\ at' = at /\ Directive.name = "set"
  /\ scopes' = <<Put(Head(scopes), Args[1], Args[2])>> \o Tail(scopes)
Opens ==
  /\ Moves /\ IsOpening(Directive)
  /\ Levels[at'] = Levels[at] + 1 /\ scopes' = <<Empty>> \o scopes
  /\ at' = "upstream" => Directive.name = "upstream"
Closes ==
  /\ Moves /\ IsClosing(Directive)
  /\ Levels[at] \in 2 .. 3 /\ Levels[at'] = Levels[at] - 1 /\ scopes' = Tail(scopes)
  /\ at' # "upstream"

LEMMA GroupServersAreNamed ==
  ASSUME StackInv, at = "upstream", pos < Len(text), Directive.name = "server"
  PROVE  Directive.args # <<>>
  <1> SUFFICES ASSUME Directive.args = <<>> PROVE FALSE
    OBVIOUS
  <1>1. PICK g \in 1 .. pos : text[g].name = "upstream" /\ \A c \in g .. pos : ~IsClosing(text[c])
    BY DEF StackInv, InGroup
  <1>2. /\ pos \in Nat /\ Len(text) \in Nat /\ DOMAIN text = 1 .. Len(text)
    <2>1. IsSequence(text) /\ pos \in 0 .. Len(text)
      BY DEF StackInv, IsText
    <2>2. Len(text) \in Nat /\ DOMAIN text = 1 .. Len(text)
      BY <2>1, SequenceHasPlaces
    <2> QED
      BY <2>1, <2>2
  <1>3. g \in DOMAIN text /\ pos + 1 \in DOMAIN text /\ g < pos + 1
    BY <1>2
  <1>4. text[pos + 1].name = "server" /\ text[pos + 1].args = <<>>
    BY DEF Directive
  <1>5. \A h, k \in DOMAIN text :
          h < k /\ text[h].name = "upstream" /\ text[k].name = "server" /\ text[k].args = <<>> =>
            \E c \in h .. k : text[c].name = "}"
    BY DEF StackInv, IsText
  <1>6. PICK c \in g .. pos + 1 : IsClosing(text[c])
    BY <1>1, <1>3, <1>4, <1>5, Zenon DEF IsClosing
  <1>7. c = pos + 1 \/ c \in g .. pos
    BY <1>2
  <1> QED
    BY <1>1, <1>4, <1>6, <1>7 DEF IsClosing

LEMMA BlocksAndLevels ==
  /\ Levels["top"] = 1 /\ Levels["server"] = 2 /\ Levels["route"] = 3 /\ Levels["upstream"] = 2
  BY DEF Levels

LEMMA SingleIsPlain ==
  ASSUME at \in Blocks, Directive.name \in Single[at]
  PROVE  ~IsOpening(Directive) /\ ~IsClosing(Directive) /\ Directive.name # "set"
  <1>1. CASE at = "top"
    BY <1>1 DEF Single
  <1>2. CASE at = "server"
    BY <1>2 DEF Single, Timeouts, IsOpening, IsClosing
  <1>3. CASE at = "route"
    BY <1>3 DEF Single, IsOpening, IsClosing
  <1>4. CASE at = "upstream"
    BY <1>4 DEF Single, Timeouts, Balancings, IsOpening, IsClosing
  <1> QED
    BY <1>1, <1>2, <1>3, <1>4 DEF Blocks

LEMMA LevelsOfMoves ==
  /\ Levels["server"] = Levels["top"] + 1 /\ Levels["upstream"] = Levels["top"] + 1
  /\ Levels["route"] = Levels["server"] + 1
  /\ Levels["server"] = Levels["route"] - 1 /\ Levels["top"] = Levels["server"] - 1
  /\ Levels["top"] = Levels["upstream"] - 1
  /\ Levels["server"] \in 2 .. 3 /\ Levels["route"] \in 2 .. 3 /\ Levels["upstream"] \in 2 .. 3
  BY BlocksAndLevels

LEMMA ParseStepMoves ==
  ASSUME StackInv, ParseStep
  PROVE  at \in Blocks /\ text' = text /\ (Ends \/ GoesOn \/ SetsOne \/ Opens \/ Closes)
  <1>1. ASSUME Fail, at \in Blocks PROVE text' = text /\ Ends
    BY <1>1 DEF Fail, Ends, Blocks
  <1>2. ASSUME NEW names, NEW field, NEW value, at \in Blocks, Reads(at, names), Take(at, field, value),
               ~IsOpening(Directive), ~IsClosing(Directive), Directive.name # "set"
        PROVE  text' = text /\ GoesOn
    BY <1>2 DEF Reads, Take, GoesOn, Moves
  <1>3. CASE SetVariable
    BY <1>3 DEF SetVariable, Reads, Enter, SetsOne, Moves
  <1>4. CASE GiveOnce
    <2>1. at \in Blocks /\ Directive.name \in Single[at]
      BY <1>4 DEF GiveOnce, Reads
    <2>2. ~IsOpening(Directive) /\ ~IsClosing(Directive) /\ Directive.name # "set"
      BY <2>1, SingleIsPlain
    <2> QED
      BY <1>1, <1>4, <2>1, <2>2 DEF GiveOnce, Reads, Take, GoesOn, Moves
  <1>5. CASE Unknown \/ IsNotFollowed \/ FileEnds
    BY <1>1, <1>5 DEF Unknown, IsNotFollowed, FileEnds, Ends, Blocks
  <1>6. CASE OpenRoute
    <2>1. at = "server" /\ pos < Len(text) /\ Directive.name = "route"
      BY <1>6 DEF OpenRoute, Reads
    <2>2. IsOpening(Directive)
      BY <2>1 DEF IsOpening
    <2> QED
      BY <1>1, <1>6, <2>1, <2>2, LevelsOfMoves DEF OpenRoute, Enter, Opens, Moves, Blocks
  <1>7. CASE GiveContent \/ AddFiles \/ GiveProxy \/ AddProxyHeader \/ AddHeader
    <2>1. at = "route" /\ pos < Len(text) /\ Directive.name \in Contents \cup {"file", "proxy", "proxy_header", "header"}
      BY <1>7 DEF GiveContent, AddFiles, GiveProxy, AddProxyHeader, AddHeader, Reads
    <2>2. ~IsOpening(Directive) /\ ~IsClosing(Directive) /\ Directive.name # "set"
      BY <2>1 DEF IsOpening, IsClosing, Contents
    <2> QED
      BY <1>1, <1>7, <2>1, <2>2
         DEF GiveContent, AddFiles, GiveProxy, AddProxyHeader, AddHeader, TakeContent, Take, GoesOn, Moves, Blocks
  <1>8. CASE CloseRoute
    <2>1. at = "route" /\ pos < Len(text) /\ IsClosing(Directive)
      BY <1>8 DEF CloseRoute, Reads, IsClosing
    <2>2. at' = "server" /\ scopes' = Tail(scopes) /\ pos' = pos + 1 /\ text' = text
      BY <1>8 DEF CloseRoute, Enter
    <2> QED
      BY <2>1, <2>2, LevelsOfMoves DEF Closes, Moves, Blocks
  <1>9. CASE OpenServer
    <2>1. at = "top" /\ pos < Len(text) /\ Directive.name = "server"
      BY <1>9 DEF OpenServer, Reads
    <2>2. CASE Raw = <<>>
      <3>1. IsOpening(Directive)
        BY <2>1, <2>2 DEF IsOpening, Raw
      <3> QED
        BY <1>9, <2>1, <2>2, <3>1, LevelsOfMoves DEF OpenServer, Enter, Opens, Moves, Blocks
    <2>3. CASE Raw # <<>>
      BY <1>1, <1>9, <2>1, <2>3 DEF OpenServer, Blocks
    <2> QED
      BY <2>2, <2>3
  <1>10. CASE AddDomains \/ AddErrorPage
    <2>1. at = "server" /\ pos < Len(text) /\ Directive.name \in {"domain", "error_page"}
      BY <1>10 DEF AddDomains, AddErrorPage, Reads
    <2>2. ~IsOpening(Directive) /\ ~IsClosing(Directive) /\ Directive.name # "set"
      BY <2>1 DEF IsOpening, IsClosing
    <2> QED
      BY <1>1, <1>10, <2>1, <2>2 DEF AddDomains, AddErrorPage, Take, GoesOn, Moves, Blocks
  <1>11. CASE CloseServer
    <2>1. at = "server" /\ pos < Len(text) /\ IsClosing(Directive)
      BY <1>11 DEF CloseServer, Reads, IsClosing
    <2>2. Fail \/ (at' = "top" /\ scopes' = Tail(scopes) /\ pos' = pos + 1 /\ text' = text)
      BY <1>11 DEF CloseServer, Enter
    <2> QED
      BY <1>1, <2>1, <2>2, LevelsOfMoves DEF Closes, Moves, Blocks
  <1>12. CASE OpenUpstream
    <2>1. at = "top" /\ pos < Len(text) /\ Directive.name = "upstream"
      BY <1>12 DEF OpenUpstream, Reads
    <2>2. IsOpening(Directive)
      BY <2>1 DEF IsOpening
    <2> QED
      BY <1>12, <2>1, <2>2, LevelsOfMoves DEF OpenUpstream, Enter, Opens, Moves, Blocks
  <1>13. CASE AddUpstreamServer
    <2>1. at = "upstream" /\ pos < Len(text) /\ Directive.name = "server"
      BY <1>13 DEF AddUpstreamServer, Reads
    <2>2. Directive.args # <<>>
      BY <2>1, GroupServersAreNamed
    <2>3. ~IsOpening(Directive) /\ ~IsClosing(Directive) /\ Directive.name # "set"
      BY <2>1, <2>2 DEF IsOpening, IsClosing
    <2> QED
      BY <1>13, <2>1, <2>3 DEF AddUpstreamServer, Take, GoesOn, Moves, Blocks
  <1>14. CASE CloseUpstream
    <2>1. at = "upstream" /\ pos < Len(text) /\ IsClosing(Directive)
      BY <1>14 DEF CloseUpstream, Reads, IsClosing
    <2>2. at' = "top" /\ scopes' = Tail(scopes) /\ pos' = pos + 1 /\ text' = text
      BY <1>14 DEF CloseUpstream, Enter
    <2> QED
      BY <2>1, <2>2, LevelsOfMoves DEF Closes, Moves, Blocks
  <1> QED
    BY <1>3, <1>4, <1>5, <1>6, <1>7, <1>8, <1>9, <1>10, <1>11, <1>12, <1>13, <1>14 DEF ParseStep

-----------------------------------------------------------------------------
(* What is in a scope *)

LEMMA PushedOn ==
  ASSUME NEW s, IsSequence(s), NEW e
  PROVE  /\ IsSequence(<<e>> \o s) /\ Len(<<e>> \o s) = Len(s) + 1
         /\ (<<e>> \o s)[1] = e
         /\ \A k \in 1 .. Len(s) : (<<e>> \o s)[k + 1] = s[k]
  <1> DEFINE T == {s[k] : k \in DOMAIN s} \cup {e}
             u == <<e>> \o s
  <1>1. s \in Seq(T) /\ <<e>> \in Seq(T) /\ Len(<<e>>) = 1
    BY DEF IsSequence
  <1>2. Len(s) \in Nat
    BY <1>1
  <1> HIDE DEF T
  <1>3. u \in Seq(T) /\ Len(u) = 1 + Len(s)
    BY <1>1
  <1>4. \A k \in 1 .. Len(s) : u[k + 1] = s[k]
    BY <1>1, <1>2
  <1>5. u[1] = e
    BY <1>1, <1>2
  <1>6. IsSequence(u)
    BY <1>3, SequenceOfItsElements
  <1> QED
    BY <1>2, <1>3, <1>4, <1>5, <1>6

LEMMA TailIs ==
  ASSUME NEW s, IsSequence(s), Len(s) \in Nat \ {0}
  PROVE  /\ IsSequence(Tail(s)) /\ Len(Tail(s)) = Len(s) - 1 /\ Head(s) = s[1]
         /\ \A k \in 1 .. Len(s) - 1 : Tail(s)[k] = s[k + 1]
  <1> DEFINE T == {s[k] : k \in DOMAIN s}
             u == Tail(s)
  <1>1. s \in Seq(T) /\ s # <<>>
    BY DEF IsSequence
  <1> HIDE DEF T
  <1>2. u \in Seq(T) /\ Len(u) = Len(s) - 1 /\ Head(s) = s[1]
    BY <1>1
  <1>3. \A k \in 1 .. Len(s) - 1 : u[k] = s[k + 1]
    BY <1>1
  <1>4. IsSequence(u)
    BY <1>2, SequenceOfItsElements
  <1> QED
    BY <1>2, <1>3, <1>4

\* The sets at this depth that are seen at the k-th directive.
SetsOf(t, k, d) == {j \in 1 .. k - 1 : IsSeen(t, j, k) /\ Depth(t, j) = d}

\* A scope has the names of these sets, each with the value of the last one.
MapsSets(map, t, k, d) ==
  /\ DOMAIN map = {Said(t)[j][1] : j \in SetsOf(t, k, d)}
  /\ \A j \in SetsOf(t, k, d) :
       (\A i \in SetsOf(t, k, d) : Said(t)[i][1] = Said(t)[j][1] => i <= j) =>
         map[Said(t)[j][1]] = Said(t)[j][2]

\* A set before is seen behind the next directive if that leaves its block open.
LEMMA SeenFurther ==
  ASSUME NEW t, NEW k \in Nat \ {0}, NEW j \in 1 .. k
  PROVE  IsSeen(t, j, k + 1) <=> IsSeen(t, j, k) /\ Depth(t, k + 1) >= Depth(t, j)
  <1>1. j .. k + 1 = (j .. k) \cup {k + 1}
    OBVIOUS
  <1> QED
    BY <1>1, Zenon DEF IsSeen

LEMMA DepthIsInteger ==
  ASSUME NEW t, NEW k \in Nat \ {0}
  PROVE  Depth(t, k) \in Int
  <1>1. k - 1 \in Nat /\ (k - 1) + 1 = k
    OBVIOUS
  <1>2. Depth(t, (k - 1) + 1) \in Int
    BY <1>1, DepthIsCounted
  <1> QED
    BY <1>1, <1>2, Zenon

LEMMA SetsFurther ==
  ASSUME NEW t, NEW k \in Nat \ {0}, NEW d \in Nat
  PROVE  /\ d <= Depth(t, k + 1) /\ (t[k].name # "set" \/ Depth(t, k) # d) =>
              SetsOf(t, k + 1, d) = SetsOf(t, k, d)
         /\ d <= Depth(t, k + 1) /\ t[k].name = "set" /\ Depth(t, k) = d =>
              SetsOf(t, k + 1, d) = SetsOf(t, k, d) \cup {k}
         /\ Depth(t, k) < d /\ t[k].name # "set" => SetsOf(t, k + 1, d) = {}
  <1>1. 1 .. (k + 1) - 1 = (1 .. k - 1) \cup {k} /\ \A j \in 1 .. k - 1 : j \in 1 .. k
    OBVIOUS
  <1>2. \A j \in 1 .. k : IsSeen(t, j, k + 1) <=> IsSeen(t, j, k) /\ Depth(t, k + 1) >= Depth(t, j)
    BY SeenFurther
  <1>3. Depth(t, k + 1) \in Int /\ Depth(t, k) \in Int
    BY DepthIsInteger
  <1>4. IsSeen(t, k, k) <=> t[k].name = "set"
    <2>1. k .. k = {k} /\ Depth(t, k) >= Depth(t, k)
      BY <1>3
    <2> QED
      BY <2>1, Zenon DEF IsSeen
  <1>5. d <= Depth(t, k + 1) => Depth(t, k + 1) >= d
    BY <1>3
  <1>6. d <= Depth(t, k + 1) =>
          \A j \in 1 .. k : IsSeen(t, j, k + 1) /\ Depth(t, j) = d <=> IsSeen(t, j, k) /\ Depth(t, j) = d
    BY <1>2, <1>5, Zenon
  <1>7. SetsOf(t, k + 1, d) = {j \in (1 .. k - 1) \cup {k} : IsSeen(t, j, k + 1) /\ Depth(t, j) = d}
    BY <1>1, Zenon DEF SetsOf
  <1>8. k \in 1 .. k /\ (1 .. k - 1) \cup {k} = 1 .. k
    OBVIOUS
  <1>9. ASSUME d <= Depth(t, k + 1)
        PROVE  SetsOf(t, k + 1, d) = {j \in (1 .. k - 1) \cup {k} : IsSeen(t, j, k) /\ Depth(t, j) = d}
    BY <1>6, <1>7, <1>8, <1>9
  <1>10. ASSUME Depth(t, k) < d, t[k].name # "set" PROVE SetsOf(t, k + 1, d) = {}
    <2>1. ASSUME NEW j \in 1 .. k, IsSeen(t, j, k + 1), Depth(t, j) = d PROVE FALSE
      <3>1. IsSeen(t, j, k)
        BY <1>2, <2>1
      <3>2. Depth(t, k) >= Depth(t, j)
        BY <1>8, <3>1 DEF IsSeen
      <3> QED
        BY <1>3, <1>10, <2>1, <3>2
    <2> QED
      BY <1>7, <1>8, <2>1
  <1>11. ASSUME d <= Depth(t, k + 1), t[k].name # "set" \/ Depth(t, k) # d
         PROVE  SetsOf(t, k + 1, d) = SetsOf(t, k, d)
    BY <1>4, <1>9, <1>11 DEF SetsOf
  <1>12. ASSUME d <= Depth(t, k + 1), t[k].name = "set", Depth(t, k) = d
         PROVE  SetsOf(t, k + 1, d) = SetsOf(t, k, d) \cup {k}
    BY <1>4, <1>9, <1>12 DEF SetsOf
  <1> QED
    BY <1>10, <1>11, <1>12

\* One more set in a scope.
LEMMA ScopeTakesSet ==
  ASSUME NEW map, NEW t, NEW k \in Nat \ {0}, NEW d \in Nat, MapsSets(map, t, k, d),
         d <= Depth(t, k + 1), t[k].name = "set", Depth(t, k) = d
  PROVE  MapsSets(Put(map, Said(t)[k][1], Said(t)[k][2]), t, k + 1, d)
  <1>0. PICK key, value : key = Said(t)[k][1] /\ value = Said(t)[k][2]
    OBVIOUS
  <1> DEFINE S == SetsOf(t, k, d)
             T == SetsOf(t, k + 1, d)
             Name(j) == Said(t)[j][1]
             Value(j) == Said(t)[j][2]
             new == Put(map, key, value)
  <1>1. T = S \cup {k} /\ \A j \in S : j \in Int /\ j < k
    BY SetsFurther DEF SetsOf
  <1>2. /\ DOMAIN map = {Name(j) : j \in S}
        /\ \A j \in S : (\A i \in S : Name(i) = Name(j) => i <= j) => map[Name(j)] = Value(j)
    BY DEF MapsSets
  <1>3. /\ DOMAIN new = {key} \cup DOMAIN map /\ new[key] = value
        /\ \A n \in DOMAIN map : n # key => new[n] = map[n]
    BY DEF Put
  <1>6. key = Name(k) /\ value = Value(k)
    BY <1>0
  <1> HIDE DEF S, T, Name, Value, new
  <1>4. DOMAIN new = {Name(j) : j \in T}
    BY <1>1, <1>2, <1>3, <1>6
  <1>5. ASSUME NEW j \in T, \A i \in T : Name(i) = Name(j) => i <= j
        PROVE  new[Name(j)] = Value(j)
    <2>1. CASE j = k
      BY <1>3, <1>6, <2>1
    <2>2. CASE j # k
      <3>1. j \in S /\ ~(k <= j) /\ k \in T
        BY <1>1, <2>2
      <3>2. Name(k) # Name(j)
        BY <1>5, <3>1
      <3>3. map[Name(j)] = Value(j)
        BY <1>1, <1>2, <1>5, <3>1
      <3> QED
        BY <1>2, <1>3, <1>6, <3>1, <3>2, <3>3
    <2> QED
      BY <2>1, <2>2
  <1> QED
    BY <1>0, <1>4, <1>5, Zenon DEF MapsSets, S, T, Name, Value, new

LEMMA ScopeIsKept ==
  ASSUME NEW map, NEW t, NEW k, NEW l, NEW d, MapsSets(map, t, k, d), SetsOf(t, l, d) = SetsOf(t, k, d)
  PROVE  MapsSets(map, t, l, d)
  BY Zenon DEF MapsSets

LEMMA NewScope ==
  ASSUME NEW t, NEW k, NEW d, SetsOf(t, k, d) = {}
  PROVE  MapsSets(Empty, t, k, d)
  <1>1. DOMAIN Empty = {}
    BY DEF Empty
  <1>2. \A j : j \notin SetsOf(t, k, d)
    OBVIOUS
  <1>3. {Said(t)[j][1] : j \in SetsOf(t, k, d)} = {}
    BY <1>2
  <1> QED
    BY <1>1, <1>2, <1>3, Zenon DEF MapsSets

-----------------------------------------------------------------------------
(* Tokens are expanded to their values *)

ScopesInv ==
  at \in Blocks => \A n \in 1 .. Levels[at] : MapsSets(scopes[n], text, pos + 1, Levels[at] - n)

LEMMA GreatestOf ==
  ASSUME NEW k \in Nat \ {0}, NEW S \in SUBSET (1 .. k - 1), S # {}
  PROVE  Max(S) \in S /\ \A j \in S : j <= Max(S)
  <1>1. k - 1 \in Nat
    OBVIOUS
  <1>2. \E x \in S : \A y \in S : y <= x
    BY <1>1, GreatestNatural
  <1>3. \A x, y \in S : y <= x <=> x >= y
    OBVIOUS
  <1>4. \E x \in S : \A y \in S : x >= y
    BY <1>2, <1>3
  <1>5. Max(S) \in S /\ \A y \in S : Max(S) >= y
    BY <1>4, Zenon DEF Max
  <1> QED
    BY <1>3, <1>5

LEMMA LevelIsNumber == \A b \in Blocks : Levels[b] \in 1 .. 3
  BY BlocksAndLevels DEF Blocks

\* What a token is expanded to is its value: the scopes are asked from the inside to the
\* outside, and of two sets that are seen the inner one is the later one.
LEMMA ExpandedIsValue ==
  ASSUME StackInv, ScopesInv, at \in Blocks, NEW token
  PROVE  Expand(token) = ValueBy(text, Said(text), pos + 1, token)
  <1> DEFINE v == VarOf[token]
             having == {n \in DOMAIN scopes : v \in DOMAIN scopes[n]}
             sets == {j \in 1 .. (pos + 1) - 1 : IsSeen(text, j, pos + 1) /\ Said(text)[j][1] = v}
  <1>1. CASE token \notin DOMAIN VarOf
    BY <1>1 DEF Expand, ValueBy
  <1>2. CASE token \in DOMAIN VarOf
    <2>0. PICK l : l = Levels[at]
      OBVIOUS
    <2>1. l \in 1 .. 3 /\ pos + 1 \in Nat \ {0} /\ Len(scopes) = l
      <3>1. IsSequence(text) /\ pos \in 0 .. Len(text)
        BY DEF StackInv, IsText
      <3>2. Len(text) \in Nat
        BY <3>1, SequenceHasPlaces
      <3> QED
        BY <2>0, <3>1, <3>2, LevelIsNumber DEF StackInv
    <2>2. DOMAIN scopes = 1 .. l
      BY <2>1, SequenceHasPlaces DEF StackInv
    <2>3. \A n \in 1 .. l : MapsSets(scopes[n], text, pos + 1, l - n)
      BY <2>0 DEF ScopesInv
    <2>4. \A j \in sets : l - Depth(text, j) \in 1 .. l /\ j \in SetsOf(text, pos + 1, l - (l - Depth(text, j)))
      <3> SUFFICES ASSUME NEW j \in sets
                   PROVE  l - Depth(text, j) \in 1 .. l /\ j \in SetsOf(text, pos + 1, l - (l - Depth(text, j)))
        OBVIOUS
      <3>1. j \in 1 .. (pos + 1) - 1 /\ IsSeen(text, j, pos + 1)
        OBVIOUS
      <3>2. j \in 1 .. pos + 1 /\ pos + 1 \in j .. pos + 1
        BY <2>1, <3>1
      <3>3. Depth(text, j) \in Nat /\ Depth(text, pos + 1) = l - 1
        BY <2>0, <3>2 DEF StackInv
      <3>4. Depth(text, pos + 1) >= Depth(text, j)
        BY <3>1, <3>2 DEF IsSeen
      <3>5. l - Depth(text, j) \in 1 .. l /\ l - (l - Depth(text, j)) = Depth(text, j)
        BY <2>1, <3>3, <3>4
      <3> QED
        BY <3>1, <3>5, Zenon DEF SetsOf
    <2>5. \A n \in 1 .. l : \A j \in SetsOf(text, pos + 1, l - n) :
             /\ j \in 1 .. (pos + 1) - 1 /\ IsSeen(text, j, pos + 1) /\ Depth(text, j) = l - n
             /\ Said(text)[j][1] \in DOMAIN scopes[n]
      BY <2>3 DEF MapsSets, SetsOf
    <2>6. \A n \in 1 .. l : v \in DOMAIN scopes[n] => \E j \in SetsOf(text, pos + 1, l - n) : Said(text)[j][1] = v
      BY <2>3 DEF MapsSets
    <2>7. having \in SUBSET (1 .. l) /\ sets \in SUBSET (1 .. (pos + 1) - 1)
      BY <2>2
    <2>8. \A j \in sets : l - Depth(text, j) \in having
      <3> SUFFICES ASSUME NEW j \in sets PROVE l - Depth(text, j) \in having
        OBVIOUS
      <3>1. PICK n : n = l - Depth(text, j)
        OBVIOUS
      <3>2. n \in 1 .. l /\ j \in SetsOf(text, pos + 1, l - n) /\ Said(text)[j][1] = v
        BY <2>4, <3>1
      <3> QED
        BY <2>2, <2>5, <3>1, <3>2, Zenon
    <2>9. ASSUME NEW n \in having PROVE \E j \in sets : Depth(text, j) = l - n /\ j \in SetsOf(text, pos + 1, l - n)
      BY <2>2, <2>5, <2>6, <2>9
    <2>10. CASE having = {}
      <3>1. sets = {}
        BY <2>8, <2>10
      <3> HIDE DEF having, sets
      <3>2. Expand(token) = token
        BY <1>2, <2>10 DEF Expand, having, v
      <3> QED
        BY <3>1, <3>2 DEF ValueBy, sets, v
    <2>11. CASE having # {}
      <3>1. sets # {}
        BY <2>9, <2>11
      <3>2. PICK n : n = CHOOSE k \in having : \A j \in having : k <= j
        OBVIOUS
      <3>3. n \in having /\ \A j \in having : n <= j
        <4> HIDE DEF having
        <4>1. having \in SUBSET Nat
          BY <2>1, <2>7
        <4>2. \E k \in having : \A j \in having : k <= j
          BY <2>11, <4>1, LeastNatural
        <4> QED
          BY <3>2, <4>2, Zenon
      <3>4. PICK m : m = Max(sets)
        OBVIOUS
      <3>5. m \in sets /\ \A j \in sets : j <= m
        <4> HIDE DEF sets
        <4> QED
          BY <2>1, <2>7, <3>1, <3>4, GreatestOf
      <3>6. n \in 1 .. l /\ m \in 1 .. (pos + 1) - 1
        BY <2>7, <3>3, <3>5
      <3>7. n <= l - Depth(text, m)
        BY <2>8, <3>3, <3>5
      <3>8. PICK j \in sets : Depth(text, j) = l - n
        BY <2>9, <3>3
      <3>9. Depth(text, m) >= Depth(text, j)
        <4>1. j \in 1 .. (pos + 1) - 1 /\ IsSeen(text, j, pos + 1) /\ j <= m
          BY <3>5, <3>8
        <4>2. m \in j .. pos + 1
          BY <2>1, <3>6, <4>1
        <4> QED
          BY <4>1, <4>2 DEF IsSeen
      <3>10. Depth(text, m) \in Nat
        <4>1. m \in 1 .. pos + 1
          BY <2>1, <3>6
        <4> QED
          BY <4>1 DEF StackInv
      <3>11. Depth(text, m) = l - n
        BY <2>1, <3>6, <3>7, <3>8, <3>9, <3>10
      <3>12. m \in SetsOf(text, pos + 1, l - n) /\ Said(text)[m][1] = v
        BY <3>5, <3>11 DEF SetsOf
      <3>13. \A i \in SetsOf(text, pos + 1, l - n) : Said(text)[i][1] = v => i <= m
        BY <2>5, <3>5, <3>6
      <3>14. scopes[n][v] = Said(text)[m][2]
        <4>1. MapsSets(scopes[n], text, pos + 1, l - n)
          BY <2>3, <3>6
        <4> HIDE DEF v
        <4>2. \A i \in SetsOf(text, pos + 1, l - n) : Said(text)[i][1] = Said(text)[m][1] => i <= m
          BY <3>12, <3>13
        <4>3. scopes[n][Said(text)[m][1]] = Said(text)[m][2]
          BY <3>12, <4>1, <4>2, Zenon DEF MapsSets
        <4> QED
          BY <3>12, <4>3
      <3>15. Expand(token) = scopes[n][v]
        BY <1>2, <2>11, <3>2, Zenon DEF Expand
      <3>16. ValueBy(text, Said(text), pos + 1, token) = Said(text)[m][2]
        BY <1>2, <3>1, <3>4, Zenon DEF ValueBy
      <3> QED
        BY <3>14, <3>15, <3>16
    <2> QED
      BY <2>10, <2>11
  <1> QED
    BY <1>1, <1>2

-----------------------------------------------------------------------------
(* The parser keeps its scopes *)

ParseInv == StackInv /\ ScopesInv

LEMMA PlacesOfText ==
  ASSUME StackInv
  PROVE  /\ IsSequence(text) /\ Len(text) \in Nat /\ DOMAIN text = 1 .. Len(text)
         /\ pos \in Nat /\ pos <= Len(text)
  <1>1. IsSequence(text) /\ pos \in 0 .. Len(text)
    BY DEF StackInv, IsText
  <1>2. Len(text) \in Nat /\ DOMAIN text = 1 .. Len(text)
    BY <1>1, SequenceHasPlaces
  <1> QED
    BY <1>1, <1>2

LEMMA DepthAtStart == \A t : Depth(t, 1) = 0 /\ \A d : SetsOf(t, 1, d) = {}
  <1> SUFFICES ASSUME NEW t, NEW d PROVE Depth(t, 1) = 0 /\ SetsOf(t, 1, d) = {}
    OBVIOUS
  <1>1. 1 .. 1 - 1 = {}
    OBVIOUS
  <1>2. {j \in 1 .. 1 - 1 : IsOpening(t[j])} = {} /\ {j \in 1 .. 1 - 1 : t[j].name = "}"} = {}
    BY <1>1
  <1>3. Cardinality({}) = 0
    BY FS_EmptySet
  <1>4. Depth(t, 1) = Cardinality({}) - Cardinality({})
    BY <1>2, Zenon DEF Depth
  <1> QED
    BY <1>1, <1>3, <1>4 DEF SetsOf

LEMMA ParseInvInit == StartupInit => ParseInv
  <1> SUFFICES ASSUME StartupInit PROVE ParseInv
    OBVIOUS
  <1>1. PICK given \in Inputs : text = given[1]
    BY DEF StartupInit, ParseInit
  <1>2. IsText(text)
    BY <1>1, InputsAssumption DEF IsInput
  <1>3. pos = 0 /\ at = "top" /\ scopes = <<Empty>>
    BY DEF StartupInit, ParseInit
  <1>4. Len(text) \in Nat
    BY <1>2, SequenceHasPlaces DEF IsText
  <1>5. IsSequence(<<Empty>>) /\ Len(<<Empty>>) = 1 /\ <<Empty>>[1] = Empty
    <2>1. <<Empty>> \in Seq({Empty})
      OBVIOUS
    <2> QED
      BY <2>1, SequenceOfItsElements
  <1>6. Depth(text, pos + 1) = 0 /\ \A d : SetsOf(text, pos + 1, d) = {}
    <2>1. pos + 1 = 1
      BY <1>3
    <2> QED
      BY <2>1, DepthAtStart
  <1>7. \A i \in 1 .. pos + 1 : Depth(text, i) = 0
    BY <1>3, <1>6
  <1>8. StackInv
    BY <1>2, <1>3, <1>4, <1>5, <1>6, <1>7, BlocksAndLevels DEF StackInv, Blocks
  <1>9. \A n \in 1 .. 1 : scopes[n] = Empty
    BY <1>3, <1>5
  <1>10. \A n \in 1 .. 1 : MapsSets(scopes[n], text, pos + 1, Levels[at] - n)
    BY <1>6, <1>9, NewScope
  <1>11. ScopesInv
    BY <1>3, <1>10, BlocksAndLevels DEF ScopesInv
  <1> QED
    BY <1>8, <1>11 DEF ParseInv

LEMMA EndsKeeps ==
  ASSUME ParseInv, text' = text, Ends
  PROVE  ParseInv'
  BY DEF ParseInv, StackInv, ScopesInv, Ends, Blocks

\* What a move does to the depth.
LEMMA DepthsOfMove ==
  ASSUME StackInv, at \in Blocks, text' = text, Moves,
         Depth(text, pos + 2) \in Nat
  PROVE  /\ pos' \in 0 .. Len(text') /\ pos' + 1 = pos + 2
         /\ \A i \in 1 .. pos' + 1 : Depth(text', i) \in Nat
  <1>1. /\ pos \in Nat /\ Len(text) \in Nat /\ pos < Len(text) /\ pos' = pos + 1
        /\ \A i \in 1 .. pos + 1 : Depth(text, i) \in Nat
    BY PlacesOfText DEF StackInv, Moves
  <1>2. pos' \in 0 .. Len(text) /\ pos' + 1 = pos + 2 /\ 1 .. pos + 2 = (1 .. pos + 1) \cup {pos + 2}
    BY <1>1
  <1>3. \A i \in 1 .. pos + 2 : Depth(text, i) \in Nat
    BY <1>1, <1>2
  <1> QED
    BY <1>2, <1>3

LEMMA DepthOfNext ==
  ASSUME StackInv
  PROVE  /\ IsOpening(Directive) => Depth(text, pos + 2) = Depth(text, pos + 1) + 1
         /\ IsClosing(Directive) => Depth(text, pos + 2) = Depth(text, pos + 1) - 1
         /\ ~IsOpening(Directive) /\ ~IsClosing(Directive) => Depth(text, pos + 2) = Depth(text, pos + 1)
  <1>1. pos + 1 \in Nat \ {0} /\ (pos + 1) + 1 = pos + 2
    BY PlacesOfText
  <1>2. PICK k : k = pos + 1
    OBVIOUS
  <1>3. k \in Nat \ {0} /\ k + 1 = pos + 2 /\ Directive = text[k]
    BY <1>1, <1>2 DEF Directive
  <1>4. /\ IsOpening(text[k]) => Depth(text, k + 1) = Depth(text, k) + 1
        /\ IsClosing(text[k]) => Depth(text, k + 1) = Depth(text, k) - 1
        /\ ~IsOpening(text[k]) /\ ~IsClosing(text[k]) => Depth(text, k + 1) = Depth(text, k)
    BY <1>3, DepthStep
  <1> QED
    BY <1>2, <1>3, <1>4, Zenon

\* A group that is read stays open over what is no brace.
LEMMA InGroupFurther ==
  ASSUME StackInv, text' = text, Moves, ~IsClosing(Directive), InGroup \/ Directive.name = "upstream"
  PROVE  InGroup'
  <1>1. pos \in Nat /\ pos' = pos + 1 /\ Directive = text[pos + 1]
    BY PlacesOfText DEF Moves, Directive
  <1>2. CASE InGroup
    <2>1. PICK g \in 1 .. pos : text[g].name = "upstream" /\ \A c \in g .. pos : ~IsClosing(text[c])
      BY <1>2 DEF InGroup
    <2>2. g \in 1 .. pos' /\ g .. pos' = (g .. pos) \cup {pos + 1}
      BY <1>1
    <2>3. \A c \in g .. pos' : ~IsClosing(text[c])
      BY <1>1, <2>1, <2>2
    <2> QED
      BY <2>1, <2>2, <2>3 DEF InGroup
  <1>3. CASE Directive.name = "upstream"
    <2>1. pos' \in 1 .. pos' /\ pos' .. pos' = {pos'}
      BY <1>1
    <2>2. text[pos'].name = "upstream" /\ \A c \in pos' .. pos' : ~IsClosing(text[c])
      BY <1>1, <1>3, <2>1
    <2> QED
      BY <2>1, <2>2 DEF InGroup
  <1> QED
    BY <1>2, <1>3

\* The invariant, with what a step has to show of it.
LEMMA StackAfterMove ==
  ASSUME StackInv, at \in Blocks, text' = text, Moves,
         IsSequence(scopes'), Len(scopes') = Levels[at'], Depth(text, pos + 2) = Levels[at'] - 1,
         at' = "upstream" => InGroup'
  PROVE  StackInv'
  <1>1. Levels[at'] - 1 \in Nat
    BY LevelIsNumber DEF Moves
  <1>2. /\ pos' \in 0 .. Len(text') /\ pos' + 1 = pos + 2
        /\ \A i \in 1 .. pos' + 1 : Depth(text', i) \in Nat
    BY <1>1, DepthsOfMove
  <1>3. IsText(text')
    BY DEF StackInv
  <1>4. at' \in Blocks
    BY DEF Moves
  <1> QED
    BY <1>2, <1>3, <1>4 DEF StackInv

LEMMA ScopesAt ==
  ASSUME ParseInv, at \in Blocks
  PROVE  /\ IsSequence(scopes) /\ Len(scopes) = Levels[at] /\ Levels[at] \in 1 .. 3
         /\ Depth(text, pos + 1) = Levels[at] - 1
         /\ pos + 1 \in Nat \ {0} /\ (pos + 1) + 1 = pos + 2 /\ Directive = text[pos + 1]
         /\ \A n \in 1 .. Levels[at] : MapsSets(scopes[n], text, pos + 1, Levels[at] - n)
  BY PlacesOfText, LevelIsNumber DEF ParseInv, StackInv, ScopesInv, Directive

LEMMA GoesOnKeeps ==
  ASSUME ParseInv, at \in Blocks, text' = text, GoesOn
  PROVE  ParseInv'
  <1>0. PICK l, k : l = Levels[at] /\ k = pos + 1
    OBVIOUS
  <1>1. /\ IsSequence(scopes) /\ Len(scopes) = l /\ l \in 1 .. 3 /\ Depth(text, k) = l - 1
        /\ k \in Nat \ {0} /\ k + 1 = pos + 2 /\ Directive = text[k]
        /\ \A n \in 1 .. l : MapsSets(scopes[n], text, k, l - n)
    BY <1>0, ScopesAt
  <1>2. Moves /\ at' = at /\ scopes' = scopes
    BY DEF GoesOn
  <1>3. ~IsOpening(Directive) /\ ~IsClosing(Directive) /\ Directive.name # "set"
    BY DEF GoesOn
  <1>4. Depth(text, k + 1) = l - 1
    BY <1>0, <1>1, <1>3, DepthOfNext DEF ParseInv
  <1>5. at' = "upstream" => InGroup'
    BY <1>2, <1>3, InGroupFurther DEF ParseInv, StackInv
  <1>6. StackInv'
    BY <1>0, <1>1, <1>2, <1>4, <1>5, StackAfterMove DEF ParseInv
  <1>7. ASSUME NEW n \in 1 .. l PROVE MapsSets(scopes[n], text, k + 1, l - n)
    <2>1. l - n \in Nat /\ l - n <= Depth(text, k + 1)
      BY <1>1, <1>4
    <2>2. SetsOf(text, k + 1, l - n) = SetsOf(text, k, l - n)
      BY <1>1, <1>3, <2>1, SetsFurther
    <2> QED
      BY <1>1, <2>2, ScopeIsKept
  <1>8. pos' + 1 = k + 1
    BY <1>0, <1>1, <1>2 DEF Moves
  <1>9. ScopesInv'
    BY <1>0, <1>2, <1>7, <1>8 DEF ScopesInv
  <1> QED
    BY <1>6, <1>9 DEF ParseInv

LEMMA OpensKeeps ==
  ASSUME ParseInv, at \in Blocks, text' = text, Opens
  PROVE  ParseInv'
  <1>0. PICK l, k : l = Levels[at] /\ k = pos + 1
    OBVIOUS
  <1>1. /\ IsSequence(scopes) /\ Len(scopes) = l /\ l \in 1 .. 3 /\ Depth(text, k) = l - 1
        /\ k \in Nat \ {0} /\ k + 1 = pos + 2 /\ Directive = text[k]
        /\ \A n \in 1 .. l : MapsSets(scopes[n], text, k, l - n)
    BY <1>0, ScopesAt
  <1>2. Moves /\ Levels[at'] = l + 1 /\ scopes' = <<Empty>> \o scopes
    BY <1>0 DEF Opens
  <1>3. IsOpening(Directive) /\ ~IsClosing(Directive) /\ Directive.name # "set"
    BY OpensOrCloses DEF Opens
  <1>4. Depth(text, k + 1) = l
    <2>1. Depth(text, k + 1) = Depth(text, k) + 1
      BY <1>0, <1>1, <1>3, DepthOfNext DEF ParseInv
    <2> QED
      BY <1>1, <2>1
  <1>5. at' = "upstream" => InGroup'
    BY <1>2, <1>3, InGroupFurther DEF ParseInv, Opens
  <1>6. /\ IsSequence(scopes') /\ Len(scopes') = l + 1 /\ scopes'[1] = Empty
        /\ \A n \in 1 .. l : scopes'[n + 1] = scopes[n]
    BY <1>1, <1>2, PushedOn
  <1>7. StackInv'
    <2>1. Depth(text, pos + 2) = Levels[at'] - 1
      BY <1>1, <1>2, <1>4
    <2> QED
      BY <1>2, <1>5, <1>6, <2>1, StackAfterMove DEF ParseInv
  <1>8. ASSUME NEW n \in 1 .. l + 1 PROVE MapsSets(scopes'[n], text, k + 1, (l + 1) - n)
    <2>1. CASE n = 1
      <3>1. SetsOf(text, k + 1, l) = {}
        BY <1>1, <1>3, SetsFurther
      <3>2. (l + 1) - 1 = l
        BY <1>1
      <3> QED
        BY <1>6, <2>1, <3>1, <3>2, NewScope
    <2>2. CASE n # 1
      <3>1. PICK m \in 1 .. l : n = m + 1
        <4>1. n - 1 \in 1 .. l /\ n = (n - 1) + 1
          BY <1>1, <2>2
        <4> QED
          BY <4>1
      <3>2. l - m \in Nat /\ l - m <= Depth(text, k + 1) /\ (l + 1) - n = l - m
        BY <1>1, <1>4, <3>1
      <3>3. SetsOf(text, k + 1, l - m) = SetsOf(text, k, l - m)
        BY <1>1, <1>3, <3>2, SetsFurther
      <3>4. MapsSets(scopes[m], text, k + 1, l - m)
        BY <1>1, <3>3, ScopeIsKept
      <3> QED
        BY <1>6, <3>1, <3>2, <3>4, Zenon
    <2> QED
      BY <2>1, <2>2
  <1>9. pos' + 1 = k + 1
    BY <1>0, <1>1, <1>2 DEF Moves
  <1>10. ScopesInv'
    BY <1>2, <1>8, <1>9 DEF ScopesInv
  <1> QED
    BY <1>7, <1>10 DEF ParseInv

LEMMA ClosesKeeps ==
  ASSUME ParseInv, at \in Blocks, text' = text, Closes
  PROVE  ParseInv'
  <1>0. PICK l, k : l = Levels[at] /\ k = pos + 1
    OBVIOUS
  <1>1. /\ IsSequence(scopes) /\ Len(scopes) = l /\ l \in 1 .. 3 /\ Depth(text, k) = l - 1
        /\ k \in Nat \ {0} /\ k + 1 = pos + 2 /\ Directive = text[k]
        /\ \A n \in 1 .. l : MapsSets(scopes[n], text, k, l - n)
    BY <1>0, ScopesAt
  <1>2. Moves /\ l \in 2 .. 3 /\ Levels[at'] = l - 1 /\ scopes' = Tail(scopes) /\ at' # "upstream"
    BY <1>0 DEF Closes
  <1>3. ~IsOpening(Directive) /\ IsClosing(Directive) /\ Directive.name # "set"
    BY OpensOrCloses DEF Closes
  <1>4. Depth(text, k + 1) = l - 2
    <2>1. Depth(text, k + 1) = Depth(text, k) - 1
      BY <1>0, <1>1, <1>3, DepthOfNext DEF ParseInv
    <2> QED
      BY <1>1, <2>1
  <1>5. /\ IsSequence(scopes') /\ Len(scopes') = l - 1
        /\ \A n \in 1 .. l - 1 : scopes'[n] = scopes[n + 1]
    BY <1>1, <1>2, TailIs
  <1>6. StackInv'
    <2>1. Depth(text, pos + 2) = Levels[at'] - 1
      BY <1>1, <1>2, <1>4
    <2> QED
      BY <1>2, <1>5, <2>1, StackAfterMove DEF ParseInv
  <1>7. ASSUME NEW n \in 1 .. l - 1 PROVE MapsSets(scopes'[n], text, k + 1, (l - 1) - n)
    <2>1. PICK m : m = n + 1
      OBVIOUS
    <2>2. m \in 1 .. l /\ l - m \in Nat /\ l - m <= Depth(text, k + 1) /\ (l - 1) - n = l - m
      BY <1>1, <1>4, <2>1
    <2>3. SetsOf(text, k + 1, l - m) = SetsOf(text, k, l - m)
      BY <1>1, <1>3, <2>2, SetsFurther
    <2>4. MapsSets(scopes[m], text, k + 1, l - m)
      BY <1>1, <2>2, <2>3, ScopeIsKept
    <2> QED
      BY <1>5, <2>1, <2>2, <2>4, Zenon
  <1>8. pos' + 1 = k + 1
    BY <1>0, <1>1, <1>2 DEF Moves
  <1>9. ScopesInv'
    BY <1>2, <1>7, <1>8 DEF ScopesInv
  <1> QED
    BY <1>6, <1>9 DEF ParseInv

\* The name and the value of a set are those its scopes give them.
LEMMA SetSaysItsValues ==
  ASSUME ParseInv, at \in Blocks, pos < Len(text), Directive.name = "set"
  PROVE  Args[1] = Said(text)[pos + 1][1] /\ Args[2] = Said(text)[pos + 1][2]
  <1>1. pos + 1 \in DOMAIN text /\ pos + 1 \in 1 .. Len(text) /\ Len(text) \in Nat
    BY PlacesOfText DEF ParseInv
  <1>2. DOMAIN Directive.args = 1 .. 2
    <2>1. IsDirective(Directive)
      BY <1>1 DEF ParseInv, StackInv, IsText, Directive
    <2>2. IsSequence(Directive.args) /\ Len(Directive.args) = 2
      BY <2>1 DEF IsDirective
    <2> QED
      BY <2>2, SequenceHasPlaces
  <1>3. Said(text)[pos + 1] = SaidBy(text, Said(text), pos + 1)
    BY <1>1, SaidSays
  <1>4. \A i \in 1 .. 2 : Said(text)[pos + 1][i] = ValueBy(text, Said(text), pos + 1, Directive.args[i])
    BY <1>2, <1>3 DEF SaidBy, Directive
  <1>5. \A i \in 1 .. 2 : Args[i] = Expand(Directive.args[i])
    BY <1>2 DEF Args, Raw
  <1>6. \A token : Expand(token) = ValueBy(text, Said(text), pos + 1, token)
    BY ExpandedIsValue DEF ParseInv
  <1> QED
    BY <1>4, <1>5, <1>6

LEMMA SetsOneKeeps ==
  ASSUME ParseInv, at \in Blocks, text' = text, SetsOne
  PROVE  ParseInv'
  <1>0. PICK l, k : l = Levels[at] /\ k = pos + 1
    OBVIOUS
  <1>1. /\ IsSequence(scopes) /\ Len(scopes) = l /\ l \in 1 .. 3 /\ Depth(text, k) = l - 1
        /\ k \in Nat \ {0} /\ k + 1 = pos + 2 /\ Directive = text[k]
        /\ \A n \in 1 .. l : MapsSets(scopes[n], text, k, l - n)
    BY <1>0, ScopesAt
  <1>2. PICK inner : inner = Put(Head(scopes), Args[1], Args[2])
    OBVIOUS
  <1>3. Moves /\ at' = at /\ scopes' = <<inner>> \o Tail(scopes)
    BY <1>2 DEF SetsOne
  <1>4. ~IsOpening(Directive) /\ ~IsClosing(Directive) /\ Directive.name = "set"
    BY OpensOrCloses DEF SetsOne
  <1>5. Depth(text, k + 1) = l - 1
    BY <1>0, <1>1, <1>4, DepthOfNext DEF ParseInv
  <1>6. at' = "upstream" => InGroup'
    BY <1>3, <1>4, InGroupFurther DEF ParseInv, StackInv
  <1>7. /\ IsSequence(Tail(scopes)) /\ Len(Tail(scopes)) = l - 1 /\ Head(scopes) = scopes[1]
        /\ \A n \in 1 .. l - 1 : Tail(scopes)[n] = scopes[n + 1]
    BY <1>1, TailIs
  <1>8. /\ IsSequence(scopes') /\ Len(scopes') = (l - 1) + 1 /\ scopes'[1] = inner
        /\ \A n \in 1 .. l - 1 : scopes'[n + 1] = Tail(scopes)[n]
    BY <1>3, <1>7, PushedOn
  <1>9. StackInv'
    <2>1. Len(scopes') = Levels[at'] /\ Depth(text, pos + 2) = Levels[at'] - 1
      BY <1>0, <1>1, <1>3, <1>5, <1>8
    <2> QED
      BY <1>3, <1>6, <1>8, <2>1, StackAfterMove DEF ParseInv
  <1>10. MapsSets(inner, text, k + 1, l - 1)
    <2>1. MapsSets(scopes[1], text, k, l - 1) /\ l - 1 \in Nat /\ l - 1 <= Depth(text, k + 1)
      BY <1>1, <1>5
    <2>2. inner = Put(scopes[1], Said(text)[k][1], Said(text)[k][2])
      BY <1>0, <1>2, <1>3, <1>4, <1>7, SetSaysItsValues DEF Moves
    <2>3. MapsSets(Put(scopes[1], Said(text)[k][1], Said(text)[k][2]), text, k + 1, l - 1)
      BY <1>1, <1>4, <2>1, ScopeTakesSet
    <2> QED
      BY <2>2, <2>3, Zenon
  <1>11. ASSUME NEW n \in 1 .. l PROVE MapsSets(scopes'[n], text, k + 1, l - n)
    <2>1. CASE n = 1
      BY <1>8, <1>10, <2>1
    <2>2. CASE n # 1
      <3>1. PICK m : m = n - 1
        OBVIOUS
      <3>2. m \in 1 .. l - 1 /\ n = m + 1 /\ l - n \in Nat /\ l - n <= Depth(text, k + 1) /\ Depth(text, k) # l - n
        BY <1>1, <1>5, <2>2, <3>1
      <3>3. SetsOf(text, k + 1, l - n) = SetsOf(text, k, l - n)
        BY <1>1, <3>2, SetsFurther
      <3>4. MapsSets(scopes[n], text, k + 1, l - n)
        BY <1>1, <3>3, ScopeIsKept
      <3>5. scopes'[n] = scopes[n]
        BY <1>7, <1>8, <3>2, Zenon
      <3> QED
        BY <3>4, <3>5, Zenon
    <2> QED
      BY <2>1, <2>2
  <1>12. pos' + 1 = k + 1
    BY <1>0, <1>1, <1>3 DEF Moves
  <1>13. ScopesInv'
    BY <1>0, <1>3, <1>11, <1>12 DEF ScopesInv
  <1> QED
    BY <1>9, <1>13 DEF ParseInv

LEMMA ParseStepKeepsParseInv == ParseInv /\ ParseStep => ParseInv'
  <1> SUFFICES ASSUME ParseInv, ParseStep PROVE ParseInv'
    OBVIOUS
  <1>1. at \in Blocks /\ text' = text /\ (Ends \/ GoesOn \/ SetsOne \/ Opens \/ Closes)
    BY ParseStepMoves DEF ParseInv
  <1> QED
    BY <1>1, EndsKeeps, GoesOnKeeps, SetsOneKeeps, OpensKeeps, ClosesKeeps

\* Once the file is read the parser leaves its variables alone.
LEMMA RestKeepsParseInv ==
  ASSUME ParseInv, at \notin Blocks, UNCHANGED <<text, pos>>, at' \in {"read", "parsed", "failed", "endless"}
  PROVE  ParseInv'
  <1>1. at' \notin Blocks
    BY DEF Blocks
  <1> QED
    BY <1>1 DEF ParseInv, StackInv, ScopesInv, Blocks

LEMMA ParseInvStep == ParseInv /\ [StartupNext]_uvars => ParseInv'
  <1> SUFFICES ASSUME ParseInv, [StartupNext]_uvars PROVE ParseInv'
    OBVIOUS
  <1>1. ASSUME UNCHANGED <<text, pos, at, scopes>> PROVE ParseInv'
    BY <1>1 DEF ParseInv, StackInv, ScopesInv, InGroup
  <1>2. CASE ParseStep
    BY <1>2, ParseStepKeepsParseInv
  <1>3. CASE GroupServer
    BY <1>1, <1>3 DEF GroupServer, pvars
  <1>4. CASE \E a \in DOMAIN groups : CheckGroup(a)
    BY <1>1, <1>4, RestKeepsParseInv DEF CheckGroup, Fail, pvars, Blocks
  <1>5. CASE ParseReturns
    BY <1>5, RestKeepsParseInv DEF ParseReturns, Blocks
  <1>6. CASE \E a \in DOMAIN acceptor : MakeAcceptor(a)
    BY <1>1, <1>6 DEF MakeAcceptor, pvars
  <1>7. CASE UNCHANGED uvars
    BY <1>1, <1>7 DEF uvars, pvars
  <1> QED
    BY <1>2, <1>3, <1>4, <1>5, <1>6, <1>7 DEF StartupNext, StartupStep, StartupDone

LEMMA InvScopes == ParseInv => VariablesAreScoped
  BY ExpandedIsValue DEF ParseInv, VariablesAreScoped, ValueAt

-----------------------------------------------------------------------------
(* Types *)

DefaultsAreThere == \A a \in DOMAIN groups : groups[a].default \in DOMAIN groups[a].servers

LEMMA DefaultsStep == ListenersInv /\ DefaultsAreThere /\ [StartupNext]_uvars => DefaultsAreThere'
  <1> SUFFICES ASSUME ListenersInv, DefaultsAreThere, [StartupNext]_uvars PROVE DefaultsAreThere'
    OBVIOUS
  <1>1. ASSUME UNCHANGED groups PROVE DefaultsAreThere'
    BY <1>1 DEF DefaultsAreThere
  <1>2. \A a \in DOMAIN groups :
          /\ DOMAIN groups[a] = {"servers", "default"} /\ IsSequence(groups[a].servers)
    BY DEF ListenersInv, GroupsAreSelections
  <1>3. CASE GroupServer
    <2>0. PICK server, a : server = servers[grouped + 1] /\ a = Address(server)
      OBVIOUS
    <2>1. groups' = IF a \in DOMAIN groups
                    THEN [groups EXCEPT ![a].servers = Append(@, server)]
                    ELSE Put(groups, a, [servers |-> <<server>>, default |-> 1])
      BY <1>3, <2>0 DEF GroupServer
    <2>2. CASE a \in DOMAIN groups
      <3>1. groups' = [groups EXCEPT ![a].servers = Append(@, server)]
        BY <2>1, <2>2
      <3>2. PICK old : old = groups[a].servers
        OBVIOUS
      <3>3. IsSequence(old) /\ groups[a].default \in DOMAIN old /\ DOMAIN groups[a] = {"servers", "default"}
        BY <1>2, <2>2, <3>2 DEF DefaultsAreThere
      <3>4. groups'[a].servers = Append(old, server) /\ groups'[a].default = groups[a].default
        BY <2>2, <3>1, <3>2, <3>3
      <3>5. DOMAIN old \subseteq DOMAIN Append(old, server)
        <4>1. DOMAIN old = 1 .. Len(old) /\ Len(old) \in Nat
          BY <3>3, SequenceHasPlaces
        <4>2. DOMAIN Append(old, server) = 1 .. Len(old) + 1
          BY <3>3, AppendIsSequence
        <4> QED
          BY <4>1, <4>2
      <3>6. groups'[a].default \in DOMAIN groups'[a].servers
        BY <3>3, <3>4, <3>5
      <3>7. ASSUME NEW b \in DOMAIN groups', b # a PROVE groups'[b].default \in DOMAIN groups'[b].servers
        <4>1. b \in DOMAIN groups /\ groups'[b] = groups[b]
          BY <3>1, <3>7
        <4> QED
          BY <4>1 DEF DefaultsAreThere
      <3> QED
        BY <3>6, <3>7 DEF DefaultsAreThere
    <2>3. CASE a \notin DOMAIN groups
      <3>1. groups' = Put(groups, a, [servers |-> <<server>>, default |-> 1])
        BY <2>1, <2>3
      <3>2. /\ DOMAIN groups' = {a} \cup DOMAIN groups
            /\ groups'[a] = [servers |-> <<server>>, default |-> 1]
            /\ \A b \in DOMAIN groups : groups'[b] = groups[b]
        BY <2>3, <3>1 DEF Put
      <3>3. groups'[a].default = 1 /\ groups'[a].servers = <<server>> /\ 1 \in DOMAIN <<server>>
        BY <3>2
      <3>4. groups'[a].default \in DOMAIN groups'[a].servers
        BY <3>3
      <3> QED
        BY <3>2, <3>4 DEF DefaultsAreThere
    <2> QED
      BY <2>2, <2>3
  <1>4. CASE \E a \in DOMAIN groups : CheckGroup(a)
    <2>1. PICK a \in DOMAIN groups : CheckGroup(a)
      BY <1>4
    <2>2. CASE groups' = groups
      BY <1>1, <2>2
    <2>3. CASE groups' # groups
      <3>1. groups' = [groups EXCEPT ![a].default = Default(groups[a])]
        BY <2>1, <2>3 DEF CheckGroup, gvars
      <3>2. DOMAIN groups[a] = {"servers", "default"} /\ IsSequence(groups[a].servers)
            /\ groups[a].default \in DOMAIN groups[a].servers
        BY <1>2 DEF DefaultsAreThere
      <3>3. PICK n : n = Len(groups[a].servers)
        OBVIOUS
      <3>4. n \in Nat /\ n > 0 /\ DOMAIN groups[a].servers = 1 .. n
        BY <3>2, <3>3, SequenceHasPlaces
      <3>5. Default(groups[a]) \in 1 .. n
        BY <3>4, DefaultIsFirstMarked
      <3>6. groups'[a].default = Default(groups[a]) /\ groups'[a].servers = groups[a].servers
        BY <3>1, <3>2
      <3>7. ASSUME NEW b \in DOMAIN groups', b # a PROVE groups'[b].default \in DOMAIN groups'[b].servers
        <4>1. b \in DOMAIN groups /\ groups'[b] = groups[b]
          BY <3>1, <3>7
        <4> QED
          BY <4>1 DEF DefaultsAreThere
      <3> QED
        BY <3>4, <3>5, <3>6, <3>7 DEF DefaultsAreThere
    <2> QED
      BY <2>2, <2>3
  <1>5. CASE (ParseStep /\ UNCHANGED gvars) \/ ParseReturns \/ (\E a \in DOMAIN acceptor : MakeAcceptor(a)) \/ UNCHANGED uvars
    BY <1>1, <1>5 DEF gvars, uvars, ParseReturns, MakeAcceptor
  <1> QED
    BY <1>3, <1>4, <1>5 DEF StartupNext, StartupStep, StartupDone

LEMMA InvTypes == ListenersInv /\ DefaultsAreThere /\ ParseInv => ConfigTypeOK
  <1> SUFFICES ASSUME ListenersInv, DefaultsAreThere, ParseInv PROVE ConfigTypeOK
    OBVIOUS
  <1>1. at \in Blocks => Len(scopes) = Depth(text, pos + 1) + 1
    BY LevelIsNumber DEF ParseInv, StackInv
  <1>2. at \in Blocks \cup {"read", "parsed", "failed", "endless"} /\ pos \in 0 .. Len(text)
    BY DEF ParseInv, StackInv
  <1>3. grouped \in 0 .. Len(servers) /\ checked \subseteq DOMAIN groups /\ DOMAIN acceptor \in {{}, DOMAIN groups}
    BY DEF ListenersInv, PhasesInOrder
  <1> QED
    BY <1>1, <1>2, <1>3 DEF ConfigTypeOK, DefaultsAreThere

-----------------------------------------------------------------------------
(* The theorems of the parser *)

\* Type correctness of parse_config and make_acceptor, for every file: there is a scope
\* for each block that is open, as many as the braces of what was read say, and an
\* index of a default server is one of a server that is there.
THEOREM StartupTypeCorrect == StartupSpec => []ConfigTypeOK
  <1> DEFINE Inv == ListenersInv /\ DefaultsAreThere /\ ParseInv
  <1>1. StartupInit => Inv
    <2>1. StartupInit => DefaultsAreThere
      <3>1. StartupInit => DOMAIN groups = {}
        BY DEF StartupInit, Empty
      <3> QED
        BY <3>1 DEF DefaultsAreThere
    <2> QED
      BY <2>1, ListenersInit, ParseInvInit
  <1>2. Inv /\ [StartupNext]_uvars => Inv'
    BY ListenersStep, DefaultsStep, ParseInvStep
  <1>3. Inv => ConfigTypeOK
    BY InvTypes
  <1> QED
    BY <1>1, <1>2, <1>3, PTL DEF StartupSpec

\* parse_set and replace_static_vars, for every file: a variable has the value of the
\* last set before it in a block that is still open, and none when there is no such set.
THEOREM VariablesKeepToBlocks == StartupSpec => []VariablesAreScoped
  <1>1. StartupInit => ParseInv
    BY ParseInvInit
  <1>2. ParseInv /\ [StartupNext]_uvars => ParseInv'
    BY ParseInvStep
  <1>3. ParseInv => VariablesAreScoped
    BY InvScopes
  <1> QED
    BY <1>1, <1>2, <1>3, PTL DEF StartupSpec

-----------------------------------------------------------------------------
(* Places in their order *)

IsOrder(f, S, n) ==
  f = [k \in 0 .. n |-> IF k = 0 THEN <<>> ELSE IF k \in S THEN Append(f[k - 1], k) ELSE f[k - 1]]

LEMMA OrderPlaces ==
  ASSUME NEW f, NEW S, NEW n \in Nat, IsOrder(f, S, n)
  PROVE  /\ f[0] = <<>>
         /\ \A k \in 1 .. n : f[k] = IF k \in S THEN Append(f[k - 1], k) ELSE f[k - 1]
  <1> DEFINE g == [k \in 0 .. n |-> IF k = 0 THEN <<>> ELSE IF k \in S THEN Append(f[k - 1], k) ELSE f[k - 1]]
  <1>1. f = g
    BY Zenon DEF IsOrder
  <1>2. g[0] = <<>> /\ \A k \in 1 .. n : g[k] = IF k \in S THEN Append(f[k - 1], k) ELSE f[k - 1]
    OBVIOUS
  <1> HIDE DEF g
  <1> QED
    BY <1>1, <1>2

LEMMA OrdersAgree ==
  ASSUME NEW f, NEW g, NEW S, NEW T, NEW n \in Nat, NEW m \in Nat, n <= m,
         IsOrder(f, S, n), IsOrder(g, T, m), \A k \in 1 .. n : k \in S <=> k \in T
  PROVE  \A k \in 0 .. n : f[k] = g[k]
  <1> DEFINE Bad == {k \in 0 .. n : f[k] # g[k]}
  <1> SUFFICES ASSUME Bad # {} PROVE FALSE
    OBVIOUS
  <1>1. Bad \in SUBSET Nat
    OBVIOUS
  <1>2. PICK k \in Bad : \A j \in Bad : k <= j
    <2> HIDE DEF Bad
    <2> QED
      BY <1>1, LeastNatural
  <1>3. f[0] = <<>> /\ g[0] = <<>>
    BY OrderPlaces
  <1>4. k \in 1 .. n /\ k \in 1 .. m /\ k - 1 \in 0 .. n /\ ~(k <= k - 1) /\ f[k] # g[k]
    BY <1>3
  <1>5. f[k - 1] = g[k - 1]
    BY <1>2, <1>4
  <1>6. f[k] = IF k \in S THEN Append(f[k - 1], k) ELSE f[k - 1]
    BY <1>4, OrderPlaces
  <1>7. g[k] = IF k \in T THEN Append(g[k - 1], k) ELSE g[k - 1]
    BY <1>4, OrderPlaces
  <1>8. k \in S <=> k \in T
    BY <1>4
  <1> QED
    BY <1>4, <1>5, <1>6, <1>7, <1>8, Zenon

LEMMA OrderExists ==
  ASSUME NEW S, NEW n \in Nat
  PROVE  \E f : IsOrder(f, S, n)
  <1> DEFINE Bad == {m \in Nat : ~ \E f : IsOrder(f, S, m)}
  <1> SUFFICES ASSUME Bad # {} PROVE FALSE
    OBVIOUS
  <1>1. Bad \in SUBSET Nat
    OBVIOUS
  <1>2. PICK m \in Bad : \A j \in Bad : m <= j
    <2> HIDE DEF Bad
    <2> QED
      BY <1>1, LeastNatural
  <1>3. m # 0
    <2> DEFINE f == [k \in 0 .. 0 |-> <<>>]
    <2>1. f = [k \in 0 .. 0 |-> IF k = 0 THEN <<>> ELSE IF k \in S THEN Append(f[k - 1], k) ELSE f[k - 1]]
      OBVIOUS
    <2>2. IsOrder(f, S, 0)
      BY <2>1 DEF IsOrder
    <2> QED
      BY <2>2
  <1>4. m - 1 \in Nat /\ m - 1 \notin Bad /\ m \in Nat \ {0}
    BY <1>2, <1>3
  <1>5. PICK f : IsOrder(f, S, m - 1)
    BY <1>4
  <1> DEFINE g == [k \in 0 .. m |-> IF k = m THEN IF m \in S THEN Append(f[m - 1], m) ELSE f[m - 1] ELSE f[k]]
  <1>6. /\ f[0] = <<>>
        /\ \A k \in 1 .. m - 1 : f[k] = IF k \in S THEN Append(f[k - 1], k) ELSE f[k - 1]
    BY <1>4, <1>5, OrderPlaces
  <1>7. /\ g[m] = IF m \in S THEN Append(f[m - 1], m) ELSE f[m - 1]
        /\ \A k \in 0 .. m - 1 : g[k] = f[k]
        /\ DOMAIN g = 0 .. m /\ g = [k \in 0 .. m |-> g[k]]
    BY <1>4
  <1> HIDE DEF g
  <1>8. \A k \in 0 .. m : g[k] = IF k = 0 THEN <<>> ELSE IF k \in S THEN Append(g[k - 1], k) ELSE g[k - 1]
    <2> SUFFICES ASSUME NEW k \in 0 .. m
                 PROVE  g[k] = IF k = 0 THEN <<>> ELSE IF k \in S THEN Append(g[k - 1], k) ELSE g[k - 1]
      OBVIOUS
    <2>1. CASE k = 0
      BY <1>4, <1>6, <1>7, <2>1
    <2>2. CASE k = m
      <3>1. g[m - 1] = f[m - 1] /\ k # 0
        BY <1>4, <1>7, <2>2
      <3> QED
        BY <1>7, <2>2, <3>1, Zenon
    <2>3. CASE k # 0 /\ k # m
      <3>1. k \in 1 .. m - 1 /\ k \in 0 .. m - 1 /\ k - 1 \in 0 .. m - 1
        BY <1>4, <2>3
      <3>2. g[k] = f[k] /\ g[k - 1] = f[k - 1]
        BY <1>7, <3>1
      <3> QED
        BY <1>6, <2>3, <3>1, <3>2, Zenon
    <2> QED
      BY <2>1, <2>2, <2>3
  <1>9. IsOrder(g, S, m)
    BY <1>7, <1>8 DEF IsOrder
  <1> QED
    BY <1>2, <1>9

LEMMA OrderOf ==
  ASSUME NEW S, NEW n \in Nat
  PROVE  \E f : IsOrder(f, S, n) /\ InOrder(S, n) = f[n]
  <1>1. \E f : f = [k \in 0 .. n |-> IF k = 0 THEN <<>> ELSE IF k \in S THEN Append(f[k - 1], k) ELSE f[k - 1]]
    <2>1. PICK f : IsOrder(f, S, n)
      BY OrderExists
    <2> QED
      BY <2>1, Zenon DEF IsOrder
  <1> DEFINE f == CHOOSE f : f = [k \in 0 .. n |-> IF k = 0 THEN <<>> ELSE IF k \in S THEN Append(f[k - 1], k) ELSE f[k - 1]]
  <1>2. IsOrder(f, S, n)
    BY <1>1, Zenon DEF IsOrder
  <1>3. InOrder(S, n) = f[n]
    BY DEF InOrder
  <1> QED
    BY <1>2, <1>3, Zenon

LEMMA InOrderSame ==
  ASSUME NEW S, NEW T, NEW n \in Nat, \A k \in 1 .. n : k \in S <=> k \in T
  PROVE  InOrder(S, n) = InOrder(T, n)
  <1>1. PICK f : IsOrder(f, S, n) /\ InOrder(S, n) = f[n]
    BY OrderOf
  <1>2. PICK g : IsOrder(g, T, n) /\ InOrder(T, n) = g[n]
    BY OrderOf
  <1>3. n <= n /\ n \in 0 .. n
    OBVIOUS
  <1>4. f[n] = g[n]
    BY <1>1, <1>2, <1>3, OrdersAgree
  <1> QED
    BY <1>1, <1>2, <1>4

LEMMA InOrderStep ==
  ASSUME NEW S, NEW n \in Nat
  PROVE  /\ InOrder(S, 0) = <<>>
         /\ n + 1 \in S => InOrder(S, n + 1) = Append(InOrder(S, n), n + 1)
         /\ n + 1 \notin S => InOrder(S, n + 1) = InOrder(S, n)
  <1>1. InOrder(S, 0) = <<>>
    <2>1. PICK f : IsOrder(f, S, 0) /\ InOrder(S, 0) = f[0]
      BY OrderOf
    <2> QED
      BY <2>1, OrderPlaces
  <1>2. PICK m \in Nat : m = n + 1
    OBVIOUS
  <1>3. PICK f : IsOrder(f, S, n) /\ InOrder(S, n) = f[n]
    BY OrderOf
  <1>4. PICK g : IsOrder(g, S, m) /\ InOrder(S, m) = g[m]
    BY OrderOf
  <1>5. n <= m /\ m - 1 = n /\ m \in 1 .. m /\ n \in 0 .. n
    BY <1>2
  <1>6. f[n] = g[n]
    BY <1>3, <1>4, <1>5, OrdersAgree
  <1>7. g[m] = IF m \in S THEN Append(g[n], m) ELSE g[n]
    BY <1>4, <1>5, OrderPlaces
  <1> QED
    BY <1>1, <1>2, <1>3, <1>4, <1>6, <1>7, Zenon

\* The members in order are those of the set, each later one is greater.
IsRising(s) == \A i, j \in DOMAIN s : i < j => s[i] < s[j]

LEMMA SetByPlaces ==
  ASSUME NEW s, NEW t, NEW n \in Nat, NEW x, DOMAIN s = 1 .. n, DOMAIN t = (DOMAIN s) \cup {n + 1},
         t[n + 1] = x, \A i \in 1 .. n : t[i] = s[i]
  PROVE  {t[i] : i \in DOMAIN t} = {s[i] : i \in DOMAIN s} \cup {x}
  OBVIOUS

LEMMA InOrderLists ==
  ASSUME NEW S, NEW n \in Nat
  PROVE  /\ InOrder(S, n) \in Seq(1 .. n)
         /\ {InOrder(S, n)[i] : i \in DOMAIN InOrder(S, n)} = S \cap (1 .. n)
         /\ IsRising(InOrder(S, n))
  <1> DEFINE IsListed(m) == /\ InOrder(S, m) \in Seq(1 .. m)
                         /\ {InOrder(S, m)[i] : i \in DOMAIN InOrder(S, m)} = S \cap (1 .. m)
                         /\ IsRising(InOrder(S, m))
             Bad == {m \in Nat : ~IsListed(m)}
  <1> SUFFICES ASSUME Bad # {} PROVE FALSE
    OBVIOUS
  <1>1. Bad \in SUBSET Nat
    OBVIOUS
  <1>2. PICK m \in Bad : \A j \in Bad : m <= j
    <2> HIDE DEF Bad
    <2> QED
      BY <1>1, LeastNatural
  <1>3. m # 0
    <2>1. InOrder(S, 0) = <<>> /\ <<>> \in Seq(1 .. 0) /\ 1 .. 0 = {} /\ DOMAIN <<>> = {}
      BY InOrderStep
    <2>2. IsListed(0)
      BY <2>1 DEF IsRising
    <2> HIDE DEF IsListed
    <2> QED
      BY <2>2
  <1>4. m - 1 \in Nat /\ m - 1 \notin Bad /\ (m - 1) + 1 = m
    BY <1>2, <1>3
  <1> HIDE DEF IsListed
  <1>5. PICK l, s, t : l = m - 1 /\ s = InOrder(S, l) /\ t = InOrder(S, m)
    OBVIOUS
  <1>6. IsListed(l)
    BY <1>4, <1>5
  <1>7. s \in Seq(1 .. l) /\ {s[i] : i \in DOMAIN s} = S \cap (1 .. l) /\ IsRising(s)
    BY <1>5, <1>6 DEF IsListed
  <1>8. (m \in S => t = Append(s, m)) /\ (m \notin S => t = s)
    BY <1>4, <1>5, InOrderStep
  <1>9. 1 .. m = (1 .. l) \cup {m} /\ (\A i \in 1 .. l : i < m) /\ m \in Nat /\ m = l + 1
    BY <1>4, <1>5
  <1>10. CASE m \in S
    <2>1. t = Append(s, m) /\ s \in Seq(1 .. m) /\ m \in 1 .. m
      <3>1. s \in Seq(1 .. m)
        <4>1. 1 .. l \subseteq 1 .. m
          BY <1>9
        <4> QED
          BY <1>7, <4>1, SeqMonotonic
      <3> QED
        BY <1>8, <1>9, <1>10, <3>1
    <2>2. /\ t \in Seq(1 .. m) /\ Len(s) \in Nat /\ DOMAIN s = 1 .. Len(s) /\ DOMAIN t = 1 .. Len(s) + 1
          /\ t[Len(s) + 1] = m /\ \A i \in 1 .. Len(s) : t[i] = s[i]
      BY <2>1
    <2>3. {t[i] : i \in DOMAIN t} = {s[i] : i \in DOMAIN s} \cup {m}
      <3>1. PICK e \in Nat : /\ DOMAIN s = 1 .. e /\ DOMAIN t = (DOMAIN s) \cup {e + 1}
                             /\ t[e + 1] = m /\ \A i \in 1 .. e : t[i] = s[i]
        <4>1. DOMAIN t = (DOMAIN s) \cup {Len(s) + 1}
          BY <2>2
        <4> QED
          BY <2>2, <4>1, Zenon
      <3> QED
        BY <3>1, SetByPlaces
    <2>4. {t[i] : i \in DOMAIN t} = S \cap (1 .. m)
      BY <1>7, <1>9, <1>10, <2>3
    <2>5. IsRising(t)
      <3>1. ASSUME NEW i \in DOMAIN t, NEW j \in DOMAIN t, i < j PROVE t[i] < t[j]
        <4>1. i \in 1 .. Len(s) /\ t[i] = s[i] /\ s[i] \in 1 .. l
          BY <1>7, <2>2, <3>1
        <4>2. CASE j = Len(s) + 1
          BY <1>9, <2>2, <4>1, <4>2
        <4>3. CASE j # Len(s) + 1
          <5>1. i \in DOMAIN s /\ j \in DOMAIN s /\ t[j] = s[j]
            BY <2>2, <4>1, <4>3
          <5> QED
            BY <1>7, <3>1, <4>1, <5>1 DEF IsRising
        <4> QED
          BY <4>2, <4>3
      <3> QED
        BY <3>1 DEF IsRising
    <2>6. IsListed(m)
      BY <1>5, <2>2, <2>4, <2>5 DEF IsListed
    <2> QED
      BY <1>2, <2>6
  <1>11. CASE m \notin S
    <2>1. t = s /\ s \in Seq(1 .. m)
      BY <1>7, <1>8, <1>9, <1>11
    <2>2. S \cap (1 .. l) = S \cap (1 .. m)
      BY <1>9, <1>11
    <2>3. IsListed(m)
      BY <1>5, <1>7, <2>1, <2>2 DEF IsListed
    <2> QED
      BY <1>2, <2>3
  <1> QED
    BY <1>10, <1>11

-----------------------------------------------------------------------------
(* What is in a block *)

LEMMA LinesStep ==
  ASSUME NEW t, NEW n \in Nat, NEW b, NEW names
  PROVE  /\ t[n + 1].name \in names /\ IsIn(t, b, n + 1) =>
              /\ Lines(t, n + 1, b, names) = Lines(t, n, b, names) \cup {n + 1}
              /\ In(t, n + 1, b, names) = Append(In(t, n, b, names), n + 1)
         /\ ~(t[n + 1].name \in names /\ IsIn(t, b, n + 1)) =>
              /\ Lines(t, n + 1, b, names) = Lines(t, n, b, names)
              /\ In(t, n + 1, b, names) = In(t, n, b, names)
  <1>1. PICK k, S, T : k = n + 1 /\ S = Lines(t, n, b, names) /\ T = Lines(t, k, b, names)
    OBVIOUS
  <1>2. 1 .. k = (1 .. n) \cup {k} /\ k \in 1 .. k /\ k \notin 1 .. n
    BY <1>1
  <1>3. \A j \in 1 .. k : j \in T <=> t[j].name \in names /\ IsIn(t, b, j)
    BY <1>1 DEF Lines
  <1>4. \A j \in 1 .. n : j \in S <=> t[j].name \in names /\ IsIn(t, b, j)
    BY <1>1 DEF Lines
  <1>5. S \subseteq 1 .. n /\ T \subseteq 1 .. k
    BY <1>1 DEF Lines
  <1>6. k \in T <=> t[k].name \in names /\ IsIn(t, b, k)
    BY <1>2, <1>3
  <1>7. \A j \in 1 .. n : j \in T <=> j \in S
    BY <1>2, <1>3, <1>4
  <1>8. (k \in T => T = S \cup {k}) /\ (k \notin T => T = S)
    BY <1>2, <1>5, <1>7
  <1>9. InOrder(T, n) = InOrder(S, n)
    BY <1>7, InOrderSame
  <1>10. /\ k \in T => InOrder(T, k) = Append(InOrder(S, n), k)
         /\ k \notin T => InOrder(T, k) = InOrder(S, n)
    BY <1>1, <1>9, InOrderStep
  <1> QED
    BY <1>1, <1>6, <1>8, <1>10, Zenon DEF In

LEMMA LinesAtStart ==
  ASSUME NEW t, NEW b, NEW names
  PROVE  Lines(t, 0, b, names) = {} /\ In(t, 0, b, names) = <<>>
  BY InOrderStep DEF Lines, In

LEMMA NoLinesBefore ==
  ASSUME NEW t, NEW n \in Nat, NEW b \in Nat, n <= b, NEW names
  PROVE  Lines(t, n, b, names) = {} /\ In(t, n, b, names) = <<>>
  <1>1. \A j \in 1 .. n : ~IsIn(t, b, j)
    BY DEF IsIn
  <1>2. Lines(t, n, b, names) = {}
    BY <1>1 DEF Lines
  <1>3. In(t, n, b, names) \in Seq(1 .. n) /\ {In(t, n, b, names)[i] : i \in DOMAIN In(t, n, b, names)} = {}
    BY <1>2, InOrderLists DEF In
  <1>4. PICK s : s = In(t, n, b, names)
    OBVIOUS
  <1>5. s \in Seq(1 .. n) /\ DOMAIN s = {}
    BY <1>3, <1>4
  <1>6. s = <<>>
    BY <1>5
  <1> QED
    BY <1>2, <1>4, <1>6

LEMMA InIsLines ==
  ASSUME NEW t, NEW n \in Nat, NEW b, NEW names
  PROVE  /\ In(t, n, b, names) \in Seq(1 .. n)
         /\ {In(t, n, b, names)[i] : i \in DOMAIN In(t, n, b, names)} = Lines(t, n, b, names)
         /\ IsRising(In(t, n, b, names))
  <1>1. Lines(t, n, b, names) \cap (1 .. n) = Lines(t, n, b, names)
    BY DEF Lines
  <1> QED
    BY <1>1, InOrderLists DEF In

LEMMA DepthInIsInteger ==
  ASSUME NEW t, NEW b \in Nat
  PROVE  DepthIn(t, b) \in Int /\ (b # 0 => DepthIn(t, b) = Depth(t, b) + 1 /\ Depth(t, b) \in Int)
  BY DepthIsInteger DEF DepthIn

LEMMA InsideGoesOn ==
  ASSUME NEW t, NEW b \in Nat, NEW k \in Nat, IsIn(t, b, k), ~IsOpening(t[k]), ~IsClosing(t[k])
  PROVE  IsIn(t, b, k + 1)
  <1>1. b < k /\ Depth(t, k) = DepthIn(t, b) /\ \A i \in b + 1 .. k : Depth(t, i) >= DepthIn(t, b)
    BY DEF IsIn
  <1>2. k \in Nat \ {0}
    BY <1>1
  <1>3. Depth(t, k + 1) = DepthIn(t, b)
    BY <1>1, <1>2, DepthStep
  <1>4. DepthIn(t, b) >= DepthIn(t, b)
    BY DepthInIsInteger
  <1>5. b + 1 .. k + 1 = (b + 1 .. k) \cup {k + 1} /\ b < k + 1
    BY <1>1
  <1> QED
    BY <1>1, <1>3, <1>4, <1>5, Zenon DEF IsIn

LEMMA InsideOpens ==
  ASSUME NEW t, NEW k \in Nat \ {0}, IsOpening(t[k])
  PROVE  IsIn(t, k, k + 1)
  <1>1. Depth(t, k + 1) = DepthIn(t, k)
    BY DepthStep DEF DepthIn
  <1>2. DepthIn(t, k) >= DepthIn(t, k)
    BY DepthInIsInteger
  <1>3. k + 1 .. k + 1 = {k + 1} /\ k < k + 1
    OBVIOUS
  <1> QED
    BY <1>1, <1>2, <1>3, Zenon DEF IsIn

LEMMA InsideCloses ==
  ASSUME NEW t, NEW b \in Nat, NEW c \in Nat, NEW k \in Nat, IsIn(t, b, c), IsIn(t, c, k), IsClosing(t[k])
  PROVE  IsIn(t, b, k + 1)
  <1>1. b < c /\ Depth(t, c) = DepthIn(t, b) /\ \A i \in b + 1 .. c : Depth(t, i) >= DepthIn(t, b)
    BY DEF IsIn
  <1>2. c < k /\ Depth(t, k) = DepthIn(t, c) /\ \A i \in c + 1 .. k : Depth(t, i) >= DepthIn(t, c)
    BY DEF IsIn
  <1>3. c # 0 /\ k \in Nat \ {0}
    BY <1>1, <1>2
  <1>4. DepthIn(t, b) \in Int /\ DepthIn(t, c) = DepthIn(t, b) + 1
    BY <1>1, <1>3, DepthInIsInteger
  <1>5. Depth(t, k + 1) = DepthIn(t, b)
    <2>1. Depth(t, k + 1) = Depth(t, k) - 1
      BY <1>3, DepthStep
    <2> QED
      BY <1>2, <1>4, <2>1
  <1>6. ASSUME NEW i \in b + 1 .. k + 1 PROVE Depth(t, i) >= DepthIn(t, b)
    <2>1. CASE i \in b + 1 .. c
      BY <1>1, <2>1
    <2>2. CASE i \in c + 1 .. k
      <3>1. Depth(t, i) >= DepthIn(t, c) /\ Depth(t, i) \in Int
        <4>1. i \in Nat \ {0}
          BY <1>2
        <4> QED
          BY <1>2, <2>2, <4>1, DepthIsInteger
      <3> QED
        BY <1>4, <3>1
    <2>3. CASE i = k + 1
      BY <1>4, <1>5, <2>3
    <2> QED
      BY <1>1, <1>2, <2>1, <2>2, <2>3
  <1>7. b < k + 1
    BY <1>1, <1>2
  <1> QED
    BY <1>5, <1>6, <1>7 DEF IsIn

\* A directive is in one block only.
LEMMA InsideLater ==
  ASSUME NEW t, NEW b \in Nat, NEW c \in Nat, NEW k \in Nat, IsIn(t, b, k), IsIn(t, c, k), b < c
  PROVE  FALSE
  <1>1. c < k /\ Depth(t, k) = DepthIn(t, c)
    BY DEF IsIn
  <1>2. Depth(t, k) = DepthIn(t, b) /\ \A i \in b + 1 .. k : Depth(t, i) >= DepthIn(t, b)
    BY DEF IsIn
  <1>3. c # 0 /\ c \in b + 1 .. k
    BY <1>1
  <1>4. Depth(t, c) \in Int /\ DepthIn(t, c) = Depth(t, c) + 1
    BY <1>3, DepthInIsInteger
  <1>5. Depth(t, c) >= DepthIn(t, b)
    BY <1>2, <1>3
  <1>6. DepthIn(t, b) = Depth(t, c) + 1
    BY <1>1, <1>2, <1>4
  <1>7. PICK d \in Int : d = Depth(t, c)
    BY <1>4
  <1>8. d >= d + 1
    BY <1>5, <1>6, <1>7
  <1> QED
    BY <1>8

LEMMA InsideOne ==
  ASSUME NEW t, NEW b \in Nat, NEW c \in Nat, NEW k \in Nat, IsIn(t, b, k), IsIn(t, c, k)
  PROVE  b = c
  <1>1. b < c \/ c < b \/ b = c
    OBVIOUS
  <1> QED
    BY <1>1, InsideLater

-----------------------------------------------------------------------------
(* Sequences one behind the other *)

Joins(x, y) == x \o y

IsFlat(f, ss, n) == f = [i \in 1 .. n |-> IF i = 1 THEN ss[i] ELSE Joins(f[i - 1], ss[i])]

LEMMA FlatPlaces ==
  ASSUME NEW f, NEW ss, NEW n \in Nat \ {0}, IsFlat(f, ss, n)
  PROVE  f[1] = ss[1] /\ \A k \in 2 .. n : f[k] = Joins(f[k - 1], ss[k])
  <1> DEFINE g == [i \in 1 .. n |-> IF i = 1 THEN ss[i] ELSE Joins(f[i - 1], ss[i])]
  <1>1. f = g
    BY Zenon DEF IsFlat
  <1>2. g[1] = ss[1] /\ \A k \in 2 .. n : g[k] = Joins(f[k - 1], ss[k])
    OBVIOUS
  <1> HIDE DEF g
  <1> QED
    BY <1>1, <1>2

LEMMA FlatsAgree ==
  ASSUME NEW f, NEW g, NEW ss, NEW tt, NEW n \in Nat \ {0}, NEW m \in Nat \ {0}, n <= m,
         IsFlat(f, ss, n), IsFlat(g, tt, m), \A k \in 1 .. n : ss[k] = tt[k]
  PROVE  \A k \in 1 .. n : f[k] = g[k]
  <1> DEFINE Bad == {k \in 1 .. n : f[k] # g[k]}
  <1> SUFFICES ASSUME Bad # {} PROVE FALSE
    OBVIOUS
  <1>1. Bad \in SUBSET Nat
    OBVIOUS
  <1>2. PICK k \in Bad : \A j \in Bad : k <= j
    <2> HIDE DEF Bad
    <2> QED
      BY <1>1, LeastNatural
  <1>3. f[1] = ss[1] /\ g[1] = tt[1] /\ ss[1] = tt[1]
    BY FlatPlaces
  <1>4. k \in 2 .. n /\ k \in 2 .. m /\ k - 1 \in 1 .. n /\ ~(k <= k - 1) /\ f[k] # g[k]
    BY <1>3
  <1>5. f[k - 1] = g[k - 1]
    BY <1>2, <1>4
  <1>6. f[k] = Joins(f[k - 1], ss[k])
    BY <1>4, FlatPlaces
  <1>7. g[k] = Joins(g[k - 1], tt[k])
    BY <1>4, FlatPlaces
  <1>8. ss[k] = tt[k]
    BY <1>4
  <1> QED
    BY <1>4, <1>5, <1>6, <1>7, <1>8, Zenon

LEMMA FlatExists ==
  ASSUME NEW ss, NEW n \in Nat \ {0}
  PROVE  \E f : IsFlat(f, ss, n)
  <1> DEFINE Bad == {m \in Nat : m # 0 /\ ~ \E f : IsFlat(f, ss, m)}
  <1> SUFFICES ASSUME Bad # {} PROVE FALSE
    OBVIOUS
  <1>1. Bad \in SUBSET Nat
    OBVIOUS
  <1>2. PICK m \in Bad : \A j \in Bad : m <= j
    <2> HIDE DEF Bad
    <2> QED
      BY <1>1, LeastNatural
  <1>3. m # 1
    <2> DEFINE f == [k \in 1 .. 1 |-> ss[1]]
    <2>1. f = [i \in 1 .. 1 |-> IF i = 1 THEN ss[i] ELSE Joins(f[i - 1], ss[i])]
      OBVIOUS
    <2>2. IsFlat(f, ss, 1)
      BY <2>1 DEF IsFlat
    <2> QED
      BY <2>2
  <1>4. m - 1 \in Nat \ {0} /\ m - 1 \notin Bad /\ m \in Nat \ {0, 1}
    BY <1>2, <1>3
  <1>5. PICK f : IsFlat(f, ss, m - 1)
    BY <1>4
  <1> DEFINE g == [k \in 1 .. m |-> IF k = m THEN Joins(f[m - 1], ss[m]) ELSE f[k]]
  <1>6. f[1] = ss[1] /\ \A k \in 2 .. m - 1 : f[k] = Joins(f[k - 1], ss[k])
    BY <1>4, <1>5, FlatPlaces
  <1>7. /\ g[m] = Joins(f[m - 1], ss[m])
        /\ \A k \in 1 .. m - 1 : g[k] = f[k]
        /\ DOMAIN g = 1 .. m /\ g = [k \in 1 .. m |-> g[k]]
    BY <1>4
  <1> HIDE DEF g
  <1>8. \A k \in 1 .. m : g[k] = IF k = 1 THEN ss[k] ELSE Joins(g[k - 1], ss[k])
    <2> SUFFICES ASSUME NEW k \in 1 .. m PROVE g[k] = IF k = 1 THEN ss[k] ELSE Joins(g[k - 1], ss[k])
      OBVIOUS
    <2>1. CASE k = 1
      <3>1. 1 \in 1 .. m - 1
        BY <1>4
      <3> QED
        BY <1>6, <1>7, <2>1, <3>1
    <2>2. CASE k = m
      <3>1. m - 1 \in 1 .. m - 1 /\ k # 1
        BY <1>4, <2>2
      <3>2. g[m - 1] = f[m - 1]
        BY <1>7, <3>1
      <3> QED
        BY <1>7, <2>2, <3>1, <3>2, Zenon
    <2>3. CASE k # 1 /\ k # m
      <3>1. k \in 2 .. m - 1 /\ k \in 1 .. m - 1 /\ k - 1 \in 1 .. m - 1
        BY <1>4, <2>3
      <3>2. g[k] = f[k] /\ g[k - 1] = f[k - 1]
        BY <1>7, <3>1
      <3> QED
        BY <1>6, <2>3, <3>1, <3>2, Zenon
    <2> QED
      BY <2>1, <2>2, <2>3
  <1>9. IsFlat(g, ss, m)
    BY <1>7, <1>8 DEF IsFlat
  <1> QED
    BY <1>2, <1>9

LEMMA FlatOf ==
  ASSUME NEW ss, Len(ss) \in Nat \ {0}
  PROVE  \E f : IsFlat(f, ss, Len(ss)) /\ FlattenSeq(ss) = f[Len(ss)]
  <1> DEFINE f == CHOOSE f : f = [i \in 1 .. Len(ss) |-> IF i = 1 THEN ss[i] ELSE f[i - 1] \o ss[i]]
  <1>1. IsFlat(f, ss, Len(ss))
    <2>1. PICK g : IsFlat(g, ss, Len(ss))
      BY FlatExists
    <2> QED
      BY <2>1, Zenon DEF IsFlat, Joins
  <1>2. FlattenSeq(ss) = f[Len(ss)]
    <2>1. Len(ss) # 0
      OBVIOUS
    <2> QED
      BY <2>1 DEF FlattenSeq
  <1> QED
    BY <1>1, <1>2, Zenon

LEMMA FlatIsSequence ==
  ASSUME NEW A, NEW ss \in Seq(Seq(A))
  PROVE  FlattenSeq(ss) \in Seq(A)
  <1>1. CASE Len(ss) = 0
    <2>1. ss = <<>>
      BY <1>1
    <2>2. FlattenSeq(ss) = ss
      BY <1>1 DEF FlattenSeq
    <2>3. <<>> \in Seq(A)
      OBVIOUS
    <2> QED
      BY <2>1, <2>2, <2>3, Zenon
  <1>2. CASE Len(ss) # 0
    <2>1. PICK n \in Nat \ {0} : n = Len(ss) /\ \A k \in 1 .. n : ss[k] \in Seq(A)
      BY <1>2
    <2>2. PICK f : IsFlat(f, ss, n) /\ FlattenSeq(ss) = f[n]
      BY <2>1, FlatOf
    <2> DEFINE Bad == {k \in 1 .. n : f[k] \notin Seq(A)}
    <2>3. CASE Bad = {}
      <3>1. n \in 1 .. n
        OBVIOUS
      <3> QED
        BY <2>2, <2>3, <3>1
    <2>4. CASE Bad # {}
      <3>1. Bad \in SUBSET Nat
        OBVIOUS
      <3>2. PICK k \in Bad : \A j \in Bad : k <= j
        <4> HIDE DEF Bad
        <4> QED
          BY <2>4, <3>1, LeastNatural
      <3>3. f[1] = ss[1] /\ ss[1] \in Seq(A)
        BY <2>1, <2>2, FlatPlaces
      <3>4. k \in 2 .. n /\ k - 1 \in 1 .. n /\ ~(k <= k - 1) /\ f[k] \notin Seq(A)
        BY <3>3
      <3>5. f[k - 1] \in Seq(A)
        BY <3>2, <3>4
      <3>6. f[k] = f[k - 1] \o ss[k] /\ ss[k] \in Seq(A)
        <4>1. f[k] = Joins(f[k - 1], ss[k])
          BY <2>2, <3>4, FlatPlaces
        <4> QED
          BY <2>1, <3>4, <4>1, Zenon DEF Joins
      <3>7. f[k - 1] \o ss[k] \in Seq(A)
        BY <3>5, <3>6
      <3> QED
        BY <3>4, <3>6, <3>7
    <2> QED
      BY <2>3, <2>4
  <1> QED
    BY <1>1, <1>2

LEMMA FlatOfNone == FlattenSeq(<<>>) = <<>>
  BY DEF FlattenSeq

LEMMA FlatOfMore ==
  ASSUME NEW A, NEW ss \in Seq(Seq(A)), NEW x \in Seq(A)
  PROVE  FlattenSeq(Append(ss, x)) = FlattenSeq(ss) \o x
  <1>0. PICK tt : tt = Append(ss, x)
    OBVIOUS
  <1>1. PICK n \in Nat : /\ n = Len(ss) /\ tt = Append(ss, x) /\ Len(tt) = n + 1 /\ tt[n + 1] = x
                         /\ \A k \in 1 .. n : ss[k] = tt[k]
    <2>1. /\ Len(tt) = Len(ss) + 1 /\ tt[Len(ss) + 1] = x
          /\ \A k \in 1 .. Len(ss) : tt[k] = ss[k]
      BY <1>0, AppendProperties
    <2>2. Len(ss) \in Nat
      OBVIOUS
    <2> QED
      BY <1>0, <2>1, <2>2
  <1>2. PICK g : IsFlat(g, tt, n + 1) /\ FlattenSeq(tt) = g[n + 1]
    <2>1. Len(tt) \in Nat \ {0}
      BY <1>1
    <2> QED
      BY <1>1, <2>1, FlatOf, Zenon
  <1>3. CASE n = 0
    <2>1. ss = <<>>
      BY <1>1, <1>3
    <2>2. g[1] = tt[1]
      BY <1>2, <1>3, FlatPlaces
    <2>3. FlattenSeq(tt) = x
      BY <1>1, <1>2, <1>3, <2>2
    <2>4. <<>> \o x = x
      OBVIOUS
    <2> QED
      BY <1>1, <2>1, <2>3, <2>4, FlatOfNone, Zenon
  <1>4. CASE n # 0
    <2>1. PICK f : IsFlat(f, ss, n) /\ FlattenSeq(ss) = f[n]
      BY <1>1, <1>4, FlatOf
    <2>2. n \in Nat \ {0} /\ n + 1 \in Nat \ {0} /\ n <= n + 1 /\ n \in 1 .. n /\ n + 1 \in 2 .. n + 1 /\ (n + 1) - 1 = n
      BY <1>4
    <2>3. f[n] = g[n]
      <3>1. \A k \in 1 .. n : ss[k] = tt[k]
        BY <1>1
      <3>2. \A k \in 1 .. n : f[k] = g[k]
        BY <1>2, <2>1, <2>2, <3>1, FlatsAgree
      <3> QED
        BY <2>2, <3>2
    <2>4. g[n + 1] = Joins(g[(n + 1) - 1], tt[n + 1])
      BY <1>2, <2>2, FlatPlaces
    <2> QED
      BY <1>1, <1>2, <2>1, <2>2, <2>3, <2>4, Zenon DEF Joins
  <1> QED
    BY <1>3, <1>4

-----------------------------------------------------------------------------
(* What a directive says is something *)

LEMMA TextPlaces ==
  ASSUME NEW t, IsText(t)
  PROVE  /\ Len(t) \in Nat /\ DOMAIN t = 1 .. Len(t)
         /\ \A k \in 1 .. Len(t) : IsDirective(t[k])
         /\ \A k \in 1 .. Len(t) :
              /\ IsSequence(t[k].args) /\ Len(t[k].args) \in Nat /\ DOMAIN t[k].args = 1 .. Len(t[k].args)
              /\ \A i \in DOMAIN t[k].args : t[k].args[i] # None
              /\ t[k].args # <<>> => 1 \in DOMAIN t[k].args
              /\ t[k].name = "set" => DOMAIN t[k].args = 1 .. 2
  <1>1. Len(t) \in Nat /\ DOMAIN t = 1 .. Len(t)
    BY SequenceHasPlaces DEF IsText
  <1>2. \A k \in 1 .. Len(t) : IsDirective(t[k])
    BY <1>1 DEF IsText
  <1>3. ASSUME NEW k \in 1 .. Len(t)
        PROVE  /\ IsSequence(t[k].args) /\ Len(t[k].args) \in Nat /\ DOMAIN t[k].args = 1 .. Len(t[k].args)
               /\ \A i \in DOMAIN t[k].args : t[k].args[i] # None
               /\ t[k].args # <<>> => 1 \in DOMAIN t[k].args
               /\ t[k].name = "set" => DOMAIN t[k].args = 1 .. 2
    <2>1. PICK a : a = t[k].args
      OBVIOUS
    <2>2. IsSequence(a) /\ (\A i \in DOMAIN a : a[i] # None) /\ (t[k].name = "set" => Len(a) = 2)
      BY <1>2, <2>1 DEF IsDirective
    <2>3. Len(a) \in Nat /\ DOMAIN a = 1 .. Len(a)
      BY <2>2, SequenceHasPlaces
    <2>4. a # <<>> => 1 \in DOMAIN a
      BY <2>2, <2>3 DEF IsSequence
    <2>5. t[k].name = "set" => DOMAIN a = 1 .. 2
      BY <2>2, <2>3
    <2> QED
      BY <2>1, <2>2, <2>3, <2>4, <2>5
  <1> QED
    BY <1>1, <1>2, <1>3

LEMMA SaidNotNone ==
  ASSUME NEW t, IsText(t), NEW k \in 1 .. Len(t), NEW i \in DOMAIN t[k].args
  PROVE  Values(t, k)[i] # None
  <1> DEFINE n == Len(t)
             f == Said(t)
             Bad == {j \in 1 .. n : \E l \in DOMAIN t[j].args : f[j][l] = None}
  <1> SUFFICES ASSUME Bad # {} PROVE FALSE
    BY DEF Values
  <1>1. n \in Nat /\ \A j \in 1 .. n : f[j] = SaidBy(t, f, j)
    BY TextPlaces, SaidSays
  <1>2. /\ \A j \in 1 .. n : \A l \in DOMAIN t[j].args : t[j].args[l] # None
        /\ \A j \in 1 .. n : t[j].name = "set" => 2 \in DOMAIN t[j].args
    <2>1. ASSUME NEW j \in 1 .. n, NEW l \in DOMAIN t[j].args PROVE t[j].args[l] # None
      BY TextPlaces
    <2>2. ASSUME NEW j \in 1 .. n, t[j].name = "set" PROVE 2 \in DOMAIN t[j].args
      <3>1. DOMAIN t[j].args = 1 .. 2
        BY <2>2, TextPlaces
      <3> QED
        BY <3>1
    <2> QED
      BY <2>1, <2>2
  <1> HIDE DEF n, f
  <1>3. Bad \in SUBSET Nat
    OBVIOUS
  <1>4. PICK j \in Bad : \A m \in Bad : j <= m
    <2> HIDE DEF Bad
    <2> QED
      BY <1>3, LeastNatural
  <1>5. j \in 1 .. n /\ j \in Nat \ {0}
    OBVIOUS
  <1>6. PICK l \in DOMAIN t[j].args : f[j][l] = None
    OBVIOUS
  <1>7. f[j][l] = ValueBy(t, f, j, t[j].args[l])
    BY <1>1, <1>5 DEF SaidBy
  <1>8. t[j].args[l] # None
    BY <1>2, <1>5
  <1> DEFINE sets == {m \in 1 .. j - 1 : IsSeen(t, m, j) /\ f[m][1] = VarOf[t[j].args[l]]}
  <1>9. sets # {} /\ f[Max(sets)][2] = None
    BY <1>6, <1>7, <1>8 DEF ValueBy
  <1>10. Max(sets) \in sets
    <2>1. sets \in SUBSET (1 .. j - 1)
      OBVIOUS
    <2> HIDE DEF sets
    <2> QED
      BY <1>5, <1>9, <2>1, GreatestOf
  <1>11. PICK m \in 1 .. j - 1 : m = Max(sets) /\ t[m].name = "set"
    BY <1>10 DEF IsSeen
  <1>12. m \in 1 .. n /\ 2 \in DOMAIN t[m].args /\ f[m][2] = None /\ ~(j <= m)
    <2>1. f[m][2] = None
      BY <1>9, <1>11
    <2>2. m \in 1 .. n /\ ~(j <= m)
      BY <1>1, <1>5
    <2> QED
      BY <1>2, <1>11, <2>1, <2>2
  <1>13. m \in Bad
    BY <1>12
  <1> QED
    BY <1>4, <1>12, <1>13

LEMMA SingleNotNone ==
  ASSUME NEW t, IsText(t), NEW k \in 1 .. Len(t), t[k].name # None
  PROVE  SingleOf(t, k) # None
  <1>1. CASE t[k].args = <<>>
    BY <1>1 DEF SingleOf
  <1>2. CASE t[k].args # <<>>
    <2>1. 1 \in DOMAIN t[k].args /\ t[k].args[1] # None
      BY <1>2, TextPlaces
    <2>2. Values(t, k)[1] # None
      BY <2>1, SaidNotNone
    <2> QED
      BY <1>2, <2>1, <2>2 DEF SingleOf
  <1> QED
    BY <1>1, <1>2

-----------------------------------------------------------------------------
(* One directive more, or none, in a block *)

Adds(t, n, b, names) == t[n + 1].name \in names /\ IsIn(t, b, n + 1)

LEMMA NotAdded ==
  ASSUME NEW t, NEW n \in Nat, NEW b, NEW names, ~Adds(t, n, b, names)
  PROVE  Lines(t, n + 1, b, names) = Lines(t, n, b, names) /\ In(t, n + 1, b, names) = In(t, n, b, names)
  <1>1. ~(t[n + 1].name \in names /\ IsIn(t, b, n + 1))
    BY DEF Adds
  <1> QED
    BY <1>1, LinesStep

LEMMA OneSame ==
  ASSUME NEW t, NEW n \in Nat, NEW b, NEW names, ~Adds(t, n, b, names)
  PROVE  One(t, n + 1, b, names) = One(t, n, b, names)
  <1>1. Lines(t, n + 1, b, names) = Lines(t, n, b, names)
    BY NotAdded
  <1> QED
    BY <1>1, Zenon DEF One

LEMMA LastOfSame ==
  ASSUME NEW t, NEW n \in Nat, NEW b, NEW name, ~Adds(t, n, b, {name})
  PROVE  LastOf(t, n + 1, b, name) = LastOf(t, n, b, name)
  <1>1. Lines(t, n + 1, b, {name}) = Lines(t, n, b, {name})
    BY NotAdded
  <1> QED
    BY <1>1, Zenon DEF LastOf

LEMMA ContentLinesSame ==
  ASSUME NEW t, NEW n \in Nat, NEW b, ~Adds(t, n, b, ContentLines)
  PROVE  \A names \in {ContentLines, {"proxy"}, {"proxy_header"}} :
           Lines(t, n + 1, b, names) = Lines(t, n, b, names) /\ In(t, n + 1, b, names) = In(t, n, b, names)
  <1>1. \A names \in {ContentLines, {"proxy"}, {"proxy_header"}} : ~Adds(t, n, b, names)
    BY DEF Adds, ContentLines
  <1> TAKE names \in {ContentLines, {"proxy"}, {"proxy_header"}}
  <1>2. ~Adds(t, n, b, names)
    BY <1>1
  <1> QED
    BY <1>2, NotAdded

LEMMA ContentSame ==
  ASSUME NEW t, NEW n \in Nat, NEW b, ~Adds(t, n, b, ContentLines)
  PROVE  /\ ContentOf(t, n + 1, b) = ContentOf(t, n, b)
         /\ SaysOneThing(t, n + 1, b) <=> SaysOneThing(t, n, b)
  <1>1. /\ Lines(t, n + 1, b, ContentLines) = Lines(t, n, b, ContentLines)
        /\ In(t, n + 1, b, ContentLines) = In(t, n, b, ContentLines)
        /\ Lines(t, n + 1, b, {"proxy"}) = Lines(t, n, b, {"proxy"})
        /\ Lines(t, n + 1, b, {"proxy_header"}) = Lines(t, n, b, {"proxy_header"})
    BY ContentLinesSame
  <1>2. LastOf(t, n + 1, b, "proxy_header") = LastOf(t, n, b, "proxy_header")
    BY <1>1, Zenon DEF LastOf
  <1>3. KindsOf(t, n + 1, b) = KindsOf(t, n, b)
    BY <1>1, Zenon DEF KindsOf
  <1>4. ContentOf(t, n + 1, b) = ContentOf(t, n, b)
    BY <1>1, <1>2, <1>3, Zenon DEF ContentOf
  <1>5. SaysOneThing(t, n + 1, b) <=> SaysOneThing(t, n, b)
    BY <1>1, <1>3, Zenon DEF SaysOneThing
  <1> QED
    BY <1>4, <1>5

LEMMA PagesSame ==
  ASSUME NEW t, NEW n \in Nat, NEW b, ~Adds(t, n, b, {"error_page"})
  PROVE  PagesOf(t, n + 1, b) = PagesOf(t, n, b)
  <1>1. Lines(t, n + 1, b, {"error_page"}) = Lines(t, n, b, {"error_page"})
    BY NotAdded
  <1> QED
    BY <1>1, Zenon DEF PagesOf

LEMMA DomainsSame ==
  ASSUME NEW t, NEW n \in Nat, NEW b, ~Adds(t, n, b, {"domain"})
  PROVE  DomainsOf(t, n + 1, b) = DomainsOf(t, n, b)
  <1>1. In(t, n + 1, b, {"domain"}) = In(t, n, b, {"domain"})
    BY NotAdded
  <1> QED
    BY <1>1, Zenon DEF DomainsOf

LEMMA MembersSame ==
  ASSUME NEW t, NEW n \in Nat, NEW b, ~Adds(t, n, b, {"server"})
  PROVE  MembersOf(t, n + 1, b) = MembersOf(t, n, b)
  <1>1. In(t, n + 1, b, {"server"}) = In(t, n, b, {"server"})
    BY NotAdded
  <1> QED
    BY <1>1, Zenon DEF MembersOf

LEMMA NotInside ==
  ASSUME NEW t, NEW n, NEW b, ~IsIn(t, b, n + 1)
  PROVE  \A names : ~Adds(t, n, b, names)
  BY DEF Adds

LEMMA PlacesAreLines ==
  ASSUME NEW t, NEW n \in Nat, NEW b, NEW names, NEW p, p = In(t, n, b, names)
  PROVE  /\ p \in Seq(1 .. n) /\ Len(p) \in Nat /\ DOMAIN p = 1 .. Len(p)
         /\ \A k \in DOMAIN p : p[k] \in Lines(t, n, b, names)
         /\ \A j \in Lines(t, n, b, names) : \E k \in DOMAIN p : p[k] = j
         /\ IsRising(p)
  <1>1. /\ In(t, n, b, names) \in Seq(1 .. n)
        /\ {In(t, n, b, names)[i] : i \in DOMAIN In(t, n, b, names)} = Lines(t, n, b, names)
        /\ IsRising(In(t, n, b, names))
    BY InIsLines
  <1>2. p \in Seq(1 .. n) /\ {p[i] : i \in DOMAIN p} = Lines(t, n, b, names) /\ IsRising(p)
    BY <1>1, Zenon
  <1> QED
    BY <1>2

\* A block that the next directive is not in says what it said.
LEMMA RouteSame ==
  ASSUME NEW t, NEW n \in Nat, NEW b, ~IsIn(t, b, n + 1)
  PROVE  RouteOf(t, n + 1, b) = RouteOf(t, n, b)
  <1>1. /\ ContentOf(t, n + 1, b) = ContentOf(t, n, b)
        /\ LastOf(t, n + 1, b, "header") = LastOf(t, n, b, "header")
        /\ One(t, n + 1, b, {"status"}) = One(t, n, b, {"status"})
        /\ One(t, n + 1, b, {"default_content_type"}) = One(t, n, b, {"default_content_type"})
    BY NotInside, ContentSame, LastOfSame, OneSame
  <1> QED
    BY <1>1, Zenon DEF RouteOf

LEMMA GroupSame ==
  ASSUME NEW t, NEW n \in Nat, NEW b, ~IsIn(t, b, n + 1)
  PROVE  GroupOf(t, n + 1, b) = GroupOf(t, n, b)
  <1>1. \A names : One(t, n + 1, b, names) = One(t, n, b, names)
    BY NotInside, OneSame
  <1>2. MembersOf(t, n + 1, b) = MembersOf(t, n, b)
    BY NotInside, MembersSame
  <1> QED
    BY <1>1, <1>2, Zenon DEF GroupOf

LEMMA RoutesSame ==
  ASSUME NEW t, NEW n \in Nat, NEW b, ~Adds(t, n, b, {"route"}),
         \A r \in Lines(t, n, b, {"route"}) : ~IsIn(t, r, n + 1)
  PROVE  RoutesOf(t, n + 1, b) = RoutesOf(t, n, b)
  <1>1. PICK p : p = In(t, n, b, {"route"}) /\ p = In(t, n + 1, b, {"route"})
    BY NotAdded
  <1>2. \A k \in DOMAIN p : p[k] \in Lines(t, n, b, {"route"})
    BY <1>1, PlacesAreLines
  <1>3. \A k \in DOMAIN p : RouteOf(t, n + 1, p[k]) = RouteOf(t, n, p[k])
    BY <1>2, RouteSame
  <1>4. [k \in DOMAIN p |-> RouteOf(t, n + 1, p[k])] = [k \in DOMAIN p |-> RouteOf(t, n, p[k])]
    BY <1>3
  <1> QED
    BY <1>1, <1>4, Zenon DEF RoutesOf

LEMMA ServerSame ==
  ASSUME NEW t, NEW n \in Nat, NEW b, ~IsIn(t, b, n + 1),
         \A r \in Lines(t, n, b, {"route"}) : ~IsIn(t, r, n + 1)
  PROVE  ServerOf(t, n + 1, b) = ServerOf(t, n, b)
  <1>1. \A names : One(t, n + 1, b, names) = One(t, n, b, names)
    BY NotInside, OneSame
  <1>2. /\ DomainsOf(t, n + 1, b) = DomainsOf(t, n, b)
        /\ RoutesOf(t, n + 1, b) = RoutesOf(t, n, b)
        /\ PagesOf(t, n + 1, b) = PagesOf(t, n, b)
    BY NotInside, DomainsSame, RoutesSame, PagesSame
  <1> QED
    BY <1>1, <1>2, Zenon DEF ServerOf

-----------------------------------------------------------------------------
(* A block that takes one more directive *)

LEMMA LinesAdded ==
  ASSUME NEW t, NEW n \in Nat, NEW b, NEW names, Adds(t, n, b, names)
  PROVE  /\ Lines(t, n + 1, b, names) = Lines(t, n, b, names) \cup {n + 1}
         /\ In(t, n + 1, b, names) = Append(In(t, n, b, names), n + 1)
  <1>1. t[n + 1].name \in names /\ IsIn(t, b, n + 1)
    BY DEF Adds
  <1> QED
    BY <1>1, LinesStep

LEMMA LinesAreBelow ==
  ASSUME NEW t, NEW n \in Nat, NEW b, NEW names
  PROVE  Lines(t, n, b, names) \in SUBSET (1 .. n) /\ \A j \in Lines(t, n, b, names) : t[j].name \in names
  BY DEF Lines

\* The greatest of some places and a later one.
LEMMA MaxWithLast ==
  ASSUME NEW n \in Nat, NEW S \in SUBSET (1 .. n)
  PROVE  Max(S \cup {n + 1}) = n + 1
  <1> DEFINE T == S \cup {n + 1}
  <1>1. \A x \in T : (\A y \in T : x >= y) <=> x = n + 1
    OBVIOUS
  <1>2. n + 1 \in T
    OBVIOUS
  <1> HIDE DEF T
  <1>3. (CHOOSE x \in T : \A y \in T : x >= y) = n + 1
    BY <1>1, <1>2
  <1> QED
    BY <1>3, Zenon DEF Max, T

LEMMA MinOfOne ==
  ASSUME NEW k \in Int
  PROVE  Min({k}) = k
  <1>1. \A x \in {k} : (\A y \in {k} : x <= y) <=> x = k
    OBVIOUS
  <1>2. (CHOOSE x \in {k} : \A y \in {k} : x <= y) = k
    BY <1>1
  <1> QED
    BY <1>2, Zenon DEF Min

LEMMA OneIsGiven ==
  ASSUME NEW t, IsText(t), NEW n \in Nat, n <= Len(t), NEW b, NEW names, None \notin names,
         One(t, n, b, names) = None
  PROVE  Lines(t, n, b, names) = {}
  <1> DEFINE S == Lines(t, n, b, names)
  <1> SUFFICES ASSUME S # {} PROVE FALSE
    OBVIOUS
  <1>1. SingleOf(t, Min(S)) = None
    BY Zenon DEF One
  <1>2. S \in SUBSET (1 .. n) /\ \A j \in S : t[j].name \in names
    BY LinesAreBelow
  <1> HIDE DEF S
  <1>3. Min(S) \in S
    <2>1. S \in SUBSET Nat
      BY <1>2
    <2>2. \E x \in S : \A y \in S : x <= y
      BY <2>1, LeastNatural
    <2> QED
      BY <2>2, Zenon DEF Min
  <1>4. PICK j \in 1 .. n : j = Min(S) /\ t[j].name \in names
    BY <1>2, <1>3
  <1>5. j \in 1 .. Len(t) /\ t[j].name # None
    BY <1>4, TextPlaces
  <1>6. SingleOf(t, j) # None
    BY <1>5, SingleNotNone
  <1> QED
    BY <1>1, <1>4, <1>6

LEMMA OneTakes ==
  ASSUME NEW t, IsText(t), NEW n \in Nat, n <= Len(t), NEW b, NEW names, None \notin names,
         One(t, n, b, names) = None, Adds(t, n, b, names)
  PROVE  One(t, n + 1, b, names) = SingleOf(t, n + 1)
  <1>1. Lines(t, n, b, names) = {}
    BY OneIsGiven
  <1>0. Lines(t, n + 1, b, names) = Lines(t, n, b, names) \cup {n + 1}
    BY LinesAdded
  <1>2. Lines(t, n + 1, b, names) = {} \cup {n + 1}
    BY <1>0, <1>1, Zenon
  <1>3. Lines(t, n + 1, b, names) = {n + 1} /\ n + 1 \in Int
    BY <1>2
  <1>4. Min({n + 1}) = n + 1
    BY <1>3, MinOfOne
  <1>5. Lines(t, n + 1, b, names) # {}
    BY <1>3
  <1> QED
    BY <1>3, <1>4, <1>5, Zenon DEF One

\* A key that is given once more has the value that is given last.
LEMMA LastOfTakes ==
  ASSUME NEW t, NEW n \in Nat, NEW b, NEW name, Adds(t, n, b, {name})
  PROVE  LastOf(t, n + 1, b, name) = Put(LastOf(t, n, b, name), Values(t, n + 1)[1], Values(t, n + 1)[2])
  <1> DEFINE S == Lines(t, n, b, {name})
             Key(j) == Values(t, j)[1]
             Value(j) == Values(t, j)[2]
             Latest(X, key) == Value(Max({j \in X : Key(j) = key}))
  <1>1. PICK k : k = n + 1
    OBVIOUS
  <1>2. S \in SUBSET (1 .. n)
    BY LinesAreBelow
  <1>3. Lines(t, k, b, {name}) = S \cup {k}
    BY <1>1, LinesAdded
  <1>4. LastOf(t, n, b, name) = [key \in {Key(j) : j \in S} |-> Latest(S, key)]
    BY DEF LastOf
  <1>5. LastOf(t, k, b, name) = [key \in {Key(j) : j \in S \cup {k}} |-> Latest(S \cup {k}, key)]
    BY <1>3, Zenon DEF LastOf
  <1> HIDE DEF S
  <1>6. {Key(j) : j \in S \cup {k}} = {Key(k)} \cup {Key(j) : j \in S}
    OBVIOUS
  <1>7. Latest(S \cup {k}, Key(k)) = Value(k)
    <2>1. PICK R : R = {j \in S : Key(j) = Key(k)}
      OBVIOUS
    <2>2. {j \in S \cup {k} : Key(j) = Key(k)} = R \cup {k} /\ R \in SUBSET (1 .. n)
      BY <1>2, <2>1
    <2>3. Max(R \cup {k}) = k
      BY <1>1, <2>2, MaxWithLast
    <2> QED
      BY <2>2, <2>3, Zenon
  <1>8. ASSUME NEW key, key # Key(k) PROVE Latest(S \cup {k}, key) = Latest(S, key)
    <2>1. {j \in S \cup {k} : Key(j) = key} = {j \in S : Key(j) = key}
      BY <1>8
    <2> QED
      BY <2>1, Zenon
  <1> HIDE DEF Key, Value, Latest
  <1>9. PICK f, g : f = LastOf(t, n, b, name) /\ g = LastOf(t, k, b, name)
    OBVIOUS
  <1>10. DOMAIN f = {Key(j) : j \in S} /\ \A key \in DOMAIN f : f[key] = Latest(S, key)
    BY <1>4, <1>9
  <1>11. g = [key \in {Key(k)} \cup DOMAIN f |-> Latest(S \cup {k}, key)]
    BY <1>5, <1>6, <1>9, <1>10, Zenon
  <1>12. \A key \in {Key(k)} \cup DOMAIN f :
           Latest(S \cup {k}, key) = IF key = Key(k) THEN Value(k) ELSE f[key]
    BY <1>7, <1>8, <1>10
  <1>13. g = [key \in {Key(k)} \cup DOMAIN f |-> IF key = Key(k) THEN Value(k) ELSE f[key]]
    BY <1>11, <1>12
  <1> QED
    BY <1>1, <1>9, <1>13, Zenon DEF Put, Key, Value

-----------------------------------------------------------------------------
(* Lists of a block *)

LEMMA MapMore ==
  ASSUME NEW n, NEW p \in Seq(n), NEW k, NEW f
  PROVE  [i \in DOMAIN Append(p, k) |-> f[Append(p, k)[i]]] = Append([i \in DOMAIN p |-> f[p[i]]], f[k])
  <1> DEFINE m == Len(p)
             q == Append(p, k)
             g == [i \in DOMAIN p |-> f[p[i]]]
  <1>1. p \in Seq(n \cup {k})
    BY SeqMonotonic
  <1>2. m \in Nat /\ DOMAIN p = 1 .. m /\ DOMAIN q = 1 .. m + 1 /\ q[m + 1] = k /\ \A i \in 1 .. m : q[i] = p[i]
    BY <1>1
  <1> HIDE DEF q
  <1>3. IsSequence(g) /\ Len(g) = m
    <2>1. g \in [1 .. m -> {f[p[i]] : i \in 1 .. m}]
      BY <1>2
    <2>2. g \in Seq({f[p[i]] : i \in 1 .. m}) /\ Len(g) = m
      BY <1>2, <2>1
    <2> QED
      BY <2>2, SequenceOfItsElements
  <1>4. PICK h : h = Append(g, f[k])
    OBVIOUS
  <1>5. IsSequence(h) /\ DOMAIN h = 1 .. m + 1 /\ h[m + 1] = f[k] /\ \A i \in 1 .. m : h[i] = g[i]
    BY <1>3, <1>4, SequenceHasPlaces, AppendIsSequence
  <1>6. h = [i \in 1 .. m + 1 |-> h[i]]
    BY <1>5 DEF IsSequence
  <1>7. \A i \in 1 .. m + 1 : h[i] = f[q[i]]
    <2>1. \A i \in 1 .. m : g[i] = f[p[i]]
      BY <1>2
    <2> HIDE DEF g
    <2>2. \A i \in 1 .. m + 1 : i \in 1 .. m \/ i = m + 1
      BY <1>2
    <2> QED
      BY <1>2, <1>5, <2>1, <2>2, Zenon
  <1>8. h = [i \in 1 .. m + 1 |-> f[q[i]]]
    BY <1>6, <1>7
  <1> QED
    BY <1>2, <1>4, <1>8, Zenon DEF q

\* What f has at the places in p.
At(f, p) == [i \in DOMAIN p |-> f[p[i]]]
AreSequences(f, S, A) == \A j \in S : f[j] \in Seq(A)

LEMMA FlatMore ==
  ASSUME NEW A, NEW N, NEW p \in Seq(N), NEW k, NEW f, AreSequences(f, N, A), f[k] \in Seq(A)
  PROVE  FlattenSeq(At(f, Append(p, k))) = Joins(FlattenSeq(At(f, p)), f[k]) /\ FlattenSeq(At(f, p)) \in Seq(A)
  <1> DEFINE g == [i \in DOMAIN p |-> f[p[i]]]
  <1>1. [i \in DOMAIN Append(p, k) |-> f[Append(p, k)[i]]] = Append(g, f[k])
    BY MapMore
  <1>2. g \in Seq(Seq(A)) /\ f[k] \in Seq(A)
    <2>1. PICK m \in Nat : DOMAIN p = 1 .. m /\ \A i \in 1 .. m : p[i] \in N
      OBVIOUS
    <2>2. g \in [1 .. m -> Seq(A)]
      BY <2>1 DEF AreSequences
    <2> QED
      BY <2>2
  <1> HIDE DEF g
  <1>3. FlattenSeq(Append(g, f[k])) = FlattenSeq(g) \o f[k]
    BY <1>2, FlatOfMore
  <1>4. FlattenSeq(g) \in Seq(A)
    BY <1>2, FlatIsSequence
  <1> QED
    BY <1>1, <1>3, <1>4, Zenon DEF g, At, Joins

-----------------------------------------------------------------------------
(* What a route says *)

Proxying == {"proxy", "proxy_header"}

LEMMA NoKeysNoMap == \A f : DOMAIN f = {} /\ IsSequence(f) => f = <<>>
  <1> SUFFICES ASSUME NEW f, DOMAIN f = {}, IsSequence(f) PROVE f = <<>>
    OBVIOUS
  <1> QED
    BY DEF IsSequence

LEMMA LastOfNone ==
  ASSUME NEW t, NEW n, NEW b, NEW name, Lines(t, n, b, {name}) = {}
  PROVE  LastOf(t, n, b, name) = Empty
  <1>1. PICK f : f = LastOf(t, n, b, name)
    OBVIOUS
  <1>2. {Values(t, j)[1] : j \in Lines(t, n, b, {name})} = {}
    OBVIOUS
  <1>3. f = [key \in {} |-> Values(t, Max({j \in Lines(t, n, b, {name}) : Values(t, j)[1] = key}))[2]]
    BY <1>1, <1>2, Zenon DEF LastOf
  <1>4. f = [key \in 1 .. 0 |-> key] /\ DOMAIN f = {}
    BY <1>3
  <1>5. f \in [1 .. 0 -> {}]
    BY <1>4
  <1>6. f \in Seq({}) /\ Len(f) = 0
    BY <1>5
  <1>7. f = <<>>
    BY <1>6
  <1> QED
    BY <1>1, <1>7 DEF Empty

LEMMA FlatOfNothing ==
  ASSUME NEW f, NEW p, p = <<>>
  PROVE  FlattenSeq(At(f, p)) = <<>>
  <1>1. PICK g : g = [i \in DOMAIN p |-> f[p[i]]]
    OBVIOUS
  <1>2. g = <<>>
    BY <1>1
  <1> QED
    BY <1>1, <1>2, FlatOfNone, Zenon DEF At

\* The content is nothing, that of a proxy, or that of one other kind.
IsSaid(t, n, b, c, K) ==
  /\ K = {} => c = NoContent /\ Lines(t, n, b, ContentLines) = {}
  /\ K # {} /\ K \subseteq Proxying =>
       /\ c.kind = "proxy"
       /\ Lines(t, n, b, {"proxy"}) = {} => c.value = <<"">>
       /\ Lines(t, n, b, {"proxy"}) # {} => c.value = Values(t, Max(Lines(t, n, b, {"proxy"})))
       /\ c.headers = LastOf(t, n, b, "proxy_header")
  /\ ~(K \subseteq Proxying) =>
       /\ K = {c.kind} /\ c.kind \in Contents \cup {"file"}
       /\ c.value = FlattenSeq(At(Said(t), In(t, n, b, ContentLines)))

LEMMA ContentCases ==
  ASSUME NEW t, NEW n \in Nat, NEW b, SaysOneThing(t, n, b)
  PROVE  IsSaid(t, n, b, ContentOf(t, n, b), KindsOf(t, n, b))
  <1>0. PICK c, K : c = ContentOf(t, n, b) /\ K = KindsOf(t, n, b)
    OBVIOUS
  <1>1. K = {t[j].name : j \in Lines(t, n, b, ContentLines)}
    BY <1>0 DEF KindsOf
  <1> SUFFICES IsSaid(t, n, b, c, K)
    BY <1>0
  <1>2. CASE K = {}
    <2>1. c = NoContent
      BY <1>0, <1>2 DEF ContentOf
    <2>2. Lines(t, n, b, ContentLines) = {}
      BY <1>1, <1>2
    <2> QED
      BY <1>2, <2>1, <2>2 DEF IsSaid
  <1>3. CASE K # {} /\ K \subseteq Proxying
    <2>1. c = [kind |-> "proxy",
               value |-> IF Lines(t, n, b, {"proxy"}) = {} THEN <<"">> ELSE Values(t, Max(Lines(t, n, b, {"proxy"}))),
               headers |-> LastOf(t, n, b, "proxy_header")]
      BY <1>0, <1>3, Zenon DEF ContentOf, Proxying
    <2>2. PICK v, h : /\ v = (IF Lines(t, n, b, {"proxy"}) = {} THEN <<"">>
                             ELSE Values(t, Max(Lines(t, n, b, {"proxy"}))))
                      /\ h = LastOf(t, n, b, "proxy_header")
      OBVIOUS
    <2>3. c = [kind |-> "proxy", value |-> v, headers |-> h]
      BY <2>1, <2>2, Zenon
    <2>4. c.kind = "proxy" /\ c.value = v /\ c.headers = h
      BY <2>3
    <2>5. /\ Lines(t, n, b, {"proxy"}) = {} => v = <<"">>
          /\ Lines(t, n, b, {"proxy"}) # {} => v = Values(t, Max(Lines(t, n, b, {"proxy"})))
      BY <2>2, Zenon
    <2> QED
      BY <1>3, <2>2, <2>4, <2>5, Zenon DEF IsSaid
  <1>4. CASE ~(K \subseteq Proxying)
    <2>1. PICK p : p = In(t, n, b, ContentLines)
      OBVIOUS
    <2>2. PICK kind : K = {kind}
      BY <1>0, <1>4 DEF SaysOneThing, Proxying
    <2>3. c = [kind |-> t[p[1]].name, value |-> FlattenSeq([k \in DOMAIN p |-> Values(t, p[k])]), headers |-> Empty]
      <3>1. K # {}
        BY <2>2
      <3> QED
        BY <1>0, <1>4, <2>1, <3>1, Zenon DEF ContentOf, Proxying
    <2>4. t[p[1]].name = kind
      <3>1. PICK j \in Lines(t, n, b, ContentLines) : t[j].name = kind
        BY <1>1, <2>2
      <3>2. /\ p \in Seq(1 .. n) /\ Len(p) \in Nat /\ DOMAIN p = 1 .. Len(p)
            /\ \A k \in DOMAIN p : p[k] \in Lines(t, n, b, ContentLines)
            /\ \A i \in Lines(t, n, b, ContentLines) : \E k \in DOMAIN p : p[k] = i
            /\ IsRising(p)
        BY <2>1, PlacesAreLines
      <3>3. 1 \in DOMAIN p
        BY <3>1, <3>2
      <3>4. p[1] \in Lines(t, n, b, ContentLines)
        BY <3>2, <3>3
      <3>5. t[p[1]].name \in K
        BY <1>1, <3>4
      <3> QED
        BY <2>2, <3>5
    <2>5. kind \in ContentLines
      <3>1. \A j \in Lines(t, n, b, ContentLines) : t[j].name \in ContentLines
        BY DEF Lines
      <3> QED
        BY <1>1, <2>2, <3>1
    <2>6. kind \in Contents \cup {"file"}
      BY <1>4, <2>2, <2>5 DEF Proxying, ContentLines
    <2>7. c.kind = kind /\ c.value = FlattenSeq([k \in DOMAIN p |-> Values(t, p[k])])
      BY <2>3, <2>4
    <2>8. c.value = FlattenSeq(At(Said(t), In(t, n, b, ContentLines)))
      BY <2>1, <2>7, Zenon DEF At, Values
    <2> QED
      BY <1>4, <2>2, <2>6, <2>7, <2>8 DEF IsSaid
  <1> QED
    BY <1>2, <1>3, <1>4

\* The value of a directive is a sequence.
ValuesIn(t) == {Values(t, j)[i] : j \in 1 .. Len(t), i \in Nat}

LEMMA ValuesAreSequences ==
  ASSUME NEW t, IsText(t), NEW k \in 1 .. Len(t)
  PROVE  /\ Values(t, k) \in Seq(ValuesIn(t)) /\ DOMAIN Values(t, k) = DOMAIN t[k].args
         /\ Len(Values(t, k)) = Len(t[k].args)
  <1>1. Values(t, k) = SaidBy(t, Said(t), k)
    BY TextPlaces, SaidSays DEF Values
  <1>2. PICK m \in Nat : m = Len(t[k].args) /\ DOMAIN t[k].args = 1 .. m
    BY TextPlaces
  <1>3. PICK v : v = Values(t, k)
    OBVIOUS
  <1>4. v = [i \in 1 .. m |-> ValueBy(t, Said(t), k, t[k].args[i])]
    BY <1>1, <1>2, <1>3, Zenon DEF SaidBy
  <1>5. \A i \in 1 .. m : v[i] \in ValuesIn(t)
    BY <1>3 DEF ValuesIn
  <1>6. v \in [1 .. m -> ValuesIn(t)]
    BY <1>4, <1>5
  <1>7. v \in Seq(ValuesIn(t)) /\ Len(v) = m /\ DOMAIN v = 1 .. m
    BY <1>6
  <1> QED
    BY <1>2, <1>3, <1>7

\* One more line of a route's content.
OtherSame(t, n, b, name) ==
  \A kind : name # kind =>
    Lines(t, n + 1, b, {kind}) = Lines(t, n, b, {kind}) /\ LastOf(t, n + 1, b, kind) = LastOf(t, n, b, kind)
OneMore(t, n, b, name) ==
  /\ KindsOf(t, n + 1, b) = KindsOf(t, n, b) \cup {name}
  /\ Lines(t, n + 1, b, ContentLines) = Lines(t, n, b, ContentLines) \cup {n + 1}
  /\ In(t, n + 1, b, ContentLines) = Append(In(t, n, b, ContentLines), n + 1)
  /\ Adds(t, n, b, {name}) /\ Lines(t, n + 1, b, {name}) = Lines(t, n, b, {name}) \cup {n + 1}

LEMMA ContentLineAdded ==
  ASSUME NEW t, NEW n \in Nat, NEW b, Adds(t, n, b, ContentLines)
  PROVE  OtherSame(t, n, b, t[n + 1].name) /\ OneMore(t, n, b, t[n + 1].name)
  <1>1. /\ Lines(t, n + 1, b, ContentLines) = Lines(t, n, b, ContentLines) \cup {n + 1}
        /\ In(t, n + 1, b, ContentLines) = Append(In(t, n, b, ContentLines), n + 1)
    BY LinesAdded
  <1>2. KindsOf(t, n + 1, b) = KindsOf(t, n, b) \cup {t[n + 1].name}
    BY <1>1 DEF KindsOf
  <1>3. ASSUME NEW kind, t[n + 1].name # kind
        PROVE  Lines(t, n + 1, b, {kind}) = Lines(t, n, b, {kind}) /\ LastOf(t, n + 1, b, kind) = LastOf(t, n, b, kind)
    <2>1. ~Adds(t, n, b, {kind})
      BY <1>3 DEF Adds
    <2> QED
      BY <2>1, NotAdded, LastOfSame
  <1>4. PICK names : names = {t[n + 1].name}
    OBVIOUS
  <1>5. Adds(t, n, b, names)
    BY <1>4 DEF Adds
  <1>6. /\ Lines(t, n + 1, b, names) = Lines(t, n, b, names) \cup {n + 1}
        /\ In(t, n + 1, b, names) = Append(In(t, n, b, names), n + 1)
    BY <1>5, LinesAdded
  <1> QED
    BY <1>1, <1>2, <1>3, <1>4, <1>5, <1>6, Zenon DEF OtherSame, OneMore

LEMMA KindOfLine ==
  ASSUME NEW t, NEW n, NEW b, NEW kind \in ContentLines, kind \notin KindsOf(t, n, b)
  PROVE  Lines(t, n, b, {kind}) = {}
  BY DEF KindsOf, Lines

\* A list may be begun, or be a list of files, and takes the values of the next line.
MayList(c, name) == name \in Contents \cup {"file"} /\ (c.kind = None \/ (c.kind = "file" /\ name = "file"))

ListsMore(t, n, b, c, name) ==
  /\ ContentOf(t, n + 1, b) = [kind |-> name, value |-> c.value \o Values(t, n + 1), headers |-> Empty]
  /\ SaysOneThing(t, n + 1, b)

\* A route that says nothing yet, or another file.
LEMMA ListedStep ==
  ASSUME NEW t, IsText(t), NEW n \in Nat, n < Len(t), NEW b, Adds(t, n, b, ContentLines),
         SaysOneThing(t, n, b), NEW c, c = ContentOf(t, n, b),
         NEW name, name = t[n + 1].name, MayList(c, name)
  PROVE  ListsMore(t, n, b, c, name)
  <1>1. PICK k, K, L, p, P : /\ k = n + 1 /\ K = KindsOf(t, n, b) /\ L = Lines(t, n, b, ContentLines)
                             /\ p = In(t, n, b, ContentLines) /\ P = Lines(t, n, b, {"proxy"})
    OBVIOUS
  <1>2. name \notin Proxying /\ name \in ContentLines /\ name # None /\ None \notin ContentLines
    BY DEF Proxying, ContentLines, Contents, None, MayList
  <1>3. /\ KindsOf(t, k, b) = K \cup {name} /\ Lines(t, k, b, ContentLines) = L \cup {k}
        /\ In(t, k, b, ContentLines) = Append(p, k) /\ Lines(t, k, b, {"proxy"}) = P
    <2>1. name # "proxy"
      BY <1>2 DEF Proxying
    <2>2. OtherSame(t, n, b, name) /\ OneMore(t, n, b, name)
      BY ContentLineAdded
    <2> QED
      BY <1>1, <2>1, <2>2, Zenon DEF OtherSame, OneMore
  <1>4. /\ K = {} => c = NoContent /\ L = {}
        /\ K # {} /\ K \subseteq Proxying => c.kind = "proxy"
        /\ ~(K \subseteq Proxying) => K = {c.kind} /\ c.kind \in Contents \cup {"file"}
                                     /\ c.value = FlattenSeq(At(Said(t), p))
    <2>1. IsSaid(t, n, b, c, K)
      BY <1>1, ContentCases
    <2> QED
      BY <1>1, <2>1 DEF IsSaid
  <1>5. (K = {} /\ c.kind = None /\ c.value = <<>> /\ L = {}) \/ (K = {"file"} /\ name = "file")
    <2>1. CASE K = {}
      BY <1>4, <2>1 DEF NoContent, MayList
    <2>2. CASE K # {} /\ K \subseteq Proxying
      BY <1>4, <2>2 DEF None, MayList
    <2>3. CASE ~(K \subseteq Proxying)
      BY <1>4, <2>3 DEF None, Contents, MayList
    <2> QED
      BY <2>1, <2>2, <2>3
  <1>6. KindsOf(t, k, b) = {name}
    BY <1>3, <1>5
  <1>7. /\ p \in Seq(1 .. n) /\ p = In(t, n, b, ContentLines) /\ \A i \in DOMAIN p : p[i] \in L
    BY <1>1, PlacesAreLines
  <1>8. c.value = FlattenSeq(At(Said(t), p))
    <2>1. CASE K = {}
      <3>1. p = <<>>
        BY <1>5, <1>7, <2>1
      <3>2. FlattenSeq(At(Said(t), p)) = <<>>
        BY <3>1, FlatOfNothing
      <3> QED
        BY <1>5, <2>1, <3>2
    <2>2. CASE K # {}
      <3>1. ~(K \subseteq Proxying)
        BY <1>5, <2>2 DEF Proxying
      <3> QED
        BY <1>4, <3>1
    <2> QED
      BY <2>1, <2>2
  <1>9. PICK q : q = Append(p, k)
    OBVIOUS
  <1>10. FlattenSeq(At(Said(t), q)) = c.value \o Values(t, k)
    <2>1. PICK f, N, A : f = Said(t) /\ N = 1 .. n /\ A = ValuesIn(t)
      OBVIOUS
    <2>2. AreSequences(f, N, A) /\ f[k] \in Seq(A)
      <3>1. \A j \in 1 .. Len(t) : Values(t, j) \in Seq(ValuesIn(t))
        BY ValuesAreSequences
      <3>2. N \cup {k} \subseteq 1 .. Len(t)
        BY <1>1, <2>1, TextPlaces
      <3>3. \A j \in N \cup {k} : f[j] \in Seq(A)
        BY <2>1, <3>1, <3>2, Zenon DEF Values
      <3> QED
        BY <3>3 DEF AreSequences
    <2>3. p \in Seq(N)
      BY <1>7, <2>1
    <2>4. FlattenSeq(At(f, Append(p, k))) = Joins(FlattenSeq(At(f, p)), f[k])
      BY <2>2, <2>3, FlatMore
    <2> QED
      BY <1>8, <1>9, <2>1, <2>4, Zenon DEF Values, Joins
  <1>11. t[q[1]].name = name
    <2>1. /\ q = In(t, k, b, ContentLines) /\ k \in Nat
      BY <1>1, <1>3, <1>9
    <2>2. DOMAIN q = 1 .. Len(q) /\ Len(q) \in Nat /\ \A i \in DOMAIN q : q[i] \in Lines(t, k, b, ContentLines)
      BY <2>1, PlacesAreLines
    <2>3. Len(q) # 0
      <3>1. Len(p) \in Nat /\ Len(Append(p, k)) = Len(p) + 1
        BY <1>7, AppendProperties
      <3> QED
        BY <1>9, <3>1
    <2>4. q[1] \in Lines(t, k, b, ContentLines)
      BY <2>2, <2>3
    <2>5. t[q[1]].name \in KindsOf(t, k, b)
      BY <2>4 DEF KindsOf
    <2> QED
      BY <1>6, <2>5
  <1>12. ContentOf(t, k, b) = [kind |-> name, value |-> c.value \o Values(t, k), headers |-> Empty]
    <2>1. KindsOf(t, k, b) # {} /\ ~(KindsOf(t, k, b) \subseteq {"proxy", "proxy_header"})
      BY <1>2, <1>6 DEF Proxying
    <2>2. In(t, k, b, ContentLines) = q
      BY <1>3, <1>9
    <2>3. ContentOf(t, k, b) = [kind |-> t[q[1]].name,
                                value |-> FlattenSeq(At(Said(t), q)), headers |-> Empty]
      BY <2>1, <2>2, Zenon DEF ContentOf, Values, At
    <2> QED
      BY <1>10, <1>11, <2>3, Zenon
  <1>13. SaysOneThing(t, k, b)
    <2>1. \A i, j \in P : i < j => Values(t, i) = <<"">>
      BY <1>1 DEF SaysOneThing
    <2>2. {name} \subseteq Contents => L \cup {k} = {k}
      BY <1>5 DEF Contents
    <2>3. \A i, j \in {k} : i = j
      OBVIOUS
    <2> QED
      BY <1>3, <1>6, <2>1, <2>2, <2>3, Zenon DEF SaysOneThing
  <1> QED
    BY <1>1, <1>12, <1>13, Zenon DEF ListsMore

-----------------------------------------------------------------------------
(* A route that is handed on to a server *)

\* A route whose content is that of a proxy, or nothing yet.
IsProxied(t, n, b, c) ==
  /\ KindsOf(t, n, b) \subseteq Proxying
  /\ c.headers = LastOf(t, n, b, "proxy_header")
  /\ c.kind = None => Lines(t, n, b, {"proxy"}) = {}
  /\ c.kind # None /\ Lines(t, n, b, {"proxy"}) = {} => c.value = <<"">>
  /\ c.kind # None /\ Lines(t, n, b, {"proxy"}) # {} => c.value = Values(t, Max(Lines(t, n, b, {"proxy"})))

LEMMA ProxyCase ==
  ASSUME NEW t, NEW n \in Nat, NEW b, SaysOneThing(t, n, b), NEW c, c = ContentOf(t, n, b),
         c.kind = None \/ c.kind = "proxy"
  PROVE  IsProxied(t, n, b, c)
  <1>1. PICK K : K = KindsOf(t, n, b)
    OBVIOUS
  <1>2. IsSaid(t, n, b, c, K)
    BY <1>1, ContentCases
  <1>3. "file" # "proxy" /\ c.kind \notin Contents \cup {"file"}
    BY DEF Contents, None
  <1>4. K \subseteq Proxying
    BY <1>2, <1>3 DEF IsSaid
  <1>5. CASE K = {}
    <2>1. c.kind = None /\ c.headers = Empty
      BY <1>2, <1>5 DEF IsSaid, NoContent
    <2>2. Lines(t, n, b, {"proxy"}) = {} /\ Lines(t, n, b, {"proxy_header"}) = {}
      <3>1. "proxy" \in ContentLines /\ "proxy_header" \in ContentLines
        BY DEF ContentLines
      <3> QED
        BY <1>1, <1>5, <3>1, KindOfLine
    <2>3. LastOf(t, n, b, "proxy_header") = Empty
      BY <2>2, LastOfNone
    <2> QED
      BY <1>1, <1>4, <2>1, <2>2, <2>3 DEF IsProxied
  <1>6. CASE K # {}
    <2>1. /\ c.kind = "proxy"
          /\ Lines(t, n, b, {"proxy"}) = {} => c.value = <<"">>
          /\ Lines(t, n, b, {"proxy"}) # {} => c.value = Values(t, Max(Lines(t, n, b, {"proxy"})))
          /\ c.headers = LastOf(t, n, b, "proxy_header")
      BY <1>2, <1>4, <1>6 DEF IsSaid
    <2>2. c.kind # None
      BY <2>1 DEF None
    <2> QED
      BY <1>1, <1>4, <2>1, <2>2 DEF IsProxied
  <1> QED
    BY <1>5, <1>6

LEMMA EarlierThanLast ==
  ASSUME NEW n \in Nat, NEW P \in SUBSET (1 .. n), NEW i \in P \cup {n + 1}, NEW j \in P \cup {n + 1}, i < j
  PROVE  i \in P /\ P # {} /\ Max(P) \in P /\ (i = Max(P) \/ i < Max(P))
  <1>1. \A l \in P \cup {n + 1} : l \in Int /\ l <= n + 1
    OBVIOUS
  <1>2. i # n + 1
    BY <1>1
  <1>3. i \in P /\ P # {}
    BY <1>2
  <1>4. n + 1 \in Nat \ {0} /\ (n + 1) - 1 = n
    OBVIOUS
  <1>5. Max(P) \in P /\ \A l \in P : l <= Max(P)
    BY <1>3, <1>4, GreatestOf
  <1>6. i <= Max(P) /\ i \in Int /\ Max(P) \in Int
    BY <1>1, <1>3, <1>5
  <1> QED
    BY <1>3, <1>5, <1>6

MayProxy(c) == c.kind = None \/ (c.kind = "proxy" /\ c.value = <<"">>)

Proxies(t, n, b, c) ==
  /\ ContentOf(t, n + 1, b) = [kind |-> "proxy", value |-> Values(t, n + 1), headers |-> c.headers]
  /\ SaysOneThing(t, n + 1, b)

ProxiesWith(t, n, b, c) ==
  /\ ContentOf(t, n + 1, b) =
       [kind |-> "proxy", value |-> IF c.kind = None THEN <<"">> ELSE c.value,
        headers |-> Put(c.headers, Values(t, n + 1)[1], Values(t, n + 1)[2])]
  /\ SaysOneThing(t, n + 1, b)

LEMMA ProxyStep ==
  ASSUME NEW t, NEW n \in Nat, NEW b, Adds(t, n, b, ContentLines), t[n + 1].name = "proxy",
         SaysOneThing(t, n, b), NEW c, c = ContentOf(t, n, b),
         MayProxy(c)
  PROVE  Proxies(t, n, b, c)
  <1>0. c.kind = None \/ (c.kind = "proxy" /\ c.value = <<"">>)
    BY DEF MayProxy
  <1>1. PICK k, K, P : k = n + 1 /\ K = KindsOf(t, n, b) /\ P = Lines(t, n, b, {"proxy"})
    OBVIOUS
  <1>2. /\ K \subseteq Proxying /\ c.headers = LastOf(t, n, b, "proxy_header")
        /\ c.kind = None => P = {}
        /\ c.kind # None /\ P # {} => c.value = Values(t, Max(P))
    <2>1. IsProxied(t, n, b, c)
      BY <1>0, ProxyCase
    <2> QED
      BY <1>1, <2>1 DEF IsProxied
  <1>3. OtherSame(t, n, b, "proxy") /\ OneMore(t, n, b, "proxy")
    BY ContentLineAdded
  <1>4. KindsOf(t, k, b) = K \cup {"proxy"} /\ Lines(t, k, b, {"proxy"}) = P \cup {k}
    BY <1>1, <1>3 DEF OneMore
  <1>5. LastOf(t, k, b, "proxy_header") = c.headers
    <2>1. "proxy" # "proxy_header"
      OBVIOUS
    <2> QED
      BY <1>1, <1>2, <1>3, <2>1, Zenon DEF OtherSame
  <1>6. P \in SUBSET (1 .. n)
    BY <1>1, LinesAreBelow
  <1>7. Max(P \cup {k}) = k
    BY <1>1, <1>6, MaxWithLast
  <1>8. KindsOf(t, k, b) # {} /\ KindsOf(t, k, b) \subseteq {"proxy", "proxy_header"}
    BY <1>2, <1>4 DEF Proxying
  <1>9. ContentOf(t, k, b) = [kind |-> "proxy", value |-> Values(t, k), headers |-> c.headers]
    <2>1. Lines(t, k, b, {"proxy"}) # {} /\ Max(Lines(t, k, b, {"proxy"})) = k
      BY <1>4, <1>7
    <2> QED
      BY <1>5, <1>8, <2>1, Zenon DEF ContentOf
  <1>10. SaysOneThing(t, k, b)
    <2>1. \A i, j \in P : i < j => Values(t, i) = <<"">>
      BY <1>1 DEF SaysOneThing
    <2>2. ASSUME NEW i \in P \cup {k}, NEW j \in P \cup {k}, i < j PROVE Values(t, i) = <<"">>
      <3>1. i \in P /\ P # {} /\ Max(P) \in P /\ (i = Max(P) \/ i < Max(P))
        <4>1. i \in P \cup {n + 1} /\ j \in P \cup {n + 1}
          BY <1>1
        <4> QED
          BY <1>6, <2>2, <4>1, EarlierThanLast
      <3>2. CASE i = Max(P)
        <4>1. c.value = Values(t, Max(P)) /\ c.value = <<"">>
          BY <1>0, <1>2, <3>1
        <4> QED
          BY <3>2, <4>1
      <3>3. CASE i < Max(P)
        BY <2>1, <3>1, <3>3
      <3> QED
        BY <3>1, <3>2, <3>3
    <2>3. ~(K \cup {"proxy"} \subseteq Contents)
      BY DEF Contents
    <2>4. \A i, j \in P \cup {k} : i < j => Values(t, i) = <<"">>
      BY <2>2
    <2> QED
      BY <1>4, <1>8, <2>3, <2>4, Zenon DEF SaysOneThing
  <1> QED
    BY <1>1, <1>9, <1>10, Zenon DEF Proxies

LEMMA ProxyHeaderStep ==
  ASSUME NEW t, NEW n \in Nat, NEW b, Adds(t, n, b, ContentLines), t[n + 1].name = "proxy_header",
         SaysOneThing(t, n, b), NEW c, c = ContentOf(t, n, b), c.kind = None \/ c.kind = "proxy"
  PROVE  ProxiesWith(t, n, b, c)
  <1>1. PICK k, K, P, v : /\ k = n + 1 /\ K = KindsOf(t, n, b) /\ P = Lines(t, n, b, {"proxy"})
                          /\ v = IF c.kind = None THEN <<"">> ELSE c.value
    OBVIOUS
  <1>2. /\ K \subseteq Proxying /\ c.headers = LastOf(t, n, b, "proxy_header")
        /\ c.kind = None => P = {}
        /\ c.kind # None /\ P = {} => c.value = <<"">>
        /\ c.kind # None /\ P # {} => c.value = Values(t, Max(P))
    <2>1. IsProxied(t, n, b, c)
      BY ProxyCase
    <2> QED
      BY <1>1, <2>1 DEF IsProxied
  <1>3. OtherSame(t, n, b, "proxy_header") /\ OneMore(t, n, b, "proxy_header")
    BY ContentLineAdded
  <1>4. KindsOf(t, k, b) = K \cup {"proxy_header"} /\ Lines(t, k, b, {"proxy"}) = P
    <2>1. "proxy" # "proxy_header"
      OBVIOUS
    <2> QED
      BY <1>1, <1>3, <2>1, Zenon DEF OneMore, OtherSame
  <1>5. LastOf(t, k, b, "proxy_header") = Put(c.headers, Values(t, k)[1], Values(t, k)[2])
    <2>1. Adds(t, n, b, {"proxy_header"})
      BY <1>3 DEF OneMore
    <2>2. LastOf(t, n + 1, b, "proxy_header")
            = Put(LastOf(t, n, b, "proxy_header"), Values(t, n + 1)[1], Values(t, n + 1)[2])
      BY <2>1, LastOfTakes
    <2> QED
      BY <1>1, <1>2, <2>2, Zenon
  <1>6. v = IF P = {} THEN <<"">> ELSE Values(t, Max(P))
    BY <1>1, <1>2
  <1>7. KindsOf(t, k, b) # {} /\ KindsOf(t, k, b) \subseteq {"proxy", "proxy_header"}
    BY <1>2, <1>4 DEF Proxying
  <1>8. ContentOf(t, k, b) =
          [kind |-> "proxy", value |-> v, headers |-> Put(c.headers, Values(t, k)[1], Values(t, k)[2])]
    BY <1>4, <1>5, <1>6, <1>7, Zenon DEF ContentOf
  <1>9. SaysOneThing(t, k, b)
    <2>1. \A i, j \in P : i < j => Values(t, i) = <<"">>
      BY <1>1 DEF SaysOneThing
    <2>2. ~(K \cup {"proxy_header"} \subseteq Contents)
      BY DEF Contents
    <2> QED
      BY <1>4, <1>7, <2>1, <2>2, Zenon DEF SaysOneThing
  <1> QED
    BY <1>1, <1>8, <1>9, Zenon DEF ProxiesWith

-----------------------------------------------------------------------------
(* What a server and a group say *)

PagesMore(t, n, k, m, b) ==
  PagesOf(t, k, b) = PutAll(PagesOf(t, n, b), {Values(t, k)[i] : i \in 1 .. m - 1}, Values(t, k)[m])

LEMMA PagesTake ==
  ASSUME NEW t, NEW n \in Nat, NEW b, Adds(t, n, b, {"error_page"}),
         NEW k, k = n + 1, NEW m, m = Len(t[k].args)
  PROVE  PagesMore(t, n, k, m, b)
  <1> DEFINE S == Lines(t, n, b, {"error_page"})
             Listed(j) == {Values(t, j)[i] : i \in 1 .. Len(t[j].args) - 1}
             Page(j) == Values(t, j)[Len(t[j].args)]
             Latest(X, s) == Page(Max({j \in X : s \in Listed(j)}))
  <1>1. Lines(t, k, b, {"error_page"}) = S \cup {k} /\ S \in SUBSET (1 .. n)
    <2>1. PICK names : names = {"error_page"}
      OBVIOUS
    <2>2. Adds(t, n, b, names)
      BY <2>1
    <2>3. /\ Lines(t, n + 1, b, names) = Lines(t, n, b, names) \cup {n + 1}
          /\ In(t, n + 1, b, names) = Append(In(t, n, b, names), n + 1)
      BY <2>2, LinesAdded
    <2>4. S \in SUBSET (1 .. n)
      BY LinesAreBelow
    <2> QED
      BY <2>1, <2>3, <2>4, Zenon
  <1>2. PagesOf(t, n, b) = [s \in UNION {Listed(j) : j \in S} |-> Latest(S, s)]
    BY Zenon DEF PagesOf
  <1>3. PagesOf(t, k, b) = [s \in UNION {Listed(j) : j \in S \cup {k}} |-> Latest(S \cup {k}, s)]
    BY <1>1, Zenon DEF PagesOf
  <1> HIDE DEF S
  <1>4. ASSUME NEW s, s \in Listed(k) PROVE Latest(S \cup {k}, s) = Page(k)
    <2>1. PICK R : R = {j \in S : s \in Listed(j)}
      OBVIOUS
    <2> HIDE DEF Listed
    <2>2. {j \in S \cup {k} : s \in Listed(j)} = R \cup {k} /\ R \in SUBSET (1 .. n)
      BY <1>1, <1>4, <2>1
    <2>3. Max(R \cup {n + 1}) = n + 1
      BY <2>2, MaxWithLast
    <2> QED
      BY <2>2, <2>3, Zenon
  <1>5. ASSUME NEW s, s \notin Listed(k) PROVE Latest(S \cup {k}, s) = Latest(S, s)
    <2> HIDE DEF Listed
    <2>1. {j \in S \cup {k} : s \in Listed(j)} = {j \in S : s \in Listed(j)}
      BY <1>5
    <2> QED
      BY <2>1, Zenon
  <1>6. UNION {Listed(j) : j \in S \cup {k}} = Listed(k) \cup UNION {Listed(j) : j \in S}
    <2> HIDE DEF Listed
    <2> QED
      OBVIOUS
  <1>7. PICK L, v : L = Listed(k) /\ v = Page(k)
    OBVIOUS
  <1> HIDE DEF Listed, Page, Latest
  <1>8. PICK f, g, D : f = PagesOf(t, n, b) /\ g = PagesOf(t, k, b) /\ D = UNION {Listed(j) : j \in S}
    OBVIOUS
  <1>9. DOMAIN f = D /\ \A s \in D : f[s] = Latest(S, s)
    BY <1>2, <1>8
  <1>10. g = [s \in L \cup D |-> Latest(S \cup {k}, s)]
    BY <1>3, <1>6, <1>7, <1>8, Zenon
  <1>11. \A s \in L \cup D : Latest(S \cup {k}, s) = IF s \in L THEN v ELSE f[s]
    BY <1>4, <1>5, <1>7, <1>9
  <1>12. g = [s \in L \cup D |-> IF s \in L THEN v ELSE f[s]]
    BY <1>10, <1>11
  <1>13. g = PutAll(f, L, v)
    BY <1>9, <1>12, Zenon DEF PutAll
  <1> QED
    BY <1>7, <1>8, <1>13, Zenon DEF Listed, Page, PagesMore

LEMMA DomainsTake ==
  ASSUME NEW t, IsText(t), NEW n \in Nat, n < Len(t), NEW b, Adds(t, n, b, {"domain"})
  PROVE  DomainsOf(t, n + 1, b) = Joins(DomainsOf(t, n, b), t[n + 1].args)
  <1>1. PICK k, m, p : k = n + 1 /\ m = Len(t) /\ p = In(t, n, b, {"domain"})
    OBVIOUS
  <1>2. In(t, k, b, {"domain"}) = Append(p, k)
    <2>1. PICK names : names = {"domain"}
      OBVIOUS
    <2>2. Adds(t, n, b, names)
      BY <2>1
    <2>3. /\ Lines(t, n + 1, b, names) = Lines(t, n, b, names) \cup {n + 1}
          /\ In(t, n + 1, b, names) = Append(In(t, n, b, names), n + 1)
      BY <2>2, LinesAdded
    <2> QED
      BY <1>1, <2>1, <2>3, Zenon
  <1>3. m \in Nat /\ k \in 1 .. m /\ \A j \in 1 .. m : IsSequence(t[j].args)
    BY <1>1, TextPlaces
  <1>4. p \in Seq(1 .. n)
    BY <1>1, InIsLines
  <1>5. PICK f : f = [j \in 1 .. m |-> t[j].args]
    OBVIOUS
  <1>6. PICK A : A = UNION {{t[j].args[i] : i \in DOMAIN t[j].args} : j \in 1 .. m}
    OBVIOUS
  <1>7. ASSUME NEW j \in 1 .. m PROVE f[j] = t[j].args /\ f[j] \in Seq(A)
    <2>2. {t[j].args[i] : i \in DOMAIN t[j].args} \subseteq A
      BY <1>6
    <2>3. t[j].args \in Seq({t[j].args[i] : i \in DOMAIN t[j].args})
      BY <1>3 DEF IsSequence
    <2>4. t[j].args \in Seq(A)
      BY <2>2, <2>3, SeqMonotonic
    <2> QED
      BY <1>5, <2>4
  <1>8. PICK N : N = 1 .. n
    OBVIOUS
  <1>9. AreSequences(f, N, A) /\ f[k] \in Seq(A) /\ p \in Seq(N)
    <2>1. N \subseteq 1 .. m
      BY <1>1, <1>3, <1>8
    <2> QED
      BY <1>3, <1>4, <1>7, <1>8, <2>1 DEF AreSequences
  <1>10. FlattenSeq(At(f, Append(p, k))) = Joins(FlattenSeq(At(f, p)), f[k])
    BY <1>9, FlatMore
  <1>11. ASSUME NEW q, NEW l \in Nat, q \in Seq(1 .. l), l <= m
         PROVE  At(f, q) = [i \in DOMAIN q |-> t[q[i]].args]
    <2>1. \A i \in DOMAIN q : q[i] \in 1 .. m
      BY <1>3, <1>11
    <2>2. \A i \in DOMAIN q : f[q[i]] = t[q[i]].args
      BY <1>7, <2>1
    <2> QED
      BY <2>2 DEF At
  <1>12. DomainsOf(t, n, b) = FlattenSeq(At(f, p))
    <2>1. n <= m
      BY <1>1, <1>3
    <2>2. At(f, p) = [i \in DOMAIN p |-> t[p[i]].args]
      BY <1>4, <1>11, <2>1
    <2> QED
      BY <1>1, <2>2, Zenon DEF DomainsOf
  <1>13. DomainsOf(t, k, b) = FlattenSeq(At(f, Append(p, k)))
    <2>1. PICK q : q = Append(p, k)
      OBVIOUS
    <2>2. q \in Seq(1 .. k) /\ k <= m /\ k \in Nat
      <3>1. In(t, k, b, {"domain"}) \in Seq(1 .. k)
        <4>1. k \in Nat
          BY <1>1
        <4> QED
          BY <4>1, InIsLines
      <3>2. q = In(t, k, b, {"domain"})
        BY <1>2, <2>1, Zenon
      <3> QED
        BY <1>3, <3>1, <3>2
    <2>3. At(f, q) = [i \in DOMAIN q |-> t[q[i]].args]
      BY <1>11, <2>2
    <2> QED
      BY <1>2, <2>1, <2>3, Zenon DEF DomainsOf
  <1> QED
    BY <1>1, <1>3, <1>7, <1>10, <1>12, <1>13, Zenon

LEMMA AtMore ==
  ASSUME NEW N, NEW p \in Seq(N), NEW k, NEW f
  PROVE  At(f, Append(p, k)) = Append(At(f, p), f[k])
  <1>1. [i \in DOMAIN Append(p, k) |-> f[Append(p, k)[i]]] = Append([i \in DOMAIN p |-> f[p[i]]], f[k])
    BY MapMore
  <1> QED
    BY <1>1, Zenon DEF At

\* The lists are the same where the functions are.
LEMMA AtSame ==
  ASSUME NEW p, NEW f, NEW g, \A i \in DOMAIN p : f[p[i]] = g[p[i]]
  PROVE  At(f, p) = At(g, p)
  BY DEF At

LEMMA MembersTake ==
  ASSUME NEW t, IsText(t), NEW n \in Nat, n < Len(t), NEW b, Adds(t, n, b, {"server"})
  PROVE  MembersOf(t, n + 1, b) = Append(MembersOf(t, n, b), Values(t, n + 1)[1])
  <1>1. PICK k, m, p : k = n + 1 /\ m = Len(t) /\ p = In(t, n, b, {"server"})
    OBVIOUS
  <1>2. In(t, k, b, {"server"}) = Append(p, k)
    <2>1. PICK names : names = {"server"}
      OBVIOUS
    <2>2. Adds(t, n, b, names)
      BY <2>1
    <2>3. /\ Lines(t, n + 1, b, names) = Lines(t, n, b, names) \cup {n + 1}
          /\ In(t, n + 1, b, names) = Append(In(t, n, b, names), n + 1)
      BY <2>2, LinesAdded
    <2> QED
      BY <1>1, <2>1, <2>3, Zenon
  <1>3. m \in Nat /\ k \in 1 .. m
    BY <1>1, TextPlaces
  <1>4. p \in Seq(1 .. n)
    BY <1>1, InIsLines
  <1>5. PICK f : f = [j \in 1 .. m |-> Values(t, j)[1]]
    OBVIOUS
  <1>6. \A j \in 1 .. m : f[j] = Values(t, j)[1]
    BY <1>5
  <1>7. ASSUME NEW q, NEW l \in Nat, q \in Seq(1 .. l), l <= m
        PROVE  At(f, q) = [i \in DOMAIN q |-> Values(t, q[i])[1]]
    <2>1. \A i \in DOMAIN q : q[i] \in 1 .. m
      BY <1>3, <1>7
    <2>2. \A i \in DOMAIN q : f[q[i]] = Values(t, q[i])[1]
      BY <1>6, <2>1
    <2> QED
      BY <2>2 DEF At
  <1>8. MembersOf(t, n, b) = At(f, p)
    <2>1. n <= m
      BY <1>1, <1>3
    <2>2. At(f, p) = [i \in DOMAIN p |-> Values(t, p[i])[1]]
      BY <1>4, <1>7, <2>1
    <2> QED
      BY <1>1, <2>2, Zenon DEF MembersOf
  <1>9. MembersOf(t, k, b) = At(f, Append(p, k))
    <2>1. PICK q : q = Append(p, k)
      OBVIOUS
    <2>2. q \in Seq(1 .. k) /\ k <= m /\ k \in Nat
      <3>1. In(t, k, b, {"server"}) \in Seq(1 .. k)
        <4>1. k \in Nat
          BY <1>1
        <4> QED
          BY <4>1, InIsLines
      <3>2. q = In(t, k, b, {"server"})
        BY <1>2, <2>1, Zenon
      <3> QED
        BY <1>3, <3>1, <3>2
    <2>3. At(f, q) = [i \in DOMAIN q |-> Values(t, q[i])[1]]
      BY <1>7, <2>2
    <2> QED
      BY <1>2, <2>1, <2>3, Zenon DEF MembersOf
  <1>10. At(f, Append(p, k)) = Append(At(f, p), f[k])
    BY <1>4, AtMore
  <1> QED
    BY <1>1, <1>3, <1>6, <1>8, <1>9, <1>10, Zenon

-----------------------------------------------------------------------------
(* A server and the routes of it that are closed *)

\* A server with the routes of its that are closed.
ServerWith(t, n, b, routes) ==
  [port |-> One(t, n, b, {"port"}), ip |-> One(t, n, b, {"ip"}), default |-> One(t, n, b, {"default"}),
   ssl_cert |-> One(t, n, b, {"ssl_cert"}), ssl_keys |-> One(t, n, b, {"ssl_keys"}),
   header_timeout |-> One(t, n, b, {"header_timeout"}), body_timeout |-> One(t, n, b, {"body_timeout"}),
   send_timeout |-> One(t, n, b, {"send_timeout"}),
   domains |-> DomainsOf(t, n, b), routes |-> routes, error_pages |-> PagesOf(t, n, b)]

RoutesAt(t, n) == [j \in 1 .. n |-> RouteOf(t, n, j)]
ServersAt(t, n) == [j \in 1 .. n |-> ServerOf(t, n, j)]

LEMMA ListsAreAt ==
  ASSUME NEW t, NEW n \in Nat, NEW b
  PROVE  /\ RoutesOf(t, n, b) = At(RoutesAt(t, n), In(t, n, b, {"route"}))
         /\ ServersOf(t, n) = At(ServersAt(t, n), In(t, n, 0, {"server"}))
  <1>1. PICK p, q : p = In(t, n, b, {"route"}) /\ q = In(t, n, 0, {"server"})
    OBVIOUS
  <1>2. p \in Seq(1 .. n) /\ q \in Seq(1 .. n)
    BY <1>1, InIsLines
  <1>3. (\A i \in DOMAIN p : p[i] \in 1 .. n) /\ \A i \in DOMAIN q : q[i] \in 1 .. n
    BY <1>2
  <1>4. [i \in DOMAIN p |-> RouteOf(t, n, p[i])] = At(RoutesAt(t, n), p)
    BY <1>3 DEF At, RoutesAt
  <1>5. [i \in DOMAIN q |-> ServerOf(t, n, q[i])] = At(ServersAt(t, n), q)
    BY <1>3 DEF At, ServersAt
  <1> QED
    BY <1>1, <1>4, <1>5, Zenon DEF RoutesOf, ServersOf

LEMMA ServerIsWith ==
  ASSUME NEW t, NEW n, NEW b
  PROVE  ServerOf(t, n, b) = ServerWith(t, n, b, RoutesOf(t, n, b))
  BY Zenon DEF ServerOf, ServerWith

\* Blocks that are closed are left as they are.
LEMMA RoutesAtSame ==
  ASSUME NEW t, NEW n \in Nat, NEW p \in Seq(1 .. n), \A i \in DOMAIN p : ~IsIn(t, p[i], n + 1)
  PROVE  At(RoutesAt(t, n + 1), p) = At(RoutesAt(t, n), p)
  <1>1. PICK k : k = n + 1
    OBVIOUS
  <1>2. \A i \in DOMAIN p : p[i] \in 1 .. n /\ p[i] \in 1 .. k
    BY <1>1
  <1>3. \A i \in DOMAIN p : RouteOf(t, n + 1, p[i]) = RouteOf(t, n, p[i])
    BY RouteSame
  <1>4. \A i \in DOMAIN p : RoutesAt(t, k)[p[i]] = RoutesAt(t, n)[p[i]]
    BY <1>1, <1>2, <1>3 DEF RoutesAt
  <1> QED
    BY <1>1, <1>4, AtSame

LEMMA ServersAtSame ==
  ASSUME NEW t, NEW n \in Nat, NEW p \in Seq(1 .. n), \A i \in DOMAIN p : ~IsIn(t, p[i], n + 1),
         \A i \in DOMAIN p : \A r \in Lines(t, n, p[i], {"route"}) : ~IsIn(t, r, n + 1)
  PROVE  At(ServersAt(t, n + 1), p) = At(ServersAt(t, n), p)
  <1>1. PICK k : k = n + 1
    OBVIOUS
  <1>2. \A i \in DOMAIN p : p[i] \in 1 .. n /\ p[i] \in 1 .. k
    BY <1>1
  <1>3. \A i \in DOMAIN p : ServerOf(t, n + 1, p[i]) = ServerOf(t, n, p[i])
    BY ServerSame
  <1>4. \A i \in DOMAIN p : ServersAt(t, k)[p[i]] = ServersAt(t, n)[p[i]]
    BY <1>1, <1>2, <1>3 DEF ServersAt
  <1> QED
    BY <1>1, <1>4, AtSame

-----------------------------------------------------------------------------
(* A directive of which a block has at most one *)

IsTheFirst(t, n, b, name) == Adds(t, n, b, {name}) /\ One(t, n, b, {name}) = None

LEMMA ServerTakesOne ==
  ASSUME NEW t, IsText(t), NEW n \in Nat, n < Len(t), NEW b, NEW name \in Single["server"],
         IsTheFirst(t, n, b, name), NEW routes
  PROVE  ServerWith(t, n + 1, b, routes) = [ServerWith(t, n, b, routes) EXCEPT ![name] = SingleOf(t, n + 1)]
  <1>1. PICK k, v : k = n + 1 /\ v = SingleOf(t, n + 1)
    OBVIOUS
  <1>2. name \in {"port", "ip", "default", "ssl_cert", "ssl_keys", "header_timeout", "body_timeout", "send_timeout"}
    BY DEF Single, Timeouts
  <1>3. One(t, k, b, {name}) = v
    <2>1. PICK names : names = {name}
      OBVIOUS
    <2>2. None \notin names /\ n <= Len(t)
      <3>1. Len(t) \in Nat
        BY TextPlaces
      <3> QED
        BY <1>2, <2>1, <3>1 DEF None
    <2>3. One(t, n, b, names) = None /\ Adds(t, n, b, names)
      BY <2>1 DEF IsTheFirst
    <2>4. One(t, n + 1, b, names) = SingleOf(t, n + 1)
      BY <2>2, <2>3, OneTakes
    <2> QED
      BY <1>1, <2>1, <2>4
  <1>4. t[k].name = name
    BY <1>1 DEF Adds, IsTheFirst
  <1>5. ASSUME NEW other, other # name PROVE One(t, k, b, {other}) = One(t, n, b, {other})
    <2>1. ~Adds(t, n, b, {other})
      BY <1>1, <1>4, <1>5 DEF Adds
    <2> QED
      BY <1>1, <2>1, OneSame
  <1>6. DomainsOf(t, k, b) = DomainsOf(t, n, b) /\ PagesOf(t, k, b) = PagesOf(t, n, b)
    <2>1. ~Adds(t, n, b, {"domain"}) /\ ~Adds(t, n, b, {"error_page"})
      BY <1>1, <1>2, <1>4 DEF Adds
    <2> QED
      BY <1>1, <2>1, DomainsSame, PagesSame
  <1>7. \A other : One(t, k, b, {other}) = IF other = name THEN v ELSE One(t, n, b, {other})
    BY <1>3, <1>5
  <1>8. PICK d, p : d = DomainsOf(t, n, b) /\ p = PagesOf(t, n, b)
    OBVIOUS
  <1>0. PICK F : F = {"port", "ip", "default", "ssl_cert", "ssl_keys", "header_timeout", "body_timeout", "send_timeout"}
    OBVIOUS
  <1>9. PICK f : f = [other \in F |-> One(t, n, b, {other})]
    OBVIOUS
  <1>10. PICK g : g = [other \in F |-> One(t, k, b, {other})]
    OBVIOUS
  <1>11. ServerWith(t, n, b, routes) =
           [port |-> f["port"], ip |-> f["ip"], default |-> f["default"],
            ssl_cert |-> f["ssl_cert"], ssl_keys |-> f["ssl_keys"],
            header_timeout |-> f["header_timeout"], body_timeout |-> f["body_timeout"],
            send_timeout |-> f["send_timeout"], domains |-> d, routes |-> routes, error_pages |-> p]
    <2>1. /\ One(t, n, b, {"port"}) = f["port"]
          /\ One(t, n, b, {"ip"}) = f["ip"]
          /\ One(t, n, b, {"default"}) = f["default"]
          /\ One(t, n, b, {"ssl_cert"}) = f["ssl_cert"]
          /\ One(t, n, b, {"ssl_keys"}) = f["ssl_keys"]
          /\ One(t, n, b, {"header_timeout"}) = f["header_timeout"]
          /\ One(t, n, b, {"body_timeout"}) = f["body_timeout"]
          /\ One(t, n, b, {"send_timeout"}) = f["send_timeout"]
      BY <1>0, <1>9
    <2> QED
      BY <1>8, <2>1, Zenon DEF ServerWith
  <1>12. ServerWith(t, k, b, routes) =
           [port |-> g["port"], ip |-> g["ip"], default |-> g["default"],
            ssl_cert |-> g["ssl_cert"], ssl_keys |-> g["ssl_keys"],
            header_timeout |-> g["header_timeout"], body_timeout |-> g["body_timeout"],
            send_timeout |-> g["send_timeout"], domains |-> d, routes |-> routes, error_pages |-> p]
    <2>1. /\ One(t, k, b, {"port"}) = g["port"]
          /\ One(t, k, b, {"ip"}) = g["ip"]
          /\ One(t, k, b, {"default"}) = g["default"]
          /\ One(t, k, b, {"ssl_cert"}) = g["ssl_cert"]
          /\ One(t, k, b, {"ssl_keys"}) = g["ssl_keys"]
          /\ One(t, k, b, {"header_timeout"}) = g["header_timeout"]
          /\ One(t, k, b, {"body_timeout"}) = g["body_timeout"]
          /\ One(t, k, b, {"send_timeout"}) = g["send_timeout"]
      BY <1>0, <1>10
    <2> QED
      BY <1>6, <1>8, <2>1, Zenon DEF ServerWith
  <1>13. \A other \in F : g[other] = IF other = name THEN v ELSE f[other]
    BY <1>7, <1>9, <1>10
  <1>14. PICK r, s, D : /\ r = ServerWith(t, n, b, routes) /\ s = ServerWith(t, k, b, routes)
                        /\ D = F \cup {"domains", "routes", "error_pages"}
    OBVIOUS
  <1>15. r = [x \in D |-> r[x]] /\ s = [x \in D |-> s[x]]
    BY <1>0, <1>11, <1>12, <1>14
  <1>16. \A x \in F : r[x] = f[x] /\ s[x] = g[x]
    BY <1>0, <1>11, <1>12, <1>14
  <1>17. \A x \in {"domains", "routes", "error_pages"} : r[x] = s[x] /\ x # name
    BY <1>2, <1>11, <1>12, <1>14
  <1>18. \A x \in D : s[x] = IF x = name THEN v ELSE r[x]
    BY <1>13, <1>14, <1>16, <1>17
  <1>19. s = [r EXCEPT ![name] = v]
    BY <1>15, <1>18
  <1> QED
    BY <1>1, <1>14, <1>19

-----------------------------------------------------------------------------
(* The one field a directive changes *)

\* One field of a record of these fields.
LEMMA FieldTakes ==
  ASSUME NEW D, NEW r, NEW s, r = [x \in D |-> r[x]], s = [x \in D |-> s[x]], NEW field \in D, NEW v,
         \A x \in D : s[x] = IF x = field THEN v ELSE r[x]
  PROVE  s = [r EXCEPT ![field] = v]
  OBVIOUS

LEMMA OneOfName ==
  ASSUME NEW t, IsText(t), NEW n \in Nat, n < Len(t), NEW b, NEW names, None \notin names,
         IsIn(t, b, n + 1), t[n + 1].name \in names => One(t, n, b, names) = None
  PROVE  One(t, n + 1, b, names) = IF t[n + 1].name \in names THEN SingleOf(t, n + 1) ELSE One(t, n, b, names)
  <1>1. n <= Len(t)
    BY TextPlaces
  <1>2. CASE t[n + 1].name \in names
    <2>1. Adds(t, n, b, names) /\ One(t, n, b, names) = None
      BY <1>2 DEF Adds
    <2> QED
      BY <1>1, <1>2, <2>1, OneTakes
  <1>3. CASE t[n + 1].name \notin names
    <2>1. ~Adds(t, n, b, names)
      BY <1>3 DEF Adds
    <2> QED
      BY <1>3, <2>1, OneSame
  <1> QED
    BY <1>2, <1>3

IsWith(s, r, field, v) == s = [r EXCEPT ![field] = v]

\* All is as it was, but for this field.
RouteDiffers(t, n, k, b, field, v) ==
  /\ ContentOf(t, k, b) = IF field = "content" THEN v ELSE ContentOf(t, n, b)
  /\ LastOf(t, k, b, "header") = IF field = "headers" THEN v ELSE LastOf(t, n, b, "header")
  /\ One(t, k, b, {"status"}) = IF field = "status" THEN v ELSE One(t, n, b, {"status"})
  /\ One(t, k, b, {"default_content_type"})
       = IF field = "default_content_type" THEN v ELSE One(t, n, b, {"default_content_type"})

GroupFields == {"servers", "balancing"} \cup Timeouts

GroupDiffers(t, n, k, b, field, v) ==
  /\ MembersOf(t, k, b) = IF field = "servers" THEN v ELSE MembersOf(t, n, b)
  /\ One(t, k, b, Balancings) = IF field = "balancing" THEN v ELSE One(t, n, b, Balancings)
  /\ \A name \in Timeouts : One(t, k, b, {name}) = IF field = name THEN v ELSE One(t, n, b, {name})

OnesSame(t, n, k, b) == \A name \in Single["server"] : One(t, k, b, {name}) = One(t, n, b, {name})

ServerDiffers(t, n, k, b, field, v) ==
  /\ OnesSame(t, n, k, b)
  /\ DomainsOf(t, k, b) = IF field = "domains" THEN v ELSE DomainsOf(t, n, b)
  /\ PagesOf(t, k, b) = IF field = "error_pages" THEN v ELSE PagesOf(t, n, b)

LEMMA RouteTakes ==
  ASSUME NEW t, NEW n, NEW k, NEW b, NEW field \in {"content", "headers", "status", "default_content_type"}, NEW v,
         RouteDiffers(t, n, k, b, field, v)
  PROVE  RouteOf(t, k, b) = [RouteOf(t, n, b) EXCEPT ![field] = v]
  <1>1. PICK m, u : /\ m = (IF Len(Values(t, b)) = 1 THEN None ELSE Values(t, b)[1])
                    /\ u = Values(t, b)[Len(Values(t, b))]
    OBVIOUS
  <1>2. PICK c, h, o, d : /\ c = ContentOf(t, n, b) /\ h = LastOf(t, n, b, "header")
                          /\ o = One(t, n, b, {"status"}) /\ d = One(t, n, b, {"default_content_type"})
    OBVIOUS
  <1>3. PICK e, i, p, g : /\ e = ContentOf(t, k, b) /\ i = LastOf(t, k, b, "header")
                          /\ p = One(t, k, b, {"status"}) /\ g = One(t, k, b, {"default_content_type"})
    OBVIOUS
  <1>4. PICK r, s, D : /\ r = RouteOf(t, n, b) /\ s = RouteOf(t, k, b)
                       /\ D = {"matcher", "uri", "content", "headers", "status", "default_content_type"}
    OBVIOUS
  <1>5. /\ r = [matcher |-> m, uri |-> u, content |-> c, headers |-> h, status |-> o, default_content_type |-> d]
        /\ s = [matcher |-> m, uri |-> u, content |-> e, headers |-> i, status |-> p, default_content_type |-> g]
    BY <1>1, <1>2, <1>3, <1>4, Zenon DEF RouteOf
  <1>6. r = [x \in D |-> r[x]] /\ s = [x \in D |-> s[x]]
    BY <1>4, <1>5
  <1>7. /\ e = IF field = "content" THEN v ELSE c
        /\ i = IF field = "headers" THEN v ELSE h
        /\ p = IF field = "status" THEN v ELSE o
        /\ g = IF field = "default_content_type" THEN v ELSE d
    BY <1>2, <1>3, Zenon DEF RouteDiffers
  <1>8. \A x \in D : s[x] = IF x = field THEN v ELSE r[x]
    BY <1>4, <1>5, <1>7
  <1>9. field \in D
    BY <1>4
  <1> QED
    BY <1>4, <1>6, <1>8, <1>9, FieldTakes

LEMMA GroupTakes ==
  ASSUME NEW t, NEW n, NEW k, NEW b, NEW field \in GroupFields, NEW v,
         GroupDiffers(t, n, k, b, field, v)
  PROVE  IsWith(GroupOf(t, k, b), GroupOf(t, n, b), field, v)
  <1>1. PICK c, h, o, d, w, a : /\ c = MembersOf(t, n, b) /\ h = One(t, n, b, Balancings)
                                /\ o = One(t, n, b, {"connect_timeout"}) /\ d = One(t, n, b, {"header_timeout"})
                                /\ w = One(t, n, b, {"body_timeout"}) /\ a = One(t, n, b, {"send_timeout"})
    OBVIOUS
  <1>2. PICK e, i, p, g, y, z : /\ e = MembersOf(t, k, b) /\ i = One(t, k, b, Balancings)
                                /\ p = One(t, k, b, {"connect_timeout"}) /\ g = One(t, k, b, {"header_timeout"})
                                /\ y = One(t, k, b, {"body_timeout"}) /\ z = One(t, k, b, {"send_timeout"})
    OBVIOUS
  <1>3. PICK r, s, D, m : /\ r = GroupOf(t, n, b) /\ s = GroupOf(t, k, b) /\ m = t[b].args[1]
                          /\ D = {"name", "servers", "balancing", "connect_timeout", "header_timeout",
                                  "body_timeout", "send_timeout"}
    OBVIOUS
  <1>4. /\ r = [name |-> m, servers |-> c, balancing |-> h, connect_timeout |-> o, header_timeout |-> d,
                body_timeout |-> w, send_timeout |-> a]
        /\ s = [name |-> m, servers |-> e, balancing |-> i, connect_timeout |-> p, header_timeout |-> g,
                body_timeout |-> y, send_timeout |-> z]
    BY <1>1, <1>2, <1>3, Zenon DEF GroupOf
  <1>5. r = [x \in D |-> r[x]] /\ s = [x \in D |-> s[x]]
    BY <1>3, <1>4
  <1>6. /\ e = IF field = "servers" THEN v ELSE c
        /\ i = IF field = "balancing" THEN v ELSE h
    BY <1>1, <1>2, Zenon DEF GroupDiffers
  <1>7. /\ p = IF field = "connect_timeout" THEN v ELSE o
        /\ g = IF field = "header_timeout" THEN v ELSE d
        /\ y = IF field = "body_timeout" THEN v ELSE w
        /\ z = IF field = "send_timeout" THEN v ELSE a
    <2>1. \A name \in {"connect_timeout", "header_timeout", "body_timeout", "send_timeout"} :
            One(t, k, b, {name}) = IF field = name THEN v ELSE One(t, n, b, {name})
      BY DEF Timeouts, GroupDiffers
    <2>2. /\ One(t, k, b, {"connect_timeout"}) = IF field = "connect_timeout" THEN v ELSE One(t, n, b, {"connect_timeout"})
          /\ One(t, k, b, {"header_timeout"}) = IF field = "header_timeout" THEN v ELSE One(t, n, b, {"header_timeout"})
          /\ One(t, k, b, {"body_timeout"}) = IF field = "body_timeout" THEN v ELSE One(t, n, b, {"body_timeout"})
          /\ One(t, k, b, {"send_timeout"}) = IF field = "send_timeout" THEN v ELSE One(t, n, b, {"send_timeout"})
      BY <2>1
    <2> QED
      BY <1>1, <1>2, <2>2, Zenon
  <1>8. \A x \in D : s[x] = IF x = field THEN v ELSE r[x]
    <2>1. field # "name"
      BY DEF Timeouts, GroupFields
    <2> QED
      BY <1>3, <1>4, <1>6, <1>7, <2>1
  <1>9. field \in D
    BY <1>3 DEF Timeouts, GroupFields
  <1> QED
    BY <1>3, <1>5, <1>8, <1>9, FieldTakes DEF IsWith

LEMMA ServerTakesDomains ==
  ASSUME NEW t, NEW n, NEW k, NEW b, NEW routes, NEW field \in {"domains", "error_pages"}, NEW v,
         ServerDiffers(t, n, k, b, field, v)
  PROVE  ServerWith(t, k, b, routes) = [ServerWith(t, n, b, routes) EXCEPT ![field] = v]
  <1>1. /\ One(t, k, b, {"port"}) = One(t, n, b, {"port"}) /\ One(t, k, b, {"ip"}) = One(t, n, b, {"ip"})
        /\ One(t, k, b, {"default"}) = One(t, n, b, {"default"})
        /\ One(t, k, b, {"ssl_cert"}) = One(t, n, b, {"ssl_cert"})
        /\ One(t, k, b, {"ssl_keys"}) = One(t, n, b, {"ssl_keys"})
        /\ One(t, k, b, {"header_timeout"}) = One(t, n, b, {"header_timeout"})
        /\ One(t, k, b, {"body_timeout"}) = One(t, n, b, {"body_timeout"})
        /\ One(t, k, b, {"send_timeout"}) = One(t, n, b, {"send_timeout"})
    <2>1. \A name \in {"port", "ip", "default", "ssl_cert", "ssl_keys", "header_timeout", "body_timeout", "send_timeout"} :
            name \in Single["server"]
      BY DEF Single, Timeouts
    <2> QED
      BY <2>1 DEF ServerDiffers, OnesSame
  <1>2. PICK d, p, e, q : /\ d = DomainsOf(t, n, b) /\ p = PagesOf(t, n, b)
                          /\ e = DomainsOf(t, k, b) /\ q = PagesOf(t, k, b)
    OBVIOUS
  <1>3. PICK a1, a2, a3, a4, a5, a6, a7, a8 :
          /\ a1 = One(t, n, b, {"port"}) /\ a2 = One(t, n, b, {"ip"}) /\ a3 = One(t, n, b, {"default"})
          /\ a4 = One(t, n, b, {"ssl_cert"}) /\ a5 = One(t, n, b, {"ssl_keys"})
          /\ a6 = One(t, n, b, {"header_timeout"}) /\ a7 = One(t, n, b, {"body_timeout"})
          /\ a8 = One(t, n, b, {"send_timeout"})
    OBVIOUS
  <1>4. PICK r, s, D : /\ r = ServerWith(t, n, b, routes) /\ s = ServerWith(t, k, b, routes)
                       /\ D = {"port", "ip", "default", "ssl_cert", "ssl_keys", "header_timeout", "body_timeout",
                               "send_timeout", "domains", "routes", "error_pages"}
    OBVIOUS
  <1>5. /\ r = [port |-> a1, ip |-> a2, default |-> a3, ssl_cert |-> a4, ssl_keys |-> a5,
                header_timeout |-> a6, body_timeout |-> a7, send_timeout |-> a8,
                domains |-> d, routes |-> routes, error_pages |-> p]
        /\ s = [port |-> a1, ip |-> a2, default |-> a3, ssl_cert |-> a4, ssl_keys |-> a5,
                header_timeout |-> a6, body_timeout |-> a7, send_timeout |-> a8,
                domains |-> e, routes |-> routes, error_pages |-> q]
    BY <1>1, <1>2, <1>3, <1>4, Zenon DEF ServerWith
  <1>6. r = [x \in D |-> r[x]] /\ s = [x \in D |-> s[x]]
    BY <1>4, <1>5
  <1>7. /\ e = IF field = "domains" THEN v ELSE d
        /\ q = IF field = "error_pages" THEN v ELSE p
    BY <1>2, Zenon DEF ServerDiffers
  <1>8. \A x \in D : s[x] = IF x = field THEN v ELSE r[x]
    BY <1>4, <1>5, <1>7
  <1>9. field \in D
    BY <1>4
  <1> QED
    BY <1>4, <1>6, <1>8, <1>9, FieldTakes

-----------------------------------------------------------------------------
(* Groups of a name *)

GroupsFrom(t, n, B) ==
  [name \in {t[b].args[1] : b \in B} |-> GroupOf(t, n, Max({b \in B : t[b].args[1] = name}))]

LEMMA GroupsAreFrom ==
  ASSUME NEW t, NEW n
  PROVE  GroupsOf(t, n) = GroupsFrom(t, n, Lines(t, n, 0, {"upstream"}))
  BY Zenon DEF GroupsOf, GroupsFrom

LEMMA GroupsFromSame ==
  ASSUME NEW t, NEW n \in Nat, NEW B \in SUBSET (1 .. n), \A b \in B : ~IsIn(t, b, n + 1)
  PROVE  GroupsFrom(t, n + 1, B) = GroupsFrom(t, n, B)
  <1>1. ASSUME NEW name \in {t[b].args[1] : b \in B}
        PROVE  GroupOf(t, n + 1, Max({b \in B : t[b].args[1] = name})) = GroupOf(t, n, Max({b \in B : t[b].args[1] = name}))
    <2>1. PICK S : S = {b \in B : t[b].args[1] = name}
      OBVIOUS
    <2>2. S # {} /\ S \subseteq B
      BY <2>1
    <2>3. Max(S) \in S
      <3>1. PICK m : m = n + 1
        OBVIOUS
      <3>2. m \in Nat \ {0} /\ m - 1 = n
        BY <3>1
      <3>3. S \in SUBSET (1 .. m - 1)
        BY <2>2, <3>2
      <3> QED
        BY <2>2, <3>2, <3>3, GreatestOf
    <2>4. ~IsIn(t, Max(S), n + 1)
      BY <2>2, <2>3
    <2>5. GroupOf(t, n + 1, Max(S)) = GroupOf(t, n, Max(S))
      BY <2>4, GroupSame
    <2> QED
      BY <2>1, <2>5, Zenon
  <1> QED
    BY <1>1, Zenon DEF GroupsFrom

LEMMA GroupsFromPut ==
  ASSUME NEW t, NEW n, NEW g \in Nat \ {0}, NEW B \in SUBSET (1 .. g - 1)
  PROVE  GroupsFrom(t, n, B \cup {g}) = Put(GroupsFrom(t, n, B), t[g].args[1], GroupOf(t, n, g))
  <1> DEFINE Name(b) == t[b].args[1]
             Latest(S, name) == GroupOf(t, n, Max({b \in S : Name(b) = name}))
  <1>1. PICK f, h : f = GroupsFrom(t, n, B) /\ h = GroupsFrom(t, n, B \cup {g})
    OBVIOUS
  <1>2. f = [name \in {Name(b) : b \in B} |-> Latest(B, name)]
    BY <1>1, Zenon DEF GroupsFrom
  <1>3. h = [name \in {Name(b) : b \in B \cup {g}} |-> Latest(B \cup {g}, name)]
    BY <1>1, Zenon DEF GroupsFrom
  <1>4. {Name(b) : b \in B \cup {g}} = {Name(g)} \cup {Name(b) : b \in B}
    OBVIOUS
  <1>5. Latest(B \cup {g}, Name(g)) = GroupOf(t, n, g)
    <2>1. PICK R, m : R = {b \in B : Name(b) = Name(g)} /\ m = g - 1
      OBVIOUS
    <2>2. m \in Nat /\ m + 1 = g
      BY <2>1
    <2>3. R \in SUBSET (1 .. m)
      BY <2>1
    <2> HIDE DEF Name
    <2>4. {b \in B \cup {g} : Name(b) = Name(g)} = R \cup {g}
      BY <2>1
    <2>5. Max(R \cup {m + 1}) = m + 1
      BY <2>2, <2>3, MaxWithLast
    <2> QED
      BY <2>2, <2>4, <2>5, Zenon
  <1>6. ASSUME NEW name, name # Name(g) PROVE Latest(B \cup {g}, name) = Latest(B, name)
    <2>1. {b \in B \cup {g} : Name(b) = name} = {b \in B : Name(b) = name}
      BY <1>6
    <2> QED
      BY <2>1, Zenon
  <1> HIDE DEF Latest, Name
  <1>7. PICK v, D : v = GroupOf(t, n, g) /\ D = DOMAIN f
    OBVIOUS
  <1>8. D = {Name(b) : b \in B} /\ \A name \in D : f[name] = Latest(B, name)
    BY <1>2, <1>7
  <1>9. h = [name \in {Name(g)} \cup D |-> Latest(B \cup {g}, name)]
    BY <1>3, <1>4, <1>8, Zenon
  <1>10. \A name \in {Name(g)} \cup D :
           Latest(B \cup {g}, name) = IF name = Name(g) THEN v ELSE f[name]
    BY <1>5, <1>6, <1>7, <1>8
  <1>11. h = [name \in {Name(g)} \cup D |-> IF name = Name(g) THEN v ELSE f[name]]
    BY <1>9, <1>10
  <1> QED
    BY <1>1, <1>7, <1>11, Zenon DEF Put, Name

-----------------------------------------------------------------------------
(* A block that was opened just now *)

LEMMA NothingSaid ==
  ASSUME NEW t, NEW k \in Nat
  PROVE  /\ \A names : One(t, k, k, names) = None
         /\ ContentOf(t, k, k) = NoContent /\ SaysOneThing(t, k, k)
         /\ \A name : LastOf(t, k, k, name) = Empty
         /\ DomainsOf(t, k, k) = <<>> /\ MembersOf(t, k, k) = <<>> /\ RoutesOf(t, k, k) = <<>>
         /\ PagesOf(t, k, k) = Empty
  <1>1. \A names : Lines(t, k, k, names) = {} /\ In(t, k, k, names) = <<>>
    BY NoLinesBefore
  <1>2. \A names : One(t, k, k, names) = None
    BY <1>1, Zenon DEF One
  <1>3. KindsOf(t, k, k) = {}
    BY <1>1 DEF KindsOf
  <1>4. ContentOf(t, k, k) = NoContent
    BY <1>3, Zenon DEF ContentOf
  <1>5. SaysOneThing(t, k, k)
    BY <1>1, <1>3 DEF SaysOneThing
  <1>6. \A name : LastOf(t, k, k, name) = Empty
    BY <1>1, LastOfNone
  <1>7. DomainsOf(t, k, k) = <<>> /\ MembersOf(t, k, k) = <<>> /\ RoutesOf(t, k, k) = <<>>
    <2>1. PICK p : p = <<>>
      OBVIOUS
    <2>2. DOMAIN p = {} /\ [i \in DOMAIN p |-> t[p[i]].args] = <<>>
          /\ [i \in DOMAIN p |-> Values(t, p[i])[1]] = <<>> /\ [i \in DOMAIN p |-> RouteOf(t, k, p[i])] = <<>>
      BY <2>1
    <2>3. In(t, k, k, {"domain"}) = p /\ In(t, k, k, {"server"}) = p /\ In(t, k, k, {"route"}) = p
      BY <1>1, <2>1
    <2>4. DomainsOf(t, k, k) = FlattenSeq(<<>>)
      BY <2>2, <2>3, Zenon DEF DomainsOf
    <2>5. MembersOf(t, k, k) = <<>> /\ RoutesOf(t, k, k) = <<>>
      BY <2>2, <2>3, Zenon DEF MembersOf, RoutesOf
    <2> QED
      BY <2>4, <2>5, FlatOfNone
  <1>8. PagesOf(t, k, k) = Empty
    <2>1. PICK f : f = PagesOf(t, k, k)
      OBVIOUS
    <2>2. DOMAIN f = {} /\ f = [s \in DOMAIN f |-> f[s]]
      BY <1>1, <2>1 DEF PagesOf
    <2>3. f = <<>>
      BY <2>2
    <2> QED
      BY <2>1, <2>3 DEF Empty
  <1> QED
    BY <1>2, <1>4, <1>5, <1>6, <1>7, <1>8

LEMMA NewBlocks ==
  ASSUME NEW t, NEW k \in Nat
  PROVE  /\ ServerWith(t, k, k, <<>>) = NewServer
         /\ GroupOf(t, k, k) = NewUpstream(t[k].args[1])
         /\ RouteOf(t, k, k) = NewRoute(IF Len(Values(t, k)) = 1 THEN None ELSE Values(t, k)[1],
                                        Values(t, k)[Len(Values(t, k))])
  <1>1. /\ \A names : One(t, k, k, names) = None
        /\ ContentOf(t, k, k) = NoContent /\ SaysOneThing(t, k, k)
        /\ \A name : LastOf(t, k, k, name) = Empty
        /\ DomainsOf(t, k, k) = <<>> /\ MembersOf(t, k, k) = <<>> /\ RoutesOf(t, k, k) = <<>>
        /\ PagesOf(t, k, k) = Empty
    BY NothingSaid
  <1>2. ServerWith(t, k, k, <<>>) = NewServer
    BY <1>1 DEF ServerWith, NewServer
  <1>3. GroupOf(t, k, k) = NewUpstream(t[k].args[1])
    BY <1>1 DEF GroupOf, NewUpstream
  <1>4. PICK m, u : /\ m = (IF Len(Values(t, k)) = 1 THEN None ELSE Values(t, k)[1])
                    /\ u = Values(t, k)[Len(Values(t, k))]
    OBVIOUS
  <1>5. RouteOf(t, k, k) = [matcher |-> m, uri |-> u, content |-> NoContent, headers |-> Empty,
                            status |-> None, default_content_type |-> None]
    BY <1>1, <1>4, Zenon DEF RouteOf
  <1>6. RouteOf(t, k, k) = NewRoute(m, u)
    BY <1>5 DEF NewRoute
  <1> QED
    BY <1>2, <1>3, <1>4, <1>6

-----------------------------------------------------------------------------
(* Blocks that are open and blocks that are closed *)

\* The k-th directive is in the block of the top level at s, or in one in it.
IsOpenAt(t, s, k) ==
  IF s = 0 THEN IsIn(t, 0, k)
  ELSE IsIn(t, 0, s) /\ (IsIn(t, s, k) \/ \E r \in Nat : IsIn(t, s, r) /\ IsIn(t, r, k))

LEMMA InsideIsLater == \A t, b, k : IsIn(t, b, k) => b < k
  BY DEF IsIn

LEMMA OthersAreClosed ==
  ASSUME NEW t, NEW s \in Nat, NEW k \in Nat, IsOpenAt(t, s, k),
         NEW j \in Nat \ {0}, IsIn(t, 0, j), j # s
  PROVE  ~IsIn(t, j, k) /\ \A r \in Nat : IsIn(t, j, r) => ~IsIn(t, r, k)
  <1>1. \A b, c \in Nat : IsIn(t, b, k) /\ IsIn(t, c, k) => b = c
    BY InsideOne
  <1>2. \A b, c, d \in Nat : IsIn(t, b, d) /\ IsIn(t, c, d) => b = c
    BY InsideOne
  <1>3. \A b \in Nat : ~IsIn(t, b, 0)
    <2> SUFFICES ASSUME NEW b \in Nat, IsIn(t, b, 0) PROVE FALSE
      OBVIOUS
    <2>1. b < 0
      BY InsideIsLater
    <2> QED
      BY <2>1
  <1>4. 0 \in Nat /\ j \in Nat /\ j # 0
    OBVIOUS
  <1>5. CASE s = 0
    <2>1. IsIn(t, 0, k)
      BY <1>5 DEF IsOpenAt
    <2> QED
      BY <1>1, <1>3, <1>4, <2>1
  <1>6. CASE s # 0 /\ IsIn(t, s, k)
    <2>1. IsIn(t, 0, s)
      BY <1>6 DEF IsOpenAt
    <2> QED
      BY <1>1, <1>2, <1>4, <1>6, <2>1
  <1>7. CASE s # 0 /\ ~IsIn(t, s, k)
    <2>1. PICK r \in Nat : IsIn(t, s, r) /\ IsIn(t, r, k)
      BY <1>7 DEF IsOpenAt
    <2>2. ~IsIn(t, j, k)
      <3> SUFFICES ASSUME IsIn(t, j, k) PROVE FALSE
        OBVIOUS
      <3>1. j = r
        BY <1>1, <1>4, <2>1
      <3>2. s = 0
        BY <1>2, <1>4, <2>1, <3>1
      <3> QED
        BY <1>7, <3>2
    <2> QED
      BY <1>1, <1>2, <1>4, <2>1, <2>2
  <1> QED
    BY <1>5, <1>6, <1>7

LEMMA TopIsClosed ==
  ASSUME NEW t, NEW s \in Nat \ {0}, NEW k \in Nat, IsOpenAt(t, s, k)
  PROVE  ~IsIn(t, 0, k)
  <1> SUFFICES ASSUME IsIn(t, 0, k) PROVE FALSE
    OBVIOUS
  <1>1. IsIn(t, s, k) \/ \E r \in Nat : IsIn(t, s, r) /\ IsIn(t, r, k)
    BY DEF IsOpenAt
  <1>2. \A r \in Nat : IsIn(t, r, k) => r = 0
    BY InsideOne
  <1>3. IsIn(t, s, 0)
    BY <1>1, <1>2
  <1>4. s < 0
    BY <1>3, InsideIsLater
  <1> QED
    BY <1>4

\* The lists of what is closed.
ServersBut(t, n, s, list) ==
  \E p \in Seq(1 .. n) : In(t, n, 0, {"server"}) = Append(p, s) /\ list = At(ServersAt(t, n), p)
GroupsBut(t, n, g, map) ==
  \E B \in SUBSET (1 .. g - 1) : Lines(t, n, 0, {"upstream"}) = B \cup {g} /\ map = GroupsFrom(t, n, B)
RoutesBut(t, n, s, r, list) ==
  \E p \in Seq(1 .. n) : In(t, n, s, {"route"}) = Append(p, r) /\ list = At(RoutesAt(t, n), p)

EndsWith(t, n, b, name, p, l) == p \in Seq(1 .. n) /\ In(t, n, b, {name}) = Append(p, l)
IsTheLast(t, n, b, name, p, l) ==
  /\ l \in 1 .. n /\ t[l].name = name /\ IsIn(t, b, l)
  /\ \A i \in DOMAIN p : p[i] \in Nat \ {0} /\ p[i] # l /\ t[p[i]].name = name /\ IsIn(t, b, p[i])

LEMMA OfTheLast ==
  ASSUME NEW t, NEW n \in Nat, NEW b, NEW name, NEW p, NEW l, EndsWith(t, n, b, name, p, l)
  PROVE  IsTheLast(t, n, b, name, p, l)
  <1>0. PICK names : names = {name}
    OBVIOUS
  <1>1. PICK q : q = In(t, n, b, names) /\ q = Append(p, l) /\ p \in Seq(1 .. n)
    BY <1>0 DEF EndsWith
  <1>2. /\ q \in Seq(1 .. n) /\ Len(q) \in Nat /\ DOMAIN q = 1 .. Len(q)
        /\ \A k \in DOMAIN q : q[k] \in Lines(t, n, b, names)
        /\ \A j \in Lines(t, n, b, names) : \E k \in DOMAIN q : q[k] = j
        /\ IsRising(q)
    BY <1>1, PlacesAreLines
  <1>3. PICK m \in Nat : DOMAIN p = 1 .. m /\ DOMAIN q = 1 .. m + 1 /\ q[m + 1] = l /\ \A i \in 1 .. m : q[i] = p[i]
    <2>1. p \in Seq((1 .. n) \cup {l}) /\ Len(p) \in Nat
      <3>1. 1 .. n \subseteq (1 .. n) \cup {l}
        OBVIOUS
      <3>2. Seq(1 .. n) \subseteq Seq((1 .. n) \cup {l})
        BY <3>1, SeqMonotonic, Zenon
      <3>3. Len(p) \in Nat
        BY <1>1
      <3> QED
        BY <1>1, <3>2, <3>3
    <2> QED
      BY <1>1, <2>1
  <1>4. m + 1 \in DOMAIN q /\ \A i \in 1 .. m : i \in DOMAIN q /\ i < m + 1
    BY <1>3
  <1>5. \A j \in Lines(t, n, b, names) : j \in 1 .. n /\ t[j].name \in names /\ IsIn(t, b, j)
    BY DEF Lines
  <1>6. \A i \in 1 .. m : q[i] < q[m + 1]
    BY <1>2, <1>4 DEF IsRising
  <1>7. \A i \in 1 .. m : p[i] \in 1 .. n /\ p[i] < l /\ t[p[i]].name \in names /\ IsIn(t, b, p[i])
    BY <1>2, <1>3, <1>4, <1>5, <1>6
  <1>8. l \in 1 .. n /\ t[l].name \in names /\ IsIn(t, b, l)
    BY <1>2, <1>3, <1>4, <1>5
  <1> QED
    BY <1>0, <1>3, <1>7, <1>8 DEF IsTheLast

LEMMA ClosedServersSame ==
  ASSUME NEW t, NEW n \in Nat, NEW s \in Nat, IsOpenAt(t, s, n + 1), NEW p \in Seq(1 .. n),
         \A i \in DOMAIN p : p[i] \in Nat \ {0} /\ p[i] # s /\ IsIn(t, 0, p[i])
  PROVE  At(ServersAt(t, n + 1), p) = At(ServersAt(t, n), p)
  <1>1. PICK k : k = n + 1
    OBVIOUS
  <1>2. \A i \in DOMAIN p : ~IsIn(t, p[i], k) /\ \A r \in Nat : IsIn(t, p[i], r) => ~IsIn(t, r, k)
    BY <1>1, OthersAreClosed
  <1>3. \A i \in DOMAIN p : \A r \in Lines(t, n, p[i], {"route"}) : ~IsIn(t, r, k)
    BY <1>2 DEF Lines
  <1> QED
    BY <1>1, <1>2, <1>3, ServersAtSame

LEMMA ServersButSame ==
  ASSUME NEW t, NEW n \in Nat, NEW s \in Nat \ {0}, IsOpenAt(t, s, n + 1), NEW list, ServersBut(t, n, s, list)
  PROVE  ServersBut(t, n + 1, s, list)
  <1>1. PICK p \in Seq(1 .. n) : In(t, n, 0, {"server"}) = Append(p, s) /\ list = At(ServersAt(t, n), p)
    BY DEF ServersBut
  <1>2. \A i \in DOMAIN p : p[i] \in Nat \ {0} /\ p[i] # s /\ IsIn(t, 0, p[i])
    <2>1. EndsWith(t, n, 0, "server", p, s)
      BY <1>1 DEF EndsWith
    <2>2. IsTheLast(t, n, 0, "server", p, s)
      BY <2>1, OfTheLast
    <2> QED
      BY <2>2 DEF IsTheLast
  <1>3. At(ServersAt(t, n + 1), p) = At(ServersAt(t, n), p)
    BY <1>2, ClosedServersSame
  <1>4. ~IsIn(t, 0, n + 1)
    BY TopIsClosed
  <1>5. In(t, n + 1, 0, {"server"}) = In(t, n, 0, {"server"})
    <2>1. PICK names : names = {"server"}
      OBVIOUS
    <2>2. ~Adds(t, n, 0, names)
      BY <1>4, NotInside
    <2>3. Lines(t, n + 1, 0, names) = Lines(t, n, 0, names) /\ In(t, n + 1, 0, names) = In(t, n, 0, names)
      BY <2>2, NotAdded
    <2> QED
      BY <2>1, <2>3
  <1>6. p \in Seq(1 .. n + 1)
    <2>1. 1 .. n \subseteq 1 .. n + 1
      OBVIOUS
    <2> QED
      BY <2>1, SeqMonotonic
  <1> QED
    BY <1>1, <1>3, <1>5, <1>6, Zenon DEF ServersBut

LEMMA ServersOfSame ==
  ASSUME NEW t, NEW n \in Nat, NEW s \in Nat, IsOpenAt(t, s, n + 1),
         s # 0 => t[s].name # "server", s = 0 => t[n + 1].name # "server"
  PROVE  ServersOf(t, n + 1) = ServersOf(t, n)
  <1>1. PICK p : p = In(t, n, 0, {"server"})
    OBVIOUS
  <1>2. In(t, n + 1, 0, {"server"}) = p
    <2>1. ~Adds(t, n, 0, {"server"})
      <3>1. s # 0 => ~IsIn(t, 0, n + 1)
        BY TopIsClosed
      <3> QED
        BY <3>1 DEF Adds
    <2> QED
      BY <1>1, <2>1, NotAdded
  <1>3. p \in Seq(1 .. n) /\ \A i \in DOMAIN p : p[i] \in Lines(t, n, 0, {"server"})
    BY <1>1, PlacesAreLines
  <1>4. \A i \in DOMAIN p : p[i] \in Nat \ {0} /\ p[i] # s /\ IsIn(t, 0, p[i])
    BY <1>3 DEF Lines
  <1>5. At(ServersAt(t, n + 1), p) = At(ServersAt(t, n), p)
    BY <1>3, <1>4, ClosedServersSame
  <1>6. ServersOf(t, n) = At(ServersAt(t, n), p)
    BY <1>1, ListsAreAt
  <1>7. ServersOf(t, n + 1) = At(ServersAt(t, n + 1), p)
    BY <1>2, ListsAreAt
  <1> QED
    BY <1>5, <1>6, <1>7

LEMMA ServerOpened ==
  ASSUME NEW t, NEW n \in Nat, IsIn(t, 0, n + 1), t[n + 1].name = "server"
  PROVE  ServersBut(t, n + 1, n + 1, ServersOf(t, n))
  <1>1. PICK p, names : p = In(t, n, 0, {"server"}) /\ names = {"server"}
    OBVIOUS
  <1>2. In(t, n + 1, 0, names) = Append(p, n + 1)
    <2>1. Adds(t, n, 0, names)
      BY <1>1 DEF Adds
    <2>2. /\ Lines(t, n + 1, 0, names) = Lines(t, n, 0, names) \cup {n + 1}
          /\ In(t, n + 1, 0, names) = Append(In(t, n, 0, names), n + 1)
      BY <2>1, LinesAdded
    <2> QED
      BY <1>1, <2>2, Zenon
  <1>3. p \in Seq(1 .. n) /\ \A i \in DOMAIN p : p[i] \in Lines(t, n, 0, {"server"})
    BY <1>1, PlacesAreLines
  <1>4. \A i \in DOMAIN p : p[i] \in Nat \ {0} /\ p[i] # 0 /\ IsIn(t, 0, p[i])
    BY <1>3 DEF Lines
  <1>5. IsOpenAt(t, 0, n + 1)
    BY DEF IsOpenAt
  <1>6. At(ServersAt(t, n + 1), p) = At(ServersAt(t, n), p)
    BY <1>3, <1>4, <1>5, ClosedServersSame
  <1>7. ServersOf(t, n) = At(ServersAt(t, n), p)
    BY <1>1, ListsAreAt
  <1>8. p \in Seq(1 .. n + 1)
    <2>1. 1 .. n \subseteq 1 .. n + 1
      OBVIOUS
    <2> QED
      BY <1>3, <2>1, SeqMonotonic
  <1> QED
    BY <1>1, <1>2, <1>6, <1>7, <1>8, Zenon DEF ServersBut

LEMMA ServerClosed ==
  ASSUME NEW t, NEW n \in Nat, NEW s, NEW list, ServersBut(t, n, s, list)
  PROVE  ServersOf(t, n) = Append(list, ServerOf(t, n, s))
  <1>1. PICK p \in Seq(1 .. n) : In(t, n, 0, {"server"}) = Append(p, s) /\ list = At(ServersAt(t, n), p)
    BY DEF ServersBut
  <1>2. s \in 1 .. n
    <2>1. EndsWith(t, n, 0, "server", p, s)
      BY <1>1 DEF EndsWith
    <2>2. IsTheLast(t, n, 0, "server", p, s)
      BY <2>1, OfTheLast
    <2> QED
      BY <2>2 DEF IsTheLast
  <1>3. PICK f, N : f = ServersAt(t, n) /\ N = 1 .. n
    OBVIOUS
  <1>4. f[s] = ServerOf(t, n, s)
    BY <1>2, <1>3 DEF ServersAt
  <1>5. At(f, Append(p, s)) = Append(At(f, p), f[s])
    <2>1. p \in Seq(N)
      BY <1>3
    <2> QED
      BY <2>1, AtMore
  <1>6. ServersOf(t, n) = At(f, In(t, n, 0, {"server"}))
    BY <1>3, ListsAreAt
  <1> QED
    BY <1>1, <1>3, <1>4, <1>5, <1>6, Zenon

-----------------------------------------------------------------------------
(* Blocks that are closed stay as they are *)

LEMMA ClosedGroupsSame ==
  ASSUME NEW t, NEW n \in Nat, NEW s \in Nat, IsOpenAt(t, s, n + 1), NEW B \in SUBSET (1 .. n),
         \A b \in B : b # s /\ IsIn(t, 0, b)
  PROVE  GroupsFrom(t, n + 1, B) = GroupsFrom(t, n, B)
  <1>1. \A b \in B : b \in Nat \ {0} /\ b # s /\ IsIn(t, 0, b)
    OBVIOUS
  <1>2. \A b \in B : ~IsIn(t, b, n + 1)
    <2>1. PICK k : k = n + 1 /\ k \in Nat
      OBVIOUS
    <2>2. \A b \in B : ~IsIn(t, b, k)
      BY <1>1, <2>1, OthersAreClosed
    <2> QED
      BY <2>1, <2>2
  <1> QED
    BY <1>2, GroupsFromSame

LEMMA GroupsOfSame ==
  ASSUME NEW t, NEW n \in Nat, NEW s \in Nat, IsOpenAt(t, s, n + 1),
         s # 0 => t[s].name # "upstream", s = 0 => t[n + 1].name # "upstream"
  PROVE  GroupsOf(t, n + 1) = GroupsOf(t, n)
  <1>1. PICK B, names : B = Lines(t, n, 0, names) /\ names = {"upstream"}
    OBVIOUS
  <1>2. Lines(t, n + 1, 0, names) = B
    <2>1. ~Adds(t, n, 0, names)
      <3>1. s # 0 => ~IsIn(t, 0, n + 1)
        BY TopIsClosed
      <3> QED
        BY <1>1, <3>1 DEF Adds
    <2>2. Lines(t, n + 1, 0, names) = Lines(t, n, 0, names) /\ In(t, n + 1, 0, names) = In(t, n, 0, names)
      BY <2>1, NotAdded
    <2> QED
      BY <1>1, <2>2
  <1>3. B \in SUBSET (1 .. n) /\ \A b \in B : b # s /\ IsIn(t, 0, b)
    BY <1>1 DEF Lines
  <1>4. GroupsFrom(t, n + 1, B) = GroupsFrom(t, n, B)
    BY <1>3, ClosedGroupsSame
  <1>5. GroupsOf(t, n) = GroupsFrom(t, n, B) /\ GroupsOf(t, n + 1) = GroupsFrom(t, n + 1, B)
    BY <1>1, <1>2, GroupsAreFrom, Zenon
  <1> QED
    BY <1>4, <1>5, Zenon

LEMMA GroupsButSame ==
  ASSUME NEW t, NEW n \in Nat, NEW g \in 1 .. n, IsOpenAt(t, g, n + 1), NEW map, GroupsBut(t, n, g, map)
  PROVE  GroupsBut(t, n + 1, g, map)
  <1>1. PICK names : names = {"upstream"}
    OBVIOUS
  <1>2. PICK B \in SUBSET (1 .. g - 1) : Lines(t, n, 0, names) = B \cup {g} /\ map = GroupsFrom(t, n, B)
    BY <1>1 DEF GroupsBut
  <1>3. ~IsIn(t, 0, n + 1)
    BY TopIsClosed
  <1>4. Lines(t, n + 1, 0, names) = B \cup {g}
    <2>1. ~Adds(t, n, 0, names)
      BY <1>3, NotInside
    <2>2. Lines(t, n + 1, 0, names) = Lines(t, n, 0, names) /\ In(t, n + 1, 0, names) = In(t, n, 0, names)
      BY <2>1, NotAdded
    <2> QED
      BY <1>2, <2>2, Zenon
  <1>5. B \in SUBSET (1 .. n) /\ \A b \in B : b # g /\ IsIn(t, 0, b)
    <2>1. \A b \in 1 .. g - 1 : b \in 1 .. n /\ b # g
      OBVIOUS
    <2>2. \A b \in Lines(t, n, 0, names) : IsIn(t, 0, b)
      BY DEF Lines
    <2> QED
      BY <1>2, <2>1, <2>2
  <1>6. GroupsFrom(t, n + 1, B) = GroupsFrom(t, n, B)
    BY <1>5, ClosedGroupsSame
  <1> QED
    BY <1>1, <1>2, <1>4, <1>6, Zenon DEF GroupsBut

LEMMA GroupOpened ==
  ASSUME NEW t, NEW n \in Nat, IsIn(t, 0, n + 1), t[n + 1].name = "upstream"
  PROVE  GroupsBut(t, n + 1, n + 1, GroupsOf(t, n))
  <1>1. PICK B, names, k : B = Lines(t, n, 0, names) /\ names = {"upstream"} /\ k = n + 1
    OBVIOUS
  <1>2. Lines(t, k, 0, names) = B \cup {k}
    <2>1. Adds(t, n, 0, names)
      BY <1>1 DEF Adds
    <2>2. /\ Lines(t, n + 1, 0, names) = Lines(t, n, 0, names) \cup {n + 1}
          /\ In(t, n + 1, 0, names) = Append(In(t, n, 0, names), n + 1)
      BY <2>1, LinesAdded
    <2> QED
      BY <1>1, <2>2, Zenon
  <1>3. B \in SUBSET (1 .. n) /\ \A b \in B : b # 0 /\ IsIn(t, 0, b)
    BY <1>1 DEF Lines
  <1>4. IsOpenAt(t, 0, n + 1)
    BY DEF IsOpenAt
  <1>5. GroupsFrom(t, n + 1, B) = GroupsFrom(t, n, B)
    BY <1>3, <1>4, ClosedGroupsSame
  <1>6. GroupsOf(t, n) = GroupsFrom(t, n, B)
    BY <1>1, GroupsAreFrom, Zenon
  <1>7. B \in SUBSET (1 .. k - 1)
    <2>1. k - 1 = n
      BY <1>1
    <2> QED
      BY <1>3, <2>1
  <1>8. GroupsBut(t, k, k, GroupsOf(t, n))
    BY <1>1, <1>2, <1>5, <1>6, <1>7, Zenon DEF GroupsBut
  <1> QED
    BY <1>1, <1>8

LEMMA GroupClosed ==
  ASSUME NEW t, NEW n, NEW g \in Nat \ {0}, NEW map, GroupsBut(t, n, g, map)
  PROVE  GroupsOf(t, n) = Put(map, t[g].args[1], GroupOf(t, n, g))
  <1>1. PICK B \in SUBSET (1 .. g - 1) : Lines(t, n, 0, {"upstream"}) = B \cup {g} /\ map = GroupsFrom(t, n, B)
    BY DEF GroupsBut
  <1>2. GroupsFrom(t, n, B \cup {g}) = Put(GroupsFrom(t, n, B), t[g].args[1], GroupOf(t, n, g))
    BY GroupsFromPut
  <1>3. GroupsOf(t, n) = GroupsFrom(t, n, Lines(t, n, 0, {"upstream"}))
    BY GroupsAreFrom
  <1> QED
    BY <1>1, <1>2, <1>3, Zenon

-----------------------------------------------------------------------------
(* The routes of a server *)

LEMMA RoutesOfSame ==
  ASSUME NEW t, NEW n \in Nat, NEW s \in Nat, IsIn(t, s, n + 1), t[n + 1].name # "route"
  PROVE  RoutesOf(t, n + 1, s) = RoutesOf(t, n, s)
  <1>1. ~Adds(t, n, s, {"route"})
    BY DEF Adds
  <1>2. ASSUME NEW r \in Lines(t, n, s, {"route"}) PROVE ~IsIn(t, r, n + 1)
    <2> SUFFICES ASSUME IsIn(t, r, n + 1) PROVE FALSE
      OBVIOUS
    <2>1. r \in Nat /\ IsIn(t, s, r)
      BY DEF Lines
    <2>2. r = s
      BY <2>1, InsideOne
    <2>3. s < s
      BY <2>1, <2>2, InsideIsLater
    <2> QED
      BY <2>3
  <1> QED
    BY <1>1, <1>2, RoutesSame

LEMMA ClosedRoutesSame ==
  ASSUME NEW t, NEW n \in Nat, NEW s \in Nat, NEW b \in Nat, IsIn(t, b, n + 1), NEW p \in Seq(1 .. n),
         \A i \in DOMAIN p : p[i] # b
  PROVE  At(RoutesAt(t, n + 1), p) = At(RoutesAt(t, n), p)
  <1>1. \A i \in DOMAIN p : p[i] \in Nat
    OBVIOUS
  <1>2. PICK k : k = n + 1 /\ k \in Nat
    OBVIOUS
  <1>3. \A i \in DOMAIN p : ~IsIn(t, p[i], k)
    BY <1>1, <1>2, InsideOne
  <1> QED
    BY <1>2, <1>3, RoutesAtSame

LEMMA RoutesButSame ==
  ASSUME NEW t, NEW n \in Nat, NEW s \in Nat, NEW r \in Nat, IsIn(t, s, r), IsIn(t, r, n + 1),
         NEW list, RoutesBut(t, n, s, r, list)
  PROVE  RoutesBut(t, n + 1, s, r, list)
  <1>0. PICK names : names = {"route"}
    OBVIOUS
  <1>1. PICK p \in Seq(1 .. n) : In(t, n, s, names) = Append(p, r) /\ list = At(RoutesAt(t, n), p)
    BY <1>0 DEF RoutesBut
  <1>2. \A i \in DOMAIN p : p[i] # r
    <2>1. EndsWith(t, n, s, "route", p, r)
      BY <1>0, <1>1 DEF EndsWith
    <2>2. IsTheLast(t, n, s, "route", p, r)
      BY <2>1, OfTheLast
    <2> QED
      BY <2>2 DEF IsTheLast
  <1>3. At(RoutesAt(t, n + 1), p) = At(RoutesAt(t, n), p)
    BY <1>2, ClosedRoutesSame
  <1>4. In(t, n + 1, s, names) = In(t, n, s, names)
    <2>1. ~IsIn(t, s, n + 1)
      <3> SUFFICES ASSUME IsIn(t, s, n + 1) PROVE FALSE
        OBVIOUS
      <3>1. r = s
        BY InsideOne
      <3>2. s < s
        BY <3>1, InsideIsLater
      <3> QED
        BY <3>2
    <2>2. ~Adds(t, n, s, names)
      BY <2>1, NotInside
    <2>3. Lines(t, n + 1, s, names) = Lines(t, n, s, names) /\ In(t, n + 1, s, names) = In(t, n, s, names)
      BY <2>2, NotAdded
    <2> QED
      BY <2>3
  <1>5. p \in Seq(1 .. n + 1)
    <2>1. 1 .. n \subseteq 1 .. n + 1
      OBVIOUS
    <2> QED
      BY <2>1, SeqMonotonic
  <1> QED
    BY <1>0, <1>1, <1>3, <1>4, <1>5, Zenon DEF RoutesBut

LEMMA RouteOpened ==
  ASSUME NEW t, NEW n \in Nat, NEW s \in Nat, IsIn(t, s, n + 1), t[n + 1].name = "route"
  PROVE  RoutesBut(t, n + 1, s, n + 1, RoutesOf(t, n, s))
  <1>1. PICK p, names : p = In(t, n, s, names) /\ names = {"route"}
    OBVIOUS
  <1>2. In(t, n + 1, s, names) = Append(p, n + 1)
    <2>1. Adds(t, n, s, names)
      BY <1>1 DEF Adds
    <2>2. /\ Lines(t, n + 1, s, names) = Lines(t, n, s, names) \cup {n + 1}
          /\ In(t, n + 1, s, names) = Append(In(t, n, s, names), n + 1)
      BY <2>1, LinesAdded
    <2> QED
      BY <1>1, <2>2, Zenon
  <1>3. p \in Seq(1 .. n) /\ \A i \in DOMAIN p : p[i] \in Lines(t, n, s, names)
    BY <1>1, PlacesAreLines
  <1>4. \A i \in DOMAIN p : p[i] # s
    <2>1. \A i \in DOMAIN p : s < p[i] /\ p[i] \in Nat
      BY <1>3, InsideIsLater DEF Lines
    <2> QED
      BY <2>1
  <1>5. At(RoutesAt(t, n + 1), p) = At(RoutesAt(t, n), p)
    BY <1>3, <1>4, ClosedRoutesSame
  <1>6. RoutesOf(t, n, s) = At(RoutesAt(t, n), p)
    BY <1>1, ListsAreAt, Zenon
  <1>7. p \in Seq(1 .. n + 1)
    <2>1. 1 .. n \subseteq 1 .. n + 1
      OBVIOUS
    <2> QED
      BY <1>3, <2>1, SeqMonotonic
  <1> QED
    BY <1>1, <1>2, <1>5, <1>6, <1>7, Zenon DEF RoutesBut

LEMMA RouteClosed ==
  ASSUME NEW t, NEW n \in Nat, NEW s, NEW r, NEW list, RoutesBut(t, n, s, r, list)
  PROVE  RoutesOf(t, n, s) = Append(list, RouteOf(t, n, r))
  <1>1. PICK p \in Seq(1 .. n) : In(t, n, s, {"route"}) = Append(p, r) /\ list = At(RoutesAt(t, n), p)
    BY DEF RoutesBut
  <1>2. r \in 1 .. n
    <2>1. EndsWith(t, n, s, "route", p, r)
      BY <1>1 DEF EndsWith
    <2>2. IsTheLast(t, n, s, "route", p, r)
      BY <2>1, OfTheLast
    <2> QED
      BY <2>2 DEF IsTheLast
  <1>3. PICK f, N : f = RoutesAt(t, n) /\ N = 1 .. n
    OBVIOUS
  <1>4. f[r] = RouteOf(t, n, r)
    BY <1>2, <1>3 DEF RoutesAt
  <1>5. At(f, Append(p, r)) = Append(At(f, p), f[r])
    <2>1. p \in Seq(N)
      BY <1>3
    <2> QED
      BY <2>1, AtMore
  <1>6. RoutesOf(t, n, s) = At(f, In(t, n, s, {"route"}))
    BY <1>3, ListsAreAt
  <1> QED
    BY <1>1, <1>3, <1>4, <1>5, <1>6, Zenon

-----------------------------------------------------------------------------
(* A directive that is of no block, or of another one *)

LEMMA ServerWithSame ==
  ASSUME NEW t, NEW n \in Nat, NEW b, NEW routes,
         ~IsIn(t, b, n + 1) \/ t[n + 1].name \notin Single["server"] \cup {"domain", "error_page"}
  PROVE  ServerWith(t, n + 1, b, routes) = ServerWith(t, n, b, routes)
  <1>1. \A name \in Single["server"] \cup {"domain", "error_page"} : ~Adds(t, n, b, {name})
    BY DEF Adds
  <1>2. \A name \in Single["server"] : One(t, n + 1, b, {name}) = One(t, n, b, {name})
    BY <1>1, OneSame
  <1>3. /\ One(t, n + 1, b, {"port"}) = One(t, n, b, {"port"}) /\ One(t, n + 1, b, {"ip"}) = One(t, n, b, {"ip"})
        /\ One(t, n + 1, b, {"default"}) = One(t, n, b, {"default"})
        /\ One(t, n + 1, b, {"ssl_cert"}) = One(t, n, b, {"ssl_cert"})
        /\ One(t, n + 1, b, {"ssl_keys"}) = One(t, n, b, {"ssl_keys"})
        /\ One(t, n + 1, b, {"header_timeout"}) = One(t, n, b, {"header_timeout"})
        /\ One(t, n + 1, b, {"body_timeout"}) = One(t, n, b, {"body_timeout"})
        /\ One(t, n + 1, b, {"send_timeout"}) = One(t, n, b, {"send_timeout"})
    <2>1. \A name \in {"port", "ip", "default", "ssl_cert", "ssl_keys", "header_timeout", "body_timeout", "send_timeout"} :
            name \in Single["server"]
      BY DEF Single, Timeouts
    <2> QED
      BY <1>2, <2>1
  <1>4. DomainsOf(t, n + 1, b) = DomainsOf(t, n, b) /\ PagesOf(t, n + 1, b) = PagesOf(t, n, b)
    <2>1. ~Adds(t, n, b, {"domain"}) /\ ~Adds(t, n, b, {"error_page"})
      BY <1>1
    <2> QED
      BY <2>1, DomainsSame, PagesSame
  <1> QED
    BY <1>3, <1>4, Zenon DEF ServerWith

LEMMA RouteOfSame ==
  ASSUME NEW t, NEW n \in Nat, NEW b,
         ~IsIn(t, b, n + 1) \/ t[n + 1].name \notin Single["route"] \cup ContentLines \cup {"header"}
  PROVE  RouteOf(t, n + 1, b) = RouteOf(t, n, b)
  <1>1. /\ ~Adds(t, n, b, ContentLines) /\ ~Adds(t, n, b, {"header"})
        /\ ~Adds(t, n, b, {"status"}) /\ ~Adds(t, n, b, {"default_content_type"})
    BY DEF Adds, Single
  <1>2. /\ ContentOf(t, n + 1, b) = ContentOf(t, n, b)
        /\ LastOf(t, n + 1, b, "header") = LastOf(t, n, b, "header")
        /\ One(t, n + 1, b, {"status"}) = One(t, n, b, {"status"})
        /\ One(t, n + 1, b, {"default_content_type"}) = One(t, n, b, {"default_content_type"})
    BY <1>1, ContentSame, LastOfSame, OneSame
  <1> QED
    BY <1>2, Zenon DEF RouteOf

LEMMA GroupOfSame ==
  ASSUME NEW t, NEW n \in Nat, NEW b,
         ~IsIn(t, b, n + 1) \/ t[n + 1].name \notin Single["upstream"] \cup {"server"}
  PROVE  GroupOf(t, n + 1, b) = GroupOf(t, n, b)
  <1>1. /\ ~Adds(t, n, b, {"server"}) /\ ~Adds(t, n, b, Balancings)
        /\ ~Adds(t, n, b, {"connect_timeout"}) /\ ~Adds(t, n, b, {"header_timeout"})
        /\ ~Adds(t, n, b, {"body_timeout"}) /\ ~Adds(t, n, b, {"send_timeout"})
    BY DEF Adds, Single, Timeouts
  <1>2. /\ MembersOf(t, n + 1, b) = MembersOf(t, n, b)
        /\ One(t, n + 1, b, Balancings) = One(t, n, b, Balancings)
        /\ One(t, n + 1, b, {"connect_timeout"}) = One(t, n, b, {"connect_timeout"})
        /\ One(t, n + 1, b, {"header_timeout"}) = One(t, n, b, {"header_timeout"})
        /\ One(t, n + 1, b, {"body_timeout"}) = One(t, n, b, {"body_timeout"})
        /\ One(t, n + 1, b, {"send_timeout"}) = One(t, n, b, {"send_timeout"})
    BY <1>1, MembersSame, OneSame
  <1> QED
    BY <1>2, Zenon DEF GroupOf

\* Each route says one thing.
AllSayOneThing(t, n) == \A r \in 1 .. n : t[r].name = "route" => SaysOneThing(t, n, r)

LEMMA AllSayOneThingMore ==
  ASSUME NEW t, NEW n \in Nat, AllSayOneThing(t, n),
         \A r \in 1 .. n : IsIn(t, r, n + 1) /\ t[r].name = "route" /\ t[n + 1].name \in ContentLines =>
           SaysOneThing(t, n + 1, r)
  PROVE  AllSayOneThing(t, n + 1)
  <1> SUFFICES ASSUME NEW r \in 1 .. n + 1, t[r].name = "route" PROVE SaysOneThing(t, n + 1, r)
    BY DEF AllSayOneThing
  <1>1. CASE r = n + 1
    <2>1. PICK k : k = n + 1 /\ k \in Nat
      OBVIOUS
    <2>2. SaysOneThing(t, k, k)
      BY <2>1, NothingSaid
    <2> QED
      BY <1>1, <2>1, <2>2
  <1>2. CASE r # n + 1
    <2>1. r \in 1 .. n
      BY <1>2
    <2>2. SaysOneThing(t, n, r)
      BY <2>1 DEF AllSayOneThing
    <2>3. CASE Adds(t, n, r, ContentLines)
      BY <2>1, <2>3 DEF Adds
    <2>4. CASE ~Adds(t, n, r, ContentLines)
      <3>1. SaysOneThing(t, n + 1, r) <=> SaysOneThing(t, n, r)
        BY <2>4, ContentSame
      <3> QED
        BY <2>2, <3>1
    <2> QED
      BY <2>3, <2>4
  <1> QED
    BY <1>1, <1>2

-----------------------------------------------------------------------------
(* What is built while the blocks are read *)

OpenHasBlocks == open = [b \in {"server", "route", "upstream"} |-> open[b]]

AllIsWritten == servers = ServersOf(text, pos) /\ upstreams = GroupsOf(text, pos)

ServerIsRead(s) ==
  /\ text[s].name = "server" /\ IsIn(text, 0, s)
  /\ ServersBut(text, pos, s, servers) /\ upstreams = GroupsOf(text, pos)

ServerIsBuilt(s) ==
  /\ ServerIsRead(s) /\ IsIn(text, s, pos + 1)
  /\ open["server"] = ServerWith(text, pos, s, RoutesOf(text, pos, s))

RouteIsBuilt(s, r) ==
  /\ ServerIsRead(s) /\ text[r].name = "route" /\ IsIn(text, s, r) /\ IsIn(text, r, pos + 1)
  /\ \E routes : /\ RoutesBut(text, pos, s, r, routes)
                 /\ open["server"] = ServerWith(text, pos, s, routes)
  /\ open["route"] = RouteOf(text, pos, r)

GroupIsBuilt(g) ==
  /\ text[g].name = "upstream" /\ IsIn(text, 0, g) /\ IsIn(text, g, pos + 1)
  /\ servers = ServersOf(text, pos) /\ GroupsBut(text, pos, g, upstreams)
  /\ open["upstream"] = GroupOf(text, pos, g)

BuildInv ==
  /\ OpenHasBlocks
  /\ AllSayOneThing(text, pos)
  /\ at = "top" => IsIn(text, 0, pos + 1) /\ AllIsWritten
  /\ at = "server" => \E s \in 1 .. pos : ServerIsBuilt(s)
  /\ at = "route" => \E s, r \in 1 .. pos : RouteIsBuilt(s, r)
  /\ at = "upstream" => \E g \in 1 .. pos : GroupIsBuilt(g)
  /\ at \in {"read", "parsed"} => AllIsWritten

\* What a directive gives.
LEMMA ArgsAreValues ==
  ASSUME ParseInv, at \in Blocks, pos < Len(text)
  PROVE  /\ Args = Values(text, pos + 1) /\ DOMAIN Args = 1 .. Len(Raw) /\ Len(Raw) \in Nat
         /\ Raw = text[pos + 1].args /\ SingleValue = SingleOf(text, pos + 1)
  <1>1. pos + 1 \in 1 .. Len(text) /\ Len(text) \in Nat /\ IsText(text)
    BY PlacesOfText DEF ParseInv, StackInv
  <1>2. PICK k : k = pos + 1 /\ k \in 1 .. Len(text)
    BY <1>1
  <1>3. Raw = text[k].args /\ Directive = text[k]
    BY <1>2 DEF Raw, Directive
  <1>4. DOMAIN Raw = 1 .. Len(Raw) /\ Len(Raw) \in Nat /\ (Raw # <<>> => 1 \in DOMAIN Raw)
    BY <1>1, <1>2, <1>3, TextPlaces
  <1>5. Values(text, k) = SaidBy(text, Said(text), k)
    BY <1>1, <1>2, SaidSays DEF Values
  <1>6. \A token : Expand(token) = ValueBy(text, Said(text), k, token)
    BY <1>2, ExpandedIsValue DEF ParseInv
  <1>7. Args = Values(text, k)
    <2>1. Args = [i \in DOMAIN Raw |-> Expand(Raw[i])]
      BY DEF Args
    <2>2. Values(text, k) = [i \in DOMAIN Raw |-> ValueBy(text, Said(text), k, Raw[i])]
      BY <1>3, <1>5, Zenon DEF SaidBy
    <2> QED
      BY <1>6, <2>1, <2>2
  <1>8. SingleValue = SingleOf(text, k)
    BY <1>3, <1>7, Zenon DEF SingleValue, SingleOf
  <1> QED
    BY <1>2, <1>3, <1>4, <1>7, <1>8 DEF Args

LEMMA ServerStands ==
  ASSUME NEW t, NEW n \in Nat, NEW s \in 1 .. n, t[s].name = "server", IsOpenAt(t, s, n + 1),
         NEW list, ServersBut(t, n, s, list)
  PROVE  ServersBut(t, n + 1, s, list) /\ GroupsOf(t, n + 1) = GroupsOf(t, n)
  <1>1. ServersBut(t, n + 1, s, list)
    BY ServersButSame
  <1>2. s \in Nat /\ s # 0 /\ t[s].name # "upstream"
    OBVIOUS
  <1>3. GroupsOf(t, n + 1) = GroupsOf(t, n)
    BY <1>2, GroupsOfSame
  <1> QED
    BY <1>1, <1>3

LEMMA GroupStands ==
  ASSUME NEW t, NEW n \in Nat, NEW g \in 1 .. n, t[g].name = "upstream", IsIn(t, 0, g), IsIn(t, g, n + 1),
         NEW map, GroupsBut(t, n, g, map)
  PROVE  GroupsBut(t, n + 1, g, map) /\ ServersOf(t, n + 1) = ServersOf(t, n)
  <1>1. IsOpenAt(t, g, n + 1)
    BY DEF IsOpenAt
  <1>2. GroupsBut(t, n + 1, g, map)
    BY <1>1, GroupsButSame
  <1>3. g \in Nat /\ g # 0 /\ t[g].name # "server"
    OBVIOUS
  <1>4. ServersOf(t, n + 1) = ServersOf(t, n)
    BY <1>1, <1>3, ServersOfSame
  <1> QED
    BY <1>2, <1>4

LEMMA TopStands ==
  ASSUME NEW t, NEW n \in Nat, IsIn(t, 0, n + 1)
  PROVE  /\ t[n + 1].name # "server" => ServersOf(t, n + 1) = ServersOf(t, n)
         /\ t[n + 1].name # "upstream" => GroupsOf(t, n + 1) = GroupsOf(t, n)
  <1>1. IsOpenAt(t, 0, n + 1)
    BY DEF IsOpenAt
  <1> QED
    BY <1>1, ServersOfSame, GroupsOfSame

\* The block of a directive.
LEMMA RouteOfDirective ==
  ASSUME NEW t, NEW n \in Nat, NEW b \in Nat, IsIn(t, b, n + 1), AllSayOneThing(t, n),
         b # 0 /\ t[b].name = "route" /\ t[n + 1].name \in ContentLines => SaysOneThing(t, n + 1, b)
  PROVE  AllSayOneThing(t, n + 1)
  <1>1. PICK k : k = n + 1 /\ k \in Nat
    OBVIOUS
  <1>2. \A r \in 1 .. n : IsIn(t, r, k) => r = b
    BY <1>1, InsideOne
  <1>3. \A r \in 1 .. n : r # 0
    OBVIOUS
  <1> QED
    BY <1>1, <1>2, <1>3, AllSayOneThingMore

-----------------------------------------------------------------------------
(* A directive more in the block that is read *)

\* Another directive was read, that opens and closes nothing.
ReadsOn ==
  /\ text' = text /\ pos < Len(text) /\ pos' = pos + 1 /\ at' = at
  /\ ~IsOpening(Directive) /\ ~IsClosing(Directive)
  /\ UNCHANGED <<servers, upstreams>> /\ OpenHasBlocks'

LEMMA InsideNext ==
  ASSUME StackInv, NEW b \in Nat, IsIn(text, b, pos + 1), ~IsOpening(Directive), ~IsClosing(Directive)
  PROVE  IsIn(text, b, pos + 2)
  <1>1. PICK k : k = pos + 1 /\ k \in Nat /\ k + 1 = pos + 2 /\ Directive = text[k]
    BY PlacesOfText DEF Directive
  <1>2. IsIn(text, b, k + 1)
    BY <1>1, InsideGoesOn
  <1> QED
    BY <1>1, <1>2

LEMMA TopReadsOn ==
  ASSUME ParseInv, BuildInv, at = "top", ReadsOn, Directive.name = "set"
  PROVE  BuildInv'
  <1>1. PICK n, k : n = pos /\ k = n + 1 /\ n \in Nat /\ k \in Nat /\ k + 1 = pos + 2 /\ k = pos + 1 /\ Directive = text[k]
    BY PlacesOfText DEF Directive, ParseInv
  <1>2. /\ OpenHasBlocks /\ AllSayOneThing(text, n) /\ IsIn(text, 0, k)
        /\ servers = ServersOf(text, n) /\ upstreams = GroupsOf(text, n)
    BY <1>1 DEF BuildInv, AllIsWritten
  <1>3. text[k].name = "set"
    BY <1>1
  <1>4. ServersOf(text, k) = ServersOf(text, n) /\ GroupsOf(text, k) = GroupsOf(text, n)
    BY <1>1, <1>2, <1>3, TopStands
  <1>5. IsIn(text, 0, k + 1)
    BY <1>1, <1>2, InsideNext DEF ReadsOn, ParseInv
  <1>6. AllSayOneThing(text, k)
    BY <1>1, <1>2, RouteOfDirective
  <1> QED
    BY <1>1, <1>2, <1>4, <1>5, <1>6 DEF BuildInv, AllIsWritten, ReadsOn

LEMMA ServerReadsOn ==
  ASSUME ParseInv, BuildInv, at = "server", ReadsOn,
         \A s \in 1 .. pos : \A routes : IsIn(text, s, pos + 1) /\ open["server"] = ServerWith(text, pos, s, routes) =>
           open'["server"] = ServerWith(text, pos + 1, s, routes)
  PROVE  BuildInv'
  <1>1. PICK n, k : n = pos /\ k = n + 1 /\ n \in Nat /\ k \in Nat /\ k + 1 = pos + 2 /\ k = pos + 1 /\ Directive = text[k]
    BY PlacesOfText DEF Directive, ParseInv
  <1>2. PICK s \in 1 .. n : ServerIsBuilt(s)
    BY <1>1 DEF BuildInv
  <1>3. /\ text[s].name = "server" /\ IsIn(text, 0, s) /\ IsIn(text, s, k)
        /\ ServersBut(text, n, s, servers) /\ upstreams = GroupsOf(text, n)
        /\ open["server"] = ServerWith(text, n, s, RoutesOf(text, n, s))
    BY <1>1, <1>2 DEF ServerIsBuilt, ServerIsRead
  <1>4. s \in Nat /\ s \in 1 .. k
    BY <1>1
  <1>5. IsOpenAt(text, s, n + 1)
    BY <1>1, <1>3 DEF IsOpenAt
  <1>6. ServersBut(text, k, s, servers) /\ GroupsOf(text, k) = GroupsOf(text, n)
    BY <1>1, <1>3, <1>5, ServerStands
  <1>7. IsIn(text, s, k + 1)
    BY <1>1, <1>3, <1>4, InsideNext DEF ReadsOn, ParseInv
  <1>8. text[k].name # "route"
    BY <1>1 DEF ReadsOn, IsOpening
  <1>9. RoutesOf(text, k, s) = RoutesOf(text, n, s)
    BY <1>1, <1>3, <1>4, <1>8, RoutesOfSame
  <1>10. open'["server"] = ServerWith(text, k, s, RoutesOf(text, k, s))
    <2>1. open'["server"] = ServerWith(text, k, s, RoutesOf(text, n, s))
      BY <1>1, <1>3
    <2> QED
      BY <1>9, <2>1
  <1>11. AllSayOneThing(text, k)
    BY <1>1, <1>3, <1>4, RouteOfDirective DEF BuildInv
  <1>12. ServerIsBuilt(s)'
    BY <1>1, <1>3, <1>6, <1>7, <1>10 DEF ServerIsBuilt, ServerIsRead, ReadsOn
  <1>13. s \in 1 .. pos'
    BY <1>1, <1>4 DEF ReadsOn
  <1> QED
    BY <1>1, <1>11, <1>12, <1>13 DEF BuildInv, ReadsOn

LEMMA RouteReadsOn ==
  ASSUME ParseInv, BuildInv, at = "route", ReadsOn, open'["server"] = open["server"],
         \A r \in 1 .. pos : IsIn(text, r, pos + 1) /\ open["route"] = RouteOf(text, pos, r) /\ SaysOneThing(text, pos, r) =>
           open'["route"] = RouteOf(text, pos + 1, r) /\ SaysOneThing(text, pos + 1, r)
  PROVE  BuildInv'
  <1>1. PICK n, k : n = pos /\ k = n + 1 /\ n \in Nat /\ k \in Nat /\ k + 1 = pos + 2 /\ k = pos + 1 /\ Directive = text[k]
    BY PlacesOfText DEF Directive, ParseInv
  <1>2. PICK s \in 1 .. n, r \in 1 .. n : RouteIsBuilt(s, r)
    BY <1>1 DEF BuildInv
  <1>3. /\ text[s].name = "server" /\ IsIn(text, 0, s)
        /\ ServersBut(text, n, s, servers) /\ upstreams = GroupsOf(text, n)
        /\ text[r].name = "route" /\ IsIn(text, s, r) /\ IsIn(text, r, k)
        /\ open["route"] = RouteOf(text, n, r)
    BY <1>1, <1>2 DEF RouteIsBuilt, ServerIsRead
  <1>4. PICK routes : RoutesBut(text, n, s, r, routes) /\ open["server"] = ServerWith(text, n, s, routes)
    BY <1>1, <1>2 DEF RouteIsBuilt
  <1>5. s \in Nat /\ r \in Nat /\ s # 0 /\ r # 0 /\ s \in 1 .. k /\ r \in 1 .. k
    BY <1>1
  <1>6. IsOpenAt(text, s, n + 1)
    BY <1>1, <1>3, <1>5 DEF IsOpenAt
  <1>7. ServersBut(text, k, s, servers) /\ GroupsOf(text, k) = GroupsOf(text, n)
    BY <1>1, <1>3, <1>6, ServerStands
  <1>8. IsIn(text, r, k + 1)
    BY <1>1, <1>3, <1>5, InsideNext DEF ReadsOn, ParseInv
  <1>9. RoutesBut(text, k, s, r, routes)
    BY <1>1, <1>3, <1>4, <1>5, RoutesButSame
  <1>10. open'["server"] = ServerWith(text, k, s, routes)
    <2>1. ~IsIn(text, s, n + 1)
      <3> SUFFICES ASSUME IsIn(text, s, k) PROVE FALSE
        BY <1>1
      <3>1. r = s
        BY <1>1, <1>3, <1>5, InsideOne
      <3>2. s < s
        BY <1>3, <3>1, InsideIsLater
      <3> QED
        BY <1>5, <3>2
    <2>2. ServerWith(text, n + 1, s, routes) = ServerWith(text, n, s, routes)
      BY <1>1, <2>1, ServerWithSame
    <2> QED
      BY <1>1, <1>4, <2>2
  <1>11. SaysOneThing(text, n, r)
    BY <1>1, <1>3 DEF BuildInv, AllSayOneThing
  <1>12. open'["route"] = RouteOf(text, k, r) /\ SaysOneThing(text, k, r)
    BY <1>1, <1>3, <1>11
  <1>13. AllSayOneThing(text, k)
    BY <1>1, <1>3, <1>5, <1>12, RouteOfDirective DEF BuildInv
  <1>14. RouteIsBuilt(s, r)'
    <2>1. ServerIsRead(s)'
      BY <1>1, <1>3, <1>7 DEF ServerIsRead, ReadsOn
    <2>2. text' = text /\ pos' = k /\ pos' + 1 = k + 1
      BY <1>1 DEF ReadsOn
    <2> QED
      BY <1>3, <1>8, <1>9, <1>10, <1>12, <2>1, <2>2 DEF RouteIsBuilt
  <1>15. s \in 1 .. pos' /\ r \in 1 .. pos' /\ at' = "route" /\ OpenHasBlocks' /\ text' = text /\ pos' = k
    BY <1>1, <1>5 DEF ReadsOn
  <1> QED
    BY <1>13, <1>14, <1>15 DEF BuildInv

LEMMA GroupReadsOn ==
  ASSUME ParseInv, BuildInv, at = "upstream", ReadsOn,
         \A g \in 1 .. pos : IsIn(text, g, pos + 1) /\ open["upstream"] = GroupOf(text, pos, g) =>
           open'["upstream"] = GroupOf(text, pos + 1, g)
  PROVE  BuildInv'
  <1>1. PICK n, k : n = pos /\ k = n + 1 /\ n \in Nat /\ k \in Nat /\ k + 1 = pos + 2 /\ k = pos + 1 /\ Directive = text[k]
    BY PlacesOfText DEF Directive, ParseInv
  <1>2. PICK g \in 1 .. n : GroupIsBuilt(g)
    BY <1>1 DEF BuildInv
  <1>3. /\ text[g].name = "upstream" /\ IsIn(text, 0, g) /\ IsIn(text, g, k)
        /\ servers = ServersOf(text, n) /\ GroupsBut(text, n, g, upstreams)
        /\ open["upstream"] = GroupOf(text, n, g)
    BY <1>1, <1>2 DEF GroupIsBuilt
  <1>4. g \in Nat /\ g \in 1 .. k
    BY <1>1
  <1>5. GroupsBut(text, k, g, upstreams) /\ ServersOf(text, k) = ServersOf(text, n)
    BY <1>1, <1>3, GroupStands
  <1>6. IsIn(text, g, k + 1)
    BY <1>1, <1>3, <1>4, InsideNext DEF ReadsOn, ParseInv
  <1>7. open'["upstream"] = GroupOf(text, k, g)
    BY <1>1, <1>3
  <1>8. AllSayOneThing(text, k)
    BY <1>1, <1>3, <1>4, RouteOfDirective DEF BuildInv
  <1>9. GroupIsBuilt(g)'
    BY <1>1, <1>3, <1>5, <1>6, <1>7 DEF GroupIsBuilt, ReadsOn
  <1>10. g \in 1 .. pos'
    BY <1>1, <1>4 DEF ReadsOn
  <1> QED
    BY <1>1, <1>8, <1>9, <1>10 DEF BuildInv, ReadsOn

-----------------------------------------------------------------------------
(* The steps of the parser, and what is built *)

LEMMA BuildInvInit == StartupInit => BuildInv
  <1> SUFFICES ASSUME StartupInit PROVE BuildInv
    OBVIOUS
  <1>1. pos = 0 /\ at = "top" /\ servers = <<>> /\ upstreams = <<>> /\ pos + 1 = 1
    <2>1. pos = 0 /\ at = "top" /\ servers = <<>> /\ upstreams = <<>>
      BY Zenon DEF StartupInit, ParseInit, Empty
    <2> QED
      BY <2>1
  <1>2. OpenHasBlocks
    BY DEF StartupInit, ParseInit, OpenHasBlocks
  <1>3. AllSayOneThing(text, pos)
    BY <1>1 DEF AllSayOneThing
  <1>4. IsIn(text, 0, 1)
    <2>1. Depth(text, 1) = 0
      BY DepthAtStart
    <2>2. \A i \in 0 + 1 .. 1 : i = 1
      OBVIOUS
    <2> QED
      BY <2>1, <2>2 DEF IsIn, DepthIn
  <1>5. ServersOf(text, 0) = <<>>
    <2>1. In(text, 0, 0, {"server"}) = <<>>
      BY LinesAtStart
    <2>2. ServersOf(text, 0) = At(ServersAt(text, 0), <<>>)
      BY <2>1, ListsAreAt
    <2> QED
      BY <2>2 DEF At
  <1>6. GroupsOf(text, 0) = <<>>
    <2>1. Lines(text, 0, 0, {"upstream"}) = {}
      BY LinesAtStart
    <2>2. GroupsOf(text, 0) = GroupsFrom(text, 0, {})
      BY <2>1, GroupsAreFrom
    <2> QED
      BY <2>2 DEF GroupsFrom
  <1> QED
    BY <1>1, <1>2, <1>3, <1>4, <1>5, <1>6 DEF BuildInv, AllIsWritten

\* Nothing is read: the parse goes on, or ends.
LEMMA NothingReadKeeps ==
  ASSUME BuildInv, UNCHANGED <<text, pos, open, servers, upstreams>>,
         \/ at' = at \/ at' \in {"failed", "endless"}
         \/ at' \in {"read", "parsed"} /\ at \in {"top", "read", "parsed"}
  PROVE  BuildInv'
  BY DEF BuildInv, OpenHasBlocks, AllIsWritten, ServerIsBuilt, RouteIsBuilt, GroupIsBuilt, ServerIsRead

LEMMA SetVariableKeeps ==
  ASSUME ParseInv, BuildInv, SetVariable
  PROVE  BuildInv'
  <1>1. /\ at \in Blocks /\ pos < Len(text) /\ Directive.name = "set" /\ at' = at /\ pos' = pos + 1
        /\ UNCHANGED <<text, open, servers, upstreams>>
    BY DEF SetVariable, Reads, Enter
  <1>2. ReadsOn
    BY <1>1, OpensOrCloses DEF ReadsOn, BuildInv, OpenHasBlocks
  <1>3. PICK n, k : n = pos /\ k = n + 1 /\ n \in Nat /\ k = pos + 1 /\ text[k].name = "set"
    BY <1>1, PlacesOfText DEF Directive, ParseInv
  <1>4. CASE at = "top"
    BY <1>1, <1>2, <1>4, TopReadsOn
  <1>5. CASE at = "server"
    <2>1. "set" \notin Single["server"] \cup {"domain", "error_page"}
      BY DEF Single, Timeouts
    <2>2. \A s, routes : ServerWith(text, n + 1, s, routes) = ServerWith(text, n, s, routes)
      BY <1>3, <2>1, ServerWithSame
    <2> QED
      BY <1>1, <1>2, <1>3, <1>5, <2>2, ServerReadsOn
  <1>6. CASE at = "route"
    <2>1. "set" \notin Single["route"] \cup ContentLines \cup {"header"} /\ "set" \notin ContentLines
      BY DEF Single, ContentLines, Contents
    <2>2. \A r : RouteOf(text, n + 1, r) = RouteOf(text, n, r)
      BY <1>3, <2>1, RouteOfSame
    <2>3. \A r : SaysOneThing(text, n + 1, r) <=> SaysOneThing(text, n, r)
      BY <1>3, <2>1, ContentSame DEF Adds
    <2> QED
      BY <1>1, <1>2, <1>3, <1>6, <2>2, <2>3, RouteReadsOn
  <1>7. CASE at = "upstream"
    <2>1. "set" \notin Single["upstream"] \cup {"server"}
      BY DEF Single, Timeouts, Balancings
    <2>2. \A g : GroupOf(text, n + 1, g) = GroupOf(text, n, g)
      BY <1>3, <2>1, GroupOfSame
    <2> QED
      BY <1>1, <1>2, <1>3, <1>7, <2>2, GroupReadsOn
  <1> QED
    BY <1>1, <1>4, <1>5, <1>6, <1>7 DEF Blocks

\* A block takes a value.
LEMMA TakeTakes ==
  ASSUME OpenHasBlocks, NEW block \in {"server", "route", "upstream"}, NEW field, NEW value,
         Take(block, field, value)
  PROVE  /\ open'[block] = [open[block] EXCEPT ![field] = value]
         /\ \A b \in {"server", "route", "upstream"} : b # block => open'[b] = open[b]
         /\ OpenHasBlocks' /\ pos' = pos + 1 /\ UNCHANGED <<text, at, servers, upstreams>>
  BY DEF Take, OpenHasBlocks

LEMMA TakeReadsOn ==
  ASSUME OpenHasBlocks, NEW block \in {"server", "route", "upstream"}, NEW field, NEW value,
         Take(block, field, value), at = block, pos < Len(text), ~IsOpening(Directive), ~IsClosing(Directive)
  PROVE  ReadsOn
  <1>1. OpenHasBlocks' /\ pos' = pos + 1 /\ UNCHANGED <<text, at, servers, upstreams>>
    BY TakeTakes
  <1> QED
    BY <1>1 DEF ReadsOn

-----------------------------------------------------------------------------
(* What a block has at most once *)

LEMMA FieldOfServer ==
  ASSUME NEW t, NEW n, NEW b, NEW routes, NEW name \in Single["server"]
  PROVE  ServerWith(t, n, b, routes)[name] = One(t, n, b, {name})
  <1>1. name \in {"port", "ip", "default", "ssl_cert", "ssl_keys", "header_timeout", "body_timeout", "send_timeout"}
    BY DEF Single, Timeouts
  <1>2. /\ ServerWith(t, n, b, routes)["port"] = One(t, n, b, {"port"})
        /\ ServerWith(t, n, b, routes)["ip"] = One(t, n, b, {"ip"})
        /\ ServerWith(t, n, b, routes)["default"] = One(t, n, b, {"default"})
        /\ ServerWith(t, n, b, routes)["ssl_cert"] = One(t, n, b, {"ssl_cert"})
        /\ ServerWith(t, n, b, routes)["ssl_keys"] = One(t, n, b, {"ssl_keys"})
        /\ ServerWith(t, n, b, routes)["header_timeout"] = One(t, n, b, {"header_timeout"})
        /\ ServerWith(t, n, b, routes)["body_timeout"] = One(t, n, b, {"body_timeout"})
        /\ ServerWith(t, n, b, routes)["send_timeout"] = One(t, n, b, {"send_timeout"})
    BY DEF ServerWith
  <1> QED
    BY <1>1, <1>2, Zenon

LEMMA FieldOfRoute ==
  ASSUME NEW t, NEW n, NEW b
  PROVE  /\ \A name \in {"status", "default_content_type"} : RouteOf(t, n, b)[name] = One(t, n, b, {name})
         /\ RouteOf(t, n, b)["content"] = ContentOf(t, n, b)
         /\ RouteOf(t, n, b)["headers"] = LastOf(t, n, b, "header")
  <1>1. /\ RouteOf(t, n, b)["status"] = One(t, n, b, {"status"})
        /\ RouteOf(t, n, b)["default_content_type"] = One(t, n, b, {"default_content_type"})
        /\ RouteOf(t, n, b)["content"] = ContentOf(t, n, b)
        /\ RouteOf(t, n, b)["headers"] = LastOf(t, n, b, "header")
    BY DEF RouteOf
  <1>2. \A name \in {"status", "default_content_type"} : RouteOf(t, n, b)[name] = One(t, n, b, {name})
    BY <1>1, Zenon
  <1> QED
    BY <1>1, <1>2, Zenon

LEMMA FieldOfGroup ==
  ASSUME NEW t, NEW n, NEW b
  PROVE  /\ \A name \in Timeouts : GroupOf(t, n, b)[name] = One(t, n, b, {name})
         /\ GroupOf(t, n, b)["balancing"] = One(t, n, b, Balancings)
         /\ GroupOf(t, n, b)["servers"] = MembersOf(t, n, b)
  <1>1. /\ GroupOf(t, n, b)["connect_timeout"] = One(t, n, b, {"connect_timeout"})
        /\ GroupOf(t, n, b)["header_timeout"] = One(t, n, b, {"header_timeout"})
        /\ GroupOf(t, n, b)["body_timeout"] = One(t, n, b, {"body_timeout"})
        /\ GroupOf(t, n, b)["send_timeout"] = One(t, n, b, {"send_timeout"})
        /\ GroupOf(t, n, b)["balancing"] = One(t, n, b, Balancings)
        /\ GroupOf(t, n, b)["servers"] = MembersOf(t, n, b)
    BY DEF GroupOf
  <1>2. \A name \in Timeouts : GroupOf(t, n, b)[name] = One(t, n, b, {name})
    BY <1>1, Zenon DEF Timeouts
  <1> QED
    BY <1>1, <1>2, Zenon

LEMMA RouteTakesOne ==
  ASSUME NEW t, IsText(t), NEW n \in Nat, n < Len(t), NEW b, IsIn(t, b, n + 1),
         NEW name \in Single["route"], t[n + 1].name = name, RouteOf(t, n, b)[name] = None
  PROVE  RouteOf(t, n + 1, b) = [RouteOf(t, n, b) EXCEPT ![name] = SingleOf(t, n + 1)]
  <1>1. PICK k : k = n + 1 /\ k \in Nat
    OBVIOUS
  <1>2. name \in {"status", "default_content_type"}
    BY DEF Single
  <1>3. One(t, n, b, {name}) = None
    BY <1>2, FieldOfRoute
  <1>4. \A other : None # other =>
          One(t, n + 1, b, {other}) = IF name = other THEN SingleOf(t, n + 1) ELSE One(t, n, b, {other})
    <2> SUFFICES ASSUME NEW other, None # other
                 PROVE  One(t, n + 1, b, {other}) = IF name = other THEN SingleOf(t, n + 1) ELSE One(t, n, b, {other})
      OBVIOUS
    <2>1. PICK names : names = {other}
      OBVIOUS
    <2>2. t[n + 1].name \in names => One(t, n, b, names) = None
      BY <1>3, <2>1
    <2>3. None \notin names
      BY <2>1
    <2>4. One(t, n + 1, b, names) = IF t[n + 1].name \in names THEN SingleOf(t, n + 1) ELSE One(t, n, b, names)
      BY <2>2, <2>3, OneOfName
    <2>5. t[n + 1].name \in names <=> name = other
      BY <2>1
    <2> QED
      BY <2>1, <2>4, <2>5
  <1>5. ContentOf(t, k, b) = ContentOf(t, n, b)
    <2>1. ~Adds(t, n, b, ContentLines)
      BY <1>2 DEF Adds, ContentLines, Contents
    <2> QED
      BY <1>1, <2>1, ContentSame
  <1>6. LastOf(t, k, b, "header") = LastOf(t, n, b, "header")
    <2>1. ~Adds(t, n, b, {"header"})
      BY <1>2 DEF Adds
    <2> QED
      BY <1>1, <2>1, LastOfSame
  <1>0. PICK v : v = SingleOf(t, n + 1)
    OBVIOUS
  <1>7. /\ One(t, k, b, {"status"}) = IF name = "status" THEN v ELSE One(t, n, b, {"status"})
        /\ One(t, k, b, {"default_content_type"})
             = IF name = "default_content_type" THEN v ELSE One(t, n, b, {"default_content_type"})
    BY <1>0, <1>1, <1>4 DEF None
  <1>8. /\ ContentOf(t, k, b) = IF name = "content" THEN v ELSE ContentOf(t, n, b)
        /\ LastOf(t, k, b, "header") = IF name = "headers" THEN v ELSE LastOf(t, n, b, "header")
        /\ name \in {"content", "headers", "status", "default_content_type"}
    BY <1>2, <1>5, <1>6
  <1>9. RouteOf(t, k, b) = [RouteOf(t, n, b) EXCEPT ![name] = v]
    <2>1. RouteDiffers(t, n, k, b, name, v)
      BY <1>7, <1>8 DEF RouteDiffers
    <2> QED
      BY <1>8, <2>1, RouteTakes
  <1> QED
    BY <1>0, <1>1, <1>9

FieldFor(name) == IF name \in Balancings THEN "balancing" ELSE name

LEMMA GroupTakesOne ==
  ASSUME NEW t, IsText(t), NEW n \in Nat, n < Len(t), NEW b, IsIn(t, b, n + 1),
         NEW given \in Single["upstream"], t[n + 1].name = given,
         NEW field, field = FieldFor(given), GroupOf(t, n, b)[field] = None
  PROVE  GroupOf(t, n + 1, b) = [GroupOf(t, n, b) EXCEPT ![field] = SingleOf(t, n + 1)]
  <1>1. PICK k : k = n + 1 /\ k \in Nat
    OBVIOUS
  <1>2. given \in Balancings \cup Timeouts
    BY DEF Single
  <1>9. field = IF given \in Balancings THEN "balancing" ELSE given
    BY DEF FieldFor
  <1>3. PICK v : v = SingleOf(t, n + 1)
    OBVIOUS
  <1>4. One(t, k, b, Balancings) = IF field = "balancing" THEN v ELSE One(t, n, b, Balancings)
    <2>1. None \notin Balancings /\ (field = "balancing" <=> given \in Balancings)
      BY <1>2, <1>9 DEF None, Balancings, Timeouts
    <2>2. t[n + 1].name \in Balancings => One(t, n, b, Balancings) = None
      BY <2>1, FieldOfGroup
    <2>3. One(t, n + 1, b, Balancings) =
            IF t[n + 1].name \in Balancings THEN SingleOf(t, n + 1) ELSE One(t, n, b, Balancings)
      BY <2>1, <2>2, OneOfName
    <2> QED
      BY <1>1, <1>3, <2>1, <2>3
  <1>5. \A name \in Timeouts : One(t, k, b, {name}) = IF field = name THEN v ELSE One(t, n, b, {name})
    <2> SUFFICES ASSUME NEW name \in Timeouts
                 PROVE  One(t, k, b, {name}) = IF field = name THEN v ELSE One(t, n, b, {name})
      OBVIOUS
    <2>1. PICK names : names = {name}
      OBVIOUS
    <2>2. field = name <=> given = name
      BY <1>2, <1>9 DEF Balancings, Timeouts
    <2>3. None \notin names
      BY <2>1 DEF None, Timeouts
    <2>4. t[n + 1].name \in names => One(t, n, b, names) = None
      BY <2>1, <2>2, FieldOfGroup
    <2>5. One(t, n + 1, b, names) = IF t[n + 1].name \in names THEN SingleOf(t, n + 1) ELSE One(t, n, b, names)
      BY <2>3, <2>4, OneOfName
    <2>6. t[n + 1].name \in names <=> field = name
      BY <2>1, <2>2
    <2> QED
      BY <1>1, <1>3, <2>1, <2>5, <2>6
  <1>6. MembersOf(t, k, b) = IF field = "servers" THEN v ELSE MembersOf(t, n, b)
    <2>1. ~Adds(t, n, b, {"server"}) /\ field # "servers"
      BY <1>2, <1>9 DEF Adds, Balancings, Timeouts
    <2> QED
      BY <1>1, <2>1, MembersSame
  <1>7. field \in GroupFields
    BY <1>2, <1>9 DEF GroupFields
  <1>8. GroupOf(t, k, b) = [GroupOf(t, n, b) EXCEPT ![field] = v]
    <2>1. GroupDiffers(t, n, k, b, field, v)
      BY <1>4, <1>5, <1>6 DEF GroupDiffers
    <2>2. IsWith(GroupOf(t, k, b), GroupOf(t, n, b), field, v)
      BY <1>7, <2>1, GroupTakes
    <2> QED
      BY <2>2 DEF IsWith
  <1> QED
    BY <1>1, <1>3, <1>8

LEMMA GiveOnceKeeps ==
  ASSUME ParseInv, BuildInv, GiveOnce
  PROVE  BuildInv'
  <1>1. PICK name, field : name = Directive.name /\ field = FieldFor(name)
    OBVIOUS
  <1>2. /\ at \in Blocks /\ pos < Len(text) /\ name \in Single[at]
        /\ Fail \/ (open[at][field] = None /\ Take(at, field, SingleValue))
    BY <1>1 DEF GiveOnce, Reads, FieldFor
  <1>3. PICK n, k : /\ n = pos /\ k = n + 1 /\ n \in Nat /\ k \in Nat /\ k = pos + 1
                    /\ text[k].name = name /\ n < Len(text) /\ text[n + 1].name = name
    BY <1>1, <1>2, PlacesOfText DEF Directive, ParseInv
  <1>4. IsText(text) /\ OpenHasBlocks /\ SingleValue = SingleOf(text, k)
    BY <1>2, <1>3, ArgsAreValues DEF ParseInv, StackInv, BuildInv
  <1>5. CASE Fail
    BY <1>5, NothingReadKeeps DEF Fail
  <1>6. ASSUME open[at][field] = None, Take(at, field, SingleValue)
        PROVE  BuildInv'
    <2>1. ~IsOpening(Directive) /\ ~IsClosing(Directive)
      BY <1>1, <1>2, SingleIsPlain
    <2>2. CASE at = "top"
      BY <1>2, <2>2 DEF Single
    <2>3. CASE at = "server"
      <3>1. field = name /\ name \in Single["server"]
        BY <1>1, <1>2, <2>3 DEF Single, Timeouts, Balancings, FieldFor
      <3>2. ReadsOn /\ open'["server"] = [open["server"] EXCEPT ![name] = SingleOf(text, k)]
        BY <1>2, <1>4, <1>6, <2>1, <2>3, <3>1, TakeTakes, TakeReadsOn
      <3>3. ASSUME NEW s \in 1 .. pos, NEW routes, IsIn(text, s, pos + 1), open["server"] = ServerWith(text, pos, s, routes)
            PROVE  open'["server"] = ServerWith(text, pos + 1, s, routes)
        <4>1. One(text, n, s, {name}) = None
          <5>1. ServerWith(text, n, s, routes)[name] = None
            BY <1>3, <1>6, <2>3, <3>1, <3>3
          <5> QED
            BY <3>1, <5>1, FieldOfServer
        <4>2. Adds(text, n, s, {name})
          BY <1>3, <3>3 DEF Adds
        <4>0. IsTheFirst(text, n, s, name)
          BY <4>1, <4>2 DEF IsTheFirst
        <4>3. ServerWith(text, n + 1, s, routes) = [ServerWith(text, n, s, routes) EXCEPT ![name] = SingleOf(text, n + 1)]
          BY <1>3, <1>4, <3>1, <4>0, ServerTakesOne
        <4> QED
          BY <1>3, <3>2, <3>3, <4>3
      <3> QED
        BY <2>3, <3>2, <3>3, ServerReadsOn
    <2>4. CASE at = "route"
      <3>1. field = name /\ name \in Single["route"]
        BY <1>1, <1>2, <2>4 DEF Single, Balancings, FieldFor
      <3>2. /\ ReadsOn /\ open'["route"] = [open["route"] EXCEPT ![name] = SingleOf(text, k)]
            /\ open'["server"] = open["server"]
        BY <1>2, <1>4, <1>6, <2>1, <2>4, <3>1, TakeTakes, TakeReadsOn
      <3>3. ASSUME NEW r \in 1 .. pos, IsIn(text, r, pos + 1), open["route"] = RouteOf(text, pos, r),
                   SaysOneThing(text, pos, r)
            PROVE  open'["route"] = RouteOf(text, pos + 1, r) /\ SaysOneThing(text, pos + 1, r)
        <4>1. RouteOf(text, n, r)[name] = None
          BY <1>3, <1>6, <2>4, <3>1, <3>3
        <4>2. RouteOf(text, n + 1, r) = [RouteOf(text, n, r) EXCEPT ![name] = SingleOf(text, n + 1)]
          BY <1>3, <1>4, <3>1, <3>3, <4>1, RouteTakesOne
        <4>3. ~Adds(text, n, r, ContentLines)
          BY <1>3, <3>1 DEF Adds, Single, ContentLines, Contents
        <4>4. SaysOneThing(text, n + 1, r)
          BY <1>3, <3>3, <4>3, ContentSame
        <4> QED
          BY <1>3, <3>2, <3>3, <4>2, <4>4
      <3> QED
        BY <2>4, <3>2, <3>3, RouteReadsOn
    <2>5. CASE at = "upstream"
      <3>1. name \in Single["upstream"]
        BY <1>2, <2>5
      <3>2. ReadsOn /\ open'["upstream"] = [open["upstream"] EXCEPT ![field] = SingleOf(text, k)]
        BY <1>2, <1>4, <1>6, <2>1, <2>5, TakeTakes, TakeReadsOn
      <3>3. ASSUME NEW g \in 1 .. pos, IsIn(text, g, pos + 1), open["upstream"] = GroupOf(text, pos, g)
            PROVE  open'["upstream"] = GroupOf(text, pos + 1, g)
        <4>1. GroupOf(text, n, g)[field] = None
          BY <1>3, <1>6, <2>5, <3>3
        <4>2. GroupOf(text, n + 1, g) = [GroupOf(text, n, g) EXCEPT ![field] = SingleOf(text, n + 1)]
          BY <1>1, <1>3, <1>4, <3>1, <3>3, <4>1, GroupTakesOne
        <4> QED
          BY <1>3, <3>2, <3>3, <4>2
      <3> QED
        BY <2>5, <3>2, <3>3, GroupReadsOn
    <2> QED
      BY <1>2, <2>2, <2>3, <2>4, <2>5 DEF Blocks
  <1> QED
    BY <1>2, <1>5, <1>6

-----------------------------------------------------------------------------
(* The content of a route is given *)

LEMMA ContentTaken ==
  ASSUME NEW t, NEW n \in Nat, NEW b, t[n + 1].name \in ContentLines, NEW v, ContentOf(t, n + 1, b) = v
  PROVE  RouteOf(t, n + 1, b) = [RouteOf(t, n, b) EXCEPT !["content"] = v]
  <1>1. PICK k : k = n + 1
    OBVIOUS
  <1>2. ~Adds(t, n, b, {"header"}) /\ ~Adds(t, n, b, {"status"}) /\ ~Adds(t, n, b, {"default_content_type"})
    BY DEF Adds, ContentLines, Contents
  <1>3. LastOf(t, k, b, "header") = LastOf(t, n, b, "header")
    BY <1>1, <1>2, LastOfSame
  <1>4. One(t, k, b, {"status"}) = One(t, n, b, {"status"})
    BY <1>1, <1>2, OneSame
  <1>5. One(t, k, b, {"default_content_type"}) = One(t, n, b, {"default_content_type"})
    BY <1>1, <1>2, OneSame
  <1>6. RouteDiffers(t, n, k, b, "content", v)
    BY <1>1, <1>3, <1>4, <1>5 DEF RouteDiffers
  <1>7. RouteOf(t, k, b) = [RouteOf(t, n, b) EXCEPT !["content"] = v]
    BY <1>6, RouteTakes
  <1> QED
    BY <1>1, <1>7

\* No line of content opens or closes a block.
LEMMA ContentIsPlain ==
  ASSUME Directive.name \in ContentLines \cup {"header", "domain", "error_page"}
  PROVE  ~IsOpening(Directive) /\ ~IsClosing(Directive)
  BY DEF IsOpening, IsClosing, ContentLines, Contents

GivesContent(v) ==
  \A r \in 1 .. pos : Adds(text, pos, r, ContentLines) /\ Content = ContentOf(text, pos, r) /\ SaysOneThing(text, pos, r) =>
    ContentOf(text, pos + 1, r) = v /\ SaysOneThing(text, pos + 1, r)

LEMMA ContentKeeps ==
  ASSUME ParseInv, BuildInv, at = "route", pos < Len(text), Directive.name \in ContentLines,
         NEW v, Take("route", "content", v), GivesContent(v)
  PROVE  BuildInv'
  <1>1. PICK n, k : /\ n = pos /\ k = n + 1 /\ n \in Nat /\ k \in Nat /\ k = pos + 1
                    /\ text[k].name \in ContentLines /\ Directive = text[k]
    BY PlacesOfText DEF Directive, ParseInv
  <1>2. OpenHasBlocks
    BY DEF BuildInv
  <1>3. ~IsOpening(Directive) /\ ~IsClosing(Directive)
    BY ContentIsPlain
  <1>4. /\ ReadsOn /\ open'["route"] = [open["route"] EXCEPT !["content"] = v]
        /\ open'["server"] = open["server"]
    BY <1>2, <1>3, TakeTakes, TakeReadsOn
  <1>5. ASSUME NEW r \in 1 .. pos, IsIn(text, r, pos + 1), open["route"] = RouteOf(text, pos, r),
               SaysOneThing(text, pos, r)
        PROVE  open'["route"] = RouteOf(text, pos + 1, r) /\ SaysOneThing(text, pos + 1, r)
    <2>1. Content = ContentOf(text, pos, r)
      BY <1>5, FieldOfRoute DEF Content
    <2>2. Adds(text, pos, r, ContentLines)
      BY <1>1, <1>5 DEF Adds
    <2>3. ContentOf(text, k, r) = v /\ SaysOneThing(text, k, r)
      BY <1>1, <1>5, <2>1, <2>2 DEF GivesContent
    <2>4. RouteOf(text, n + 1, r) = [RouteOf(text, n, r) EXCEPT !["content"] = v]
      BY <1>1, <2>3, ContentTaken
    <2> QED
      BY <1>1, <1>4, <1>5, <2>3, <2>4
  <1> QED
    BY <1>4, <1>5, RouteReadsOn

\* What stands where the content is given.
LEMMA ContentPlaces ==
  ASSUME ParseInv, at = "route", pos < Len(text)
  PROVE  /\ IsText(text) /\ pos \in Nat /\ Directive = text[pos + 1] /\ Args = Values(text, pos + 1)
         /\ pos + 1 \in 1 .. Len(text)
  <1>1. pos \in Nat /\ Len(text) \in Nat /\ pos + 1 \in 1 .. Len(text)
    BY PlacesOfText DEF ParseInv
  <1>2. Args = Values(text, pos + 1)
    BY ArgsAreValues DEF Blocks
  <1> QED
    BY <1>1, <1>2 DEF ParseInv, StackInv, Directive

LEMMA NoneIsNoContent ==
  ASSUME NEW t, NEW n \in Nat, NEW b, SaysOneThing(t, n, b), NEW c, c = ContentOf(t, n, b), c.kind = None
  PROVE  c.value = <<>>
  <1>1. IsSaid(t, n, b, c, KindsOf(t, n, b))
    BY ContentCases
  <1>2. "proxy" # None /\ None \notin Contents \cup {"file"}
    BY DEF None, Contents
  <1>3. KindsOf(t, n, b) = {}
    BY <1>1, <1>2 DEF IsSaid
  <1>4. c = NoContent
    BY <1>1, <1>3 DEF IsSaid
  <1> QED
    BY <1>4 DEF NoContent

LEMMA ListedKeeps ==
  ASSUME ParseInv, BuildInv, at = "route", pos < Len(text),
         NEW name, name = Directive.name, name \in Contents \cup {"file"},
         Content.kind = None \/ (Content.kind = "file" /\ name = "file"),
         NEW value, (Content.kind = None /\ value = Args) \/ value = Content.value \o Args,
         TakeContent(name, value, Empty)
  PROVE  BuildInv'
  <1>1. PICK n, k : /\ n = pos /\ k = n + 1 /\ n \in Nat /\ k = pos + 1 /\ k \in 1 .. Len(text) /\ n < Len(text)
                    /\ IsText(text) /\ Directive = text[k] /\ Args = Values(text, k) /\ text[n + 1].name = name
    BY ContentPlaces
  <1>2. PICK v : v = [kind |-> name, value |-> value, headers |-> Empty]
    OBVIOUS
  <1>3. Take("route", "content", v)
    BY <1>2 DEF TakeContent
  <1>4. Directive.name \in ContentLines
    BY DEF ContentLines
  <1>5. ASSUME NEW r \in 1 .. pos, Adds(text, n, r, ContentLines), Content = ContentOf(text, n, r),
               SaysOneThing(text, n, r)
        PROVE  ContentOf(text, k, r) = v /\ SaysOneThing(text, k, r)
    <2>1. PICK c, val : c = ContentOf(text, n, r) /\ val = c.value \o Values(text, n + 1)
      OBVIOUS
    <2>2. /\ ContentOf(text, n + 1, r) = [kind |-> name, value |-> c.value \o Values(text, n + 1), headers |-> Empty]
          /\ SaysOneThing(text, n + 1, r)
      <3>1. MayList(c, name)
        BY <1>5, <2>1 DEF MayList
      <3>2. ListsMore(text, n, r, c, name)
        BY <1>1, <1>5, <2>1, <3>1, ListedStep
      <3> QED
        BY <3>2, Zenon DEF ListsMore
    <2>3. value = val
      <3>1. CASE c.kind = None /\ value = Args
        <4>1. c.value = <<>>
          BY <1>1, <1>5, <2>1, <3>1, NoneIsNoContent
        <4>2. Values(text, k) \in Seq(ValuesIn(text))
          BY <1>1, ValuesAreSequences
        <4>3. <<>> \o Values(text, k) = Values(text, k)
          BY <4>2
        <4> QED
          BY <1>1, <1>5, <2>1, <3>1, <4>1, <4>3
      <3>2. CASE value = Content.value \o Args
        BY <1>1, <1>5, <2>1, <3>2
      <3> QED
        BY <1>5, <2>1, <3>1, <3>2
    <2> QED
      BY <1>1, <1>2, <2>1, <2>2, <2>3
  <1>6. GivesContent(v)
    BY <1>1, <1>5 DEF GivesContent
  <1> QED
    BY <1>3, <1>4, <1>6, ContentKeeps

-----------------------------------------------------------------------------
(* The actions that read a directive of a block *)

LEMMA FailKeeps ==
  ASSUME BuildInv, Fail
  PROVE  BuildInv'
  BY NothingReadKeeps DEF Fail

LEMMA GiveContentKeeps ==
  ASSUME ParseInv, BuildInv, GiveContent
  PROVE  BuildInv'
  <1>1. at = "route" /\ pos < Len(text) /\ Directive.name \in Contents
    BY DEF GiveContent, Reads
  <1>2. CASE Fail
    BY <1>2, FailKeeps
  <1>3. CASE Content.kind = None /\ TakeContent(Directive.name, Args, Empty)
    BY <1>1, <1>3, ListedKeeps
  <1> QED
    BY <1>2, <1>3 DEF GiveContent

LEMMA AddFilesKeeps ==
  ASSUME ParseInv, BuildInv, AddFiles
  PROVE  BuildInv'
  <1>1. at = "route" /\ pos < Len(text) /\ Directive.name = "file"
    BY DEF AddFiles, Reads
  <1>2. CASE Fail
    BY <1>2, FailKeeps
  <1>3. CASE Content.kind \in {None, "file"} /\ TakeContent("file", Content.value \o Args, Empty)
    BY <1>1, <1>3, ListedKeeps
  <1> QED
    BY <1>2, <1>3 DEF AddFiles

LEMMA GiveProxyKeeps ==
  ASSUME ParseInv, BuildInv, GiveProxy
  PROVE  BuildInv'
  <1>1. at = "route" /\ pos < Len(text) /\ Directive.name = "proxy"
    BY DEF GiveProxy, Reads
  <1>2. CASE Fail
    BY <1>2, FailKeeps
  <1>3. ASSUME Content.kind = None \/ (Content.kind = "proxy" /\ Content.value = <<"">>),
               TakeContent("proxy", Args, Content.headers)
        PROVE  BuildInv'
    <2>1. PICK n, k : n = pos /\ k = n + 1 /\ n \in Nat /\ k = pos + 1 /\ Args = Values(text, k) /\ text[n + 1].name = "proxy"
      BY <1>1, ContentPlaces
    <2>2. PICK v : v = [kind |-> "proxy", value |-> Args, headers |-> Content.headers]
      OBVIOUS
    <2>3. Take("route", "content", v)
      BY <1>3, <2>2 DEF TakeContent
    <2>4. ASSUME NEW r \in 1 .. pos, Adds(text, n, r, ContentLines), Content = ContentOf(text, n, r),
                 SaysOneThing(text, n, r)
          PROVE  ContentOf(text, k, r) = v /\ SaysOneThing(text, k, r)
      <3>1. PICK c : c = ContentOf(text, n, r)
        OBVIOUS
      <3>2. MayProxy(c)
        BY <1>3, <2>4, <3>1 DEF MayProxy
      <3>3. Proxies(text, n, r, c)
        BY <2>1, <2>4, <3>1, <3>2, ProxyStep
      <3> QED
        BY <2>1, <2>2, <2>4, <3>1, <3>3, Zenon DEF Proxies
    <2>5. GivesContent(v)
      BY <2>1, <2>4 DEF GivesContent
    <2> QED
      BY <1>1, <2>3, <2>5, ContentKeeps DEF ContentLines
  <1> QED
    BY <1>2, <1>3 DEF GiveProxy

LEMMA AddProxyHeaderKeeps ==
  ASSUME ParseInv, BuildInv, AddProxyHeader
  PROVE  BuildInv'
  <1>1. at = "route" /\ pos < Len(text) /\ Directive.name = "proxy_header"
    BY DEF AddProxyHeader, Reads
  <1>2. CASE Fail
    BY <1>2, FailKeeps
  <1>3. ASSUME Content.kind \in {None, "proxy"},
               TakeContent("proxy", IF Content.kind = None THEN <<"">> ELSE Content.value,
                           Put(Content.headers, Args[1], Args[2]))
        PROVE  BuildInv'
    <2>1. PICK n, k : n = pos /\ k = n + 1 /\ n \in Nat /\ k = pos + 1 /\ Args = Values(text, k)
                      /\ text[n + 1].name = "proxy_header"
      BY <1>1, ContentPlaces
    <2>2. PICK v : v = [kind |-> "proxy", value |-> IF Content.kind = None THEN <<"">> ELSE Content.value,
                        headers |-> Put(Content.headers, Args[1], Args[2])]
      OBVIOUS
    <2>3. Take("route", "content", v)
      BY <1>3, <2>2 DEF TakeContent
    <2>4. ASSUME NEW r \in 1 .. pos, Adds(text, n, r, ContentLines), Content = ContentOf(text, n, r),
                 SaysOneThing(text, n, r)
          PROVE  ContentOf(text, k, r) = v /\ SaysOneThing(text, k, r)
      <3>1. PICK c : c = ContentOf(text, n, r)
        OBVIOUS
      <3>2. c.kind = None \/ c.kind = "proxy"
        BY <1>3, <2>4, <3>1
      <3>3. ProxiesWith(text, n, r, c)
        BY <2>1, <2>4, <3>1, <3>2, ProxyHeaderStep
      <3> QED
        BY <2>1, <2>2, <2>4, <3>1, <3>3, Zenon DEF ProxiesWith
    <2>5. GivesContent(v)
      BY <2>1, <2>4 DEF GivesContent
    <2> QED
      BY <1>1, <2>3, <2>5, ContentKeeps DEF ContentLines
  <1> QED
    BY <1>2, <1>3 DEF AddProxyHeader

LEMMA AddHeaderKeeps ==
  ASSUME ParseInv, BuildInv, AddHeader
  PROVE  BuildInv'
  <1>1. /\ at = "route" /\ pos < Len(text) /\ Directive.name = "header"
        /\ Take("route", "headers", Put(open.route.headers, Args[1], Args[2]))
    BY DEF AddHeader, Reads
  <1>2. PICK n, k : n = pos /\ k = n + 1 /\ n \in Nat /\ k = pos + 1 /\ Args = Values(text, k) /\ text[n + 1].name = "header"
    BY <1>1, ContentPlaces
  <1>3. PICK v : v = Put(open.route.headers, Args[1], Args[2])
    OBVIOUS
  <1>0. ~IsOpening(Directive) /\ ~IsClosing(Directive) /\ OpenHasBlocks
    BY <1>1, ContentIsPlain DEF BuildInv
  <1>4. /\ ReadsOn /\ open'["route"] = [open["route"] EXCEPT !["headers"] = v]
        /\ open'["server"] = open["server"]
    <2>1. Take("route", "headers", v)
      BY <1>1, <1>3
    <2>2. ReadsOn
      BY <1>0, <1>1, <2>1, TakeReadsOn
    <2> QED
      BY <1>0, <2>1, <2>2, TakeTakes
  <1>5. ASSUME NEW r \in 1 .. pos, IsIn(text, r, pos + 1), open["route"] = RouteOf(text, pos, r),
               SaysOneThing(text, pos, r)
        PROVE  open'["route"] = RouteOf(text, pos + 1, r) /\ SaysOneThing(text, pos + 1, r)
    <2>1. ~Adds(text, n, r, ContentLines) /\ ~Adds(text, n, r, {"status"}) /\ ~Adds(text, n, r, {"default_content_type"})
      BY <1>2 DEF Adds, ContentLines, Contents
    <2>2. ContentOf(text, k, r) = ContentOf(text, n, r) /\ (SaysOneThing(text, k, r) <=> SaysOneThing(text, n, r))
      BY <1>2, <2>1, ContentSame
    <2>3. One(text, k, r, {"status"}) = One(text, n, r, {"status"})
      BY <1>2, <2>1, OneSame
    <2>4. One(text, k, r, {"default_content_type"}) = One(text, n, r, {"default_content_type"})
      BY <1>2, <2>1, OneSame
    <2>5. LastOf(text, k, r, "header") = v
      <3>1. Adds(text, n, r, {"header"})
        BY <1>2, <1>5 DEF Adds
      <3>2. LastOf(text, n + 1, r, "header") = Put(LastOf(text, n, r, "header"), Values(text, n + 1)[1], Values(text, n + 1)[2])
        BY <1>2, <3>1, LastOfTakes
      <3>3. open.route.headers = LastOf(text, n, r, "header")
        BY <1>2, <1>5, FieldOfRoute
      <3> QED
        BY <1>2, <1>3, <3>2, <3>3, Zenon
    <2>6. RouteDiffers(text, n, k, r, "headers", v)
      BY <2>2, <2>3, <2>4, <2>5 DEF RouteDiffers
    <2>7. RouteOf(text, k, r) = [RouteOf(text, n, r) EXCEPT !["headers"] = v]
      BY <2>6, RouteTakes
    <2> QED
      BY <1>2, <1>4, <1>5, <2>2, <2>7
  <1> QED
    BY <1>1, <1>4, <1>5, RouteReadsOn

\* A server takes domains or error pages.
LEMMA ListTaken ==
  ASSUME NEW t, NEW n \in Nat, NEW b, t[n + 1].name \in {"domain", "error_page"}, NEW k, k = n + 1
  PROVE  /\ OnesSame(t, n, k, b)
         /\ t[k].name = "error_page" => DomainsOf(t, k, b) = DomainsOf(t, n, b)
         /\ t[k].name = "domain" => PagesOf(t, k, b) = PagesOf(t, n, b)
  <1>1. \A name \in Single["server"] : One(t, k, b, {name}) = One(t, n, b, {name})
    <2> SUFFICES ASSUME NEW name \in Single["server"] PROVE One(t, k, b, {name}) = One(t, n, b, {name})
      OBVIOUS
    <2>1. PICK names : names = {name}
      OBVIOUS
    <2>2. ~Adds(t, n, b, names)
      BY <2>1 DEF Adds, Single, Timeouts
    <2>3. One(t, n + 1, b, names) = One(t, n, b, names)
      BY <2>2, OneSame
    <2> QED
      BY <2>1, <2>3
  <1>2. t[k].name = "error_page" => DomainsOf(t, k, b) = DomainsOf(t, n, b)
    <2>1. t[k].name = "error_page" => ~Adds(t, n, b, {"domain"})
      BY DEF Adds
    <2> QED
      BY <2>1, DomainsSame
  <1>3. t[k].name = "domain" => PagesOf(t, k, b) = PagesOf(t, n, b)
    <2>1. t[k].name = "domain" => ~Adds(t, n, b, {"error_page"})
      BY DEF Adds
    <2> QED
      BY <2>1, PagesSame
  <1> QED
    BY <1>1, <1>2, <1>3 DEF OnesSame

LEMMA AddDomainsKeeps ==
  ASSUME ParseInv, BuildInv, AddDomains
  PROVE  BuildInv'
  <1>1. /\ at = "server" /\ pos < Len(text) /\ Directive.name = "domain"
        /\ Take("server", "domains", open.server.domains \o Raw)
    BY DEF AddDomains, Reads
  <1>2. PICK n, k : /\ n = pos /\ k = n + 1 /\ n \in Nat /\ k = pos + 1 /\ text[n + 1].name = "domain" /\ n < Len(text)
                    /\ IsText(text) /\ Raw = text[k].args
    BY <1>1, PlacesOfText DEF ParseInv, StackInv, Raw, Directive
  <1>3. PICK v : v = open.server.domains \o Raw
    OBVIOUS
  <1>0. ~IsOpening(Directive) /\ ~IsClosing(Directive) /\ OpenHasBlocks
    BY <1>1, ContentIsPlain DEF BuildInv
  <1>4. ReadsOn /\ open'["server"] = [open["server"] EXCEPT !["domains"] = v]
    <2>1. Take("server", "domains", v)
      BY <1>1, <1>3
    <2>2. ReadsOn
      BY <1>0, <1>1, <2>1, TakeReadsOn
    <2> QED
      BY <1>0, <2>1, <2>2, TakeTakes
  <1>5. ASSUME NEW s \in 1 .. pos, NEW routes, IsIn(text, s, pos + 1), open["server"] = ServerWith(text, pos, s, routes)
        PROVE  open'["server"] = ServerWith(text, pos + 1, s, routes)
    <2>1. Adds(text, n, s, {"domain"})
      BY <1>2, <1>5 DEF Adds
    <2>2. DomainsOf(text, n + 1, s) = Joins(DomainsOf(text, n, s), text[n + 1].args)
      BY <1>2, <2>1, DomainsTake
    <2>3. open.server.domains = DomainsOf(text, n, s)
      BY <1>2, <1>5 DEF ServerWith
    <2>4. DomainsOf(text, k, s) = v
      BY <1>2, <1>3, <2>2, <2>3, Zenon DEF Joins
    <2>5. OnesSame(text, n, k, s)
      BY <1>2, ListTaken
    <2>6. PagesOf(text, k, s) = PagesOf(text, n, s)
      BY <1>2, ListTaken
    <2>7. ServerDiffers(text, n, k, s, "domains", v)
      BY <2>4, <2>5, <2>6 DEF ServerDiffers
    <2>8. ServerWith(text, k, s, routes) = [ServerWith(text, n, s, routes) EXCEPT !["domains"] = v]
      BY <2>7, ServerTakesDomains
    <2> QED
      BY <1>2, <1>4, <1>5, <2>8
  <1> QED
    BY <1>1, <1>4, <1>5, ServerReadsOn

LEMMA AddErrorPageKeeps ==
  ASSUME ParseInv, BuildInv, AddErrorPage
  PROVE  BuildInv'
  <1>1. at = "server" /\ pos < Len(text) /\ Directive.name = "error_page"
    BY DEF AddErrorPage, Reads
  <1>2. PICK n, k : /\ n = pos /\ k = n + 1 /\ n \in Nat /\ k = pos + 1 /\ text[n + 1].name = "error_page" /\ n < Len(text)
                    /\ IsText(text) /\ Raw = text[k].args /\ Args = Values(text, k)
    BY <1>1, PlacesOfText, ArgsAreValues DEF ParseInv, StackInv, Raw, Directive, Blocks
  <1>3. PICK statuses, v : /\ statuses = {Args[i] : i \in 1 .. Len(Raw) - 1}
                           /\ v = PutAll(open.server.error_pages, statuses, Args[Len(Raw)])
    OBVIOUS
  <1>4. Fail \/ Take("server", "error_pages", v)
    BY <1>3 DEF AddErrorPage
  <1>5. ASSUME Take("server", "error_pages", v) PROVE BuildInv'
    <2>0. ~IsOpening(Directive) /\ ~IsClosing(Directive) /\ OpenHasBlocks
      BY <1>1, ContentIsPlain DEF BuildInv
    <2>1. ReadsOn /\ open'["server"] = [open["server"] EXCEPT !["error_pages"] = v]
      <3>1. ReadsOn
        BY <1>1, <1>5, <2>0, TakeReadsOn
      <3> QED
        BY <1>5, <2>0, <3>1, TakeTakes
    <2>2. ASSUME NEW s \in 1 .. pos, NEW routes, IsIn(text, s, pos + 1), open["server"] = ServerWith(text, pos, s, routes)
          PROVE  open'["server"] = ServerWith(text, pos + 1, s, routes)
      <3>1. Adds(text, n, s, {"error_page"})
        BY <1>2, <2>2 DEF Adds
      <3>2. PICK m : m = Len(text[k].args)
        OBVIOUS
      <3>3. PagesMore(text, n, k, m, s)
        BY <1>2, <3>1, <3>2, PagesTake
      <3>4. open.server.error_pages = PagesOf(text, n, s)
        BY <1>2, <2>2 DEF ServerWith
      <3>5. PagesOf(text, k, s) = v
        BY <1>2, <1>3, <3>2, <3>3, <3>4, Zenon DEF PagesMore
      <3>6. OnesSame(text, n, k, s) /\ DomainsOf(text, k, s) = DomainsOf(text, n, s)
        <4>1. text[n + 1].name \in {"domain", "error_page"} /\ text[k].name = "error_page"
          BY <1>2
        <4> QED
          BY <1>2, <4>1, ListTaken
      <3>7. ServerDiffers(text, n, k, s, "error_pages", v)
        BY <3>5, <3>6 DEF ServerDiffers
      <3>8. ServerWith(text, k, s, routes) = [ServerWith(text, n, s, routes) EXCEPT !["error_pages"] = v]
        BY <3>7, ServerTakesDomains
      <3> QED
        BY <1>2, <2>1, <2>2, <3>8
    <2> QED
      BY <1>1, <2>1, <2>2, ServerReadsOn
  <1> QED
    BY <1>4, <1>5, FailKeeps

LEMMA AddUpstreamServerKeeps ==
  ASSUME ParseInv, BuildInv, AddUpstreamServer
  PROVE  BuildInv'
  <1>1. /\ at = "upstream" /\ pos < Len(text) /\ Directive.name = "server"
        /\ Take("upstream", "servers", Append(open.upstream.servers, Args[1]))
    BY DEF AddUpstreamServer, Reads
  <1>2. PICK n, k : /\ n = pos /\ k = n + 1 /\ n \in Nat /\ k = pos + 1 /\ text[n + 1].name = "server" /\ n < Len(text)
                    /\ IsText(text) /\ Args = Values(text, k)
    BY <1>1, PlacesOfText, ArgsAreValues DEF ParseInv, StackInv, Directive, Blocks
  <1>3. PICK v : v = Append(open.upstream.servers, Args[1])
    OBVIOUS
  <1>4. ~IsOpening(Directive) /\ ~IsClosing(Directive)
    BY <1>1, GroupServersAreNamed DEF ParseInv, IsOpening, IsClosing
  <1>5. ReadsOn /\ open'["upstream"] = [open["upstream"] EXCEPT !["servers"] = v]
    BY <1>1, <1>3, <1>4, TakeTakes, TakeReadsOn DEF BuildInv
  <1>6. ASSUME NEW g \in 1 .. pos, IsIn(text, g, pos + 1), open["upstream"] = GroupOf(text, pos, g)
        PROVE  open'["upstream"] = GroupOf(text, pos + 1, g)
    <2>1. Adds(text, n, g, {"server"})
      BY <1>2, <1>6 DEF Adds
    <2>2. MembersOf(text, n + 1, g) = Append(MembersOf(text, n, g), Values(text, n + 1)[1])
      BY <1>2, <2>1, MembersTake
    <2>3. open.upstream.servers = MembersOf(text, n, g)
      BY <1>2, <1>6, FieldOfGroup
    <2>4. MembersOf(text, k, g) = v
      BY <1>2, <1>3, <2>2, <2>3, Zenon
    <2>5. One(text, k, g, Balancings) = One(text, n, g, Balancings)
      <3>1. ~Adds(text, n, g, Balancings)
        BY <1>2 DEF Adds, Balancings
      <3> QED
        BY <1>2, <3>1, OneSame
    <2>6. \A name \in Timeouts : One(text, k, g, {name}) = One(text, n, g, {name})
      <3> SUFFICES ASSUME NEW name \in Timeouts PROVE One(text, k, g, {name}) = One(text, n, g, {name})
        OBVIOUS
      <3>1. PICK names : names = {name}
        OBVIOUS
      <3>2. ~Adds(text, n, g, names)
        BY <1>2, <3>1 DEF Adds, Timeouts
      <3>3. One(text, n + 1, g, names) = One(text, n, g, names)
        BY <1>2, <3>2, OneSame
      <3> QED
        BY <1>2, <3>1, <3>3
    <2>7. GroupDiffers(text, n, k, g, "servers", v)
      BY <2>4, <2>5, <2>6 DEF GroupDiffers, Timeouts
    <2>8. IsWith(GroupOf(text, k, g), GroupOf(text, n, g), "servers", v)
      BY <2>7, GroupTakes DEF GroupFields
    <2> QED
      BY <1>2, <1>5, <1>6, <2>8 DEF IsWith
  <1> QED
    BY <1>1, <1>5, <1>6, GroupReadsOn

-----------------------------------------------------------------------------
(* Blocks are opened and closed *)

LEMMA OpenServerKeeps ==
  ASSUME ParseInv, BuildInv, OpenServer
  PROVE  BuildInv'
  <1>1. at = "top" /\ pos < Len(text) /\ Directive.name = "server"
    BY DEF OpenServer, Reads
  <1>2. CASE Fail
    BY <1>2, FailKeeps
  <1>3. ASSUME Raw = <<>>, open' = [open EXCEPT !.server = NewServer], Enter("server", <<Empty>> \o scopes),
               UNCHANGED <<servers, upstreams>>
        PROVE  BuildInv'
    <2>1. PICK n, k : /\ n = pos /\ k = n + 1 /\ n \in Nat /\ k \in Nat \ {0} /\ k = pos + 1 /\ text[n + 1].name = "server"
                      /\ Directive = text[k] /\ text[k].name = "server"
      BY <1>1, PlacesOfText DEF ParseInv, Directive
    <2>2. /\ OpenHasBlocks /\ AllSayOneThing(text, n) /\ IsIn(text, 0, k)
          /\ servers = ServersOf(text, n) /\ upstreams = GroupsOf(text, n)
      BY <1>1, <2>1 DEF BuildInv, AllIsWritten
    <2>3. text' = text /\ pos' = k /\ at' = "server" /\ servers' = servers /\ upstreams' = upstreams
      BY <1>3, <2>1 DEF Enter
    <2>4. OpenHasBlocks' /\ open'["server"] = NewServer
      BY <1>3, <2>2 DEF OpenHasBlocks
    <2>5. AllSayOneThing(text, k)
      BY <2>1, <2>2, RouteOfDirective
    <2>6. ServersBut(text, k, k, servers)
      BY <2>1, <2>2, ServerOpened
    <2>7. GroupsOf(text, k) = GroupsOf(text, n)
      <3>1. text[n + 1].name # "upstream"
        BY <2>1
      <3> QED
        BY <2>1, <2>2, <3>1, TopStands
    <2>8. IsIn(text, k, k + 1)
      <3>1. IsOpening(text[k])
        BY <1>3, <2>1 DEF IsOpening, Raw
      <3> QED
        BY <2>1, <3>1, InsideOpens
    <2>9. open'["server"] = ServerWith(text, k, k, RoutesOf(text, k, k))
      <3>1. RoutesOf(text, k, k) = <<>>
        BY <2>1, NothingSaid
      <3>2. ServerWith(text, k, k, <<>>) = NewServer
        BY <2>1, NewBlocks
      <3> QED
        BY <2>4, <3>1, <3>2
    <2>10. ServerIsBuilt(k)'
      BY <2>1, <2>2, <2>3, <2>6, <2>7, <2>8, <2>9 DEF ServerIsBuilt, ServerIsRead
    <2>11. k \in 1 .. pos'
      BY <2>1, <2>3
    <2> QED
      BY <2>3, <2>4, <2>5, <2>10, <2>11 DEF BuildInv
  <1> QED
    BY <1>2, <1>3 DEF OpenServer

LEMMA OpenUpstreamKeeps ==
  ASSUME ParseInv, BuildInv, OpenUpstream
  PROVE  BuildInv'
  <1>1. /\ at = "top" /\ pos < Len(text) /\ Directive.name = "upstream"
        /\ open' = [open EXCEPT !.upstream = NewUpstream(Raw[1])]
        /\ Enter("upstream", <<Empty>> \o scopes) /\ UNCHANGED <<servers, upstreams>>
    BY DEF OpenUpstream, Reads
  <1>2. PICK n, k : /\ n = pos /\ k = n + 1 /\ n \in Nat /\ k \in Nat \ {0} /\ k = pos + 1 /\ text[n + 1].name = "upstream"
                    /\ Directive = text[k] /\ text[k].name = "upstream"
    BY <1>1, PlacesOfText DEF ParseInv, Directive
  <1>3. /\ OpenHasBlocks /\ AllSayOneThing(text, n) /\ IsIn(text, 0, k)
        /\ servers = ServersOf(text, n) /\ upstreams = GroupsOf(text, n)
    BY <1>1, <1>2 DEF BuildInv, AllIsWritten
  <1>4. text' = text /\ pos' = k /\ at' = "upstream" /\ servers' = servers /\ upstreams' = upstreams
    BY <1>1, <1>2 DEF Enter
  <1>5. OpenHasBlocks' /\ open'["upstream"] = NewUpstream(text[k].args[1])
    BY <1>1, <1>2, <1>3 DEF OpenHasBlocks, Raw
  <1>6. AllSayOneThing(text, k)
    BY <1>2, <1>3, RouteOfDirective
  <1>7. GroupsBut(text, k, k, upstreams)
    BY <1>2, <1>3, GroupOpened
  <1>8. ServersOf(text, k) = ServersOf(text, n)
    <2>1. text[n + 1].name # "server"
      BY <1>2
    <2> QED
      BY <1>2, <1>3, <2>1, TopStands
  <1>9. IsIn(text, k, k + 1)
    <2>1. IsOpening(text[k])
      BY <1>2 DEF IsOpening
    <2> QED
      BY <1>2, <2>1, InsideOpens
  <1>10. open'["upstream"] = GroupOf(text, k, k)
    <2>1. GroupOf(text, k, k) = NewUpstream(text[k].args[1])
      BY <1>2, NewBlocks
    <2> QED
      BY <1>5, <2>1
  <1>11. GroupIsBuilt(k)'
    BY <1>2, <1>3, <1>4, <1>7, <1>8, <1>9, <1>10 DEF GroupIsBuilt
  <1>12. k \in 1 .. pos'
    BY <1>2, <1>4
  <1> QED
    BY <1>4, <1>5, <1>6, <1>11, <1>12 DEF BuildInv

LEMMA OpenRouteKeeps ==
  ASSUME ParseInv, BuildInv, OpenRoute
  PROVE  BuildInv'
  <1>1. at = "server" /\ pos < Len(text) /\ Directive.name = "route"
    BY DEF OpenRoute, Reads
  <1>2. CASE Fail
    BY <1>2, FailKeeps
  <1>3. ASSUME open' = [open EXCEPT !.route = IF Len(Raw) = 1 THEN NewRoute(None, Args[1])
                                              ELSE NewRoute(Args[1], Args[2])],
               Enter("route", <<Empty>> \o scopes), UNCHANGED <<servers, upstreams>>
        PROVE  BuildInv'
    <2>1. PICK n, k : /\ n = pos /\ k = n + 1 /\ n \in Nat /\ k \in Nat \ {0} /\ k = pos + 1 /\ text[n + 1].name = "route"
                      /\ Directive = text[k] /\ text[k].name = "route" /\ k \in 1 .. Len(text) /\ IsText(text)
      BY <1>1, PlacesOfText DEF ParseInv, StackInv, Directive
    <2>2. PICK s \in 1 .. n : ServerIsBuilt(s)
      BY <1>1, <2>1 DEF BuildInv
    <2>3. /\ text[s].name = "server" /\ IsIn(text, 0, s) /\ IsIn(text, s, k)
          /\ ServersBut(text, n, s, servers) /\ upstreams = GroupsOf(text, n)
          /\ open["server"] = ServerWith(text, n, s, RoutesOf(text, n, s))
          /\ OpenHasBlocks /\ AllSayOneThing(text, n)
      BY <2>1, <2>2 DEF ServerIsBuilt, ServerIsRead, BuildInv
    <2>4. s \in Nat /\ s \in 1 .. k
      BY <2>1
    <2>5. text' = text /\ pos' = k /\ at' = "route" /\ servers' = servers /\ upstreams' = upstreams
      BY <1>3, <2>1 DEF Enter
    <2>6. /\ OpenHasBlocks' /\ open'["server"] = open["server"]
          /\ open'["route"] = IF Len(Raw) = 1 THEN NewRoute(None, Args[1]) ELSE NewRoute(Args[1], Args[2])
      BY <1>3, <2>3 DEF OpenHasBlocks
    <2>7. IsOpenAt(text, s, n + 1)
      BY <2>1, <2>3 DEF IsOpenAt
    <2>8. ServersBut(text, k, s, servers) /\ GroupsOf(text, k) = GroupsOf(text, n)
      BY <2>1, <2>3, <2>7, ServerStands
    <2>9. RoutesBut(text, k, s, k, RoutesOf(text, n, s))
      BY <2>1, <2>3, <2>4, RouteOpened
    <2>10. ServerWith(text, k, s, RoutesOf(text, n, s)) = ServerWith(text, n, s, RoutesOf(text, n, s))
      <3>1. "route" \notin Single["server"] \cup {"domain", "error_page"}
        BY DEF Single, Timeouts
      <3> QED
        BY <2>1, <3>1, ServerWithSame
    <2>11. open'["route"] = RouteOf(text, k, k)
      <3>1. Args = Values(text, k) /\ Raw = text[k].args
        BY <1>1, <2>1, ArgsAreValues DEF Blocks
      <3>2. Len(Values(text, k)) = Len(Raw)
        BY <2>1, <3>1, ValuesAreSequences
      <3>3. Len(Raw) \in 1 .. 2
        BY <2>1, <3>1, TextPlaces DEF IsDirective
      <3>4. RouteOf(text, k, k) = NewRoute(IF Len(Values(text, k)) = 1 THEN None ELSE Values(text, k)[1],
                                           Values(text, k)[Len(Values(text, k))])
        BY <2>1, NewBlocks
      <3>5. CASE Len(Raw) = 1
        BY <2>6, <3>1, <3>2, <3>4, <3>5
      <3>6. CASE Len(Raw) = 2
        BY <2>6, <3>1, <3>2, <3>4, <3>6
      <3> QED
        BY <3>3, <3>5, <3>6
    <2>12. IsIn(text, k, k + 1)
      <3>1. IsOpening(text[k])
        BY <2>1 DEF IsOpening
      <3> QED
        BY <2>1, <3>1, InsideOpens
    <2>13. AllSayOneThing(text, k)
      BY <2>1, <2>3, <2>4, RouteOfDirective
    <2>14. RouteIsBuilt(s, k)'
      BY <2>1, <2>3, <2>5, <2>6, <2>8, <2>9, <2>10, <2>11, <2>12 DEF RouteIsBuilt, ServerIsRead
    <2>15. s \in 1 .. pos' /\ k \in 1 .. pos'
      BY <2>1, <2>4, <2>5
    <2> QED
      BY <2>5, <2>6, <2>13, <2>14, <2>15 DEF BuildInv
  <1> QED
    BY <1>2, <1>3 DEF OpenRoute

-----------------------------------------------------------------------------
(* What closing a block adds *)

\* A brace says nothing.
LEMMA BraceSaysNothing ==
  ASSUME NEW t, NEW n \in Nat, IsClosing(t[n + 1])
  PROVE  /\ \A b, routes : ServerWith(t, n + 1, b, routes) = ServerWith(t, n, b, routes)
         /\ \A b : RouteOf(t, n + 1, b) = RouteOf(t, n, b)
         /\ \A b : GroupOf(t, n + 1, b) = GroupOf(t, n, b)
         /\ t[n + 1].name \notin ContentLines /\ t[n + 1].name # "route"
  <1>1. t[n + 1].name \notin Single["server"] \cup {"domain", "error_page"}
    BY Zenon DEF Single, Timeouts, IsClosing
  <1>2. t[n + 1].name \notin Single["route"] \cup ContentLines \cup {"header"} /\ t[n + 1].name # "route"
    BY Zenon DEF Single, ContentLines, Contents, IsClosing
  <1>3. t[n + 1].name \notin Single["upstream"] \cup {"server"}
    BY Zenon DEF Single, Timeouts, Balancings, IsClosing
  <1>4. \A b, routes : ServerWith(t, n + 1, b, routes) = ServerWith(t, n, b, routes)
    BY <1>1, ServerWithSame
  <1>5. \A b : RouteOf(t, n + 1, b) = RouteOf(t, n, b)
    BY <1>2, RouteOfSame
  <1>6. \A b : GroupOf(t, n + 1, b) = GroupOf(t, n, b)
    BY <1>3, GroupOfSame
  <1> QED
    BY <1>2, <1>4, <1>5, <1>6

LEMMA CloseServerKeeps ==
  ASSUME ParseInv, BuildInv, CloseServer
  PROVE  BuildInv'
  <1>1. at = "server" /\ pos < Len(text) /\ IsClosing(Directive)
    BY Zenon DEF CloseServer, Reads, IsClosing
  <1>2. CASE Fail
    BY <1>2, FailKeeps
  <1>3. ASSUME servers' = Append(servers, open.server), Enter("top", Tail(scopes)), UNCHANGED <<open, upstreams>>
        PROVE  BuildInv'
    <2>1. PICK n, k : /\ n = pos /\ k = n + 1 /\ n \in Nat /\ k \in Nat \ {0} /\ k = pos + 1 /\ IsClosing(text[n + 1])
                      /\ IsClosing(text[k])
      BY <1>1, PlacesOfText DEF ParseInv, Directive
    <2>2. PICK s \in 1 .. n : ServerIsBuilt(s)
      BY <1>1, <2>1 DEF BuildInv
    <2>3. /\ text[s].name = "server" /\ IsIn(text, 0, s) /\ IsIn(text, s, k)
          /\ ServersBut(text, n, s, servers) /\ upstreams = GroupsOf(text, n)
          /\ open["server"] = ServerWith(text, n, s, RoutesOf(text, n, s))
          /\ OpenHasBlocks /\ AllSayOneThing(text, n)
      BY <2>1, <2>2 DEF ServerIsBuilt, ServerIsRead, BuildInv
    <2>4. s \in Nat
      BY <2>1
    <2>5. text' = text /\ pos' = k /\ at' = "top" /\ open' = open /\ upstreams' = upstreams
      BY <1>3, <2>1 DEF Enter
    <2>6. ServersBut(text, k, s, servers) /\ GroupsOf(text, k) = GroupsOf(text, n)
      <3>1. IsOpenAt(text, s, n + 1)
        BY <2>1, <2>3 DEF IsOpenAt
      <3> QED
        BY <2>1, <2>3, <3>1, ServerStands
    <2>7. ServersOf(text, k) = Append(servers, ServerOf(text, k, s))
      BY <2>1, <2>6, ServerClosed
    <2>8. ServerOf(text, k, s) = open["server"]
      <3>1. RoutesOf(text, k, s) = RoutesOf(text, n, s)
        BY <2>1, <2>3, <2>4, BraceSaysNothing, RoutesOfSame
      <3>2. ServerOf(text, k, s) = ServerWith(text, k, s, RoutesOf(text, k, s))
        BY <2>1, ServerIsWith
      <3>3. \A routes : ServerWith(text, k, s, routes) = ServerWith(text, n, s, routes)
        BY <2>1, BraceSaysNothing
      <3> QED
        BY <2>3, <3>1, <3>2, <3>3
    <2>9. IsIn(text, 0, k + 1)
      <3>1. k \in Nat /\ 0 \in Nat
        BY <2>1
      <3> QED
        BY <2>1, <2>3, <2>4, <3>1, InsideCloses
    <2>10. AllSayOneThing(text, k)
      BY <2>1, <2>3, <2>4, BraceSaysNothing, RouteOfDirective
    <2>11. AllIsWritten'
      BY <1>3, <2>3, <2>5, <2>6, <2>7, <2>8 DEF AllIsWritten
    <2> QED
      BY <2>3, <2>5, <2>9, <2>10, <2>11 DEF BuildInv, OpenHasBlocks
  <1> QED
    BY <1>2, <1>3 DEF CloseServer

LEMMA CloseRouteKeeps ==
  ASSUME ParseInv, BuildInv, CloseRoute
  PROVE  BuildInv'
  <1>1. /\ at = "route" /\ pos < Len(text) /\ IsClosing(Directive)
        /\ open' = [open EXCEPT !.server.routes = Append(@, open.route)]
        /\ Enter("server", Tail(scopes)) /\ UNCHANGED <<servers, upstreams>>
    BY Zenon DEF CloseRoute, Reads, IsClosing
  <1>2. PICK n, k : /\ n = pos /\ k = n + 1 /\ n \in Nat /\ k \in Nat \ {0} /\ k = pos + 1 /\ IsClosing(text[n + 1])
                    /\ IsClosing(text[k])
    BY <1>1, PlacesOfText DEF ParseInv, Directive
  <1>3. PICK s \in 1 .. n, r \in 1 .. n : RouteIsBuilt(s, r)
    BY <1>1, <1>2 DEF BuildInv
  <1>4. /\ text[s].name = "server" /\ IsIn(text, 0, s)
        /\ ServersBut(text, n, s, servers) /\ upstreams = GroupsOf(text, n)
        /\ text[r].name = "route" /\ IsIn(text, s, r) /\ IsIn(text, r, k)
        /\ open["route"] = RouteOf(text, n, r)
        /\ OpenHasBlocks /\ AllSayOneThing(text, n)
    BY <1>2, <1>3 DEF RouteIsBuilt, ServerIsRead, BuildInv
  <1>5. PICK routes : RoutesBut(text, n, s, r, routes) /\ open["server"] = ServerWith(text, n, s, routes)
    BY <1>2, <1>3 DEF RouteIsBuilt
  <1>6. s \in Nat /\ r \in Nat /\ s # 0 /\ r # 0 /\ s \in 1 .. k
    BY <1>2
  <1>7. text' = text /\ pos' = k /\ at' = "server" /\ servers' = servers /\ upstreams' = upstreams
    BY <1>1, <1>2 DEF Enter
  <1>8. ServersBut(text, k, s, servers) /\ GroupsOf(text, k) = GroupsOf(text, n)
    <2>1. IsOpenAt(text, s, n + 1)
      BY <1>2, <1>4, <1>6 DEF IsOpenAt
    <2> QED
      BY <1>2, <1>4, <2>1, ServerStands
  <1>9. RoutesOf(text, k, s) = Append(routes, open["route"])
    <2>1. RoutesBut(text, k, s, r, routes)
      BY <1>2, <1>4, <1>5, <1>6, RoutesButSame
    <2>2. RoutesOf(text, k, s) = Append(routes, RouteOf(text, k, r))
      <3>1. k \in Nat
        BY <1>2
      <3> QED
        BY <2>1, <3>1, RouteClosed, Zenon
    <2>3. RouteOf(text, k, r) = RouteOf(text, n, r)
      BY <1>2, BraceSaysNothing
    <2> QED
      BY <1>4, <2>2, <2>3
  <1>10. OpenHasBlocks' /\ open'["server"] = [open["server"] EXCEPT !["routes"] = Append(open["server"]["routes"], open["route"])]
    BY <1>1, <1>4 DEF OpenHasBlocks
  <1>11. open'["server"] = ServerWith(text, k, s, RoutesOf(text, k, s))
    <2>1. open["server"]["routes"] = routes
      BY <1>5 DEF ServerWith
    <2>2. PICK more : more = RoutesOf(text, k, s)
      OBVIOUS
    <2>3. [ServerWith(text, n, s, routes) EXCEPT !["routes"] = more] = ServerWith(text, n, s, more)
      BY DEF ServerWith
    <2>4. ServerWith(text, k, s, more) = ServerWith(text, n, s, more)
      BY <1>2, BraceSaysNothing
    <2> QED
      BY <1>5, <1>9, <1>10, <2>1, <2>2, <2>3, <2>4
  <1>12. IsIn(text, s, k + 1)
    <2>1. k \in Nat
      BY <1>2
    <2> QED
      BY <1>2, <1>4, <1>6, <2>1, InsideCloses
  <1>13. AllSayOneThing(text, k)
    BY <1>2, <1>4, <1>6, BraceSaysNothing, RouteOfDirective
  <1>14. ServerIsBuilt(s)'
    BY <1>2, <1>4, <1>7, <1>8, <1>11, <1>12 DEF ServerIsBuilt, ServerIsRead
  <1>15. s \in 1 .. pos'
    BY <1>6, <1>7
  <1> QED
    BY <1>7, <1>10, <1>13, <1>14, <1>15 DEF BuildInv

LEMMA CloseUpstreamKeeps ==
  ASSUME ParseInv, BuildInv, CloseUpstream
  PROVE  BuildInv'
  <1>1. /\ at = "upstream" /\ pos < Len(text) /\ IsClosing(Directive)
        /\ upstreams' = Put(upstreams, open.upstream.name, open.upstream)
        /\ Enter("top", Tail(scopes)) /\ UNCHANGED <<open, servers>>
    BY Zenon DEF CloseUpstream, Reads, IsClosing
  <1>2. PICK n, k : /\ n = pos /\ k = n + 1 /\ n \in Nat /\ k \in Nat \ {0} /\ k = pos + 1 /\ IsClosing(text[n + 1])
                    /\ IsClosing(text[k])
    BY <1>1, PlacesOfText DEF ParseInv, Directive
  <1>3. PICK g \in 1 .. n : GroupIsBuilt(g)
    BY <1>1, <1>2 DEF BuildInv
  <1>4. /\ text[g].name = "upstream" /\ IsIn(text, 0, g) /\ IsIn(text, g, k)
        /\ servers = ServersOf(text, n) /\ GroupsBut(text, n, g, upstreams)
        /\ open["upstream"] = GroupOf(text, n, g) /\ OpenHasBlocks /\ AllSayOneThing(text, n)
    BY <1>2, <1>3 DEF GroupIsBuilt, BuildInv
  <1>5. g \in Nat \ {0} /\ g \in Nat
    BY <1>2
  <1>6. text' = text /\ pos' = k /\ at' = "top" /\ open' = open /\ servers' = servers
    BY <1>1, <1>2 DEF Enter
  <1>7. GroupsBut(text, k, g, upstreams) /\ ServersOf(text, k) = ServersOf(text, n)
    BY <1>2, <1>4, GroupStands
  <1>8. GroupsOf(text, k) = upstreams'
    <2>1. GroupsOf(text, k) = Put(upstreams, text[g].args[1], GroupOf(text, k, g))
      BY <1>2, <1>5, <1>7, GroupClosed
    <2>2. GroupOf(text, k, g) = open["upstream"]
      BY <1>2, <1>4, BraceSaysNothing
    <2>3. open["upstream"]["name"] = text[g].args[1]
      BY <1>4 DEF GroupOf
    <2> QED
      BY <1>1, <2>1, <2>2, <2>3
  <1>9. IsIn(text, 0, k + 1)
    <2>1. k \in Nat /\ 0 \in Nat
      BY <1>2
    <2> QED
      BY <1>2, <1>4, <1>5, <2>1, InsideCloses
  <1>10. AllSayOneThing(text, k)
    BY <1>2, <1>4, <1>5, BraceSaysNothing, RouteOfDirective
  <1>11. AllIsWritten'
    BY <1>4, <1>6, <1>7, <1>8 DEF AllIsWritten
  <1> QED
    BY <1>4, <1>6, <1>9, <1>10, <1>11 DEF BuildInv, OpenHasBlocks

-----------------------------------------------------------------------------
(* All steps *)

LEMMA ParseStepKeepsBuild == ParseInv /\ BuildInv /\ ParseStep => BuildInv'
  <1> SUFFICES ASSUME ParseInv, BuildInv, ParseStep PROVE BuildInv'
    OBVIOUS
  <1>1. CASE Unknown
    BY <1>1, FailKeeps DEF Unknown
  <1>2. CASE IsNotFollowed
    <2>1. UNCHANGED <<text, pos, open, servers, upstreams>> /\ at' \in {"failed", "endless"}
      BY <1>2 DEF IsNotFollowed, Fail
    <2> QED
      BY <2>1, NothingReadKeeps
  <1>3. CASE FileEnds
    <2>1. /\ UNCHANGED <<text, pos, open, servers, upstreams>>
          /\ at' = IF at = "top" THEN "read" ELSE "failed"
      BY <1>3 DEF FileEnds
    <2>2. at' \in {"failed", "endless"} \/ (at' \in {"read", "parsed"} /\ at \in {"top", "read", "parsed"})
      BY <2>1
    <2> QED
      BY <2>1, <2>2, NothingReadKeeps
  <1> QED
    BY <1>1, <1>2, <1>3, SetVariableKeeps, GiveOnceKeeps, OpenRouteKeeps, GiveContentKeeps, AddFilesKeeps,
       GiveProxyKeeps, AddProxyHeaderKeeps, AddHeaderKeeps, CloseRouteKeeps, OpenServerKeeps, AddDomainsKeeps,
       AddErrorPageKeeps, CloseServerKeeps, OpenUpstreamKeeps, AddUpstreamServerKeeps, CloseUpstreamKeeps DEF ParseStep

LEMMA BuildInvStep == ParseInv /\ BuildInv /\ [StartupNext]_uvars => BuildInv'
  <1> SUFFICES ASSUME ParseInv, BuildInv, [StartupNext]_uvars PROVE BuildInv'
    OBVIOUS
  <1>1. CASE ParseStep
    BY <1>1, ParseStepKeepsBuild
  <1>2. CASE GroupServer
    BY <1>2, NothingReadKeeps DEF GroupServer, pvars
  <1>3. ASSUME NEW a, CheckGroup(a) PROVE BuildInv'
    <2>1. Fail \/ UNCHANGED pvars
      BY <1>3 DEF CheckGroup
    <2> QED
      BY <2>1, FailKeeps, NothingReadKeeps DEF pvars
  <1>4. CASE ParseReturns
    BY <1>4, NothingReadKeeps DEF ParseReturns
  <1>5. ASSUME NEW a, MakeAcceptor(a) PROVE BuildInv'
    BY <1>5, NothingReadKeeps DEF MakeAcceptor, pvars
  <1>6. CASE UNCHANGED uvars
    BY <1>6, NothingReadKeeps DEF uvars, pvars
  <1> QED
    BY <1>1, <1>2, <1>3, <1>4, <1>5, <1>6 DEF StartupNext, StartupStep, StartupDone

-----------------------------------------------------------------------------
(* What was built is what is written *)

\* What is built is what the blocks say.
LEMMA InvBlocks == BuildInv => BlocksAreAsWritten
  BY DEF BuildInv, AllIsWritten, AllSayOneThing, BlocksAreAsWritten

\* Of the end of parse_config and of the configuration it returns, for every file that is
\* accepted: its servers are those of the server blocks, in their order, each with what the
\* directives of its block say and with its routes, and its groups are those of the last
\* upstream block of their names; no block sees what another one was given, and a route has
\* one content.
THEOREM BlocksSayWhatIsWritten == StartupSpec => []BlocksAreAsWritten
  <1>1. StartupInit => ParseInv /\ BuildInv
    BY ParseInvInit, BuildInvInit
  <1>2. ParseInv /\ BuildInv /\ [StartupNext]_uvars => (ParseInv /\ BuildInv)'
    BY ParseInvStep, BuildInvStep
  <1>3. ParseInv /\ BuildInv => BlocksAreAsWritten
    BY InvBlocks
  <1> QED
    BY <1>1, <1>2, <1>3, PTL DEF StartupSpec

-----------------------------------------------------------------------------
(* The servers of a group, in their order *)

\* Where those of the first n servers are that have this address.
PlacesFor(a, n) == InOrder({k \in DOMAIN servers : Address(servers[k]) = a}, n)

\* Those that were grouped are in their groups, in the order of the file.
GroupsAreInOrder ==
  \A a : /\ a \in DOMAIN groups => groups[a].servers = At(servers, PlacesFor(a, grouped))
         /\ a \notin DOMAIN groups => PlacesFor(a, grouped) = <<>>

LEMMA NothingIsGrouped ==
  ASSUME DOMAIN groups = {}, grouped = 0
  PROVE  GroupsAreInOrder
  <1>1. \A a : PlacesFor(a, 0) = <<>>
    BY InOrderStep DEF PlacesFor
  <1> QED
    BY <1>1 DEF GroupsAreInOrder

LEMMA NextIsPlaced ==
  ASSUME NEW n \in Nat, n + 1 \in DOMAIN servers, NEW a
  PROVE  /\ Address(servers[n + 1]) = a => PlacesFor(a, n + 1) = Append(PlacesFor(a, n), n + 1)
         /\ Address(servers[n + 1]) # a => PlacesFor(a, n + 1) = PlacesFor(a, n)
  <1>1. PICK S : S = {k \in DOMAIN servers : Address(servers[k]) = a}
    OBVIOUS
  <1>2. n + 1 \in S <=> Address(servers[n + 1]) = a
    BY <1>1
  <1>3. /\ InOrder(S, 0) = <<>>
        /\ n + 1 \in S => InOrder(S, n + 1) = Append(InOrder(S, n), n + 1)
        /\ n + 1 \notin S => InOrder(S, n + 1) = InOrder(S, n)
    BY InOrderStep
  <1> QED
    BY <1>1, <1>2, <1>3, Zenon DEF PlacesFor

LEMMA PlacesAreNumbers ==
  ASSUME NEW a, NEW n \in Nat
  PROVE  PlacesFor(a, n) \in Seq(1 .. n)
  BY InOrderLists DEF PlacesFor

LEMMA GroupServerInOrder ==
  ASSUME ListenersInv, GroupsAreInOrder, GroupServer
  PROVE  GroupsAreInOrder'
  <1>1. PICK n, server, a : n = grouped /\ server = servers[grouped + 1] /\ a = Address(server)
    OBVIOUS
  <1>2. /\ n \in Nat /\ n + 1 \in DOMAIN servers /\ server = servers[n + 1]
        /\ grouped' = n + 1 /\ servers' = servers
        /\ groups' = IF a \in DOMAIN groups
                     THEN [groups EXCEPT ![a].servers = Append(@, server)]
                     ELSE Put(groups, a, [servers |-> <<server>>, default |-> 1])
    <2>1. IsSequence(servers) /\ grouped \in 0 .. Len(servers)
      BY DEF ListenersInv
    <2>2. Len(servers) \in Nat /\ DOMAIN servers = 1 .. Len(servers)
      BY <2>1, SequenceHasPlaces
    <2>3. grouped < Len(servers)
      BY DEF GroupServer
    <2>4. n \in Nat /\ n + 1 \in DOMAIN servers
      BY <1>1, <2>1, <2>2, <2>3
    <2> QED
      BY <1>1, <2>4, Zenon DEF GroupServer, pvars
  <1>3. \A b, m : PlacesFor(b, m)' = PlacesFor(b, m)
    BY <1>2 DEF PlacesFor
  <1>4. ASSUME NEW b, b # a
        PROVE  /\ b \in DOMAIN groups' => groups'[b].servers = At(servers, PlacesFor(b, n + 1))
               /\ b \notin DOMAIN groups' => PlacesFor(b, n + 1) = <<>>
    <2>1. PlacesFor(b, n + 1) = PlacesFor(b, n)
      BY <1>1, <1>2, <1>4, NextIsPlaced
    <2>2. (b \in DOMAIN groups' <=> b \in DOMAIN groups) /\ (b \in DOMAIN groups => groups'[b] = groups[b])
      BY <1>2, <1>4 DEF Put
    <2> QED
      BY <1>1, <2>1, <2>2 DEF GroupsAreInOrder
  <1>5. a \in DOMAIN groups' /\ groups'[a].servers = At(servers, PlacesFor(a, n + 1))
    <2>1. PlacesFor(a, n + 1) = Append(PlacesFor(a, n), n + 1)
      BY <1>1, <1>2, NextIsPlaced
    <2>2. At(servers, Append(PlacesFor(a, n), n + 1)) = Append(At(servers, PlacesFor(a, n)), servers[n + 1])
      <3>1. PlacesFor(a, n) \in Seq(1 .. n)
        BY <1>2, PlacesAreNumbers
      <3> QED
        BY <3>1, AtMore, Zenon
    <2>3. CASE a \in DOMAIN groups
      <3>1. DOMAIN groups[a] = {"servers", "default"}
        BY <2>3 DEF ListenersInv, GroupsAreSelections
      <3>2. a \in DOMAIN groups' /\ groups'[a].servers = Append(groups[a].servers, server)
        BY <1>2, <2>3, <3>1
      <3>3. groups[a].servers = At(servers, PlacesFor(a, n))
        BY <1>1, <2>3 DEF GroupsAreInOrder
      <3> QED
        BY <1>2, <2>1, <2>2, <3>2, <3>3
    <2>4. CASE a \notin DOMAIN groups
      <3>1. a \in DOMAIN groups' /\ groups'[a].servers = <<server>>
        BY <1>2, <2>4 DEF Put
      <3>2. PlacesFor(a, n) = <<>>
        BY <1>1, <2>4 DEF GroupsAreInOrder
      <3>3. At(servers, <<>>) = <<>>
        BY DEF At
      <3>4. Append(<<>>, servers[n + 1]) = <<servers[n + 1]>>
        OBVIOUS
      <3> QED
        BY <1>2, <2>1, <2>2, <3>1, <3>2, <3>3, <3>4
    <2> QED
      BY <2>3, <2>4
  <1> QED
    BY <1>2, <1>3, <1>4, <1>5 DEF GroupsAreInOrder

\* The lists of servers stay as they are.
LEMMA SameListsAreInOrder ==
  ASSUME GroupsAreInOrder, UNCHANGED <<servers, grouped>>, DOMAIN groups' = DOMAIN groups,
         \A a \in DOMAIN groups : groups'[a].servers = groups[a].servers
  PROVE  GroupsAreInOrder'
  BY DEF GroupsAreInOrder, PlacesFor

LEMMA GroupsInOrderStep == ListenersInv /\ GroupsAreInOrder /\ [StartupNext]_uvars => GroupsAreInOrder'
  <1> SUFFICES ASSUME ListenersInv, GroupsAreInOrder, [StartupNext]_uvars PROVE GroupsAreInOrder'
    OBVIOUS
  <1>1. CASE ParseStep /\ UNCHANGED gvars
    <2>1. at \in Blocks
      BY <1>1, ParseStepAddsServers
    <2>2. grouped = 0 /\ DOMAIN groups = {}
      BY <2>1 DEF ListenersInv, PhasesInOrder, GroupsAreSelections
    <2>3. (DOMAIN groups = {} /\ grouped = 0)'
      BY <1>1, <2>2 DEF gvars
    <2>4. \A a : PlacesFor(a, 0)' = <<>>
      BY InOrderStep DEF PlacesFor
    <2> QED
      BY <2>3, <2>4 DEF GroupsAreInOrder
  <1>2. CASE GroupServer
    BY <1>2, GroupServerInOrder
  <1>3. ASSUME NEW a \in DOMAIN groups, CheckGroup(a) PROVE GroupsAreInOrder'
    <2>1. DOMAIN groups[a] = {"servers", "default"}
      BY DEF ListenersInv, GroupsAreSelections
    <2>2. UNCHANGED <<servers, grouped>>
      BY <1>3 DEF CheckGroup, Fail, gvars, pvars
    <2>3. DOMAIN groups' = DOMAIN groups /\ \A b \in DOMAIN groups : groups'[b].servers = groups[b].servers
      <3>1. groups' = groups \/ groups' = [groups EXCEPT ![a].default = Default(groups[a])]
        BY <1>3 DEF CheckGroup, gvars
      <3> QED
        BY <2>1, <3>1
    <2> QED
      BY <2>2, <2>3, SameListsAreInOrder
  <1>4. CASE ParseReturns
    BY <1>4, SameListsAreInOrder DEF ParseReturns
  <1>5. ASSUME NEW a, MakeAcceptor(a) PROVE GroupsAreInOrder'
    BY <1>5, SameListsAreInOrder DEF MakeAcceptor, pvars
  <1>6. CASE UNCHANGED uvars
    BY <1>6, SameListsAreInOrder DEF uvars, pvars, gvars
  <1> QED
    BY <1>1, <1>2, <1>3, <1>4, <1>5, <1>6 DEF StartupNext, StartupStep, StartupDone

\* What the invariants say of groups.
LEMMA InvGroups == ListenersInv /\ GroupsAreInOrder /\ BuildInv => ServersAreGrouped
  <1> SUFFICES ASSUME ListenersInv, GroupsAreInOrder, BuildInv, at = "parsed" PROVE ServersAreGrouped
    BY DEF ServersAreGrouped
  <1>1. ServersAreSelected
    BY InvSelectsServers
  <1>2. grouped = Len(servers) /\ IsSequence(servers) /\ servers = ServersOf(text, pos)
    BY DEF ListenersInv, PhasesInOrder, BuildInv, AllIsWritten
  <1>3. ASSUME NEW a \in DOMAIN groups PROVE groups[a].servers = OfAddress(servers, a)
    <2>1. groups[a].servers = At(servers, PlacesFor(a, Len(servers)))
      BY <1>2, <1>3 DEF GroupsAreInOrder
    <2> QED
      BY <2>1, Zenon DEF At, PlacesFor, OfAddress
  <1> QED
    BY <1>1, <1>2, <1>3 DEF ServersAreGrouped, ServersAreSelected

\* The end of parse_config, for every configuration that is accepted: each server of the
\* file is in the group of its address, in its order, with the others of it; the default
\* one is the first that is marked, or the first; and an address has certificates or none.
THEOREM ServersGrouped == StartupSpec => []ServersAreGrouped
  <1>1. StartupInit => ListenersInv /\ GroupsAreInOrder /\ ParseInv /\ BuildInv
    <2>1. StartupInit => GroupsAreInOrder
      <3> SUFFICES ASSUME StartupInit PROVE GroupsAreInOrder
        OBVIOUS
      <3>1. grouped = 0 /\ groups = <<>>
        BY Zenon DEF StartupInit, Empty
      <3> QED
        BY <3>1, NothingIsGrouped
    <2> QED
      BY <2>1, ListenersInit, ParseInvInit, BuildInvInit
  <1>2. ListenersInv /\ GroupsAreInOrder /\ ParseInv /\ BuildInv /\ [StartupNext]_uvars
          => (ListenersInv /\ GroupsAreInOrder /\ ParseInv /\ BuildInv)'
    BY ListenersStep, GroupsInOrderStep, ParseInvStep, BuildInvStep
  <1>3. ListenersInv /\ GroupsAreInOrder /\ BuildInv => ServersAreGrouped
    BY InvGroups
  <1> QED
    BY <1>1, <1>2, <1>3, PTL DEF StartupSpec
=============================================================================
