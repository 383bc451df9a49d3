---------------------------- MODULE ServingProofs ----------------------------
(***************************************************************************)
(* Theorems about connections, for any number of them, any listeners and   *)
(* any configuration: what a request may die of, how often it is worked    *)
(* on, and what an error is reported as.                                   *)
(***************************************************************************)
EXTENDS Serving, NaturalLemmas

-----------------------------------------------------------------------------
(* The route search returns *)

\* Routes with a uri each.
AreRoutes(routes) == Len(routes) \in Nat /\ \A r \in 1 .. Len(routes) : Len(routes[r].uri) \in Nat

HasLongest(routes, candidates) == \E r : IsLongest(routes, candidates, r)

\* Of some candidates one has the longest uri and is behind those as long: were
\* it not so, it would not be so of the candidates up to some least index.
LEMMA LongestExists ==
  ASSUME NEW routes, AreRoutes(routes), NEW candidates \in SUBSET (1 .. Len(routes)), candidates # {}
  PROVE  \E r \in candidates : IsLongest(routes, candidates, r)
<1> DEFINE UpTo(n) == {q \in candidates : q <= n}
           T == {n \in 0 .. Len(routes) : UpTo(n) # {} /\ ~HasLongest(routes, UpTo(n))}
<1>1. Len(routes) \in Nat /\ \A q \in candidates : q \in 1 .. Len(routes) /\ Len(routes[q].uri) \in Nat
  BY DEF AreRoutes
<1>2. T = {}
  <2> SUFFICES ASSUME T # {} PROVE FALSE
    OBVIOUS
  <2>1. T \in SUBSET Nat
    BY <1>1
  <2>2. \E n \in T : \A m \in T : n <= m
    <3> HIDE DEF T
    <3> QED BY <2>1, LeastNatural
  <2>3. PICK n \in T : \A m \in T : n <= m
    BY <2>2
  <2>4. n \in 0 .. Len(routes) /\ UpTo(n) # {} /\ ~HasLongest(routes, UpTo(n))
    BY <2>3
  <2>5. n \in 1 .. Len(routes)
    <3>1. PICK q \in candidates : q <= n
      BY <2>4
    <3>2. n \in 0 .. Len(routes)
      BY <2>4
    <3> QED BY <1>1, <3>1, <3>2
  <2>6. n - 1 \notin T
    <3>1. n - 1 \in T => n <= n - 1
      BY <2>3
    <3> QED BY <1>1, <2>5, <3>1
  <2>7. n - 1 \in 0 .. Len(routes)
    BY <1>1, <2>5
  <2>8. UpTo(n - 1) = {} \/ HasLongest(routes, UpTo(n - 1))
    BY <2>6, <2>7
  <2>9. UpTo(n) = UpTo(n - 1) \cup ({n} \cap candidates)
    <3>1. \A q \in candidates : q <= n <=> q <= n - 1 \/ q = n
      BY <1>1, <2>5
    <3> QED BY <1>1, <2>5, <3>1
  <2>10. \A q \in UpTo(n - 1) : q \in candidates /\ q < n /\ q <= n /\ q # n
    BY <1>1, <2>5
  <2> HIDE DEF UpTo, T
  <2>11. CASE n \notin candidates
    <3>1. UpTo(n) = UpTo(n - 1)
      BY <2>9, <2>11
    <3> QED BY <2>4, <2>8, <3>1
  <2>12. CASE n \in candidates /\ UpTo(n - 1) = {}
    <3>1. UpTo(n) = {n}
      BY <2>9, <2>12
    <3>2. IsLongest(routes, {n}, n)
      BY <1>1, <2>12 DEF IsLongest
    <3> QED BY <2>4, <3>1, <3>2 DEF HasLongest
  <2>13. CASE n \in candidates /\ UpTo(n - 1) # {}
    <3>1. PICK r : IsLongest(routes, UpTo(n - 1), r)
      BY <2>8, <2>13 DEF HasLongest
    <3>2. r \in candidates /\ r < n /\ r \in 1 .. Len(routes)
      BY <1>1, <2>10, <3>1 DEF IsLongest
    <3>3. UpTo(n) = UpTo(n - 1) \cup {n}
      BY <2>9, <2>13
    <3>4. \A q \in UpTo(n - 1) : Len(routes[q].uri) \in Nat /\ q \in 1 .. Len(routes)
      BY <1>1, <2>10
    <3>5. CASE Len(routes[r].uri) <= Len(routes[n].uri)
      <4>1. IsLongest(routes, UpTo(n), n)
        BY <1>1, <2>5, <2>10, <2>13, <3>1, <3>2, <3>3, <3>4, <3>5 DEF IsLongest
      <4> QED BY <4>1, <2>4 DEF HasLongest
    <3>6. CASE ~(Len(routes[r].uri) <= Len(routes[n].uri))
      <4>1. IsLongest(routes, UpTo(n), r)
        BY <1>1, <2>5, <2>10, <2>13, <3>1, <3>2, <3>3, <3>4, <3>6 DEF IsLongest
      <4> QED BY <4>1, <2>4 DEF HasLongest
    <3> QED BY <3>5, <3>6
  <2> QED BY <2>11, <2>12, <2>13
<1>3. UpTo(Len(routes)) = candidates
  <2>1. \A q \in candidates : q <= Len(routes)
    BY <1>1
  <2> QED BY <2>1, Zenon
<1>4. Len(routes) \in 0 .. Len(routes)
  BY <1>1
<1>5. HasLongest(routes, candidates)
  BY <1>2, <1>3, <1>4
<1> QED BY <1>5 DEF HasLongest, IsLongest

\* The search returns a route of the table that matches, or zero.
LEMMA SearchReturns ==
  ASSUME NEW routes, AreRoutes(routes), NEW path
  PROVE  /\ MatchingRoute(routes, path) \in 0 .. Len(routes)
         /\ MatchingRoute(routes, path) # 0 => Matches(routes[MatchingRoute(routes, path)], path)
<1> DEFINE prioritised == Candidates(routes, path, {"PrefixPrioritiesed", "Exact"})
           regex == Candidates(routes, path, {"Regex"})
           prefix == Candidates(routes, path, {"Prefix"})
<1>1. \A ms : Candidates(routes, path, ms) \in SUBSET (1 .. Len(routes))
  BY DEF Candidates
<1>2. 1 .. Len(routes) \in SUBSET Nat /\ 0 \in 0 .. Len(routes) /\ 1 .. Len(routes) \subseteq 0 .. Len(routes)
  BY DEF AreRoutes
<1>3. \E r \in 0 .. Len(routes) : IsMatchingRoute(routes, path, r)
  <2>1. CASE prioritised # {}
    BY <1>1, <1>2, <2>1, LongestExists DEF IsMatchingRoute
  <2>2. CASE prioritised = {} /\ regex # {}
    <3>1. regex \in SUBSET Nat
      BY <1>1, <1>2
    <3>2. PICK r \in regex : \A q \in regex : r <= q
      BY <2>2, <3>1, LeastNatural
    <3> QED BY <1>1, <1>2, <2>2, <3>2 DEF IsMatchingRoute, IsFirst
  <2>3. CASE prioritised = {} /\ regex = {} /\ prefix # {}
    BY <1>1, <1>2, <2>3, LongestExists DEF IsMatchingRoute
  <2>4. CASE prioritised = {} /\ regex = {} /\ prefix = {}
    BY <1>2, <2>4 DEF IsMatchingRoute
  <2> QED BY <2>1, <2>2, <2>3, <2>4
<1> DEFINE m == MatchingRoute(routes, path)
<1>4. m \in 0 .. Len(routes) /\ IsMatchingRoute(routes, path, m)
  BY <1>3 DEF MatchingRoute
<1> HIDE DEF m
<1>5. m # 0 => m \in prioritised \/ m \in regex \/ m \in prefix
  BY <1>4 DEF IsMatchingRoute, IsLongest, IsFirst
<1>6. m # 0 => Matches(routes[m], path)
  BY <1>5 DEF Candidates
<1> QED BY <1>4, <1>6 DEF m

\* A path is no shorter than the prefix its route matched.
LEMMA PrefixIsNoLonger ==
  ASSUME NEW route, NEW path, Len(route.uri) \in Nat, Len(path) \in Nat, Matches(route, path)
  PROVE  ~(MatchedPrefixLen(route) > Len(path))
BY DEF Matches, MatchedPrefixLen, StartsWith

-----------------------------------------------------------------------------
(* The invariant *)

Unread == {"waiting", "tls", "header"}
AtWork == {"construct", "proxying"}

\* A connection before its request is routed has met no error; with a route and no
\* error, the route was matched by the path of the request; a page is looked for
\* when the error has been met, after one try at most.
Progress(c) ==
  /\ stage[c] \in Unread => request[c] = EmptyRequest
  /\ stage[c] \in Unread \cup {"body", "route"} => error[c] = 0 /\ tries[c] = 0
  /\ stage[c] = "page" => error[c] # 0 /\ tries[c] <= 1
  /\ stage[c] \in AtWork /\ error[c] = 0 =>
       tries[c] <= 1 /\ Matches(Route(c), request[c].path)

Died(c) ==
  stage[c] = "panicked" /\ error[c] = 0 =>
    \/ request[c].host = NoHost
    \/ SearchPanics(Server(c))
    \/ matched[c] # 0 /\ Route(c).bad \in {"uri", "group"}

\* The indices of a connection are of servers and routes there are.
Indices(c) ==
  /\ vhost[c] \in 0 .. Len(Servers(c))
  /\ stage[c] \in {"page", "construct", "proxying", "writing"} => vhost[c] # 0
  /\ stage[c] \in AtWork => matched[c] \in 1 .. Len(Server(c).routes)

ConnOK(c) == Indices(c) /\ Progress(c) /\ tries[c] <= 2 /\ Died(c)

Errors == {0, 400, 404, 408, 500, 501}

\* The values of the variables, but for what relates one to another.
Values ==
  /\ disk \in Disks
  /\ stage \in [Conns -> Stages]
  /\ via \in [Conns -> Listeners]
  /\ request \in [Conns -> Requests \cup {EmptyRequest}]
  /\ left \in [Conns -> 0 .. MaxReads]
  /\ vhost \in [Conns -> Int] /\ matched \in [Conns -> Int]
  /\ error \in [Conns -> Errors]
  /\ tries \in [Conns -> Nat]
  /\ response \in [Conns -> [status : Nat, file : Nat]]
  /\ answered \in [Conns -> BOOLEAN]
  /\ listener \in [Listeners -> {"starting", "listening", "ended"}]
  /\ exited \in BOOLEAN

ServingInv == Values /\ \A c \in Conns : ConnOK(c)

\* A step of one connection leaves what the others have.
LeavesOthers(c) ==
  \A d \in Conns \ {c} :
    /\ stage'[d] = stage[d] /\ request'[d] = request[d] /\ vhost'[d] = vhost[d]
    /\ error'[d] = error[d] /\ matched'[d] = matched[d] /\ tries'[d] = tries[d]
    /\ response'[d] = response[d]

LEMMA OthersAreKept ==
  ASSUME ServingInv, NEW c \in Conns, Values', via' = via, LeavesOthers(c), ConnOK(c)'
  PROVE  ServingInv'
<1> SUFFICES ASSUME NEW d \in Conns, d # c PROVE ConnOK(d)'
  BY DEF ServingInv
<1>1. /\ stage'[d] = stage[d] /\ request'[d] = request[d] /\ vhost'[d] = vhost[d]
      /\ error'[d] = error[d] /\ matched'[d] = matched[d] /\ tries'[d] = tries[d]
      /\ response'[d] = response[d]
  BY DEF LeavesOthers
<1>2. Servers(d)' = Servers(d) /\ Server(d)' = Server(d) /\ Route(d)' = Route(d)
  BY <1>1 DEF Servers, Server, Route
<1>3. ConnOK(d)
  BY DEF ServingInv
<1>4. Indices(d)' /\ (tries[d] <= 2)'
  BY <1>1, <1>2, <1>3 DEF ConnOK, Indices
<1>5. Progress(d)'
  BY <1>1, <1>2, <1>3 DEF ConnOK, Progress
<1>6. Died(d)'
  BY <1>1, <1>2, <1>3 DEF ConnOK, Died, SearchPanics
<1> QED BY <1>4, <1>5, <1>6 DEF ConnOK

\* What is known of the configuration at a connection.
LEMMA ServersOfConnection ==
  ASSUME ServingInv, NEW c \in Conns
  PROVE  /\ Len(Servers(c)) \in Nat
         /\ Group[via[c]].default \in 1 .. Len(Servers(c))
         /\ \A v \in 1 .. Len(Servers(c)) :
              /\ AreRoutes(Servers(c)[v].routes)
              /\ \A r \in 1 .. Len(Servers(c)[v].routes) :
                   /\ Servers(c)[v].routes[r].status \in Nat
                   /\ Len(Servers(c)[v].routes[r].files) \in Nat
         /\ Len(request[c].path) \in Nat
<1>1. via[c] \in Listeners /\ request[c] \in Requests \cup {EmptyRequest}
  BY DEF ServingInv, Values
<1>2. Len(request[c].path) \in Nat
  BY <1>1, GroupAssumption DEF GroupAssumption, EmptyRequest
<1>3. Group[via[c]].default \in 1 .. Len(Servers(c))
  BY <1>1, GroupAssumption DEF GroupAssumption, Servers
<1>4. /\ Len(Servers(c)) \in Nat
      /\ \A v \in 1 .. Len(Servers(c)) :
           /\ AreRoutes(Servers(c)[v].routes)
           /\ \A r \in 1 .. Len(Servers(c)[v].routes) :
                /\ Servers(c)[v].routes[r].status \in Nat
                /\ Len(Servers(c)[v].routes[r].files) \in Nat
  BY <1>1, GroupAssumption DEF GroupAssumption, Servers, AreRoutes
<1> QED BY <1>2, <1>3, <1>4

-----------------------------------------------------------------------------
(* Steps that only move a connection on *)

\* The stages a connection may go to and leave everything else as it is.
MovesOn(c, s) ==
  /\ Enter(c, s)
  /\ UNCHANGED <<disk, via, request, left, vhost, error, matched, tries, response, answered>>
  /\ UNCHANGED <<listener, exited>>

LEMMA MovingOn ==
  ASSUME ServingInv, NEW c \in Conns, NEW s \in Stages, MovesOn(c, s),
         \/ stage[c] \in {"waiting", "tls"} /\ s \in {"tls", "header", "closed"}
         \/ stage[c] = "header" /\ s = "panicked"
         \/ stage[c] = "writing" /\ s = "shutdown"
         \/ stage[c] = "shutdown" /\ s = "closed"
  PROVE  ServingInv'
<1>1. Values' /\ LeavesOthers(c) /\ stage'[c] = s /\ via' = via
  BY DEF ServingInv, Values, MovesOn, Enter, LeavesOthers
<1>2. ConnOK(c) /\ stage[c] \in Stages
  BY DEF ServingInv, Values
<1>3. UNCHANGED <<request, vhost, error, matched, tries, response>>
  BY DEF MovesOn
<1>4. Servers(c)' = Servers(c)
  BY <1>1 DEF Servers
<1>5. Indices(c)' /\ Progress(c)' /\ (tries[c] <= 2)'
  BY <1>1, <1>2, <1>3, <1>4 DEF ConnOK, Indices, Progress, Unread, AtWork
<1>6. Died(c)'
  BY <1>1, <1>2, <1>3 DEF ConnOK, Died, Progress, Unread, EmptyRequest
<1> QED BY <1>1, <1>5, <1>6, OthersAreKept DEF ConnOK

-----------------------------------------------------------------------------
(* Reading the request *)

LEMMA ReadingTheBody ==
  ASSUME ServingInv, NEW c \in Conns, BodyRead(c) \/ NextChunk(c), UNCHANGED <<listener, exited>>
  PROVE  ServingInv'
<1>1. /\ Values' /\ LeavesOthers(c) /\ via' = via
      /\ UNCHANGED <<stage, request, vhost, error, matched, tries, response>>
  <2>1. left[c] \in 0 .. MaxReads /\ MaxReads \in Nat
    BY GroupAssumption DEF GroupAssumption, ServingInv, Values
  <2>2. \E n \in 0 .. MaxReads : left' = [left EXCEPT ![c] = n]
    <3>1. BodyRead(c) => left[c] - 1 \in 0 .. MaxReads
      BY <2>1 DEF BodyRead
    <3> QED BY <2>1, <3>1 DEF BodyRead, NextChunk
  <2>3. UNCHANGED <<disk, stage, via, request, vhost, error, matched, tries, response, answered>>
    BY DEF BodyRead, NextChunk
  <2> QED BY <2>2, <2>3 DEF ServingInv, Values, LeavesOthers
<1>2. ConnOK(c)
  BY DEF ServingInv
<1>3. Servers(c)' = Servers(c) /\ Server(c)' = Server(c) /\ Route(c)' = Route(c)
  BY <1>1 DEF Servers, Server, Route
<1>4. Indices(c)' /\ Progress(c)' /\ (tries[c] <= 2)' /\ Died(c)'
  BY <1>1, <1>2, <1>3 DEF ConnOK, Indices, Progress, Died, SearchPanics
<1> QED BY <1>1, <1>4, OthersAreKept DEF ConnOK

LEMMA ReadingTheRest ==
  ASSUME ServingInv, NEW c \in Conns, HeaderRead(c) \/ BodyEnds(c), UNCHANGED <<listener, exited>>
  PROVE  ServingInv'
<1>1. ConnOK(c) /\ stage[c] \in {"header", "body"}
  BY DEF ServingInv, HeaderRead, BodyEnds
<1>2. /\ Values' /\ LeavesOthers(c) /\ via' = via /\ stage'[c] \in {"body", "route"}
      /\ UNCHANGED <<vhost, error, matched, tries, response>>
  <2>1. Values /\ "body" \in Stages /\ "route" \in Stages /\ 0 \in 0 .. MaxReads
    BY GroupAssumption DEF GroupAssumption, ServingInv, Stages
  <2>2. PICK s \in {"body", "route"} : Enter(c, s)
    BY DEF HeaderRead, BodyEnds
  <2>3. PICK r \in Requests \cup {EmptyRequest} : request' = [request EXCEPT ![c] = r]
    <3>1. CASE HeaderRead(c)
      BY <3>1 DEF HeaderRead
    <3>2. CASE BodyEnds(c)
      <4>1. request' = [request EXCEPT ![c] = request[c]]
        BY <2>1, <3>2 DEF Values, BodyEnds
      <4> QED BY <2>1, <4>1 DEF Values
    <3> QED BY <3>1, <3>2
  <2>4. PICK n \in 0 .. MaxReads : left' = [left EXCEPT ![c] = n]
    BY <2>1 DEF HeaderRead, BodyEnds
  <2>5. UNCHANGED <<disk, via, vhost, error, matched, tries, response, answered, listener, exited>>
    BY DEF HeaderRead, BodyEnds
  <2>6. /\ stage' \in [Conns -> Stages] /\ request' \in [Conns -> Requests \cup {EmptyRequest}]
        /\ left' \in [Conns -> 0 .. MaxReads]
    BY <2>1, <2>2, <2>3, <2>4 DEF Values, Enter
  <2>7. Values'
    BY <2>1, <2>5, <2>6 DEF Values
  <2>8. stage'[c] \in {"body", "route"} /\ LeavesOthers(c)
    BY <2>1, <2>2, <2>3, <2>5 DEF Values, Enter, LeavesOthers
  <2> QED BY <2>5, <2>7, <2>8
<1>3. Servers(c)' = Servers(c)
  BY <1>2 DEF Servers
<1>4. Indices(c)' /\ Progress(c)' /\ (tries[c] <= 2)' /\ Died(c)'
  BY <1>1, <1>2, <1>3 DEF ConnOK, Indices, Progress, Unread, AtWork, Died
<1> QED BY <1>2, <1>4, OthersAreKept DEF ConnOK

LEMMA FailingToRead ==
  ASSUME ServingInv, NEW c \in Conns, NEW status \in {400, 408, 501}, RequestFails(c, status),
         UNCHANGED <<listener, exited>>
  PROVE  ServingInv'
<1>1. ConnOK(c) /\ stage[c] \in {"header", "body"} /\ Group[via[c]].default \in 1 .. Len(Servers(c))
  BY ServersOfConnection DEF ServingInv, RequestFails
<1>2. /\ Values' /\ LeavesOthers(c) /\ via' = via
      /\ stage'[c] = "page" /\ error'[c] = status /\ vhost'[c] = Group[via[c]].default
      /\ UNCHANGED <<matched, tries, response>>
  <2>1. /\ stage' = [stage EXCEPT ![c] = "page"] /\ request' = [request EXCEPT ![c] = EmptyRequest]
        /\ left' = [left EXCEPT ![c] = 0] /\ error' = [error EXCEPT ![c] = status]
        /\ vhost' = [vhost EXCEPT ![c] = Group[via[c]].default]
        /\ UNCHANGED <<disk, via, matched, tries, response, answered, listener, exited>>
    BY DEF RequestFails, Enter
  <2>2. Values /\ "page" \in Stages /\ status \in Errors /\ 0 \in 0 .. MaxReads
    BY GroupAssumption DEF GroupAssumption, ServingInv, Stages, Errors
  <2>3. Group[via[c]].default \in Int
    BY <1>1, ServersOfConnection
  <2>4. /\ stage' \in [Conns -> Stages] /\ request' \in [Conns -> Requests \cup {EmptyRequest}]
        /\ left' \in [Conns -> 0 .. MaxReads]
    BY <2>1, <2>2 DEF Values
  <2>5. vhost' \in [Conns -> Int] /\ error' \in [Conns -> Errors]
    BY <2>1, <2>2, <2>3 DEF Values
  <2>6. Values'
    BY <2>1, <2>2, <2>4, <2>5 DEF Values
  <2>7. /\ stage'[c] = "page" /\ error'[c] = status /\ vhost'[c] = Group[via[c]].default
        /\ LeavesOthers(c)
    BY <2>1, <2>2 DEF Values, LeavesOthers
  <2> QED BY <2>1, <2>6, <2>7
<1>3. Servers(c)' = Servers(c) /\ Len(Servers(c)) \in Nat
  BY <1>2, ServersOfConnection DEF Servers
<1>4. tries[c] = 0
  BY <1>1 DEF ConnOK, Progress, Unread
<1>5. Indices(c)' /\ Progress(c)' /\ (tries[c] <= 2)' /\ Died(c)'
  BY <1>1, <1>2, <1>3, <1>4 DEF Indices, Progress, Unread, AtWork, Died
<1> QED BY <1>2, <1>5, OthersAreKept DEF ConnOK

-----------------------------------------------------------------------------
(* What construct_response comes to *)

MayPanic(c) == error[c] # 0 \/ Route(c).bad \in {"uri", "group"}

Outcome(c) ==
  \/ \E status, file \in Nat : Respond(c, status, file)
  \/ \E status \in {404, 500} : Fail(c, status)
  \/ Panic(c) /\ MayPanic(c)
  \/ Enter(c, "proxying") /\ UNCHANGED <<error, response>>

Constructed(c) ==
  /\ stage[c] \in AtWork
  /\ Outcome(c)
  /\ UNCHANGED <<disk, via, request, left, vhost, matched, tries, answered>>
  /\ UNCHANGED <<listener, exited>>

LEMMA ConstructedIsOK ==
  ASSUME ServingInv, NEW c \in Conns, Constructed(c)
  PROVE  ServingInv'
<1>1. ConnOK(c) /\ stage[c] \in AtWork /\ error[c] \in Errors /\ tries[c] \in Nat
  BY DEF ServingInv, Values, Constructed
<1>2. matched[c] # 0 /\ matched[c] \in 1 .. Len(Server(c).routes) /\ vhost[c] # 0
  BY <1>1 DEF ConnOK, Indices, AtWork
<1>3. Servers(c)' = Servers(c) /\ Server(c)' = Server(c) /\ Route(c)' = Route(c)
  BY DEF Constructed, Servers, Server, Route
<1>4. /\ via' = via
      /\ UNCHANGED <<disk, request, left, vhost, matched, tries, answered, listener, exited>>
  BY DEF Constructed
<1>5. ASSUME NEW status \in Nat, NEW file \in Nat, Respond(c, status, file) PROVE ServingInv'
  <2>1. PageStatus(c, status) \in Nat /\ (error[c] # 0 => PageStatus(c, status) # 200)
    BY <1>1 DEF PageStatus, Errors
  <2>2. /\ Values' /\ LeavesOthers(c) /\ stage'[c] = "writing" /\ error' = error
        /\ response'[c].status = PageStatus(c, status)
    BY <1>4, <1>5, <2>1 DEF Respond, Enter, ServingInv, Values, Stages, LeavesOthers
  <2> HIDE DEF PageStatus
  <2>3. Indices(c)' /\ Progress(c)' /\ (tries[c] <= 2)' /\ Died(c)'
    BY <1>1, <1>2, <1>3, <1>4, <2>1, <2>2 DEF ConnOK, Indices, Progress, Unread, AtWork, Died
  <2> QED BY <1>4, <2>2, <2>3, OthersAreKept DEF ConnOK
<1>6. ASSUME NEW status \in {404, 500}, Fail(c, status) PROVE ServingInv'
  <2>1. CASE error[c] = 0
    <3>1. Values' /\ LeavesOthers(c) /\ stage'[c] = "page" /\ error'[c] = status /\ response' = response
      <4>1. error' = [error EXCEPT ![c] = status] /\ Enter(c, "page") /\ response' = response
        BY <1>6, <2>1 DEF Fail
      <4>2. status \in Errors /\ "page" \in Stages
        BY DEF Errors, Stages
      <4> QED BY <1>4, <4>1, <4>2 DEF Enter, ServingInv, Values, LeavesOthers
    <3>2. Indices(c)' /\ Progress(c)' /\ (tries[c] <= 2)' /\ Died(c)'
      BY <1>1, <1>2, <1>3, <1>4, <2>1, <3>1 DEF ConnOK, Indices, Progress, Unread, AtWork, Died
    <3> QED BY <1>4, <3>1, <3>2, OthersAreKept DEF ConnOK
  <2>2. CASE error[c] # 0
    <3>1. /\ Values' /\ LeavesOthers(c) /\ stage'[c] = "writing" /\ error' = error
          /\ response'[c].status = error[c]
      <4>1. /\ response' = [response EXCEPT ![c] = [status |-> error[c], file |-> 0]]
            /\ Enter(c, "writing") /\ error' = error
        BY <1>6, <2>2 DEF Fail, EmptyResponse
      <4>2. error[c] \in Nat /\ "writing" \in Stages
        BY <1>1 DEF Errors, Stages
      <4> QED BY <1>4, <4>1, <4>2 DEF Enter, ServingInv, Values, LeavesOthers
    <3>2. Indices(c)' /\ Progress(c)' /\ (tries[c] <= 2)' /\ Died(c)'
      BY <1>1, <1>2, <1>3, <1>4, <2>2, <3>1
         DEF ConnOK, Indices, Progress, Unread, AtWork, Died, Errors
    <3> QED BY <1>4, <3>1, <3>2, OthersAreKept DEF ConnOK
  <2> QED BY <2>1, <2>2
<1>7. CASE Panic(c) /\ MayPanic(c)
  <2>1. Values' /\ LeavesOthers(c) /\ stage'[c] = "panicked" /\ UNCHANGED <<error, response>>
    BY <1>4, <1>7 DEF Panic, Enter, ServingInv, Values, Stages, LeavesOthers
  <2>2. Indices(c)' /\ Progress(c)' /\ (tries[c] <= 2)' /\ Died(c)'
    BY <1>1, <1>2, <1>3, <1>4, <1>7, <2>1
       DEF MayPanic, ConnOK, Indices, Progress, Unread, AtWork, Died
  <2> QED BY <1>4, <2>1, <2>2, OthersAreKept DEF ConnOK
<1>8. CASE Enter(c, "proxying") /\ UNCHANGED <<error, response>>
  <2>1. Values' /\ LeavesOthers(c) /\ stage'[c] = "proxying" /\ UNCHANGED <<error, response>>
    BY <1>4, <1>8 DEF Enter, ServingInv, Values, Stages, LeavesOthers
  <2>2. Indices(c)' /\ Progress(c)' /\ (tries[c] <= 2)' /\ Died(c)'
    BY <1>1, <1>2, <1>3, <1>4, <1>8, <2>1 DEF ConnOK, Indices, Progress, Unread, AtWork, Died
  <2> QED BY <1>4, <2>1, <2>2, OthersAreKept DEF ConnOK
<1> QED BY <1>5, <1>6, <1>7, <1>8 DEF Constructed, Outcome

-----------------------------------------------------------------------------
(* construct_response, by kinds of content *)

\* The route of a request without an error has a prefix that its path has.
LEMMA PrefixFits ==
  ASSUME ServingInv, NEW c \in Conns, stage[c] \in AtWork, error[c] = 0
  PROVE  ~PrefixTooLong(c)
<1>1. ConnOK(c) /\ vhost[c] \in 1 .. Len(Servers(c)) /\ matched[c] \in 1 .. Len(Server(c).routes)
  <2>1. ConnOK(c) /\ Len(Servers(c)) \in Nat
    BY ServersOfConnection DEF ServingInv
  <2> QED BY <2>1 DEF ConnOK, Indices, AtWork
<1>2. Len(Route(c).uri) \in Nat /\ Len(request[c].path) \in Nat
  BY <1>1, ServersOfConnection DEF Server, Route, AreRoutes
<1>3. Matches(Route(c), request[c].path)
  BY <1>1 DEF ConnOK, Progress
<1> QED BY <1>2, <1>3, PrefixIsNoLonger DEF PrefixTooLong

LEMMA RouteIsTyped ==
  ASSUME ServingInv, NEW c \in Conns, stage[c] \in AtWork, NEW status \in Nat
  PROVE  Route(c).status \in Nat /\ StatusOr(c, status) \in Nat /\ Len(Route(c).files) \in Nat
<1>1. ConnOK(c) /\ Len(Servers(c)) \in Nat
  BY ServersOfConnection DEF ServingInv
<1>2. vhost[c] \in 1 .. Len(Servers(c)) /\ matched[c] \in 1 .. Len(Server(c).routes)
  BY <1>1 DEF ConnOK, Indices, AtWork
<1>3. Route(c).status \in Nat /\ Len(Route(c).files) \in Nat
  BY <1>2, ServersOfConnection DEF Server, Route
<1> QED BY <1>3 DEF StatusOr

LEMMA RespondOutcome ==
  ASSUME NEW c, NEW status \in Nat, NEW file \in Nat, Respond(c, status, file)
  PROVE  Outcome(c)
BY DEF Outcome

LEMMA FailOutcome ==
  ASSUME NEW c, Fail(c, 404) \/ Fail(c, 500)
  PROVE  Outcome(c)
<1>1. \E status \in {404, 500} : Fail(c, status)
  OBVIOUS
<1> QED BY <1>1 DEF Outcome

\* A file is answered with a response, or its content type fails.
LEMMA FileOutcome ==
  ASSUME NEW c, NEW status \in Nat, NEW file \in Nat, RespondWithFile(c, status, file)
  PROVE  Outcome(c)
<1>1. Respond(c, status, file) \/ Fail(c, 500)
  BY DEF RespondWithFile
<1>2. CASE Respond(c, status, file)
  BY <1>2, RespondOutcome
<1>3. CASE Fail(c, 500)
  BY <1>3, FailOutcome
<1> QED BY <1>1, <1>2, <1>3

LEMMA PathOutcome ==
  ASSUME ServingInv, NEW c \in Conns, ServePath(c)
  PROVE  Outcome(c)
<1>1. Route(c).status \in Nat /\ 200 \in Nat /\ 0 \in Nat /\ 1 \in Nat
  BY RouteIsTyped DEF ServePath, Constructing, AtWork
<1>2. \/ Respond(c, Route(c).status, 0) \/ Respond(c, 200, 0)
      \/ RespondWithFile(c, 200, 1)
      \/ Fail(c, 404) \/ Fail(c, 500)
  BY Zenon DEF ServePath
<1>3. CASE Respond(c, Route(c).status, 0)
  BY <1>1, <1>3, RespondOutcome
<1>4. CASE Respond(c, 200, 0)
  BY <1>1, <1>4, RespondOutcome
<1>5. CASE RespondWithFile(c, 200, 1)
  BY <1>1, <1>5, FileOutcome
<1>6. CASE Fail(c, 404) \/ Fail(c, 500)
  BY <1>6, FailOutcome
<1> QED BY <1>2, <1>3, <1>4, <1>5, <1>6

LEMMA ConstantOutcome ==
  ASSUME ServingInv, NEW c \in Conns, ServeNoContent(c) \/ ServeBody(c) \/ ServeRedirect(c)
  PROVE  Outcome(c)
<1>1. StatusOr(c, 200) \in Nat /\ StatusOr(c, 308) \in Nat /\ 0 \in Nat
  BY RouteIsTyped DEF ServeNoContent, ServeBody, ServeRedirect, Constructing, AtWork
<1>2. Respond(c, StatusOr(c, 200), 0) \/ Respond(c, StatusOr(c, 308), 0) \/ Fail(c, 500)
  BY Zenon DEF ServeNoContent, ServeBody, ServeRedirect
<1>3. CASE Respond(c, StatusOr(c, 200), 0)
  BY <1>1, <1>3, RespondOutcome
<1>4. CASE Respond(c, StatusOr(c, 308), 0)
  BY <1>1, <1>4, RespondOutcome
<1>5. CASE Fail(c, 500)
  BY <1>5, FailOutcome
<1> QED BY <1>2, <1>3, <1>4, <1>5

LEMMA FilesOutcome ==
  ASSUME ServingInv, NEW c \in Conns, ServeFiles(c)
  PROVE  Outcome(c)
<1> DEFINE files == Route(c).files
           exist == {k \in 1 .. Len(files) : Look(files[k], PastPrefix(c)) = "data"}
           last == CHOOSE k \in exist : \A j \in exist : j <= k
<1>1. stage[c] \in AtWork
  BY DEF ServeFiles, Constructing, AtWork
<1>2. StatusOr(c, 200) \in Nat
  BY <1>1, RouteIsTyped
<1>3. \/ Fail(c, 500) \/ Fail(c, 404)
      \/ PrefixTooLong(c) /\ Panic(c)
      \/ exist # {} /\ RespondWithFile(c, StatusOr(c, 200), last)
  BY Zenon DEF ServeFiles
<1>4. CASE PrefixTooLong(c) /\ Panic(c)
  <2>1. error[c] # 0
    BY <1>1, <1>4, PrefixFits
  <2> QED BY <1>4, <2>1 DEF Outcome, MayPanic
<1>5. CASE exist # {} /\ RespondWithFile(c, StatusOr(c, 200), last)
  <2>1. last \in Nat
    <3>1. Len(files) \in Nat
      BY <1>1, RouteIsTyped
    <3>2. exist \in SUBSET (1 .. Len(files))
      OBVIOUS
    <3> HIDE DEF exist
    <3>3. PICK k \in exist : \A j \in exist : j <= k
      BY <1>5, <3>1, <3>2, GreatestNatural
    <3>4. last \in exist
      BY <3>3
    <3>5. \A k1 \in 1 .. Len(files) : k1 \in Nat
      BY <3>1
    <3> HIDE DEF last
    <3> QED BY <3>2, <3>4, <3>5
  <2> HIDE DEF last, exist
  <2> QED BY <1>2, <1>5, <2>1, FileOutcome
<1>6. CASE Fail(c, 404) \/ Fail(c, 500)
  BY <1>6, FailOutcome
<1> HIDE DEF exist, last
<1> QED BY <1>3, <1>4, <1>5, <1>6

LEMMA BeginProxyOutcome ==
  ASSUME ServingInv, NEW c \in Conns, BeginProxy(c)
  PROVE  Outcome(c)
BY DEF BeginProxy, BadTemplate, Outcome, MayPanic

LEMMA EndProxyOutcome ==
  ASSUME ServingInv, NEW c \in Conns, EndProxy(c)
  PROVE  Outcome(c)
<1>1. stage[c] \in AtWork
  BY DEF EndProxy, AtWork
<1>2. PrefixTooLong(c) => error[c] # 0
  BY <1>1, PrefixFits
<1>3. \/ \E status \in {200, 404} : RespondWithFile(c, status, 0)
      \/ Fail(c, 500)
      \/ Panic(c) /\ (BadTemplate(c, "group") \/ PrefixTooLong(c))
  BY Zenon DEF EndProxy
<1>4. CASE \E status \in {200, 404} : RespondWithFile(c, status, 0)
  <2>1. PICK status \in {200, 404} : RespondWithFile(c, status, 0)
    BY <1>4
  <2>2. status \in Nat /\ 0 \in Nat
    OBVIOUS
  <2> QED BY <2>1, <2>2, FileOutcome
<1>5. CASE Fail(c, 500)
  BY <1>5, FailOutcome
<1>6. CASE Panic(c) /\ (BadTemplate(c, "group") \/ PrefixTooLong(c))
  BY <1>2, <1>6 DEF BadTemplate, Outcome, MayPanic
<1> QED BY <1>3, <1>4, <1>5, <1>6

LEMMA Constructs ==
  ASSUME ServingInv, NEW c \in Conns, Construct(c) \/ EndProxy(c), UNCHANGED <<listener, exited>>
  PROVE  Constructed(c)
<1>1. stage[c] \in AtWork
  BY DEF Construct, EndProxy, HeadersFail, ServePath, ServeNoContent, ServeBody, ServeRedirect,
         ServeFiles, BeginProxy, Constructing, AtWork
<1>2. UNCHANGED <<disk, via, request, left, vhost, matched, tries, answered>>
  BY Zenon DEF Construct, EndProxy, HeadersFail, ServePath, ServeNoContent, ServeBody, ServeRedirect,
         ServeFiles, BeginProxy, Constructing
<1>3. Outcome(c)
  <2>1. HeadersFail(c) => Outcome(c)
    BY FailOutcome DEF HeadersFail
  <2> QED BY <2>1, PathOutcome, ConstantOutcome, FilesOutcome, BeginProxyOutcome, EndProxyOutcome DEF Construct
<1> QED BY <1>1, <1>2, <1>3 DEF Constructed

-----------------------------------------------------------------------------
(* The routes of requests and of error pages *)

\* construct_response is called for a route there is.
LEMMA MatchIsOK ==
  ASSUME ServingInv, NEW c \in Conns, NEW v \in 1 .. Len(Servers(c)), NEW path, NEW r,
         r = MatchingRoute(Servers(c)[v].routes, path), r # 0, Match(c, r),
         vhost' = [vhost EXCEPT ![c] = v], UNCHANGED error,
         tries[c] <= (IF error[c] = 0 THEN 0 ELSE 1),
         error[c] = 0 => path = request[c].path,
         UNCHANGED <<disk, via, request, left, response, answered>>, UNCHANGED <<listener, exited>>
  PROVE  ServingInv'
<1>1. /\ Len(Servers(c)) \in Nat /\ AreRoutes(Servers(c)[v].routes)
      /\ tries[c] \in Nat /\ v \in Int /\ v # 0
  <2>1. tries[c] \in Nat
    BY DEF ServingInv, Values
  <2>2. Len(Servers(c)) \in Nat /\ AreRoutes(Servers(c)[v].routes)
    BY ServersOfConnection
  <2> QED BY <2>1, <2>2
<1>2. r \in 1 .. Len(Servers(c)[v].routes) /\ Matches(Servers(c)[v].routes[r], path) /\ r \in Int
  <2>1. Len(Servers(c)[v].routes) \in Nat
    BY <1>1 DEF AreRoutes
  <2>2. r \in 0 .. Len(Servers(c)[v].routes) /\ Matches(Servers(c)[v].routes[r], path)
    BY <1>1, SearchReturns
  <2> QED BY <2>1, <2>2
<1>3. /\ Values' /\ LeavesOthers(c) /\ stage'[c] = "construct" /\ vhost'[c] = v
      /\ matched'[c] = r /\ tries'[c] = tries[c] + 1
  <2>1. /\ stage' = [stage EXCEPT ![c] = "construct"]
        /\ matched' = [matched EXCEPT ![c] = r] /\ tries' = [tries EXCEPT ![c] = tries[c] + 1]
    BY DEF Match, Enter
  <2>2. /\ UNCHANGED <<disk, via, request, left, error, response, answered, listener, exited>>
        /\ vhost' = [vhost EXCEPT ![c] = v]
    OBVIOUS
  <2>3. "construct" \in Stages /\ tries[c] + 1 \in Nat /\ v \in Int /\ r \in Int
    BY <1>1, <1>2 DEF Stages
  <2>4. Values
    BY DEF ServingInv
  <2>5. /\ stage' \in [Conns -> Stages] /\ tries' \in [Conns -> Nat]
        /\ vhost' \in [Conns -> Int] /\ matched' \in [Conns -> Int]
    BY <2>1, <2>2, <2>3, <2>4 DEF Values
  <2>6. Values'
    BY <2>2, <2>4, <2>5 DEF Values
  <2>7. stage'[c] = "construct" /\ vhost'[c] = v /\ matched'[c] = r /\ tries'[c] = tries[c] + 1
    BY <2>1, <2>2, <2>4 DEF Values
  <2>8. LeavesOthers(c)
    BY <2>1, <2>2, <2>4 DEF Values, LeavesOthers
  <2> QED BY <2>6, <2>7, <2>8
<1>4. Servers(c)' = Servers(c) /\ Server(c)' = Servers(c)[v] /\ Route(c)' = Servers(c)[v].routes[r]
  BY <1>3 DEF Servers, Server, Route
<1>5. Indices(c)'
  BY <1>1, <1>2, <1>3, <1>4 DEF Indices, AtWork
<1>6. Progress(c)' /\ (tries[c] <= 2)' /\ Died(c)'
  BY <1>1, <1>2, <1>3, <1>4 DEF Progress, Unread, AtWork, Died
<1> QED BY <1>3, <1>5, <1>6, OthersAreKept DEF ConnOK

\* The host is that of a server there is.
LEMMA VhostIsServer ==
  ASSUME ServingInv, NEW c \in Conns
  PROVE  Vhost(c) \in 1 .. Len(Servers(c))
<1> DEFINE named == {v \in 1 .. Len(Servers(c)) : request[c].host \in Servers(c)[v].domains}
<1>1. Len(Servers(c)) \in Nat /\ Group[via[c]].default \in 1 .. Len(Servers(c))
  BY ServersOfConnection
<1>2. named \in SUBSET (1 .. Len(Servers(c))) /\ 1 .. Len(Servers(c)) \in SUBSET Nat
  BY <1>1
<1>3. named # {} => \E v \in named : \A w \in named : v <= w
  <2>1. named \in SUBSET Nat
    BY <1>2
  <2> HIDE DEF named
  <2> QED BY <2>1, LeastNatural
<1> QED BY <1>1, <1>2, <1>3 DEF Vhost

LEMMA RoutingIsOK ==
  ASSUME ServingInv, NEW c \in Conns, RouteRequest(c), UNCHANGED <<listener, exited>>
  PROVE  ServingInv'
<1> DEFINE v == Vhost(c)
           server == Servers(c)[v]
           r == MatchingRoute(server.routes, request[c].path)
<1>1. ConnOK(c) /\ stage[c] = "route" /\ error[c] = 0 /\ tries[c] = 0 /\ v \in 1 .. Len(Servers(c))
  BY VhostIsServer DEF ServingInv, ConnOK, Progress, Unread, RouteRequest
<1>2. /\ vhost' = [vhost EXCEPT ![c] = v] /\ via' = via
      /\ UNCHANGED <<disk, request, left, response, answered, listener, exited>>
  BY DEF RouteRequest
<1>3. Len(Servers(c)) \in Nat /\ v \in Int /\ v # 0
  BY <1>1, ServersOfConnection
<1> HIDE DEF v
<1>4. CASE /\ request[c].host = NoHost \/ SearchPanics(server)
           /\ Enter(c, "panicked") /\ UNCHANGED <<error, matched, tries>>
  <2>1. Values' /\ LeavesOthers(c) /\ stage'[c] = "panicked" /\ vhost'[c] = v
    BY <1>2, <1>3, <1>4 DEF Enter, ServingInv, Values, Stages, LeavesOthers
  <2>2. Servers(c)' = Servers(c) /\ Server(c)' = server
    BY <1>2, <2>1 DEF Servers, Server
  <2>3. Indices(c)' /\ Progress(c)' /\ (tries[c] <= 2)'
    BY <1>1, <1>2, <1>3, <1>4, <2>1, <2>2 DEF Indices, Progress, Unread, AtWork
  <2>4. Died(c)'
    BY <1>2, <1>4, <2>2 DEF Died, SearchPanics
  <2> QED BY <1>2, <2>1, <2>3, <2>4, OthersAreKept DEF ConnOK
<1>5. CASE /\ error' = [error EXCEPT ![c] = 404]
           /\ Enter(c, "page") /\ UNCHANGED <<matched, tries>>
  <2>1. Values' /\ LeavesOthers(c) /\ stage'[c] = "page" /\ vhost'[c] = v /\ error'[c] = 404
    <3>1. Values /\ "page" \in Stages /\ 404 \in Errors /\ stage' = [stage EXCEPT ![c] = "page"]
      BY <1>5 DEF ServingInv, Stages, Errors, Enter
    <3>2. /\ stage' \in [Conns -> Stages] /\ vhost' \in [Conns -> Int]
          /\ error' \in [Conns -> Errors]
      BY <1>2, <1>3, <1>5, <3>1 DEF Values
    <3>3. Values'
      BY <1>2, <1>5, <3>1, <3>2 DEF Values
    <3>4. stage'[c] = "page" /\ vhost'[c] = v /\ error'[c] = 404 /\ LeavesOthers(c)
      BY <1>2, <1>5, <3>1 DEF Values, LeavesOthers
    <3> QED BY <3>3, <3>4
  <2>2. Servers(c)' = Servers(c)
    BY <1>2 DEF Servers
  <2>3. Indices(c)' /\ Progress(c)' /\ (tries[c] <= 2)' /\ Died(c)'
    BY <1>1, <1>2, <1>3, <1>5, <2>1, <2>2 DEF Indices, Progress, Unread, AtWork, Died
  <2> QED BY <1>2, <2>1, <2>3, OthersAreKept DEF ConnOK
<1>6. CASE r # 0 /\ Match(c, r) /\ UNCHANGED error
  <2>1. tries[c] <= (IF error[c] = 0 THEN 0 ELSE 1)
    BY <1>1
  <2> QED BY <1>1, <1>2, <1>6, <2>1, MatchIsOK
<1> QED BY <1>4, <1>5, <1>6, Zenon DEF RouteRequest, v

LEMMA PageIsOK ==
  ASSUME ServingInv, NEW c \in Conns, FindErrorPage(c), UNCHANGED <<listener, exited>>
  PROVE  ServingInv'
<1> DEFINE path == Server(c).error_pages[error[c]]
           r == MatchingRoute(Server(c).routes, path)
<1>1. /\ ConnOK(c) /\ stage[c] = "page" /\ error[c] # 0 /\ error[c] \in Errors
      /\ tries[c] <= 1 /\ tries[c] \in Nat
  BY DEF ServingInv, Values, ConnOK, Progress, FindErrorPage
<1>2. /\ via' = via /\ vhost' = vhost /\ error' = error
      /\ UNCHANGED <<disk, request, left, answered, listener, exited>>
  BY DEF FindErrorPage
<1>3. Len(Servers(c)) \in Nat /\ vhost[c] \in 1 .. Len(Servers(c))
  <2>1. Len(Servers(c)) \in Nat
    BY ServersOfConnection
  <2> QED BY <1>1, <2>1 DEF ConnOK, Indices
<1>4. Servers(c)' = Servers(c) /\ Server(c)' = Server(c)
  BY <1>2 DEF Servers, Server
<1>5. CASE Enter(c, "panicked") /\ UNCHANGED <<matched, tries, response>>
  <2>1. Values' /\ LeavesOthers(c) /\ stage'[c] = "panicked"
    BY <1>2, <1>5 DEF Enter, ServingInv, Values, Stages, LeavesOthers
  <2>2. Indices(c)' /\ Progress(c)' /\ (tries[c] <= 2)' /\ Died(c)'
    BY <1>1, <1>2, <1>3, <1>4, <1>5, <2>1 DEF Indices, Progress, Unread, AtWork, Died
  <2> QED BY <1>2, <2>1, <2>2, OthersAreKept DEF ConnOK
<1>6. CASE /\ response' = [response EXCEPT ![c] = EmptyResponse(c)]
           /\ Enter(c, "writing") /\ UNCHANGED <<matched, tries>>
  <2>1. error[c] \in Nat /\ error[c] # 200 /\ "writing" \in Stages
    BY <1>1 DEF Errors, Stages
  <2>2. Values' /\ LeavesOthers(c) /\ stage'[c] = "writing" /\ response'[c].status = error[c]
    BY <1>2, <1>6, <2>1 DEF EmptyResponse, Enter, ServingInv, Values, LeavesOthers
  <2>3. Indices(c)' /\ Progress(c)' /\ (tries[c] <= 2)' /\ Died(c)'
    BY <1>1, <1>2, <1>3, <1>4, <1>6, <2>1, <2>2 DEF Indices, Progress, Unread, AtWork, Died
  <2> QED BY <1>2, <2>2, <2>3, OthersAreKept DEF ConnOK
<1>7. CASE r # 0 /\ Match(c, r) /\ UNCHANGED response
  <2>1. tries[c] <= (IF error[c] = 0 THEN 0 ELSE 1)
    BY <1>1
  <2>2. vhost' = [vhost EXCEPT ![c] = vhost[c]]
    BY <1>2 DEF ServingInv, Values
  <2>3. r = MatchingRoute(Servers(c)[vhost[c]].routes, path)
    BY DEF Server
  <2> HIDE DEF r, path
  <2> QED BY <1>1, <1>2, <1>3, <1>7, <2>1, <2>2, <2>3, MatchIsOK
<1> QED BY <1>5, <1>6, <1>7, Zenon DEF FindErrorPage

-----------------------------------------------------------------------------
(* The specification *)

LEMMA InvInit == ServingInit => ServingInv
<1> SUFFICES ASSUME ServingInit PROVE ServingInv
  OBVIOUS
<1>1. Values
  <2>1. /\ 0 \in 0 .. MaxReads /\ NoResponse \in [status : Nat, file : Nat] /\ 0 \in Errors
        /\ "waiting" \in Stages
    BY GroupAssumption DEF GroupAssumption, NoResponse, Errors, Stages
  <2>2. /\ disk \in Disks /\ stage \in [Conns -> Stages] /\ via \in [Conns -> Listeners]
        /\ request \in [Conns -> Requests \cup {EmptyRequest}] /\ left \in [Conns -> 0 .. MaxReads]
    BY <2>1 DEF ServingInit, ConnInit
  <2>3. /\ vhost \in [Conns -> Int] /\ matched \in [Conns -> Int]
        /\ error \in [Conns -> Errors] /\ tries \in [Conns -> Nat]
    BY <2>1 DEF ServingInit, ConnInit
  <2>4. response \in [Conns -> [status : Nat, file : Nat]]
    BY <2>1 DEF ServingInit, ConnInit
  <2>5. /\ answered \in [Conns -> BOOLEAN] /\ exited \in BOOLEAN
        /\ listener \in [Listeners -> {"starting", "listening", "ended"}]
    BY DEF ServingInit, ConnInit
  <2> QED BY <2>2, <2>3, <2>4, <2>5 DEF Values
<1>2. ASSUME NEW c \in Conns PROVE ConnOK(c)
  <2>1. Len(Servers(c)) \in Nat
    BY <1>1, GroupAssumption DEF GroupAssumption, Values, Servers
  <2>2. /\ stage[c] = "waiting" /\ request[c] = EmptyRequest /\ vhost[c] = 0 /\ error[c] = 0
        /\ tries[c] = 0
    BY DEF ServingInit, ConnInit
  <2> QED BY <2>1, <2>2 DEF ConnOK, Indices, Progress, Unread, AtWork, Died
<1> QED BY <1>1, <1>2 DEF ServingInv

\* The end of the program leaves every connection ended, or never begun.
LEMMA ExitIsOK ==
  ASSUME ServingInv, Exit
  PROVE  ServingInv'
<1>1. Values'
  BY DEF ServingInv, Values, Exit, Stages
<1>2. ASSUME NEW c \in Conns PROVE ConnOK(c)'
  <2>1. stage'[c] = stage[c] \/ stage'[c] = "aborted"
    BY DEF Exit
  <2>2. UNCHANGED <<request, vhost, error, matched, tries, response, via>>
    BY DEF Exit
  <2>3. Servers(c)' = Servers(c) /\ Server(c)' = Server(c) /\ Route(c)' = Route(c)
    BY <2>2 DEF Servers, Server, Route
  <2>4. ConnOK(c)
    BY DEF ServingInv
  <2>5. Indices(c)' /\ Progress(c)' /\ (tries[c] <= 2)'
    BY <2>1, <2>2, <2>3, <2>4 DEF ConnOK, Indices, Progress, Unread, AtWork
  <2>6. Died(c)'
    BY <2>1, <2>2, <2>3, <2>4 DEF ConnOK, Died, SearchPanics
  <2> QED BY <2>5, <2>6 DEF ConnOK
<1> QED BY <1>1, <1>2 DEF ServingInv

LEMMA ListenersAreOK ==
  ASSUME ServingInv, NEW g \in Listeners, Start(g) \/ End(g)
  PROVE  ServingInv'
<1>1. Values' /\ UNCHANGED cvars
  BY DEF ServingInv, Values, Start, End, cvars
<1>2. ASSUME NEW c \in Conns PROVE ConnOK(c)'
  BY <1>1 DEF ServingInv, cvars, ConnOK, Indices, Progress, Died, SearchPanics,
              Servers, Server, Route
<1> QED BY <1>1, <1>2 DEF ServingInv

LEMMA StutteringIsOK ==
  ASSUME ServingInv, UNCHANGED svars
  PROVE  ServingInv'
<1>1. Values'
  BY DEF ServingInv, Values, svars, cvars
<1>2. ASSUME NEW c \in Conns PROVE ConnOK(c)'
  BY DEF svars, cvars, ServingInv, ConnOK, Indices, Progress, Died, SearchPanics,
         Servers, Server, Route
<1> QED BY <1>1, <1>2 DEF ServingInv

\* One step for each action of a connection.
LEMMA ConnStepIsOK ==
  ASSUME ServingInv, NEW c \in Conns, ConnStep(c), UNCHANGED <<listener, exited>>
  PROVE  ServingInv'
<1>1. CASE RouteRequest(c)
  BY <1>1, RoutingIsOK
<1>2. CASE FindErrorPage(c)
  BY <1>2, PageIsOK
<1>3. CASE Construct(c) \/ EndProxy(c)
  BY <1>3, Constructs, ConstructedIsOK
<1>4. CASE Shutdown(c)
  <2>1. MovesOn(c, "closed") /\ stage[c] = "shutdown" /\ "closed" \in Stages
    BY <1>4 DEF Shutdown, MovesOn, Stages
  <2> QED BY <2>1, MovingOn
<1>5. CASE HeaderRead(c) \/ BodyEnds(c)
  BY <1>5, ReadingTheRest
<1>6. CASE ParsePanics(c)
  <2>1. MovesOn(c, "panicked") /\ stage[c] = "header" /\ "panicked" \in Stages
    BY <1>6 DEF ParsePanics, MovesOn, Stages
  <2> QED BY <2>1, MovingOn
<1>7. CASE BodyRead(c) \/ NextChunk(c)
  BY <1>7, ReadingTheBody
<1>8. CASE RequestFails(c, 400) \/ RequestFails(c, 408) \/ RequestFails(c, 501)
  <2>1. 400 \in {400, 408, 501} /\ 408 \in {400, 408, 501} /\ 501 \in {400, 408, 501}
    OBVIOUS
  <2> QED BY <1>8, <2>1, FailingToRead
<1>9. CASE ResponseWritten(c)
  <2>1. /\ Values' /\ LeavesOthers(c) /\ stage'[c] = "shutdown" /\ stage[c] = "writing"
        /\ UNCHANGED <<via, request, vhost, error, matched, tries, response>>
    BY <1>9 DEF ResponseWritten, Enter, ServingInv, Values, Stages, LeavesOthers
  <2>2. ConnOK(c)
    BY DEF ServingInv
  <2>3. Servers(c)' = Servers(c)
    BY <2>1 DEF Servers
  <2>4. Indices(c)' /\ Progress(c)' /\ (tries[c] <= 2)' /\ Died(c)'
    BY <2>1, <2>2, <2>3 DEF ConnOK, Indices, Progress, Unread, AtWork, Died
  <2> QED BY <2>1, <2>4, OthersAreKept DEF ConnOK
<1>10. CASE WriteFails(c)
  <2>1. MovesOn(c, "shutdown") /\ stage[c] = "writing" /\ "shutdown" \in Stages
    BY <1>10 DEF WriteFails, MovesOn, Stages
  <2> QED BY <2>1, MovingOn
<1>11. CASE Proceed(c)
  BY <1>1, <1>2, <1>3, <1>4, <1>11 DEF Proceed
<1>12. CASE ClientActs(c)
  BY <1>4, <1>5, <1>6, <1>7, <1>8, <1>9, <1>12 DEF ClientActs
<1>13. CASE TimerFires(c)
  BY <1>8, <1>10, <1>13 DEF TimerFires
<1> QED BY <1>3, <1>11, <1>12, <1>13 DEF ConnStep

LEMMA InvStep == ServingInv /\ [ServingNext]_svars => ServingInv'
<1> SUFFICES ASSUME ServingInv, [ServingNext]_svars PROVE ServingInv'
  OBVIOUS
<1>1. CASE \E g \in Listeners : Start(g) \/ End(g)
  BY <1>1, ListenersAreOK
<1>2. ASSUME NEW c \in Conns, Accept(c) PROVE ServingInv'
  <2>1. PICK s \in {"tls", "header"} : Enter(c, s)
    BY <1>2 DEF Accept
  <2>2. MovesOn(c, s) /\ stage[c] = "waiting" /\ s \in Stages
    BY <1>2, <2>1 DEF Accept, MovesOn, Stages
  <2> QED BY <2>1, <2>2, MovingOn
<1>3. ASSUME NEW c \in Conns, TlsAccept(c) PROVE ServingInv'
  <2>1. PICK s \in {"header", "closed"} : Enter(c, s)
    BY <1>3 DEF TlsAccept
  <2>2. MovesOn(c, s) /\ stage[c] = "tls" /\ s \in Stages
    BY <1>3, <2>1 DEF TlsAccept, MovesOn, Stages
  <2> QED BY <2>1, <2>2, MovingOn
<1>4. ASSUME NEW c \in Conns, ConnStep(c), UNCHANGED <<listener, exited>> PROVE ServingInv'
  BY <1>4, ConnStepIsOK
<1>5. CASE Exit
  BY <1>5, ExitIsOK
<1>6. CASE UNCHANGED svars
  BY <1>6, StutteringIsOK
<1> QED
  BY <1>1, <1>2, <1>3, <1>4, <1>5, <1>6, Zenon DEF ServingNext, Exited

LEMMA Invariance == ServingSpec => []ServingInv
BY InvInit, InvStep, PTL DEF ServingSpec

\* The indices of every connection are of servers and routes there are.
THEOREM ServingTypesCorrect == ServingSpec => []ServingTypeOK
<1>1. ServingInv => ServingTypeOK
  BY DEF ServingInv, Values, ConnOK, Indices, AtWork, Errors, ServingTypeOK
<1> QED BY <1>1, Invariance, PTL

\* A request without an error dies only of a missing Host, of its uri, of a bad
\* regular expression, or of an empty group (process.rs:181 is in range for it).
THEOREM DeathsHaveACause == ServingSpec => []RequestsDieOnlyOf
<1>1. ServingInv => RequestsDieOnlyOf
  BY DEF ServingInv, ConnOK, Died, RequestsDieOnlyOf
<1> QED BY <1>1, Invariance, PTL

\* construct_response is called twice for a connection at most.
THEOREM TwoTriesAtMost == ServingSpec => []AtMostTwoTries
<1>1. ServingInv => AtMostTwoTries
  BY DEF ServingInv, ConnOK, AtMostTwoTries
<1> QED BY <1>1, Invariance, PTL
=============================================================================
