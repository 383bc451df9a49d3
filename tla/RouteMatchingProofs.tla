------------------------- MODULE RouteMatchingProofs -------------------------
(***************************************************************************)
(* find_matching_route returns the route it should, for every table of     *)
(* routes and every path.  The invariant of its loop says of each of the   *)
(* three candidates what the loop has established so far: it is the best   *)
(* of the matching routes before the index i.                              *)
(***************************************************************************)
EXTENDS RouteMatching, TLAPS

\* The matching routes the loop has gone past.
Seen(matchers) == {r \in Candidates(routes, path, matchers) : r < i}

BestIsLongest(seen, best) == IF best = 0 THEN seen = {} ELSE IsLongest(routes, seen, best)
BestIsFirst(seen, best) == IF best = 0 THEN seen = {} ELSE IsFirst(seen, best)

LoopTypes ==
  /\ routes \in RouteTables
  /\ path \in Paths
  /\ i \in 1 .. Len(routes) + 1
  /\ prioritised \in 0 .. Len(routes)
  /\ regex \in 0 .. Len(routes)
  /\ prefix \in 0 .. Len(routes)
  /\ found \in Int

LoopInvariant ==
  /\ LoopTypes
  /\ BestIsLongest(Seen({"PrefixPrioritiesed", "Exact"}), prioritised)
  /\ found # Panicked => BestIsFirst(Seen({"Regex"}), regex)
  /\ BestIsLongest(Seen({"Prefix"}), prefix)
  /\ ReturnsMatchingRoute

-----------------------------------------------------------------------------
\* One step of the loop adds the route it sees, when that one is a candidate.
LEMMA SeenGrows ==
  ASSUME LoopTypes, i <= Len(routes), UNCHANGED <<routes, path>>, i' = i + 1, NEW matchers
  PROVE  Seen(matchers)' =
           IF routes[i].matcher \in matchers /\ Matches(routes[i], path)
           THEN Seen(matchers) \cup {i} ELSE Seen(matchers)
  <1>1. i \in 1 .. Len(routes) /\ Len(routes) \in Nat
    BY TablesAssumption DEF TablesAssumption, LoopTypes
  <1>2. \A r \in 1 .. Len(routes) : r < i + 1 <=> r < i \/ r = i
    BY <1>1
  <1>3. Candidates(routes, path, matchers)' = Candidates(routes, path, matchers)
    BY DEF Candidates
  <1> QED
    BY <1>1, <1>2, <1>3 DEF Seen, Candidates

\* A new candidate behind all the others takes over unless it is shorter.
LEMMA MaxByKeyIsLongest ==
  ASSUME LoopTypes, i <= Len(routes), NEW seen, seen \subseteq 1 .. i - 1,
         NEW best \in 0 .. Len(routes), BestIsLongest(seen, best)
  PROVE  /\ MaxByKey(best, i) \in 1 .. Len(routes)
         /\ BestIsLongest(seen \cup {i}, MaxByKey(best, i))
  <1>1. /\ i \in 1 .. Len(routes) /\ Len(routes) \in Nat
        /\ \A r \in 1 .. Len(routes) : Len(routes[r].uri) \in Nat
    BY TablesAssumption DEF TablesAssumption, LoopTypes
  <1>2. \A r \in seen : r \in 1 .. Len(routes) /\ r < i
    BY <1>1
  <1>3. CASE best = 0
    <2>1. seen = {} /\ MaxByKey(best, i) = i
      BY <1>3 DEF BestIsLongest, MaxByKey
    <2> QED
      BY <1>1, <2>1 DEF BestIsLongest, IsLongest
  <1>4. CASE best # 0 /\ Len(routes[best].uri) <= Len(routes[i].uri)
    <2>1. IsLongest(routes, seen, best) /\ MaxByKey(best, i) = i
      BY <1>4 DEF BestIsLongest, MaxByKey
    <2>2. \A q \in seen : Len(routes[q].uri) <= Len(routes[i].uri) /\ q <= i
      BY <1>1, <1>2, <1>4, <2>1 DEF IsLongest
    <2> QED
      BY <1>1, <1>2, <2>1, <2>2 DEF BestIsLongest, IsLongest
  <1>5. CASE best # 0 /\ ~(Len(routes[best].uri) <= Len(routes[i].uri))
    <2>1. IsLongest(routes, seen, best) /\ MaxByKey(best, i) = best
      BY <1>5 DEF BestIsLongest, MaxByKey
    <2>2. best \in 1 .. Len(routes) /\ Len(routes[i].uri) < Len(routes[best].uri)
      BY <1>1, <1>5
    <2> QED
      BY <1>1, <1>5, <2>1, <2>2 DEF BestIsLongest, IsLongest
  <1> QED
    BY <1>3, <1>4, <1>5

LEMMA SeenIsBefore ==
  ASSUME LoopTypes, NEW matchers
  PROVE  Seen(matchers) \subseteq 1 .. i - 1
  <1>1. i \in Int /\ Len(routes) \in Nat
    BY TablesAssumption DEF TablesAssumption, LoopTypes
  <1> QED
    BY <1>1 DEF Seen, Candidates

-----------------------------------------------------------------------------
LEMMA LoopInit == RMInit => LoopInvariant
  <1> SUFFICES ASSUME RMInit PROVE LoopInvariant
    OBVIOUS
  <1>1. Len(routes) \in Nat
    BY TablesAssumption DEF TablesAssumption, RMInit
  <1>2. LoopTypes
    BY <1>1 DEF LoopTypes, RMInit, Searching
  <1>3. ASSUME NEW matchers PROVE Seen(matchers) = {}
    BY <1>1 DEF Seen, Candidates, RMInit
  <1>4. ReturnsMatchingRoute
    BY DEF ReturnsMatchingRoute, RMInit, Searching
  <1> QED
    BY <1>2, <1>3, <1>4 DEF LoopInvariant, BestIsLongest, BestIsFirst, RMInit

LEMMA SeeRouteKeepsInvariant == LoopInvariant /\ SeeRoute => LoopInvariant'
  <1> SUFFICES ASSUME LoopInvariant, SeeRoute PROVE LoopInvariant'
    OBVIOUS
  <1> DEFINE Prioritised == {"PrefixPrioritiesed", "Exact"}
  <1>1. LoopTypes /\ i <= Len(routes) /\ UNCHANGED <<routes, path>> /\ i' = i + 1
    BY DEF LoopInvariant, SeeRoute
  <1>2. i \in 1 .. Len(routes) /\ Len(routes) \in Nat /\ Len(routes') = Len(routes)
    BY <1>1, TablesAssumption DEF TablesAssumption, LoopTypes
  <1>3. ReturnsMatchingRoute'
    BY DEF SeeRoute, SeePrefix, SeeRegex, SeePrioritised, ReturnsMatchingRoute,
           Searching, Panicked
  <1>4. /\ BestIsLongest(Seen(Prioritised), prioritised)
        /\ BestIsFirst(Seen({"Regex"}), regex)
        /\ BestIsLongest(Seen({"Prefix"}), prefix)
    BY DEF LoopInvariant, SeeRoute, Searching, Panicked
  <1>5. ASSUME NEW seen, NEW best
        PROVE  IsLongest(routes', seen, best) = IsLongest(routes, seen, best)
    BY <1>1 DEF IsLongest
  <1>6. ASSUME NEW matchers, routes[i].matcher \notin matchers \/ ~Matches(routes[i], path)
        PROVE  Seen(matchers)' = Seen(matchers)
    BY <1>1, <1>6, SeenGrows
  <1>7. ASSUME NEW matchers, routes[i].matcher \in matchers, Matches(routes[i], path)
        PROVE  Seen(matchers)' = Seen(matchers) \cup {i}
    BY <1>1, <1>7, SeenGrows
  <1>8. (i \in 1 .. Len(routes) + 1)'
    BY <1>1, <1>2
  <1>9. CASE SeePrefix
    <2>1. Seen(Prioritised)' = Seen(Prioritised) /\ Seen({"Regex"})' = Seen({"Regex"})
      BY <1>6, <1>9 DEF SeePrefix
    <2>2. /\ (prefix \in 0 .. Len(routes))'
          /\ BestIsLongest(Seen({"Prefix"}), prefix)'
      <3>1. CASE Matches(routes[i], path)
        <4>1. prefix' = MaxByKey(prefix, i) /\ Seen({"Prefix"})' = Seen({"Prefix"}) \cup {i}
          BY <1>7, <1>9, <3>1 DEF SeePrefix
        <4>2. prefix \in 0 .. Len(routes) /\ Seen({"Prefix"}) \subseteq 1 .. i - 1
          BY <1>1, SeenIsBefore DEF LoopTypes
        <4>3. /\ MaxByKey(prefix, i) \in 1 .. Len(routes)
              /\ BestIsLongest(Seen({"Prefix"}) \cup {i}, MaxByKey(prefix, i))
          BY <1>1, <1>4, <4>2, MaxByKeyIsLongest
        <4>4. prefix' \in 1 .. Len(routes) /\ BestIsLongest(Seen({"Prefix"})', prefix')
          BY <4>1, <4>3
        <4> QED
          BY <1>1, <1>2, <4>4 DEF BestIsLongest, IsLongest
      <3>2. CASE ~Matches(routes[i], path)
        <4>1. prefix' = prefix /\ Seen({"Prefix"})' = Seen({"Prefix"})
          BY <1>6, <1>9, <3>2 DEF SeePrefix
        <4> QED
          BY <1>1, <1>2, <1>4, <1>5, <4>1 DEF BestIsLongest, LoopTypes
      <3> QED
        BY <3>1, <3>2
    <2>3. UNCHANGED <<prioritised, regex, found>>
      BY <1>9 DEF SeePrefix
    <2>4. LoopTypes'
      BY <1>1, <1>2, <1>8, <2>2, <2>3 DEF LoopTypes
    <2> QED
      BY <1>3, <1>4, <1>5, <2>1, <2>2, <2>3, <2>4 DEF LoopInvariant, BestIsLongest, BestIsFirst
  <1>10. CASE SeePrioritised
    <2>1. Seen({"Prefix"})' = Seen({"Prefix"}) /\ Seen({"Regex"})' = Seen({"Regex"})
      BY <1>6, <1>10 DEF SeePrioritised
    <2>2. /\ (prioritised \in 0 .. Len(routes))'
          /\ BestIsLongest(Seen(Prioritised), prioritised)'
      <3>1. CASE Matches(routes[i], path)
        <4>1. /\ prioritised' = MaxByKey(prioritised, i)
              /\ Seen(Prioritised)' = Seen(Prioritised) \cup {i}
          BY <1>7, <1>10, <3>1 DEF SeePrioritised
        <4>2. prioritised \in 0 .. Len(routes) /\ Seen(Prioritised) \subseteq 1 .. i - 1
          BY <1>1, SeenIsBefore DEF LoopTypes
        <4>3. /\ MaxByKey(prioritised, i) \in 1 .. Len(routes)
              /\ BestIsLongest(Seen(Prioritised) \cup {i}, MaxByKey(prioritised, i))
          BY <1>1, <1>4, <4>2, MaxByKeyIsLongest
        <4>4. prioritised' \in 1 .. Len(routes) /\ BestIsLongest(Seen(Prioritised)', prioritised')
          BY <4>1, <4>3
        <4> QED
          BY <1>1, <1>2, <4>4 DEF BestIsLongest, IsLongest
      <3>2. CASE ~Matches(routes[i], path)
        <4>1. prioritised' = prioritised /\ Seen(Prioritised)' = Seen(Prioritised)
          BY <1>6, <1>10, <3>2 DEF SeePrioritised
        <4> QED
          BY <1>1, <1>2, <1>4, <1>5, <4>1 DEF BestIsLongest, LoopTypes
      <3> QED
        BY <3>1, <3>2
    <2>3. UNCHANGED <<prefix, regex, found>>
      BY <1>10 DEF SeePrioritised
    <2>4. LoopTypes'
      BY <1>1, <1>2, <1>8, <2>2, <2>3 DEF LoopTypes
    <2> QED
      BY <1>3, <1>4, <1>5, <2>1, <2>2, <2>3, <2>4 DEF LoopInvariant, BestIsLongest, BestIsFirst
  <1>11. CASE SeeRegex
    <2>1. Seen({"Prefix"})' = Seen({"Prefix"}) /\ Seen(Prioritised)' = Seen(Prioritised)
      BY <1>6, <1>11 DEF SeeRegex
    <2>2. /\ (regex \in 0 .. Len(routes))'
          /\ (found # Panicked => BestIsFirst(Seen({"Regex"}), regex))'
      <3>1. CASE Matches(routes[i], path)
        <4>1. Seen({"Regex"})' = Seen({"Regex"}) \cup {i}
          BY <1>7, <1>11, <3>1 DEF SeeRegex
        <4>2. \A r \in Seen({"Regex"}) : r \in Int /\ r < i
          BY <1>1, <1>2, SeenIsBefore
        <4> QED
          BY <1>1, <1>2, <1>4, <1>11, <3>1, <4>1, <4>2
             DEF SeeRegex, BestIsFirst, IsFirst, LoopTypes
      <3>2. CASE ~Matches(routes[i], path)
        <4>1. regex' = regex /\ Seen({"Regex"})' = Seen({"Regex"})
          BY <1>6, <1>11, <3>2 DEF SeeRegex
        <4> QED
          BY <1>1, <1>2, <1>4, <4>1 DEF BestIsFirst, LoopTypes
      <3> QED
        BY <3>1, <3>2
    <2>3. UNCHANGED <<prefix, prioritised>> /\ found' \in Int
      BY <1>1, <1>11 DEF SeeRegex, LoopTypes, Panicked
    <2>4. LoopTypes'
      BY <1>1, <1>2, <1>8, <2>2, <2>3 DEF LoopTypes
    <2> QED
      BY <1>3, <1>4, <1>5, <2>1, <2>2, <2>3, <2>4 DEF LoopInvariant, BestIsLongest, BestIsFirst
  <1> QED
    BY <1>9, <1>10, <1>11 DEF SeeRoute

\* Past the last route the seen candidates are all of them.
LEMMA ReturnKeepsInvariant == LoopInvariant /\ ReturnMatch => LoopInvariant'
  <1> SUFFICES ASSUME LoopInvariant, ReturnMatch PROVE LoopInvariant'
    OBVIOUS
  <1>1. Len(routes) \in Nat /\ i = Len(routes) + 1
    BY TablesAssumption DEF TablesAssumption, LoopInvariant, LoopTypes, ReturnMatch
  <1>2. ASSUME NEW matchers PROVE Seen(matchers) = Candidates(routes, path, matchers)
    BY <1>1 DEF Seen, Candidates
  <1>3. UNCHANGED <<routes, path, i, prioritised, regex, prefix>> /\ found' \in Int
    BY DEF LoopInvariant, LoopTypes, ReturnMatch
  <1>4. IsMatchingRoute(routes, path, found')
    BY <1>2 DEF LoopInvariant, ReturnMatch, IsMatchingRoute, BestIsLongest, BestIsFirst,
               Searching, Panicked
  <1>5. ReturnsMatchingRoute'
    BY <1>3, <1>4 DEF ReturnsMatchingRoute, IsMatchingRoute, Candidates, IsLongest, IsFirst
  <1>6. ASSUME NEW matchers PROVE Seen(matchers)' = Seen(matchers)
    BY <1>3 DEF Seen, Candidates
  <1>7. found # Panicked
    BY DEF ReturnMatch, Searching, Panicked
  <1> QED
    BY <1>3, <1>5, <1>6, <1>7 DEF LoopInvariant, LoopTypes, BestIsLongest, BestIsFirst, IsLongest

LEMMA LoopStutters == LoopInvariant /\ UNCHANGED rmvars => LoopInvariant'
  BY DEF LoopInvariant, LoopTypes, Seen, Candidates, BestIsLongest, BestIsFirst, IsLongest,
         IsFirst, ReturnsMatchingRoute, IsMatchingRoute, rmvars

-----------------------------------------------------------------------------
\* find_matching_route (route_matching.rs): whatever the routes of the server
\* and the path, the route returned is the one IsMatchingRoute describes.
THEOREM MatchingRouteIsReturned == RMSpec => []ReturnsMatchingRoute
  <1>1. RMInit => LoopInvariant
    BY LoopInit
  <1>2. LoopInvariant /\ [RMNext]_rmvars => LoopInvariant'
    BY SeeRouteKeepsInvariant, ReturnKeepsInvariant, LoopStutters DEF RMNext, Returned
  <1>3. LoopInvariant => ReturnsMatchingRoute
    BY DEF LoopInvariant
  <1> QED
    BY <1>1, <1>2, <1>3, PTL DEF RMSpec

\* The route returned is one of the routes, too, or none, or the loop has panicked.
FoundInRange == found \in Panicked .. Len(routes)

\* find_matching_route (route_matching.rs): the index of the loop, the three
\* candidates and the route returned stay in the table of routes.
THEOREM RouteTypeCorrect == RMSpec => []RMTypeOK
  <1>1. RMInit => LoopInvariant /\ FoundInRange
    <2> SUFFICES ASSUME RMInit PROVE FoundInRange
      BY LoopInit
    <2>1. Len(routes) \in Nat
      BY TablesAssumption DEF TablesAssumption, RMInit
    <2> QED
      BY <2>1 DEF RMInit, FoundInRange, Searching, Panicked
  <1>2. LoopInvariant /\ FoundInRange /\ [RMNext]_rmvars => LoopInvariant' /\ FoundInRange'
    <2> SUFFICES ASSUME LoopInvariant, FoundInRange, [RMNext]_rmvars
                 PROVE  LoopInvariant' /\ FoundInRange'
      OBVIOUS
    <2>1. LoopInvariant'
      BY SeeRouteKeepsInvariant, ReturnKeepsInvariant, LoopStutters DEF RMNext, Returned
    <2>2. Len(routes) \in Nat /\ UNCHANGED routes
      BY TablesAssumption DEF TablesAssumption, LoopInvariant, LoopTypes, RMNext, SeeRoute,
                              ReturnMatch, Returned, rmvars
    <2>3. ASSUME SeeRoute PROVE FoundInRange'
      BY <2>2, <2>3 DEF FoundInRange, SeeRoute, SeePrefix, SeeRegex, SeePrioritised, Panicked
    <2>4. ASSUME ReturnMatch PROVE FoundInRange'
      BY <2>2, <2>4 DEF FoundInRange, ReturnMatch, Panicked, LoopInvariant, LoopTypes
    <2>5. ASSUME Returned \/ UNCHANGED rmvars PROVE FoundInRange'
      BY <2>5 DEF FoundInRange, Returned, rmvars
    <2> QED
      BY <2>1, <2>3, <2>4, <2>5 DEF RMNext
  <1>3. LoopInvariant /\ FoundInRange => RMTypeOK
    BY DEF LoopInvariant, LoopTypes, FoundInRange, RMTypeOK
  <1> QED
    BY <1>1, <1>2, <1>3, PTL DEF RMSpec

\* What makes a route the matching one makes its matcher the highest, up to ties.
LEMMA MatchingRouteIsHighest ==
  LoopTypes /\ ReturnsMatchingRoute => HighestMatcherButForTies
  <1> SUFFICES ASSUME LoopTypes, ReturnsMatchingRoute, found >= 0,
                      NEW r \in Candidates(routes, path, Matchers)
               PROVE  /\ found # 0
                      /\ \/ Class(found) >= Class(r)
                         \/ /\ routes[r].matcher = "Exact"
                            /\ routes[found].matcher = "PrefixPrioritiesed"
                            /\ Len(routes[found].uri) = Len(routes[r].uri) /\ r < found
    BY DEF HighestMatcherButForTies
  <1> DEFINE Prioritised == Candidates(routes, path, {"PrefixPrioritiesed", "Exact"})
             Regexes == Candidates(routes, path, {"Regex"})
             Prefixes == Candidates(routes, path, {"Prefix"})
  <1>1. /\ Len(routes) \in Nat /\ Len(path) \in Nat
        /\ \A q \in 1 .. Len(routes) : routes[q].matcher \in Matchers /\ Len(routes[q].uri) \in Nat
    BY TablesAssumption DEF TablesAssumption, LoopTypes
  <1>2. r \in 1 .. Len(routes) /\ Matches(routes[r], path)
    BY DEF Candidates
  <1>3. r \in Prioritised \cup Regexes \cup Prefixes
    BY <1>1, <1>2 DEF Candidates, Matchers
  <1>4. ASSUME NEW q \in 1 .. Len(routes) PROVE Class(q) \in 1 .. 4
    BY <1>1 DEF Class, Matchers
  <1>5. CASE IsLongest(routes, Prioritised, found)
    <2>1. found \in Prioritised /\ found \in 1 .. Len(routes) /\ Matches(routes[found], path)
      BY <1>5 DEF IsLongest, Candidates
    <2>2. Class(found) = 4 \/ (Class(found) = 3 /\ routes[found].matcher = "PrefixPrioritiesed")
      BY <2>1 DEF Candidates, Class
    <2>3. CASE routes[r].matcher = "Exact" /\ routes[found].matcher = "PrefixPrioritiesed"
      <3>1. path = routes[r].uri /\ Len(routes[found].uri) <= Len(path)
        BY <1>2, <2>1, <2>3 DEF Matches, StartsWith
      <3>2. r \in Prioritised /\ r # found
        BY <1>2, <2>3 DEF Candidates
      <3>3. \/ Len(routes[r].uri) < Len(routes[found].uri)
            \/ Len(routes[r].uri) = Len(routes[found].uri) /\ r <= found
        BY <1>5, <3>2 DEF IsLongest
      <3> QED
        BY <1>1, <1>2, <2>1, <2>3, <3>1, <3>2, <3>3
    <2>4. CASE routes[r].matcher # "Exact" \/ Class(found) = 4
      <3>1. routes[r].matcher # "Exact" => Class(r) \in 1 .. 3
        BY <1>1, <1>2 DEF Class, Matchers
      <3> QED
        BY <1>2, <1>4, <2>1, <2>2, <2>4, <3>1
    <2> QED
      BY <2>2, <2>3, <2>4
  <1>6. CASE Prioritised = {} /\ IsFirst(Regexes, found)
    <2>1. found \in Regexes /\ found \in 1 .. Len(routes) /\ Class(found) = 2
      BY <1>6 DEF IsFirst, Candidates, Class
    <2>2. Class(r) \in {1, 2}
      BY <1>3, <1>6 DEF Candidates, Class
    <2> QED
      BY <2>1, <2>2
  <1>7. CASE Prioritised = {} /\ Regexes = {} /\ IsLongest(routes, Prefixes, found)
    <2>1. found \in Prefixes /\ found \in 1 .. Len(routes) /\ Class(found) = 1
      BY <1>7 DEF IsLongest, Candidates, Class
    <2>2. Class(r) = 1
      BY <1>3, <1>7 DEF Candidates, Class
    <2> QED
      BY <2>1, <2>2
  <1>8. Prioritised \cup Regexes \cup Prefixes # {}
    BY <1>3
  <1> QED
    BY <1>5, <1>6, <1>7, <1>8 DEF ReturnsMatchingRoute, IsMatchingRoute

\* docs/index.md's order of the matchers is kept, except that of an exact and a
\* ^~ route with the same uri the one declared last wins.
THEOREM HighestMatcherWins == RMSpec => []HighestMatcherButForTies
  <1>1. RMInit => LoopInvariant
    BY LoopInit
  <1>2. LoopInvariant /\ [RMNext]_rmvars => LoopInvariant'
    BY SeeRouteKeepsInvariant, ReturnKeepsInvariant, LoopStutters DEF RMNext, Returned
  <1>3. LoopInvariant => HighestMatcherButForTies
    BY MatchingRouteIsHighest DEF LoopInvariant
  <1> QED
    BY <1>1, <1>2, <1>3, PTL DEF RMSpec
=============================================================================
