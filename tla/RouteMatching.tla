---------------------------- MODULE RouteMatching ----------------------------
(***************************************************************************)
(* find_matching_route (route_matching.rs): one pass over the routes of a  *)
(* server that keeps the best prioritised, regular expression and prefix   *)
(* match so far, and the choice between the three at its end.              *)
(***************************************************************************)
EXTENDS Routes

CONSTANTS
  RouteTables,  \* the sequences of routes a server may have
  Paths         \* the paths of requests

\* What the parser of the configuration makes: routes with a matcher and a uri.
TablesAssumption ==
  /\ \A table \in RouteTables :
       /\ Len(table) \in Nat
       /\ \A r \in 1 .. Len(table) : /\ table[r].matcher \in Matchers
                                     /\ Len(table[r].uri) \in Nat
  /\ \A path \in Paths : Len(path) \in Nat
ASSUME TablesAssumption

VARIABLES
  routes, path,                \* the arguments
  i,                           \* the route the loop is at
  prioritised, regex, prefix,  \* the best matches so far, 0 for None
  found                        \* the route returned, 0 for None

Searching == -1
Panicked == -2

rmvars == <<routes, path, i, prioritised, regex, prefix, found>>

RMInit ==
  /\ routes \in RouteTables
  /\ path \in Paths
  /\ i = 1
  /\ prioritised = 0 /\ regex = 0 /\ prefix = 0
  /\ found = Searching

-----------------------------------------------------------------------------
\* Mutant: of two routes as long the first is kept.
MaxByKeyFirst(best, r) ==
  IF best = 0 \/ Len(routes[best].uri) < Len(routes[r].uri) THEN r ELSE best

\* max_by_key(best, Some(r), uri.len()): None is least, the second wins a tie.
MaxByKey(best, r) ==
  IF best = 0 \/ Len(routes[best].uri) <= Len(routes[r].uri) THEN r ELSE best

SeePrefix ==
  /\ routes[i].matcher = "Prefix"
  /\ prefix' = IF Matches(routes[i], path) THEN MaxByKey(prefix, i) ELSE prefix
  /\ UNCHANGED <<prioritised, regex, found>>

SeeRegex ==
  /\ routes[i].matcher = "Regex"
  /\ regex' = IF ~IsBroken(routes[i]) /\ Matches(routes[i], path) /\ regex = 0 THEN i ELSE regex
  /\ found' = IF IsBroken(routes[i]) THEN Panicked ELSE found
  /\ UNCHANGED <<prioritised, prefix>>

SeePrioritised ==
  /\ routes[i].matcher \in {"PrefixPrioritiesed", "Exact"}
  /\ prioritised' = IF Matches(routes[i], path) THEN MaxByKey(prioritised, i) ELSE prioritised
  /\ UNCHANGED <<regex, prefix, found>>

SeeRoute ==
  /\ i <= Len(routes) /\ found = Searching
  /\ SeePrefix \/ SeeRegex \/ SeePrioritised
  /\ i' = i + 1
  /\ UNCHANGED <<routes, path>>

\* Mutant: where no route matches the index after the last is returned.
ReturnMatchPastEnd ==
  /\ i > Len(routes) /\ found = Searching
  /\ found' = IF prioritised # 0 THEN prioritised ELSE IF regex # 0 THEN regex
              ELSE IF prefix # 0 THEN prefix ELSE i
  /\ UNCHANGED <<routes, path, i, prioritised, regex, prefix>>

\* Mutant: a prefix is asked for before a regular expression.
ReturnMatchPrefixFirst ==
  /\ i > Len(routes) /\ found = Searching
  /\ found' = IF prioritised # 0 THEN prioritised ELSE IF prefix # 0 THEN prefix ELSE regex
  /\ UNCHANGED <<routes, path, i, prioritised, regex, prefix>>

ReturnMatch ==
  /\ i > Len(routes) /\ found = Searching
  /\ found' = IF prioritised # 0 THEN prioritised ELSE IF regex # 0 THEN regex ELSE prefix
  /\ UNCHANGED <<routes, path, i, prioritised, regex, prefix>>

Returned == found # Searching /\ UNCHANGED rmvars

RMNext == SeeRoute \/ ReturnMatch \/ Returned

RMSpec == RMInit /\ [][RMNext]_rmvars

-----------------------------------------------------------------------------
RMTypeOK ==
  /\ routes \in RouteTables /\ path \in Paths
  /\ i \in 1 .. Len(routes) + 1
  /\ prioritised \in 0 .. Len(routes)
  /\ regex \in 0 .. Len(routes)
  /\ prefix \in 0 .. Len(routes)
  /\ found \in Panicked .. Len(routes)

\* The pass returns the route its one-line description names: the longest of
\* the exact and ^~ matches, else the first regular expression, else the longest
\* prefix, the last declared among equals, else none.
ReturnsMatchingRoute == found >= 0 => IsMatchingRoute(routes, path, found)

Class(r) ==
  CASE routes[r].matcher = "Exact" -> 4
    [] routes[r].matcher = "PrefixPrioritiesed" -> 3
    [] routes[r].matcher = "Regex" -> 2
    [] routes[r].matcher = "Prefix" -> 1

\* docs/index.md orders the matchers: = before ^~ before ~ and ~* before the
\* default.  The route returned has the highest matcher that matches, and no
\* route is returned only when none matches, except that an exact match gives way
\* to a ^~ route with the very same uri that is declared behind it.
HighestMatcherButForTies ==
  found >= 0 =>
    \A r \in Candidates(routes, path, Matchers) :
      /\ found # 0
      /\ \/ Class(found) >= Class(r)
         \/ /\ routes[r].matcher = "Exact" /\ routes[found].matcher = "PrefixPrioritiesed"
            /\ Len(routes[found].uri) = Len(routes[r].uri) /\ r < found

=============================================================================
