------------------------------- MODULE Routes -------------------------------
(***************************************************************************)
(* The routes of a server and which of them match a path (Route,           *)
(* UriMatcher, the match arms of find_matching_route).  A uri or a path is *)
(* a sequence of segments; what matters of its text is which uri is a      *)
(* prefix of which path, and which is longer.  A regular expression is one *)
(* without operators: it is found where its text occurs.                   *)
(***************************************************************************)
EXTENDS Integers, Sequences

CONSTANT BadRegexes  \* the uris that are no regular expression

Matchers == {"Prefix", "Regex", "PrefixPrioritiesed", "Exact"}

StartsWith(path, uri) ==
  Len(uri) <= Len(path) /\ \A k \in 1 .. Len(uri) : path[k] = uri[k]

Found(path, uri) ==
  \E d \in 0 .. Len(path) - Len(uri) : \A k \in 1 .. Len(uri) : path[d + k] = uri[k]

Matches(route, path) ==
  CASE route.matcher = "Exact" -> path = route.uri
    [] route.matcher = "Regex" -> Found(path, route.uri)
    [] OTHER -> StartsWith(path, route.uri)

\* Regex::new(...).unwrap() panics, whatever the path.
IsBroken(route) == route.matcher = "Regex" /\ route.uri \in BadRegexes

\* The indices of the matching routes with one of these matchers.
Candidates(routes, path, matchers) ==
  {r \in 1 .. Len(routes) : routes[r].matcher \in matchers /\ Matches(routes[r], path)}

\* The longest uri, of equals the one declared last.
IsLongest(routes, candidates, r) ==
  /\ r \in candidates
  /\ \A q \in candidates :
       \/ Len(routes[q].uri) < Len(routes[r].uri)
       \/ Len(routes[q].uri) = Len(routes[r].uri) /\ q <= r

IsFirst(candidates, r) == r \in candidates /\ \A q \in candidates : r <= q

\* find_matching_route(server, path) is r, if it returns; 0 stands for None.
IsMatchingRoute(routes, path, r) ==
  LET prioritised == Candidates(routes, path, {"PrefixPrioritiesed", "Exact"})
      regex == Candidates(routes, path, {"Regex"})
      prefix == Candidates(routes, path, {"Prefix"})
  IN  \/ IsLongest(routes, prioritised, r)
      \/ prioritised = {} /\ IsFirst(regex, r)
      \/ prioritised = {} /\ regex = {} /\ IsLongest(routes, prefix, r)
      \/ prioritised \cup regex \cup prefix = {} /\ r = 0

MatchingRoute(routes, path) == CHOOSE r \in 0 .. Len(routes) : IsMatchingRoute(routes, path, r)

\* matched_prefix_len
MatchedPrefixLen(route) == IF route.matcher = "Regex" THEN 0 ELSE Len(route.uri)
=============================================================================
