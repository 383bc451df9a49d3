--------------------------- MODULE MCRouteMatching ---------------------------
(***************************************************************************)
(* Every table of at most three routes over four uris, each asked for four *)
(* paths.  Of two routes of every kind at most three decide which wins.    *)
(***************************************************************************)
EXTENDS RouteMatching

MCPaths == {<<>>, <<"a">>, <<"a", "b">>, <<"b", "a">>}
MCUris == {<<>>, <<"a">>, <<"b">>, <<"a", "b">>}
MCBadRegexes == {<<"b">>}
MCRoutes == [matcher : Matchers, uri : MCUris]
MCRouteTables == UNION {[1 .. n -> MCRoutes] : n \in 0 .. 3}
=============================================================================
