CONSTANTS
  RouteTables <- MCRouteTables
  Paths <- MCPaths
  BadRegexes <- MCBadRegexes
SPECIFICATION RMSpec
INVARIANTS
  RMTypeOK
  ReturnsMatchingRoute
  HighestMatcherButForTies
