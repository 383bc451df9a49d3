CONSTANTS
  Inputs <- MCInputs
  Prefixes <- MCPrefixes
SPECIFICATION UriSpec
INVARIANTS
  UriTypeOK
  UriIsAsMeant
  RestIsKept
