CONSTANTS
  plain = plain
  secure = secure
  Conns = {c1}
  Listeners = {plain, secure}
  Group <- MCGroup
  Requests <- MCRequests
  Disks <- MCDisks
  BadRegexes <- MCBadRegexes
  MaxReads = 1
SPECIFICATION ServingSpec
INVARIANTS
  ServingTypeOK
  RequestsDieOnlyOf
  AtMostTwoTries
PROPERTIES
  ConnectionsEnd
