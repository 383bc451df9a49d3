\* A request that ends in an error.
CONSTANTS
  plain = plain
  secure = secure
  Conns = {c1}
  Listeners = {plain, secure}
  Group <- MCGroup
  Requests <- MCRequests
  Disks <- MCDisks
  BadRegexes <- MCBadRegexes
  MaxReads = 1
SPECIFICATION ServingSpec
INVARIANT
  ErrorsAreAnswered
