CONSTANTS
  Messages <- MCMessages
  BufSize = 2
SPECIFICATION RelaySpec
INVARIANT
  RequestIsCopied
