CONSTANTS
  Messages <- MCMessages
  BufSize = 2
SPECIFICATION RelaySpec
INVARIANTS
  RelayTypeOK
  BodyIsRead
  WholeMessagesAreRead
  ResponseIsFramed
PROPERTIES
  MessageEnds
