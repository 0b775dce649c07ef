\* Every call, on the client and on two channels that share its socket.
SPECIFICATION LiveSpec
CONSTANTS
  Channels = {c1, c2}
  Programs = {"one", "two", "more", "fewer", "client", "quit", "close", "open"}
  MayTimeout = TRUE
  MayDrop = TRUE
  MaxObjects = 2
  MaxMessages = 2
  MaxCalls = 4
INVARIANTS
  TypeOK
  ExactlyOneKnows
  EveryMessageOnce
PROPERTIES
  ReadEnds
CHECK_DEADLOCK FALSE
