\* A program that subscribes to one channel and waits on it, while messages
\* keep coming or the connection is lost.
SPECIFICATION ListenerSpec
CONSTANTS
  Channels = {c1, c2}
  Programs = {"one"}
  MayTimeout = FALSE
  MayDrop = TRUE
  MaxObjects = 1
  MaxMessages = 4
  MaxCalls = 1
PROPERTIES
  ImplementsSubscription
  LoopEnds
  MessagesArrive
CHECK_DEADLOCK FALSE
