\* A channel on which nothing is published for a while.
SPECIFICATION LiveSpec
CONSTANTS
  Channels = {c1, c2}
  Programs = {"one"}
  MayTimeout = TRUE
  MayDrop = FALSE
  MaxObjects = 1
  MaxMessages = 1
  MaxCalls = 1
PROPERTIES
  TimeoutRestarts
CHECK_DEADLOCK FALSE
