SPECIFICATION Spec
CONSTANTS
  w1 = w1
  Windows = {w1, w2}
  b1 = b1
  Browsers = {b1}
  BrowserOf <- MCBrowserOf
  Rooms = {room}
  Connections = 2
  MaxSubmits <- MCMaxSubmits
  MaxLoads <- MCMaxLoads
INVARIANTS TypeOK UniqueNames SignedByOwner JoinNotEchoed SentOnce
PROPERTIES NameKept
VIEW View
CHECK_DEADLOCK FALSE
