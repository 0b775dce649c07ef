\* Users of one manager close, open and ask for the clients of two servers.
SPECIFICATION Spec
CONSTANTS
  Keys = {k1, k2}
  MaxClients = 3
INVARIANTS
  TypeOK
  NeverOpenedTwice
  ClosedByUser
