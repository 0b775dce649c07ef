\* Users of one manager close, open and ask for the clients of one server.
SPECIFICATION Spec
CONSTANTS
  Keys = {k1}
  MaxClients = 3
INVARIANTS
  ReturnedIsOpen
