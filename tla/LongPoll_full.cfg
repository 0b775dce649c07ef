SPECIFICATION LiveSpec
CONSTANTS
  p1 = p1
  p2 = p2
  room = room
  Polls = {p1, p2}
  Rooms = {room}
  RoomOf <- MCRoomOf
  Merging = {p1}
  MaxMessages = 3
INVARIANTS
  TypeOK
  ShownInOrder
  EndIsLast
PROPERTIES
  StuckForever
  PublishedIsShown
  EchoedIsShown
  ImplementsSubscription
CHECK_DEADLOCK FALSE
