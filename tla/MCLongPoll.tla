------------------------------ MODULE MCLongPoll ------------------------------
(* Two polls of the same room.  *)
EXTENDS LongPoll

CONSTANTS p1, p2, room
MCRoomOf == [p \in Polls |-> room]
===============================================================================
