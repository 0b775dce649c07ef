----------------------------- MODULE Subscription -----------------------------
(* What a channel promises its listener: every message published to the    *)
(* connection is received once and in order, until the channel is closed.  *)
EXTENDS Sequences, Integers

VARIABLES
  published, \* messages sent to the subscriber, in order
  received,  \* messages its wait() calls have returned, in order
  open       \* whether the channel still listens

vars == <<published, received, open>>

Init == published = <<>> /\ received = <<>> /\ open = TRUE

Publish ==
  /\ Len(published') = Len(published) + 1
  /\ SubSeq(published', 1, Len(published)) = published
  /\ UNCHANGED <<received, open>>

Receive ==
  /\ open /\ Len(received) < Len(published)
  /\ received' = Append(received, published[Len(received) + 1])
  /\ UNCHANGED <<published, open>>

\* The connection is closed by the listener, by the server, or is lost.
End == open' = FALSE /\ UNCHANGED <<published, received>>

Next == Publish \/ Receive \/ End

Spec == Init /\ [][Next]_vars
===============================================================================
