----------------------------- MODULE RequestReply -----------------------------
(***************************************************************************)
(* What a caller of RedisClient is promised: calls are made one at a time, *)
(* the server serves a call at most once, and a call returns a value (or   *)
(* throws an error of the server) only after it was served, as the answer  *)
(* to that call.  A call that cannot be served fails.                      *)
(***************************************************************************)
EXTENDS Integers

VARIABLES
  pending,  \* the call in progress, 0 if none
  served,   \* TRUE iff the server has served it
  result    \* the last outcome and the calls it was made of

vars == <<pending, served, result>>

Answers == {"value", "RedisServerException"}
NoResult == [call |-> 0, outcome |-> "none", got |-> {}]

Init == pending = 0 /\ served = FALSE /\ result = NoResult

Issue ==
  /\ pending = 0
  /\ pending' \in Nat /\ pending' > result.call /\ served' = FALSE
  /\ UNCHANGED result

Served ==
  /\ pending # 0 /\ ~served
  /\ served' = TRUE
  /\ UNCHANGED <<pending, result>>

Answer ==
  /\ pending # 0 /\ served
  /\ \E o \in Answers : result' = [call |-> pending, outcome |-> o, got |-> {pending}]
  /\ pending' = 0 /\ served' = FALSE

Fail ==
  /\ pending # 0 /\ ~served
  /\ result' = [call |-> pending, outcome |-> "RuntimeException", got |-> {}]
  /\ pending' = 0 /\ served' = FALSE

\* A new connection forgets the result of the old one.
Reset ==
  /\ pending = 0
  /\ result' = NoResult
  /\ UNCHANGED <<pending, served>>

Next == Issue \/ Served \/ Answer \/ Fail \/ Reset

Spec == Init /\ [][Next]_vars
=============================================================================
