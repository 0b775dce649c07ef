---------------------------- MODULE LongPollProofs ----------------------------
(* What is shown and when a poll is lost, for any number of polls, rooms and *)
(* messages.                                                                 *)
EXTENDS LongPoll, TLAPS

Objects == Messages \cup {NoData, Response}

\* What has been echoed: the messages since the poll subscribed, and at the end
\* of the answer objects without one.
OutInv(p) ==
  /\ \A i \in DOMAIN out[p] : out[p][i] \in Messages => out[p][i] = since[p] + i
  /\ server[p] = "none" => out[p] = <<>>
  /\ server[p] = "listening" => \A i \in DOMAIN out[p] : out[p][i] \in Messages
  /\ server[p] = "closed" => \A i \in DOMAIN out[p] :
       out[p][i] # Response /\ (i < Len(out[p]) => out[p][i] \in Messages)
  /\ \A i \in DOMAIN out[p] : out[p][i] = NoData => i >= Len(out[p]) - 1
  /\ \A i \in DOMAIN out[p] : out[p][i] = Response => i = Len(out[p])

\* What has been shown: the objects before the read position.
ReadInv(p) ==
  /\ Len(shown[p]) = position[p]
  /\ \A i \in DOMAIN shown[p] : shown[p][i] = out[p][i]

PollInv == TypeOK /\ \A p \in Polls : OutInv(p) /\ ReadInv(p)

LEMMA InitPollInv == Init => PollInv
BY RoomOfAssumption DEF Init, PollInv, TypeOK, OutInv, ReadInv, Messages

\* The read position is within what has been echoed.
LEMMA PositionInOut ==
  ASSUME TypeOK, NEW p \in Polls
  PROVE  /\ 2 * position[p] <= arrived[p] /\ arrived[p] <= 2 * Len(out[p])
         /\ position[p] \in Nat /\ arrived[p] \in Nat /\ Len(out[p]) \in Nat
         /\ position[p] <= Len(out[p])
BY DEF TypeOK

-----------------------------------------------------------------------------
(* The steps of server.php.                                                *)

\* One more object in the answer leaves the browser's side as it was.
LEMMA EchoStep ==
  ASSUME PollInv, NEW p \in Polls, NEW x \in Objects,
         NEW phase \in {"listening", "closed", "ended"}, Echo(p, x, phase),
         since' \in [Polls -> Nat]
  PROVE  TypeOK' /\ \A q \in Polls : ReadInv(q)'
<1>1. /\ out' = [out EXCEPT ![p] = Append(out[p], x)]
      /\ server' = [server EXCEPT ![p] = phase]
      /\ UNCHANGED <<published, browserVars>>
  BY DEF Echo
<1>2. out \in [Polls -> Seq(Objects)]
  BY DEF PollInv, TypeOK, Objects
<1>3. out' \in [Polls -> Seq(Objects)] /\ out'[p] = Append(out[p], x)
  BY <1>1, <1>2
<1>4. /\ Len(out'[p]) = Len(out[p]) + 1 /\ Len(out[p]) \in Nat
      /\ \A i \in 1..Len(out[p]) : out'[p][i] = out[p][i]
  BY <1>2, <1>3
<1>5. TypeOK'
  <2>1. ASSUME NEW q \in Polls PROVE arrived'[q] <= 2 * Len(out'[q])
    <3>1. CASE q = p
      BY <3>1, <1>1, <1>4, PositionInOut DEF PollInv, browserVars
    <3>2. CASE q # p
      BY <3>2, <1>1, <1>2, PositionInOut DEF PollInv, browserVars
    <3> QED BY <3>1, <3>2
  <2> QED BY <2>1, <1>1, <1>3 DEF PollInv, TypeOK, Objects, browserVars
<1>6. ASSUME NEW q \in Polls PROVE ReadInv(q)'
  <2>1. /\ ReadInv(q) /\ shown' = shown /\ position' = position
        /\ shown[q] \in Seq(Messages) /\ DOMAIN shown[q] = 1..position[q]
    BY <1>1 DEF PollInv, browserVars, TypeOK, ReadInv
  <2>2. CASE q = p
    <3>1. \A i \in DOMAIN shown[q] : i \in 1..Len(out[p])
      BY <2>1, <2>2, PositionInOut DEF PollInv
    <3> QED BY <3>1, <2>1, <2>2, <1>4 DEF ReadInv
  <2>3. CASE q # p
    BY <2>1, <2>3, <1>1, <1>2 DEF ReadInv
  <2> QED BY <2>2, <2>3
<1> QED BY <1>5, <1>6

\* What an object at the end of the answer does to OutInv.
LEMMA EchoOutInv ==
  ASSUME PollInv, NEW p \in Polls, NEW x \in Objects,
         NEW phase \in {"listening", "closed", "ended"}, Echo(p, x, phase),
         since' \in [Polls -> Nat],
         \A q \in Polls \ {p} : since'[q] = since[q],
         server[p] # "none" => since'[p] = since[p],
         server[p] \in {"none", "listening", "closed"},
         x \in Messages => x = since'[p] + Len(out[p]) + 1,
         server[p] = "closed" => x = Response,
         phase = "listening" => x \in Messages /\ server[p] = "listening",
         phase = "closed" => x = NoData /\ server[p] = "listening"
  PROVE  \A q \in Polls : OutInv(q)'
<1>1. /\ out' = [out EXCEPT ![p] = Append(out[p], x)]
      /\ server' = [server EXCEPT ![p] = phase]
  BY DEF Echo
<1>2. out \in [Polls -> Seq(Objects)] /\ server \in [Polls -> {"none", "listening", "closed", "ended", "cut"}]
  BY DEF PollInv, TypeOK, Objects
<1>3. SUFFICES ASSUME NEW q \in Polls PROVE OutInv(q)'
  OBVIOUS
<1>4. CASE q # p
  <2>1. out'[q] = out[q] /\ server'[q] = server[q] /\ since'[q] = since[q]
    BY <1>1, <1>2, <1>4
  <2> QED BY <2>1 DEF PollInv, OutInv
<1>5. CASE q = p
  <2> DEFINE n == Len(out[p])
  <2>1. /\ n \in Nat /\ Len(out'[p]) = n + 1 /\ DOMAIN out'[p] = 1..(n + 1)
        /\ DOMAIN out[p] = 1..n /\ out'[p][n + 1] = x /\ server'[p] = phase
        /\ \A i \in 1..n : out'[p][i] = out[p][i]
    BY <1>1, <1>2
  <2>2. OutInv(p)
    BY DEF PollInv
  <2>3. \A i \in 1..n : out[p][i] \in Messages => out[p][i] = since'[p] + i
    <3>1. CASE server[p] = "none"
      BY <3>1, <2>1, <2>2 DEF OutInv
    <3>2. CASE server[p] # "none"
      BY <3>2, <2>1, <2>2 DEF OutInv
    <3> QED BY <3>1, <3>2
  <2>4. \A i \in 1..n : out[p][i] \in Messages \/ (out[p][i] = NoData /\ i = n /\ server[p] = "closed")
    <3>1. CASE server[p] = "none"
      BY <3>1, <2>1, <2>2 DEF OutInv
    <3>2. CASE server[p] = "listening"
      BY <3>2, <2>1, <2>2 DEF OutInv
    <3>3. CASE server[p] = "closed"
      <4>1. ASSUME NEW i \in 1..n, out[p][i] \notin Messages
            PROVE  out[p][i] = NoData /\ i = n
        <5>1. i = n
          BY <4>1, <3>3, <2>1, <2>2 DEF OutInv
        <5>2. out[p][i] # Response
          BY <2>1, <2>2, <3>3 DEF OutInv
        <5>3. out[p][i] \in Objects
          BY <1>2, <2>1
        <5> QED BY <5>1, <5>2, <5>3, <4>1, <3>3 DEF Objects
      <4> QED BY <4>1, <3>3
    <3> QED BY <3>1, <3>2, <3>3
  <2>5. \A i \in DOMAIN out'[p] : i \in 1..n \/ i = n + 1
    BY <2>1
  <2>6. ASSUME NEW i \in DOMAIN out'[p], out'[p][i] \in Messages
        PROVE  out'[p][i] = since'[p] + i
    <3>1. CASE i \in 1..n
      BY <3>1, <2>1, <2>3, <2>6
    <3>2. CASE i = n + 1
      <4>1. x = since'[p] + n + 1
        BY <3>2, <2>1, <2>6
      <4>2. since'[p] \in Nat
        OBVIOUS
      <4> QED BY <4>1, <4>2, <3>2, <2>1
    <3> QED BY <3>1, <3>2, <2>5
  <2>7. phase = "listening" => \A i \in DOMAIN out'[p] : out'[p][i] \in Messages
    BY <2>1, <2>4, <2>5
  <2>9. NoData \notin Messages /\ Response \notin Messages /\ NoData # Response
    BY DEF NoData, Response, Messages
  <2>8. phase = "closed" => \A i \in DOMAIN out'[p] :
          out'[p][i] # Response /\ (i < Len(out'[p]) => out'[p][i] \in Messages)
    BY <2>1, <2>4, <2>5, <2>9
  <2>12. server'[p] = phase /\ phase # "none"
    BY <2>1
  <2>10. \A i \in DOMAIN out'[p] : out'[p][i] = NoData => i >= Len(out'[p]) - 1
    BY <2>1, <2>4, <2>5, <2>9
  <2>11. \A i \in DOMAIN out'[p] : out'[p][i] = Response => i = Len(out'[p])
    BY <2>1, <2>4, <2>5, <2>9
  <2> QED
    BY <2>6, <2>7, <2>8, <2>10, <2>11, <2>12, <1>5 DEF OutInv
<1> QED BY <1>4, <1>5

LEMMA StartSince ==
  ASSUME PollInv, NEW p \in Polls, Start(p)
  PROVE  /\ since' \in [Polls -> Nat] /\ \A q \in Polls \ {p} : since'[q] = since[q]
         /\ server[p] = "none" /\ out[p] = <<>>
BY RoomOfAssumption DEF Start, PollInv, TypeOK, OutInv

LEMMA ObjectKinds ==
  NoData \in Objects /\ Response \in Objects /\ NoData \notin Messages /\ Response \notin Messages
BY DEF NoData, Response, Objects, Messages

LEMMA RefusePollInv ==
  ASSUME PollInv, NEW p \in Polls, Refuse(p)
  PROVE  PollInv'
<1>1. Start(p) /\ Echo(p, Response, "ended")
  BY DEF Refuse
<1>2. TypeOK' /\ \A q \in Polls : ReadInv(q)'
  BY <1>1, StartSince, ObjectKinds, EchoStep
<1>3. \A q \in Polls : OutInv(q)'
  BY <1>1, StartSince, ObjectKinds, EchoOutInv
<1> QED BY <1>2, <1>3 DEF PollInv

LEMMA WaitReturnsPollInv ==
  ASSUME PollInv, NEW p \in Polls, WaitReturns(p)
  PROVE  PollInv'
<1> DEFINE m == since[p] + Len(out[p]) + 1
<1>1. /\ server[p] = "listening" /\ Echo(p, m, "listening") /\ since' = since
      /\ since \in [Polls -> Nat] /\ m \in Messages /\ m \in Objects
  BY PositionInOut DEF WaitReturns, PollInv, TypeOK, Messages, Objects
<1>2. TypeOK' /\ \A q \in Polls : ReadInv(q)'
  BY <1>1, EchoStep
<1>3. \A q \in Polls : OutInv(q)'
  BY <1>1, EchoOutInv
<1> QED BY <1>2, <1>3 DEF PollInv

LEMMA WaitClosesPollInv ==
  ASSUME PollInv, NEW p \in Polls, WaitCloses(p)
  PROVE  PollInv'
<1>1. /\ server[p] = "listening" /\ Echo(p, NoData, "closed") /\ since' = since
      /\ since \in [Polls -> Nat]
  BY DEF WaitCloses, PollInv, TypeOK
<1>2. TypeOK' /\ \A q \in Polls : ReadInv(q)'
  BY <1>1, ObjectKinds, EchoStep
<1>3. \A q \in Polls : OutInv(q)'
  BY <1>1, ObjectKinds, EchoOutInv
<1> QED BY <1>2, <1>3 DEF PollInv

LEMMA FinishPollInv ==
  ASSUME PollInv, NEW p \in Polls, Finish(p)
  PROVE  PollInv'
<1>1. /\ server[p] = "closed" /\ Echo(p, Response, "ended") /\ since' = since
      /\ since \in [Polls -> Nat]
  BY DEF Finish, PollInv, TypeOK
<1>2. TypeOK' /\ \A q \in Polls : ReadInv(q)'
  BY <1>1, ObjectKinds, EchoStep
<1>3. \A q \in Polls : OutInv(q)'
  BY <1>1, ObjectKinds, EchoOutInv
<1> QED BY <1>2, <1>3 DEF PollInv

\* A step that echoes nothing and leaves the process elsewhere than at the end
\* of its loop.
LEMMA SilentStep ==
  ASSUME PollInv, NEW p \in Polls, NEW phase \in {"listening", "ended", "cut"},
         server' = [server EXCEPT ![p] = phase], UNCHANGED <<published, out, browserVars>>,
         since' \in [Polls -> Nat], \A q \in Polls \ {p} : since'[q] = since[q],
         since'[p] = since[p] \/ out[p] = <<>>,
         phase = "listening" => out[p] = <<>>
  PROVE  PollInv'
<1>1. TypeOK'
  BY DEF PollInv, TypeOK, browserVars
<1>2. ASSUME NEW q \in Polls PROVE OutInv(q)' /\ ReadInv(q)'
  <2>1. OutInv(q) /\ ReadInv(q)
    BY DEF PollInv
  <2>2. ReadInv(q)'
    BY <2>1 DEF ReadInv, browserVars
  <2>3. CASE q # p
    <3>1. server'[q] = server[q] /\ out'[q] = out[q] /\ since'[q] = since[q]
      BY <2>3 DEF PollInv, TypeOK
    <3> QED BY <2>1, <2>2, <3>1 DEF OutInv
  <2>4. CASE q = p
    <3>1. server'[p] = phase /\ out'[p] = out[p]
      BY DEF PollInv, TypeOK
    <3> QED BY <2>1, <2>2, <2>4, <3>1 DEF OutInv
  <2> QED BY <2>3, <2>4
<1> QED BY <1>1, <1>2 DEF PollInv

-----------------------------------------------------------------------------
(* The steps of the browser and of redis.                                  *)

LEMMA ReadyStateChangePollInv ==
  ASSUME PollInv, NEW p \in Polls, ReadyStateChange(p)
  PROVE  PollInv'
<1>1. PICK k \in Arrivals(p) :
        arrived' = [arrived EXCEPT ![p] = k] /\ Evaluate(p, k) /\ UNCHANGED serverVars
  BY DEF ReadyStateChange
<1>2. TypeOK /\ OutInv(p) /\ ReadInv(p)
  BY DEF PollInv
<1>3. /\ k \in Nat /\ arrived[p] < k /\ k <= 2 * Len(out[p])
      /\ 2 * position[p] <= arrived[p]
      /\ position[p] \in Nat /\ arrived[p] \in Nat /\ Len(out[p]) \in Nat
  BY <1>2, PositionInOut DEF Arrivals
<1>4. \A q \in Polls : OutInv(q)'
  BY <1>1 DEF PollInv, OutInv, serverVars
<1> DEFINE x == out[p][position[p] + 1]
<1>5. CASE k - 2 * position[p] = 2 /\ x \in Messages
  <2>1. /\ shown' = [shown EXCEPT ![p] = Append(shown[p], x)]
        /\ position' = [position EXCEPT ![p] = position[p] + 1]
    BY <1>1, <1>5 DEF Evaluate
  <2>2. /\ shown \in [Polls -> Seq(Messages)] /\ position \in [Polls -> Nat]
        /\ arrived \in [Polls -> Nat]
    BY <1>2 DEF TypeOK
  <2>3. /\ shown' \in [Polls -> Seq(Messages)] /\ position' \in [Polls -> Nat]
        /\ arrived' \in [Polls -> Nat]
    BY <2>1, <2>2, <1>1, <1>3, <1>5
  <2>4. /\ arrived'[p] = k /\ position'[p] = position[p] + 1
        /\ shown'[p] = Append(shown[p], x)
    BY <2>1, <2>2, <1>1
  <2>5. ASSUME NEW q \in Polls, q # p
        PROVE  /\ arrived'[q] = arrived[q] /\ position'[q] = position[q] /\ shown'[q] = shown[q]
    BY <2>5, <2>1, <2>2, <1>1
  <2>6. ASSUME NEW q \in Polls
        PROVE  arrived'[q] <= 2 * Len(out'[q]) /\ 2 * position'[q] <= arrived'[q]
    <3>1. out' = out
      BY <1>1 DEF serverVars
    <3>2. CASE q = p
      BY <3>1, <3>2, <2>4, <1>3, <1>5
    <3>3. CASE q # p
      BY <3>1, <3>3, <2>5, <1>2 DEF TypeOK
    <3> QED BY <3>2, <3>3
  <2>7. TypeOK'
    BY <2>3, <2>6, <1>1, <1>2 DEF TypeOK, serverVars
  <2>8. ASSUME NEW q \in Polls PROVE ReadInv(q)'
    <3>1. CASE q = p
      <4>1. shown[p] \in Seq(Messages) /\ Len(shown[p]) = position[p]
        BY <1>2, <2>2 DEF ReadInv
      <4>2. /\ Len(shown'[p]) = position'[p]
            /\ \A i \in DOMAIN shown'[p] : i \in DOMAIN shown[p] \/ i = position[p] + 1
            /\ \A i \in DOMAIN shown[p] : shown'[p][i] = shown[p][i]
            /\ shown'[p][position[p] + 1] = x
        BY <4>1, <2>4
      <4> QED BY <3>1, <4>2, <1>1, <1>2 DEF ReadInv, serverVars
    <3>2. CASE q # p
      BY <3>2, <2>5, <1>1 DEF PollInv, ReadInv, serverVars
    <3> QED BY <3>1, <3>2
  <2> QED BY <1>4, <2>7, <2>8 DEF PollInv
<1>6. CASE ~(k - 2 * position[p] = 2 /\ x \in Messages)
  <2>1. position' = position /\ shown' = shown
    BY <1>1, <1>6 DEF Evaluate
  <2>2. TypeOK'
    <3>1. arrived \in [Polls -> Nat] /\ arrived' = [arrived EXCEPT ![p] = k]
      BY <1>1, <1>2 DEF TypeOK
    <3>2. ASSUME NEW q \in Polls
          PROVE  arrived'[q] <= 2 * Len(out[q]) /\ 2 * position[q] <= arrived'[q]
      <4>1. CASE q = p
        BY <4>1, <3>1, <1>3
      <4>2. CASE q # p
        BY <4>2, <3>1, <1>2 DEF TypeOK
      <4> QED BY <4>1, <4>2
    <3>3. arrived' \in [Polls -> Nat]
      BY <3>1, <1>3
    <3> QED BY <2>1, <3>2, <3>3, <1>1, <1>2 DEF TypeOK, serverVars
  <2>3. \A q \in Polls : ReadInv(q)'
    BY <2>1, <1>1 DEF PollInv, ReadInv, serverVars
  <2> QED BY <1>4, <2>2, <2>3 DEF PollInv
<1> QED BY <1>5, <1>6

LEMMA NextPollInv == PollInv /\ [Next]_vars => PollInv'
<1> SUFFICES ASSUME PollInv, [Next]_vars PROVE PollInv'
  OBVIOUS
<1>1. ASSUME NEW r \in Rooms, Publish(r) PROVE PollInv'
  BY <1>1 DEF Publish, PollInv, TypeOK, OutInv, ReadInv, browserVars
<1>2. ASSUME NEW p \in Polls, Listen(p) PROVE PollInv'
  <2>1. Start(p) /\ server' = [server EXCEPT ![p] = "listening"] /\ UNCHANGED <<published, out, browserVars>>
    BY <1>2 DEF Listen
  <2> QED BY <2>1, StartSince, SilentStep
<1>3. ASSUME NEW p \in Polls, Fail(p) PROVE PollInv'
  <2>1. Start(p) /\ server' = [server EXCEPT ![p] = "ended"] /\ UNCHANGED <<published, out, browserVars>>
    BY <1>3 DEF Fail
  <2> QED BY <2>1, StartSince, SilentStep
<1>4. ASSUME NEW p \in Polls, Cut(p) PROVE PollInv'
  <2>1. /\ server' = [server EXCEPT ![p] = "cut"] /\ UNCHANGED <<published, out, browserVars>>
        /\ since' = since /\ since \in [Polls -> Nat]
    BY <1>4 DEF Cut, PollInv, TypeOK
  <2> QED BY <2>1, SilentStep
<1>5. ASSUME NEW p \in Polls, Serve(p) PROVE PollInv'
  BY <1>5, WaitReturnsPollInv, WaitClosesPollInv, FinishPollInv DEF Serve
<1>6. CASE UNCHANGED vars
  BY <1>6 DEF vars, serverVars, browserVars, PollInv, TypeOK, OutInv, ReadInv
<1> QED
  BY <1>1, <1>2, <1>3, <1>4, <1>5, <1>6, RefusePollInv, ReadyStateChangePollInv DEF Next

\* Except in an event of its own, a poll neither shows anything nor gets stuck.
LEMMA NotShowing ==
  ASSUME PollInv, Next, NEW p \in Polls, ~ReadyStateChange(p)
  PROVE  shown'[p] = shown[p] /\ (Stuck(p)' <=> Stuck(p))
<1>0. TypeOK
  BY DEF PollInv
<1>1. ASSUME UNCHANGED <<out, browserVars>> PROVE shown'[p] = shown[p] /\ (Stuck(p)' <=> Stuck(p))
  BY <1>1 DEF Stuck, browserVars
<1>2. ASSUME NEW q \in Polls, NEW x \in Objects, NEW phase, Echo(q, x, phase)
      PROVE  shown'[p] = shown[p] /\ (Stuck(p)' <=> Stuck(p))
  <2>1. out' = [out EXCEPT ![q] = Append(out[q], x)] /\ UNCHANGED browserVars
    BY <1>2 DEF Echo
  <2>2. out \in [Polls -> Seq(Objects)]
    BY <1>0 DEF TypeOK, Objects
  <2>3. /\ position[p] \in Nat /\ arrived[p] \in Nat /\ Len(out[p]) \in Nat
        /\ arrived[p] <= 2 * Len(out[p])
    BY <1>0, PositionInOut
  <2>4. ASSUME arrived[p] - 2 * position[p] = 2
        PROVE  out'[p][position[p] + 1] = out[p][position[p] + 1]
    <3>1. position[p] + 1 \in 1..Len(out[p])
      BY <2>3, <2>4
    <3> QED BY <3>1, <2>1, <2>2
  <2> QED BY <2>1, <2>4 DEF Stuck, browserVars
<1>3. ASSUME NEW q \in Polls, Refuse(q) \/ Serve(q)
      PROVE  \E x \in Objects : \E phase \in {"listening", "closed", "ended"} : Echo(q, x, phase)
  <2>1. since[q] + Len(out[q]) + 1 \in Objects
    <3>1. since[q] \in Nat /\ Len(out[q]) \in Nat
      BY <1>0, <1>3, PositionInOut DEF TypeOK
    <3>2. since[q] + Len(out[q]) + 1 \in Nat \ {0}
      BY <3>1
    <3> QED BY <3>2 DEF Objects, Messages
  <2> QED BY <1>3, <2>1, ObjectKinds DEF Refuse, Serve, WaitReturns, WaitCloses, Finish
<1>4. ASSUME NEW r \in Rooms, Publish(r) PROVE UNCHANGED <<out, browserVars>>
  BY <1>4 DEF Publish
<1>5. ASSUME NEW q \in Polls, Listen(q) \/ Fail(q) \/ Cut(q) PROVE UNCHANGED <<out, browserVars>>
  BY <1>5 DEF Listen, Fail, Cut
<1>6. ASSUME NEW q \in Polls, q # p, ReadyStateChange(q)
      PROVE  shown'[p] = shown[p] /\ (Stuck(p)' <=> Stuck(p))
  <2>1. PICK k \in Arrivals(q) :
          arrived' = [arrived EXCEPT ![q] = k] /\ Evaluate(q, k) /\ UNCHANGED serverVars
    BY <1>6 DEF ReadyStateChange
  <2>2. arrived'[p] = arrived[p] /\ position'[p] = position[p] /\ shown'[p] = shown[p]
    BY <1>0, <1>6, <2>1 DEF Evaluate, TypeOK
  <2> QED BY <2>1, <2>2 DEF Stuck, serverVars
<1> QED BY <1>1, <1>2, <1>3, <1>4, <1>5, <1>6 DEF Next

\* An event of a poll shows the next message of its room or nothing.
LEMMA EventStep ==
  ASSUME PollInv, NEW p \in Polls, ReadyStateChange(p)
  PROVE  LET m == since[p] + Len(shown[p]) + 1
         IN \/ /\ shown'[p] = Append(shown[p], m) /\ ~Stuck(p) /\ ~Stuck(p)'
               /\ m \in Messages /\ \E i \in DOMAIN out[p] : out[p][i] = m
            \/ shown'[p] = shown[p] /\ (Stuck(p) => Stuck(p)')
<1> DEFINE x == out[p][position[p] + 1]
<1>1. PICK k \in Arrivals(p) :
        arrived' = [arrived EXCEPT ![p] = k] /\ Evaluate(p, k) /\ UNCHANGED serverVars
  BY DEF ReadyStateChange
<1>2. TypeOK /\ OutInv(p) /\ ReadInv(p)
  BY DEF PollInv
<1>3. /\ k \in Nat /\ arrived[p] < k /\ k <= 2 * Len(out[p])
      /\ 2 * position[p] <= arrived[p]
      /\ position[p] \in Nat /\ arrived[p] \in Nat /\ Len(out[p]) \in Nat
  BY <1>2, PositionInOut DEF Arrivals
<1>4. /\ shown \in [Polls -> Seq(Messages)] /\ position \in [Polls -> Nat]
      /\ arrived \in [Polls -> Nat] /\ arrived'[p] = k /\ out' = out /\ since[p] \in Nat
  BY <1>1, <1>2 DEF TypeOK, serverVars
<1>5. CASE k - 2 * position[p] = 2 /\ x \in Messages
  <2>1. shown'[p] = Append(shown[p], x) /\ position'[p] = position[p] + 1
    BY <1>1, <1>4, <1>5 DEF Evaluate
  <2>2. position[p] + 1 \in 1..Len(out[p])
    BY <1>3, <1>5
  <2>3. position[p] + 1 \in DOMAIN out[p]
    BY <2>2, <1>2 DEF TypeOK
  <2>4. x = since[p] + Len(shown[p]) + 1
    <3>1. x = since[p] + (position[p] + 1)
      BY <2>3, <1>2, <1>5 DEF OutInv
    <3>2. Len(shown[p]) = position[p]
      BY <1>2 DEF ReadInv
    <3> QED BY <3>1, <3>2, <1>3, <1>4
  <2>5. ~Stuck(p) /\ ~Stuck(p)'
    <3>1. arrived[p] - 2 * position[p] < 2
      BY <1>3, <1>5
    <3>2. arrived'[p] - 2 * position'[p] = 0
      BY <1>3, <1>4, <1>5, <2>1
    <3> QED BY <3>1, <3>2, <1>3 DEF Stuck
  <2> QED BY <2>1, <2>3, <2>4, <2>5, <1>5
<1>6. CASE ~(k - 2 * position[p] = 2 /\ x \in Messages)
  <2>1. position' = position /\ shown' = shown
    BY <1>1, <1>6 DEF Evaluate
  <2>2. ASSUME Stuck(p) PROVE Stuck(p)'
    <3>1. arrived[p] - 2 * position[p] >= 2
      BY <2>2, <1>3 DEF Stuck
    <3>2. arrived'[p] - 2 * position'[p] > 2
      BY <3>1, <2>1, <1>3, <1>4
    <3> QED BY <3>2 DEF Stuck
  <2> QED BY <2>1, <2>2
<1> QED BY <1>5, <1>6

-----------------------------------------------------------------------------
(* The theorems.                                                           *)

LEMMA PollInvAlways == Spec => []PollInv
<1> QED BY InitPollInv, NextPollInv, PTL DEF Spec

\* The state of all polls, redis and server.php is of its type: an object is read
\* after it has arrived and arrives after it has been echoed.
THEOREM PollsTypeCorrect == Spec => []TypeOK
<1>1. PollInv => TypeOK
  BY DEF PollInv
<1> QED BY <1>1, PollInvAlways, PTL

\* A poll shows the messages published since it subscribed in the order of the
\* room, each once and without a gap (chat.js:226-231, server.php:52-60).
THEOREM ShownInOrderCorrect == Spec => []ShownInOrder
<1>1. PollInv => ShownInOrder
  <2> SUFFICES ASSUME PollInv, NEW p \in Polls, NEW i \in DOMAIN shown[p]
               PROVE  shown[p][i] = since[p] + i
    BY DEF ShownInOrder
  <2>1. TypeOK /\ OutInv(p) /\ ReadInv(p)
    BY DEF PollInv
  <2>2. shown[p] \in Seq(Messages) /\ Len(shown[p]) = position[p] /\ shown[p][i] = out[p][i]
    BY <2>1 DEF TypeOK, ReadInv
  <2>3. i \in DOMAIN out[p] /\ out[p][i] \in Messages
    <3>1. i \in 1..position[p] /\ out[p] \in Seq(Objects)
      BY <2>1, <2>2 DEF TypeOK, Objects
    <3> QED BY <3>1, <2>1, <2>2, PositionInOut
  <2> QED BY <2>1, <2>2, <2>3 DEF OutInv
<1> QED BY <1>1, PollInvAlways, PTL

\* An object without a message is the end of the answer (server.php:52-60, :98).
THEOREM EndIsLastCorrect == Spec => []EndIsLast
<1>1. PollInv => EndIsLast
  BY DEF PollInv, OutInv, EndIsLast
<1> QED BY <1>1, PollInvAlways, PTL

\* A poll that is stuck stays stuck and shows nothing more (chat.js:226-231).
THEOREM StuckForeverCorrect == Spec => StuckForever
<1> DEFINE Step == \A p \in Polls : Stuck(p) => Stuck(p)' /\ shown'[p] = shown[p]
<1>1. PollInv /\ [Next]_vars => [Step]_vars
  <2> SUFFICES ASSUME PollInv, Next, NEW p \in Polls, Stuck(p)
               PROVE  Stuck(p)' /\ shown'[p] = shown[p]
    BY DEF vars
  <2>1. CASE ReadyStateChange(p)
    BY <2>1, EventStep
  <2>2. CASE ~ReadyStateChange(p)
    BY <2>2, NotShowing
  <2> QED BY <2>1, <2>2
<1>2. []PollInv /\ [][Next]_vars => [][Step]_vars
  BY <1>1, PTL
<1> QED BY <1>2, PollInvAlways DEF Spec, StuckForever

-----------------------------------------------------------------------------
(* A poll implements Subscription.                                         *)

\* What is echoed has been published.
PublishedInv(p) ==
  /\ since[p] <= published[RoomOf[p]]
  /\ \A i \in DOMAIN out[p] : out[p][i] \in Messages => out[p][i] <= published[RoomOf[p]]

ViewInv == PollInv /\ \A p \in Polls : PublishedInv(p)

LEMMA RoomOfPoll == ASSUME NEW p \in Polls PROVE RoomOf[p] \in Rooms
BY RoomOfAssumption

LEMMA InitViewInv == Init => ViewInv
<1> SUFFICES ASSUME Init PROVE ViewInv
  OBVIOUS
<1>1. PollInv
  BY InitPollInv
<1>2. ASSUME NEW p \in Polls PROVE PublishedInv(p)
  BY RoomOfPoll DEF Init, PublishedInv
<1> QED BY <1>1, <1>2 DEF ViewInv

\* Publishing makes what is published more; what is echoed then is published.
LEMMA NextViewInv == ViewInv /\ [Next]_vars => ViewInv'
<1> SUFFICES ASSUME ViewInv, [Next]_vars PROVE ViewInv'
  OBVIOUS
<1>0. PollInv /\ PollInv' /\ TypeOK
  BY NextPollInv DEF ViewInv, PollInv
<1> SUFFICES ASSUME NEW p \in Polls PROVE PublishedInv(p)'
  BY <1>0 DEF ViewInv
<1>1. /\ PublishedInv(p) /\ RoomOf[p] \in Rooms /\ published[RoomOf[p]] \in Nat /\ since[p] \in Nat
      /\ out[p] \in Seq(Objects)
  BY <1>0, RoomOfPoll DEF ViewInv, TypeOK, Objects
<1>2. ASSUME NEW r \in Rooms, Publish(r) PROVE PublishedInv(p)'
  <2>1. published'[RoomOf[p]] >= published[RoomOf[p]] /\ published'[RoomOf[p]] \in Nat
    BY <1>0, <1>1, <1>2 DEF Publish, TypeOK
  <2>2. out' = out /\ since' = since
    BY <1>2 DEF Publish
  <2>3. \A i \in DOMAIN out[p] : out[p][i] \in Messages => out[p][i] <= published'[RoomOf[p]]
    BY <2>1, <1>1 DEF PublishedInv, Messages
  <2>4. since[p] <= published'[RoomOf[p]]
    BY <2>1, <1>1 DEF PublishedInv
  <2> QED BY <2>2, <2>3, <2>4 DEF PublishedInv
<1>3. ASSUME NEW q \in Polls, Start(q), UNCHANGED published PROVE since'[p] <= published'[RoomOf[p]]
  BY <1>0, <1>1, <1>3 DEF Start, TypeOK, PublishedInv
<1>4. ASSUME NEW q \in Polls, NEW x \in Objects, NEW phase, Echo(q, x, phase),
             since'[p] <= published'[RoomOf[p]],
             q = p /\ x \in Messages => x <= published[RoomOf[p]]
      PROVE  PublishedInv(p)'
  <2>1. out' = [out EXCEPT ![q] = Append(out[q], x)] /\ published' = published
    BY <1>4 DEF Echo
  <2>2. out \in [Polls -> Seq(Objects)]
    BY <1>0 DEF TypeOK, Objects
  <2>3. CASE q = p
    <3>1. \A i \in DOMAIN out'[p] : (i \in DOMAIN out[p] /\ out'[p][i] = out[p][i]) \/ out'[p][i] = x
      BY <2>1, <2>2, <2>3
    <3> QED BY <3>1, <2>1, <2>3, <1>1, <1>4 DEF PublishedInv
  <2>4. CASE q # p
    <3>1. out'[p] = out[p]
      BY <2>1, <2>2, <2>4
    <3> QED BY <3>1, <2>1, <1>1, <1>4 DEF PublishedInv
  <2> QED BY <2>3, <2>4
<1>5. ASSUME NEW q \in Polls, Listen(q) \/ Fail(q) PROVE PublishedInv(p)'
  <2>1. Start(q) /\ out' = out /\ published' = published
    BY <1>5 DEF Listen, Fail
  <2> QED BY <2>1, <1>1, <1>3 DEF PublishedInv
<1>6. ASSUME NEW q \in Polls, Refuse(q) PROVE PublishedInv(p)'
  <2>1. Start(q) /\ Echo(q, Response, "ended") /\ published' = published
    BY <1>6 DEF Refuse, Echo
  <2> QED BY <2>1, <1>3, <1>4, ObjectKinds
<1>7. ASSUME NEW q \in Polls, Serve(q) PROVE PublishedInv(p)'
  <2>1. since' = since /\ published' = published
    BY <1>7 DEF Serve, WaitReturns, WaitCloses, Finish, Echo
  <2>2. since'[p] <= published'[RoomOf[p]]
    BY <2>1, <1>1 DEF PublishedInv
  <2>3. CASE WaitReturns(q)
    <3> DEFINE m == since[q] + Len(out[q]) + 1
    <3>1. Echo(q, m, "listening") /\ m <= published[RoomOf[q]]
      BY <2>3 DEF WaitReturns
    <3>2. since[q] \in Nat /\ Len(out[q]) \in Nat
      BY <1>0, PositionInOut DEF TypeOK
    <3>3. m \in Nat \ {0}
      BY <3>2
    <3>4. m \in Objects
      BY <3>3 DEF Objects, Messages
    <3> QED BY <3>1, <3>4, <2>2, <1>4
  <2>4. CASE WaitCloses(q)
    BY <2>4, <2>2, <1>4, ObjectKinds DEF WaitCloses
  <2>5. CASE Finish(q)
    BY <2>5, <2>2, <1>4, ObjectKinds DEF Finish
  <2> QED BY <1>7, <2>3, <2>4, <2>5 DEF Serve
<1>8. ASSUME NEW q \in Polls, Cut(q) \/ ReadyStateChange(q) PROVE PublishedInv(p)'
  BY <1>1, <1>8 DEF Cut, ReadyStateChange, serverVars, PublishedInv
<1>9. CASE UNCHANGED vars
  BY <1>9, <1>1 DEF vars, serverVars, PublishedInv
<1> QED BY <1>2, <1>5, <1>6, <1>7, <1>8, <1>9 DEF Next

\* What a poll is owed, seen as a sequence.
LEMMA SinceListeningIs ==
  ASSUME ViewInv, NEW p \in Polls
  PROVE  LET n == published[RoomOf[p]] - since[p]
         IN IF server[p] = "none" THEN SinceListening(p) = <<>>
            ELSE /\ n \in Nat /\ Len(SinceListening(p)) = n
                 /\ SinceListening(p) = [i \in 1..n |-> since[p] + i]
<1>1. since[p] \in Nat /\ published[RoomOf[p]] \in Nat /\ since[p] <= published[RoomOf[p]]
  BY RoomOfPoll DEF ViewInv, PollInv, TypeOK, PublishedInv
<1>2. published[RoomOf[p]] - since[p] \in Nat
  BY <1>1
<1> QED BY <1>2 DEF SinceListening

LEMMA PublishStep ==
  ASSUME ViewInv, NEW p \in Polls, NEW r \in Rooms, Publish(r)
  PROVE  /\ SinceListening(p)' = SinceListening(p)
            \/ /\ Len(SinceListening(p)') = Len(SinceListening(p)) + 1
               /\ SubSeq(SinceListening(p)', 1, Len(SinceListening(p))) = SinceListening(p)
<1> DEFINE n == published[RoomOf[p]] - since[p]
<1>1. /\ published' = [published EXCEPT ![r] = published[r] + 1]
      /\ server' = server /\ since' = since
  BY DEF Publish
<1>2. published \in [Rooms -> Nat] /\ RoomOf[p] \in Rooms /\ since[p] \in Nat
  BY RoomOfPoll DEF ViewInv, PollInv, TypeOK
<1>3. CASE server[p] = "none" \/ r # RoomOf[p]
  <2>1. CASE server[p] = "none"
    BY <2>1, <1>1 DEF SinceListening
  <2>2. CASE r # RoomOf[p]
    BY <2>2, <1>1, <1>2 DEF SinceListening
  <2> QED BY <1>3, <2>1, <2>2
<1>4. CASE server[p] # "none" /\ r = RoomOf[p]
  <2>1. /\ n \in Nat /\ Len(SinceListening(p)) = n
        /\ SinceListening(p) = [i \in 1..n |-> since[p] + i]
    BY <1>4, SinceListeningIs
  <2>2. published'[RoomOf[p]] - since'[p] = n + 1
    BY <1>1, <1>2, <1>4
  <2>3. SinceListening(p)' = [i \in 1..(n + 1) |-> since[p] + i]
    BY <2>2, <1>1, <1>4 DEF SinceListening
  <2>4. Len(SinceListening(p)') = n + 1
    BY <2>1, <2>3
  <2>5. SubSeq(SinceListening(p)', 1, n) = [i \in 1..n |-> since[p] + i]
    BY <2>1, <2>3, <2>4
  <2> QED BY <2>1, <2>4, <2>5
<1> QED BY <1>3, <1>4

\* Nothing but Publish changes what a poll is owed.
LEMMA NothingOwed ==
  ASSUME ViewInv, ViewInv', NEW p \in Polls, Next, ~(\E r \in Rooms : Publish(r))
  PROVE  SinceListening(p)' = SinceListening(p)
<1>1. published' = published
  BY DEF Next, Listen, Refuse, Fail, Serve, WaitReturns, WaitCloses, Finish, Echo, Cut,
         ReadyStateChange, serverVars
<1>2. server \in [Polls -> {"none", "listening", "closed", "ended", "cut"}] /\ since \in [Polls -> Nat]
  BY DEF ViewInv, PollInv, TypeOK
<1>3. CASE server[p] = "none"
  <2>1. server'[p] = "none" \/ since'[p] = published[RoomOf[p]]
    <3>1. ASSUME NEW q \in Polls, Start(q) PROVE q = p => since'[p] = published[RoomOf[p]]
      BY <3>1, <1>2 DEF Start
    <3>2. ASSUME NEW q \in Polls, q # p, Listen(q) \/ Refuse(q) \/ Fail(q) PROVE server'[p] = "none"
      BY <3>2, <1>2, <1>3 DEF Listen, Refuse, Fail, Echo
    <3>3. ASSUME NEW q \in Polls, Serve(q) \/ Cut(q) PROVE server'[p] = "none"
      BY <3>3, <1>2, <1>3 DEF Serve, WaitReturns, WaitCloses, Finish, Echo, Cut
    <3>4. ASSUME NEW q \in Polls, ReadyStateChange(q) PROVE server'[p] = "none"
      BY <3>4, <1>3 DEF ReadyStateChange, serverVars
    <3> QED BY <3>1, <3>2, <3>3, <3>4 DEF Next, Listen, Refuse, Fail
  <2>2. CASE server'[p] = "none"
    BY <2>2, <1>3 DEF SinceListening
  <2>3. CASE server'[p] # "none"
    <3>1. since'[p] = published'[RoomOf[p]] /\ since'[p] \in Nat
      BY <2>1, <2>3, <1>1 DEF ViewInv, PollInv, TypeOK
    <3>2. published'[RoomOf[p]] - since'[p] = 0
      BY <3>1
    <3> QED BY <3>2, <1>3 DEF SinceListening
  <2> QED BY <2>2, <2>3
<1>4. CASE server[p] # "none"
  <2>1. server'[p] # "none" /\ since'[p] = since[p]
    <3>1. ASSUME NEW q \in Polls, Listen(q) \/ Refuse(q) \/ Fail(q)
          PROVE  server'[p] # "none" /\ since'[p] = since[p]
      BY <3>1, <1>2, <1>4 DEF Listen, Refuse, Fail, Start, Echo
    <3>2. ASSUME NEW q \in Polls, Serve(q) \/ Cut(q)
          PROVE  server'[p] # "none" /\ since'[p] = since[p]
      BY <3>2, <1>2, <1>4 DEF Serve, WaitReturns, WaitCloses, Finish, Echo, Cut
    <3>3. ASSUME NEW q \in Polls, ReadyStateChange(q)
          PROVE  server'[p] # "none" /\ since'[p] = since[p]
      BY <3>3, <1>4 DEF ReadyStateChange, serverVars
    <3> QED BY <3>1, <3>2, <3>3 DEF Next
  <2> QED BY <2>1, <1>1, <1>4 DEF SinceListening
<1> QED BY <1>3, <1>4

\* A poll keeps for its window the promise its channel keeps for server.php: the
\* messages published since it listens, each once and in order, until it is stuck
\* (chat.js:217-258, server.php:42-61).
THEOREM PollsImplementSubscription == Spec => ImplementsSubscription
<1> DEFINE Step == \A p \in Polls : [View(p)!Next]_(View(p)!vars)
<1>1. Init => \A p \in Polls : View(p)!Init
  <2> SUFFICES ASSUME Init, NEW p \in Polls PROVE View(p)!Init
    OBVIOUS
  <2>1. SinceListening(p) = <<>>
    BY DEF Init, SinceListening
  <2> QED BY <2>1 DEF View!Init, Init, Stuck
<1>2. ViewInv /\ ViewInv' /\ [Next]_vars => [Step]_vars
  <2> SUFFICES ASSUME ViewInv, ViewInv', Next, NEW p \in Polls
               PROVE  [View(p)!Next]_(View(p)!vars)
    BY DEF vars
  <2>0. PollInv /\ TypeOK
    BY DEF ViewInv, PollInv
  <2>1. CASE \E r \in Rooms : Publish(r)
    <3>1. PICK r \in Rooms : Publish(r)
      BY <2>1
    <3>2. shown' = shown /\ (Stuck(p)' <=> Stuck(p))
      BY <3>1 DEF Publish, browserVars, Stuck
    <3> QED BY <3>1, <3>2, PublishStep DEF View!Next, View!Publish, View!vars
  <2>2. CASE ~(\E r \in Rooms : Publish(r)) /\ ~ReadyStateChange(p)
    BY <2>0, <2>2, NothingOwed, NotShowing DEF View!vars
  <2>3. CASE ~(\E r \in Rooms : Publish(r)) /\ ReadyStateChange(p)
    <3> DEFINE m == since[p] + Len(shown[p]) + 1
    <3>1. SinceListening(p)' = SinceListening(p)
      BY <2>3, NothingOwed
    <3>2. CASE shown'[p] = shown[p] /\ (Stuck(p) => Stuck(p)')
      BY <3>1, <3>2 DEF View!Next, View!End, View!vars
    <3>3. CASE /\ shown'[p] = Append(shown[p], m) /\ ~Stuck(p) /\ ~Stuck(p)'
               /\ m \in Messages /\ \E i \in DOMAIN out[p] : out[p][i] = m
      <4>1. m <= published[RoomOf[p]] /\ server[p] # "none"
        BY <3>3, <2>0 DEF ViewInv, PollInv, PublishedInv, OutInv
      <4>2. /\ published[RoomOf[p]] - since[p] \in Nat
            /\ Len(SinceListening(p)) = published[RoomOf[p]] - since[p]
            /\ SinceListening(p) = [i \in 1..(published[RoomOf[p]] - since[p]) |-> since[p] + i]
        BY <4>1, SinceListeningIs
      <4>3. since[p] \in Nat /\ Len(shown[p]) \in Nat /\ published[RoomOf[p]] \in Nat
        BY <2>0, RoomOfPoll DEF TypeOK
      <4>4. /\ Len(shown[p]) < Len(SinceListening(p))
            /\ SinceListening(p)[Len(shown[p]) + 1] = m
        BY <4>1, <4>2, <4>3
      <4> QED BY <3>1, <3>3, <4>4 DEF View!Next, View!Receive
    <3> QED BY <2>0, <2>3, <3>2, <3>3, EventStep
  <2> QED BY <2>1, <2>2, <2>3
<1>3. Spec => []ViewInv
  BY InitViewInv, NextViewInv, PTL DEF Spec
<1>4. []ViewInv /\ [][Next]_vars => [][Step]_vars
  BY <1>2, PTL
<1> QED BY <1>1, <1>3, <1>4 DEF Spec, ImplementsSubscription
===============================================================================
