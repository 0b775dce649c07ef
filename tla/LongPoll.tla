------------------------------- MODULE LongPoll -------------------------------
(***************************************************************************)
(* The long polls of the chat example: each is one request of a browser    *)
(* window that examples/chat/server.php answers with a JSON object for     *)
(* every message of a room, for as long as its RedisChannel lives, and     *)
(* that LongPoll in examples/chat/chat.js reads as the answer grows.       *)
(*                                                                         *)
(* A message is its number in its room.  The answer is a sequence of       *)
(* objects; how much of it has arrived is counted in half objects, so that *)
(* an event may find an object that is not complete.                       *)
(***************************************************************************)
EXTENDS Integers, Sequences

CONSTANTS
  Polls,       \* the polls of all windows
  Rooms,       \* the rooms they listen to
  RoomOf,      \* RoomOf[p]: the room of poll p
  Merging,     \* polls whose objects may arrive several at a time
  MaxMessages  \* bound on the messages of one room

ASSUME RoomOfAssumption == RoomOf \in [Polls -> Rooms]
ASSUME MergingAssumption == Merging \subseteq Polls
ASSUME MaxMessagesAssumption == MaxMessages \in Nat

VARIABLES
  published, \* number of messages published to each room
  server,    \* where the server.php process of each poll is
  since,     \* number of messages of the room before the poll subscribed
  out,       \* objects the process has echoed
  arrived,   \* half objects in responseText
  position,  \* objects before "length", the read position of the transport
  shown      \* messages the poll has written to the window

serverVars == <<published, server, since, out>>
browserVars == <<arrived, position, shown>>
vars == <<serverVars, browserVars>>

NoData == 0          \* an object whose data is NULL
Response == -1       \* the object at the end of server.php, without data
Messages == Nat \ {0}

TypeOK ==
  /\ published \in [Rooms -> Nat]
  /\ server \in [Polls -> {"none", "listening", "closed", "ended", "cut"}]
  /\ since \in [Polls -> Nat]
  /\ out \in [Polls -> Seq(Messages \cup {NoData, Response})]
  /\ arrived \in [Polls -> Nat] /\ \A p \in Polls : arrived[p] <= 2 * Len(out[p])
  /\ position \in [Polls -> Nat] /\ \A p \in Polls : 2 * position[p] <= arrived[p]
  /\ shown \in [Polls -> Seq(Messages)]

Init ==
  /\ published = [r \in Rooms |-> 0]
  /\ server = [p \in Polls |-> "none"]
  /\ since = [p \in Polls |-> 0]
  /\ out = [p \in Polls |-> <<>>]
  /\ arrived = [p \in Polls |-> 0]
  /\ position = [p \in Polls |-> 0]
  /\ shown = [p \in Polls |-> <<>>]

-----------------------------------------------------------------------------
(* server.php and its RedisChannel.  The channel keeps what Subscription    *)
(* promises: each message once and in order, until it is closed.            *)

Publish(r) ==
  /\ published[r] < MaxMessages
  /\ published' = [published EXCEPT ![r] = @ + 1]
  /\ UNCHANGED <<server, since, out, browserVars>>

\* The process echoes object x and goes on to phase.
Echo(p, x, phase) ==
  /\ out' = [out EXCEPT ![p] = Append(@, x)]
  /\ server' = [server EXCEPT ![p] = phase]
  /\ UNCHANGED <<published, browserVars>>

Start(p) ==
  /\ server[p] = "none"
  /\ since' = [since EXCEPT ![p] = published[RoomOf[p]]]

Listen(p) ==
  /\ Start(p)
  /\ server' = [server EXCEPT ![p] = "listening"]
  /\ UNCHANGED <<published, out, browserVars>>

\* No connection to redis: respond() echoes an error and dies.
Refuse(p) == Start(p) /\ Echo(p, Response, "ended")

\* SUBSCRIBE throws: nothing catches it and display_errors is off.
Fail(p) ==
  /\ Start(p)
  /\ server' = [server EXCEPT ![p] = "ended"]
  /\ UNCHANGED <<published, out, browserVars>>

\* Mutant: an object stays in the output buffer until there is another one.
WaitReturns_NotFlushed(p) ==
  LET m == since[p] + Len(out[p]) + 1
  IN /\ server[p] = "listening" /\ m < published[RoomOf[p]]
     /\ Echo(p, m, "listening") /\ UNCHANGED since

WaitReturns(p) ==
  LET m == since[p] + Len(out[p]) + 1
  IN /\ server[p] = "listening" /\ m <= published[RoomOf[p]]
     /\ Echo(p, m, "listening") /\ UNCHANGED since

\* Mutant: a wait() that timed out returns NULL and leaves the channel open.
WaitCloses_Restarts(p) ==
  server[p] = "listening" /\ Echo(p, NoData, "listening") /\ UNCHANGED since

\* wait() has closed the channel and returns NULL, which is echoed as data.
WaitCloses(p) ==
  server[p] = "listening" /\ Echo(p, NoData, "closed") /\ UNCHANGED since

Finish(p) == server[p] = "closed" /\ Echo(p, Response, "ended") /\ UNCHANGED since

\* The process ends at its next echo, the browser sees the end of the answer.
Cut(p) ==
  /\ server[p] \notin {"none", "cut"}
  /\ server' = [server EXCEPT ![p] = "cut"]
  /\ UNCHANGED <<published, since, out, browserVars>>

-----------------------------------------------------------------------------
(* onreadystatechange.                                                     *)

\* Where responseText may end at the next event that finds more of it: after a
\* piece of an object, after the object, or, where they merge, anywhere.
Arrivals(p) ==
  {k \in (arrived[p] + 1)..(2 * Len(out[p])) :
     p \notin Merging => k <= 2 * (arrived[p] \div 2) + 2}

\* Mutant: the read position is moved before the text is evaluated.
Evaluate_MovesFirst(p, k) ==
  LET unread == k - 2 * position[p]
      x == out[p][position[p] + 1]
  IN /\ position' = [position EXCEPT ![p] = k \div 2]
     /\ shown' = IF unread = 2 /\ x \in Messages THEN [shown EXCEPT ![p] = Append(@, x)] ELSE shown

\* Mutant: only the last object of the text is evaluated.
Evaluate_LastObject(p, k) ==
  LET x == out[p][k \div 2]
  IN IF k % 2 = 0 /\ x \in Messages
     THEN /\ shown' = [shown EXCEPT ![p] = Append(@, x)]
          /\ position' = [position EXCEPT ![p] = k \div 2]
     ELSE UNCHANGED <<position, shown>>

\* Mutant: "length" belongs to the transport, all requests share it.
Evaluate_SharedLength(p, k) ==
  LET x == out[p][position[p] + 1]
  IN IF k - 2 * position[p] = 2 /\ x \in Messages
     THEN /\ shown' = [shown EXCEPT ![p] = Append(@, x)]
          /\ position' = [q \in Polls |-> k \div 2]
     ELSE UNCHANGED <<position, shown>>

\* Mutant: the read position is not moved.
Evaluate_StaysBehind(p, k) ==
  LET x == out[p][position[p] + 1]
  IN /\ shown' = IF k - 2 * position[p] = 2 /\ x \in Messages
                 THEN [shown EXCEPT ![p] = Append(@, x)] ELSE shown
     /\ UNCHANGED position

\* eval() takes one complete object: less or more of the answer than that is a
\* syntax error.  The handler throws on an object without data.  Only when
\* nothing was thrown the read position is moved.
Evaluate(p, k) ==
  LET unread == k - 2 * position[p]
      x == out[p][position[p] + 1]
  IN IF unread = 2 /\ x \in Messages
     THEN /\ shown' = [shown EXCEPT ![p] = Append(@, x)]
          /\ position' = [position EXCEPT ![p] = @ + 1]
     ELSE UNCHANGED <<position, shown>>

\* An event that finds nothing more than the last one does what that one did,
\* which is nothing: only what arrives makes a difference.
ReadyStateChange(p) ==
  /\ server[p] # "cut"
  /\ \E k \in Arrivals(p) :
       /\ arrived' = [arrived EXCEPT ![p] = k]
       /\ Evaluate(p, k)
  /\ UNCHANGED serverVars

-----------------------------------------------------------------------------
Serve(p) == WaitReturns(p) \/ WaitCloses(p) \/ Finish(p)

Next ==
  \/ \E r \in Rooms : Publish(r)
  \/ \E p \in Polls : Listen(p) \/ Refuse(p) \/ Fail(p) \/ Serve(p) \/ Cut(p) \/ ReadyStateChange(p)

Spec == Init /\ [][Next]_vars

\* What redis has sent is returned by wait() and echoed, and what is echoed and
\* flushed arrives.
LiveSpec ==
  /\ Spec
  /\ \A p \in Polls : WF_vars(WaitReturns(p) \/ Finish(p)) /\ WF_vars(ReadyStateChange(p))

-----------------------------------------------------------------------------
(* Properties.                                                             *)

\* Whatever arrives together or in pieces, and whatever ends, a poll has written
\* the messages published since it subscribed, each once, in the order of the
\* room and without a gap (chat.js:226-231, server.php:52-60).
ShownInOrder ==
  \A p \in Polls : \A i \in DOMAIN shown[p] : shown[p][i] = since[p] + i

\* An object without a message is the end of the answer: only the response at
\* the end of server.php comes after the NULL, and nothing after that
\* (server.php:52-60, :98).
EndIsLast ==
  \A p \in Polls : \A i \in DOMAIN out[p] :
    /\ out[p][i] = NoData => i >= Len(out[p]) - 1
    /\ out[p][i] = Response => i = Len(out[p])

\* What is unread is more than one object, or an object without a message.
Stuck(p) ==
  LET unread == arrived[p] - 2 * position[p]
  IN unread > 2 \/ (unread = 2 /\ out[p][position[p] + 1] \notin Messages)

\* A poll that has missed the border between two objects shows nothing any more:
\* the text it could not evaluate is in front of all that follows, and nothing
\* starts the poll again (chat.js:226-231, :248).
StuckForever ==
  [][\A p \in Polls : Stuck(p) => Stuck(p)' /\ shown'[p] = shown[p]]_vars

\* Every message published while the poll listens is shown in the end, unless
\* the poll gets stuck on what arrived together or its connection or its channel
\* ends (chat.js:225-233, server.php:52-60).
PublishedIsShown ==
  \A p \in Polls : \A m \in 1..MaxMessages :
    (server[p] = "listening" /\ m \in (since[p] + 1)..published[RoomOf[p]])
      ~> (\E i \in DOMAIN shown[p] : shown[p][i] = m) \/ Stuck(p) \/ server[p] # "listening"

\* When objects arrive one at a time, whole or after a piece, every message echoed
\* before the channel ended is shown in the end: the NULL that makes the handler
\* throw comes too late to hide one (server.php:54, chat.js:103).
EchoedIsShown ==
  \A p \in Polls \ Merging : \A m \in 1..MaxMessages :
    (\E i \in DOMAIN out[p] : out[p][i] = m)
      ~> (\E i \in DOMAIN shown[p] : shown[p][i] = m) \/ server[p] = "cut"

\* A poll keeps for its window the promise its channel keeps for server.php: the
\* messages published since it listens, each once and in order, until it is
\* stuck (chat.js:217-258, server.php:42-61).
SinceListening(p) ==
  [i \in 1..(IF server[p] = "none" THEN 0 ELSE published[RoomOf[p]] - since[p]) |-> since[p] + i]

View(p) == INSTANCE Subscription WITH
  published <- SinceListening(p), received <- shown[p], open <- ~Stuck(p)

ImplementsSubscription ==
  /\ \A p \in Polls : View(p)!Init
  /\ [][\A p \in Polls : [View(p)!Next]_(View(p)!vars)]_vars
===============================================================================
