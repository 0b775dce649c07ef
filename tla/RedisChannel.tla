----------------------------- MODULE RedisChannel -----------------------------
(***************************************************************************)
(* RedisChannel (library/RedisClient.php): the object a SUBSCRIBE returns. *)
(* It copies address, socket and the connected flag of the client it came  *)
(* from, so client and channels share one socket and each has its own idea *)
(* of whether it is open.                                                  *)
(*                                                                         *)
(* Replies are read whole here; how one is read line by line, and what may *)
(* go wrong in it, is the subject of RedisConnection.                      *)
(***************************************************************************)
EXTENDS Integers, Sequences, FiniteSets

CONSTANTS
  Channels,     \* names of redis channels
  Programs,     \* calls the program may make, see AllCalls
  MayTimeout,   \* TRUE iff no reply may come within the read timeout
  MayDrop,      \* TRUE iff the server may close the connection on its own
  MaxObjects,   \* bound on the RedisChannel objects made
  MaxMessages,  \* bound on the messages published to the connection
  MaxCalls      \* bound on the calls other than wait()

\* "one" and "two" are SUBSCRIBE calls on the client with that many names,
\* "more" and "fewer" SUBSCRIBE and UNSUBSCRIBE on a channel object, "client" any
\* other command on the client, "quit" QUIT, "close" and "open" close() and
\* open() on either.
AllCalls == {"one", "two", "more", "fewer", "client", "quit", "close", "open"}

ASSUME ChannelsAssumption == IsFiniteSet(Channels)
ASSUME ProgramsAssumption == Programs \subseteq AllCalls
ASSUME ChannelFlagsAssumption == MayTimeout \in BOOLEAN /\ MayDrop \in BOOLEAN
ASSUME ChannelBoundsAssumption ==
  MaxObjects \in Nat /\ MaxMessages \in Nat /\ MaxCalls \in Nat

VARIABLES
  connected,  \* the $connected flags: of the client at 1, then of each channel
  stale,      \* the objects whose copy is of a socket closed before the last open()
  socket,     \* the socket the others share: "open" or "closed"
  peer,       \* TRUE iff the server holds its end
  subscribed, \* channels the server has this connection subscribed to
  toServer,   \* requests not yet executed
  toClient,   \* replies and messages not yet read
  reading,    \* the read() in progress: the object it is on and what it is for
  returned,   \* history: what wait() has returned, in order, since the last open()
  swallowed,  \* history: messages read as the answer to another call, since then
  published,  \* history: ids of the messages sent to this connection
  calls       \* number of calls other than wait()

connVars == <<connected, stale, socket, peer>>
serverVars == <<subscribed, toServer, toClient, published>>
readVars == <<reading, returned, swallowed>>
vars == <<connVars, serverVars, readVars, calls>>

Client == 1
Objects == DOMAIN connected
ChannelObjects == Objects \ {Client}

Verbs == {"SUBSCRIBE", "UNSUBSCRIBE", "other"}
Kinds == {"subscribe", "unsubscribe", "message", "status", "error"}
Purposes == {"none", "construct", "wait", "call"}
Item == [kind : Kinds, id : Nat]
NotReading == [object |-> 0, purpose |-> "none"]

TypeOK ==
  /\ connected \in Seq(BOOLEAN) /\ Len(connected) \in 1..(MaxObjects + 1)
  /\ stale \subseteq Objects
  /\ socket \in {"open", "closed"} /\ peer \in BOOLEAN
  /\ subscribed \subseteq Channels
  /\ toServer \in Seq([verb : Verbs, names : SUBSET Channels])
  /\ toClient \in Seq(Item)
  /\ reading \in [object : Objects, purpose : Purposes \ {"none"}] \cup {NotReading}
  /\ returned \in Seq(Item) /\ swallowed \in Seq(Item) /\ published \in Seq(Nat)
  /\ calls \in 0..MaxCalls

\* A client that RedisClient::open has connected.
Init ==
  /\ connected = <<TRUE>> /\ stale = {} /\ socket = "open" /\ peer = TRUE
  /\ subscribed = {} /\ toServer = <<>> /\ toClient = <<>> /\ published = <<>>
  /\ reading = NotReading /\ returned = <<>> /\ swallowed = <<>> /\ calls = 0

-----------------------------------------------------------------------------
(* Calls that send a request and then read one reply.                      *)

Idle == reading = NotReading

Send(o, verb, names, purpose) ==
  /\ Idle /\ calls < MaxCalls /\ connected[o]
  /\ calls' = calls + 1
  /\ toServer' = IF peer /\ o \notin stale THEN Append(toServer, [verb |-> verb, names |-> names]) ELSE toServer
  /\ reading' = [object |-> o, purpose |-> purpose]
  /\ UNCHANGED <<connVars, subscribed, toClient, published, returned, swallowed>>

\* send() of a persistent command ends in the constructor of RedisChannel, on
\* the client as well as on a channel object.
Subscribe(o, names) ==
  /\ Len(connected) <= MaxObjects
  /\ Send(o, "SUBSCRIBE", names, "construct")

Unsubscribe(o, names) == Send(o, "UNSUBSCRIBE", names, "call")

OtherCall == Send(Client, "other", {}, "call")

\* wait() on a closed channel returns NULL and does nothing else.
Wait(o) ==
  /\ Idle /\ connected[o]
  /\ reading' = [object |-> o, purpose |-> "wait"]
  /\ UNCHANGED <<connVars, serverVars, returned, swallowed, calls>>

-----------------------------------------------------------------------------
(* close(), by the program or in wait(), and open().                       *)

\* Mutant: the result of fclose() is not looked at.
CloseSocket_Unchecked(o) ==
  /\ connected' = [connected EXCEPT ![o] = FALSE]
  /\ socket' = "closed" /\ peer' = FALSE
  /\ subscribed' = {} /\ toServer' = <<>> /\ toClient' = <<>>
  /\ UNCHANGED stale

\* fclose() of a socket that another object has closed fails: the exception
\* CouldNotClose leaves the flag as it was.
CloseSocket(o) ==
  IF socket = "open" /\ o \notin stale
  THEN /\ connected' = [connected EXCEPT ![o] = FALSE]
       /\ socket' = "closed" /\ peer' = FALSE
       /\ subscribed' = {} /\ toServer' = <<>> /\ toClient' = <<>>
       /\ UNCHANGED stale
  ELSE UNCHANGED <<connVars, subscribed, toServer, toClient>>

Close(o) ==
  /\ Idle /\ calls < MaxCalls /\ connected[o]
  /\ calls' = calls + 1
  /\ CloseSocket(o)
  /\ UNCHANGED <<published, readVars>>

\* send() closes the client behind a QUIT, whatever fwrite() has come to; a
\* channel object refuses QUIT.
Quit == Close(Client)

\* The object gets a socket of its own. Those it shared the old one with are not
\* told: they keep the closed one, and a flag that says they are connected. (An
\* open() that fails leaves all as it was.)
Open(o) ==
  /\ Idle /\ calls < MaxCalls /\ ~connected[o]
  /\ calls' = calls + 1
  /\ connected' = [connected EXCEPT ![o] = TRUE]
  /\ stale' = Objects \ {o}
  /\ socket' = "open" /\ peer' = TRUE
  /\ subscribed' = {} /\ toServer' = <<>> /\ toClient' = <<>>
  /\ published' = <<>> /\ returned' = <<>> /\ swallowed' = <<>>
  /\ UNCHANGED reading

-----------------------------------------------------------------------------
(* The end of a read().                                                    *)

\* Mutant: the constructor does not keep what it reads.
Construct_LeavesReply(item) ==
  connected' = Append(connected, TRUE) /\ UNCHANGED <<stale, toClient, swallowed, returned>>

\* Mutant: one object for each confirmation that has come.
Construct_ForEach(item) ==
  /\ connected' = connected \o [i \in DOMAIN toClient |-> TRUE]
  /\ toClient' = <<>> /\ UNCHANGED <<stale, swallowed, returned>>

\* The constructor takes whatever it read for the confirmation ("assume its
\* correct for now").
Construct(item) ==
  /\ connected' = Append(connected, TRUE)
  /\ toClient' = Tail(toClient)
  /\ swallowed' = IF item.kind = "message" THEN Append(swallowed, item) ELSE swallowed
  /\ UNCHANGED <<stale, returned>>

\* An error reply to a call, or in place of a confirmation, is thrown on.
CallReturns(item) ==
  /\ toClient' = Tail(toClient)
  /\ swallowed' = IF item.kind = "message" THEN Append(swallowed, item) ELSE swallowed
  /\ UNCHANGED <<connected, stale, returned>>

\* Mutant: the loop of wait() goes on without returning what it has read.
WaitReturns_Nothing(item) ==
  toClient' = Tail(toClient) /\ UNCHANGED <<connected, stale, returned, swallowed>>

WaitReturns(item) ==
  /\ toClient' = Tail(toClient)
  /\ returned' = Append(returned, item)
  /\ UNCHANGED <<connected, stale, swallowed>>

ReadItem ==
  /\ reading # NotReading /\ reading.object \notin stale /\ toClient # <<>>
  /\ LET item == Head(toClient)
     IN CASE reading.purpose = "wait" /\ item.kind # "error" ->
               /\ WaitReturns(item)
               /\ UNCHANGED <<socket, peer, subscribed, toServer>>
          [] reading.purpose = "wait" /\ item.kind = "error" ->
               CloseSocket(reading.object) /\ UNCHANGED <<returned, swallowed>>
          [] reading.purpose = "construct" /\ item.kind # "error" ->
               /\ Construct(item)
               /\ UNCHANGED <<socket, peer, subscribed, toServer>>
          [] OTHER -> CallReturns(item) /\ UNCHANGED <<socket, peer, subscribed, toServer>>
  /\ reading' = NotReading
  /\ UNCHANGED <<published, calls>>

\* Mutant: wait() starts over when it has caught an exception.
WaitFails_Retries == reading' = reading /\ UNCHANGED vars

\* wait() catches every exception and closes; its loop ends there, by the flag
\* or by the exception of close().
WaitFails ==
  /\ CloseSocket(reading.object)
  /\ reading' = NotReading

\* fgets() returns FALSE.
ReadFails ==
  /\ IF reading.purpose = "wait" THEN WaitFails
     ELSE reading' = NotReading /\ UNCHANGED <<connVars, subscribed, toServer, toClient>>
  /\ UNCHANGED <<published, returned, swallowed, calls>>

\* A closed socket reads as one the server has closed.
ReadEOF ==
  /\ reading # NotReading
  /\ reading.object \in stale \/ (~peer /\ toClient = <<>>)
  /\ ReadFails

ReadTimeout ==
  /\ reading # NotReading /\ reading.object \notin stale /\ peer /\ MayTimeout
  /\ ReadFails

-----------------------------------------------------------------------------
(* The server, modelled from what the client expects of it.                *)

Reply(kind) == [kind |-> kind, id |-> 0]
Replies(kind, n) == [i \in 1..n |-> Reply(kind)]

\* One confirmation for each name; anything else is refused while subscribed.
Serve ==
  /\ toServer # <<>>
  /\ toServer' = Tail(toServer)
  /\ LET request == Head(toServer)
         n == Cardinality(request.names)
     IN CASE request.verb = "SUBSCRIBE" ->
               /\ subscribed' = subscribed \cup request.names
               /\ toClient' = toClient \o Replies("subscribe", n)
          [] request.verb = "UNSUBSCRIBE" ->
               /\ subscribed' = subscribed \ request.names
               /\ toClient' = toClient \o Replies("unsubscribe", n)
          [] OTHER ->
               /\ toClient' = Append(toClient, Reply(IF subscribed = {} THEN "status" ELSE "error"))
               /\ UNCHANGED subscribed
  /\ UNCHANGED <<connVars, published, readVars, calls>>

Publish ==
  /\ peer /\ subscribed # {} /\ Len(published) < MaxMessages
  /\ LET m == Len(published) + 1
     IN /\ published' = Append(published, m)
        /\ toClient' = Append(toClient, [kind |-> "message", id |-> m])
  /\ UNCHANGED <<connVars, subscribed, toServer, readVars, calls>>

Drop ==
  /\ MayDrop /\ peer
  /\ peer' = FALSE /\ subscribed' = {} /\ toServer' = <<>>
  /\ \E k \in 0..Len(toClient) : toClient' = SubSeq(toClient, 1, k)
  /\ UNCHANGED <<connected, stale, socket, published, readVars, calls>>

-----------------------------------------------------------------------------
Read == ReadItem \/ ReadEOF \/ ReadTimeout

Program ==
  \/ "one" \in Programs /\ \E c \in Channels : Subscribe(Client, {c})
  \/ "two" \in Programs /\ \E c, d \in Channels : c # d /\ Subscribe(Client, {c, d})
  \/ "client" \in Programs /\ OtherCall
  \/ "quit" \in Programs /\ Quit
  \/ "close" \in Programs /\ \E o \in Objects : Close(o)
  \/ "open" \in Programs /\ \E o \in Objects : Open(o)
  \/ \E o \in ChannelObjects :
       \/ Wait(o)
       \/ "more" \in Programs /\ \E c \in Channels : Subscribe(o, {c})
       \/ "fewer" \in Programs /\ \E c \in Channels : Unsubscribe(o, {c})

Next == Program \/ Read \/ Serve \/ Publish \/ Drop

Spec == Init /\ [][Next]_vars

\* fgets() has a time limit, so a read() ends.
LiveSpec == Spec /\ WF_vars(Read)

\* The loop of examples/chat/server.php:52 and examples/pubsub.php:30: wait
\* while the channel is connected.
ListenerSpec == LiveSpec /\ \A o \in 2..(MaxObjects + 1) : WF_vars(o \in Objects /\ Wait(o))

-----------------------------------------------------------------------------
(* Properties.                                                             *)

\* Among the objects that share a socket exactly one knows that it is closed,
\* the one that closed it: every other close() fails and leaves its flag TRUE,
\* whether the program calls it or wait() does. Those left on a closed socket by
\* an open() of that one never learn of it (RedisClient.php:37-65, :269-275).
ExactlyOneKnows ==
  IF socket = "open" THEN \A o \in Objects : connected[o]
  ELSE \E o \in Objects \ stale : \A p \in Objects : connected[p] <=> p # o

Messages(items) == {items[i].id : i \in {j \in DOMAIN items : items[j].kind = "message"}}

\* While a connection lives, every message sent to it is still unread, was
\* returned by wait(), or was swallowed by another call: one of them, and no
\* message overtakes another on the way to wait() (RedisClient.php:276-297).
EveryMessageOnce ==
  /\ peer => Messages(toClient) \cup Messages(returned) \cup Messages(swallowed) = DOMAIN published
  /\ \A q, r \in 1..3 : q # r =>
       Messages(<<toClient, returned, swallowed>>[q]) \cap Messages(<<toClient, returned, swallowed>>[r]) = {}
  /\ \A i, j \in DOMAIN returned :
       i < j /\ {returned[i].kind, returned[j].kind} = {"message"} => returned[i].id < returned[j].id

\* A channel on which nothing is published for the length of the read timeout
\* goes on waiting, "ok restart" (RedisClient.php:292).
TimeoutRestarts ==
  [][ReadTimeout /\ reading.purpose = "wait" => connected' = connected]_vars

\* Whatever the program and the server do, no call and no wait() hangs: its loop
\* ends with a message, with the flag, or with an exception
\* (RedisClient.php:288-297).
ReadEnds == ~Idle ~> Idle

\* A program that waits while the channel is connected leaves its loop once the
\* server is gone (RedisClient.php:288-297, examples/chat/server.php:52).
LoopEnds == ~peer ~> \A o \in ChannelObjects : ~connected[o]

\* Such a program gets every message published to it while the connection lives.
MessagesArrive ==
  \A m \in 1..MaxMessages :
    ChannelObjects # {} /\ m \in {published[i] : i \in DOMAIN published} ~>
      ~peer \/ m \in {returned[i].id : i \in DOMAIN returned}

\* A program that subscribes to one channel and then only waits on it gets what
\* Subscription promises: every message once and in order until the channel is
\* closed.
ChannelOpen == \A o \in ChannelObjects : connected[o]
ReturnedIds == [i \in DOMAIN returned |-> returned[i].id]

S == INSTANCE Subscription WITH received <- ReturnedIds, open <- ChannelOpen

ImplementsSubscription == S!Spec
===============================================================================
