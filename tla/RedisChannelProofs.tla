--------------------------- MODULE RedisChannelProofs ---------------------------
(***************************************************************************)
(* A client and its channels, for any number of them and any traffic: the  *)
(* flags, the messages, and at the end the refinement of Subscription by a *)
(* program that listens to one channel.                                    *)
(***************************************************************************)
EXTENDS RedisChannel, FiniteSetTheorems, TLAPS

\* A channel object is made of a call that found room for one.
RoomForObject == reading.purpose = "construct" => Len(connected) <= MaxObjects

ChannelInv == TypeOK /\ RoomForObject /\ ExactlyOneKnows

LEMMA InitChannelInv == Init => ChannelInv
<1> SUFFICES ASSUME Init PROVE ChannelInv
  OBVIOUS
<1>1. TypeOK
  <2>1. /\ connected \in Seq(BOOLEAN) /\ Len(connected) \in 1..(MaxObjects + 1)
        /\ stale \subseteq Objects /\ calls \in 0..MaxCalls
    BY ChannelBoundsAssumption DEF Init
  <2>2. /\ toServer \in Seq([verb : Verbs, names : SUBSET Channels])
        /\ toClient \in Seq(Item) /\ returned \in Seq(Item)
        /\ swallowed \in Seq(Item) /\ published \in Seq(Nat)
    BY DEF Init
  <2> QED BY <2>1, <2>2 DEF Init, TypeOK
<1>2. RoomForObject
  BY DEF Init, RoomForObject, NotReading
<1>3. ExactlyOneKnows
  <2>1. DOMAIN connected = {1} /\ connected[1] = TRUE /\ socket = "open"
    BY DEF Init
  <2> QED BY <2>1 DEF ExactlyOneKnows, Objects
<1> QED BY <1>1, <1>2, <1>3 DEF ChannelInv

-----------------------------------------------------------------------------
(* Sequences.                                                              *)

LEMMA AppendType ==
  ASSUME NEW E, NEW q \in Seq(E), NEW e \in E
  PROVE  Append(q, e) \in Seq(E)
  OBVIOUS

LEMMA TailType ==
  ASSUME NEW E, NEW q \in Seq(E), q # <<>>
  PROVE  Tail(q) \in Seq(E) /\ Head(q) \in E
  OBVIOUS

-----------------------------------------------------------------------------
(* What the steps have in common.                                          *)

\* Closing keeps the books: the first to close knows, the others go on.
LEMMA CloseSocketFlags ==
  ASSUME ChannelInv, NEW o \in Objects, CloseSocket(o)
  PROVE  /\ connected' \in Seq(BOOLEAN) /\ Len(connected') = Len(connected)
         /\ Objects' = Objects /\ stale' = stale
         /\ socket' \in {"open", "closed"} /\ peer' \in BOOLEAN
         /\ subscribed' \subseteq Channels
         /\ toServer' \in Seq([verb : Verbs, names : SUBSET Channels])
         /\ toClient' \in Seq(Item)
         /\ ExactlyOneKnows'
<1> USE DEF ChannelInv, TypeOK, Objects
<1>1. CASE socket = "open" /\ o \notin stale
  <2>1. /\ stale' = stale
        /\ connected' = [connected EXCEPT ![o] = FALSE]
        /\ socket' = "closed" /\ peer' = FALSE
        /\ subscribed' = {} /\ toServer' = <<>> /\ toClient' = <<>>
    BY <1>1 DEF CloseSocket
  <2>2. connected' \in Seq(BOOLEAN) /\ Len(connected') = Len(connected)
    BY <2>1
  <2>3. ExactlyOneKnows'
    <3>1. \A p \in DOMAIN connected : connected'[p] <=> p # o
      BY <1>1, <2>1 DEF ExactlyOneKnows
    <3>2. DOMAIN connected' = DOMAIN connected /\ o \in DOMAIN connected \ stale /\ socket' # "open"
      BY <1>1, <2>1
    <3> QED BY <2>1, <3>1, <3>2 DEF ExactlyOneKnows
  <2>4. /\ toServer' \in Seq([verb : Verbs, names : SUBSET Channels])
        /\ toClient' \in Seq(Item)
    BY <2>1
  <2>5. socket' \in {"open", "closed"} /\ peer' \in BOOLEAN /\ subscribed' \subseteq Channels
    BY <2>1
  <2>6. Objects' = Objects
    BY <2>1
  <2> QED BY <2>1, <2>2, <2>3, <2>4, <2>5, <2>6
<1>2. CASE ~(socket = "open" /\ o \notin stale)
  <2>1. UNCHANGED <<connected, stale, socket, peer, subscribed, toServer, toClient>>
    BY <1>2 DEF CloseSocket, connVars
  <2>2. ExactlyOneKnows'
    BY <2>1 DEF ExactlyOneKnows
  <2> QED BY <2>1, <2>2
<1> QED BY <1>1, <1>2

\* The flags of a connection nobody closes or extends.
LEMMA SameFlags ==
  ASSUME ChannelInv, UNCHANGED <<connected, stale, socket>>
  PROVE  ExactlyOneKnows'
  BY DEF ChannelInv, ExactlyOneKnows, Objects

\* What the server sends is well-formed.
LEMMA RepliesType ==
  ASSUME NEW kind \in Kinds, NEW n \in Nat
  PROVE  Replies(kind, n) \in Seq(Item)
<1>1. Replies(kind, n) \in [1..n -> Item]
  BY DEF Replies, Reply, Item
<1> QED BY <1>1

-----------------------------------------------------------------------------
(* One lemma for each action.                                              *)

LEMMA SendKeeps ==
  ASSUME ChannelInv, NEW o \in Objects, NEW verb \in Verbs,
         NEW names \in SUBSET Channels, NEW purpose \in Purposes \ {"none"},
         purpose = "construct" => Len(connected) <= MaxObjects,
         Send(o, verb, names, purpose)
  PROVE  ChannelInv'
<1>1. /\ calls' = calls + 1 /\ calls < MaxCalls
      /\ reading' = [object |-> o, purpose |-> purpose]
      /\ toServer' \in {Append(toServer, [verb |-> verb, names |-> names]), toServer}
      /\ UNCHANGED <<connected, stale, socket, peer, subscribed, toClient, published, returned, swallowed>>
  BY DEF Send, connVars
<1>2. toServer' \in Seq([verb : Verbs, names : SUBSET Channels])
  <2>1. [verb |-> verb, names |-> names] \in [verb : Verbs, names : SUBSET Channels]
    OBVIOUS
  <2>2. toServer \in Seq([verb : Verbs, names : SUBSET Channels])
    BY DEF ChannelInv, TypeOK
  <2>3. toServer' \in {Append(toServer, [verb |-> verb, names |-> names]), toServer}
    BY <1>1
  <2>4. Append(toServer, [verb |-> verb, names |-> names]) \in Seq([verb : Verbs, names : SUBSET Channels])
    BY <2>1, <2>2, AppendType
  <2> QED BY <2>2, <2>3, <2>4
<1>3. calls' \in 0..MaxCalls
  BY <1>1, ChannelBoundsAssumption DEF ChannelInv, TypeOK
<1>4. TypeOK'
  BY <1>1, <1>2, <1>3 DEF ChannelInv, TypeOK, Objects
<1>5. RoomForObject'
  BY <1>1 DEF RoomForObject
<1> QED BY <1>1, <1>4, <1>5, SameFlags DEF ChannelInv

LEMMA OpenKeeps ==
  ASSUME ChannelInv, NEW o \in Objects, Open(o)
  PROVE  ChannelInv'
<1>1. /\ calls' = calls + 1 /\ calls < MaxCalls /\ ~connected[o]
      /\ connected' = [connected EXCEPT ![o] = TRUE] /\ stale' = Objects \ {o}
      /\ socket' = "open" /\ peer' = TRUE /\ subscribed' = {}
      /\ toServer' = <<>> /\ toClient' = <<>>
      /\ published' = <<>> /\ returned' = <<>> /\ swallowed' = <<>>
      /\ reading = NotReading /\ reading' = reading
  BY DEF Open, Idle
<1>2. calls' \in 0..MaxCalls
  BY <1>1, ChannelBoundsAssumption DEF ChannelInv, TypeOK
<1>3. /\ connected' \in Seq(BOOLEAN) /\ Len(connected') = Len(connected)
      /\ DOMAIN connected' = DOMAIN connected
  BY <1>1 DEF ChannelInv, TypeOK, Objects
<1>4. /\ toServer' \in Seq([verb : Verbs, names : SUBSET Channels])
      /\ toClient' \in Seq(Item) /\ published' \in Seq(Nat)
      /\ returned' \in Seq(Item) /\ swallowed' \in Seq(Item)
  BY <1>1
<1>5. TypeOK'
  BY <1>1, <1>2, <1>3, <1>4 DEF ChannelInv, TypeOK, Objects
<1>6. RoomForObject'
  BY <1>1 DEF RoomForObject, NotReading
<1>7. ExactlyOneKnows'
  BY <1>1, <1>3 DEF ChannelInv, ExactlyOneKnows, Objects, TypeOK
<1> QED BY <1>5, <1>6, <1>7 DEF ChannelInv

LEMMA WaitKeeps ==
  ASSUME ChannelInv, NEW o \in Objects, Wait(o)
  PROVE  ChannelInv'
<1>1. /\ reading' = [object |-> o, purpose |-> "wait"]
      /\ UNCHANGED <<connVars, serverVars, returned, swallowed, calls>>
  BY DEF Wait
<1>2. TypeOK' /\ RoomForObject'
  BY <1>1 DEF ChannelInv, TypeOK, RoomForObject, Objects, Purposes, connVars, serverVars
<1> QED BY <1>1, <1>2, SameFlags DEF ChannelInv, connVars

LEMMA CloseKeeps ==
  ASSUME ChannelInv, NEW o \in Objects, Close(o)
  PROVE  ChannelInv'
<1>1. /\ CloseSocket(o) /\ calls' = calls + 1 /\ calls < MaxCalls
      /\ reading = NotReading /\ UNCHANGED <<published, reading, returned, swallowed>>
  BY DEF Close, Idle, readVars
<1>2. calls' \in 0..MaxCalls
  BY <1>1, ChannelBoundsAssumption DEF ChannelInv, TypeOK
<1>3. TypeOK'
  BY <1>1, <1>2, CloseSocketFlags DEF ChannelInv, TypeOK
<1>4. RoomForObject'
  BY <1>1 DEF RoomForObject, NotReading
<1> QED BY <1>1, <1>3, <1>4, CloseSocketFlags DEF ChannelInv

\* A read() that ends without a new object: the flags stay as they are.
LEMMA ReadEndKeeps ==
  ASSUME ChannelInv, reading' = NotReading,
         UNCHANGED <<connected, stale, socket, peer, subscribed, toServer, published, calls>>,
         toClient' \in Seq(Item), returned' \in Seq(Item), swallowed' \in Seq(Item)
  PROVE  ChannelInv'
<1>1. TypeOK'
  BY DEF ChannelInv, TypeOK, Objects
<1>2. RoomForObject'
  BY DEF RoomForObject, NotReading
<1> QED BY <1>1, <1>2, SameFlags DEF ChannelInv

\* wait() closes the channel it is on.
LEMMA WaitFailsKeeps ==
  ASSUME ChannelInv, reading # NotReading, CloseSocket(reading.object), reading' = NotReading,
         UNCHANGED <<published, returned, swallowed, calls>>
  PROVE  ChannelInv'
<1>1. reading.object \in Objects
  BY DEF ChannelInv, TypeOK
<1>2. TypeOK'
  BY <1>1, CloseSocketFlags DEF ChannelInv, TypeOK
<1>3. RoomForObject'
  BY DEF RoomForObject, NotReading
<1> QED BY <1>1, <1>2, <1>3, CloseSocketFlags DEF ChannelInv

\* The new channel copies the flag of the object it comes from, which is TRUE
\* because that object could send: no second one knows of a close.
LEMMA ConstructKeeps ==
  ASSUME ChannelInv, reading.purpose = "construct", toClient # <<>>, Construct(Head(toClient)),
         reading' = NotReading, UNCHANGED <<socket, peer, subscribed, toServer, published, calls>>
  PROVE  ChannelInv'
<1>1. /\ connected' = Append(connected, TRUE) /\ toClient' = Tail(toClient)
      /\ swallowed' \in {Append(swallowed, Head(toClient)), swallowed} /\ returned' = returned
      /\ stale' = stale
  BY DEF Construct
<1>2. toClient' \in Seq(Item) /\ swallowed' \in Seq(Item)
  <2>1. toClient \in Seq(Item) /\ swallowed \in Seq(Item)
    BY DEF ChannelInv, TypeOK
  <2>2. Tail(toClient) \in Seq(Item) /\ Head(toClient) \in Item
    BY <2>1, TailType
  <2>3. Append(swallowed, Head(toClient)) \in Seq(Item)
    BY <2>1, <2>2, AppendType
  <2> QED BY <1>1, <2>1, <2>2, <2>3
<1>3. /\ connected' \in Seq(BOOLEAN) /\ Len(connected') = Len(connected) + 1
      /\ Len(connected') \in 1..(MaxObjects + 1) /\ socket' = socket /\ stale' = stale
  BY <1>1, ChannelBoundsAssumption DEF ChannelInv, TypeOK, RoomForObject
<1>4. TypeOK'
  <2>1. stale' \subseteq Objects'
    BY <1>3 DEF ChannelInv, TypeOK, Objects
  <2> QED BY <1>1, <1>2, <1>3, <2>1 DEF ChannelInv, TypeOK
<1>5. RoomForObject'
  BY DEF RoomForObject, NotReading
<1>6. ExactlyOneKnows'
  <2>1. /\ Objects' = Objects \cup {Len(connected) + 1} /\ connected'[Len(connected) + 1] = TRUE
        /\ \A o \in Objects : connected'[o] = connected[o] /\ o # Len(connected) + 1
    <3>1. connected \in Seq(BOOLEAN) /\ connected' = Append(connected, TRUE)
      BY <1>1 DEF ChannelInv, TypeOK
    <3>2. DOMAIN connected = 1..Len(connected) /\ DOMAIN connected' = 1..(Len(connected) + 1)
      BY <3>1
    <3>3. \A o \in 1..Len(connected) : connected'[o] = connected[o] /\ o # Len(connected) + 1
      BY <3>1
    <3>4. connected'[Len(connected) + 1] = TRUE /\ Len(connected) \in Nat
      BY <3>1
    <3>5. 1..(Len(connected) + 1) = (1..Len(connected)) \cup {Len(connected) + 1}
      BY <3>4
    <3> QED BY <3>2, <3>3, <3>4, <3>5 DEF Objects
  <2>2. CASE socket = "open"
    BY <1>3, <2>1, <2>2 DEF ChannelInv, ExactlyOneKnows
  <2>3. CASE socket # "open"
    <3>1. PICK o \in Objects \ stale : \A q \in Objects : connected[q] <=> q # o
      BY <2>3 DEF ChannelInv, ExactlyOneKnows
    <3>2. \A q \in Objects' : connected'[q] <=> q # o
      BY <2>1, <3>1
    <3> QED BY <1>3, <2>1, <2>3, <3>1, <3>2 DEF ExactlyOneKnows
  <2> QED BY <2>2, <2>3
<1> QED BY <1>4, <1>5, <1>6 DEF ChannelInv

LEMMA ReadItemKeeps ==
  ASSUME ChannelInv, ReadItem
  PROVE  ChannelInv'
<1> DEFINE item == Head(toClient)
<1>1. /\ reading # NotReading /\ toClient # <<>> /\ reading' = NotReading
      /\ UNCHANGED <<published, calls>>
  BY DEF ReadItem
<1>2. /\ item \in Item /\ Tail(toClient) \in Seq(Item)
      /\ returned \in Seq(Item) /\ swallowed \in Seq(Item)
  BY <1>1, TailType DEF ChannelInv, TypeOK
<1>3. CASE reading.purpose = "wait" /\ item.kind # "error"
  <2>1. /\ toClient' = Tail(toClient) /\ returned' = Append(returned, item)
        /\ UNCHANGED <<connected, stale, swallowed, socket, peer, subscribed, toServer>>
    BY <1>3 DEF ReadItem, WaitReturns
  <2>2. returned' \in Seq(Item)
    BY <2>1, <1>2, AppendType
  <2> QED BY <1>1, <1>2, <2>1, <2>2, ReadEndKeeps
<1>4. CASE reading.purpose = "wait" /\ item.kind = "error"
  <2>1. CloseSocket(reading.object) /\ UNCHANGED <<returned, swallowed>>
    BY <1>4 DEF ReadItem
  <2> QED BY <1>1, <2>1, WaitFailsKeeps
<1>5. CASE reading.purpose = "construct" /\ item.kind # "error"
  <2>1. Construct(item) /\ UNCHANGED <<socket, peer, subscribed, toServer>>
    BY <1>5 DEF ReadItem
  <2> QED BY <1>1, <1>5, <2>1, ConstructKeeps
<1>6. CASE /\ ~(reading.purpose = "wait" /\ item.kind # "error")
           /\ ~(reading.purpose = "wait" /\ item.kind = "error")
           /\ ~(reading.purpose = "construct" /\ item.kind # "error")
  <2>1. CallReturns(item) /\ UNCHANGED <<socket, peer, subscribed, toServer>>
    BY <1>6 DEF ReadItem
  <2>2. /\ toClient' = Tail(toClient) /\ UNCHANGED <<connected, stale, returned>>
        /\ swallowed' \in {Append(swallowed, item), swallowed}
    BY <2>1 DEF CallReturns
  <2>3. swallowed' \in Seq(Item)
    BY <2>2, <1>2, AppendType
  <2> QED BY <1>1, <1>2, <2>1, <2>2, <2>3, ReadEndKeeps
<1> QED BY <1>3, <1>4, <1>5, <1>6

LEMMA ReadFailsKeeps ==
  ASSUME ChannelInv, reading # NotReading, ReadFails
  PROVE  ChannelInv'
<1>1. CASE reading.purpose = "wait"
  BY <1>1, WaitFailsKeeps DEF ReadFails, WaitFails
<1>2. CASE reading.purpose # "wait"
  <2>1. /\ reading' = NotReading
        /\ UNCHANGED <<connected, stale, socket, peer, subscribed, toServer, toClient, published,
                       returned, swallowed, calls>>
    BY <1>2 DEF ReadFails, connVars
  <2>2. toClient' \in Seq(Item) /\ returned' \in Seq(Item) /\ swallowed' \in Seq(Item)
    BY <2>1 DEF ChannelInv, TypeOK
  <2> QED BY <2>1, <2>2, ReadEndKeeps
<1> QED BY <1>1, <1>2

\* The server touches none of the program's state.
LEMMA ServerKeeps ==
  ASSUME ChannelInv, UNCHANGED <<connected, stale, socket, reading, returned, swallowed, calls>>,
         peer' \in BOOLEAN, subscribed' \subseteq Channels,
         toServer' \in Seq([verb : Verbs, names : SUBSET Channels]),
         toClient' \in Seq(Item), published' \in Seq(Nat)
  PROVE  ChannelInv'
<1>1. TypeOK'
  BY DEF ChannelInv, TypeOK, Objects
<1>2. RoomForObject'
  BY DEF ChannelInv, RoomForObject
<1> QED BY <1>1, <1>2, SameFlags DEF ChannelInv

LEMMA ServeKeeps ==
  ASSUME ChannelInv, Serve
  PROVE  ChannelInv'
<1> DEFINE request == Head(toServer)
           n == Cardinality(request.names)
           Requests == [verb : Verbs, names : SUBSET Channels]
<1>1. /\ toServer # <<>> /\ toServer' = Tail(toServer)
      /\ UNCHANGED <<connected, stale, socket, peer, published, reading, returned, swallowed, calls>>
  BY DEF Serve, connVars, readVars
<1>2. toServer \in Seq(Requests) /\ toClient \in Seq(Item) /\ subscribed \subseteq Channels
  BY DEF ChannelInv, TypeOK
<1>3. toServer' \in Seq(Requests) /\ request \in Requests
  BY <1>1, <1>2, TailType
<1>4. request.names \subseteq Channels /\ n \in Nat
  BY <1>3, ChannelsAssumption, FS_Subset, FS_CardinalityType
<1>5. subscribed' \subseteq Channels /\ toClient' \in Seq(Item)
  <2>1. CASE request.verb = "SUBSCRIBE"
    <3>1. subscribed' = subscribed \cup request.names /\ toClient' = toClient \o Replies("subscribe", n)
      BY <2>1 DEF Serve
    <3>2. Replies("subscribe", n) \in Seq(Item)
      BY <1>4, RepliesType DEF Kinds
    <3> QED BY <3>1, <3>2, <1>2, <1>4
  <2>2. CASE request.verb = "UNSUBSCRIBE"
    <3>1. subscribed' = subscribed \ request.names /\ toClient' = toClient \o Replies("unsubscribe", n)
      BY <2>2 DEF Serve
    <3>2. Replies("unsubscribe", n) \in Seq(Item)
      BY <1>4, RepliesType DEF Kinds
    <3> QED BY <3>1, <3>2, <1>2
  <2>3. CASE request.verb \notin {"SUBSCRIBE", "UNSUBSCRIBE"}
    <3>1. /\ subscribed' = subscribed
          /\ toClient' \in {Append(toClient, Reply("status")), Append(toClient, Reply("error"))}
      BY <2>3 DEF Serve
    <3>2. Reply("status") \in Item /\ Reply("error") \in Item
      BY DEF Reply, Item, Kinds
    <3>3. Append(toClient, Reply("status")) \in Seq(Item) /\ Append(toClient, Reply("error")) \in Seq(Item)
      BY <3>2, <1>2, AppendType
    <3> QED BY <3>1, <3>3, <1>2
  <2> QED BY <2>1, <2>2, <2>3
<1>6. peer' \in BOOLEAN /\ published' \in Seq(Nat)
  BY <1>1 DEF ChannelInv, TypeOK
<1> QED BY <1>1, <1>3, <1>5, <1>6, ServerKeeps

LEMMA PublishKeeps ==
  ASSUME ChannelInv, Publish
  PROVE  ChannelInv'
<1> DEFINE m == Len(published) + 1
<1>1. /\ published' = Append(published, m)
      /\ toClient' = Append(toClient, [kind |-> "message", id |-> m])
      /\ UNCHANGED <<connected, stale, socket, peer, subscribed, toServer, reading, returned, swallowed, calls>>
  BY DEF Publish, connVars, readVars
<1>2. published \in Seq(Nat) /\ m \in Nat /\ toClient \in Seq(Item)
  BY DEF ChannelInv, TypeOK
<1>3. [kind |-> "message", id |-> m] \in Item
  BY <1>2 DEF Item, Kinds
<1>4. published' \in Seq(Nat) /\ toClient' \in Seq(Item)
  BY <1>1, <1>2, <1>3, AppendType
<1>5. peer' \in BOOLEAN /\ subscribed' \subseteq Channels
      /\ toServer' \in Seq([verb : Verbs, names : SUBSET Channels])
  BY <1>1 DEF ChannelInv, TypeOK
<1> QED BY <1>1, <1>4, <1>5, ServerKeeps

LEMMA DropKeeps ==
  ASSUME ChannelInv, Drop
  PROVE  ChannelInv'
<1>1. /\ peer' = FALSE /\ subscribed' = {} /\ toServer' = <<>>
      /\ UNCHANGED <<connected, stale, socket, published, reading, returned, swallowed, calls>>
  BY DEF Drop, readVars
<1>2. toServer' \in Seq([verb : Verbs, names : SUBSET Channels])
  BY <1>1
<1>3. toClient' \in Seq(Item)
  <2>1. PICK k \in 0..Len(toClient) : toClient' = SubSeq(toClient, 1, k)
    BY DEF Drop
  <2>2. toClient \in Seq(Item)
    BY DEF ChannelInv, TypeOK
  <2> QED BY <2>1, <2>2
<1>4. published' \in Seq(Nat)
  BY <1>1 DEF ChannelInv, TypeOK
<1> QED BY <1>1, <1>2, <1>3, <1>4, ServerKeeps

LEMMA ProgramKeeps ==
  ASSUME ChannelInv, Program
  PROVE  ChannelInv'
<1> USE DEF Verbs, Purposes
<1>1. Client \in Objects
  BY DEF Client, Objects, ChannelInv, TypeOK
<1>2. ASSUME NEW o \in Objects, NEW names \in SUBSET Channels, Subscribe(o, names)
      PROVE  ChannelInv'
  <2>1. Len(connected) <= MaxObjects /\ Send(o, "SUBSCRIBE", names, "construct")
    BY <1>2 DEF Subscribe
  <2> QED BY <2>1, SendKeeps
<1>3. ASSUME NEW o \in Objects, NEW names \in SUBSET Channels, Unsubscribe(o, names)
      PROVE  ChannelInv'
  BY <1>3, SendKeeps DEF Unsubscribe
<1>4. CASE OtherCall
  <2>1. Send(Client, "other", {}, "call") /\ {} \in SUBSET Channels
    BY <1>4 DEF OtherCall
  <2> QED BY <2>1, <1>1, SendKeeps
<1>5. CASE \E c \in Channels : Subscribe(Client, {c})
  BY <1>5, <1>1, <1>2
<1>6. CASE \E c, d \in Channels : c # d /\ Subscribe(Client, {c, d})
  <2>1. PICK c, d \in Channels : Subscribe(Client, {c, d})
    BY <1>6
  <2>2. {c, d} \in SUBSET Channels
    OBVIOUS
  <2> QED BY <2>1, <2>2, <1>1, <1>2
<1>7. CASE \E o \in Objects : Close(o)
  BY <1>7, CloseKeeps
<1>9. CASE Quit
  BY <1>9, <1>1, CloseKeeps DEF Quit
<1>10. CASE \E o \in Objects : Open(o)
  BY <1>10, OpenKeeps
<1>8. ASSUME NEW o \in ChannelObjects,
             \/ Wait(o)
             \/ \E c \in Channels : Subscribe(o, {c})
             \/ \E c \in Channels : Unsubscribe(o, {c})
      PROVE  ChannelInv'
  <2>1. o \in Objects
    BY DEF ChannelObjects
  <2> QED BY <1>8, <2>1, <1>2, <1>3, WaitKeeps
<1> QED BY <1>4, <1>5, <1>6, <1>7, <1>8, <1>9, <1>10 DEF Program

LEMMA NextChannelInv == ChannelInv /\ [Next]_vars => ChannelInv'
<1> SUFFICES ASSUME ChannelInv, [Next]_vars PROVE ChannelInv'
  OBVIOUS
<1>1. CASE Program
  BY <1>1, ProgramKeeps
<1>2. CASE Read
  BY <1>2, ReadItemKeeps, ReadFailsKeeps DEF Read, ReadEOF, ReadTimeout
<1>3. CASE Serve
  BY <1>3, ServeKeeps
<1>4. CASE Publish
  BY <1>4, PublishKeeps
<1>5. CASE Drop
  BY <1>5, DropKeeps
<1>6. CASE UNCHANGED vars
  <2>1. UNCHANGED <<connected, stale, socket, peer, subscribed, toServer, toClient, published,
                   reading, returned, swallowed, calls>>
    BY <1>6 DEF vars, connVars, serverVars, readVars
  <2> QED BY <2>1 DEF ChannelInv, TypeOK, RoomForObject, ExactlyOneKnows, Objects
<1> QED BY <1>1, <1>2, <1>3, <1>4, <1>5, <1>6 DEF Next

-----------------------------------------------------------------------------
(* Messages.                                                               *)

Rising(q) ==
  \A i, j \in DOMAIN q :
    i < j /\ q[i].kind = "message" /\ q[j].kind = "message" => q[i].id < q[j].id

\* What is still unread is younger than all that has been read, and the server
\* writes in the order it publishes: that keeps wait() in order, too.
MessageInv ==
  /\ Rising(toClient) /\ Rising(returned)
  /\ Messages(toClient) \cup Messages(returned) \cup Messages(swallowed) \subseteq DOMAIN published
  /\ peer => DOMAIN published \subseteq Messages(toClient) \cup Messages(returned) \cup Messages(swallowed)
  /\ \A m \in Messages(toClient) : \A k \in Messages(returned) \cup Messages(swallowed) : k < m
  /\ Messages(returned) \cap Messages(swallowed) = {}

MessageOf(e) == IF e.kind = "message" THEN {e.id} ELSE {}

LEMMA MessagesIn ==
  ASSUME NEW q \in Seq(Item)
  PROVE  /\ Messages(q) \subseteq Nat
         /\ \A m : m \in Messages(q) <=> \E i \in DOMAIN q : q[i].kind = "message" /\ q[i].id = m
<1>1. \A m : m \in Messages(q) <=> \E i \in DOMAIN q : q[i].kind = "message" /\ q[i].id = m
  BY DEF Messages
<1>2. \A i \in DOMAIN q : q[i].id \in Nat
  <2>1. \A i \in DOMAIN q : q[i] \in Item
    OBVIOUS
  <2> QED BY <2>1 DEF Item
<1> QED BY <1>1, <1>2

LEMMA NoMessages ==
  Messages(<<>>) = {} /\ Rising(<<>>)
  BY DEF Messages, Rising

LEMMA MessagesAppend ==
  ASSUME NEW q \in Seq(Item), NEW e \in Item
  PROVE  /\ Messages(Append(q, e)) = Messages(q) \cup MessageOf(e)
         /\ Rising(q) /\ (\A m \in Messages(q), k \in MessageOf(e) : m < k) => Rising(Append(q, e))
<1> DEFINE r == Append(q, e)
<1>1. /\ r \in Seq(Item) /\ DOMAIN r = DOMAIN q \cup {Len(q) + 1} /\ r[Len(q) + 1] = e
      /\ \A i \in DOMAIN q : r[i] = q[i] /\ i < Len(q) + 1 /\ i \in Int
  OBVIOUS
<1> HIDE DEF r
<1>2. \A m : m \in Messages(r) <=> m \in Messages(q) \/ m \in MessageOf(e)
  BY <1>1, MessagesIn DEF MessageOf
<1>3. ASSUME Rising(q), \A m \in Messages(q), k \in MessageOf(e) : m < k
      PROVE  Rising(r)
  <2>1. SUFFICES ASSUME NEW i \in DOMAIN r, NEW j \in DOMAIN r, i < j,
                        r[i].kind = "message", r[j].kind = "message"
                 PROVE  r[i].id < r[j].id
    BY DEF Rising
  <2>2. i \in DOMAIN q
    BY <1>1, <2>1
  <2>3. CASE j \in DOMAIN q
    BY <1>1, <1>3, <2>1, <2>2, <2>3 DEF Rising
  <2>4. CASE j = Len(q) + 1
    <3>1. q[i].id \in Messages(q)
      BY <1>1, <2>1, <2>2, MessagesIn
    <3>2. e.id \in MessageOf(e)
      BY <1>1, <2>1, <2>4 DEF MessageOf
    <3> QED BY <1>1, <1>3, <2>2, <2>4, <3>1, <3>2
  <2> QED BY <1>1, <2>3, <2>4
<1> QED BY <1>2, <1>3 DEF r

LEMMA MessagesHead ==
  ASSUME NEW q \in Seq(Item), q # <<>>
  PROVE  /\ Messages(q) = Messages(Tail(q)) \cup MessageOf(Head(q))
         /\ Rising(q) => /\ Rising(Tail(q))
                         /\ \A m \in Messages(Tail(q)), k \in MessageOf(Head(q)) : k < m
<1> DEFINE r == Tail(q)
<1>1. /\ r \in Seq(Item) /\ Head(q) = q[1] /\ 1 \in DOMAIN q
      /\ \A i \in DOMAIN r : r[i] = q[i + 1] /\ i + 1 \in DOMAIN q /\ i \in Int /\ i > 0
      /\ \A i \in DOMAIN q : i = 1 \/ (i - 1 \in DOMAIN r /\ (i - 1) + 1 = i)
  OBVIOUS
<1> HIDE DEF r
<1>2. Messages(q) = Messages(r) \cup MessageOf(Head(q))
  <2>1. ASSUME NEW m \in Messages(q)
        PROVE  m \in Messages(r) \/ m \in MessageOf(Head(q))
    <3>1. PICK i \in DOMAIN q : q[i].kind = "message" /\ q[i].id = m
      BY MessagesIn
    <3>2. CASE i = 1
      BY <1>1, <3>1, <3>2 DEF MessageOf
    <3>3. CASE i - 1 \in DOMAIN r /\ (i - 1) + 1 = i
      <4>1. r[i - 1] = q[i]
        BY <1>1, <3>3
      <4> QED BY <1>1, <3>1, <3>3, <4>1, MessagesIn
    <3> QED BY <1>1, <3>2, <3>3
  <2>2. ASSUME NEW m \in Messages(r)
        PROVE  m \in Messages(q)
    <3>1. PICK i \in DOMAIN r : r[i].kind = "message" /\ r[i].id = m
      BY <1>1, MessagesIn
    <3>2. i + 1 \in DOMAIN q /\ q[i + 1] = r[i]
      BY <1>1
    <3> QED BY <3>1, <3>2, MessagesIn
  <2>3. MessageOf(Head(q)) \subseteq Messages(q)
    BY <1>1, MessagesIn DEF MessageOf
  <2> QED BY <2>1, <2>2, <2>3
<1>3. ASSUME Rising(q)
      PROVE  Rising(r) /\ \A m \in Messages(r), k \in MessageOf(Head(q)) : k < m
  <2>1. Rising(r)
    <3>1. SUFFICES ASSUME NEW i \in DOMAIN r, NEW j \in DOMAIN r, i < j,
                          r[i].kind = "message", r[j].kind = "message"
                   PROVE  r[i].id < r[j].id
      BY DEF Rising
    <3>2. i + 1 < j + 1
      BY <1>1, <3>1
    <3> QED BY <1>1, <1>3, <3>1, <3>2 DEF Rising
  <2>2. ASSUME NEW m \in Messages(r), NEW k \in MessageOf(Head(q))
        PROVE  k < m
    <3>1. PICK i \in DOMAIN r : r[i].kind = "message" /\ r[i].id = m
      BY <1>1, MessagesIn
    <3>2. q[1].kind = "message" /\ q[1].id = k
      BY <1>1 DEF MessageOf
    <3>3. 1 < i + 1 /\ i + 1 \in DOMAIN q /\ q[i + 1] = r[i]
      BY <1>1
    <3> QED BY <1>1, <1>3, <3>1, <3>2, <3>3 DEF Rising
  <2> QED BY <2>1, <2>2
<1> QED BY <1>2, <1>3 DEF r

\* Confirmations and other replies behind the messages change nothing for these.
LEMMA MessagesConcat ==
  ASSUME NEW q \in Seq(Item), NEW t \in Seq(Item), \A i \in DOMAIN t : t[i].kind # "message"
  PROVE  Messages(q \o t) = Messages(q) /\ (Rising(q) => Rising(q \o t))
<1> DEFINE r == q \o t
<1>1. /\ r \in Seq(Item) /\ DOMAIN q \subseteq DOMAIN r
      /\ \A i \in DOMAIN q : r[i] = q[i]
      /\ \A i \in DOMAIN r : i \in DOMAIN q \/ (i - Len(q) \in DOMAIN t /\ r[i] = t[i - Len(q)])
  OBVIOUS
<1> HIDE DEF r
<1>2. \A i \in DOMAIN r : r[i].kind = "message" => i \in DOMAIN q /\ r[i] = q[i]
  BY <1>1
<1>3. Messages(r) = Messages(q)
  <2>1. \A m : m \in Messages(r) => m \in Messages(q)
    BY <1>1, <1>2, MessagesIn
  <2>2. \A m : m \in Messages(q) => m \in Messages(r)
    BY <1>1, MessagesIn
  <2> QED BY <2>1, <2>2
<1>4. Rising(q) => Rising(r)
  BY <1>1, <1>2 DEF Rising
<1> QED BY <1>3, <1>4 DEF r

LEMMA MessagesPrefix ==
  ASSUME NEW q \in Seq(Item), NEW k \in 0..Len(q)
  PROVE  Messages(SubSeq(q, 1, k)) \subseteq Messages(q) /\ (Rising(q) => Rising(SubSeq(q, 1, k)))
<1> DEFINE r == SubSeq(q, 1, k)
<1>1. /\ r \in Seq(Item) /\ DOMAIN r \subseteq DOMAIN q
      /\ \A i \in DOMAIN r : r[i] = q[i]
  OBVIOUS
<1> HIDE DEF r
<1>2. Messages(r) \subseteq Messages(q)
  BY <1>1, MessagesIn
<1>3. Rising(q) => Rising(r)
  BY <1>1 DEF Rising
<1> QED BY <1>2, <1>3 DEF r

-----------------------------------------------------------------------------
LEMMA InitMessageInv == Init => MessageInv
<1> SUFFICES ASSUME Init PROVE MessageInv
  OBVIOUS
<1>1. toClient = <<>> /\ returned = <<>> /\ swallowed = <<>> /\ published = <<>>
  BY DEF Init
<1>2. DOMAIN published = {}
  BY <1>1
<1> QED BY <1>1, <1>2, NoMessages DEF MessageInv

LEMMA SameMessages ==
  ASSUME MessageInv, UNCHANGED <<peer, toClient, returned, swallowed, published>>
  PROVE  MessageInv'
  BY DEF MessageInv, Rising, Messages

\* A close forgets what is unread.
LEMMA CloseSocketMessages ==
  ASSUME MessageInv, NEW o, CloseSocket(o), UNCHANGED <<returned, swallowed, published>>
  PROVE  MessageInv'
<1>1. CASE socket = "open" /\ o \notin stale
  <2>1. toClient' = <<>> /\ peer' = FALSE
    BY <1>1 DEF CloseSocket
  <2>2. Messages(toClient)' = {} /\ Rising(toClient)'
    BY <2>1, NoMessages
  <2>3. Messages(returned)' = Messages(returned) /\ Messages(swallowed)' = Messages(swallowed)
        /\ (Rising(returned) => Rising(returned)')
    BY DEF Rising, Messages
  <2> QED BY <2>1, <2>2, <2>3 DEF MessageInv
<1>2. CASE ~(socket = "open" /\ o \notin stale)
  BY <1>2, SameMessages DEF CloseSocket, connVars
<1> QED BY <1>1, <1>2

LEMMA OpenMessages ==
  ASSUME NEW o, Open(o)
  PROVE  MessageInv'
<1>1. toClient' = <<>> /\ returned' = <<>> /\ swallowed' = <<>> /\ published' = <<>>
  BY DEF Open
<1>2. /\ Messages(toClient)' = {} /\ Messages(returned)' = {} /\ Messages(swallowed)' = {}
      /\ Rising(toClient)' /\ Rising(returned)'
  BY <1>1, NoMessages
<1>3. DOMAIN published' = {}
  BY <1>1
<1> QED BY <1>2, <1>3 DEF MessageInv

\* The oldest unread item goes to the listener, or to the call in progress.
LEMMA TakeMessages ==
  ASSUME ChannelInv, MessageInv, toClient # <<>>, toClient' = Tail(toClient),
         UNCHANGED <<peer, published>>,
         \/ returned' = Append(returned, Head(toClient)) /\ swallowed' = swallowed
         \/ /\ returned' = returned
            /\ swallowed' = IF Head(toClient).kind = "message" THEN Append(swallowed, Head(toClient)) ELSE swallowed
  PROVE  MessageInv'
<1> DEFINE item == Head(toClient)
<1>1. /\ toClient \in Seq(Item) /\ returned \in Seq(Item) /\ swallowed \in Seq(Item)
      /\ item \in Item /\ Tail(toClient) \in Seq(Item)
  BY TailType DEF ChannelInv, TypeOK
<1>2. /\ Messages(toClient) = Messages(toClient)' \cup MessageOf(item)
      /\ Rising(toClient)' /\ \A m \in Messages(toClient)', k \in MessageOf(item) : k < m
  BY <1>1, MessagesHead DEF MessageInv
<1>3. Messages(toClient) \subseteq Nat /\ MessageOf(item) \subseteq Nat
  BY <1>1, <1>2, MessagesIn
<1>4. CASE returned' = Append(returned, item) /\ swallowed' = swallowed
  <2>1. Messages(returned)' = Messages(returned) \cup MessageOf(item) /\ Messages(swallowed)' = Messages(swallowed)
    BY <1>1, <1>4, MessagesAppend
  <2>2. Rising(returned)'
    BY <1>1, <1>2, <1>4, MessagesAppend DEF MessageInv
  <2>3. Messages(returned)' \cap Messages(swallowed)' = {}
    BY <1>2, <1>3, <2>1 DEF MessageInv
  <2> HIDE DEF item
  <2> QED BY <1>2, <2>1, <2>2, <2>3 DEF MessageInv
<1>5. CASE returned' = returned /\ swallowed' = IF item.kind = "message" THEN Append(swallowed, item) ELSE swallowed
  <2>1. Messages(swallowed)' = Messages(swallowed) \cup MessageOf(item)
    <3>1. CASE item.kind = "message"
      BY <1>1, <1>5, <3>1, MessagesAppend
    <3>2. CASE item.kind # "message"
      BY <1>5, <3>2 DEF MessageOf
    <3> QED BY <3>1, <3>2
  <2>2. Messages(returned)' = Messages(returned) /\ Rising(returned)'
    BY <1>5 DEF MessageInv
  <2>3. Messages(returned)' \cap Messages(swallowed)' = {}
    BY <1>2, <1>3, <2>1, <2>2 DEF MessageInv
  <2> HIDE DEF item
  <2> QED BY <1>2, <2>1, <2>2, <2>3 DEF MessageInv
<1> QED BY <1>4, <1>5

LEMMA ReadItemMessages ==
  ASSUME ChannelInv, MessageInv, ReadItem
  PROVE  MessageInv'
<1> DEFINE item == Head(toClient)
<1>1. toClient # <<>> /\ published' = published
  BY DEF ReadItem
<1>2. CASE reading.purpose = "wait" /\ item.kind # "error"
  BY <1>1, <1>2, TakeMessages DEF ReadItem, WaitReturns
<1>3. CASE reading.purpose = "wait" /\ item.kind = "error"
  BY <1>1, <1>3, CloseSocketMessages DEF ReadItem
<1>4. CASE reading.purpose = "construct" /\ item.kind # "error"
  <2>1. Construct(item) /\ peer' = peer
    BY <1>4 DEF ReadItem
  <2> QED BY <1>1, <2>1, TakeMessages DEF Construct
<1>5. CASE /\ ~(reading.purpose = "wait" /\ item.kind # "error")
           /\ ~(reading.purpose = "wait" /\ item.kind = "error")
           /\ ~(reading.purpose = "construct" /\ item.kind # "error")
  <2>1. CallReturns(item) /\ peer' = peer
    BY <1>5 DEF ReadItem
  <2> QED BY <1>1, <2>1, TakeMessages DEF CallReturns
<1> QED BY <1>2, <1>3, <1>4, <1>5

LEMMA ReadFailsMessages ==
  ASSUME MessageInv, ReadFails
  PROVE  MessageInv'
<1>1. UNCHANGED <<published, returned, swallowed>>
  BY DEF ReadFails
<1>2. CASE reading.purpose = "wait"
  BY <1>1, <1>2, CloseSocketMessages DEF ReadFails, WaitFails
<1>3. CASE reading.purpose # "wait"
  BY <1>1, <1>3, SameMessages DEF ReadFails, connVars
<1> QED BY <1>2, <1>3

LEMMA ServeMessages ==
  ASSUME ChannelInv, MessageInv, Serve
  PROVE  MessageInv'
<1> DEFINE request == Head(toServer)
           n == Cardinality(request.names)
<1>1. toServer # <<>> /\ UNCHANGED <<peer, published, returned, swallowed>>
  BY DEF Serve, connVars, readVars
<1>2. toClient \in Seq(Item) /\ n \in Nat
  <2>1. toServer \in Seq([verb : Verbs, names : SUBSET Channels]) /\ toClient \in Seq(Item)
    BY DEF ChannelInv, TypeOK
  <2>2. request \in [verb : Verbs, names : SUBSET Channels]
    BY <1>1, <2>1, TailType
  <2>3. request.names \subseteq Channels
    BY <2>2
  <2> QED BY <2>1, <2>3, ChannelsAssumption, FS_Subset, FS_CardinalityType
<1>3. Messages(toClient)' = Messages(toClient) /\ Rising(toClient)'
  <2>1. ASSUME NEW kind \in Kinds \ {"message"}, toClient' = toClient \o Replies(kind, n)
        PROVE  Messages(toClient)' = Messages(toClient) /\ Rising(toClient)'
    <3>1. Replies(kind, n) \in Seq(Item) /\ \A i \in DOMAIN Replies(kind, n) : Replies(kind, n)[i].kind # "message"
      BY <1>2, RepliesType DEF Replies, Reply
    <3> QED BY <1>2, <2>1, <3>1, MessagesConcat DEF MessageInv
  <2>2. CASE request.verb = "SUBSCRIBE"
    BY <2>1, <2>2 DEF Serve, Kinds
  <2>3. CASE request.verb = "UNSUBSCRIBE"
    BY <2>1, <2>3 DEF Serve, Kinds
  <2>4. CASE request.verb \notin {"SUBSCRIBE", "UNSUBSCRIBE"}
    <3>1. PICK kind \in {"status", "error"} : toClient' = Append(toClient, Reply(kind))
      BY <2>4 DEF Serve
    <3>2. Reply(kind) \in Item /\ MessageOf(Reply(kind)) = {}
      BY DEF Reply, Item, Kinds, MessageOf
    <3> QED BY <1>2, <3>1, <3>2, MessagesAppend DEF MessageInv
  <2> QED BY <2>2, <2>3, <2>4
<1>4. /\ Messages(returned)' = Messages(returned) /\ Messages(swallowed)' = Messages(swallowed)
      /\ Rising(returned)'
  BY <1>1 DEF MessageInv, Rising, Messages
<1> QED BY <1>1, <1>3, <1>4 DEF MessageInv

LEMMA PublishMessages ==
  ASSUME ChannelInv, MessageInv, Publish
  PROVE  MessageInv'
<1> DEFINE m == Len(published) + 1
           item == [kind |-> "message", id |-> m]
<1>1. /\ published' = Append(published, m) /\ toClient' = Append(toClient, item)
      /\ UNCHANGED <<peer, returned, swallowed>>
  BY DEF Publish, connVars, readVars
<1>2. /\ published \in Seq(Nat) /\ toClient \in Seq(Item) /\ m \in Nat
      /\ item \in Item /\ MessageOf(item) = {m}
  BY DEF ChannelInv, TypeOK, Item, Kinds, MessageOf
<1>3. /\ DOMAIN published' = DOMAIN published \cup {m}
      /\ \A k \in DOMAIN published : k < m
  BY <1>1, <1>2
<1> HIDE DEF m, item
<1>4. Messages(toClient)' = Messages(toClient) \cup {m}
  BY <1>1, <1>2, MessagesAppend
<1>5. Rising(toClient)'
  <2>1. \A k \in Messages(toClient) : k < m
    BY <1>3 DEF MessageInv
  <2> QED BY <1>1, <1>2, <2>1, MessagesAppend DEF MessageInv
<1>6. /\ Messages(returned)' = Messages(returned) /\ Messages(swallowed)' = Messages(swallowed)
      /\ Rising(returned)'
  BY <1>1 DEF MessageInv, Rising, Messages
<1> QED BY <1>1, <1>3, <1>4, <1>5, <1>6 DEF MessageInv

LEMMA DropMessages ==
  ASSUME ChannelInv, MessageInv, Drop
  PROVE  MessageInv'
<1>1. peer' = FALSE /\ UNCHANGED <<published, returned, swallowed>>
  BY DEF Drop, readVars
<1>2. PICK k \in 0..Len(toClient) : toClient' = SubSeq(toClient, 1, k)
  BY DEF Drop
<1>3. Messages(toClient)' \subseteq Messages(toClient) /\ Rising(toClient)'
  <2>1. toClient \in Seq(Item)
    BY DEF ChannelInv, TypeOK
  <2> QED BY <1>2, <2>1, MessagesPrefix DEF MessageInv
<1>4. /\ Messages(returned)' = Messages(returned) /\ Messages(swallowed)' = Messages(swallowed)
      /\ Rising(returned)'
  BY <1>1 DEF MessageInv, Rising, Messages
<1> QED BY <1>1, <1>3, <1>4 DEF MessageInv

LEMMA ProgramMessages ==
  ASSUME MessageInv, Program
  PROVE  MessageInv'
<1>1. ASSUME NEW o, NEW verb, NEW names, NEW purpose, Send(o, verb, names, purpose)
      PROVE  MessageInv'
  BY <1>1, SameMessages DEF Send, connVars
<1>2. ASSUME NEW o, Close(o)
      PROVE  MessageInv'
  BY <1>2, CloseSocketMessages DEF Close, readVars
<1>3. ASSUME NEW o, Wait(o)
      PROVE  MessageInv'
  BY <1>3, SameMessages DEF Wait, connVars, serverVars
<1>4. CASE \E c \in Channels : Subscribe(Client, {c})
  BY <1>4, <1>1 DEF Subscribe
<1>5. CASE \E c, d \in Channels : c # d /\ Subscribe(Client, {c, d})
  BY <1>5, <1>1 DEF Subscribe
<1>6. CASE OtherCall
  BY <1>6, <1>1 DEF OtherCall
<1>7. CASE Quit \/ \E o \in Objects : Close(o)
  BY <1>7, <1>2 DEF Quit
<1>8. CASE \E o \in Objects : Open(o)
  BY <1>8, OpenMessages
<1>9. ASSUME NEW o \in ChannelObjects,
             \/ Wait(o)
             \/ \E c \in Channels : Subscribe(o, {c})
             \/ \E c \in Channels : Unsubscribe(o, {c})
      PROVE  MessageInv'
  BY <1>9, <1>1, <1>3 DEF Subscribe, Unsubscribe
<1> QED BY <1>4, <1>5, <1>6, <1>7, <1>8, <1>9 DEF Program

LEMMA NextMessageInv == ChannelInv /\ MessageInv /\ [Next]_vars => MessageInv'
<1> SUFFICES ASSUME ChannelInv, MessageInv, [Next]_vars PROVE MessageInv'
  OBVIOUS
<1>1. CASE Program
  BY <1>1, ProgramMessages
<1>2. CASE Read
  BY <1>2, ReadItemMessages, ReadFailsMessages DEF Read, ReadEOF, ReadTimeout
<1>3. CASE Serve
  BY <1>3, ServeMessages
<1>4. CASE Publish
  BY <1>4, PublishMessages
<1>5. CASE Drop
  BY <1>5, DropMessages
<1>6. CASE UNCHANGED vars
  BY <1>6, SameMessages DEF vars, connVars, serverVars, readVars
<1> QED BY <1>1, <1>2, <1>3, <1>4, <1>5, <1>6 DEF Next

LEMMA MessageInvSuffices == ChannelInv /\ MessageInv => EveryMessageOnce
<1> SUFFICES ASSUME ChannelInv, MessageInv PROVE EveryMessageOnce
  OBVIOUS
<1>1. peer => Messages(toClient) \cup Messages(returned) \cup Messages(swallowed) = DOMAIN published
  BY DEF MessageInv
<1>2. /\ Messages(toClient) \cap Messages(returned) = {}
      /\ Messages(toClient) \cap Messages(swallowed) = {}
      /\ Messages(returned) \cap Messages(swallowed) = {}
  <2>1. Messages(toClient) \subseteq Nat
    BY MessagesIn DEF ChannelInv, TypeOK
  <2> QED BY <2>1 DEF MessageInv
<1>3. \A q, r \in 1..3 : q # r =>
        Messages(<<toClient, returned, swallowed>>[q]) \cap Messages(<<toClient, returned, swallowed>>[r]) = {}
  <2> DEFINE places == <<toClient, returned, swallowed>>
  <2>1. places[1] = toClient /\ places[2] = returned /\ places[3] = swallowed
    OBVIOUS
  <2> HIDE DEF places
  <2>2. \A q \in 1..3 : q = 1 \/ q = 2 \/ q = 3
    OBVIOUS
  <2>3. \A q, r \in 1..3 : q # r => Messages(places[q]) \cap Messages(places[r]) = {}
    <3>1. SUFFICES ASSUME NEW q \in 1..3, NEW r \in 1..3, q # r
                   PROVE  Messages(places[q]) \cap Messages(places[r]) = {}
      OBVIOUS
    <3>2. CASE q = 1
      BY <1>2, <2>1, <2>2, <3>1, <3>2
    <3>3. CASE q = 2
      BY <1>2, <2>1, <2>2, <3>1, <3>3
    <3>4. CASE q = 3
      BY <1>2, <2>1, <2>2, <3>1, <3>4
    <3> QED BY <2>2, <3>2, <3>3, <3>4
  <2> QED BY <2>3 DEF places
<1>4. \A i, j \in DOMAIN returned :
        i < j /\ {returned[i].kind, returned[j].kind} = {"message"} => returned[i].id < returned[j].id
  BY DEF MessageInv, Rising
<1> QED BY <1>1, <1>3, <1>4 DEF EveryMessageOnce

-----------------------------------------------------------------------------
\* A client and its channels are well-formed whatever is sent, published,
\* closed or lost (RedisClient.php:264-311).
THEOREM ChannelTypeCorrect == Spec => []TypeOK
<1>1. ChannelInv => TypeOK
  BY DEF ChannelInv
<1> QED BY InitChannelInv, NextChannelInv, <1>1, PTL DEF Spec

\* Of the objects that share a closed socket exactly one, the one that closed
\* it, says it is not connected (RedisClient.php:58-65, 269-275).
THEOREM ExactlyOneKnowsCorrect == Spec => []ExactlyOneKnows
<1>1. ChannelInv => ExactlyOneKnows
  BY DEF ChannelInv
<1> QED BY InitChannelInv, NextChannelInv, <1>1, PTL DEF Spec

\* While a connection lives each message is unread, was returned by wait(), or
\* was taken for the answer to another call, one of these and once, and wait()
\* returns messages in the order of their publication (RedisClient.php:276-297).
THEOREM EveryMessageOnceCorrect == Spec => []EveryMessageOnce
<1>1. Init => ChannelInv /\ MessageInv
  BY InitChannelInv, InitMessageInv
<1>2. ChannelInv /\ MessageInv /\ [Next]_vars => (ChannelInv /\ MessageInv)'
  BY NextChannelInv, NextMessageInv
<1> QED BY <1>1, <1>2, MessageInvSuffices, PTL DEF Spec

-----------------------------------------------------------------------------
(* A program that subscribes to one channel and then only waits on it, or  *)
(* closes client or channel, gets what Subscription promises.              *)

\* The programs of examples/chat/server.php and examples/pubsub.php: one
\* channel object, no open() after a close(), and a server that is not silent for the
\* length of the read timeout.
Listener ==
  Programs \subseteq {"one", "quit", "close"} /\ ~MayTimeout /\ MaxObjects <= 1

Confirmation == [kind |-> "subscribe", id |-> 0]
Message(m) == [kind |-> "message", id |-> m]

\* Before there is a channel object: the confirmation and the messages behind
\* it are on the wire only while the constructor reads.
Subscribing ==
  /\ returned = <<>> /\ reading.purpose \in {"none", "construct"}
  /\ toServer # <<>> =>
       /\ reading # NotReading /\ toClient = <<>>
       /\ \E c \in Channels : toServer = <<[verb |-> "SUBSCRIBE", names |-> {c}]>>
  /\ toClient # <<>> =>
       /\ reading # NotReading /\ toClient[1] = Confirmation
       /\ \A i \in 2..Len(toClient) : toClient[i] = Message(i - 1)
       /\ Len(toClient) - 1 <= Len(published)
       /\ peer => Len(toClient) - 1 = Len(published)
  /\ peer /\ toClient = <<>> => subscribed = {} /\ published = <<>>

\* With a channel object: the unread items are the messages published behind
\* those that wait() has returned.
Listening ==
  /\ toServer = <<>>
  /\ reading # NotReading => reading = [object |-> 2, purpose |-> "wait"] /\ connected[2]
  /\ \A i \in 1..Len(toClient) : toClient[i] = Message(Len(returned) + i)
  /\ Len(returned) + Len(toClient) <= Len(published)
  /\ peer => Len(returned) + Len(toClient) = Len(published)

ListenerInv ==
  /\ stale = {}
  /\ socket = "closed" => ~peer /\ toClient = <<>>
  /\ ~peer => toServer = <<>> /\ subscribed = {}
  /\ \A i \in 1..Len(published) : published[i] = i
  /\ \A i \in 1..Len(returned) : returned[i] = Message(i)
  /\ (Len(connected) = 1 /\ Subscribing) \/ (Len(connected) = 2 /\ Listening)

LEMMA AppendParts ==
  ASSUME NEW E, NEW q \in Seq(E), NEW e \in E
  PROVE  /\ Len(q) \in Nat /\ DOMAIN q = 1..Len(q)
         /\ DOMAIN Append(q, e) = 1..(Len(q) + 1) /\ Len(Append(q, e)) = Len(q) + 1
         /\ Append(q, e)[Len(q) + 1] = e
         /\ \A i \in 1..Len(q) : Append(q, e)[i] = q[i]
  OBVIOUS

LEMMA InitListener == Init => ListenerInv /\ S!Init
<1> SUFFICES ASSUME Init PROVE ListenerInv /\ S!Init
  OBVIOUS
<1>1. Subscribing
  BY DEF Init, Subscribing, NotReading
<1>2. ListenerInv
  BY <1>1 DEF Init, ListenerInv
<1>3. ReturnedIds = <<>>
  BY DEF Init, ReturnedIds
<1>4. ChannelOpen = TRUE
  BY DEF Init, ChannelOpen, ChannelObjects, Objects, Client
<1> QED BY <1>2, <1>3, <1>4 DEF Init, S!Init

\* Steps in which the listener sees nothing.
LEMMA ListenerSame ==
  ASSUME UNCHANGED <<connected, returned, published>>
  PROVE  UNCHANGED S!vars
  BY DEF S!vars, ReturnedIds, ChannelOpen, ChannelObjects, Objects

\* The types that the proofs of this section need.
LEMMA ListenerTypes ==
  ASSUME ChannelInv
  PROVE  /\ connected \in Seq(BOOLEAN) /\ Len(connected) \in Nat /\ DOMAIN connected = 1..Len(connected)
         /\ toClient \in Seq(Item) /\ Len(toClient) \in Nat
         /\ returned \in Seq(Item) /\ Len(returned) \in Nat
         /\ published \in Seq(Nat) /\ Len(published) \in Nat
         /\ socket \in {"open", "closed"} /\ peer \in BOOLEAN
  BY DEF ChannelInv, TypeOK

\* A connection that is closed, by the program or by wait(), if it still can be.
LEMMA ListenerCloses ==
  ASSUME ChannelInv, ListenerInv, NEW o \in Objects, CloseSocket(o),
         reading' = NotReading, UNCHANGED <<published, returned>>
  PROVE  ListenerInv' /\ [S!Next]_(S!vars)
<1>1. CASE socket = "open"
  <2>1. /\ connected' = [connected EXCEPT ![o] = FALSE]
        /\ socket' = "closed" /\ peer' = FALSE /\ stale' = stale
        /\ subscribed' = {} /\ toServer' = <<>> /\ toClient' = <<>>
    BY <1>1 DEF CloseSocket, ListenerInv
  <2>2. /\ Len(connected') = Len(connected) /\ DOMAIN connected' = DOMAIN connected
        /\ connected'[o] = FALSE
        /\ \A p \in DOMAIN connected : p # o => connected'[p] = connected[p]
    BY <2>1, ListenerTypes DEF Objects
  <2>3. Subscribing => Subscribing'
    BY <2>1 DEF Subscribing, NotReading
  <2>4. Listening => Listening'
    BY <2>1, ListenerTypes DEF Listening
  <2>5. ListenerInv'
    BY <2>1, <2>2, <2>3, <2>4 DEF ListenerInv
  <2>6. CASE o \in ChannelObjects
    <3>1. ChannelOpen' = FALSE
      BY <2>2, <2>6 DEF ChannelOpen, ChannelObjects, Objects
    <3>2. ReturnedIds' = ReturnedIds
      BY DEF ReturnedIds
    <3> QED BY <2>5, <3>1, <3>2 DEF S!Next, S!End
  <2>7. CASE o \notin ChannelObjects
    <3>1. ChannelOpen' = ChannelOpen
      BY <2>2, <2>7 DEF ChannelOpen, ChannelObjects, Objects
    <3>2. ReturnedIds' = ReturnedIds
      BY DEF ReturnedIds
    <3> QED BY <2>5, <3>1, <3>2 DEF S!vars
  <2> QED BY <2>6, <2>7
<1>2. CASE socket = "closed"
  <2>1. UNCHANGED <<connected, stale, socket, peer, subscribed, toServer, toClient>>
    BY <1>2 DEF CloseSocket, connVars
  <2>2. ~peer /\ toClient = <<>> /\ toServer = <<>>
    BY <1>2 DEF ListenerInv
  <2>3. (Subscribing => Subscribing') /\ (Listening => Listening')
    BY <2>1, <2>2 DEF Subscribing, Listening, NotReading
  <2>4. ListenerInv'
    BY <2>1, <2>3 DEF ListenerInv
  <2> QED BY <2>1, <2>4, ListenerSame
<1> QED BY <1>1, <1>2, ListenerTypes

LEMMA ListenerSubscribes ==
  ASSUME ChannelInv, Listener, ListenerInv, NEW c \in Channels, Subscribe(Client, {c})
  PROVE  ListenerInv' /\ [S!Next]_(S!vars)
<1> DEFINE request == [verb |-> "SUBSCRIBE", names |-> {c}]
<1>1. /\ reading = NotReading /\ Len(connected) <= 1
      /\ toServer' = IF peer /\ Client \notin stale THEN Append(toServer, request) ELSE toServer
      /\ reading' = [object |-> Client, purpose |-> "construct"]
      /\ UNCHANGED <<connected, stale, socket, peer, subscribed, toClient, published, returned>>
  BY ListenerTypes, ChannelBoundsAssumption DEF Subscribe, Send, Idle, Listener, connVars
<1>2. Len(connected) = 1 /\ Subscribing
  <2>1. (Len(connected) = 1 /\ Subscribing) \/ Len(connected) = 2
    BY DEF ListenerInv
  <2>2. Len(connected) # 2
    BY <1>1
  <2> QED BY <2>1, <2>2
<1>3. toServer = <<>> /\ toClient = <<>>
  BY <1>1, <1>2 DEF Subscribing
<1>4. toServer' \in {<<request>>, <<>>} /\ (~peer => toServer' = <<>>)
  BY <1>1, <1>3
<1>5. reading' # NotReading /\ reading'.purpose = "construct"
  BY <1>1 DEF NotReading
<1>6. Subscribing'
  BY <1>1, <1>2, <1>3, <1>4, <1>5 DEF Subscribing
<1>7. ListenerInv'
  BY <1>1, <1>2, <1>4, <1>6 DEF ListenerInv
<1> QED BY <1>1, <1>7, ListenerSame

LEMMA ListenerWaits ==
  ASSUME ChannelInv, ListenerInv, NEW o \in ChannelObjects, Wait(o)
  PROVE  ListenerInv' /\ [S!Next]_(S!vars)
<1>1. /\ connected[o] /\ reading' = [object |-> o, purpose |-> "wait"]
      /\ UNCHANGED <<connected, stale, socket, peer, subscribed, toServer, toClient, published, returned>>
  BY DEF Wait, connVars, serverVars
<1>2. o \in 1..Len(connected) /\ o # 1
  BY ListenerTypes DEF ChannelObjects, Objects, Client
<1>3. Len(connected) = 2 /\ Listening /\ o = 2
  <2>1. Len(connected) = 1 \/ (Len(connected) = 2 /\ Listening)
    BY DEF ListenerInv
  <2>2. ASSUME NEW n, n = Len(connected)
        PROVE  n # 1 /\ (n = 2 => o = 2)
    BY <1>2, <2>2
  <2> QED BY <2>1, <2>2
<1>4. Listening'
  BY <1>1, <1>3 DEF Listening
<1>5. ListenerInv'
  BY <1>1, <1>3, <1>4 DEF ListenerInv
<1> QED BY <1>1, <1>5, ListenerSame

LEMMA ListenerConstructs ==
  ASSUME ChannelInv, ListenerInv, Len(connected) = 1, Subscribing, ReadItem
  PROVE  ListenerInv' /\ [S!Next]_(S!vars)
<1>1. /\ reading # NotReading /\ toClient # <<>> /\ reading' = NotReading /\ published' = published
  BY DEF ReadItem
<1>2. reading.purpose = "construct"
  BY <1>1 DEF Subscribing, ChannelInv, TypeOK
<1>3. /\ Head(toClient) = Confirmation /\ toServer = <<>> /\ returned = <<>>
      /\ \A i \in 2..Len(toClient) : toClient[i] = Message(i - 1)
      /\ Len(toClient) - 1 <= Len(published)
      /\ peer => Len(toClient) - 1 = Len(published)
  BY <1>1, ListenerTypes DEF Subscribing
<1>4. Construct(Head(toClient)) /\ UNCHANGED <<socket, peer, subscribed, toServer>>
  BY <1>2, <1>3 DEF ReadItem, Confirmation
<1>5. connected' = Append(connected, TRUE) /\ toClient' = Tail(toClient) /\ UNCHANGED <<stale, returned>>
  BY <1>4 DEF Construct
<1>6. /\ Len(toClient') = Len(toClient) - 1
      /\ \A i \in 1..(Len(toClient) - 1) : toClient'[i] = toClient[i + 1]
  BY <1>1, <1>5, ListenerTypes
<1>7. \A i \in 1..Len(toClient') : toClient'[i] = Message(i)
  <2>1. SUFFICES ASSUME NEW i \in 1..(Len(toClient) - 1) PROVE toClient'[i] = Message(i)
    BY <1>6
  <2>2. i + 1 \in 2..Len(toClient) /\ (i + 1) - 1 = i
    BY ListenerTypes
  <2> QED BY <1>3, <1>6, <2>2
<1>8. /\ Len(connected') = 2 /\ connected'[2] = TRUE /\ DOMAIN connected = {1}
      /\ DOMAIN connected' = {1, 2}
  <2>1. connected \in Seq(BOOLEAN) /\ TRUE \in BOOLEAN /\ connected' = Append(connected, TRUE)
    BY <1>5, ListenerTypes
  <2>2. /\ DOMAIN connected = 1..Len(connected) /\ DOMAIN connected' = 1..(Len(connected) + 1)
        /\ Len(connected') = Len(connected) + 1 /\ connected'[Len(connected) + 1] = TRUE
    BY <2>1, AppendParts, Zenon
  <2> QED BY <2>1, <2>2
<1>9. Listening'
  <2>1. Len(returned') = 0
    BY <1>3, <1>5
  <2>2. toServer' = <<>> /\ reading' = NotReading
    BY <1>1, <1>3, <1>4
  <2>3. \A i \in 1..Len(toClient') : toClient'[i] = Message(Len(returned') + i)
    BY <1>7, <2>1
  <2>4. /\ Len(returned') + Len(toClient') <= Len(published')
        /\ peer' => Len(returned') + Len(toClient') = Len(published')
    BY <1>1, <1>3, <1>4, <1>6, <2>1, ListenerTypes
  <2> QED BY <2>2, <2>3, <2>4 DEF Listening
<1>10. ListenerInv'
  <2>1. socket' = "closed" => ~peer' /\ toClient' = <<>>
    BY <1>1, <1>4 DEF ListenerInv
  <2>2. \A i \in 1..Len(returned') : returned'[i] = Message(i)
    BY <1>3, <1>5
  <2> QED BY <1>1, <1>4, <1>5, <1>8, <1>9, <2>1, <2>2 DEF ListenerInv
<1>11. ChannelOpen' = ChannelOpen
  BY <1>8 DEF ChannelOpen, ChannelObjects, Objects, Client
<1>12. ReturnedIds' = ReturnedIds
  BY <1>5 DEF ReturnedIds
<1> QED BY <1>1, <1>10, <1>11, <1>12 DEF S!vars

LEMMA ListenerReceives ==
  ASSUME ChannelInv, ListenerInv, Len(connected) = 2, Listening, ReadItem
  PROVE  ListenerInv' /\ [S!Next]_(S!vars)
<1> DEFINE n == Len(returned)
           item == Head(toClient)
<1>1. /\ reading # NotReading /\ toClient # <<>> /\ reading' = NotReading /\ published' = published
  BY DEF ReadItem
<1>2. reading.purpose = "wait" /\ connected[2]
  BY <1>1 DEF Listening
<1>3. Len(toClient) \in Nat \ {0} /\ item = toClient[1]
  BY <1>1, ListenerTypes
<1>4. item = Message(n + 1)
  BY <1>3 DEF Listening
<1>5. WaitReturns(item) /\ UNCHANGED <<socket, peer, subscribed, toServer>>
  BY <1>2, <1>4 DEF ReadItem, Message
<1>6. toClient' = Tail(toClient) /\ returned' = Append(returned, item) /\ UNCHANGED <<connected, stale>>
  BY <1>5 DEF WaitReturns
<1>7. /\ Len(toClient') = Len(toClient) - 1
      /\ \A i \in 1..(Len(toClient) - 1) : toClient'[i] = toClient[i + 1]
  BY <1>1, <1>6, ListenerTypes
<1>8. item \in Item
  BY <1>1, ListenerTypes
<1>9. /\ Len(returned') = n + 1 /\ returned'[n + 1] = item /\ DOMAIN returned' = 1..(n + 1)
      /\ \A i \in 1..n : returned'[i] = returned[i]
  BY <1>6, <1>8, ListenerTypes
<1>10. /\ n \in Nat /\ Len(toClient) \in Nat \ {0} /\ Len(published) \in Nat
       /\ n + Len(toClient) <= Len(published)
       /\ peer => n + Len(toClient) = Len(published)
       /\ \A i \in 1..Len(toClient) : toClient[i] = Message(n + i)
  BY <1>3, ListenerTypes DEF Listening
<1> HIDE DEF n, item
<1>11. Listening'
  <2>1. ASSUME NEW i \in 1..Len(toClient')
        PROVE  toClient'[i] = Message(Len(returned') + i)
    <3>1. i \in 1..(Len(toClient) - 1) /\ i + 1 \in 1..Len(toClient) /\ n + (i + 1) = (n + 1) + i
      BY <1>7, <1>10, <2>1
    <3> QED BY <1>7, <1>9, <1>10, <3>1
  <2>2. toServer' = <<>> /\ reading' = NotReading
    BY <1>1, <1>5 DEF Listening
  <2>3. /\ Len(returned') + Len(toClient') <= Len(published')
        /\ peer' => Len(returned') + Len(toClient') = Len(published')
    <3>1. (n + 1) + (Len(toClient) - 1) = n + Len(toClient)
      BY <1>10
    <3>2. Len(returned') + Len(toClient') = n + Len(toClient)
      BY <1>7, <1>9, <3>1
    <3>3. published' = published /\ peer' = peer
      BY <1>1, <1>5
    <3> QED BY <1>10, <3>2, <3>3
  <2> QED BY <2>1, <2>2, <2>3 DEF Listening
<1>12. \A i \in 1..Len(returned') : returned'[i] = Message(i)
  <2>1. ASSUME NEW i \in 1..(n + 1) PROVE returned'[i] = Message(i)
    <3>1. CASE i = n + 1
      BY <1>4, <1>9, <3>1
    <3>2. CASE i # n + 1
      <4>1. i \in 1..n
        BY <1>10, <3>2
      <4> QED BY <1>9, <4>1 DEF ListenerInv, n
    <3> QED BY <3>1, <3>2
  <2> QED BY <1>9, <2>1
<1>13. ListenerInv'
  <2>1. socket' = "closed" => ~peer' /\ toClient' = <<>>
    BY <1>1, <1>5 DEF ListenerInv
  <2> QED BY <1>1, <1>5, <1>6, <1>11, <1>12, <2>1 DEF ListenerInv
<1>14. ReturnedIds' = Append(ReturnedIds, published[Len(ReturnedIds) + 1])
  <2>1. /\ ReturnedIds = [i \in 1..n |-> returned[i].id]
        /\ ReturnedIds' = [i \in 1..(n + 1) |-> returned'[i].id]
    BY <1>9, ListenerTypes DEF ReturnedIds, n
  <2>2. ReturnedIds \in Seq(Nat) /\ Len(ReturnedIds) = n
    <3>1. \A i \in 1..n : returned[i].id \in Nat
      <4>1. \A i \in 1..n : returned[i] \in Item
        BY ListenerTypes DEF n
      <4> QED BY <4>1 DEF Item
    <3>2. ReturnedIds \in [1..n -> Nat]
      BY <2>1, <3>1
    <3> QED BY <1>10, <2>1, <3>2
  <2>3. published[n + 1] = n + 1 /\ published[n + 1] \in Nat
    BY <1>10 DEF ListenerInv
  <2>4. item.id = n + 1
    BY <1>4 DEF Message
  <2>5. \A i \in 1..(n + 1) : returned'[i].id = IF i = n + 1 THEN n + 1 ELSE returned[i].id
    <3>1. \A i \in 1..(n + 1) : i # n + 1 => i \in 1..n
      BY <1>10
    <3> QED BY <1>9, <2>4, <3>1
  <2> DEFINE old == ReturnedIds
             new == Append(ReturnedIds, n + 1)
  <2>6. /\ new = [i \in 1..(n + 1) |-> IF i = n + 1 THEN n + 1 ELSE old[i]]
    BY <1>10, <2>2
  <2>7. \A i \in 1..(n + 1) : (IF i = n + 1 THEN n + 1 ELSE old[i]) = returned'[i].id
    <3>1. \A i \in 1..(n + 1) : i # n + 1 => i \in 1..n
      BY <1>10
    <3> QED BY <2>1, <2>5, <3>1
  <2>8. ReturnedIds' = new
    BY <2>1, <2>6, <2>7, ZenonT(60)
  <2> QED BY <2>2, <2>3, <2>8
<1>15. ChannelOpen /\ ChannelOpen' = ChannelOpen
  <2>1. DOMAIN connected = {1, 2}
    BY ListenerTypes
  <2> QED BY <1>2, <1>6, <2>1 DEF ChannelOpen, ChannelObjects, Objects, Client
<1>16. Len(ReturnedIds) < Len(published)
  <2>1. Len(ReturnedIds) = n
    BY ListenerTypes DEF ReturnedIds, n
  <2> QED BY <1>10, <2>1
<1> QED BY <1>1, <1>13, <1>14, <1>15, <1>16 DEF S!Next, S!Receive

LEMMA ListenerReadFails ==
  ASSUME ChannelInv, ListenerInv, ReadEOF
  PROVE  ListenerInv' /\ [S!Next]_(S!vars)
<1>1. /\ reading # NotReading /\ ~peer /\ toClient = <<>> /\ ReadFails
  BY DEF ReadEOF, ListenerInv
<1>2. reading' = NotReading /\ UNCHANGED <<published, returned>>
  BY <1>1 DEF ReadFails, WaitFails
<1>3. CASE reading.purpose = "wait"
  <2>1. CloseSocket(reading.object) /\ reading.object \in Objects
    BY <1>1, <1>3 DEF ReadFails, WaitFails, ChannelInv, TypeOK
  <2> QED BY <1>2, <2>1, ListenerCloses
<1>4. CASE reading.purpose # "wait"
  <2>1. UNCHANGED <<connected, stale, socket, peer, subscribed, toServer, toClient>>
    BY <1>1, <1>4 DEF ReadFails, connVars
  <2>2. toServer = <<>>
    BY <1>1 DEF ListenerInv
  <2>3. (Subscribing => Subscribing') /\ (Listening => Listening')
    BY <1>1, <1>2, <2>1, <2>2 DEF Subscribing, Listening, NotReading
  <2>4. ListenerInv'
    BY <1>2, <2>1, <2>3 DEF ListenerInv
  <2> QED BY <1>2, <2>1, <2>4, ListenerSame
<1> QED BY <1>3, <1>4

\* The server confirms the one name of the request.
LEMMA ListenerServed ==
  ASSUME ChannelInv, ListenerInv, Serve
  PROVE  ListenerInv' /\ [S!Next]_(S!vars)
<1>1. /\ toServer # <<>> /\ toServer' = Tail(toServer)
      /\ UNCHANGED <<connected, stale, socket, peer, published, reading, returned>>
  BY DEF Serve, connVars, readVars
<1>2. Len(connected) = 1 /\ Subscribing
  BY <1>1 DEF ListenerInv, Listening
<1>3. PICK c \in Channels : toServer = <<[verb |-> "SUBSCRIBE", names |-> {c}]>>
  BY <1>1, <1>2 DEF Subscribing
<1>4. toServer' = <<>> /\ Head(toServer) = [verb |-> "SUBSCRIBE", names |-> {c}]
  BY <1>1, <1>3
<1>5. peer /\ toClient = <<>> /\ published = <<>> /\ returned = <<>> /\ reading # NotReading
  BY <1>1, <1>2 DEF Subscribing, ListenerInv
<1>6. Cardinality({c}) = 1
  BY FS_Singleton
<1>7. toClient' = toClient \o Replies("subscribe", 1)
  <2>1. Head(toServer).verb = "SUBSCRIBE" /\ Head(toServer).names = {c}
    BY <1>4
  <2>2. toClient' = toClient \o Replies("subscribe", Cardinality(Head(toServer).names))
    BY <2>1 DEF Serve
  <2> QED BY <1>6, <2>1, <2>2
<1>8. toClient' = Replies("subscribe", 1) /\ Len(Replies("subscribe", 1)) = 1
      /\ Replies("subscribe", 1)[1] = Confirmation
  <2> DEFINE r == Replies("subscribe", 1)
  <2>1. r \in Seq(Item)
    BY RepliesType DEF Kinds
  <2>2. r = [i \in 1..1 |-> Confirmation]
    BY DEF Replies, Reply, Confirmation
  <2>3. Len(r) = 1 /\ r[1] = Confirmation
    BY <2>1, <2>2
  <2> HIDE DEF r
  <2>4. toClient' = r
    BY <1>5, <1>7, <2>1 DEF r
  <2> QED BY <2>3, <2>4 DEF r
<1>9. /\ toClient' # <<>> /\ Len(toClient') = 1 /\ toClient'[1] = Confirmation
      /\ \A i \in 2..Len(toClient') : FALSE
  <2> DEFINE q == toClient'
  <2>1. Len(q) = 1 /\ q[1] = Confirmation
    BY <1>8
  <2> HIDE DEF q
  <2>2. q # <<>> /\ \A i \in 2..Len(q) : FALSE
    BY <2>1
  <2> QED BY <2>1, <2>2 DEF q
<1>10. Subscribing'
  <2>1. Len(published') = 0 /\ reading' = reading /\ reading # NotReading /\ returned' = <<>>
        /\ reading.purpose \in {"none", "construct"}
    BY <1>1, <1>2, <1>5 DEF Subscribing
  <2>2. Len(toClient') - 1 = Len(published')
    BY <1>9, <2>1
  <2>3. Len(toClient') - 1 <= Len(published')
    BY <1>9, <2>1
  <2> QED BY <1>4, <1>9, <2>1, <2>2, <2>3 DEF Subscribing
<1>11. ListenerInv'
  <2>1. socket' # "closed" /\ peer'
    BY <1>1, <1>5 DEF ListenerInv
  <2> QED BY <1>1, <1>2, <1>10, <2>1 DEF ListenerInv
<1> QED BY <1>1, <1>11, ListenerSame

\* A message goes to the end of the queue and of the history.
LEMMA ListenerPublished ==
  ASSUME ChannelInv, ListenerInv, Publish
  PROVE  ListenerInv' /\ [S!Next]_(S!vars)
<1> DEFINE m == Len(published) + 1
           k == Len(toClient)
<1>1. /\ peer /\ subscribed # {}
      /\ published' = Append(published, m) /\ toClient' = Append(toClient, Message(m))
      /\ UNCHANGED <<connected, stale, socket, peer, subscribed, toServer, reading, returned>>
  BY DEF Publish, Message, connVars, readVars
<1>2. /\ published \in Seq(Nat) /\ toClient \in Seq(Item) /\ m \in Nat \ {0} /\ k \in Nat
      /\ Len(returned) \in Nat /\ Len(published) \in Nat /\ Message(m) \in Item
  BY ListenerTypes DEF Message, Item, Kinds
<1>3. /\ Len(published') = m /\ published'[m] = m
      /\ \A i \in 1..Len(published) : published'[i] = published[i]
      /\ Len(toClient') = k + 1 /\ toClient'[k + 1] = Message(m)
      /\ \A i \in 1..k : toClient'[i] = toClient[i]
      /\ toClient' # <<>>
  BY <1>1, <1>2
<1>4. m = Len(published) + 1 /\ k = Len(toClient)
  OBVIOUS
<1> HIDE DEF m, k
<1>5. \A i \in 1..Len(published') : published'[i] = i
  <2>1. ASSUME NEW i \in 1..m, i # m PROVE i \in 1..Len(published)
    BY <1>2, <1>4, <2>1
  <2> QED BY <1>3, <2>1 DEF ListenerInv
<1>6. ASSUME Len(connected) = 1, Subscribing PROVE Subscribing'
  <2>1. /\ toClient # <<>> /\ toServer = <<>> /\ reading # NotReading
        /\ toClient[1] = Confirmation /\ k - 1 = Len(published)
        /\ \A i \in 2..k : toClient[i] = Message(i - 1)
    BY <1>1, <1>4, <1>6 DEF Subscribing
  <2>2. k = m /\ k >= 1
    BY <1>2, <1>4, <2>1
  <2>3. toClient'[1] = Confirmation
    BY <1>2, <1>3, <2>1, <2>2
  <2>4. ASSUME NEW i \in 2..(k + 1) PROVE toClient'[i] = Message(i - 1)
    <3>1. CASE i = k + 1
      <4>1. i - 1 = m
        BY <1>2, <2>2, <3>1
      <4> QED BY <1>3, <3>1, <4>1
    <3>2. CASE i # k + 1
      <4>1. i \in 2..k /\ i \in 1..k
        BY <1>2, <3>2
      <4> QED BY <1>3, <2>1, <4>1
    <3> QED BY <3>1, <3>2
  <2>5. Len(toClient') - 1 = Len(published') /\ Len(toClient') - 1 <= Len(published')
    BY <1>2, <1>3, <2>2
  <2> QED BY <1>1, <1>3, <1>6, <2>1, <2>3, <2>4, <2>5 DEF Subscribing
<1>7. ASSUME Len(connected) = 2, Listening PROVE Listening'
  <2>1. Len(returned) + k = Len(published) /\ \A i \in 1..k : toClient[i] = Message(Len(returned) + i)
    BY <1>1, <1>4, <1>7 DEF Listening
  <2>2. Len(returned) + (k + 1) = m
    BY <1>2, <1>4, <2>1
  <2>3. ASSUME NEW i \in 1..(k + 1) PROVE toClient'[i] = Message(Len(returned) + i)
    <3>1. CASE i = k + 1
      BY <1>3, <2>2, <3>1
    <3>2. CASE i # k + 1
      <4>1. i \in 1..k
        BY <1>2, <3>2
      <4> QED BY <1>3, <2>1, <4>1
    <3> QED BY <3>1, <3>2
  <2>4. Len(returned') + Len(toClient') = Len(published') /\ Len(returned') + Len(toClient') <= Len(published')
    BY <1>1, <1>2, <1>3, <2>2
  <2> QED BY <1>1, <1>3, <1>7, <2>3, <2>4 DEF Listening
<1>8. ListenerInv'
  <2>1. socket' # "closed" /\ peer'
    BY <1>1 DEF ListenerInv
  <2> QED BY <1>1, <1>5, <1>6, <1>7, <2>1 DEF ListenerInv
<1>9. ChannelOpen' = ChannelOpen /\ ReturnedIds' = ReturnedIds
  BY <1>1 DEF ChannelOpen, ChannelObjects, Objects, ReturnedIds
<1>10. SubSeq(published', 1, Len(published)) = published
  BY <1>1, <1>2
<1> QED BY <1>3, <1>4, <1>8, <1>9, <1>10 DEF S!Next, S!Publish

\* Behind a hang-up what was on its way arrives up to some message.
LEMMA ListenerDropped ==
  ASSUME ChannelInv, ListenerInv, Drop
  PROVE  ListenerInv' /\ [S!Next]_(S!vars)
<1>1. /\ peer /\ peer' = FALSE /\ subscribed' = {} /\ toServer' = <<>>
      /\ UNCHANGED <<connected, stale, socket, published, reading, returned>>
  BY DEF Drop, readVars
<1>2. PICK k \in 0..Len(toClient) : toClient' = SubSeq(toClient, 1, k)
  BY DEF Drop
<1> DEFINE q == toClient'
<1>3. /\ k \in Nat /\ Len(toClient) \in Nat /\ k <= Len(toClient) /\ Len(q) = k
      /\ \A i \in 1..k : q[i] = toClient[i]
      /\ q # <<>> => toClient # <<>> /\ k >= 1
  BY <1>2, ListenerTypes
<1> HIDE DEF q
<1>4. \A i \in 1..k : i \in 1..Len(toClient)
  BY <1>3
<1>5. ASSUME Subscribing PROVE Subscribing'
  <2>1. ASSUME q # <<>>
        PROVE  /\ reading # NotReading /\ q[1] = Confirmation
               /\ \A i \in 2..k : q[i] = Message(i - 1)
               /\ k - 1 <= Len(published)
    <3>1. /\ reading # NotReading /\ toClient[1] = Confirmation
          /\ \A i \in 2..Len(toClient) : toClient[i] = Message(i - 1)
          /\ Len(toClient) - 1 <= Len(published)
      BY <1>3, <1>5, <2>1 DEF Subscribing
    <3>2. 1 \in 1..k /\ \A i \in 2..k : i \in 1..k /\ i \in 2..Len(toClient)
      BY <1>3, <2>1
    <3>3. k - 1 <= Len(published)
      BY <1>3, <3>1, ListenerTypes
    <3> QED BY <1>3, <3>1, <3>2, <3>3
  <2> QED BY <1>1, <1>3, <1>5, <2>1 DEF Subscribing, q
<1>6. ASSUME Listening PROVE Listening'
  <2>1. \A i \in 1..k : q[i] = Message(Len(returned) + i)
    BY <1>3, <1>4, <1>6 DEF Listening
  <2>2. Len(returned) + k <= Len(published)
    BY <1>3, <1>6, ListenerTypes DEF Listening
  <2> QED BY <1>1, <1>3, <1>6, <2>1, <2>2 DEF Listening, q
<1>7. ListenerInv'
  <2>1. socket' # "closed"
    BY <1>1 DEF ListenerInv
  <2> QED BY <1>1, <1>5, <1>6, <2>1 DEF ListenerInv
<1> QED BY <1>1, <1>7, ListenerSame

LEMMA ListenerNext ==
  ASSUME ChannelInv, Listener, ListenerInv, [Next]_vars
  PROVE  ListenerInv' /\ [S!Next]_(S!vars)
<1>1. CASE Program
  <2>1. ASSUME NEW o \in Objects, Close(o) PROVE ListenerInv' /\ [S!Next]_(S!vars)
    BY <2>1, ListenerCloses DEF Close, Idle, readVars
  <2>2. Client \in Objects
    BY ListenerTypes DEF ChannelInv, TypeOK, Objects, Client
  <2>3. CASE \E c \in Channels : Subscribe(Client, {c})
    BY <2>3, ListenerSubscribes
  <2>4. CASE Quit \/ \E o \in Objects : Close(o)
    BY <2>1, <2>2, <2>4 DEF Quit
  <2>5. CASE \E o \in ChannelObjects : Wait(o)
    BY <2>5, ListenerWaits
  <2> QED BY <1>1, <2>3, <2>4, <2>5 DEF Program, Listener
<1>2. CASE ReadItem
  BY <1>2, ListenerConstructs, ListenerReceives DEF ListenerInv
<1>3. CASE ReadEOF
  BY <1>3, ListenerReadFails
<1>4. CASE ReadTimeout
  BY <1>4 DEF ReadTimeout, Listener
<1>5. CASE Serve
  BY <1>5, ListenerServed
<1>6. CASE Publish
  BY <1>6, ListenerPublished
<1>7. CASE Drop
  BY <1>7, ListenerDropped
<1>8. CASE UNCHANGED vars
  <2>1. ListenerInv'
    BY <1>8 DEF ListenerInv, Subscribing, Listening, vars, connVars, serverVars, readVars
  <2> QED BY <1>8, <2>1, ListenerSame DEF vars, connVars, serverVars, readVars
<1> QED BY <1>1, <1>2, <1>3, <1>4, <1>5, <1>6, <1>7, <1>8 DEF Next, Read

\* A listener receives every message published to its connection once and in
\* order, until its channel is closed, by itself or because the connection was
\* lost (RedisClient.php:264-297).
THEOREM SubscriptionCorrect == Listener /\ Spec => ImplementsSubscription
<1> SUFFICES ASSUME Listener PROVE Spec => ImplementsSubscription
  OBVIOUS
<1>1. Init => ChannelInv /\ ListenerInv /\ S!Init
  BY InitChannelInv, InitListener
<1>2. ChannelInv /\ ListenerInv /\ [Next]_vars => (ChannelInv /\ ListenerInv)'
  BY NextChannelInv, ListenerNext
<1>3. ChannelInv /\ ListenerInv /\ [Next]_vars => [S!Next]_(S!vars)
  BY ListenerNext
<1> QED BY <1>1, <1>2, <1>3, PTL DEF Spec, ImplementsSubscription, S!Spec
===============================================================================
