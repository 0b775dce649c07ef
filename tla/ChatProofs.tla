------------------------------ MODULE ChatProofs ------------------------------
(***************************************************************************)
(* What Chat keeps for every number of windows, browsers, rooms and        *)
(* connections: names are unique and kept, messages are signed by their    *)
(* window and published once, and the poll a join opens does not show it.  *)
(***************************************************************************)
EXTENDS Chat, FiniteSetTheorems, FunctionTheorems, SequenceTheorems, TLAPS

(* A subscription belongs to a poll of its window, in the same room. *)
SubscriptionInv ==
  \A q \in requests : q.kind = "subscribe" =>
    q.sender = "open" /\ q.poll \in DOMAIN polls[q.window] /\ polls[q.window][q.poll].room = q.room

TypeInv == TypeOK /\ SubscriptionInv

(* A name is given once: it was counted, and it is that of one window or of *)
(* one answer under way.                                                    *)
Given(q) == q.kind = "connect" /\ q.code = "ok"
Asks(q) == q.kind = "connect" /\ q.sender = "open"

CountedInv ==
  /\ \A w \in Windows : username[w] <= counter
  /\ \A q \in requests : Given(q) => q.name \in 1..counter

GivenInv ==
  /\ \A q \in requests : Given(q) => q.sender = "open"
  /\ \A q \in requests, w \in Windows : Given(q) => username[w] # q.name
  /\ \A p, q \in requests : Given(p) /\ Given(q) /\ p.name = q.name => p = q

(* Only a window without a name asks for one, once. *)
AskInv ==
  /\ \A q \in requests : Asks(q) => username[q.window] = Undefined
  /\ \A p, q \in requests : Asks(p) /\ Asks(q) /\ p.window = q.window => p = q

NameInv == CountedInv /\ GivenInv /\ AskInv /\ UniqueNames

(* A text has a number of its own, of those its window has submitted, and the *)
(* name its window had when it was submitted.                                *)
IsText(q) == q.kind \in {"join", "say"}
Signature(w, text) == IF text <= nameless[w] THEN Undefined ELSE username[w]

NumberInv ==
  /\ \A w \in Windows : nameless[w] <= submits[w]
  /\ \A q \in requests : IsText(q) => q.text <= submits[q.window]
  /\ \A r \in TabNames : \A i \in DOMAIN log[r] : log[r][i].text <= submits[log[r][i].window]

SignInv ==
  /\ NumberInv
  /\ \A q \in requests : IsText(q) => q.name = Signature(q.window, q.text)
  /\ \A r \in TabNames : \A i \in DOMAIN log[r] :
       log[r][i].name = Signature(log[r][i].window, log[r][i].text)

JoinInv ==
  /\ \A q \in requests : q.kind = "join" /\ q.code = "ok" => q.at <= Len(log[q.room])
  /\ \A w \in Windows : \A i \in DOMAIN polls[w] : polls[w][i].created <= Len(log[polls[w][i].room])
  /\ JoinNotEchoed

(* A text is one request or none; before it is handled it is in no log, and  *)
(* the answer to a join says where the join is, which no tab stands for yet. *)
Joined(q) == q.kind = "join" /\ q.code = "ok"
OneRequest ==
  \A p, q \in requests :
    IsText(p) /\ IsText(q) /\ p.window = q.window /\ p.text = q.text => p = q

NotPublished ==
  \A q \in requests : IsText(q) /\ q.code = "none" =>
    \A r \in TabNames : \A i \in DOMAIN log[r] :
      log[r][i].window = q.window => log[r][i].text # q.text

JoinedAt ==
  \A q \in requests : Joined(q) =>
    /\ q.at \in DOMAIN log[q.room]
    /\ log[q.room][q.at].window = q.window /\ log[q.room][q.at].text = q.text

NoTabYet ==
  \A q \in requests : Joined(q) =>
    \A i \in DOMAIN polls[q.window] :
      polls[q.window][i].room = q.room => polls[q.window][i].created # q.at

OnceInv == OneRequest /\ NotPublished /\ JoinedAt /\ NoTabYet /\ SentOnce

-----------------------------------------------------------------------------
(* Lemmas about the helpers.                                               *)

\* A request with another code, name or place in the log is a request.
LEMMA CodeType ==
  ASSUME NEW q \in Requests, NEW x \in {"none", "error", "ok"}
  PROVE  /\ [q EXCEPT !.code = x] \in Requests
         /\ [q EXCEPT !.code = x].code = x
         /\ [q EXCEPT !.code = x].window = q.window
         /\ [q EXCEPT !.code = x].kind = q.kind
         /\ [q EXCEPT !.code = x].room = q.room
         /\ [q EXCEPT !.code = x].name = q.name
         /\ [q EXCEPT !.code = x].text = q.text
         /\ [q EXCEPT !.code = x].at = q.at
         /\ [q EXCEPT !.code = x].sender = q.sender
BY DEF Requests


LEMMA NameType ==
  ASSUME NEW q \in Requests, NEW x \in Nat
  PROVE  /\ [q EXCEPT !.name = x] \in Requests
         /\ [q EXCEPT !.name = x].name = x
         /\ [q EXCEPT !.name = x].window = q.window
         /\ [q EXCEPT !.name = x].kind = q.kind
         /\ [q EXCEPT !.name = x].room = q.room
         /\ [q EXCEPT !.name = x].text = q.text
         /\ [q EXCEPT !.name = x].at = q.at
         /\ [q EXCEPT !.name = x].code = q.code
         /\ [q EXCEPT !.name = x].sender = q.sender
BY DEF Requests


LEMMA AtType ==
  ASSUME NEW q \in Requests, NEW x \in Nat
  PROVE  /\ [q EXCEPT !.at = x] \in Requests
         /\ [q EXCEPT !.at = x].at = x
         /\ [q EXCEPT !.at = x].window = q.window
         /\ [q EXCEPT !.at = x].kind = q.kind
         /\ [q EXCEPT !.at = x].room = q.room
         /\ [q EXCEPT !.at = x].name = q.name
         /\ [q EXCEPT !.at = x].text = q.text
         /\ [q EXCEPT !.at = x].code = q.code
         /\ [q EXCEPT !.at = x].sender = q.sender
BY DEF Requests

\* Polls after SetPoll: one of them has changed its phase and from.
LEMMA SetPollType ==
  ASSUME TypeOK, NEW w \in Windows, NEW i \in DOMAIN polls[w],
         NEW phase \in {"timer", "requested", "listening", "over"}, NEW from \in Nat,
         SetPoll(w, i, phase, from)
  PROVE  /\ polls' \in [Windows -> Seq(Polls)]
         /\ \A v \in Windows : DOMAIN polls'[v] = DOMAIN polls[v]
         /\ \A v \in Windows : \A j \in DOMAIN polls[v] :
              /\ polls'[v][j].room = polls[v][j].room
              /\ polls'[v][j].created = polls[v][j].created
              /\ <<v, j>> # <<w, i>> => polls'[v][j] = polls[v][j]
         /\ polls'[w][i].phase = phase /\ polls'[w][i].from = from
<1> DEFINE new == [polls[w][i] EXCEPT !.phase = phase, !.from = from]
<1>1. polls[w] \in Seq(Polls) /\ polls[w][i] \in Polls BY DEF TypeOK
<1>2. new \in Polls /\ new.room = polls[w][i].room /\ new.created = polls[w][i].created
      /\ new.phase = phase /\ new.from = from
  BY <1>1 DEF Polls
<1>3. polls' = [polls EXCEPT ![w] = [polls[w] EXCEPT ![i] = new]] BY DEF SetPoll
<1> HIDE DEF new
<1>4. [polls[w] EXCEPT ![i] = new] \in Seq(Polls)
      /\ DOMAIN [polls[w] EXCEPT ![i] = new] = DOMAIN polls[w]
  BY <1>1, <1>2
<1>5. QED BY <1>2, <1>3, <1>4 DEF TypeOK

\* The abandoned requests are requests that were there, here or no more.
LEMMA AbandonedType ==
  ASSUME TypeOK, NEW w \in Windows
  PROVE  /\ Abandoned(w) \subseteq Requests
         /\ \A q \in Abandoned(w) : q \notin requests => q.sender = "gone"
         /\ \A q \in Abandoned(w) : q \in requests => q.window # w \/ q.sender = "gone"
         /\ \A q \in Abandoned(w) : \E p \in requests :
              q = p \/ (q = [p EXCEPT !.sender = "gone"] /\ p.kind # "subscribe" /\ p.code = "none")
<1>1. requests \subseteq Requests BY DEF TypeOK
<1>2. \A q \in requests : [q EXCEPT !.sender = "gone"] \in Requests
      /\ [q EXCEPT !.sender = "gone"].sender = "gone"
  BY <1>1 DEF Requests
<1>3. QED BY <1>1, <1>2, Zenon DEF Abandoned

\* What a response leaves of the other requests.
LEMMA RespondType ==
  ASSUME TypeOK, NEW q \in requests, NEW r \in Requests, Respond(q, r)
  PROVE  /\ requests' \subseteq Requests
         /\ \A p \in requests' : p = r \/ p \in requests
BY DEF TypeOK, Respond

\* The number of names of the tabs is not more than the number of tabs.
LEMMA TabsType ==
  ASSUME TypeOK, NEW q \in requests, AddChannel(q)
  PROVE  /\ tabs' \in [Windows -> Seq(TabNames)]
         /\ active' \in [Windows -> Nat] /\ \A w \in Windows : active'[w] <= Len(tabs'[w])
<1> DEFINE new == Append(tabs[q.window], q.room)
           names == {new[i] : i \in DOMAIN new}
<1>1. q \in Requests /\ q.window \in Windows /\ q.room \in TabNames BY DEF TypeOK, Requests
<1>2. tabs[q.window] \in Seq(TabNames) BY <1>1 DEF TypeOK
<1>3. new \in Seq(TabNames) /\ Len(new) \in Nat /\ DOMAIN new = 1..Len(new) BY <1>1, <1>2
<1> HIDE DEF new
<1>4. IsFiniteSet(1..Len(new)) /\ Cardinality(1..Len(new)) = Len(new)
  BY <1>3, FS_Interval
<1>5. IsFiniteSet(names) /\ Cardinality(names) <= Cardinality(1..Len(new))
  <2>1. names = {new[i] : i \in 1..Len(new)} BY <1>3
  <2>2. new \in Surjection(1..Len(new), names) BY <2>1, <1>3 DEF Surjection
    <2>3. QED BY <2>2, <1>4, FS_Surjection
<1>6. Cardinality(names) \in Nat BY <1>5, FS_CardinalityType
<1>7. Cardinality(names) <= Len(new) BY <1>4, <1>5
<1>8. tabs' = [tabs EXCEPT ![q.window] = new] /\ active' = [active EXCEPT ![q.window] = Cardinality(names)]
  BY DEF AddChannel, new
<1> HIDE DEF names
<1>9. QED BY <1>1, <1>3, <1>6, <1>7, <1>8 DEF TypeOK

\* A new poll is appended to the polls of its window.
LEMMA AddPollType ==
  ASSUME TypeOK, NEW q \in requests, AddChannel(q)
  PROVE  /\ polls' \in [Windows -> Seq(Polls)]
         /\ \A w \in Windows : \A i \in DOMAIN polls[w] : i \in DOMAIN polls'[w] /\ polls'[w][i] = polls[w][i]
         /\ \A w \in Windows : \A i \in DOMAIN polls'[w] :
              \/ i \in DOMAIN polls[w]
              \/ /\ w = q.window /\ i = Len(polls[w]) + 1
                 /\ polls'[w][i] = [room |-> q.room, phase |-> "timer", created |-> q.at, from |-> 0]
<1> DEFINE new == [room |-> q.room, phase |-> "timer", created |-> q.at, from |-> 0]
<1>1. q \in Requests BY DEF TypeOK
<1>2. q.window \in Windows /\ new \in Polls BY <1>1 DEF Requests, Polls
<1> HIDE DEF new
<1>3. polls[q.window] \in Seq(Polls) BY <1>2 DEF TypeOK
<1>4. polls' = [polls EXCEPT ![q.window] = Append(polls[q.window], new)] BY DEF AddChannel, new
<1>5. /\ Append(polls[q.window], new) \in Seq(Polls)
      /\ \A i \in DOMAIN polls[q.window] : /\ i \in DOMAIN Append(polls[q.window], new)
                                           /\ Append(polls[q.window], new)[i] = polls[q.window][i]
      /\ \A i \in DOMAIN Append(polls[q.window], new) :
           \/ i \in DOMAIN polls[q.window]
           \/ i = Len(polls[q.window]) + 1 /\ Append(polls[q.window], new)[i] = new
  BY <1>2, <1>3
<1>6. \A w \in Windows :
        polls'[w] = IF w = q.window THEN Append(polls[q.window], new) ELSE polls[w]
  BY <1>2, <1>4 DEF TypeOK
<1>7. polls' \in [Windows -> Seq(Polls)]
  BY <1>2, <1>4, <1>5 DEF TypeOK
<1>8. QED BY <1>5, <1>6, <1>7 DEF new

-----------------------------------------------------------------------------
(* The type invariant.                                                     *)

LEMMA InitType ==
  ASSUME Init PROVE TypeInv
BY DEF Init, TypeInv, TypeOK, SubscriptionInv, TabNames, Undefined, Requests

LEMMA LoadType ==
  ASSUME TypeInv, NEW w \in Windows, Load(w) PROVE TypeInv'
<1>0. TypeOK /\ SubscriptionInv BY DEF TypeInv
<1>1. requests' \subseteq Requests /\ sent' \in Nat
      /\ \A q \in requests' : q \in Abandoned(w) \/ q.kind = "connect"
  <2>1. CASE username[w] = Undefined
    <3>1. requests' = Abandoned(w) \cup {Request(w, "connect", Status, 0, 0)} /\ sent' = NextId
      BY <2>1 DEF Load, FirstConnect, AskName
    <3>2. "connect" \in Kinds /\ Status \in TabNames BY DEF Kinds, TabNames
    <3> DEFINE r == Request(w, "connect", Status, 0, 0)
    <3>3. r \in Requests /\ r.kind = "connect" /\ NextId \in Nat
      BY <1>0, <3>2 DEF TypeOK, Request, Requests, NextId
    <3> HIDE DEF r
    <3>4. requests' = Abandoned(w) \cup {r} BY <3>1 DEF r
    <3>5. QED BY <1>0, <3>1, <3>3, <3>4, AbandonedType
  <2>2. CASE username[w] # Undefined
    BY <1>0, <2>2, AbandonedType DEF Load, FirstConnect, TypeOK
  <2>3. QED BY <2>1, <2>2
<1>2. \A q \in Abandoned(w) : q.kind = "subscribe" => q \in requests /\ q.window # w
  <2> SUFFICES ASSUME NEW q \in Abandoned(w), q.kind = "subscribe"
               PROVE  q \in requests /\ q.window # w
    OBVIOUS
  <2>1. PICK p \in requests : q = p \/ (q = [p EXCEPT !.sender = "gone"] /\ p.kind # "subscribe" /\ p.code = "none")
    BY <1>0, AbandonedType
  <2>2. p \in Requests BY <1>0 DEF TypeOK
  <2>3. [p EXCEPT !.sender = "gone"].kind = p.kind BY <2>2 DEF Requests
  <2>4. q \in requests BY <2>1, <2>3
  <2>5. q.sender = "open" BY <1>0, <2>4 DEF SubscriptionInv
  <2>6. QED BY <1>0, <2>4, <2>5, AbandonedType
<1>3. TypeOK'
  BY <1>0, <1>1, SMTT(30) DEF Load, TypeOK, redis, texts, TabNames
<1>4. SubscriptionInv'
  BY <1>0, <1>1, <1>2 DEF Load, TypeOK, SubscriptionInv, Requests
<1>5. QED BY <1>3, <1>4 DEF TypeInv

LEMMA SubmitType ==
  ASSUME TypeInv, NEW w \in Windows, Submit(w) PROVE TypeInv'
<1>0. TypeOK /\ SubscriptionInv BY DEF TypeInv
<1>1. PICK q \in {Request(w, "say", tabs[w][active[w]], submits[w] + 1, 0)}
                 \cup {Request(w, "join", r, submits[w] + 1, 0) : r \in Rooms} :
        requests' = requests \cup {q}
  BY DEF Submit
<1>2. tabs[w][active[w]] \in TabNames BY <1>0 DEF Submit, TypeOK
<1>3. q \in Requests /\ q.kind # "subscribe"
  <2>0. NextId \in Nat /\ username[w] \in Nat /\ submits[w] + 1 \in Nat BY <1>0 DEF TypeOK, NextId
  <2> DEFINE R(kind, room) == Request(w, kind, room, submits[w] + 1, 0)
  <2>1. \A kind \in {"say", "join"}, room \in TabNames :
          R(kind, room) \in Requests /\ R(kind, room).kind # "subscribe"
    BY <2>0 DEF Request, Requests, Kinds
  <2> HIDE DEF R
  <2>2. q = R("say", tabs[w][active[w]]) \/ \E r \in Rooms : q = R("join", r)
    BY <1>1 DEF R
  <2>3. QED BY <1>2, <2>1, <2>2 DEF TabNames
<1>a. requests' \subseteq Requests /\ NextId \in Nat
  BY <1>0, <1>1, <1>3 DEF TypeOK, NextId
<1>b. submits' \in [Windows -> Nat] /\ UNCHANGED nameless
  BY <1>0 DEF Submit, TypeOK
<1>4. TypeOK'
  BY <1>0, <1>a, <1>b DEF Submit, TypeOK, redis, page
<1>5. SubscriptionInv'
  BY <1>0, <1>1, <1>3 DEF Submit, SubscriptionInv
<1>6. QED BY <1>4, <1>5 DEF TypeInv

\* A subscription that is handled or lost leaves its poll in another phase.
LEMMA SubscriptionGone ==
  ASSUME TypeInv, NEW q \in requests, q.kind = "subscribe", requests' = requests \ {q},
         NEW phase \in {"timer", "requested", "listening", "over"}, NEW from \in Nat,
         SetPoll(q.window, q.poll, phase, from),
         UNCHANGED <<redis, username, loads, page, sent, texts>>
  PROVE  TypeInv'
<1>0. TypeOK /\ SubscriptionInv /\ q \in Requests BY DEF TypeInv, TypeOK
<1>1. q.window \in Windows /\ q.poll \in DOMAIN polls[q.window]
  BY <1>0 DEF SubscriptionInv, Requests
<1>2. /\ polls' \in [Windows -> Seq(Polls)]
      /\ \A v \in Windows : DOMAIN polls'[v] = DOMAIN polls[v]
      /\ \A v \in Windows : \A j \in DOMAIN polls[v] : polls'[v][j].room = polls[v][j].room
  BY <1>0, <1>1, SetPollType
<1>3. TypeOK' BY <1>0, <1>2 DEF TypeOK, redis, page, texts
<1>4. \A p \in requests' : p \in requests /\ p.window \in Windows BY <1>0 DEF TypeOK, Requests
<1>5. SubscriptionInv' BY <1>0, <1>2, <1>4 DEF SubscriptionInv
<1>6. QED BY <1>3, <1>5 DEF TypeInv

\* What the server does to a request and the polls.
LEMMA HandleType ==
  ASSUME TypeInv, NEW q \in requests, Handle(q) PROVE TypeInv'
<1>0. TypeOK /\ SubscriptionInv /\ q \in Requests BY DEF TypeInv, TypeOK
<1>1. ASSUME NEW r \in Requests, Respond(q, r), r.kind = q.kind, q.kind # "subscribe", UNCHANGED polls,
             counter' \in Nat, log' \in [TabNames -> Seq(Messages)]
      PROVE  TypeInv'
  <2>1. requests' \subseteq Requests /\ \A p \in requests' : p = r \/ p \in requests
    BY <1>0, <1>1, RespondType
  <2>2. TypeOK' BY <1>0, <1>1, <2>1 DEF Handle, TypeOK, page, texts
  <2>3. SubscriptionInv' BY <1>0, <1>1, <2>1 DEF SubscriptionInv
  <2>4. QED BY <2>2, <2>3 DEF TypeInv
<1>2. CASE Connect(q)
  <2> DEFINE a == [q EXCEPT !.code = "ok"]
             r == [a EXCEPT !.name = counter + 1]
  <2>1. counter + 1 \in Nat BY <1>0 DEF TypeOK
  <2>a. a \in Requests /\ a.kind = q.kind BY <1>0, CodeType
  <2> HIDE DEF a
  <2>2. r \in Requests /\ r.kind = q.kind BY <2>a, <2>1, NameType
  <2> HIDE DEF r
  <2>3. Respond(q, r) BY <1>2 DEF Connect, r, a
  <2>4. QED BY <1>0, <1>1, <1>2, <2>1, <2>2, <2>3 DEF Connect, TypeOK
<1>3. Publish(q) => log' \in [TabNames -> Seq(Messages)]
  <2> SUFFICES ASSUME Publish(q) PROVE log' \in [TabNames -> Seq(Messages)]
    OBVIOUS
  <2>1. q.room \in TabNames /\ [window |-> q.window, name |-> q.name, text |-> q.text] \in Messages
    BY <1>0 DEF Requests, Messages
  <2>2. Append(log[q.room], [window |-> q.window, name |-> q.name, text |-> q.text]) \in Seq(Messages)
    BY <1>0, <2>1 DEF TypeOK
  <2>3. QED BY <1>0, <2>1, <2>2 DEF Publish, TypeOK
<1>4. CASE Join(q)
  <2> DEFINE a == [q EXCEPT !.code = "ok"]
             r == [a EXCEPT !.at = Len(log[q.room]) + 1]
  <2>1. Len(log[q.room]) + 1 \in Nat BY <1>0 DEF Requests, TypeOK
  <2>a. a \in Requests /\ a.kind = q.kind BY <1>0, CodeType
  <2> HIDE DEF a
  <2>2. r \in Requests /\ r.kind = q.kind BY <2>a, <2>1, AtType
  <2> HIDE DEF r
  <2>3. Respond(q, r) BY <1>4 DEF Join, r, a
  <2>4. QED BY <1>0, <1>1, <1>3, <1>4, <2>2, <2>3 DEF Join, TypeOK
<1>5. CASE Say(q)
  <2> DEFINE r == [q EXCEPT !.code = "ok"]
  <2>1. r \in Requests /\ r.kind = q.kind BY <1>0, CodeType
  <2> HIDE DEF r
  <2>2. Respond(q, r) BY <1>5 DEF Say, r
  <2>3. QED BY <1>0, <1>1, <1>3, <1>5, <2>1, <2>2 DEF Say, TypeOK
<1>6. ASSUME Error(q), q.kind # "subscribe", UNCHANGED <<redis, polls>> PROVE TypeInv'
  <2> DEFINE r == [q EXCEPT !.code = "error"]
  <2>1. r \in Requests /\ r.kind = q.kind BY <1>0, CodeType
  <2> HIDE DEF r
  <2>2. Respond(q, r) BY <1>6 DEF Error, r
  <2>3. QED BY <1>0, <1>1, <1>6, <2>1, <2>2 DEF redis, TypeOK
<1>7. CASE RejectSay(q)
  BY <1>6, <1>7 DEF RejectSay
<1>8. CASE Subscribe(q)
  <2>1. Len(log[q.room]) \in Nat BY <1>0 DEF Requests, TypeOK
  <2>2. QED BY <1>8, <2>1, SubscriptionGone DEF Handle, Subscribe
<1>9. CASE Refuse(q)
  BY <1>6, <1>9, SubscriptionGone DEF Handle, Refuse, redis
<1>10. QED BY <1>2, <1>4, <1>5, <1>7, <1>8, <1>9 DEF Handle

LEMMA LoseType ==
  ASSUME TypeInv, NEW q \in requests, Lose(q) PROVE TypeInv'
<1>0. TypeOK /\ SubscriptionInv BY DEF TypeInv
<1>1. CASE q.kind = "subscribe"
  BY <1>1, SubscriptionGone DEF Lose
<1>2. CASE q.kind # "subscribe"
  <2>1. requests' \subseteq requests /\ UNCHANGED polls BY <1>2 DEF Lose
  <2>2. TypeOK' BY <1>0, <2>1 DEF Lose, TypeOK, redis, page, texts
  <2>3. SubscriptionInv' BY <1>0, <2>1 DEF SubscriptionInv
  <2>4. QED BY <2>2, <2>3 DEF TypeInv
<1>3. QED BY <1>1, <1>2

LEMMA CallbackType ==
  ASSUME TypeInv, NEW q \in requests, Callback(q) PROVE TypeInv'
<1>0. TypeOK /\ SubscriptionInv /\ q \in Requests BY DEF TypeInv, TypeOK
<1>1. requests' \subseteq requests BY DEF Callback, OnError, OnConnect, OnSend, Answer
<1>2. CASE UNCHANGED <<page, polls>>
  <2>1. username' \in [Windows -> Nat]
    BY <1>0 DEF Callback, OnError, OnConnect, OnSend, TypeOK, Requests
  <2>2. UNCHANGED <<redis, loads, sent, submits>> BY DEF Callback, OnError, OnConnect, OnSend, Answer
  <2>a. nameless' \in [Windows -> Nat]
    BY <1>0 DEF Callback, OnError, OnConnect, OnSend, TypeOK, Requests
  <2>3. TypeOK' BY <1>0, <1>1, <1>2, <2>1, <2>2, <2>a DEF TypeOK, redis, page
  <2>4. SubscriptionInv' BY <1>0, <1>1, <1>2 DEF SubscriptionInv
  <2>5. QED BY <2>3, <2>4 DEF TypeInv
<1>3. CASE OnSend(q) /\ AddChannel(q)
  <2>1. UNCHANGED <<redis, username, loads, sent, texts>> BY <1>3 DEF OnSend, Answer, texts
  <2>2. TypeOK' BY <1>0, <1>1, <1>3, <2>1, TabsType, AddPollType DEF TypeOK, redis, texts
  <2>3. \A p \in requests' : p \in requests /\ p.window \in Windows BY <1>0, <1>1 DEF TypeOK, Requests
  <2>4. SubscriptionInv' BY <1>0, <1>3, <2>3, AddPollType DEF SubscriptionInv
  <2>5. QED BY <2>2, <2>4 DEF TypeInv
<1>4. QED BY <1>2, <1>3 DEF Callback, OnError, OnConnect, OnSend

LEMMA PollType ==
  ASSUME TypeInv, NEW w \in Windows, Poll(w) PROVE TypeInv'
<1>0. TypeOK /\ SubscriptionInv BY DEF TypeInv
<1>1. ASSUME NEW i \in DOMAIN polls[w], StartPoll(w, i) PROVE TypeInv'
  <2>a. polls[w] \in Seq(Polls) /\ i \in 1..Len(polls[w]) BY <1>0 DEF TypeOK
  <2>b. polls[w][i] \in Polls BY <2>a
  <2>0. i \in Nat /\ polls[w][i].room \in TabNames BY <2>a, <2>b DEF Polls
  <2>1. NextId \in Nat /\ username[w] \in Nat BY <1>0 DEF TypeOK, NextId
  <2> DEFINE r == Request(w, "subscribe", polls[w][i].room, 0, i)
  <2>2. /\ r \in Requests /\ r.window = w /\ r.poll = i /\ r.room = polls[w][i].room
        /\ r.sender = "open"
    BY <2>0, <2>1 DEF Request, Requests, Kinds
  <2> HIDE DEF r
  <2>3. requests' = requests \cup {r} /\ sent' = NextId BY <1>1 DEF StartPoll, r
  <2>4. /\ polls' \in [Windows -> Seq(Polls)]
        /\ \A v \in Windows : DOMAIN polls'[v] = DOMAIN polls[v]
        /\ \A v \in Windows : \A j \in DOMAIN polls[v] : polls'[v][j].room = polls[v][j].room
    BY <1>0, <1>1, SetPollType DEF StartPoll
  <2>5. TypeOK' BY <1>0, <1>1, <2>1, <2>2, <2>3, <2>4 DEF StartPoll, TypeOK, redis, page, texts
  <2>6. \A p \in requests' : p = r \/ (p \in requests /\ p.window \in Windows)
    BY <1>0, <2>3 DEF TypeOK, Requests
  <2>7. SubscriptionInv' BY <1>0, <2>2, <2>4, <2>6 DEF SubscriptionInv
  <2>8. QED BY <2>5, <2>7 DEF TypeInv
<1>2. ASSUME NEW i \in DOMAIN polls[w], EndPoll(w, i) PROVE TypeInv'
  <2>1. /\ polls' \in [Windows -> Seq(Polls)]
        /\ \A v \in Windows : DOMAIN polls'[v] = DOMAIN polls[v]
        /\ \A v \in Windows : \A j \in DOMAIN polls[v] : polls'[v][j].room = polls[v][j].room
    BY <1>0, <1>2, SetPollType DEF EndPoll
  <2>2. TypeOK' BY <1>0, <1>2, <2>1 DEF EndPoll, TypeOK, redis, page, texts
  <2>3. \A p \in requests : p.window \in Windows BY <1>0 DEF TypeOK, Requests
  <2>4. UNCHANGED requests BY <1>2 DEF EndPoll
  <2>5. SubscriptionInv' BY <1>0, <2>1, <2>3, <2>4 DEF SubscriptionInv
  <2>6. QED BY <2>2, <2>5 DEF TypeInv
<1>3. QED BY <1>1, <1>2 DEF Poll

LEMMA NextType ==
  ASSUME TypeInv, [Next]_vars PROVE TypeInv'
<1>1. ASSUME NEW w \in Windows, ClickTab(w) PROVE TypeInv'
  <2>1. PICK i \in DOMAIN tabs[w] : active' = [active EXCEPT ![w] = i] BY <1>1 DEF ClickTab
  <2>2. TypeOK' BY <1>1, <2>1 DEF TypeInv, TypeOK, ClickTab, redis, texts
  <2>3. SubscriptionInv' BY <1>1 DEF TypeInv, SubscriptionInv, ClickTab
  <2>4. QED BY <2>2, <2>3 DEF TypeInv
<1>2. CASE UNCHANGED vars
  BY <1>2 DEF TypeInv, TypeOK, SubscriptionInv, vars, redis, page, texts
<1>3. QED
  BY <1>1, <1>2, LoadType, SubmitType, HandleType, LoseType, CallbackType, PollType DEF Next, Serve

\* Every variable keeps its type (chat.js, server.php): the active tab is a tab.
THEOREM ChatTypeCorrect == Spec => []TypeOK
<1>1. Spec => []TypeInv
  BY InitType, NextType, PTL DEF Spec
<1>2. TypeInv => TypeOK BY DEF TypeInv
<1>3. QED BY <1>1, <1>2, PTL

-----------------------------------------------------------------------------
(* Names.                                                                  *)

\* What Load leaves of a request has the fields it had.
LEMMA AbandonedFields ==
  ASSUME TypeOK, NEW w \in Windows, NEW q \in Abandoned(w)
  PROVE  \/ q \in requests /\ (q.window # w \/ q.sender = "gone")
         \/ q.sender = "gone" /\ \E p \in requests :
              /\ p.code = "none" /\ q.code = "none" /\ q.window = p.window /\ q.kind = p.kind
              /\ q.name = p.name /\ q.text = p.text
<1>1. CASE q \in requests BY <1>1, AbandonedType
<1>2. CASE q \notin requests
  <2>1. PICK p \in requests : q = [p EXCEPT !.sender = "gone"] /\ p.code = "none"
    BY <1>2, AbandonedType
  <2>2. p \in Requests BY DEF TypeOK
  <2>3. /\ [p EXCEPT !.sender = "gone"].sender = "gone" /\ [p EXCEPT !.sender = "gone"].code = p.code
        /\ [p EXCEPT !.sender = "gone"].window = p.window /\ [p EXCEPT !.sender = "gone"].kind = p.kind
        /\ [p EXCEPT !.sender = "gone"].name = p.name
        /\ [p EXCEPT !.sender = "gone"].text = p.text
    BY <2>2 DEF Requests
  <2>4. QED BY <2>1, <2>3
<1>3. QED BY <1>1, <1>2

\* Steps that add no connect request and give no name.
LEMMA NameStays ==
  ASSUME NameInv, UNCHANGED <<username, counter>>,
         \A q \in requests' : q.kind = "connect" => q \in requests
  PROVE  NameInv'
BY DEF NameInv, CountedInv, GivenInv, AskInv, UniqueNames, Given, Asks

LEMMA NameLoad ==
  ASSUME TypeOK, NameInv, NEW w \in Windows, Load(w) PROVE NameInv'
<1>1. UNCHANGED <<username, counter>> BY DEF Load, redis
<1>2. ASSUME NEW q \in Abandoned(w), q.kind = "connect"
      PROVE  \/ q \in requests /\ (Asks(q) => q.window # w)
             \/ ~Given(q) /\ ~Asks(q)
  BY <1>2, AbandonedFields DEF Given, Asks
<1>3. CASE username[w] # Undefined
  <2>1. requests' = Abandoned(w) BY <1>3 DEF Load, FirstConnect
  <2>2. QED BY <1>1, <1>2, <2>1 DEF NameInv, CountedInv, GivenInv, AskInv, UniqueNames, Given, Asks
<1>4. CASE username[w] = Undefined
  <2> DEFINE r == Request(w, "connect", Status, 0, 0)
  <2>1. r.window = w /\ r.code = "none" BY DEF Request
  <2> HIDE DEF r
  <2>2. requests' = Abandoned(w) \cup {r} BY <1>4 DEF Load, FirstConnect, AskName, r
  <2>3. CountedInv' BY <1>1, <1>2, <2>1, <2>2 DEF NameInv, CountedInv, Given
  <2>4. GivenInv' BY <1>1, <1>2, <2>1, <2>2 DEF NameInv, GivenInv, Given
  <2>5. AskInv' BY <1>1, <1>2, <1>4, <2>1, <2>2 DEF NameInv, AskInv, Asks
  <2>6. UniqueNames' BY <1>1 DEF NameInv, UniqueNames
  <2>7. QED BY <2>3, <2>4, <2>5, <2>6 DEF NameInv
<1>5. QED BY <1>3, <1>4

LEMMA NameHandle ==
  ASSUME TypeOK, NameInv, NEW q \in requests, Handle(q) PROVE NameInv'
<1>0. q \in Requests BY DEF TypeOK
<1>1. UNCHANGED username /\ q.code = "none" BY DEF Handle
<1>2. CASE Connect(q)
  <2> DEFINE a == [q EXCEPT !.code = "ok"]
             r == [a EXCEPT !.name = counter + 1]
  <2>0. counter \in Nat BY DEF TypeOK
  <2>1. a \in Requests /\ a.kind = q.kind /\ a.window = q.window /\ a.sender = q.sender
    BY <1>0, CodeType
  <2> HIDE DEF a
  <2>2. r.kind = q.kind /\ r.window = q.window /\ r.sender = q.sender /\ r.name = counter + 1
    BY <2>0, <2>1, NameType
  <2> HIDE DEF r
  <2>3. requests' = (requests \ {q}) \cup (IF q.sender = "open" THEN {r} ELSE {})
    BY <1>2 DEF Connect, Respond, r, a
  <2>4. counter' = counter + 1 /\ q.kind = "connect" BY <1>2 DEF Connect
  <2>5. \A w \in Windows : username[w] \in Nat BY DEF TypeOK
  <2>6. CountedInv'
    <3>1. \A w \in Windows : username[w] <= counter BY DEF NameInv, CountedInv
    <3>2. \A p \in requests : Given(p) => p.name \in 1..counter BY DEF NameInv, CountedInv
    <3>3. \A p \in requests' : p = r \/ p \in requests BY <2>3
    <3>4. QED BY <1>1, <2>0, <2>2, <2>4, <2>5, <3>1, <3>2, <3>3 DEF CountedInv, Given
  <2>7. GivenInv'
    <3>1. \A w \in Windows : username[w] # counter + 1 BY <2>0, <2>5 DEF NameInv, CountedInv
    <3>2. \A p \in requests : Given(p) => p.name # counter + 1 BY <2>0 DEF NameInv, CountedInv
    <3>3. \A p \in requests' : p \in requests \/ (p = r /\ q.sender = "open") BY <2>3
    <3>4. QED BY <1>1, <2>2, <3>1, <3>2, <3>3 DEF NameInv, GivenInv, Given
  <2>8. AskInv'
    <3>1. \A p \in requests' : (p \in requests /\ p # q) \/ (p = r /\ q.sender = "open") BY <2>3
    <3>2. QED BY <1>1, <2>2, <2>4, <3>1 DEF NameInv, AskInv, Asks
  <2>9. UniqueNames' BY <1>1 DEF NameInv, UniqueNames
  <2>10. QED BY <2>6, <2>7, <2>8, <2>9 DEF NameInv
<1>3. CASE ~Connect(q) /\ q.kind # "connect"
  <2>1. UNCHANGED counter BY <1>3 DEF Handle, Join, Say, RejectSay, Subscribe, Refuse, redis
  <2>2. ASSUME NEW r, r.kind = q.kind, Respond(q, r)
        PROVE  \A p \in requests' : p.kind = "connect" => p \in requests
    BY <1>3, <2>2 DEF Respond
  <2>3. /\ [q EXCEPT !.code = "ok"].kind = q.kind /\ [q EXCEPT !.code = "error"].kind = q.kind
        /\ [q EXCEPT !.code = "ok"] \in Requests
    BY <1>0, CodeType
  <2>4. [q EXCEPT !.code = "ok", !.at = Len(log[q.room]) + 1].kind = q.kind
    <3>1. Len(log[q.room]) + 1 \in Nat BY <1>0 DEF Requests, TypeOK
    <3> DEFINE a == [q EXCEPT !.code = "ok"]
    <3>2. a \in Requests /\ a.kind = q.kind BY <2>3
    <3> HIDE DEF a
    <3>3. [a EXCEPT !.at = Len(log[q.room]) + 1].kind = q.kind BY <3>1, <3>2, AtType
    <3>4. QED BY <3>3 DEF a
  <2>5. \A p \in requests' : p.kind = "connect" => p \in requests
    BY <1>3, <2>2, <2>3, <2>4 DEF Handle, Join, Say, RejectSay, Subscribe, Refuse, Error
  <2>6. QED BY <1>1, <2>1, <2>5, NameStays
<1>4. CASE ~Connect(q) /\ q.kind = "connect"
  <2> DEFINE r == [q EXCEPT !.code = "error"]
  <2>1. r.kind = q.kind /\ r.window = q.window /\ r.sender = q.sender /\ r.code = "error"
    BY <1>0, CodeType
  <2> HIDE DEF r
  <2>2. Respond(q, r) /\ UNCHANGED counter
    BY <1>4 DEF Handle, Join, Say, RejectSay, Subscribe, Refuse, Error, redis, r
  <2>3. \A p \in requests' : (p \in requests /\ p # q) \/ p = r BY <2>2 DEF Respond
  <2>4. QED
    BY <1>1, <1>4, <2>1, <2>2, <2>3 DEF NameInv, CountedInv, GivenInv, AskInv, UniqueNames, Given, Asks
<1>5. QED BY <1>2, <1>3, <1>4 DEF Connect

\* A name is given to a window that had none.
LEMMA NameCallback ==
  ASSUME TypeOK, NameInv, NEW q \in requests, Callback(q)
  PROVE  /\ NameInv'
         /\ \/ UNCHANGED username
            \/ q.window \in Windows /\ username[q.window] = Undefined /\ username' = [username EXCEPT ![q.window] = q.name]
<1>0. q \in Requests BY DEF TypeOK
<1>1. requests' = requests \ {q} /\ UNCHANGED counter
  BY DEF Callback, OnError, OnConnect, OnSend, Answer, redis
<1>2. CASE OnConnect(q)
  <2>1. Given(q) /\ username' = [username EXCEPT ![q.window] = q.name] BY <1>2 DEF OnConnect, Given
  <2>2. Asks(q) /\ q.window \in Windows BY <1>0, <2>1 DEF NameInv, GivenInv, Given, Asks, Requests
  <2>3. username[q.window] = Undefined BY <2>2 DEF NameInv, AskInv
  <2>4. \A w \in Windows : username'[w] = IF w = q.window THEN q.name ELSE username[w]
    BY <2>1 DEF TypeOK
  <2>a. counter \in Nat BY DEF TypeOK
  <2>b. q.name \in 1..counter /\ \A w \in Windows : username[w] <= counter
    BY <2>1 DEF NameInv, CountedInv
  <2>c. \A w \in Windows : username'[w] <= counter BY <2>a, <2>b, <2>4
  <2>d. \A p \in requests' : Given(p) => p.name \in 1..counter BY <1>1 DEF NameInv, CountedInv
  <2>5. CountedInv' BY <1>1, <2>c, <2>d DEF CountedInv, Given
  <2>6. GivenInv' BY <1>1, <2>1, <2>4 DEF NameInv, GivenInv
  <2>7. \A p \in requests' : Asks(p) => p.window # q.window BY <1>1, <2>2 DEF NameInv, AskInv
  <2>8. \A p \in requests' : p \in requests /\ p.window \in Windows BY <1>1 DEF TypeOK, Requests
  <2>9. AskInv' BY <2>4, <2>7, <2>8 DEF NameInv, AskInv
  <2>10. UniqueNames' BY <2>1, <2>4 DEF NameInv, UniqueNames, GivenInv
  <2>11. QED BY <2>1, <2>2, <2>3, <2>5, <2>6, <2>9, <2>10 DEF NameInv
<1>3. CASE ~OnConnect(q)
  <2>1. UNCHANGED username BY <1>3 DEF Callback, OnError, OnSend
  <2>2. QED BY <1>1, <2>1, NameStays
<1>4. QED BY <1>2, <1>3

\* Only a callback gives a name.
LEMMA NameNext ==
  ASSUME TypeOK, NameInv, [Next]_vars
  PROVE  /\ NameInv'
         /\ \/ UNCHANGED username
            \/ \E w \in Windows, n \in Nat :
                 username[w] = Undefined /\ username' = [username EXCEPT ![w] = n]
<1>1. ASSUME NEW w \in Windows, Load(w) PROVE NameInv' /\ UNCHANGED username
  BY <1>1, NameLoad DEF Load
<1>2. ASSUME NEW w \in Windows, ClickTab(w) PROVE NameInv' /\ UNCHANGED username
  BY <1>2, NameStays DEF ClickTab, redis
<1>3. ASSUME NEW w \in Windows, Submit(w) PROVE NameInv' /\ UNCHANGED username
  <2>1. \A q \in requests' : q.kind = "connect" => q \in requests
    BY <1>3 DEF Submit, Request
  <2>2. QED BY <1>3, <2>1, NameStays DEF Submit, redis
<1>4. ASSUME NEW w \in Windows, Poll(w) PROVE NameInv' /\ UNCHANGED username
  <2>1. PICK i \in DOMAIN polls[w] : StartPoll(w, i) \/ EndPoll(w, i) BY <1>4 DEF Poll
  <2>2. UNCHANGED <<username, counter>> BY <2>1 DEF StartPoll, EndPoll, redis
  <2>3. \A q \in requests' : q.kind = "connect" => q \in requests
    BY <2>1 DEF StartPoll, EndPoll, Request
  <2>4. QED BY <2>2, <2>3, NameStays
<1>5. ASSUME NEW q \in requests, Handle(q) PROVE NameInv' /\ UNCHANGED username
  BY <1>5, NameHandle DEF Handle
<1>6. ASSUME NEW q \in requests, Lose(q) PROVE NameInv' /\ UNCHANGED username
  BY <1>6, NameStays DEF Lose, redis
<1>7. CASE UNCHANGED vars
  BY <1>7, NameStays DEF vars, redis
<1>8. ASSUME NEW q \in requests, Callback(q)
      PROVE  /\ NameInv'
             /\ \/ UNCHANGED username
                \/ \E w \in Windows, n \in Nat :
                     username[w] = Undefined /\ username' = [username EXCEPT ![w] = n]
  <2>1. q.name \in Nat BY DEF TypeOK, Requests
  <2>2. QED BY <1>8, <2>1, NameCallback
<1>9. QED BY <1>1, <1>2, <1>3, <1>4, <1>5, <1>6, <1>7, <1>8 DEF Next, Serve

LEMMA NamesInvariant == Spec => [](TypeInv /\ NameInv)
<1>1. Init => NameInv
  BY DEF Init, NameInv, CountedInv, GivenInv, AskInv, UniqueNames, Undefined
<1>2. TypeInv /\ NameInv /\ [Next]_vars => TypeInv' /\ NameInv'
  BY NextType, NameNext DEF TypeInv
<1>3. QED BY <1>1, <1>2, InitType, PTL DEF Spec

\* No two windows have the same name (server.php:39, chat.js:10-28).
THEOREM UniqueNamesCorrect == Spec => []UniqueNames
<1>1. NameInv => UniqueNames BY DEF NameInv
<1>2. QED BY <1>1, NamesInvariant, PTL

\* A window keeps its name (chat.js:10, :28).
THEOREM NameKeptCorrect == Spec => NameKept
<1>1. ASSUME TypeInv, NameInv, [Next]_vars
      PROVE  [\A w \in Windows : username[w] # Undefined => username'[w] = username[w]]_vars
  <2>1. CASE UNCHANGED username BY <2>1
  <2>2. CASE \E v \in Windows, n \in Nat :
               username[v] = Undefined /\ username' = [username EXCEPT ![v] = n]
    BY <1>1, <2>2 DEF TypeInv, TypeOK
  <2>3. QED BY <1>1, <2>1, <2>2, NameNext DEF TypeInv
<1>2. QED BY <1>1, NamesInvariant, PTL DEF Spec, NameKept

-----------------------------------------------------------------------------
(* Signatures and joins.                                                   *)

\* What a request of the next state has to do with one of this state.
LEMMA Origin ==
  ASSUME TypeOK, [Next]_vars, NEW p \in requests', IsText(p)
  PROVE  \/ /\ p.window \in Windows /\ p.name = username[p.window] /\ p.code = "none"
            /\ p.text = submits[p.window] + 1
            /\ submits' = [submits EXCEPT ![p.window] = @ + 1]
         \/ \E q \in requests :
              /\ p.window = q.window /\ p.kind = q.kind /\ p.name = q.name /\ p.text = q.text
              /\ \/ p.code = q.code /\ p.room = q.room /\ p.at = q.at
                 \/ p.code = "none" /\ q.code = "none"
                 \/ p.code = "error"
                 \/ p.code = "ok" /\ p.kind = "say"
                 \/ p.room = q.room /\ p.at = Len(log[q.room]) + 1 /\ Publish(q) /\ p.code = "ok"
<1> DEFINE Same(q) == p.window = q.window /\ p.kind = q.kind /\ p.name = q.name /\ p.text = q.text
           Changed(q) == \/ p.code = "error"
                         \/ p.code = "ok" /\ p.kind = "say"
                         \/ p.room = q.room /\ p.at = Len(log[q.room]) + 1 /\ Publish(q) /\ p.code = "ok"
           New == /\ p.window \in Windows /\ p.name = username[p.window] /\ p.code = "none"
                  /\ p.text = submits[p.window] + 1
                  /\ submits' = [submits EXCEPT ![p.window] = @ + 1]
<1>0. \A q \in requests : q \in Requests BY DEF TypeOK
<1>1. CASE p \in requests BY <1>1
<1> SUFFICES ASSUME p \notin requests PROVE
         \/ New
         \/ \E q \in requests : Same(q) /\ ((p.code = "none" /\ q.code = "none") \/ Changed(q))
  BY <1>1
<1>2. ASSUME NEW w \in Windows, Load(w)
      PROVE  \E q \in requests : Same(q) /\ p.code = "none" /\ q.code = "none"
  <2>1. p \in Abandoned(w) BY <1>2 DEF Load, FirstConnect, AskName, Request, IsText
  <2>2. QED BY <2>1, AbandonedFields
<1>3. ASSUME NEW w \in Windows, Submit(w) PROVE New
  <2>1. PICK q \in {Request(w, "say", tabs[w][active[w]], submits[w] + 1, 0)}
                  \cup {Request(w, "join", r, submits[w] + 1, 0) : r \in Rooms} :
          requests' = requests \cup {q}
    BY <1>3 DEF Submit
  <2>2. p = q BY <2>1
  <2>3. /\ p.window = w /\ p.name = username[w] /\ p.code = "none" /\ p.text = submits[w] + 1
    BY <2>1, <2>2 DEF Request
  <2>4. QED BY <1>3, <2>3 DEF Submit
<1>4. ASSUME NEW w \in Windows, Poll(w) PROVE FALSE
  BY <1>4 DEF Poll, StartPoll, EndPoll, Request, IsText
<1>5. ASSUME NEW q \in requests, Handle(q) PROVE Same(q) /\ Changed(q)
  <2>1. q \in Requests BY <1>0
  <2> DEFINE a == [q EXCEPT !.code = "ok"]
             e == [q EXCEPT !.code = "error"]
             j == [a EXCEPT !.at = Len(log[q.room]) + 1]
  <2>2. /\ a \in Requests /\ a.kind = q.kind /\ a.window = q.window /\ a.name = q.name /\ a.room = q.room
        /\ a.text = q.text /\ a.code = "ok"
    BY <2>1, CodeType
  <2>3. e.kind = q.kind /\ e.window = q.window /\ e.name = q.name /\ e.text = q.text /\ e.code = "error"
    BY <2>1, CodeType
  <2> HIDE DEF a, e
  <2>4. Len(log[q.room]) + 1 \in Nat BY <2>1 DEF Requests, TypeOK
  <2>5. /\ j.kind = q.kind /\ j.window = q.window /\ j.name = q.name /\ j.room = q.room
        /\ j.text = q.text /\ j.code = "ok" /\ j.at = Len(log[q.room]) + 1
    BY <2>2, <2>4, AtType
  <2> HIDE DEF j
  <2>6. CASE Connect(q)
    <3> DEFINE r == [a EXCEPT !.name = counter + 1]
    <3>1. counter + 1 \in Nat BY DEF TypeOK
    <3>2. r.kind = q.kind BY <2>2, <3>1, NameType
    <3> HIDE DEF r
    <3>3. Respond(q, r) /\ q.kind = "connect" BY <2>6 DEF Connect, r, a
    <3>4. QED BY <3>2, <3>3 DEF Respond, IsText
  <2>7. CASE Join(q)
    <3>1. Respond(q, j) /\ Publish(q) BY <2>7 DEF Join, j, a
    <3>2. p = j BY <3>1 DEF Respond
    <3>3. QED BY <2>5, <3>1, <3>2
  <2>8. CASE Say(q)
    <3>1. Respond(q, a) /\ q.kind = "say" BY <2>8 DEF Say, a
    <3>2. p = a BY <3>1 DEF Respond
    <3>3. QED BY <2>2, <3>1, <3>2
  <2>9. CASE Error(q)
    <3>1. Respond(q, e) BY <2>9 DEF Error, e
    <3>2. p = e BY <3>1 DEF Respond
    <3>3. QED BY <2>3, <3>2
  <2>10. QED
    BY <1>5, <2>6, <2>7, <2>8, <2>9 DEF Handle, RejectSay, Subscribe, Refuse
<1>6. ASSUME NEW q \in requests, Lose(q) \/ Callback(q) PROVE FALSE
  BY <1>6 DEF Lose, Callback, OnError, OnConnect, OnSend, Answer
<1>7. ASSUME UNCHANGED vars \/ \E w \in Windows : ClickTab(w) PROVE FALSE
  BY <1>7 DEF vars, ClickTab
<1>8. QED BY <1>2, <1>3, <1>4, <1>5, <1>6, <1>7 DEF Next, Serve

\* The logs only grow, by the message of a text that was not handled before and
\* is now.
LEMMA LogGrows ==
  ASSUME TypeOK, [Next]_vars
  PROVE  \/ UNCHANGED log
         \/ \E q \in requests :
              /\ IsText(q) /\ q.code = "none" /\ Publish(q)
              /\ UNCHANGED <<username, texts, polls>>
              /\ \A p \in requests' : p.code = "none" => p \in requests /\ p # q
<1>1. ASSUME NEW q \in requests, Handle(q), ~UNCHANGED log
      PROVE  /\ IsText(q) /\ q.code = "none" /\ Publish(q)
             /\ UNCHANGED <<username, texts, polls>>
             /\ \A p \in requests' : p.code = "none" => p \in requests /\ p # q
  <2>0. q \in Requests BY DEF TypeOK
  <2>1. Join(q) \/ Say(q)
    BY <1>1 DEF Handle, Connect, RejectSay, Subscribe, Refuse, redis
  <2>2. IsText(q) /\ q.code = "none" /\ Publish(q) /\ UNCHANGED <<username, texts, polls>>
    BY <1>1, <2>1 DEF Handle, Join, Say, IsText
  <2> DEFINE a == [q EXCEPT !.code = "ok"]
             j == [a EXCEPT !.at = Len(log[q.room]) + 1]
  <2>3. a \in Requests /\ a.code = "ok" BY <2>0, CodeType
  <2>4. Len(log[q.room]) + 1 \in Nat BY <2>0 DEF Requests, TypeOK
  <2> HIDE DEF a
  <2>5. j.code = "ok" BY <2>3, <2>4, AtType
  <2> HIDE DEF j
  <2>6. Respond(q, j) \/ Respond(q, a) BY <2>1 DEF Join, Say, j, a
  <2>7. QED BY <2>2, <2>3, <2>5, <2>6 DEF Respond
<1>2. ASSUME NEW q \in requests, Lose(q) \/ Callback(q) PROVE UNCHANGED log
  BY <1>2 DEF Lose, Callback, OnError, OnConnect, OnSend, Answer, redis
<1>3. ASSUME NEW w \in Windows, Load(w) \/ ClickTab(w) \/ Submit(w) \/ Poll(w) PROVE UNCHANGED log
  BY <1>3 DEF Load, ClickTab, Submit, Poll, StartPoll, EndPoll, redis
<1>4. CASE UNCHANGED vars BY <1>4 DEF vars, redis
<1>5. QED BY <1>1, <1>2, <1>3, <1>4 DEF Next, Serve

\* A published message is the last of its log.
LEMMA PublishType ==
  ASSUME TypeOK, NEW q \in requests, Publish(q)
  PROVE  \A r \in TabNames :
           /\ Len(log[r]) \in Nat /\ Len(log'[r]) \in Nat /\ Len(log[r]) <= Len(log'[r])
           /\ q.room = r => Len(log'[r]) = Len(log[r]) + 1
           /\ \A i \in DOMAIN log[r] : i \in DOMAIN log'[r] /\ log'[r][i] = log[r][i]
           /\ \A i \in DOMAIN log'[r] :
                \/ i \in DOMAIN log[r] /\ log'[r][i] = log[r][i]
                \/ /\ r = q.room /\ i = Len(log[r]) + 1
                   /\ log'[r][i].window = q.window /\ log'[r][i].name = q.name
                   /\ log'[r][i].text = q.text
<1> DEFINE m == [window |-> q.window, name |-> q.name, text |-> q.text]
<1>1. q.room \in TabNames /\ m \in Messages BY DEF TypeOK, Requests, Messages
<1>2. m.window = q.window /\ m.name = q.name /\ m.text = q.text OBVIOUS
<1> HIDE DEF m
<1>3. log' = [log EXCEPT ![q.room] = Append(log[q.room], m)] BY DEF Publish, m
<1> TAKE r \in TabNames
<1>4. log[r] \in Seq(Messages) BY DEF TypeOK
<1>5. CASE r = q.room
  <2> DEFINE l == log[r]
  <2>1. log'[r] = Append(l, m) BY <1>1, <1>3, <1>5 DEF TypeOK
  <2> HIDE DEF l
  <2>2. l \in Seq(Messages) BY <1>4 DEF l
  <2>3. /\ Len(l) \in Nat /\ Len(Append(l, m)) = Len(l) + 1
        /\ \A i \in DOMAIN l : i \in DOMAIN Append(l, m) /\ Append(l, m)[i] = l[i]
        /\ \A i \in DOMAIN Append(l, m) :
             \/ i \in DOMAIN l /\ Append(l, m)[i] = l[i]
             \/ i = Len(l) + 1 /\ Append(l, m)[i] = m
    BY <1>1, <2>2
  <2>4. QED BY <1>2, <1>5, <2>1, <2>3 DEF l
<1>6. CASE r # q.room
  <2>1. log'[r] = log[r] BY <1>3, <1>6 DEF TypeOK
  <2>2. QED BY <1>4, <1>6, <2>1
<1>7. QED BY <1>5, <1>6

\* The number of texts only grows, and a window that gets its name has sent all
\* of them without one.
LEMMA NumberNext ==
  ASSUME TypeOK, NameInv, [Next]_vars
  PROVE  /\ \A w \in Windows : /\ submits[w] \in Nat /\ submits'[w] \in Nat
                              /\ nameless[w] \in Nat /\ nameless'[w] \in Nat
                              /\ submits[w] <= submits'[w]
         /\ \/ UNCHANGED <<username, nameless>>
            \/ \E w \in Windows :
                 /\ username[w] = Undefined /\ UNCHANGED submits
                 /\ \E n \in Nat : username' = [username EXCEPT ![w] = n]
                 /\ nameless' = [nameless EXCEPT ![w] = submits[w]]
<1>1. submits \in [Windows -> Nat] /\ nameless \in [Windows -> Nat] BY DEF TypeOK
<1> DEFINE Stays == UNCHANGED <<username, nameless>>
           Grows == \A w \in Windows : submits'[w] \in Nat /\ submits[w] <= submits'[w]
           Named == \E w \in Windows :
                      /\ username[w] = Undefined /\ UNCHANGED submits
                      /\ \E n \in Nat : username' = [username EXCEPT ![w] = n]
                      /\ nameless' = [nameless EXCEPT ![w] = submits[w]]
<1>2. UNCHANGED submits => Grows BY <1>1
<1>3. ASSUME NEW w \in Windows, Submit(w) PROVE Stays /\ Grows
  BY <1>1, <1>3 DEF Submit
<1>4. ASSUME NEW w \in Windows, Load(w) \/ ClickTab(w) \/ Poll(w)
      PROVE  Stays /\ UNCHANGED submits
  BY <1>4 DEF Load, ClickTab, Poll, StartPoll, EndPoll, texts
<1>5. ASSUME NEW q \in requests, Handle(q) \/ Lose(q)
      PROVE  Stays /\ UNCHANGED submits
  BY <1>5 DEF Handle, Lose, texts
<1>6. ASSUME NEW q \in requests, Callback(q)
      PROVE  (Stays \/ Named) /\ UNCHANGED submits
  <2>1. UNCHANGED submits BY <1>6 DEF Callback, OnError, OnConnect, OnSend, Answer
  <2>2. CASE OnConnect(q)
    <3>1. /\ username' = [username EXCEPT ![q.window] = q.name]
          /\ nameless' = [nameless EXCEPT ![q.window] = submits[q.window]]
          /\ Given(q)
      BY <2>2 DEF OnConnect, Given
    <3>2. q.window \in Windows /\ q.name \in Nat BY DEF TypeOK, Requests
    <3>3. Asks(q) BY <3>1 DEF NameInv, GivenInv, Given, Asks
    <3>4. username[q.window] = Undefined BY <3>3 DEF NameInv, AskInv
    <3>5. QED BY <2>1, <3>1, <3>2, <3>4
  <2>3. CASE ~OnConnect(q) BY <1>6, <2>1, <2>3 DEF Callback, OnError, OnSend
  <2>4. QED BY <2>1, <2>2, <2>3
<1>7. UNCHANGED vars => Stays /\ UNCHANGED submits BY DEF vars, texts
<1>8. (Stays \/ Named) /\ Grows
  BY <1>2, <1>3, <1>4, <1>5, <1>6, <1>7 DEF Next, Serve
<1>9. \A w \in Windows : nameless'[w] \in Nat BY <1>1, <1>8
<1>10. QED BY <1>1, <1>8, <1>9

\* A signature holds for ever.
LEMMA SignatureStays ==
  ASSUME TypeOK, NameInv, NumberInv, [Next]_vars, NEW w \in Windows,
         NEW text \in Nat, text <= submits[w]
  PROVE  /\ (IF text <= nameless'[w] THEN Undefined ELSE username'[w]) = Signature(w, text)
         /\ text <= submits'[w]
<1>1. submits[w] \in Nat /\ submits'[w] \in Nat /\ submits[w] <= submits'[w] BY NumberNext
<1>2. CASE UNCHANGED <<username, nameless>>
  BY <1>1, <1>2 DEF Signature
<1>3. CASE \E v \in Windows :
             /\ username[v] = Undefined
             /\ \E n \in Nat : username' = [username EXCEPT ![v] = n]
             /\ nameless' = [nameless EXCEPT ![v] = submits[v]]
  BY <1>1, <1>3 DEF Signature, TypeOK
<1>4. QED BY <1>2, <1>3, NumberNext

LEMMA SignNext ==
  ASSUME TypeOK, NameInv, SignInv, [Next]_vars PROVE SignInv'
<1> DEFINE Later(w, text) == IF text <= nameless'[w] THEN Undefined ELSE username'[w]
<1>0. NumberInv BY DEF SignInv
<1>1. \A w \in Windows : nameless'[w] <= submits'[w]
  <2> SUFFICES ASSUME NEW w \in Windows PROVE nameless'[w] <= submits'[w]
    OBVIOUS
  <2>1. nameless[w] <= submits[w] BY <1>0 DEF NumberInv
  <2>2. QED BY <2>1, NumberNext, SMTT(30) DEF TypeOK
<1>2. ASSUME NEW q \in requests', IsText(q)
      PROVE  q.name = Later(q.window, q.text) /\ q.text <= submits'[q.window]
  <2>1. CASE /\ q.window \in Windows /\ q.name = username[q.window]
             /\ q.text = submits[q.window] + 1
             /\ submits' = [submits EXCEPT ![q.window] = @ + 1]
    <3>1. submits \in [Windows -> Nat] /\ nameless \in [Windows -> Nat] BY DEF TypeOK
    <3>2. submits'[q.window] # submits[q.window] BY <2>1, <3>1
    <3>3. UNCHANGED <<username, nameless>> BY <3>2, NumberNext
    <3>4. nameless[q.window] <= submits[q.window] BY <1>0, <2>1 DEF NumberInv
    <3>5. QED BY <2>1, <3>1, <3>3, <3>4 DEF Signature
  <2>2. CASE \E p \in requests :
               q.window = p.window /\ q.kind = p.kind /\ q.name = p.name /\ q.text = p.text
    <3>1. PICK p \in requests :
            q.window = p.window /\ q.kind = p.kind /\ q.name = p.name /\ q.text = p.text
      BY <2>2
    <3>2. IsText(p) BY <1>2, <3>1 DEF IsText
    <3>3. /\ p.name = Signature(p.window, p.text) /\ p.text <= submits[p.window]
          /\ p.window \in Windows /\ p.text \in Nat
      BY <3>1, <3>2 DEF SignInv, NumberInv, TypeOK, Requests
    <3>4. QED BY <1>0, <3>1, <3>3, SignatureStays
  <2>3. QED BY <1>2, <2>1, <2>2, Origin
<1>3. ASSUME NEW r \in TabNames, NEW i \in DOMAIN log'[r]
      PROVE  /\ log'[r][i].name = Later(log'[r][i].window, log'[r][i].text)
             /\ log'[r][i].text <= submits'[log'[r][i].window]
  <2>1. CASE i \in DOMAIN log[r] /\ log'[r][i] = log[r][i]
    <3>1. /\ log[r][i].name = Signature(log[r][i].window, log[r][i].text)
          /\ log[r][i].text <= submits[log[r][i].window]
      BY <2>1 DEF SignInv, NumberInv
    <3>2. log[r] \in Seq(Messages) BY DEF TypeOK
    <3>3. log[r][i] \in Messages BY <2>1, <3>2
    <3>4. log[r][i].window \in Windows /\ log[r][i].text \in Nat BY <3>3 DEF Messages
    <3>5. QED BY <1>0, <2>1, <3>1, <3>4, SignatureStays
  <2>2. CASE \E q \in requests : /\ IsText(q) /\ log'[r][i].window = q.window
                               /\ log'[r][i].name = q.name /\ log'[r][i].text = q.text
    <3>1. PICK q \in requests : /\ IsText(q) /\ log'[r][i].window = q.window
                               /\ log'[r][i].name = q.name /\ log'[r][i].text = q.text
      BY <2>2
    <3>2. /\ q.name = Signature(q.window, q.text) /\ q.text <= submits[q.window]
          /\ q.window \in Windows /\ q.text \in Nat
      BY <3>1 DEF SignInv, NumberInv, TypeOK, Requests
    <3>3. QED BY <1>0, <3>1, <3>2, SignatureStays
  <2>3. QED BY <2>1, <2>2, LogGrows, PublishType
<1>4. QED BY <1>1, <1>2, <1>3 DEF SignInv, NumberInv, Signature

LEMMA SignInvariant == Spec => []SignInv
<1>1. Init => SignInv
  BY DEF Init, SignInv, NumberInv
<1>2. TypeInv /\ NameInv /\ SignInv /\ [Next]_vars => SignInv'
  BY SignNext DEF TypeInv
<1>3. QED BY <1>1, <1>2, NamesInvariant, PTL DEF Spec

\* What is published is signed by its window, and by nobody only when it was sent
\* before the window had its name (chat.js:28, :36, server.php:64-89).
THEOREM SignedByOwnerCorrect == Spec => []SignedByOwner
<1>1. SignInv => SignedByOwner BY DEF SignInv, SignedByOwner, Signature
<1>2. QED BY <1>1, SignInvariant, PTL

\* What a step does to one poll: it stays in its room with the join that made it,
\* and when it begins to listen, it is from the end of the log.
LEMMA PollNext ==
  ASSUME TypeInv, [Next]_vars, NEW w \in Windows, NEW i \in DOMAIN polls'[w]
  PROVE  \/ /\ i \in DOMAIN polls[w]
            /\ polls'[w][i].room = polls[w][i].room /\ polls'[w][i].created = polls[w][i].created
            /\ polls'[w][i].phase = "listening" =>
                 \/ polls'[w][i] = polls[w][i]
                 \/ polls'[w][i].from = Len(log[polls[w][i].room])
         \/ \E q \in requests :
              /\ q.kind = "join" /\ q.code = "ok"
              /\ polls'[w][i].room = q.room /\ polls'[w][i].created = q.at
              /\ polls'[w][i].phase # "listening"
<1> DEFINE Old == /\ i \in DOMAIN polls[w]
                  /\ polls'[w][i].room = polls[w][i].room /\ polls'[w][i].created = polls[w][i].created
                  /\ polls'[w][i].phase = "listening" =>
                       \/ polls'[w][i] = polls[w][i]
                       \/ polls'[w][i].from = Len(log[polls[w][i].room])
           New == \E q \in requests :
                    /\ q.kind = "join" /\ q.code = "ok"
                    /\ polls'[w][i].room = q.room /\ polls'[w][i].created = q.at
                    /\ polls'[w][i].phase # "listening"
<1>0. TypeOK /\ SubscriptionInv BY DEF TypeInv
<1>1. CASE UNCHANGED polls BY <1>1
<1>2. ASSUME NEW v \in Windows, NEW j \in DOMAIN polls[v],
             NEW phase \in {"requested", "listening", "over"}, NEW from \in Nat,
             SetPoll(v, j, phase, from),
             phase = "listening" => from = Len(log[polls[v][j].room])
      PROVE  Old
  BY <1>0, <1>2, SetPollType
<1>3. ASSUME NEW q \in requests, Handle(q) PROVE Old
  <2>1. CASE q.kind = "subscribe" /\ ~UNCHANGED polls
    <3>1. /\ q.window \in Windows /\ q.poll \in DOMAIN polls[q.window]
          /\ polls[q.window][q.poll].room = q.room /\ q.room \in TabNames
      BY <1>0, <2>1 DEF SubscriptionInv, TypeOK, Requests
    <3>2. Len(log[q.room]) \in Nat BY <1>0, <3>1 DEF TypeOK
    <3>3. \/ SetPoll(q.window, q.poll, "listening", Len(log[q.room]))
          \/ SetPoll(q.window, q.poll, "over", 0)
      BY <1>3, <2>1 DEF Handle, Connect, Join, Say, RejectSay, Subscribe, Refuse
    <3>4. CASE SetPoll(q.window, q.poll, "listening", Len(log[q.room]))
      BY <1>2, <3>1, <3>2, <3>4
    <3>5. CASE SetPoll(q.window, q.poll, "over", 0)
      BY <1>2, <3>1, <3>5
    <3>6. QED BY <3>3, <3>4, <3>5
  <2>2. CASE q.kind # "subscribe" \/ UNCHANGED polls
    BY <1>1, <1>3, <2>2 DEF Handle, Connect, Join, Say, RejectSay, Subscribe, Refuse
  <2>3. QED BY <2>1, <2>2
<1>4. ASSUME NEW q \in requests, Lose(q) PROVE Old
  <2>1. CASE q.kind = "subscribe"
    <3>1. /\ q.window \in Windows /\ q.poll \in DOMAIN polls[q.window]
      BY <1>0, <2>1 DEF SubscriptionInv, TypeOK, Requests
    <3>2. SetPoll(q.window, q.poll, "over", 0) BY <1>4, <2>1 DEF Lose
    <3>3. QED BY <1>2, <3>1, <3>2
  <2>2. CASE q.kind # "subscribe" BY <1>1, <1>4, <2>2 DEF Lose
  <2>3. QED BY <2>1, <2>2
<1>5. ASSUME NEW q \in requests, Callback(q) PROVE Old \/ New
  <2>1. CASE UNCHANGED polls BY <1>1, <2>1
  <2>2. CASE ~UNCHANGED polls
    <3>1. AddChannel(q) /\ q.kind = "join" /\ q.code = "ok"
      BY <1>5, <2>2 DEF Callback, OnError, OnConnect, OnSend
    <3>2. \/ i \in DOMAIN polls[w] /\ polls'[w][i] = polls[w][i]
          \/ polls'[w][i] = [room |-> q.room, phase |-> "timer", created |-> q.at, from |-> 0]
      BY <1>0, <3>1, AddPollType
    <3>3. QED BY <3>1, <3>2
  <2>3. QED BY <2>1, <2>2
<1>6. ASSUME NEW v \in Windows, Load(v) PROVE Old
  BY <1>0, <1>6 DEF Load, TypeOK
<1>7. ASSUME NEW v \in Windows, Poll(v) PROVE Old
  BY <1>0, <1>2, <1>7 DEF Poll, StartPoll, EndPoll
<1>8. ASSUME NEW v \in Windows, ClickTab(v) \/ Submit(v) PROVE Old
  BY <1>1, <1>8 DEF ClickTab, Submit
<1>9. CASE UNCHANGED vars BY <1>1, <1>9 DEF vars
<1>10. QED BY <1>3, <1>4, <1>5, <1>6, <1>7, <1>8, <1>9 DEF Next, Serve

LEMMA JoinNext ==
  ASSUME TypeInv, JoinInv, [Next]_vars PROVE JoinInv'
<1>0. TypeOK /\ TypeOK' BY NextType DEF TypeInv
<1>1. \A r \in TabNames : /\ Len(log[r]) \in Nat /\ Len(log'[r]) \in Nat
                         /\ Len(log[r]) <= Len(log'[r])
  <2>1. CASE UNCHANGED log BY <1>0, <2>1 DEF TypeOK
  <2>2. CASE ~UNCHANGED log BY <1>0, <2>2, LogGrows, PublishType
  <2>3. QED BY <2>1, <2>2
<1>2. ASSUME NEW q \in requests', q.kind = "join", q.code = "ok"
      PROVE  q.at <= Len(log'[q.room])
  <2>0. q.room \in TabNames /\ q.at \in Nat BY <1>0 DEF TypeOK, Requests
  <2>1. PICK p \in requests : /\ p.kind = "join"
                             /\ \/ p.code = "ok" /\ q.room = p.room /\ q.at = p.at
                                \/ q.room = p.room /\ q.at = Len(log[p.room]) + 1 /\ Publish(p)
    BY <1>0, <1>2, Origin DEF IsText
  <2>2. CASE p.code = "ok" /\ q.room = p.room /\ q.at = p.at
    <3>1. p.at <= Len(log[p.room]) BY <2>1, <2>2 DEF JoinInv
    <3>2. QED BY <1>1, <2>0, <2>2, <3>1
  <2>3. CASE q.room = p.room /\ q.at = Len(log[p.room]) + 1 /\ Publish(p)
    <3>1. Len(log'[q.room]) = Len(log[q.room]) + 1 BY <1>0, <2>0, <2>3, PublishType
    <3>2. QED BY <1>1, <2>0, <2>3, <3>1
  <2>4. QED BY <2>1, <2>2, <2>3
<1>3. ASSUME NEW w \in Windows, NEW i \in DOMAIN polls'[w]
      PROVE  /\ polls'[w][i].created <= Len(log'[polls'[w][i].room])
             /\ polls'[w][i].phase = "listening" => polls'[w][i].created <= polls'[w][i].from
  <2>0. polls'[w][i].room \in TabNames /\ polls'[w][i].created \in Nat /\ polls'[w][i].from \in Nat
    <3>1. polls'[w] \in Seq(Polls) BY <1>0 DEF TypeOK
    <3>2. polls'[w][i] \in Polls BY <3>1
    <3>3. QED BY <3>2 DEF Polls
  <2>1. CASE /\ i \in DOMAIN polls[w]
             /\ polls'[w][i].room = polls[w][i].room /\ polls'[w][i].created = polls[w][i].created
             /\ polls'[w][i].phase = "listening" =>
                  \/ polls'[w][i] = polls[w][i]
                  \/ polls'[w][i].from = Len(log[polls[w][i].room])
    <3>1. /\ polls[w][i].created <= Len(log[polls[w][i].room])
          /\ polls[w][i].phase = "listening" => polls[w][i].created <= polls[w][i].from
      BY <2>1 DEF JoinInv, JoinNotEchoed
    <3>2. QED BY <1>1, <2>0, <2>1, <3>1
  <2>2. CASE \E q \in requests :
               /\ q.kind = "join" /\ q.code = "ok"
               /\ polls'[w][i].room = q.room /\ polls'[w][i].created = q.at
               /\ polls'[w][i].phase # "listening"
    <3>1. PICK q \in requests :
               /\ q.kind = "join" /\ q.code = "ok"
               /\ polls'[w][i].room = q.room /\ polls'[w][i].created = q.at
               /\ polls'[w][i].phase # "listening"
      BY <2>2
    <3>2. q.at <= Len(log[q.room]) BY <3>1 DEF JoinInv
    <3>3. QED BY <1>1, <2>0, <3>1, <3>2
  <2>3. QED BY <2>1, <2>2, PollNext
<1>4. QED BY <1>2, <1>3 DEF JoinInv, JoinNotEchoed

\* The poll a join opens does not show that join (server.php:78-80).
THEOREM JoinNotEchoedCorrect == Spec => []JoinNotEchoed
<1>1. Init => JoinInv
  BY DEF Init, JoinInv, JoinNotEchoed
<1>2. TypeInv /\ JoinInv /\ [Next]_vars => JoinInv'
  BY JoinNext
<1>3. JoinInv => JoinNotEchoed BY DEF JoinInv
<1>4. QED BY <1>1, <1>2, <1>3, NamesInvariant, PTL DEF Spec
-----------------------------------------------------------------------------
(* Texts and tabs.                                                         *)

LEMMA OneRequestNext ==
  ASSUME TypeOK, NumberInv, OneRequest, [Next]_vars PROVE OneRequest'
<1>0. requests \subseteq Requests BY DEF TypeOK
<1> DEFINE Distinct(S) == \A p, q \in S :
             IsText(p) /\ IsText(q) /\ p.window = q.window /\ p.text = q.text => p = q
<1>a. Distinct(requests) BY DEF OneRequest
<1> SUFFICES Distinct(requests')
  BY DEF OneRequest
<1>1. ASSUME \A q \in requests' : IsText(q) => q \in requests PROVE Distinct(requests')
  BY <1>1, <1>a
<1>2. ASSUME NEW w \in Windows, Load(w) PROVE Distinct(requests')
  <2>1. \A q \in requests' : IsText(q) => q \in Abandoned(w)
    BY <1>2 DEF Load, FirstConnect, AskName, Request, IsText
  <2> DEFINE Gone(p) == [p EXCEPT !.sender = "gone"]
  <2>2. \A p \in requests : /\ Gone(p).window = p.window /\ Gone(p).kind = p.kind
                           /\ Gone(p).text = p.text /\ Gone(p).sender = "gone"
    BY <1>0 DEF Requests
  <2> HIDE DEF Gone
  <2>3. \A q \in Abandoned(w) :
          \/ q \in requests /\ (q.window # w \/ q.sender = "gone")
          \/ \E p \in requests : q = Gone(p) /\ p.window = w
    BY Zenon DEF Abandoned, Gone
  <2>4. ASSUME NEW q \in Abandoned(w), IsText(q)
        PROVE  \/ q \in requests
               \/ \E p \in requests : /\ q = Gone(p) /\ IsText(p) /\ p.window = w
                                      /\ p.window = q.window /\ p.text = q.text
    BY <2>2, <2>3, <2>4 DEF IsText
  <2>6. ASSUME NEW p \in requests, NEW q \in requests, q = p, p \in Abandoned(w), p.window = w
        PROVE  Gone(p) = p
    <3>1. p.sender = "gone" BY <2>2, <2>3, <2>6
    <3>2. QED BY <1>0, <3>1 DEF Gone, Requests
  <2>7. QED BY <2>1, <2>3, <2>4, <2>6, <1>a
<1>3. ASSUME NEW w \in Windows, Submit(w) PROVE Distinct(requests')
  <2>1. PICK q \in {Request(w, "say", tabs[w][active[w]], submits[w] + 1, 0)}
                  \cup {Request(w, "join", r, submits[w] + 1, 0) : r \in Rooms} :
          requests' = requests \cup {q}
    BY <1>3 DEF Submit
  <2>2. q.window = w /\ q.text = submits[w] + 1 BY <2>1 DEF Request
  <2>3. \A p \in requests : IsText(p) /\ p.window = w => p.text # q.text
    <3>1. submits[w] \in Nat /\ \A p \in requests : p.text \in Nat
      BY <1>0 DEF TypeOK, Requests
    <3>2. QED BY <2>2, <3>1 DEF NumberInv
  <2> HIDE DEF Distinct
  <2>4. requests' = requests \cup {q} BY <2>1
  <2>5. QED BY <1>a, <2>2, <2>3, <2>4 DEF Distinct
<1>4. ASSUME NEW w \in Windows, ClickTab(w) \/ Poll(w) PROVE Distinct(requests')
  BY <1>1, <1>4 DEF ClickTab, Poll, StartPoll, EndPoll, Request, IsText
<1>5. ASSUME NEW q \in requests, Handle(q) PROVE Distinct(requests')
  <2>1. q \in Requests BY <1>0
  <2>2. ASSUME NEW r, r.kind = q.kind, r.window = q.window, r.text = q.text, Respond(q, r)
        PROVE  Distinct(requests')
    <3>1. \A p \in requests' : p = r \/ (p \in requests /\ p # q) BY <2>2 DEF Respond
    <3>2. QED BY <1>a, <2>2, <3>1 DEF IsText
  <2> DEFINE a == [q EXCEPT !.code = "ok"]
             e == [q EXCEPT !.code = "error"]
             j == [a EXCEPT !.at = Len(log[q.room]) + 1]
             c == [a EXCEPT !.name = counter + 1]
  <2>3. /\ a \in Requests /\ a.kind = q.kind /\ a.window = q.window /\ a.text = q.text
        /\ e.kind = q.kind /\ e.window = q.window /\ e.text = q.text
    BY <2>1, CodeType
  <2> HIDE DEF a, e
  <2>4. Len(log[q.room]) + 1 \in Nat /\ counter + 1 \in Nat BY <2>1 DEF Requests, TypeOK
  <2>5. /\ j.kind = q.kind /\ j.window = q.window /\ j.text = q.text
        /\ c.kind = q.kind /\ c.window = q.window /\ c.text = q.text
    BY <2>3, <2>4, AtType, NameType
  <2> HIDE DEF j, c, Distinct
  <2>6. \/ Respond(q, c) \/ Respond(q, j) \/ Respond(q, a) \/ Respond(q, e)
        \/ requests' = requests \ {q}
    BY <1>5 DEF Handle, Connect, Join, Say, RejectSay, Subscribe, Refuse, Error, a, e, j, c
  <2>7. QED BY <1>1, <2>2, <2>3, <2>5, <2>6
<1>6. ASSUME NEW q \in requests, Lose(q) \/ Callback(q) PROVE Distinct(requests')
  BY <1>1, <1>6 DEF Lose, Callback, OnError, OnConnect, OnSend, Answer
<1>7. UNCHANGED vars => Distinct(requests') BY <1>a DEF vars
<1>8. QED BY <1>2, <1>3, <1>4, <1>5, <1>6, <1>7 DEF Next, Serve

\* A text that was not published is not, unless it is handled.
LEMMA NotPublishedNext ==
  ASSUME TypeOK, NumberInv, OneRequest, NotPublished, [Next]_vars PROVE NotPublished'
<1> SUFFICES ASSUME NEW p \in requests', IsText(p), p.code = "none",
                    NEW r \in TabNames, NEW i \in DOMAIN log'[r], log'[r][i].window = p.window
             PROVE  log'[r][i].text # p.text
  BY DEF NotPublished
<1>1. CASE UNCHANGED log
  <2>1. log[r] \in Seq(Messages) /\ log'[r][i] = log[r][i] /\ i \in DOMAIN log[r]
    BY <1>1 DEF TypeOK
  <2>2. log[r][i] \in Messages BY <2>1
  <2>3. CASE p.window \in Windows /\ p.text = submits[p.window] + 1
    <3>1. log[r][i].text <= submits[p.window] BY <2>1 DEF NumberInv
    <3>2. submits[p.window] \in Nat /\ log[r][i].text \in Nat BY <2>2, <2>3 DEF TypeOK, Messages
    <3>3. QED BY <2>1, <2>3, <3>1, <3>2
  <2>4. CASE \E q \in requests : /\ p.window = q.window /\ p.kind = q.kind /\ p.text = q.text
                               /\ q.code = "none"
    BY <2>1, <2>4 DEF NotPublished, IsText
  <2>5. QED BY <2>3, <2>4, Origin
<1>2. CASE ~UNCHANGED log
  <2>1. PICK q \in requests :
          /\ IsText(q) /\ q.code = "none" /\ Publish(q)
          /\ \A s \in requests' : s.code = "none" => s \in requests /\ s # q
    BY <1>2, LogGrows
  <2>2. p \in requests /\ p # q BY <2>1
  <2>3. CASE i \in DOMAIN log[r] /\ log'[r][i] = log[r][i]
    BY <2>2, <2>3 DEF NotPublished
  <2>4. CASE log'[r][i].window = q.window /\ log'[r][i].text = q.text
    BY <2>1, <2>2, <2>4 DEF OneRequest
  <2>5. QED BY <2>1, <2>3, <2>4, PublishType
<1>3. QED BY <1>1, <1>2

\* The messages in the logs stay, and no two are the same text.
LEMMA LogNext ==
  ASSUME TypeOK, NotPublished, SentOnce, [Next]_vars
  PROVE  /\ \A r \in TabNames : \A i \in DOMAIN log[r] :
              i \in DOMAIN log'[r] /\ log'[r][i] = log[r][i]
         /\ \A r, s \in TabNames : \A i \in DOMAIN log'[r], j \in DOMAIN log'[s] :
              log'[r][i].window = log'[s][j].window /\ log'[r][i].text = log'[s][j].text
                => r = s /\ i = j
<1>1. CASE UNCHANGED log BY <1>1 DEF SentOnce
<1>2. CASE ~UNCHANGED log
  <2>1. PICK q \in requests : IsText(q) /\ q.code = "none" /\ Publish(q) BY <1>2, LogGrows
  <2> DEFINE Old(r, i) == i \in DOMAIN log[r] /\ log'[r][i] = log[r][i]
             New(r, i) == /\ r = q.room /\ i = Len(log[r]) + 1
                          /\ log'[r][i].window = q.window /\ log'[r][i].text = q.text
  <2>2. \A r \in TabNames : \A i \in DOMAIN log'[r] : Old(r, i) \/ New(r, i)
    BY <2>1, PublishType
  <2>3. \A r, s \in TabNames : \A i \in DOMAIN log'[r], j \in DOMAIN log'[s] :
          Old(r, i) /\ Old(s, j) /\ log'[r][i].window = log'[s][j].window
            /\ log'[r][i].text = log'[s][j].text => r = s /\ i = j
    BY DEF SentOnce
  <2>4. \A r, s \in TabNames : \A i \in DOMAIN log'[r], j \in DOMAIN log'[s] :
          Old(r, i) /\ New(s, j) => ~ (/\ log'[r][i].window = log'[s][j].window
                                       /\ log'[r][i].text = log'[s][j].text)
    BY <2>1 DEF NotPublished
  <2>5. \A r, s \in TabNames : \A i, j : New(r, i) /\ New(s, j) => r = s /\ i = j
    OBVIOUS
  <2>6. \A r \in TabNames : \A i \in DOMAIN log[r] :
          i \in DOMAIN log'[r] /\ log'[r][i] = log[r][i]
    BY <2>1, PublishType
  <2> HIDE DEF Old, New
  <2>7. QED BY <2>2, <2>3, <2>4, <2>5, <2>6
<1>3. QED BY <1>1, <1>2

LEMMA JoinedAtNext ==
  ASSUME TypeOK, TypeOK', NotPublished, SentOnce, JoinedAt, [Next]_vars PROVE JoinedAt'
<1> SUFFICES ASSUME NEW p \in requests', Joined(p)
             PROVE  /\ p.at \in DOMAIN log'[p.room]
                    /\ log'[p.room][p.at].window = p.window /\ log'[p.room][p.at].text = p.text
  BY DEF JoinedAt
<1>0. p.room \in TabNames /\ IsText(p) BY DEF TypeOK, Requests, IsText, Joined
<1>1. PICK q \in requests :
        /\ p.window = q.window /\ p.kind = q.kind /\ p.text = q.text
        /\ \/ p.code = q.code /\ p.room = q.room /\ p.at = q.at
           \/ p.room = q.room /\ p.at = Len(log[q.room]) + 1 /\ Publish(q)
  BY <1>0, Origin DEF Joined
<1>2. CASE p.code = q.code /\ p.room = q.room /\ p.at = q.at
  BY <1>0, <1>1, <1>2, LogNext DEF JoinedAt, Joined
<1>3. CASE p.room = q.room /\ p.at = Len(log[q.room]) + 1 /\ Publish(q)
  <2>1. Len(log[q.room]) \in Nat /\ Len(log'[q.room]) = Len(log[q.room]) + 1
    BY <1>0, <1>3, PublishType
  <2>2. log'[q.room] \in Seq(Messages) /\ log[q.room] \in Seq(Messages) BY <1>0, <1>3 DEF TypeOK
  <2>3. p.at \in DOMAIN log'[q.room] /\ p.at \notin DOMAIN log[q.room] BY <1>3, <2>1, <2>2
  <2>4. QED BY <1>0, <1>1, <1>3, <2>3, PublishType
<1>4. QED BY <1>1, <1>2, <1>3

\* The tabs of a page go with it or stay with what they stand for, or the answer
\* to a join makes one.
LEMMA PollsNext ==
  ASSUME TypeInv, [Next]_vars
  PROVE  \/ \A w \in Windows : \A i \in DOMAIN polls'[w] :
              /\ i \in DOMAIN polls[w]
              /\ polls'[w][i].room = polls[w][i].room
              /\ polls'[w][i].created = polls[w][i].created
         \/ \E q \in requests : /\ Joined(q) /\ AddChannel(q)
                                /\ requests' = requests \ {q} /\ UNCHANGED log
<1> DEFINE Same == \A w \in Windows : \A i \in DOMAIN polls'[w] :
              /\ i \in DOMAIN polls[w]
              /\ polls'[w][i].room = polls[w][i].room
              /\ polls'[w][i].created = polls[w][i].created
<1>0. TypeOK /\ SubscriptionInv BY DEF TypeInv
<1>1. UNCHANGED polls => Same OBVIOUS
<1>2. ASSUME NEW v \in Windows, NEW j \in DOMAIN polls[v],
             NEW phase \in {"requested", "listening", "over"}, NEW from \in Nat,
             SetPoll(v, j, phase, from)
      PROVE  Same
  BY <1>0, <1>2, SetPollType
<1> HIDE DEF Same
<1>3. ASSUME NEW q \in requests, Handle(q) \/ Lose(q) PROVE Same
  <2>1. CASE q.kind = "subscribe" /\ ~UNCHANGED polls
    <3>1. q.window \in Windows /\ q.poll \in DOMAIN polls[q.window] /\ q.room \in TabNames
      BY <1>0, <2>1 DEF SubscriptionInv, TypeOK, Requests
    <3>2. Len(log[q.room]) \in Nat BY <1>0, <3>1 DEF TypeOK
    <3>3. \/ SetPoll(q.window, q.poll, "listening", Len(log[q.room]))
          \/ SetPoll(q.window, q.poll, "over", 0)
      BY <1>3, <2>1 DEF Handle, Lose, Connect, Join, Say, RejectSay, Subscribe, Refuse
    <3>4. QED BY <1>2, <3>1, <3>2, <3>3
  <2>2. CASE q.kind # "subscribe" \/ UNCHANGED polls
    BY <1>1, <1>3, <2>2 DEF Handle, Lose, Connect, Join, Say, RejectSay, Subscribe, Refuse
  <2>3. QED BY <2>1, <2>2
<1>4. ASSUME NEW q \in requests, Callback(q)
      PROVE  \/ Same
             \/ /\ Joined(q) /\ AddChannel(q)
                /\ requests' = requests \ {q} /\ UNCHANGED log
  BY <1>1, <1>4 DEF Callback, OnError, OnConnect, OnSend, Answer, Joined, redis
<1>5. ASSUME NEW w \in Windows, Load(w) PROVE Same
  BY <1>0, <1>5 DEF Load, TypeOK, Same
<1>6. ASSUME NEW w \in Windows, Poll(w) PROVE Same
  BY <1>2, <1>6 DEF Poll, StartPoll, EndPoll
<1>7. ASSUME NEW w \in Windows, ClickTab(w) \/ Submit(w) PROVE Same
  BY <1>1, <1>7 DEF ClickTab, Submit
<1>8. UNCHANGED vars => Same BY <1>1 DEF vars
<1>9. QED BY <1>3, <1>4, <1>5, <1>6, <1>7, <1>8 DEF Next, Serve, Same

\* Where a poll's join is, and that no other poll of the page has it.
TabOfJoin(w) ==
  \A i, j \in DOMAIN polls[w] :
    /\ polls[w][i].created \in DOMAIN log[polls[w][i].room]
    /\ log[polls[w][i].room][polls[w][i].created].window = w
    /\ polls[w][i].room = polls[w][j].room /\ polls[w][i].created = polls[w][j].created
         => i = j

LEMMA OnceNext ==
  ASSUME TypeInv, SignInv, OnceInv, [Next]_vars PROVE OnceInv'
<1>0. TypeOK /\ TypeOK' /\ NumberInv BY NextType DEF TypeInv, SignInv
<1>1. OneRequest /\ NotPublished /\ JoinedAt /\ NoTabYet /\ SentOnce BY DEF OnceInv
<1>2. OneRequest' /\ NotPublished' /\ JoinedAt'
  BY <1>0, <1>1, OneRequestNext, NotPublishedNext, JoinedAtNext
<1>3. \A r \in TabNames : \A i \in DOMAIN log[r] : i \in DOMAIN log'[r] /\ log'[r][i] = log[r][i]
  BY <1>0, <1>1, LogNext
<1>4. \A w \in Windows : \A i \in DOMAIN polls[w] : polls[w][i] \in Polls /\ polls[w][i].room \in TabNames
  <2> SUFFICES ASSUME NEW w \in Windows, NEW i \in DOMAIN polls[w]
               PROVE  polls[w][i] \in Polls /\ polls[w][i].room \in TabNames
    OBVIOUS
  <2>1. polls[w] \in Seq(Polls) BY <1>0 DEF TypeOK
  <2>2. polls[w][i] \in Polls BY <2>1
  <2>3. QED BY <2>2 DEF Polls
<1>5. \A w \in Windows : TabOfJoin(w) BY <1>1 DEF SentOnce, TabOfJoin
<1> DEFINE Created(w, i) == i \in DOMAIN polls'[w] =>
             /\ polls'[w][i].created \in DOMAIN log'[polls'[w][i].room]
             /\ log'[polls'[w][i].room][polls'[w][i].created].window = w
           Alone(w, i, j) == polls'[w][i].room = polls'[w][j].room
             /\ polls'[w][i].created = polls'[w][j].created => i = j
           Tabs == \A w \in Windows : \A i, j \in DOMAIN polls'[w] : Created(w, i) /\ Alone(w, i, j)
           None == \A p \in requests' : Joined(p) => \A i \in DOMAIN polls'[p.window] :
                     polls'[p.window][i].room = p.room => polls'[p.window][i].created # p.at
<1>6. ASSUME \A w \in Windows : \A i \in DOMAIN polls'[w] :
               /\ i \in DOMAIN polls[w]
               /\ polls'[w][i].room = polls[w][i].room
               /\ polls'[w][i].created = polls[w][i].created
      PROVE  Tabs /\ None
  <2>1. Tabs BY <1>3, <1>4, <1>5, <1>6 DEF TabOfJoin
  <2>2. ASSUME NEW p \in requests', Joined(p), NEW i \in DOMAIN polls'[p.window],
               polls'[p.window][i].room = p.room
        PROVE  polls'[p.window][i].created # p.at
    <3>1. p.window \in Windows /\ p.room \in TabNames /\ IsText(p)
      BY <1>0, <2>2 DEF TypeOK, Requests, IsText, Joined
    <3>2. PICK q \in requests :
            /\ p.window = q.window /\ p.kind = q.kind
            /\ \/ p.code = q.code /\ p.room = q.room /\ p.at = q.at
               \/ p.room = q.room /\ p.at = Len(log[q.room]) + 1
      BY <1>0, <2>2, <3>1, Origin DEF Joined
    <3>3. CASE p.code = q.code /\ p.room = q.room /\ p.at = q.at
      BY <1>1, <1>6, <2>2, <3>1, <3>2, <3>3 DEF NoTabYet, Joined
    <3>4. CASE p.room = q.room /\ p.at = Len(log[q.room]) + 1
      <4>1. log[p.room] \in Seq(Messages) BY <1>0, <3>1 DEF TypeOK
      <4>2. polls[p.window][i].created \in DOMAIN log[p.room]
        BY <1>5, <1>6, <2>2, <3>1 DEF TabOfJoin
      <4>3. p.at \notin DOMAIN log[p.room] BY <3>4, <4>1
      <4>4. QED BY <1>6, <2>2, <3>1, <4>2, <4>3
    <3>5. QED BY <3>2, <3>3, <3>4
  <2>3. None BY <2>2
  <2>4. QED BY <2>1, <2>3
<1>7. ASSUME NEW q \in requests, Joined(q), AddChannel(q),
             requests' = requests \ {q}, UNCHANGED log
      PROVE  Tabs /\ None
  <2>0. q \in Requests /\ q.window \in Windows /\ q.room \in TabNames
    BY <1>0 DEF TypeOK, Requests
  <2> DEFINE Old(w, i) == i \in DOMAIN polls[w] /\ polls'[w][i] = polls[w][i]
             New(w, i) == /\ w = q.window /\ i = Len(polls[w]) + 1
                          /\ polls'[w][i].room = q.room /\ polls'[w][i].created = q.at
  <2>1. ASSUME NEW w \in Windows, NEW i \in DOMAIN polls'[w]
        PROVE  Old(w, i) \/ New(w, i)
    <3>1. CASE i \in DOMAIN polls[w] BY <1>0, <1>7, <3>1, AddPollType
    <3>2. CASE i \notin DOMAIN polls[w]
      <4>1. /\ w = q.window /\ i = Len(polls[w]) + 1
            /\ polls'[w][i] = [room |-> q.room, phase |-> "timer", created |-> q.at, from |-> 0]
        BY <1>0, <1>7, <3>2, AddPollType
      <4>2. polls'[w][i].room = q.room /\ polls'[w][i].created = q.at BY <4>1
      <4>3. QED BY <4>1, <4>2
    <3>3. QED BY <3>1, <3>2
  <2>2. \A w \in Windows : \A i \in DOMAIN polls'[w] : Old(w, i) => Created(w, i)
    BY <1>3, <1>4, <1>5 DEF TabOfJoin
  <2>3. \A w \in Windows : \A i \in DOMAIN polls'[w] : New(w, i) => Created(w, i)
    BY <1>1, <1>3, <1>7, <2>0 DEF JoinedAt
  <2>4. \A w \in Windows : \A i, j \in DOMAIN polls'[w] :
          Old(w, i) /\ Old(w, j) => Alone(w, i, j)
    BY <1>5 DEF TabOfJoin
  <2>5. \A w \in Windows : \A i, j \in DOMAIN polls'[w] :
          /\ Old(w, i) /\ New(w, j) => Alone(w, i, j)
          /\ Old(w, j) /\ New(w, i) => Alone(w, i, j)
    <3>1. \A i \in DOMAIN polls[q.window] :
            polls[q.window][i].room = q.room => polls[q.window][i].created # q.at
      BY <1>1, <1>7 DEF NoTabYet
    <3>2. \A w \in Windows : \A i, j \in DOMAIN polls'[w] :
            Old(w, i) /\ New(w, j) =>
              ~ (/\ polls'[w][i].room = polls'[w][j].room
                 /\ polls'[w][i].created = polls'[w][j].created)
      BY <3>1
    <3>3. QED BY <3>2
  <2>6. \A w \in Windows : \A i, j \in DOMAIN polls'[w] :
          New(w, i) /\ New(w, j) => Alone(w, i, j)
    OBVIOUS
  <2>7. ASSUME NEW p \in requests', Joined(p), NEW i \in DOMAIN polls'[p.window],
               polls'[p.window][i].room = p.room
        PROVE  polls'[p.window][i].created # p.at
    <3>1. p \in requests /\ p # q /\ p.window \in Windows BY <1>0, <1>7 DEF TypeOK, Requests
    <3>2. CASE Old(p.window, i)
      BY <1>1, <2>7, <3>1, <3>2 DEF NoTabYet
    <3>3. CASE New(p.window, i)
      <4>1. p.window = q.window /\ p.room = q.room BY <2>7, <3>3
      <4>2. p.text # q.text BY <1>1, <1>7, <2>7, <3>1, <4>1 DEF OneRequest, IsText, Joined
      <4>3. p.at # q.at BY <1>1, <1>7, <2>7, <3>1, <4>1, <4>2 DEF JoinedAt
      <4>4. QED BY <3>3, <4>3
    <3>4. QED BY <2>1, <3>1, <3>2, <3>3
  <2>8. None BY <2>7
  <2> HIDE DEF Old, New, Created, Alone
  <2>9. Tabs BY <2>1, <2>2, <2>3, <2>4, <2>5, <2>6
  <2>10. QED BY <2>8, <2>9
<1> HIDE DEF Tabs, None
<1>8. Tabs /\ None BY <1>6, <1>7, PollsNext
<1> USE DEF Tabs, None
<1>9. NoTabYet' BY <1>8 DEF NoTabYet
<1>10. SentOnce'
  <2>1. \A r, s \in TabNames : \A i \in DOMAIN log'[r], j \in DOMAIN log'[s] :
          log'[r][i].window = log'[s][j].window /\ log'[r][i].text = log'[s][j].text
            => r = s /\ i = j
    BY <1>0, <1>1, LogNext
  <2>2. QED BY <1>8, <2>1 DEF SentOnce
<1>11. QED BY <1>2, <1>9, <1>10 DEF OnceInv

\* A text is published at most once, and a page has one tab at most for a join of
\* its window, which was published (chat.js:40-52, server.php:74-92).
THEOREM SentOnceCorrect == Spec => []SentOnce
<1>1. Init => OnceInv
  BY DEF Init, OnceInv, OneRequest, NotPublished, JoinedAt, NoTabYet, SentOnce
<1>2. TypeInv /\ SignInv /\ OnceInv /\ [Next]_vars => OnceInv'
  BY OnceNext
<1>3. OnceInv => SentOnce BY DEF OnceInv
<1>4. QED BY <1>1, <1>2, <1>3, NamesInvariant, SignInvariant, PTL DEF Spec
===============================================================================
