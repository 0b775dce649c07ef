--------------------------------- MODULE Chat ---------------------------------
(***************************************************************************)
(* The windows of the chat example (examples/chat/chat.js, yetii.js), the  *)
(* requests they send and how examples/chat/server.php answers them.       *)
(*                                                                         *)
(* A browser keeps a limited number of connections to the server for all   *)
(* its windows: requests beyond that wait their turn, and a poll keeps its *)
(* connection for as long as it listens.  What a poll shows meanwhile is   *)
(* in LongPoll; here it is only known since when it listens.               *)
(***************************************************************************)
EXTENDS Integers, Sequences, FiniteSets

CONSTANTS
  Windows,     \* the windows of all browsers
  Browsers,    \* the browsers
  BrowserOf,   \* BrowserOf[w]: the browser of window w
  Rooms,       \* the rooms that somebody joins
  Connections, \* connections a browser keeps to one server
  MaxSubmits,  \* MaxSubmits[w]: bound on the texts that are submitted in w
  MaxLoads     \* MaxLoads[w]: bound on the times a page is loaded in w

ASSUME BrowserOfAssumption == BrowserOf \in [Windows -> Browsers]
ASSUME ConnectionsAssumption == Connections \in Nat
ASSUME BoundsAssumption == MaxSubmits \in [Windows -> Nat] /\ MaxLoads \in [Windows -> Nat]

VARIABLES
  counter,  \* chat:users:counter
  log,      \* messages published to the channel of each tab name
  username, \* sessionStorage.username
  loads,    \* number of times the page was loaded
  tabs,     \* names of the tabs, from left to right
  active,   \* number of the active tab
  polls,    \* polls[w][i]: the poll of the i-th add-channel of the page
  requests, \* requests that are not answered, waiting or with the server
  sent,     \* number of the last request since there was none
  submits,  \* number of texts submitted in each window
  nameless  \* nameless[w]: how many of them before w had its name; not in the
            \* program, only for SignedByOwner

redis == <<counter, log>>
page == <<tabs, active>>
texts == <<submits, nameless>>
vars == <<redis, username, loads, page, polls, requests, sent, texts>>

Status == "status"
TabNames == Rooms \cup {Status}
Undefined == 0          \* the name of a window that has none

Kinds == {"connect", "join", "say", "subscribe"}

\* room: the room of a join, a message or a subscription; name: the user name
\* it is sent with, the one it is answered with for a connect; text: which text of
\* its window a join or a message is; poll: the poll of a subscription; at: where
\* the message of a join is in the log; code: what the response says; sender:
\* whether the page that sent it is still there.
Requests ==
  [id : Nat, window : Windows, kind : Kinds, room : TabNames, name : Nat,
   text : Nat, poll : Nat, at : Nat, code : {"none", "error", "ok"}, sender : {"open", "gone"}]

Messages == [window : Windows, name : Nat, text : Nat]

\* created: where the poll's own join is in the log; from: what was published
\* before it listened.  A poll that is stuck still listens, as far as the browser
\* can see.
Polls ==
  [room : TabNames, phase : {"timer", "requested", "listening", "over"},
   created : Nat, from : Nat]

TypeOK ==
  /\ counter \in Nat
  /\ log \in [TabNames -> Seq(Messages)]
  /\ username \in [Windows -> Nat]
  /\ loads \in [Windows -> Nat]
  /\ tabs \in [Windows -> Seq(TabNames)]
  /\ active \in [Windows -> Nat] /\ \A w \in Windows : active[w] <= Len(tabs[w])
  /\ polls \in [Windows -> Seq(Polls)]
  /\ requests \subseteq Requests
  /\ sent \in Nat
  /\ submits \in [Windows -> Nat] /\ nameless \in [Windows -> Nat]

Init ==
  /\ counter = 0 /\ log = [r \in TabNames |-> <<>>]
  /\ username = [w \in Windows |-> Undefined]
  /\ loads = [w \in Windows |-> 0]
  /\ tabs = [w \in Windows |-> <<>>]
  /\ active = [w \in Windows |-> 0]
  /\ polls = [w \in Windows |-> <<>>]
  /\ requests = {} /\ sent = 0
  /\ submits = [w \in Windows |-> 0] /\ nameless = [w \in Windows |-> 0]

-----------------------------------------------------------------------------
(* The browser and its connections.                                        *)

\* The place in the queue of the next request.
NextId == IF requests = {} THEN 1 ELSE sent + 1

\* Mutant: the page reads the name once, when it is loaded.
Request_NameOfLoad(w, kind, room, text, poll) ==
  [id |-> NextId, window |-> w, kind |-> kind, room |-> room,
   name |-> IF loads[w] = 1 THEN Undefined ELSE username[w],
   text |-> text, poll |-> poll, at |-> 0, code |-> "none", sender |-> "open"]

Request(w, kind, room, text, poll) ==
  [id |-> NextId, window |-> w, kind |-> kind, room |-> room, name |-> username[w],
   text |-> text, poll |-> poll, at |-> 0, code |-> "none", sender |-> "open"]

\* The polls that keep a connection of browser b.
Holding(b) ==
  UNION {{w} \X {i \in DOMAIN polls[w] : polls[w][i].phase = "listening"} :
           w \in {v \in Windows : BrowserOf[v] = b}}

SetPoll(w, i, phase, from) ==
  polls' = [polls EXCEPT ![w][i] = [@ EXCEPT !.phase = phase, !.from = from]]

\* The requests of the same browser that were sent before q.
Ahead(q) ==
  {p \in requests : /\ p.sender = "open" /\ p.id < q.id
                     /\ BrowserOf[p.window] = BrowserOf[q.window]}

\* q has a connection: the browser gives its connections in the order the
\* requests are sent.
Dispatched(q) ==
  Cardinality(Ahead(q)) + Cardinality(Holding(BrowserOf[q.window])) < Connections

-----------------------------------------------------------------------------
(* The user.                                                               *)

\* What is left of the requests when the page of window w is gone: what the
\* server has begun to work on.
Abandoned(w) ==
  {q \in requests : q.window # w \/ q.sender = "gone"}
    \cup {[q EXCEPT !.sender = "gone"] : q \in
           {q \in requests : /\ q.window = w /\ q.kind # "subscribe"
                             /\ q.code = "none" /\ Dispatched(q)}}

\* server.connect() of a new page.
AskName(w) ==
  /\ sent' = NextId
  /\ requests' = Abandoned(w) \cup {Request(w, "connect", Status, 0, 0)}

\* Mutant: every page asks for a name, whatever sessionStorage has.
FirstConnect_Always(w) == AskName(w)

\* Only a window without a name asks for one.
FirstConnect(w) ==
  IF username[w] = Undefined THEN AskName(w)
  ELSE requests' = Abandoned(w) /\ UNCHANGED sent

\* The page is loaded or loaded again, which gives up what the old one had
\* under way.
Load(w) ==
  /\ loads[w] < MaxLoads[w]
  /\ loads' = [loads EXCEPT ![w] = @ + 1]
  /\ tabs' = [tabs EXCEPT ![w] = <<Status>>]
  /\ active' = [active EXCEPT ![w] = 1]
  /\ polls' = [polls EXCEPT ![w] = <<>>]
  /\ FirstConnect(w)
  /\ UNCHANGED <<redis, username, texts>>

ClickTab(w) ==
  /\ \E i \in DOMAIN tabs[w] : active' = [active EXCEPT ![w] = i]
  /\ UNCHANGED <<redis, username, loads, tabs, polls, requests, sent, texts>>

\* A text goes with the name of the active tab and the name the window has:
\* '/join #room', or any other.
Submit(w) ==
  /\ active[w] > 0 /\ submits[w] < MaxSubmits[w]
  /\ LET text == submits[w] + 1
     IN \E q \in {Request(w, "say", tabs[w][active[w]], text, 0)}
                 \cup {Request(w, "join", r, text, 0) : r \in Rooms} :
          requests' = requests \cup {q}
  /\ sent' = NextId
  /\ submits' = [submits EXCEPT ![w] = @ + 1]
  /\ UNCHANGED <<redis, username, loads, page, polls, nameless>>

-----------------------------------------------------------------------------
(* server.php.                                                             *)

\* r is q with its response, which only a page that is still there gets.
Respond(q, r) ==
  requests' = (requests \ {q}) \cup (IF q.sender = "open" THEN {r} ELSE {})

Error(q) == Respond(q, [q EXCEPT !.code = "error"])

\* Mutant: the counter is read and written again when the answer is on its way.
Connect_ReadsCounter(q) ==
  /\ q.kind = "connect"
  /\ Respond(q, [q EXCEPT !.code = "ok", !.name = counter + 1])
  /\ counter' = IF \E p \in requests : p.kind = "connect" /\ p.code = "ok"
                THEN counter ELSE counter + 1
  /\ UNCHANGED <<log, polls>>

Connect(q) ==
  /\ q.kind = "connect"
  /\ counter' = counter + 1
  /\ Respond(q, [q EXCEPT !.code = "ok", !.name = counter + 1])
  /\ UNCHANGED <<log, polls>>

Publish(q) ==
  log' = [log EXCEPT ![q.room] =
            Append(@, [window |-> q.window, name |-> q.name, text |-> q.text])]

Join(q) ==
  /\ q.kind = "join"
  /\ Publish(q)
  /\ Respond(q, [q EXCEPT !.code = "ok", !.at = Len(log[q.room]) + 1])
  /\ UNCHANGED <<counter, polls>>

\* '/other #room' is a text like any other.
Say(q) ==
  /\ q.kind = "say" /\ q.room # Status
  /\ Publish(q)
  /\ Respond(q, [q EXCEPT !.code = "ok"])
  /\ UNCHANGED <<counter, polls>>

\* The text is not understood, or it is for the status tab.
RejectSay(q) ==
  /\ q.kind = "say"
  /\ Error(q)
  /\ UNCHANGED <<redis, polls>>

\* The process listens to the room: its request is never answered in full.
Subscribe(q) ==
  /\ q.kind = "subscribe"
  /\ requests' = requests \ {q}
  /\ SetPoll(q.window, q.poll, "listening", Len(log[q.room]))
  /\ UNCHANGED redis

\* No connection to redis.  The poll's handler throws on the response.
Refuse(q) ==
  /\ IF q.kind = "subscribe"
     THEN requests' = requests \ {q} /\ SetPoll(q.window, q.poll, "over", 0)
     ELSE Error(q) /\ UNCHANGED polls
  /\ UNCHANGED redis

Handle(q) ==
  /\ q.code = "none" /\ (q.sender = "open" => Dispatched(q))
  /\ \/ Connect(q) \/ Join(q) \/ Say(q) \/ RejectSay(q)
     \/ Subscribe(q) \/ Refuse(q)
  /\ UNCHANGED <<username, loads, page, sent, texts>>

\* Mutant: a page that gets no answer to a text sends it again.
Lose_Retried(q) ==
  /\ q.sender = "open" => Dispatched(q)
  /\ requests' = (requests \ {q})
       \cup (IF q.kind \in {"join", "say"} THEN {[q EXCEPT !.code = "none", !.at = 0]} ELSE {})
  /\ IF q.kind = "subscribe" THEN SetPoll(q.window, q.poll, "over", 0) ELSE UNCHANGED polls
  /\ UNCHANGED <<redis, username, loads, page, sent, texts>>

\* The process or the connection breaks off: none of the callbacks for that is
\* given, and the poll is not started again.
Lose(q) ==
  /\ q.sender = "open" => Dispatched(q)
  /\ requests' = requests \ {q}
  /\ IF q.kind = "subscribe" THEN SetPoll(q.window, q.poll, "over", 0) ELSE UNCHANGED polls
  /\ UNCHANGED <<redis, username, loads, page, sent, texts>>

-----------------------------------------------------------------------------
(* The callbacks of the page.                                              *)

Answer(q) ==
  /\ q.code # "none"
  /\ requests' = requests \ {q}
  /\ UNCHANGED <<redis, loads, sent, submits>>

\* An alert with the text of the error.
OnError(q) ==
  /\ Answer(q) /\ q.code = "error"
  /\ UNCHANGED <<username, nameless, page, polls>>

OnConnect(q) ==
  /\ Answer(q) /\ q.code = "ok" /\ q.kind = "connect"
  /\ username' = [username EXCEPT ![q.window] = q.name]
  /\ nameless' = [nameless EXCEPT ![q.window] = submits[q.window]]
  /\ UNCHANGED <<page, polls>>

\* Mutant: the tab is made after the reload.
AddChannel_TabLast(q) ==
  LET w == q.window
      channels == {tabs[w][i] : i \in DOMAIN tabs[w]} \cup {q.room}
  IN /\ active' = [active EXCEPT ![w] = Cardinality(channels)]
     /\ polls' = [polls EXCEPT ![w] =
          Append(@, [room |-> q.room, phase |-> "timer", created |-> q.at, from |-> 0])]
     /\ UNCHANGED tabs

\* Mutant: the poll of a room is started with the join, before its answer.
AddChannel_AtOnce(q) ==
  LET w == q.window
      newTabs == Append(tabs[w], q.room)
  IN /\ tabs' = [tabs EXCEPT ![w] = newTabs]
     /\ active' = [active EXCEPT ![w] = Cardinality({newTabs[i] : i \in DOMAIN newTabs})]
     /\ polls' = [polls EXCEPT ![w] =
          Append(@, [room |-> q.room, phase |-> "listening", created |-> q.at, from |-> q.at - 1])]

\* A PollChannel: a tab of its own, whatever tabs there are, and a poll that
\* starts when its timer is due.  reload(-1) counts the names of the channels,
\* not the tabs.
AddChannel(q) ==
  LET w == q.window
      newTabs == Append(tabs[w], q.room)
  IN /\ tabs' = [tabs EXCEPT ![w] = newTabs]
     /\ active' = [active EXCEPT ![w] = Cardinality({newTabs[i] : i \in DOMAIN newTabs})]
     /\ polls' = [polls EXCEPT ![w] =
          Append(@, [room |-> q.room, phase |-> "timer", created |-> q.at, from |-> 0])]

OnSend(q) ==
  /\ Answer(q) /\ q.code = "ok" /\ q.kind \in {"join", "say"}
  /\ IF q.kind = "join" THEN AddChannel(q) ELSE UNCHANGED <<page, polls>>
  /\ UNCHANGED <<username, nameless>>

-----------------------------------------------------------------------------
(* The polls.                                                              *)

\* The timer of LongPoll is due.
StartPoll(w, i) ==
  /\ polls[w][i].phase = "timer" /\ SetPoll(w, i, "requested", 0)
  /\ requests' = requests \cup {Request(w, "subscribe", polls[w][i].room, 0, i)}
  /\ sent' = NextId
  /\ UNCHANGED <<redis, username, loads, page, texts>>

\* The connection or the channel of the poll ends.
EndPoll(w, i) ==
  /\ polls[w][i].phase = "listening" /\ SetPoll(w, i, "over", 0)
  /\ UNCHANGED <<redis, username, loads, page, requests, sent, texts>>

-----------------------------------------------------------------------------
Serve(q) == Handle(q) \/ Lose(q)
Callback(q) == OnError(q) \/ OnConnect(q) \/ OnSend(q)
Poll(w) == \E i \in DOMAIN polls[w] : StartPoll(w, i) \/ EndPoll(w, i)

Next ==
  \/ \E w \in Windows : Load(w) \/ ClickTab(w) \/ Submit(w) \/ Poll(w)
  \/ \E q \in requests : Serve(q) \/ Callback(q)

Spec == Init /\ [][Next]_vars

-----------------------------------------------------------------------------
(* Properties.                                                             *)

\* No two windows have the same name, of one browser or of several, however
\* their requests, answers and reloads interleave (server.php:39, chat.js:10-28,
\* the note at chat.js:171).
UniqueNames ==
  \A v, w \in Windows : username[v] = username[w] /\ v # w => username[v] = Undefined

\* A window that has a name keeps it: no reload and no late answer to another
\* page of the window changes it (chat.js:10, :28).
NameKept ==
  [][\A w \in Windows : username[w] # Undefined => username'[w] = username[w]]_vars

\* What is published is signed with the name of the window that sent it, whenever
\* it sent it after the answer with its name, and by nobody when it was before:
\* neither a reload nor the order in which answers and messages are handled lets
\* a text go out under another name or, later, under none (chat.js:28, :36,
\* server.php:64-89).
SignedByOwner ==
  \A r \in TabNames : \A i \in DOMAIN log[r] :
    LET m == log[r][i]
    IN m.name = IF m.text <= nameless[m.window] THEN Undefined ELSE username[m.window]

\* The poll a join opens does not show that join: it was published before the
\* poll listens, and the window has written a line of its own for it
\* (server.php:78-80, chat.js:50-51).
JoinNotEchoed ==
  \A w \in Windows : \A i \in DOMAIN polls[w] :
    polls[w][i].phase = "listening" => polls[w][i].created <= polls[w][i].from

\* A text is published at most once, although its answer may be lost and its page
\* loaded again meanwhile, and every poll of a page is the only one for a join of
\* its window that was published: no answer opens a second tab, and none opens a
\* tab for what the room has not got (chat.js:40-52, server.php:74-92).
SentOnce ==
  /\ \A r, s \in TabNames : \A i \in DOMAIN log[r], j \in DOMAIN log[s] :
       log[r][i].window = log[s][j].window /\ log[r][i].text = log[s][j].text
         => r = s /\ i = j
  /\ \A w \in Windows : \A i, j \in DOMAIN polls[w] :
       /\ polls[w][i].created \in DOMAIN log[polls[w][i].room]
       /\ log[polls[w][i].room][polls[w][i].created].window = w
       /\ polls[w][i].room = polls[w][j].room /\ polls[w][i].created = polls[w][j].created
            => i = j
===============================================================================
