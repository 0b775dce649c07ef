--------------------------- MODULE RedisConnection ---------------------------
(***************************************************************************)
(* One RedisClient object (library/RedisClient.php): the socket it opens,  *)
(* the commands it writes, the reply reader CommandBuilder::read, and the  *)
(* Pipeline objects that write to the same socket without reading.         *)
(*                                                                         *)
(* PHP runs the caller, the client and its pipelines on one thread, so a   *)
(* new call starts only when no read() is in progress (reading = 0).  The  *)
(* server and the network run concurrently with that thread.               *)
(*                                                                         *)
(* Calls are numbered 1, 2, ... in the order the program makes them.  The  *)
(* payload of a reply is abstracted to the call that caused it: what is    *)
(* kept is the line structure the reader walks.                            *)
(***************************************************************************)
EXTENDS Integers, Sequences

CONSTANTS
  Pipelines,        \* Pipeline objects made by RedisClient::pipeline
  pipeline_amount,  \* batch size each of them was made with
  Classes,          \* command classes the program uses, see AllClasses
  Shapes,           \* line structures a server reply may have
  TextHeads,        \* headers the text of a value may look like
  MayTimeout,       \* TRUE iff a reply may take longer than the read timeout
  MayDrop,          \* TRUE iff the server may close the connection on its own
  MaxCalls,         \* bound on the number of calls the program makes
  MaxUnread         \* bound on the unread lines a MONITOR stream produces

\* QUIT, SHUTDOWN and MONITOR are told apart by send() or by the server; every
\* other command class is "plain": one request, one reply.
AllClasses == {"plain", "quit", "shutdown", "monitor"}

Types == {"+", ":", "-", "$", "*", "text"}

\* A line of a reply.  t is what the reader dispatches on ("text" for what is no
\* header), n the number in a "$" or "*" header.  owed is auxiliary: how many
\* (sub)replies were still to be read, this one included, when the server wrote
\* the line.
ShapeLine == [t : Types, n : Int, owed : Nat \ {0}]

\* fgets() is called again: not for -1, and of a length below 2 it takes nothing.
BulkHead(l) == l.t = "$" /\ l.n >= 0

Elements(l) == IF l.t = "*" /\ l.n > 0 THEN l.n ELSE 0

\* Line b may follow line a in one reply.  Two texts in a row are one bulk
\* value that contains a line break.
Follows(a, b) ==
  \/ BulkHead(a) /\ b.t = "text" /\ b.owed = a.owed
  \/ a.t = "text" /\ b.t = "text" /\ b.owed = a.owed
  \/ ~BulkHead(a) /\ b.t # "text" /\ b.owed = a.owed - 1 + Elements(a)

Closing(l) == ~BulkHead(l) /\ l.owed - 1 + Elements(l) = 0

WellFormed(s) ==
  /\ s \in Seq(ShapeLine) /\ s # <<>>
  /\ s[1].owed = 1 /\ s[1].t # "text"
  /\ \A i \in 1..(Len(s) - 1) : Follows(s[i], s[i + 1])
  /\ Closing(s[Len(s)])

\* Reply structures that make read() stop before their end.
ErrorInside(s) == \E i \in 1..(Len(s) - 1) : s[i].t = "-"
LineBreak(s) == \E i \in 1..(Len(s) - 1) : s[i].t = "text" /\ s[i + 1].t = "text"

ASSUME PipelinesAssumption == "direct" \notin Pipelines
ASSUME AmountAssumption == pipeline_amount \in [Pipelines -> Int]
ASSUME ClassesAssumption == Classes \subseteq AllClasses
ASSUME ShapesAssumption == \A s \in Shapes : WellFormed(s)
ASSUME TextAssumption ==
  TextHeads \subseteq [t : Types, n : Int] /\ TextHeads # {}
ASSUME FlagsAssumption == MayTimeout \in BOOLEAN /\ MayDrop \in BOOLEAN
ASSUME BoundsAssumption == MaxCalls \in Nat /\ MaxUnread \in Nat

VARIABLES
  connected,      \* Connection::$connected
  socket,         \* Connection::$socket: "none", "open" or "closed"
  peer,           \* TRUE iff the server holds its end of the open socket
  monitoring,     \* the MONITOR call whose lines the server streams, 0 if none
  toServer,       \* calls written to the socket, not yet executed
  toClient,       \* reply lines not yet read
  pipeline,       \* Pipeline::$pipeline, the calls buffered
  pipeline_count, \* Pipeline::$pipeline_count
  reading,        \* the call whose read() is in progress, 0 if none
  owed,           \* (sub)replies that read() has yet to complete
  inBody,         \* TRUE iff read() is at the fgets of a bulk body
  stray,          \* TRUE iff the header of that bulk body was text
  got,            \* calls whose lines this read() has consumed, see Marks
  result,         \* how the last read() on this connection ended
  calls,          \* number of calls made
  sent,           \* history: calls written to an open socket, in order
  dropped,        \* history: buffered calls discarded by flush()
  causes          \* history: hazards this connection has met, see AllCauses

connVars == <<connected, socket, peer>>
wireVars == <<monitoring, toServer, toClient>>
pipeVars == <<pipeline, pipeline_count>>
readVars == <<reading, owed, inBody, stray, got, result>>
histVars == <<calls, sent, dropped, causes>>
vars == <<connVars, wireVars, pipeVars, readVars, histVars>>

Via == Pipelines \cup {"direct"}
Call == [id : Nat \ {0}, class : AllClasses, via : Via]
Line == [of : Nat \ {0}, t : Types, n : Int, owed : Nat \ {0}]
Outcomes == {"none", "value", "RedisServerException", "RuntimeException"}
AllCauses == {"pipeline", "timeout", "drop", "error inside", "line break", "monitor"}

\* Besides calls, got holds 0 for a bulk body that fgets() failed to read, and
\* Strayed when the read() took text for the header of a reply that goes on.
Strayed == -1
Marks == {0, Strayed}

NoResult == [call |-> 0, outcome |-> "none", got |-> {}]

ConnType ==
  /\ connected \in BOOLEAN /\ socket \in {"none", "open", "closed"} /\ peer \in BOOLEAN

WireType == monitoring \in Nat /\ toServer \in Seq(Call) /\ toClient \in Seq(Line)

PipeType ==
  /\ pipeline \in [Pipelines -> Seq(Call)]
  /\ pipeline_count \in [Pipelines -> Nat]

ReadType ==
  /\ reading \in Nat /\ owed \in Nat /\ inBody \in BOOLEAN /\ stray \in BOOLEAN
  /\ got \subseteq Nat \cup Marks
  /\ result \in [call : Nat, outcome : Outcomes, got : SUBSET (Nat \cup Marks)]

HistType ==
  /\ calls \in Nat /\ sent \in Seq(Call) /\ dropped \subseteq Nat
  /\ causes \subseteq AllCauses

TypeOK == ConnType /\ WireType /\ PipeType /\ ReadType /\ HistType

Init ==
  /\ connected = FALSE /\ socket = "none" /\ peer = FALSE
  /\ monitoring = 0 /\ toServer = <<>> /\ toClient = <<>>
  /\ pipeline = [p \in Pipelines |-> <<>>]
  /\ pipeline_count = [p \in Pipelines |-> 0]
  /\ reading = 0 /\ owed = 0 /\ inBody = FALSE /\ stray = FALSE /\ got = {}
  /\ result = NoResult
  /\ calls = 0 /\ sent = <<>> /\ dropped = {} /\ causes = {}

-----------------------------------------------------------------------------
(* Opening and closing.  The exceptions thrown before anything changes     *)
(* (AlreadyConnected, NotConnected, CommandNotFound, a failed validate())  *)
(* are stuttering steps.                                                   *)

Open ==
  /\ reading = 0 /\ ~connected
  /\ connected' = TRUE /\ socket' = "open" /\ peer' = TRUE
  /\ result' = NoResult /\ causes' = {}
  /\ UNCHANGED <<wireVars, pipeVars, reading, owed, inBody, stray, got, calls, sent, dropped>>

\* CouldNotConnectException: fsockopen() has left FALSE in $socket.
OpenFails ==
  /\ reading = 0 /\ ~connected
  /\ socket' = "none"
  /\ UNCHANGED <<connected, peer, wireVars, pipeVars, readVars, histVars>>

Hangup == peer' = FALSE /\ monitoring' = 0 /\ toServer' = <<>>

Close ==
  /\ reading = 0 /\ connected
  /\ connected' = FALSE /\ socket' = "closed" /\ Hangup /\ toClient' = <<>>
  /\ UNCHANGED <<pipeVars, readVars, histVars>>

-----------------------------------------------------------------------------
(* Direct calls: CommandBuilder::send, then CommandBuilder::read.          *)

NextCall(via, class) == [id |-> calls + 1, class |-> class, via |-> via]

\* fwrite() of a batch of calls.  A peer that is gone loses them; on a closed
\* socket PHP only warns, and flush() forgets the batch.
Write(batch) ==
  /\ toServer' = IF peer THEN toServer \o batch ELSE toServer
  /\ sent' = IF socket = "open" THEN sent \o batch ELSE sent
  /\ dropped' = IF socket = "open" THEN dropped
                ELSE dropped \cup {batch[i].id : i \in DOMAIN batch}

Send(class) ==
  /\ reading = 0 /\ connected /\ calls < MaxCalls
  /\ class # "quit"
  /\ calls' = calls + 1
  /\ Write(<<NextCall("direct", class)>>)
  /\ reading' = calls + 1 /\ owed' = 1 /\ inBody' = FALSE /\ got' = {}
  /\ UNCHANGED <<connVars, monitoring, toClient, pipeVars, stray, result, causes>>

\* Mutant: QUIT without its close().
Quit_StaysConnected ==
  /\ reading = 0 /\ connected /\ calls < MaxCalls
  /\ "quit" \in Classes
  /\ calls' = calls + 1
  /\ Write(<<NextCall("direct", "quit")>>)
  /\ UNCHANGED <<connVars, monitoring, toClient, pipeVars, readVars, causes>>

\* QUIT is written and the socket closed without a read.
Quit ==
  /\ reading = 0 /\ connected /\ calls < MaxCalls
  /\ "quit" \in Classes
  /\ calls' = calls + 1
  /\ sent' = Append(sent, NextCall("direct", "quit"))
  /\ connected' = FALSE /\ socket' = "closed" /\ Hangup /\ toClient' = <<>>
  /\ UNCHANGED <<pipeVars, readVars, dropped, causes>>

Return(outcome, g) ==
  /\ reading' = 0 /\ owed' = 0 /\ inBody' = FALSE /\ stray' = FALSE /\ got' = {}
  /\ result' = [call |-> reading, outcome |-> outcome, got |-> g]

\* Mutant: the elements of a multi bulk reply are not looped over.
Continue_FirstElement(left, g) == Return("value", g)

\* One (sub)reply is complete and more of them are left to read: the loop of
\* the "*" case goes on, or the outermost read() returns.
Continue(left, g) ==
  IF left = 0 THEN Return("value", g)
  ELSE /\ owed' = left /\ inBody' = FALSE /\ stray' = FALSE /\ got' = g
       /\ UNCHANGED <<reading, result>>

\* Mutants: the loop runs once too often, or once for each of -1 elements.
Loop_OneTooFar(k, l) == IF Elements(l) > 0 THEN k + Elements(l) ELSE k - 1
Loop_Negative(k, l) == IF l.t = "*" THEN k - 1 + l.n ELSE k - 1

\* How many (sub)replies are left to read when k were, and header l is read.
Loop(k, l) == k - 1 + Elements(l)

\* What the switch sees in a line.  Text in header position is what an earlier
\* read() left: it may look like any header.
Seen(l) ==
  IF l.t = "text" THEN {[l EXCEPT !.t = h.t, !.n = h.n] : h \in TextHeads} ELSE {l}

\* More fgets() calls follow the one that has read this header.
Opens(l) == BulkHead(l) \/ Elements(l) > 0

\* The first fgets() of read() and its switch.
ReadHeader ==
  /\ reading # 0 /\ ~inBody /\ toClient # <<>>
  /\ toClient' = Tail(toClient)
  /\ \E l \in Seen(Head(toClient)) :
       LET text == Head(toClient).t = "text"
           g == got \cup {l.of} \cup (IF text /\ Opens(l) THEN {Strayed} ELSE {})
       IN \/ l.t = "-" /\ Return("RedisServerException", g)
          \/ l.t = "text" /\ Return("RuntimeException", g)
          \/ /\ BulkHead(l)
             /\ inBody' = TRUE /\ stray' = text /\ got' = g
             /\ UNCHANGED <<reading, owed, result>>
          \/ l.t \notin {"-", "text"} /\ ~BulkHead(l) /\ Continue(Loop(owed, l), g)
  /\ UNCHANGED <<connVars, monitoring, toServer, pipeVars, histVars>>

\* What is left of a line of which fgets() took only the first characters.
Rest(l) == [of |-> l.of, t |-> "text", n |-> 0, owed |-> l.owed + Elements(l)]

\* fgets($socket, $count + 3): stops at the first line break of the body.  A
\* count that was text may stop it within a line.
ReadBody ==
  /\ reading # 0 /\ inBody /\ toClient # <<>>
  /\ \/ toClient' = Tail(toClient)
     \/ stray /\ toClient' = <<Rest(Head(toClient))>> \o Tail(toClient)
  /\ Continue(owed - 1, got \cup {Head(toClient).of})
  /\ UNCHANGED <<connVars, monitoring, toServer, pipeVars, histVars>>

\* fgets() returns FALSE: "timeout" in header position, a value that is FALSE
\* in body position.
FgetsFails ==
  /\ IF inBody THEN Continue(owed - 1, got \cup {0})
     ELSE Return("RuntimeException", got)
  /\ UNCHANGED <<connVars, wireVars, pipeVars, calls, sent, dropped>>

\* Mutant: fgets() is called again at the end of the stream.
ReadEOF_Retries ==
  reading # 0 /\ ~peer /\ toClient = <<>> /\ UNCHANGED vars

ReadEOF ==
  /\ reading # 0 /\ ~peer /\ toClient = <<>>
  /\ FgetsFails /\ UNCHANGED causes

\* The lines of toClient may still be on their way: the answer is late.
ReadTimeout ==
  /\ reading # 0 /\ peer /\ MayTimeout
  /\ FgetsFails /\ causes' = causes \cup {"timeout"}

-----------------------------------------------------------------------------
(* Pipelined calls: Pipeline::send and Pipeline::flush.                    *)

\* Mutants: one of the two resets behind fwrite() is missing, or the call that
\* fills the batch is not part of it.
WriteBatch_KeepsCount(p, batch) ==
  /\ Write(batch)
  /\ pipeline' = [pipeline EXCEPT ![p] = <<>>]
  /\ UNCHANGED pipeline_count
  /\ causes' = causes \cup {"pipeline"}

WriteBatch_KeepsBuffer(p, batch) ==
  /\ Write(batch)
  /\ pipeline' = [pipeline EXCEPT ![p] = batch]
  /\ pipeline_count' = [pipeline_count EXCEPT ![p] = 0]
  /\ causes' = causes \cup {"pipeline"}

WriteBatch_WithoutLast(p, batch) ==
  /\ Write(SubSeq(batch, 1, Len(batch) - 1))
  /\ pipeline' = [pipeline EXCEPT ![p] = <<>>]
  /\ pipeline_count' = [pipeline_count EXCEPT ![p] = 0]
  /\ causes' = IF peer THEN causes \cup {"pipeline"} ELSE causes

WriteBatch(p, batch) ==
  /\ Write(batch)
  /\ pipeline' = [pipeline EXCEPT ![p] = <<>>]
  /\ pipeline_count' = [pipeline_count EXCEPT ![p] = 0]
  /\ causes' = IF peer THEN causes \cup {"pipeline"} ELSE causes

PipelineSend(p, class) ==
  /\ reading = 0 /\ connected /\ calls < MaxCalls
  /\ calls' = calls + 1
  /\ LET batch == Append(pipeline[p], NextCall(p, class))
     IN IF pipeline_count[p] + 1 = pipeline_amount[p]
        THEN WriteBatch(p, batch)
        ELSE /\ pipeline' = [pipeline EXCEPT ![p] = batch]
             /\ pipeline_count' = [pipeline_count EXCEPT ![p] = @ + 1]
             /\ UNCHANGED <<toServer, sent, dropped, causes>>
  /\ UNCHANGED <<connVars, monitoring, toClient, readVars>>

\* flush() asks neither whether the client is connected nor what fwrite() did.
Flush(p) ==
  /\ reading = 0
  /\ pipeline_count[p] > 0
  /\ WriteBatch(p, pipeline[p])
  /\ UNCHANGED <<connVars, monitoring, toClient, readVars, calls>>

-----------------------------------------------------------------------------
(* The server and the network: not in the repository, modelled from what   *)
(* the client expects of them.                                             *)

Reply(c, s) ==
  [i \in DOMAIN s |-> [of |-> c, t |-> s[i].t, n |-> s[i].n, owed |-> s[i].owed]]

StatusLine(c) == [of |-> c, t |-> "+", n |-> 0, owed |-> 1]

Serve ==
  /\ toServer # <<>> /\ Head(toServer).class = "plain"
  /\ \E s \in Shapes :
       /\ toClient' = toClient \o Reply(Head(toServer).id, s)
       /\ causes' = causes \cup (IF ErrorInside(s) THEN {"error inside"} ELSE {})
                           \cup (IF LineBreak(s) THEN {"line break"} ELSE {})
  /\ toServer' = Tail(toServer)
  /\ UNCHANGED <<connVars, monitoring, pipeVars, readVars, calls, sent, dropped>>

ServeMonitor ==
  /\ toServer # <<>> /\ Head(toServer).class = "monitor"
  /\ toClient' = Append(toClient, StatusLine(Head(toServer).id))
  /\ toServer' = Tail(toServer)
  /\ monitoring' = Head(toServer).id
  /\ causes' = causes \cup {"monitor"}
  /\ UNCHANGED <<connVars, pipeVars, readVars, calls, sent, dropped>>

\* A pipelined QUIT is answered before the server hangs up, SHUTDOWN is not.
ServeLast ==
  /\ toServer # <<>> /\ Head(toServer).class \in {"quit", "shutdown"}
  /\ toClient' = IF Head(toServer).class = "shutdown" THEN toClient
                 ELSE Append(toClient, StatusLine(Head(toServer).id))
  /\ Hangup
  /\ UNCHANGED <<connected, socket, pipeVars, readVars, histVars>>

MonitorLine ==
  /\ monitoring # 0 /\ Len(toClient) < MaxUnread
  /\ toClient' = Append(toClient, StatusLine(monitoring))
  /\ UNCHANGED <<connVars, monitoring, toServer, pipeVars, readVars, histVars>>

\* The idle timeout of redis.conf, a restart, a cut cable: what was on its way
\* arrives up to some line and no further.
Drop ==
  /\ MayDrop /\ peer
  /\ Hangup
  /\ \E k \in 0..Len(toClient) : toClient' = SubSeq(toClient, 1, k)
  /\ causes' = causes \cup {"drop"}
  /\ UNCHANGED <<connected, socket, pipeVars, readVars, calls, sent, dropped>>

-----------------------------------------------------------------------------
Read == ReadHeader \/ ReadBody \/ ReadEOF \/ ReadTimeout

Client ==
  \/ Open \/ OpenFails \/ Close \/ Quit \/ Read
  \/ \E class \in Classes : Send(class)
  \/ \E p \in Pipelines : Flush(p) \/ \E class \in Classes : PipelineSend(p, class)

Server == Serve \/ ServeMonitor \/ ServeLast \/ MonitorLine \/ Drop

Next == Client \/ Server

Spec == Init /\ [][Next]_vars

\* The caller's thread is blocked in read() until fgets() returns, and
\* fgets() returns within default_socket_timeout: nothing is asked of the
\* server or of the program that makes the calls.
LiveSpec == Spec /\ WF_vars(Read)

-----------------------------------------------------------------------------
(* Properties.                                                             *)

\* read() promises "the appropriate response according to the command that
\* caused it" (RedisClient.php:125): whatever it returns, or throws as an error
\* of the server, was made of lines the server wrote for that very call.  The
\* code keeps this promise only on a connection none of AllCauses has met.
AppropriateResponse ==
  result.outcome \in {"value", "RedisServerException"} => result.got = {result.call}

\* Calls that have entries in the wires though nobody reads for them any more.
Stale ==
  ({toClient[i].of : i \in DOMAIN toClient} \cup {toServer[i].id : i \in DOMAIN toServer})
    \ {reading}

\* The read that the code gets right: a connection that was never pipelined,
\* never timed out, never monitored, and whose replies hold no error element
\* and no line break, has no line of another call on its wires, between calls
\* nothing at all, and hands every call its own answer.  A connection the
\* server drops stays aligned: the call in progress may get FALSE for a bulk
\* body (the 0), never the answer of another call.
InSyncUnlessCaused ==
  causes \subseteq {"drop"} =>
    /\ Stale = {}
    /\ reading = 0 => toServer = <<>> /\ toClient = <<>>
    /\ got \subseteq {reading, 0}
    /\ result.got \subseteq {result.call, 0}

\* A value with a line break, or whose body came late, leaves text for the next
\* read(): nothing else does.
TextLeft == causes \cap {"line break", "timeout"} # {}

\* However far the connection is out of step, one read() puts lines of two
\* calls together only when it has taken the text of a value for a header: the
\* recursion of the "*" case otherwise stops at or before the last line of the
\* reply it started in.  And no value but those of TextLeft is ever taken for
\* a header (RedisClient.php:148-170).
NoMixedReply ==
  \A g \in {got, result.got} :
    IF Strayed \in g THEN TextLeft ELSE \A c, d \in g \ Marks : c = d

Skewed == Stale # {}

\* Being out of step is not repaired by going on: as long as the connection
\* lives, no later call and no exception brings replies and calls back together,
\* because every call adds a reply and reads at most one.  The one exception is
\* a read() that takes text of a value for a header: it may use up, besides
\* that text, its own reply (RedisClient.php:106-119, 148-163).
SkewIsPermanent ==
  [][Skewed /\ socket = "open" /\ socket' = "open" /\ peer'
       => Skewed' \/ Strayed \in got \cup got']_vars

\* A batch is sent in full or kept: the counter counts the buffer, and with a
\* positive batch size it never passes the size (RedisClient.php:227-233).
BatchBound ==
  \A p \in Pipelines :
    /\ pipeline_count[p] = Len(pipeline[p])
    /\ pipeline_amount[p] > 0 => pipeline_count[p] < pipeline_amount[p]

\* The calls of one pipeline (or of the client itself) reach the socket in the
\* order they were made and none of them twice, however flushes, batches and
\* direct calls alternate; what is still buffered is younger than what was
\* sent or dropped.
SendOrder ==
  /\ \A i, j \in DOMAIN sent :
       i < j /\ sent[i].via = sent[j].via => sent[i].id < sent[j].id
  /\ \A p \in Pipelines : \A i \in DOMAIN pipeline[p] :
       /\ \A j \in DOMAIN pipeline[p] : j < i => pipeline[p][j].id < pipeline[p][i].id
       /\ \A j \in DOMAIN sent : sent[j].via = p => sent[j].id < pipeline[p][i].id
       /\ pipeline[p][i].id \notin dropped

SentIds == {sent[i].id : i \in DOMAIN sent}
Buffered(p) == {pipeline[p][i].id : i \in DOMAIN pipeline[p]}

\* No call is lost but by a flush() on a closed socket (RedisClient.php:213),
\* and what is lost that way is gone: whatever close(), QUIT, open() and other
\* pipelines come between a call and its batch, it was written, is buffered
\* in one pipeline or was discarded, and never two of these.
EveryCallOnce ==
  /\ 1..calls = SentIds \cup dropped \cup UNION {Buffered(p) : p \in Pipelines}
  /\ SentIds \cap dropped = {}
  /\ \A p \in Pipelines :
       /\ Buffered(p) \cap (SentIds \cup dropped) = {}
       /\ \A q \in Pipelines \ {p} : Buffered(p) \cap Buffered(q) = {}

\* Every call returns or throws, however the server behaves, because fgets()
\* has a time limit.
CallReturns == reading # 0 ~> reading = 0

\* On a connection that meets none of the causes, the client implements the
\* request-reply discipline of RequestReply: a call returns only an answer the
\* server gave to it, and only after the server has served it.
Call_Served == reading # 0 /\ toServer = <<>> /\ (toClient # <<>> \/ got # {})

RR == INSTANCE RequestReply WITH pending <- reading, served <- Call_Served

ImplementsRequestReply == RR!Spec

-----------------------------------------------------------------------------
(* The inductive invariant behind InSyncUnlessCaused, NoMixedReply,        *)
(* AppropriateResponse and ImplementsRequestReply.                         *)

\* What close() and a hang-up leave behind.
ConnectionInv ==
  /\ connected <=> socket = "open"
  /\ peer => connected
  /\ ~connected => reading = 0 /\ toClient = <<>>
  /\ ~peer => toServer = <<>> /\ monitoring = 0

\* The bytes not yet read are a suffix of a reply followed by whole replies;
\* only a hang-up cuts the last one short.
Linked(a, b) ==
  \/ a.of = b.of /\ Follows(a, b)
  \/ Closing(a) /\ b.owed = 1 /\ b.t # "text"

WireInv ==
  /\ \A i \in 1..(Len(toClient) - 1) : Linked(toClient[i], toClient[i + 1])
  /\ peer /\ toClient # <<>> => Closing(toClient[Len(toClient)])

\* The reader never expects more (sub)replies than are left of the reply its
\* next line belongs to, unless it has taken text for a header.
InReply ==
  /\ ~stray
  /\ reading # 0 /\ toClient # <<>> =>
       /\ owed <= toClient[1].owed
       /\ inBody => toClient[1].t = "text"
       /\ got \subseteq {toClient[1].of, 0}
  /\ reading # 0 /\ toClient = <<>> /\ peer => owed = 1 /\ ~inBody /\ got = {}

ReaderInv ==
  /\ reading = 0 => owed = 0 /\ ~inBody /\ got = {}
  /\ reading # 0 => owed > 0
  /\ Strayed \notin got => InReply

\* Text is only where a bulk body is expected.
TextInv ==
  ~TextLeft =>
    /\ toClient # <<>> /\ toClient[1].t = "text" => inBody
    /\ \A i \in 1..(Len(toClient) - 1) : toClient[i].t = "text" => toClient[i + 1].t # "text"
    /\ Strayed \notin got \cup result.got

\* Lines of one reply that a read() walks to the end: an error or the end of
\* a bulk body only where the reader expects it.
Unbroken(q) ==
  \A i \in 1..(Len(q) - 1) :
    /\ Follows(q[i], q[i + 1])
    /\ q[i].t # "-"
    /\ ~(q[i].t = "text" /\ q[i + 1].t = "text")

\* The wires hold the request in progress, or what is left of its reply, and
\* the reader is exactly in step with it.
InSync ==
  /\ monitoring = 0
  /\ reading = 0 => toServer = <<>> /\ toClient = <<>>
  /\ toServer # <<>> => Len(toServer) = 1 /\ toServer[1].id = reading /\ toClient = <<>>
  /\ \A i \in 1..Len(toClient) : toClient[i].of = reading
  /\ Unbroken(toClient)
  /\ toClient # <<>> => owed = toClient[1].owed /\ (toClient[1].t = "text" => inBody)
  /\ got \subseteq {reading, 0}
  /\ result.got \subseteq {result.call, 0}

SyncInv == causes \subseteq {"drop"} => InSync

\* Nothing cuts a reply short: its last line is on the wire until the reader
\* has taken it, and the reader never runs out of lines within a reply.
Answered ==
  /\ 0 \notin got
  /\ toClient # <<>> => Closing(toClient[Len(toClient)])
  /\ reading # 0 /\ toClient = <<>> => owed = 1 /\ ~inBody /\ got = {}
  /\ AppropriateResponse

\* Calls are numbered upwards, and the promise of read() is kept until one of
\* AllCauses occurs.
AnswerInv == reading <= calls /\ result.call <= calls /\ (causes = {} => Answered)

IInv ==
  /\ TypeOK /\ ConnectionInv /\ WireInv /\ ReaderInv /\ TextInv /\ SyncInv
  /\ NoMixedReply /\ AnswerInv
=============================================================================
