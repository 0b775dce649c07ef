# RedisPHPlay in TLA+

RedisPHPlay is a redis client written in PHP. A program calls methods named
after redis commands on a client object; the library validates the arguments,
writes a request to a socket and reads the reply, line by line. This directory
holds TLA+ models of the library, the TLC runs that check them, and proofs that
TLAPS checks. Paths below are relative to the root of the repository; the
library is in `library/`, and `examples/chat/` is the one example that is a
system of its own.

## 1. The system

| part | state it keeps | operations |
|---|---|---|
| `Connection` (RedisClient.php:4-76) | socket, `$connected` | `open`, `close`, `connected` |
| `CommandBuilder` (83-180) | static cache of command objects | `__call` (look up, validate, send), `send`, `read` |
| `Pipeline` (187-236) | request buffer and its count, the client | `send`, `flush` |
| `RedisChannel` (264-313) | copies of the client's socket and flag | constructor, `wait`, `__call` for (un)subscribe |
| `RedisManager` (RedisManager.php) | table of clients by address and port | `connect` |
| command classes (`*Commands.php`) | none | `validate`, `build`, `output` |
| exceptions | none | `RedisException` and, below it, `ValidationException` |
| chat: `server.php` (examples/chat) | one process per request; a counter of users in redis | `connect`, `subscribe` (the listener's loop), `send` (a join or a text) |
| chat: `LongPoll` (chat.js:217-258) | read position in an answer that grows | start after a delay, `onreadystatechange` |
| chat: the windows (chat.js, yetii.js) | user name in `sessionStorage`, tabs, polls, requests under way | load, submit, click a tab, the callbacks of `getJSON` |
| `Cluster` | none | an empty class |

**How they interact.** All of them are PHP objects on one thread, so no two
methods run at once. What makes the library concurrent is the socket: the
server answers in its own time, may be late, may push (MONITOR, messages), may
hang up. Three kinds of objects share one socket with no protocol between
them: a client (writes and reads), its pipelines (write only) and its channels
(write and read, with a `$connected` of their own). A manager hands the same
client to all who ask for its address.

In the chat every window sends requests to `server.php`, which opens a client of
its own for each. A join or a text is published to the room's redis channel.
A `subscribe` request makes a `RedisChannel` and echoes what its `wait()`
returns for as long as it lives, so the answer never ends and keeps one of the
few connections a browser has to a server. The poll reads that answer as it
grows.

**What is hard.** A reply carries no mark of the call that caused it: the n-th
reply read is taken for the answer to the n-th call. Everything that breaks
that correspondence is a hazard: requests whose replies nobody reads, replies
that come after the reader has given up, replies the reader leaves half-read,
lines pushed by the server. Next to that: flags that remember what was done
rather than what is, and validators and conversions written by hand for 117 classes. In the chat it
is what arrives together or in pieces, answers that come back in any order, to a
page that is gone, or not at all, and the connections that polls keep.
`PROJECT.json` lists each hazard at its line.

**What makes each part correct.**

* direct calls: a call returns what the server answered to that call; a call
  always comes back; a connection out of step is noticed, or at least repairable;
* pipelines: each call is sent once and in order, and the counter counts;
* channels: each message is handed out once and in order; the listener's loop
  ends with the connection; the objects agree on whether it is open;
* manager: one connection to an address; failed attempts leave nothing behind;
* commands: what is documented can be sent, what is not is rejected, and
  rejected in the documented way; answers a caller must tell apart stay apart
  after the conversion, and QUEUED is never data;
* polls: a poll shows the messages of its room in order and without a gap, and
  shows all of them unless it got stuck or was cut off;
* windows: names are unique and kept, messages are signed by their window, a
  poll does not repeat the join that opened it, a text is published at most once.

## 2. Modules

| module | models |
|---|---|
| `RedisConnection` | one client, its pipelines and the reply reader |
| `RequestReply` | abstract: one call at a time, answered by its own answer |
| `MCRedisConnection` | reply structures, pipelines and bounds for TLC |
| `RedisConnectionTypes`, `RedisConnectionProofs` | the proofs about the reader |
| `PipelineProofs` | the proofs about pipelines, and about a connection out of step |
| `RedisChannel` | a client and its channels on one socket |
| `Subscription` | abstract: messages once, in order, until closed |
| `RedisChannelProofs` | the proofs |
| `RedisManager`, `RedisManagerProofs` | the table of clients, and the proofs |
| `Commands`, `MCCommands` | the command classes, the validators, the request, and the conversion of the reply |
| `CommandsProofs` | the proofs, one step for each kind of class and of answer |
| `LongPoll`, `MCLongPoll`, `LongPollProofs` | the polls of the chat and the process behind each, and the proofs |
| `Chat`, `MCChat`, `ChatProofs` | the windows of the chat, their requests and `server.php`, and the proofs |

Two abstract modules are shared: `RedisConnection` implements `RequestReply`,
and `Subscription` is implemented twice, by the channel in `RedisChannel` and by
the poll in `LongPoll` that carries a channel's messages on to a window. `LongPoll`
takes from the channel exactly what `Subscription` promises. `Chat` takes from
`LongPoll` since when a poll listens.

### RedisConnection

The client's fields keep their names (`connected`, `socket`, `pipeline`,
`pipeline_count`). `toServer` and `toClient` are the two directions of the
socket: calls not yet executed and reply lines not yet read. `peer` says
whether the server holds its end. `reading`, `owed`, `inBody` are the program
counter of `read()`: the call it was made for, how many (sub)replies its
recursion has still to complete, and whether it stands at the second `fgets` of
a bulk reply. The recursion `for ($i < $count) read()` is the counter `owed`:
`Loop` adds the elements of a `*` header to it.

| action | code |
|---|---|
| `Open`, `OpenFails`, `Close` | `Connection::open`, `close` |
| `Send`, `Quit` | `CommandBuilder::send`: write, then read; QUIT closes instead |
| `ReadHeader` | first `fgets` and the `switch` of `read()` |
| `ReadBody` | `fgets($socket, $count + 3)` |
| `ReadEOF`, `ReadTimeout` | `fgets` returns FALSE: exception in header position, the value FALSE in body position |
| `PipelineSend`, `Flush` | `Pipeline::send`, `flush` |
| `Serve`, `ServeMonitor`, `ServeLast`, `MonitorLine`, `Drop` | the server and the network, modelled from what the client expects |

Abstractions. A reply's payload is the number of the call that caused it, which
is what the properties tell apart; its line structure is kept in full: types,
counts, nesting, errors inside, bulk values with line breaks, nil. Each line
carries, as auxiliary data of the server, how many (sub)replies were owed when
it was written; the reader never looks at it. Lines arrive whole; a line under
way is a line not yet in `toClient`, and `ReadTimeout` may happen with lines
present, which stands for lines that come just too late. Text found where a
header is expected, the second line of a value for one, is seen as any header of
`TextHeads` (`Seen`). When that is the head of a reply that goes on (`Opens`), the
read takes lines of other replies for its body or its elements, or part of a line
(`stray`, `Rest`), and `got` carries the mark `Strayed`. `result`, `got`, `sent`, `dropped`, `causes` are history variables: how the last
read ended and of which calls' lines, what was written and discarded, and which
hazards the connection has met.

### RedisChannel

`connected` is a sequence of flags: the client's, then one for each channel
object. Replies are read whole here; how they are read is `RedisConnection`'s
subject. `reading` says which object's `read()` is in progress and for what
(constructor, `wait()`, another call), since that decides what becomes of the
item: `Construct` keeps it, `CallReturns` returns it, `WaitReturns` hands it to
the listener. `CloseSocket` is `Connection::close()`: `fclose` of a socket that
another object has closed fails, and the flag stays. `swallowed` is the history
of messages taken for an answer.

`Open` is `open()` on whichever object knows that it is closed. Since only the
object that closed the socket knows (`ExactlyOneKnows`), that is the only one
that can open it again, and there is never more than one live socket. The
others are `stale`: they hold the dead socket and a flag that says connected, so
their calls fail, and so do their `close()`, which throws, and their `open()`,
which is refused. QUIT is a `Close` of the client, as `send()` does it. The
histories start again with each `open()`.

### RedisManager

`clients` is the manager's table; `key` and `connected` describe the client
objects made. The actions are the three outcomes of `connect()`, and what the
users of a client do to it. A redis that stops or starts to accept connections
is `ServerChanges`.

### Commands

One row per command class, translated from its `validate()`: the comparison of
the argument count and what is asked of the first arguments. An argument is
abstracted to its kind, as far as the validators and `serialize()` tell kinds
apart. What `validateKey` lets through is of two sorts: `Worded`, what is sent as a word
of key characters (integers and floats that print as digits among them), and `Loose`,
what passes only because `!=` compares loosely: a numeral as ' 1', the empty string,
NULL, FALSE and an array without elements. The rows are in the order of the source's
files: each file's operator ends by asking the one before it, so that `ClassOf` is the
lookup of `class_exists`.

`UsageLine` is the reference: the usage line in each class's comment (`HMGET key field
[field ...]`), as parameters, a part that may be repeated, options, and an end. It has
the line of every class but SORT, ZINTERSTORE and ZUNIONSTORE, which have a grammar of
their own, and but the four that are commented out (GETBIT, GETRANGE, SETBIT, SETRANGE);
SORT, ZINTERSTORE and ZUNIONSTORE have their count checked. ECHO has a line and no
class, because its class is called `_ECHO`.

`Answers` is what a server may answer to each command, with two values of one
type where a caller has a reason to tell them apart. `Converted` is the `switch` of
`read()` and `Output` the `output()` of the classes that have one. `queueing` says
that the server is between MULTI and EXEC, where it answers QUEUED to
nearly everything and the client converts that as if it were the reply.

Some names do not do what their line says. `Commands` lists them: `TooLax` (21, for
example HMSET with a field and no value, MSETNX and PUBLISH of one argument, BLPOP
without a time-out), `TooStrict` (ECHO, and 13 classes: HMGET, MGET and MSET of one field
or key, SLAVEOF with any argument, SREM of a member that is no key, ZINCRBY by a float),
`Unknown` (commands of two words, which are sent as one: CONFIG_GET), `Uncatchable` (ZADD
throws `InvalidArgumentException`) and `Lossy` (RANDOMKEY cuts a key at its first
underscore); `Pairs` take QUEUED for a list without elements. `MCCommands` has the names
of all 117 classes (`Library`); the 76 others with a usage line are `Conforming`. That no
other name with a usage line belongs in these sets is proved in `CommandsProofs`.

### LongPoll

A message is its number in its room. `out` is the sequence of objects one
`server.php` process has echoed: messages, the NULL that `wait()` returns when it
has closed the channel (`NoData`), and the response behind the loop (`Response`).
`arrived` counts half objects, so that an event may find an object that is not
complete. `position` is `length`, in objects.

| action | code |
|---|---|
| `Listen`, `Refuse`, `Fail` | the `subscribe` case of `server.php`: a channel, no connection to redis, SUBSCRIBE throws |
| `WaitReturns`, `WaitCloses` | one round of the loop (server.php:52-60): a message, or NULL |
| `Finish` | the end of `server.php` behind the loop |
| `Cut` | the process or the connection ends |
| `ReadyStateChange` | chat.js:225-233; `Evaluate` is its `eval`, the handler and the move of `length` |

For the polls in `Merging` several objects, or pieces of them, may arrive with
one event; for the others an event brings one object or a piece of one. `Stuck`
is the state nothing repairs: the unread text is no longer exactly one object
with a message. `View(p)` maps a poll to `Subscription`: what was published since it
listens, what it has shown, and open until it is stuck.

### Chat

A request is a record: its place in the browser's queue (`id`), its kind, its
room, the name it is signed with, the number of its text in its window, and its
response (`code`). That number is not in the program: it tells which text a message is,
and `nameless` how many of a window's texts were submitted before it had a name. A window whose page
is loaded again leaves requests behind whose `sender` is gone; only what the server
has begun to work on still happens (`Abandoned`). `Dispatched` says that a request
has one of the browser's connections, given in the order of sending and counting
those the listening polls hold; a request behind them waits, perhaps for ever.

| action | code |
|---|---|
| `Load` | the page: the status tab, and `connect()` unless `sessionStorage` has a name |
| `Submit`, `ClickTab` | the user; a text goes to the active tab's room, signed with the name the window has now |
| `Handle` | `server.php`: `Connect`, `Join`, `Say`, `RejectSay`, `Subscribe`, `Refuse` |
| `Lose` | a request or its answer is lost, for which `getJSON` has no callback |
| `OnError`, `OnConnect`, `OnSend` | the callbacks; that of a join makes a tab and a poll (`AddChannel`) |
| `StartPoll`, `EndPoll` | the poll's timer, and the end of its connection or channel |

## 3. Runs

| run | shows |
|---|---|
| `RedisConnection_full` | all hazards at once, with two pipelines: `InSyncUnlessCaused`, `NoMixedReply`, `SkewIsPermanent`, `CallReturns`, `BatchBound`, `SendOrder`, `EveryCallOnce`, and the invariant `IInv` of the proofs |
| `RedisConnection_clean` | without the hazards, `AppropriateResponse` and the refinement of `RequestReply` |
| `RedisConnection_afterpipeline` | violation: a direct call after a batch gets the batch's first reply |
| `RedisChannel_full` | all calls on a client and two channels, QUIT and `open()` among them: `ExactlyOneKnows`, `EveryMessageOnce`, `ReadEnds` |
| `RedisChannel_listener` | the listener's loop: `ImplementsSubscription`, `LoopEnds`, `MessagesArrive` |
| `RedisChannel_quiet` | violation: a quiet channel is closed, not "restarted" |
| `RedisManager_full` | `NeverOpenedTwice`, `ClosedByUser` |
| `RedisManager_closed` | violation: `connect()` returns a client that was closed |
| `Commands_conforming` | for the 76 classes of `Conforming` and a name no class has: documented calls are sent, others rejected and catchable; `AnswersToldApart`, `QueuedIsNoData` |
| `Commands_arity` | violation: HMGET of one field is rejected |
| `LongPoll_full` | two polls of a room: `ShownInOrder`, `EndIsLast`, `StuckForever`, `PublishedIsShown`, `EchoedIsShown`, and the refinement of `Subscription` |
| `Chat_full` | two windows of one browser: `UniqueNames`, `NameKept`, `SignedByOwner`, `JoinNotEchoed`, `SentOnce` |

**What they say about direct calls.** `AppropriateResponse` is what `read()`
promises (RedisClient.php:125). It does not hold in general.
`InSyncUnlessCaused` gives the exact boundary: it holds on a connection that met
none of *pipeline*, *timeout*, *error inside*, *line break*, *monitor*; a lost
connection costs the call in progress its value but no later call its own.
`SkewIsPermanent` says that going on does not repair a connection beyond the boundary,
and `NoMixedReply` that even there one read returns lines of one call only. Both have one
exception, and it is stated in them: a read that takes text of a value for the head of a
reply that goes on. If a line left over from a value is `*1` or `$5`, `read()` takes its
own reply for the element or the body (RedisClient.php:148-163). Then one value is made of
two calls' lines, and the connection may even be in step again afterwards. That takes a
value with a line break or a body that came late, which `NoMixedReply` says too.

One of the causes, the pipeline, has a violation run of its own. The others can be seen the same way by checking `AppropriateResponse` in the clean run with
`MayTimeout`, with the shape `ExecError` or `TwoLines`, or with the class `monitor`:
the late answer, the rest of an EXEC reply behind a failed command, the second
line of a value, or a line of the MONITOR stream is returned by the next call.

**What they say about the chat.** A poll never shows a message twice, out of
order, or after one it has not shown (`ShownInOrder`), but it may stop showing
any: once two objects arrive together, or one without a message, it is stuck for
good (`StuckForever`), because `eval` fails on what it reads from then on and
nothing starts it again. That is the only way to lose a message while the process
listens (`PublishedIsShown`), and where objects arrive one at a time the NULL at
the end never hides one (`EchoedIsShown`).

A window's texts are signed with its name, or by nobody when it had none yet, whatever
page sent them and whenever they were answered (`SignedByOwner`): what decides is
when a text was submitted, not when it is published. A text is published at most once,
and what a tab shows a join for was published once (`SentOnce`): no callback of `getJSON`
repeats what it has no answer to. The price is that a lost join or text is lost; nothing
tells the user. Polls hold their connections, so requests may wait for ever behind them;
`Dispatched` models that, and no property promises anything of such a request.

**Differences met without a run of their own.**

* `flush()` on a closed client discards the batch silently (RedisClient.php:213).
* A value with a line break shifts every later reply (153).
* `connected()` stays TRUE after the end of the stream (174) and after another
  object closed the shared socket (274). Channels made before an `open()` after
  a `close()` keep the dead socket, say they are connected, and can neither be
  closed nor opened.
* A message under way when (UN)SUBSCRIBE is called on a channel is taken for the
  confirmation (276), and SUBSCRIBE to n names leaves n - 1 confirmations that
  `wait()` returns.
* EXEC gives NULL for an aborted transaction and for an empty one (160).
* `validateKey` means to let through what matches its pattern (RedisCommand.php:76), and
  lets through the empty string, NULL, FALSE, an array without elements and numerals
  such as ' 1' as well (77): `EXISTS('')` is sent. An array with elements passed as a
  value is announced with a length that is no number (35).
* README:24-25 names the supertype of all validation exceptions
  `RedisValidationException` and RedisCommand.php:19 has `InvalidCommandException`.
  Neither class exists; the supertype is `ValidationException`
  (RedisValidationExceptions.php:8), which is what `RejectedIsCatchable` is about.
* `ECHO`, documented at ConnectionCommands.php:22, has no class of that name.
* `CONFIG_GET`, `CONFIG_SET`, `CONFIG_RESETSTAT` and `DEBUG_OBJECT` are sent with the
  underscore (ServerCommands.php:42), as commands no server knows.
* RANDOMKEY returns the part of a key before its first underscore
  (KeyCommands.php:184).
* HGETALL and BLPOP between MULTI and EXEC give an empty array
  (HashesCommands.php:77), and HGETALL of an empty hash gives one with a warning.
* The status BGSAVE answers with becomes FALSE (RedisClient.php:142).
* The `@return int` of EXISTS and its like is a boolean (KeyCommands.php:40).
* Two objects that arrive together are never read (chat.js:219 points behind the
  last answer, :231 moves only after an `eval` of all that is unread).
* `reload(-1)` is to switch to the "rightmost tab" (chat.js:182) and switches to
  the tab numbered `size(channels)` (187), another one when a room is joined
  twice; both polls then write to both tabs.
* The note that each window gets a username (chat.js:171) is not true of what is
  sent before the answer to `connect`: it is signed "undefined" (36).

**Bounds.** Two or three calls are enough for every hazard of
`RedisConnection`: one to disturb, one to be answered wrongly, one to see it
stay. `AnyHead` gives a text four faces, one for each way on: a complete reply, no
header, the head of a bulk, the head of a list. `AllShapes` holds one reply of each line structure the reader has a branch
for, with nesting of depth one (two in `CleanShapes`); deeper ones are covered by
the proof, which is for any set of well-formed replies. Two channels, four
calls and two messages let each pair of objects on the socket disturb each
other, show an overtaking, and leave time to subscribe, close, open and call an
object that was left behind. Three clients over two keys let a second client of
a key come up if it could. Four arguments pass the longest usage line with
one repetition, and `OneOfAKind` has eleven of the kinds of argument, one for each set of
validators that accepts it. `MaxUnread` bounds only the MONITOR stream. Two polls of one
room, one whose objects merge, and three messages are enough for a message before an event,
one together with it, and one behind it. In `Chat_full` two windows of one browser
share two connections. One of them may load its page twice and submit two texts, a join
and a text to the room it has joined, before, between and after the loads; the other
loads once and joins. Two joins fill the connections, and a name can be asked for by a
page that is reloaded before the answer. `View` counts as one the states that differ only
in the numbers of the requests, since the model asks of two numbers only which is lower
and a new request gets the highest, or only in the active tab of a window that may submit
no more, since nothing but `Submit` and `TypeOK` asks for it. What more windows, rooms and browsers could do to
names and signatures is covered by the proofs.

**Deadlock.** It is checked for `RedisConnection` and `RedisManager`.
In `RedisChannel` and `Commands` the program stops at its bound of calls; in
`LongPoll` and `Chat` nothing is left to do when all that may be published, loaded
and submitted was, and the polls have ended.

**Fairness.** `LiveSpec` asks one thing: that a `read()` in progress goes on.
PHP's `default_socket_timeout` makes `fgets` return on a silent server, and PHP
runs the loop in `read()`. Nothing is asked of the server, nor of the program that
calls. `ListenerSpec` adds that the program is the loop
`while ($channel->connected()) $channel->wait();` of
`examples/chat/server.php:52` and `examples/pubsub.php:30`. `RedisChannel_listener`
runs it without time-outs, because a time-out closes the channel and would make
`MessagesArrive` true of a listener that gets nothing. In `LongPoll` a process
returns from `wait()` when redis has sent a message, which is `MessagesArrive`, and
goes on to its end; and what was echoed and flushed reaches the browser. None of the
conditions asks that a poll or a process ends. `Chat` states no fairness: its properties
are about what may happen.

**Mutants.** Definitions like `Loop_OneTooFar` or `ConnectFails_Kept` stand before
the definition they vary. No specification uses them; each is a plausible
bug that one of the properties finds.

## 4. Proofs

All theorems hold for every value of the constants that satisfies the named
assumptions; those state types, finiteness of the set of channels, and that a
reply the server writes is well-formed (`ShapesAssumption`). What a text looks like is not
assumed: `TextAssumption` only gives `TextHeads` its type. Where a property holds of
some programs only, the theorem says which in its statement.

* `RedisConnectionProofs`: `IInvCorrect`, and from it `TypeCorrect`,
  `NoMixedReplyCorrect` and `InSyncCorrect`. `InSyncUnlessCaused` speaks of what
  has been returned and is not inductive: a step of the reader is safe only
  because of what is still on the wire. `IInv` adds to the properties: `ConnectionInv`,
  what closing and a hang-up leave behind. `WireInv`: the unread lines are a suffix
  of a reply followed by whole replies. `ReaderInv`: unless the read has taken text for
  the head of a reply that goes on, it never owes more than is left of the reply its next
  line belongs to (`InReply`), which is what keeps it inside one reply however far it is
  out of step. `TextInv`: before a line break and a time-out, text is only where the
  reader expects a body, so it takes none for a header. `SyncInv`: before any
  cause, the wire holds the request in progress or what is left of its reply, and
  the reader owes exactly that. There is one lemma for each action;
  `RedisConnectionTypes` holds the part about types and the facts on sequences.
* `AppropriateResponseCorrect` and `RequestReplyCorrect`, in the same module, are the
  promise of `read()` (RedisClient.php:125) without any bound: until one of `AllCauses`
  occurs every call returns its own answer, and a behaviour in which none occurs
  implements `RequestReply`. A hang-up is a cause here, though not for
  `InSyncUnlessCaused`: it takes the answer to the call in progress. A last part of
  `IInv` makes it inductive: `AnswerInv` says that before any cause nothing cuts a
  reply short. The last line on the wire ends a reply (`Answered`), so the reader can
  only stop at the end of one, and what it has read by then is all of one answer.
  Every step is then a step of `RequestReply` or a stutter: `Send` issues, the step that
  takes the last line answers, and all others leave the mapping alone.
  `CleanResponseCorrect` and `CleanRequestReplyCorrect` say of which clients none of
  the causes can occur: `CleanConnection` is what `RedisConnection_clean` instantiates,
  no pipelines, no MONITOR, no time-outs and hang-ups, and only replies without an
  error or a line break inside.
* `PipelineProofs`: `BatchBoundCorrect`, `EveryCallOnceCorrect`,
  `SendOrderCorrect`. Every step is one of five moves of calls between the
  buffers, the socket and nowhere (`StepMoves`), and the rest of the proof is about
  moves. `OrderInv` strengthens `SendOrder`: buffers hold only their own pipeline's
  calls, in order, all younger than those of it that were written.
* `SkewIsPermanentCorrect`, in the same module, is an action property. What makes a
  connection out of step is something of an older call on the wires. `SkewInv`
  adds that the wires hold nothing of calls not yet made, and that what a read was
  made for stays on them until the read touches it: so a read that ends takes
  the last line of an older call away only by leaving its own answer behind. A read that
  has taken text for the head of a reply that goes on is the exception the property names;
  of it the theorem says nothing, since it may take both.
* `RedisChannelProofs`: `ChannelTypeCorrect`, `ExactlyOneKnowsCorrect`,
  `EveryMessageOnceCorrect`. A new channel copies a flag that is TRUE, since its
  maker could send, so a closed socket is never known by two. `MessageInv` adds
  that unread messages are younger than all that were read.
  `SubscriptionCorrect` is the refinement of `Subscription` for the programs of
  `Listener`, which `RedisChannel_listener` instantiates: one channel object, no
  `open()` after a `close()`, no silence as long as the read time-out. `ListenerInv`
  says why it holds: before the constructor has read its confirmation nothing is
  returned, and the messages on the wire stand behind that confirmation
  (`Subscribing`); after it, what is unread continues what `wait()` has returned, without
  a gap (`Listening`). Each action is then a step of `Subscription` or a stutter.
* `RedisManagerProofs`: `ManagerTypeCorrect`, `NeverOpenedTwiceCorrect`,
  `ClosedByUserCorrect`. The strengthening: every client ever made is the one kept
  for its key.
* `CommandsProofs`: `CommandsTypeCorrect` and one theorem for each property of
  `Commands_conforming`, for any names, any number of calls and argument lists of any
  length. `IInv` is small: the last call ended with the verdict of its class
  (`CallInv`), and what was read is what `Converted` makes of an answer to it
  (`ReadInv`). The work is in the lemmas about the tables. `UsageAndClass` puts the usage
  line and the class of every name side by side, kind by kind, and `Agrees` says what
  makes them fit: the counts, and a check that lets through no more (`Narrow`) or no
  less (`Wide`) than the kind of parameter; `ValidMatches` and `MatchesValid` draw the
  conclusion for any arguments. The lines that do more than repeat one parameter at their
  end (`Irregular`), such as `[WITHSCORES]` and the time-out of BLPOP, have lemmas of
  their own. `AnswersClear` does the same for the kinds of answer. Each theorem states its
  exceptions: `TooLax` and `Unknown` for `SentIsDocumented`, `TooStrict` for
  `DocumentedIsSent`, `Uncatchable` for `RejectedIsCatchable`, `Lossy` for
  `AnswersToldApart`, `Pairs` for `QueuedIsNoData`. For the names with a line in
  `UsageLine`, those sets, which the run leaves out, are all the exceptions there are; of a
  name without a line the first two theorems say nothing.
* `LongPollProofs`: `PollsTypeCorrect`, `ShownInOrderCorrect`, `EndIsLastCorrect`,
  `StuckForeverCorrect`, `PollsImplementSubscription`. `PollInv` says what was
  echoed in each phase of a process (`OutInv`) and that what was shown is what
  lies before the read position (`ReadInv`); with `PublishedInv`, that nothing is
  echoed before it is published, every step is a step of `Subscription` or
  a stutter.
* `ChatProofs`: `ChatTypeCorrect`, `UniqueNamesCorrect`, `NameKeptCorrect`,
  `SignedByOwnerCorrect`, `JoinNotEchoedCorrect`, `SentOnceCorrect`. `NameInv` follows a
  name from the counter over the answer to the window: it was counted, it is under way to
  one page only, and only a window without a name asks, once. `SignInv` and `JoinInv`
  extend two properties to the requests under way. `SignInv` needs that a text has one of
  the numbers its window has given (`NumberInv`), so that the answer with the name, which
  fixes `nameless`, changes no signature given before. `JoinInv` needs that the log only
  grows. `OnceInv` follows a text: it is one request or none (`OneRequest`), in no log
  before it is handled (`NotPublished`), and the answer to a join says where the join is
  (`JoinedAt`), which no tab stands for yet (`NoTabYet`).

Only model-checked are the liveness properties (`CallReturns`, `ReadEnds`,
`LoopEnds`, `MessagesArrive`, `PublishedIsShown`, `EchoedIsShown`): the
prover has no support for fairness and ENABLED. So are the four violation runs. Any
claim on what a recursive definition computes for all inputs would stay there too,
since induction over data needs theorems with operator parameters; the models have no
such definition.

## 5. Not modelled

* The options of SORT, ZINTERSTORE and ZUNIONSTORE, which the code does not check, and
  objects and resources as arguments.
* A partial write by `fwrite`, and what a server makes of a request with a wrong
  length.
* A listener that subscribes to several names at once: `ImplementsSubscription` is stated
  for one name, because `wait()` returns the confirmations of the others as messages.
  `RedisChannel_full` has such a program.
* In the chat: a window that is duplicated with its `sessionStorage`, the history of typed lines (chat.js:152-156), the layout of
  messages, and what yetii.js can do beyond showing one tab.
* The charts of the coverage report under `etc/coverage`: RGraph and its helpers
  are third-party files the report's generator puts there.
* `Cluster` and `examples/sharding.php` (unfinished), the other examples and the
  twitter demonstration (straight-line programs), the loader, the tests, generated
  documentation under `etc/`.

## 6. Plan

1. Partial writes: a request in two parts on `toServer`, the second of which may
   never come.
2. Proofs about the mapping between modules: that what `LongPoll` takes from a channel
   (`Receive`) is what `SubscriptionCorrect` promises.
3. Lemmas for the parts of the liveness arguments that are no liveness: that a read in
   progress has a step to take, and that each step of it shortens what is owed or
   unread.
