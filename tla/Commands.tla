------------------------------- MODULE Commands -------------------------------
(***************************************************************************)
(* The command classes of library/*Commands.php, the part of               *)
(* CommandBuilder::__call that turns a method call into a request (look up *)
(* the class, keep one instance of it, validate the arguments, build the   *)
(* request, write it), and the part of CommandBuilder::read that turns the *)
(* answer into a PHP value, inside and outside of MULTI.                   *)
(*                                                                         *)
(* An argument is abstracted to what the validators of RedisCommand.php    *)
(* and serialize() tell apart, see AllValues.                              *)
(***************************************************************************)
EXTENDS Integers, Sequences, FiniteSets, SequencesExt

CONSTANTS
  Names,        \* method names the program calls, in upper case
  Values,       \* kinds of argument it passes
  MaxArguments, \* bound on the number of arguments of a call
  MaxCalls      \* bound on the number of calls

\* The options, and the same in small letters.
Options == {"WITHSCORES", "LIMIT", "BEFORE", "AFTER"}
SmallOptions == {"withscores", "limit", "before", "after"}

\* Strings: "key" is one of letters, digits, underscores, bars and colons,
\* "numeral" one that compares equal to the number it starts with though no key
\* may hold its other characters (' 1', '1.0'), "empty" is '', "text" any other.
Strings == {"key", "numeral", "empty", "text"} \cup Options \cup SmallOptions

\* The rest: NULL, the "hollow" FALSE and array(), TRUE, an integer and one below
\* zero, a float that is printed as digits only ("whole") and any other, and an
\* array with elements.  Objects and resources are left out.
AllValues ==
  Strings \cup {"null", "hollow", "true", "int", "negative", "whole", "float", "array"}

ASSUME ValuesAssumption == Values \subseteq AllValues
ASSUME CallsAssumption == MaxArguments \in Nat /\ MaxCalls \in Nat

-----------------------------------------------------------------------------
(* The validators of RedisCommand.php.                                     *)

\* What is sent as a word of key characters.
Worded == {"key", "true", "int", "whole"} \cup Options \cup SmallOptions

\* validateKey compares what the pattern matched, NULL if it matched nothing, with
\* the argument by "!=": two numeric strings are compared as numbers, and NULL
\* equals all that is empty.
Loose == {"numeral", "empty", "null", "hollow"}
KeyShaped == Worded \cup Loose

Optional == {"scores?", "scores|limit?"}
Enumerated == Optional \cup {"side"}

\* The arguments each validator lets through; "scores?" and "scores|limit?" are
\* the options a class tests behind isset(), which is FALSE for NULL.
Accepted(check) ==
  CASE check = "key" -> KeyShaped
    [] check \in {"int", "timestamp"} -> {"int", "negative"}
    [] check = "number" -> {"int", "negative", "whole", "float"}
    [] check = "pattern" -> Strings
    [] check = "any" -> AllValues
    [] check = "side" -> {"BEFORE", "AFTER"}
    [] check = "scores?" -> {"WITHSCORES", "null"}
    [] check = "scores|limit?" -> {"WITHSCORES", "LIMIT", "null"}

\* Mutant: one exception for keys, a built-in one for the rest.
Exception_Builtin(check) ==
  IF check = "key" THEN "InvalidKeyException" ELSE "InvalidArgumentException"

Exception(check) ==
  CASE check = "key" -> "InvalidKeyException"
    [] check = "int" -> "NotAnIntException"
    [] check = "timestamp" -> "NotATimestampException"
    [] check = "pattern" -> "NotAGlobStylePatternException"
    [] check = "number" -> "InvalidArgumentException"
    [] check \in Enumerated -> "NotInEnumerationException"

\* validateEquals, validateLargerThenEqual, validateLargerThen.  Mutants: the
\* comparison of one of them is off by one.
Equals(n) == [least |-> n, most |-> n, exception |-> "NotEqualToException"]
LargerThenEqual_Strict(n) == [least |-> n + 1, most |-> MaxArguments, exception |-> "SmallerThenException"]
LargerThenEqual(n) == [least |-> n, most |-> MaxArguments, exception |-> "SmallerThenException"]
LargerThen_OrEqual(n) == LargerThenEqual(n)
LargerThen(n) == LargerThenEqual(n + 1)

-----------------------------------------------------------------------------
(* One row per command class: how many arguments it takes, what it asks of *)
(* the first ones, and whether it asks all of them to be keys.  A name that *)
(* has no row in a file is looked up in the one before it.                 *)

Class(count, checks) == [count |-> count, checks |-> checks, keys |-> FALSE]

ClassOfKeys(count) == [count |-> count, checks |-> <<>>, keys |-> TRUE]

\* What a name without a class gets.
NoClass == Class([least |-> 0, most |-> 0, exception |-> "CommandNotFoundException"], <<>>)

ConnectionCommands(name) ==
  CASE name \in {"PING", "QUIT"} -> Class(Equals(0), <<>>)
    [] name \in {"AUTH", "_ECHO"} -> Class(Equals(1), <<>>)
    [] name = "SELECT" -> Class(Equals(1), <<"int">>)
    [] OTHER -> NoClass

KeyCommands(name) ==
  CASE name = "DEL" -> ClassOfKeys(LargerThen(0))
    [] name = "RANDOMKEY" -> Class(Equals(0), <<>>)
    [] name \in {"EXISTS", "PERSIST", "TTL", "TYPE"} -> Class(Equals(1), <<"key">>)
    [] name = "KEYS" -> Class(Equals(1), <<"pattern">>)
    [] name \in {"EXPIRE", "MOVE"} -> Class(Equals(2), <<"key", "int">>)
    [] name = "EXPIREAT" -> Class(Equals(2), <<"key", "timestamp">>)
    [] name \in {"RENAME", "RENAMENX"} -> Class(Equals(2), <<"key", "key">>)
    [] name = "SORT" -> Class(LargerThenEqual(1), <<>>)
    [] OTHER -> ConnectionCommands(name)

\* GETBIT, GETRANGE, SETBIT and SETRANGE are commented out in the source.
StringCommands(name) ==
  CASE name \in {"DECR", "INCR", "STRLEN"} -> Class(Equals(1), <<"key">>)
    [] name \in {"APPEND", "GETSET", "SET", "SETNX"} -> Class(Equals(2), <<"key">>)
    [] name \in {"DECRBY", "INCRBY"} -> Class(Equals(2), <<"key", "int">>)
    [] name = "SETEX" -> Class(Equals(3), <<"key", "int">>)
    [] name \in {"GET", "MSETNX"} -> ClassOfKeys(LargerThen(0))
    [] name \in {"MGET", "MSET"} -> ClassOfKeys(LargerThen(1))
    [] OTHER -> KeyCommands(name)

HashesCommands(name) ==
  CASE name \in {"HGETALL", "HKEYS", "HLEN", "HVALS"} -> Class(Equals(1), <<"key">>)
    [] name \in {"HDEL", "HEXISTS", "HGET"} -> Class(Equals(2), <<"key">>)
    [] name = "HINCRBY" -> Class(Equals(3), <<"key", "any", "int">>)
    [] name = "HSET" -> Class(Equals(3), <<"key">>)
    [] name = "HSETNX" -> Class(LargerThenEqual(3), <<"key">>)
    [] name \in {"HMGET", "HMSET"} -> Class(LargerThen(2), <<"key">>)
    [] OTHER -> StringCommands(name)

ListCommands(name) ==
  CASE name \in {"BLPOP", "BRPOP", "BRPOPLPUSH"} -> Class(LargerThen(1), <<>>)
    [] name \in {"LLEN", "LPOP", "RPOP"} -> Class(Equals(1), <<"key">>)
    [] name \in {"LPUSH", "LPUSHX", "RPUSH", "RPUSHX"} -> Class(Equals(2), <<"key">>)
    [] name = "LINDEX" -> Class(Equals(2), <<"key", "int">>)
    [] name = "RPOPLPUSH" -> Class(Equals(2), <<"key", "key">>)
    [] name \in {"LRANGE", "LTRIM"} -> Class(Equals(3), <<"key", "int", "int">>)
    [] name \in {"LREM", "LSET"} -> Class(Equals(3), <<"key", "int">>)
    [] name = "LINSERT" -> Class(Equals(4), <<"key", "side">>)
    [] OTHER -> HashesCommands(name)

SetCommands(name) ==
  CASE name \in {"SCARD", "SMEMBERS", "SPOP", "SRANDMEMBER"} -> Class(Equals(1), <<"key">>)
    [] name \in {"SISMEMBER", "SREM"} -> Class(Equals(2), <<"key", "key">>)
    [] name = "SMOVE" -> Class(Equals(3), <<"key", "key", "key">>)
    [] name = "SADD" -> Class(LargerThenEqual(2), <<"key">>)
    [] name = "SDIFFSTORE" -> Class(LargerThenEqual(2), <<"key", "key">>)
    [] name \in {"SINTERSTORE", "SUNIONSTORE"} -> ClassOfKeys(LargerThenEqual(2))
    [] name \in {"SDIFF", "SINTER"} -> ClassOfKeys(LargerThen(1))
    [] name = "SUNION" -> ClassOfKeys(LargerThenEqual(1))
    [] OTHER -> ListCommands(name)

SortedSetCommands(name) ==
  CASE name = "ZCARD" -> Class(Equals(1), <<"key">>)
    [] name = "ZADD" -> Class(Equals(3), <<"key", "number">>)
    [] name = "ZCOUNT" -> Class(Equals(3), <<"key", "int", "int">>)
    [] name = "ZINCRBY" -> Class(Equals(3), <<"key", "int">>)
    [] name \in {"ZRANK", "ZREM", "ZREVRANK", "ZSCORE"} -> Class(LargerThenEqual(2), <<"key">>)
    [] name = "ZREMRANGEBYRANK" -> Class(LargerThenEqual(2), <<"key", "int", "int">>)
    [] name = "ZREMRANGEBYSCORE" -> Class(LargerThenEqual(2), <<"key", "number", "number">>)
    [] name \in {"ZRANGE", "ZREVRANGE"}
         -> Class(LargerThenEqual(3), <<"key", "int", "int", "scores?">>)
    [] name = "ZRANGEBYSCORE"
         -> Class(LargerThenEqual(3), <<"key", "int", "int", "scores|limit?">>)
    [] name = "ZREVRANGEBYSCORE" -> Class(LargerThenEqual(3), <<"key", "number", "number">>)
    [] name \in {"ZINTERSTORE", "ZUNIONSTORE"} -> Class(LargerThenEqual(0), <<>>)
    [] OTHER -> SetCommands(name)

PubSubCommands(name) ==
  CASE name \in {"PSUBSCRIBE", "SUBSCRIBE", "PUBLISH"} -> Class(LargerThenEqual(1), <<>>)
    [] name \in {"PUNSUBSCRIBE", "UNSUBSCRIBE"} -> Class(LargerThenEqual(0), <<>>)
    [] OTHER -> SortedSetCommands(name)

TransactionCommands(name) ==
  CASE name \in {"DISCARD", "EXEC", "MULTI", "UNWATCH"} -> Class(Equals(0), <<>>)
    [] name = "WATCH" -> ClassOfKeys(LargerThenEqual(1))
    [] OTHER -> PubSubCommands(name)

ServerCommands(name) ==
  CASE name \in {"BGREWRITEAOF", "BGSAVE", "CONFIG_RESETSTAT", "DBSIZE", "FLUSHALL",
          "FLUSHDB", "INFO", "LASTSAVE", "MONITOR", "SAVE", "SHUTDOWN", "SLAVEOF"}
         -> Class(Equals(0), <<>>)
    [] name = "CONFIG_GET" -> Class(Equals(1), <<>>)
    [] name = "CONFIG_SET" -> Class(Equals(2), <<>>)
    [] name = "DEBUG_OBJECT" -> Class(Equals(1), <<"key">>)
    [] name = "SLOWLOG" -> Class(LargerThenEqual(1), <<>>)
    [] OTHER -> TransactionCommands(name)

ClassOf(name) == ServerCommands(name)
HasClass(name) == ClassOf(name) # NoClass

-----------------------------------------------------------------------------
(* Replies, and what CommandBuilder::read and the output() of a class make *)
(* of them: how an answer becomes a PHP value.                             *)

\* t is the type the reader dispatches on, v what the reply says.
Words ==
  {"PONG", "none", "string", "list", "started", "OK", "QUEUED", "ERR", "nil", "empty", "elements",
   "user", "user_1", "", "text", "0", "1"}
Replies == [t : {"+", ":", "$", "*", "-"}, v : Words]
R(t, values) == {[t |-> t, v |-> v] : v \in values}
NoReply == [t |-> "", v |-> ""]

\* What the server may answer to a command that is executed.  Two answers of
\* one command are here when a caller has a reason to tell them apart.
Answers(name) ==
  CASE name = "PING" -> R("+", {"PONG"})
    [] name = "TYPE" -> R("+", {"none", "string", "list"})
    [] name \in {"BGSAVE", "BGREWRITEAOF"} -> R("+", {"started"})
    [] name \in {"AUTH", "SELECT", "RENAME", "SET", "SETEX", "MSET", "HMSET", "LSET", "LTRIM",
                 "DISCARD", "MULTI", "WATCH", "UNWATCH", "FLUSHALL", "FLUSHDB", "SAVE", "MONITOR",
                 "SLAVEOF", "CONFIG_SET", "CONFIG_RESETSTAT", "SHUTDOWN"} -> R("+", {"OK"})
    [] name = "EXEC" -> R("*", {"nil", "empty", "elements"})
    [] name \in {"KEYS", "SORT", "HGETALL", "HKEYS", "HVALS", "HMGET", "MGET", "LRANGE", "SDIFF",
                 "SINTER", "SUNION", "SMEMBERS", "ZRANGE", "ZREVRANGE", "ZRANGEBYSCORE",
                 "ZREVRANGEBYSCORE", "CONFIG_GET", "SLOWLOG"} -> R("*", {"empty", "elements"})
    [] name \in {"BLPOP", "BRPOP"} -> R("*", {"nil", "elements"})
    [] name = "RANDOMKEY" -> R("$", {"nil", "user", "user_1"})
    [] name \in {"GET", "GETSET", "HGET", "LINDEX", "LPOP", "RPOP", "RPOPLPUSH", "BRPOPLPUSH",
                 "SPOP", "SRANDMEMBER", "ZSCORE"} -> R("$", {"nil", "", "text"})
    [] name \in {"UNSUBSCRIBE", "PUNSUBSCRIBE"} -> R("*", {"elements"})
    [] name \in {"_ECHO", "INFO", "ZINCRBY"} -> R("$", {"text"})
    [] name \in {"ZRANK", "ZREVRANK"} -> R(":", {"0", "1"}) \cup R("$", {"nil"})
    [] name = "DEBUG_OBJECT" -> R("+", {"text"})
    [] OTHER -> R(":", {"0", "1"})

\* Commands a server in MULTI executes, or refuses, and does not queue.
NeverQueued == {"EXEC", "DISCARD", "MULTI", "WATCH"}

\* Classes with an output() method.
Flags ==
  {"EXISTS", "EXPIRE", "EXPIREAT", "MOVE", "PERSIST", "HEXISTS", "SISMEMBER", "SETNX"}
Pairs == {"HGETALL", "BLPOP", "BRPOP"}
Verbatim == {"PING", "TYPE", "LRANGE"}

\* Mutants: truth by PHP's rules instead of intval() == 1; no class has an
\* output().
Flag_Truthy(line) == IF line = "0" THEN "FALSE" ELSE "TRUE"
Output_Ignored(name, value, default) == default

\* intval($line) == 1.
Flag(line) == IF line = "1" THEN "TRUE" ELSE "FALSE"

\* array_chunk() and the loop: of anything but a list they make, with a
\* warning, an empty array.  BLPOP and BRPOP ask for NULL first.
KeyedBy(name, value) ==
  CASE value = "elements" -> "map"
    [] value = "NULL" /\ name # "HGETALL" -> "NULL"
    [] OTHER -> "array()"

\* explode('_', $line), the part before the first underscore.
BeforeUnderscore(line) == IF line = "user_1" THEN "user" ELSE line

\* The output() of a class, or the default of read() for this type of reply.
Output(name, value, default) ==
  CASE name \in Flags -> Flag(value)
    [] name \in Pairs -> KeyedBy(name, value)
    [] name = "RANDOMKEY" -> BeforeUnderscore(value)
    [] name \in Verbatim -> value
    [] OTHER -> default

\* The switch of read().  A bulk reply of -1 never reaches output(); a multi
\* bulk reply of -1 and one of no elements both leave $result at null.
Converted(name, r) ==
  CASE r.t = "+" -> Output(name, r.v, IF r.v = "OK" THEN "TRUE" ELSE "FALSE")
    [] r.t = ":" -> Output(name, r.v, r.v)
    [] r.t = "$" -> IF r.v = "nil" THEN "NULL" ELSE Output(name, r.v, r.v)
    [] r.t = "*" -> LET list == IF r.v = "elements" THEN "elements" ELSE "NULL"
                    IN Output(name, list, list)
    [] r.t = "-" -> "RedisServerException"

-----------------------------------------------------------------------------
VARIABLES
  cache,      \* CommandBuilder::$_cache, the classes instantiated so far
  connected,  \* whether the client is connected
  call,       \* the last call: the name and the arguments passed
  outcome,    \* "none", "sent", or the exception it threw
  request,    \* what was written for it: the command word, then the arguments
  queueing,   \* TRUE iff the server is between MULTI and EXEC or DISCARD
  reply,      \* what the server answered, see Replies
  result,     \* what read() made of it, "unread" before
  calls       \* number of calls made

vars == <<cache, connected, call, outcome, request, queueing, reply, result, calls>>

ArgumentLists == UNION {[1..n -> Values] : n \in 0..MaxArguments}

\* The check a class makes of argument i, of which there may be none.
CheckOf(class, args, i) ==
  IF class.keys THEN "key"
  ELSE IF i \in DOMAIN class.checks THEN class.checks[i] ELSE "any"

\* strtoupper() on the arguments that must be one of an enumeration; validate()
\* takes the arguments by reference, so the change is sent.
Upper(v) ==
  CASE v = "withscores" -> "WITHSCORES"
    [] v = "limit" -> "LIMIT"
    [] v = "before" -> "BEFORE"
    [] v = "after" -> "AFTER"
    [] OTHER -> v

Validated(class, args) ==
  [i \in DOMAIN args |->
     IF CheckOf(class, args, i) \in Enumerated THEN Upper(args[i]) ELSE args[i]]

\* The positions whose check fails.  A check of an argument that was not passed
\* sees NULL.
Rejected(class, args) ==
  {i \in DOMAIN args : Validated(class, args)[i] \notin Accepted(CheckOf(class, args, i))}
  \cup {i \in DOMAIN class.checks \ DOMAIN args : "null" \notin Accepted(class.checks[i])}

\* validate(): the count, then the arguments from left to right.
ValidationOutcome(class, args) ==
  IF Len(args) < class.count.least \/ Len(args) > class.count.most
  THEN class.count.exception
  ELSE IF Rejected(class, args) = {} THEN "valid"
  ELSE Exception(CheckOf(class, args, Min(Rejected(class, args))))

\* The word sent is the name of the class; only ECHO, which is reserved in PHP,
\* sets another.  CONFIG GET and its like go out with an underscore for the blank,
\* as a command the server does not have.
CommandWord(name) == IF name = "_ECHO" THEN "ECHO" ELSE name
Unknown == {"CONFIG_GET", "CONFIG_SET", "CONFIG_RESETSTAT", "DEBUG_OBJECT"}

Init ==
  /\ cache = {} /\ connected \in BOOLEAN
  /\ queueing \in (IF connected THEN BOOLEAN ELSE {FALSE})
  /\ call = <<>> /\ outcome = "none" /\ request = <<>> /\ calls = 0
  /\ reply = NoReply /\ result = "unread"

\* What the server may answer to the request it was sent.
AnswersNow ==
  CASE request = <<>> -> {}
    [] call[1] \in Unknown -> R("-", {"ERR"})
    [] queueing /\ call[1] \notin NeverQueued -> R("+", {"QUEUED"})
    [] (call[1] \in {"MULTI", "WATCH"} /\ queueing) \/ (call[1] \in {"EXEC", "DISCARD"} /\ ~queueing)
         -> R("-", {"ERR"})
    [] OTHER -> Answers(call[1])

\* A subscription is read by its channel, and after QUIT there is no read().
Subscriptions == {"SUBSCRIBE", "PSUBSCRIBE"}
Reading ==
  outcome = "sent" /\ connected /\ result = "unread" /\ call[1] \notin Subscriptions

\* Mutant: the exception is swallowed and the call returns.
Throw_Swallowed(exception) == outcome' = "sent" /\ request' = <<>>

Throw(exception) == outcome' = exception /\ request' = <<>>

CallMethod(name, args) ==
  /\ calls' = calls + 1 /\ call' = <<name>> \o args
  /\ ~Reading
  /\ IF ~HasClass(name)
     THEN Throw("CommandNotFoundException") /\ UNCHANGED cache
     ELSE LET class == ClassOf(name)
              verdict == ValidationOutcome(class, args)
          IN /\ cache' = cache \cup {name}
             /\ \/ verdict # "valid" /\ Throw(verdict)
                \/ verdict = "valid" /\ ~connected /\ Throw("NotConnectedException")
                \/ /\ verdict = "valid" /\ connected
                   /\ outcome' = "sent"
                   /\ request' = <<CommandWord(name)>> \o Validated(class, args)
  /\ connected' = (connected /\ request' # <<"QUIT">>)
  /\ queueing' = (queueing /\ connected')
  /\ reply' = NoReply /\ result' = "unread"

\* The server answers and read() converts the answer.
Read(r) ==
  /\ Reading
  /\ reply' = r /\ result' = Converted(call[1], r)
  /\ queueing' = CASE r.t = "-" -> queueing
                    [] request = <<"MULTI">> -> TRUE
                    [] request \in {<<"EXEC">>, <<"DISCARD">>} -> FALSE
                    [] OTHER -> queueing
  /\ UNCHANGED <<cache, connected, call, outcome, request, calls>>

Next ==
  \/ calls < MaxCalls /\ \E name \in Names, args \in ArgumentLists : CallMethod(name, args)
  \/ \E r \in AnswersNow : Read(r)

Spec == Init /\ [][Next]_vars

-----------------------------------------------------------------------------
(* The usage lines of the class comments ("HMGET key field [field ...]"):  *)
(* the parameters, the part that may be repeated after them, what may      *)
(* follow instead, and the end.  SORT, ZINTERSTORE and ZUNIONSTORE, which  *)
(* have a grammar of their own, are left out, and so are the four commands *)
(* whose class is commented out.                                           *)

Line(params, more, options, end) ==
  [params |-> params, more |-> more, options |-> options, end |-> end]

Usage(params, more) == Line(params, more, {}, <<>>)

Simple(params) == Usage(params, <<>>)

\* What a name without a usage line gets.
NoUsage == Line(<<>>, <<>>, {<<"none">>}, <<>>)

\* "[WITHSCORES] [LIMIT offset count]".
ScoresAndLimit ==
  {<<"scores?">>, <<"limit", "int", "int">>, <<"scores?", "limit", "int", "int">>}

UsageLine(name) ==
  CASE name \in {"PING", "QUIT", "RANDOMKEY", "DISCARD", "EXEC", "MULTI", "UNWATCH",
          "BGREWRITEAOF", "BGSAVE", "DBSIZE", "FLUSHALL", "FLUSHDB", "INFO", "LASTSAVE",
          "MONITOR", "SAVE", "SHUTDOWN", "CONFIG_RESETSTAT"} -> Simple(<<>>)
    [] name \in {"AUTH", "ECHO", "_ECHO", "CONFIG_GET"} -> Simple(<<"value">>)
    [] name = "SELECT" -> Simple(<<"int">>)
    [] name = "KEYS" -> Simple(<<"pattern">>)
    [] name \in {"GET", "EXISTS", "PERSIST", "TTL", "TYPE", "DECR", "INCR", "STRLEN",
          "HGETALL", "HKEYS", "HLEN", "HVALS", "LLEN", "LPOP", "RPOP", "SCARD",
          "SMEMBERS", "SPOP", "SRANDMEMBER", "ZCARD", "DEBUG_OBJECT"} -> Simple(<<"key">>)
    [] name \in {"EXPIRE", "EXPIREAT", "MOVE", "DECRBY", "INCRBY", "LINDEX"}
         -> Simple(<<"key", "int">>)
    [] name \in {"RENAME", "RENAMENX", "RPOPLPUSH"} -> Simple(<<"key", "key">>)
    [] name \in {"APPEND", "GETSET", "SET", "SETNX", "HDEL", "HEXISTS", "HGET", "LPUSH",
          "LPUSHX", "RPUSH", "RPUSHX", "SISMEMBER", "SREM", "ZRANK", "ZREM", "ZREVRANK",
          "ZSCORE"} -> Simple(<<"key", "value">>)
    [] name \in {"PUBLISH", "CONFIG_SET"} -> Simple(<<"value", "value">>)
    [] name = "BRPOPLPUSH" -> Simple(<<"key", "key", "int">>)
    [] name \in {"SETEX", "LREM", "LSET"} -> Simple(<<"key", "int", "value">>)
    [] name \in {"HSET", "HSETNX"} -> Simple(<<"key", "value", "value">>)
    [] name = "HINCRBY" -> Simple(<<"key", "value", "int">>)
    [] name \in {"LRANGE", "LTRIM", "ZREMRANGEBYRANK"} -> Simple(<<"key", "int", "int">>)
    [] name = "SMOVE" -> Simple(<<"key", "key", "value">>)
    [] name = "LINSERT" -> Simple(<<"key", "side", "value", "value">>)
    [] name \in {"ZADD", "ZINCRBY"} -> Simple(<<"key", "number", "value">>)
    [] name \in {"ZCOUNT", "ZREMRANGEBYSCORE"} -> Simple(<<"key", "number", "number">>)
    [] name = "SLAVEOF" -> Simple(<<"value", "int">>)
    [] name \in {"DEL", "MGET", "MSET", "SDIFF", "SINTER", "SUNION", "WATCH"}
         -> Usage(<<"key">>, <<"key">>)
    [] name \in {"SDIFFSTORE", "SINTERSTORE", "SUNIONSTORE"}
         -> Usage(<<"key", "key">>, <<"key">>)
    [] name = "MSETNX" -> Usage(<<"key", "value">>, <<"key", "value">>)
    [] name \in {"SADD", "HMGET"} -> Usage(<<"key", "value">>, <<"value">>)
    [] name = "HMSET" -> Usage(<<"key", "value", "value">>, <<"value", "value">>)
    [] name \in {"PSUBSCRIBE", "SUBSCRIBE"} -> Usage(<<"value">>, <<"value">>)
    [] name \in {"PUNSUBSCRIBE", "UNSUBSCRIBE"} -> Usage(<<>>, <<"value">>)
    [] name \in {"BLPOP", "BRPOP"} -> Line(<<"key">>, <<"key">>, {}, <<"int">>)
    [] name = "SLOWLOG" -> Line(<<"value">>, <<>>, {<<"value">>}, <<>>)
    [] name \in {"ZRANGE", "ZREVRANGE"}
         -> Line(<<"key", "int", "int">>, <<>>, {<<"scores?">>}, <<>>)
    [] name \in {"ZRANGEBYSCORE", "ZREVRANGEBYSCORE"}
         -> Line(<<"key", "number", "number">>, <<>>, ScoresAndLimit, <<>>)
    [] OTHER -> NoUsage

Documented(name) == UsageLine(name) # NoUsage

\* The first word of the usage line.
UsageWord(name) ==
  CASE name \in {"CONFIG_GET", "CONFIG_SET", "CONFIG_RESETSTAT"} -> "CONFIG"
    [] name = "DEBUG_OBJECT" -> "DEBUG"
    [] name = "_ECHO" -> "ECHO"
    [] OTHER -> name

\* The arguments that plainly are what a parameter names, and those that may
\* pass for it: a key may be all that validateKey lets through, Loose included.
Plain ==
  [kind \in {"key", "int", "number", "pattern", "value", "side", "scores?", "limit"} |->
     CASE kind = "key" -> {"key"}
       [] kind = "int" -> {"int", "negative"}
       [] kind = "number" -> {"int", "negative", "whole", "float"}
       [] kind = "pattern" -> {"key", "text"}
       [] kind = "value" -> {"key", "text", "empty", "int", "negative", "whole", "float"}
       [] kind = "side" -> {"BEFORE", "AFTER", "before", "after"}
       [] kind = "scores?" -> {"WITHSCORES", "withscores"}
       [] kind = "limit" -> {"LIMIT", "limit"}]

Passable == [Plain EXCEPT !.key = Worded \cup Loose, !.pattern = Strings, !.value = AllValues]

Repeated(s, n) == [i \in 1..(n * Len(s)) |-> s[((i - 1) % Len(s)) + 1]]

\* What a usage line allows, its repeated part any number of times.
Expansions(u) ==
  LET most == IF u.more = <<>> THEN 0 ELSE MaxArguments
      middles == u.options \cup {Repeated(u.more, n) : n \in 0..most}
  IN {u.params \o middle \o u.end : middle \in middles}

Matches(args, u, kinds) ==
  \E e \in Expansions(u) : Len(e) = Len(args) /\ \A i \in DOMAIN e : args[i] \in kinds[e[i]]

\* Classes whose validate() lets through more than their usage line, and names
\* that have one but reject part of what it allows: ECHO has no class.
TooLax ==
  {"GET", "HSETNX", "HMSET", "MSETNX", "PUBLISH", "SDIFFSTORE", "SLAVEOF", "SLOWLOG", "BLPOP",
   "BRPOP", "BRPOPLPUSH", "ZRANK", "ZREM", "ZREVRANK", "ZSCORE", "ZRANGE", "ZREVRANGE",
   "ZRANGEBYSCORE", "ZREVRANGEBYSCORE", "ZREMRANGEBYRANK", "ZREMRANGEBYSCORE"}
TooStrict ==
  {"ECHO", "HMGET", "MGET", "MSET", "MSETNX", "SDIFF", "SINTER", "SLAVEOF", "SISMEMBER", "SREM",
   "SMOVE", "ZCOUNT", "ZINCRBY", "ZRANGEBYSCORE"}

\* Those that reject a number with an exception of PHP's own.
Uncatchable == {"ZADD", "ZREMRANGEBYSCORE", "ZREVRANGEBYSCORE"}

\* RANDOMKEY cuts the key off at an underscore.
Lossy == {"RANDOMKEY"}

Args == Tail(call)

ValidationExceptions ==
  {"SmallerThenException", "NotEqualToException", "InvalidKeyException", "NotAnIntException",
   "NotATimestampException", "NotAGlobStylePatternException", "NotInEnumerationException"}

\* The classes of the library an exception extends; InvalidArgumentException is
\* one of PHP's own.
Supertypes(exception) ==
  CASE exception \in ValidationExceptions -> {"ValidationException", "RedisException"}
    [] exception \in {"CommandNotFoundException", "NotConnectedException"} -> {"RedisException"}
    [] OTHER -> {}

-----------------------------------------------------------------------------
(* Properties.                                                             *)

TypeOK ==
  /\ \A name \in cache : HasClass(name)
  /\ connected \in BOOLEAN /\ calls \in 0..MaxCalls
  /\ outcome \in ValidationExceptions \cup
       {"none", "sent", "CommandNotFoundException", "NotConnectedException",
        "InvalidArgumentException"}
  /\ request # <<>> <=> outcome = "sent"
  /\ queueing \in BOOLEAN /\ (queueing => connected)
  /\ reply = NoReply \/ reply \in Replies
  /\ (result = "unread" <=> reply = NoReply) /\ (result # "unread" => outcome = "sent")

\* Only what the usage line of a class allows is sent, "All input is validated"
\* (README:26): the command it names, and the right number, order and kinds of
\* arguments.  What the loose comparison of validateKey lets through (Loose, '' for
\* one) passes for a key here, though the pattern of RedisCommand.php:76 does not
\* have it.
SentIsDocumented ==
  outcome = "sent" /\ Documented(call[1]) =>
    request[1] = UsageWord(call[1]) /\ Matches(Args, UsageLine(call[1]), Passable)

\* Every call that follows the usage line of its class, with arguments that
\* plainly are what the parameters say, gets past validate().
DocumentedIsSent ==
  call # <<>> /\ Documented(call[1]) /\ Matches(Args, UsageLine(call[1]), Plain) =>
    outcome \in {"sent", "NotConnectedException"}

\* A handler for RedisException catches all that keeps a call from being sent,
\* and one for ValidationException all that validate() throws.  That is what the
\* code makes of README:24-25, "All validation exceptions have 1 supertype
\* RedisValidationException [...] All other exceptions are RedisExceptions": the
\* supertype has another name, and no class has that of the README, nor the
\* InvalidCommandException of RedisCommand.php:19, so a handler for either of them
\* catches nothing.
RejectedIsCatchable ==
  outcome \notin {"none", "sent"} =>
    /\ "RedisException" \in Supertypes(outcome)
    /\ outcome \notin {"CommandNotFoundException", "NotConnectedException"} =>
         "ValidationException" \in Supertypes(outcome)

\* An empty list and none at all, which read() cannot tell apart
\* (RedisClient.php:160).
BothEmpty(r, s) == {r, s} \subseteq R("*", {"nil", "empty"})

\* What a caller gets tells which answer the server gave: no other answer to
\* the same command converts to the same PHP value, but for an empty list and
\* a missing one.  It takes the reader, which makes FALSE of every status line
\* but OK and NULL of every missing value, and the output() of the right classes
\* (RedisClient.php:137-169).
AnswersToldApart ==
  result # "unread" /\ reply # [t |-> "+", v |-> "QUEUED"] =>
    \A r \in Answers(call[1]) : Converted(call[1], r) = result => r = reply \/ BothEmpty(r, reply)

\* Between MULTI and EXEC a call is answered QUEUED, whatever type of reply its
\* class was written for, and what the caller gets must not pass for data or
\* for success: it is FALSE, as TransactionCommandsTest.php:37 has it, or the
\* word itself.
QueuedIsNoData ==
  reply = [t |-> "+", v |-> "QUEUED"] => result \in {"FALSE", "QUEUED"}
===============================================================================
