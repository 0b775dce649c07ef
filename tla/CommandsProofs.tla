---------------------------- MODULE CommandsProofs ----------------------------
(***************************************************************************)
(* What the command classes promise, for every number of calls and of      *)
(* arguments: which exceptions reject a call, and what an answer becomes.  *)
(***************************************************************************)
EXTENDS Commands, SequenceTheorems, WellFoundedInduction, TLAPS

-----------------------------------------------------------------------------
(* The rows of the classes.                                                *)

Checks ==
  {"key", "int", "timestamp", "number", "pattern", "any", "side", "scores?", "scores|limit?"}

\* A class counts its arguments, and asks for checks this module knows.
LEMMA ClassRow ==
  ASSUME NEW name, HasClass(name)
  PROVE  /\ ClassOf(name).count.exception \in {"NotEqualToException", "SmallerThenException"}
         /\ DOMAIN ClassOf(name).checks \subseteq Nat
         /\ \A i \in DOMAIN ClassOf(name).checks : ClassOf(name).checks[i] \in Checks
         /\ ClassOf(name).keys \in BOOLEAN
<1> USE DEF HasClass, ClassOf, NoClass, Class, ClassOfKeys, Equals, LargerThen, LargerThenEqual,
         ConnectionCommands, KeyCommands, StringCommands, HashesCommands, ListCommands,
         SetCommands, SortedSetCommands, PubSubCommands, TransactionCommands, ServerCommands
<1>1. ClassOf(name).count.exception \in {"NotEqualToException", "SmallerThenException"}
  BY SMTT(30)
<1>2. DOMAIN ClassOf(name).checks \subseteq Nat
  BY SMTT(30)
<1>3. \A i \in DOMAIN ClassOf(name).checks : ClassOf(name).checks[i] \in Checks
  BY SMTT(30) DEF Checks
<1>4. ClassOf(name).keys \in BOOLEAN
  BY SMTT(30)
<1> QED BY <1>1, <1>2, <1>3, <1>4

LEMMA CountRow ==
  ASSUME NEW name, HasClass(name)
  PROVE  ClassOf(name).count.least \in Nat /\ ClassOf(name).count.most \in Nat
BY CallsAssumption, SMTT(30)
   DEF HasClass, ClassOf, NoClass, Class, ClassOfKeys, Equals, LargerThen, LargerThenEqual,
       ConnectionCommands, KeyCommands, StringCommands, HashesCommands, ListCommands,
       SetCommands, SortedSetCommands, PubSubCommands, TransactionCommands, ServerCommands

\* Three classes take a number.
LEMMA NumberRow ==
  ASSUME NEW name, HasClass(name), name \notin Uncatchable
  PROVE  \A i \in DOMAIN ClassOf(name).checks : ClassOf(name).checks[i] # "number"
BY DEF HasClass, ClassOf, NoClass, Class, ClassOfKeys, Equals, LargerThen, LargerThenEqual,
       Uncatchable, ConnectionCommands, KeyCommands, StringCommands, HashesCommands, ListCommands,
       SetCommands, SortedSetCommands, PubSubCommands, TransactionCommands, ServerCommands

-----------------------------------------------------------------------------
(* What validate() decides.                                                *)

\* The first failing check is one of those that fail.
LEMMA MinIsMember ==
  ASSUME NEW S, S \subseteq Nat, S # {}
  PROVE  Min(S) \in S
<1>1. PICK least \in S : \A i \in S : <<i, least>> \notin OpToRel(<, Nat)
  BY WFMin, NatLessThanWellFounded, Zenon
<1>2. \A i \in S : ~(i < least)
  BY <1>1, Zenon DEF OpToRel
<1>3. \A i \in S : least <= i
  BY <1>2
<1> QED BY <1>3 DEF Min

\* What a class asks of an argument.
LEMMA ChecksKnown ==
  ASSUME NEW name, HasClass(name), NEW args, NEW i
  PROVE  /\ CheckOf(ClassOf(name), args, i) \in Checks
         /\ name \notin Uncatchable => CheckOf(ClassOf(name), args, i) # "number"
BY ClassRow, NumberRow DEF CheckOf, Checks

LEMMA RejectedOnly ==
  ASSUME NEW name, HasClass(name), NEW args \in ArgumentLists
  PROVE  /\ Rejected(ClassOf(name), args) \subseteq Nat
         /\ \A i \in Rejected(ClassOf(name), args) : CheckOf(ClassOf(name), args, i) # "any"
<1> DEFINE class == ClassOf(name)
<1>1. DOMAIN args \subseteq Nat /\ \A i \in DOMAIN args : args[i] \in AllValues
  BY ValuesAssumption DEF ArgumentLists
<1>2. DOMAIN class.checks \subseteq Nat /\ class.keys \in BOOLEAN
  BY ClassRow
<1>3. ASSUME NEW i \in DOMAIN args, CheckOf(class, args, i) = "any"
      PROVE  Validated(class, args)[i] \in Accepted(CheckOf(class, args, i))
  BY <1>1, <1>3 DEF Validated, Accepted, Enumerated, Optional
<1>4. ASSUME NEW i \in DOMAIN class.checks, CheckOf(class, args, i) = "any"
      PROVE  "null" \in Accepted(class.checks[i])
  <2>1. class.checks[i] = "any"
    BY <1>2, <1>4 DEF CheckOf
  <2> QED BY <2>1 DEF Accepted, AllValues
<1> HIDE DEF class
<1>5. Rejected(class, args) \subseteq Nat
  BY <1>1, <1>2 DEF Rejected
<1>6. \A i \in Rejected(class, args) : CheckOf(class, args, i) # "any"
  BY <1>3, <1>4 DEF Rejected
<1> QED BY <1>5, <1>6 DEF class

\* A check fails with the exception of one of the checks the class makes; "any"
\* fails for no argument.
LEMMA VerdictOf ==
  ASSUME NEW name, HasClass(name), NEW args \in ArgumentLists,
         NEW verdict, verdict = ValidationOutcome(ClassOf(name), args)
  PROVE  \/ /\ verdict = "valid" /\ Rejected(ClassOf(name), args) = {}
            /\ ~(Len(args) < ClassOf(name).count.least \/ Len(args) > ClassOf(name).count.most)
         \/ verdict \in ValidationExceptions
         \/ verdict = "InvalidArgumentException" /\ name \in Uncatchable
<1> DEFINE class == ClassOf(name)
           first == CheckOf(class, args, Min(Rejected(class, args)))
<1>1. class.count.exception \in ValidationExceptions
  BY ClassRow DEF ValidationExceptions
<1>2. ASSUME Rejected(class, args) # {}
      PROVE  \/ Exception(first) \in ValidationExceptions
             \/ Exception(first) = "InvalidArgumentException" /\ name \in Uncatchable
  <2>1. first # "any"
    BY <1>2, MinIsMember, RejectedOnly
  <2>2. first \in Checks /\ (name \notin Uncatchable => first # "number")
    BY ChecksKnown
  <2> HIDE DEF first
  <2> QED BY <2>1, <2>2 DEF Exception, Checks, Enumerated, Optional, ValidationExceptions
<1> HIDE DEF class
<1> QED BY <1>1, <1>2 DEF ValidationOutcome, class

-----------------------------------------------------------------------------
(* Usage lines and classes.                                                *)

Kinds == {"key", "int", "number", "pattern", "value", "side", "scores?", "limit"}

\* What the i-th argument is by a usage line that repeats at most one parameter.
ParamOf(u, i) == IF i <= Len(u.params) THEN u.params[i] ELSE u.more[1]

\* An argument list that matches such a line has all its parameters, and more
\* only when the line repeats one.
LEMMA MatchesOf ==
  ASSUME NEW u, u.params \in Seq(Kinds), u.more \in Seq(Kinds), Len(u.more) <= 1,
         u.options = {}, u.end = <<>>, NEW args \in ArgumentLists, NEW kinds
  PROVE  Matches(args, u, kinds) <=>
           /\ Len(args) >= Len(u.params) /\ (u.more = <<>> => Len(args) = Len(u.params))
           /\ \A i \in 1..Len(args) : args[i] \in kinds[ParamOf(u, i)]
<1> DEFINE More(n) == Repeated(u.more, n)
           e(n) == u.params \o More(n) \o u.end
           most == IF u.more = <<>> THEN 0 ELSE MaxArguments
<1>1. Expansions(u) = {e(n) : n \in 0..most}
  BY DEF Expansions
<1>2. args \in Seq(Values) /\ Len(args) <= MaxArguments /\ MaxArguments \in Nat
  BY CallsAssumption DEF ArgumentLists
<1>3. ASSUME NEW n \in 0..most
      PROVE  /\ e(n) \in Seq(Kinds) /\ Len(e(n)) = Len(u.params) + n
             /\ \A i \in 1..Len(e(n)) : e(n)[i] = ParamOf(u, i)
  <2>1. CASE u.more = <<>>
    <3>1. n = 0
      BY <2>1, <1>3
    <3>2. n * Len(u.more) = 0
      BY <3>1, <2>1
    <3>3. More(n) \in Seq(Kinds) /\ Len(More(n)) = 0
      BY <3>2 DEF Repeated
    <3> HIDE DEF More
    <3> QED BY <3>1, <3>3 DEF ParamOf
  <2>2. CASE u.more # <<>>
    <3>1. Len(u.more) = 1 /\ n \in Nat
      <4>1. Len(u.more) # 0
        BY <2>2, EmptySeq
      <4>2. Len(u.more) \in Nat /\ most \in Nat
        BY <2>2, <1>2
      <4> HIDE DEF More, most
      <4>3. \A m \in Nat : m # 0 /\ m <= 1 => m = 1
        OBVIOUS
      <4>4. n \in Nat
        BY <4>2
      <4> QED BY <4>1, <4>2, <4>3, <4>4, Zenon
    <3>2. n * Len(u.more) = n
      BY <3>1
    <3>3. \A i \in 1..n : (i - 1) % Len(u.more) = 0
      BY <3>1
    <3>4. More(n) = [i \in 1..n |-> u.more[1]]
      BY <3>2, <3>3 DEF Repeated
    <3>5. More(n) \in Seq(Kinds) /\ Len(More(n)) = n /\ \A i \in 1..n : More(n)[i] = u.more[1]
      BY <3>1, <3>4
    <3> HIDE DEF More
    <3> QED BY <3>1, <3>5 DEF ParamOf
  <2> QED BY <2>1, <2>2
<1> HIDE DEF More, e
<1>4. ASSUME Matches(args, u, kinds)
      PROVE  /\ Len(args) >= Len(u.params) /\ (u.more = <<>> => Len(args) = Len(u.params))
             /\ \A i \in 1..Len(args) : args[i] \in kinds[ParamOf(u, i)]
  <2>1. PICK n \in 0..most : Len(e(n)) = Len(args) /\ \A i \in DOMAIN e(n) : args[i] \in kinds[e(n)[i]]
    BY <1>1, <1>4 DEF Matches
  <2>2. e(n) \in Seq(Kinds) /\ Len(e(n)) = Len(u.params) + n /\ \A i \in 1..Len(e(n)) : e(n)[i] = ParamOf(u, i)
    BY <1>3
  <2>3. Len(u.params) \in Nat /\ n >= 0 /\ (u.more = <<>> => n = 0)
    BY <1>2
  <2>4. \A i \in 1..Len(args) : args[i] \in kinds[ParamOf(u, i)]
    BY <2>1, <2>2
  <2> QED BY <2>1, <2>2, <2>3, <2>4
<1>5. ASSUME Len(args) >= Len(u.params), u.more = <<>> => Len(args) = Len(u.params),
             \A i \in 1..Len(args) : args[i] \in kinds[ParamOf(u, i)]
      PROVE  Matches(args, u, kinds)
  <2>1. Len(args) \in Nat /\ Len(u.params) \in Nat
    BY <1>2
  <2>2. Len(args) - Len(u.params) \in 0..most
    BY <1>2, <1>5, <2>1
  <2>3. PICK n \in 0..most : Len(args) = Len(u.params) + n
    BY <2>1, <2>2
  <2>4. e(n) \in Seq(Kinds) /\ Len(e(n)) = Len(args) /\ \A i \in 1..Len(e(n)) : e(n)[i] = ParamOf(u, i)
    BY <1>3, <2>3
  <2>5. Len(e(n)) = Len(args) /\ \A i \in DOMAIN e(n) : args[i] \in kinds[e(n)[i]]
    BY <1>5, <2>4
  <2> QED BY <1>1, <2>5 DEF Matches
<1> QED BY <1>4, <1>5

\* Names whose usage line does more than repeat one parameter at its end.
Irregular ==
  {"HMSET", "MSETNX", "BLPOP", "BRPOP", "SLOWLOG", "ZRANGE", "ZREVRANGE", "ZRANGEBYSCORE",
   "ZREVRANGEBYSCORE"}

\* Every usage line has parameters of the kinds above.
LEMMA UsageRow ==
  ASSUME NEW name, Documented(name), NEW u, u = UsageLine(name)
  PROVE  /\ u.params \in Seq(Kinds) /\ u.more \in Seq(Kinds)
         /\ name \notin Irregular => Len(u.more) <= 1 /\ u.options = {} /\ u.end = <<>>
<1> DEFINE params ==
             {<<>>, <<"value">>, <<"int">>, <<"pattern">>, <<"key">>, <<"key", "int">>,
              <<"key", "key">>, <<"key", "value">>, <<"value", "value">>, <<"value", "int">>,
              <<"key", "int", "value">>, <<"key", "value", "value">>, <<"key", "value", "int">>,
              <<"key", "int", "int">>, <<"key", "key", "value">>, <<"key", "key", "int">>,
              <<"key", "side", "value", "value">>, <<"key", "number", "value">>,
              <<"key", "number", "number">>}
           more == {<<>>, <<"key">>, <<"value">>, <<"key", "value">>, <<"value", "value">>}
<1>1. params \subseteq Seq(Kinds) /\ more \subseteq Seq(Kinds)
  BY DEF Kinds
<1>2. u.params \in params
  BY SMTT(30) DEF Documented, NoUsage, Line, Usage, Simple, UsageLine
<1>3. u.more \in more
  BY SMTT(30) DEF Documented, NoUsage, Line, Usage, Simple, UsageLine
<1>4. name \notin Irregular => Len(u.more) <= 1
  BY SMTT(30) DEF Documented, NoUsage, Line, Usage, Simple, UsageLine, Irregular
<1>5. name \notin Irregular => u.options = {}
  BY ZenonT(60) DEF Documented, NoUsage, Line, Usage, Simple, UsageLine, Irregular
<1>6. name \notin Irregular => u.end = <<>>
  BY SMTT(30) DEF NoUsage, Line, Usage, Simple, UsageLine, Irregular
<1> HIDE DEF params, more
<1> QED BY <1>1, <1>2, <1>3, <1>4, <1>5, <1>6

\* The kinds of parameter that take all that a check lets through, and those
\* whose plain arguments it lets through.
Lets(check, v) == (IF check \in Enumerated THEN Upper(v) ELSE v) \in Accepted(check)
Narrow(check, kind) ==
  \/ kind \in {"value", check} /\ kind \notin Optional
  \/ kind \in {"int", "number"} /\ check \in {"int", "timestamp"}
Wide(check, kind) ==
  \/ check \in {"any", kind}
  \/ check = "timestamp" /\ kind = "int"

LEMMA NarrowPasses ==
  ASSUME NEW check \in Checks, NEW kind \in Kinds, Narrow(check, kind),
         NEW v \in AllValues, Lets(check, v)
  PROVE  v \in Passable[kind]
BY DEF Checks, Kinds, Narrow, Lets, Passable, Plain, Accepted, Enumerated, Optional, Upper,
       KeyShaped, Worded, Loose, Strings, AllValues, Options, SmallOptions

LEMMA WideLets ==
  ASSUME NEW check \in Checks, NEW kind \in Kinds, Wide(check, kind), NEW v \in Plain[kind]
  PROVE  Lets(check, v)
BY DEF Checks, Kinds, Wide, Lets, Plain, Accepted, Enumerated, Optional, Upper,
       KeyShaped, Worded, Loose, Strings, AllValues, Options, SmallOptions

\* A class asks enough when it takes no fewer arguments than its usage line has
\* parameters, no more if the line repeats none, and lets through only what the
\* line says each of them is.
AsksEnough(u, class) ==
  /\ class.count.least >= Len(u.params)
  /\ u.more = <<>> => class.count.most = Len(u.params)
  /\ \A i \in Nat \ {0} : i <= Len(u.params) \/ u.more # <<>> =>
       Narrow(CheckOf(class, <<>>, i), ParamOf(u, i))

\* It asks too little or not more when it takes as many arguments as the line has
\* parameters, and more if the line repeats one, lets through each that plainly is
\* what the line says, and can do without those the line does not have.
AsksNoMore(u, class) ==
  /\ class.count.least <= Len(u.params)
  /\ \/ class.count.most = MaxArguments
     \/ u.more = <<>> /\ class.count.most = Len(u.params)
  /\ \A i \in Nat \ {0} : i <= Len(u.params) \/ u.more # <<>> =>
       Wide(CheckOf(class, <<>>, i), ParamOf(u, i))
  /\ DOMAIN class.checks \subseteq 1..Len(u.params)

\* What is to be shown of each name with a usage line.
Agrees(name) ==
  /\ HasClass(name)
  /\ name \in TooLax \/ AsksEnough(UsageLine(name), ClassOf(name))
  /\ \/ name \in TooStrict \cup Irregular
     \/ AsksNoMore(UsageLine(name), ClassOf(name))

Row(name, u, class) == UsageLine(name) = u /\ ClassOf(name) = class /\ HasClass(name)

LEMMA RowAgrees ==
  ASSUME NEW name, NEW u, NEW class, Row(name, u, class),
         name \in TooLax \/ AsksEnough(u, class), name \in TooStrict \/ AsksNoMore(u, class)
  PROVE  Agrees(name)
BY DEF Row, Agrees

\* The usage lines and the classes side by side.
LEMMA UsageAndClass ==
  ASSUME NEW name, Documented(name), name # "ECHO"
  PROVE  Agrees(name)
<1> USE DEF UsageLine, HasClass, ClassOf, NoClass, ConnectionCommands, KeyCommands,
         StringCommands, HashesCommands, ListCommands, SetCommands, SortedSetCommands,
         PubSubCommands, TransactionCommands, ServerCommands, Line, Usage, Simple, Class,
         ClassOfKeys, Equals, LargerThen, LargerThenEqual
<1>1. CASE name \in {"PING", "QUIT", "RANDOMKEY", "DISCARD", "EXEC", "MULTI", "UNWATCH",
                      "BGREWRITEAOF", "BGSAVE", "DBSIZE", "FLUSHALL", "FLUSHDB", "INFO",
                      "LASTSAVE", "MONITOR", "SAVE", "SHUTDOWN", "CONFIG_RESETSTAT"}
  <2>1. Row(name, Simple(<<>>), Class(Equals(0), <<>>))
    BY <1>1, SMTT(30) DEF Row
  <2>2. AsksEnough(Simple(<<>>), Class(Equals(0), <<>>))
    BY SMTT(30) DEF AsksEnough, Narrow, Optional, CheckOf, ParamOf
  <2>3. AsksNoMore(Simple(<<>>), Class(Equals(0), <<>>))
    BY SMTT(30) DEF AsksNoMore, Wide, CheckOf, ParamOf
  <2> QED BY <2>1, <2>2, <2>3, RowAgrees, Zenon
<1>2. CASE name \in {"AUTH", "_ECHO", "CONFIG_GET"}
  <2>1. Row(name, Simple(<<"value">>), Class(Equals(1), <<>>))
    BY <1>2, SMTT(30) DEF Row
  <2>2. AsksEnough(Simple(<<"value">>), Class(Equals(1), <<>>))
    BY SMTT(30) DEF AsksEnough, Narrow, Optional, CheckOf, ParamOf
  <2>3. AsksNoMore(Simple(<<"value">>), Class(Equals(1), <<>>))
    BY SMTT(30) DEF AsksNoMore, Wide, CheckOf, ParamOf
  <2> QED BY <2>1, <2>2, <2>3, RowAgrees, Zenon
<1>3. CASE name \in {"SELECT"}
  <2>1. Row(name, Simple(<<"int">>), Class(Equals(1), <<"int">>))
    BY <1>3, SMTT(30) DEF Row
  <2>2. AsksEnough(Simple(<<"int">>), Class(Equals(1), <<"int">>))
    BY SMTT(30) DEF AsksEnough, Narrow, Optional, CheckOf, ParamOf
  <2>3. AsksNoMore(Simple(<<"int">>), Class(Equals(1), <<"int">>))
    BY SMTT(30) DEF AsksNoMore, Wide, CheckOf, ParamOf
  <2> QED BY <2>1, <2>2, <2>3, RowAgrees, Zenon
<1>4. CASE name \in {"KEYS"}
  <2>1. Row(name, Simple(<<"pattern">>), Class(Equals(1), <<"pattern">>))
    BY <1>4, SMTT(30) DEF Row
  <2>2. AsksEnough(Simple(<<"pattern">>), Class(Equals(1), <<"pattern">>))
    BY SMTT(30) DEF AsksEnough, Narrow, Optional, CheckOf, ParamOf
  <2>3. AsksNoMore(Simple(<<"pattern">>), Class(Equals(1), <<"pattern">>))
    BY SMTT(30) DEF AsksNoMore, Wide, CheckOf, ParamOf
  <2> QED BY <2>1, <2>2, <2>3, RowAgrees, Zenon
<1>5. CASE name \in {"EXISTS", "PERSIST", "TTL", "TYPE", "DECR", "INCR", "STRLEN", "HGETALL",
                      "HKEYS", "HLEN", "HVALS", "LLEN", "LPOP", "RPOP", "SCARD", "SMEMBERS",
                      "SPOP", "SRANDMEMBER", "ZCARD", "DEBUG_OBJECT"}
  <2>1. Row(name, Simple(<<"key">>), Class(Equals(1), <<"key">>))
    BY <1>5, SMTT(30) DEF Row
  <2>2. AsksEnough(Simple(<<"key">>), Class(Equals(1), <<"key">>))
    BY SMTT(30) DEF AsksEnough, Narrow, Optional, CheckOf, ParamOf
  <2>3. AsksNoMore(Simple(<<"key">>), Class(Equals(1), <<"key">>))
    BY SMTT(30) DEF AsksNoMore, Wide, CheckOf, ParamOf
  <2> QED BY <2>1, <2>2, <2>3, RowAgrees, Zenon
<1>6. CASE name \in {"GET"}
  <2>1. Row(name, Simple(<<"key">>), ClassOfKeys(LargerThen(0)))
    BY <1>6, SMTT(30) DEF Row
  <2>2. name \in TooLax
    BY <1>6 DEF TooLax
  <2>3. AsksNoMore(Simple(<<"key">>), ClassOfKeys(LargerThen(0)))
    BY SMTT(30) DEF AsksNoMore, Wide, CheckOf, ParamOf
  <2> QED BY <2>1, <2>2, <2>3, RowAgrees, Zenon
<1>7. CASE name \in {"EXPIRE", "MOVE", "DECRBY", "INCRBY", "LINDEX"}
  <2>1. Row(name, Simple(<<"key", "int">>), Class(Equals(2), <<"key", "int">>))
    BY <1>7, SMTT(30) DEF Row
  <2>2. AsksEnough(Simple(<<"key", "int">>), Class(Equals(2), <<"key", "int">>))
    BY SMTT(30) DEF AsksEnough, Narrow, Optional, CheckOf, ParamOf
  <2>3. AsksNoMore(Simple(<<"key", "int">>), Class(Equals(2), <<"key", "int">>))
    BY SMTT(30) DEF AsksNoMore, Wide, CheckOf, ParamOf
  <2> QED BY <2>1, <2>2, <2>3, RowAgrees, Zenon
<1>8. CASE name \in {"EXPIREAT"}
  <2>1. Row(name, Simple(<<"key", "int">>), Class(Equals(2), <<"key", "timestamp">>))
    BY <1>8, SMTT(30) DEF Row
  <2>2. AsksEnough(Simple(<<"key", "int">>), Class(Equals(2), <<"key", "timestamp">>))
    BY SMTT(30) DEF AsksEnough, Narrow, Optional, CheckOf, ParamOf
  <2>3. AsksNoMore(Simple(<<"key", "int">>), Class(Equals(2), <<"key", "timestamp">>))
    BY SMTT(30) DEF AsksNoMore, Wide, CheckOf, ParamOf
  <2> QED BY <2>1, <2>2, <2>3, RowAgrees, Zenon
<1>9. CASE name \in {"RENAME", "RENAMENX", "RPOPLPUSH"}
  <2>1. Row(name, Simple(<<"key", "key">>), Class(Equals(2), <<"key", "key">>))
    BY <1>9, SMTT(30) DEF Row
  <2>2. AsksEnough(Simple(<<"key", "key">>), Class(Equals(2), <<"key", "key">>))
    BY SMTT(30) DEF AsksEnough, Narrow, Optional, CheckOf, ParamOf
  <2>3. AsksNoMore(Simple(<<"key", "key">>), Class(Equals(2), <<"key", "key">>))
    BY SMTT(30) DEF AsksNoMore, Wide, CheckOf, ParamOf
  <2> QED BY <2>1, <2>2, <2>3, RowAgrees, Zenon
<1>10. CASE name \in {"APPEND", "GETSET", "SET", "SETNX", "HDEL", "HEXISTS", "HGET", "LPUSH",
                      "LPUSHX", "RPUSH", "RPUSHX"}
  <2>1. Row(name, Simple(<<"key", "value">>), Class(Equals(2), <<"key">>))
    BY <1>10, SMTT(30) DEF Row
  <2>2. AsksEnough(Simple(<<"key", "value">>), Class(Equals(2), <<"key">>))
    BY SMTT(30) DEF AsksEnough, Narrow, Optional, CheckOf, ParamOf
  <2>3. AsksNoMore(Simple(<<"key", "value">>), Class(Equals(2), <<"key">>))
    BY SMTT(30) DEF AsksNoMore, Wide, CheckOf, ParamOf
  <2> QED BY <2>1, <2>2, <2>3, RowAgrees, Zenon
<1>11. CASE name \in {"SISMEMBER", "SREM"}
  <2>1. Row(name, Simple(<<"key", "value">>), Class(Equals(2), <<"key", "key">>))
    BY <1>11, SMTT(30) DEF Row
  <2>2. AsksEnough(Simple(<<"key", "value">>), Class(Equals(2), <<"key", "key">>))
    BY SMTT(30) DEF AsksEnough, Narrow, Optional, CheckOf, ParamOf
  <2>3. name \in TooStrict
    BY <1>11 DEF TooStrict
  <2> QED BY <2>1, <2>2, <2>3, RowAgrees, Zenon
<1>12. CASE name \in {"ZRANK", "ZREM", "ZREVRANK", "ZSCORE"}
  <2>1. Row(name, Simple(<<"key", "value">>), Class(LargerThenEqual(2), <<"key">>))
    BY <1>12, SMTT(30) DEF Row
  <2>2. name \in TooLax
    BY <1>12 DEF TooLax
  <2>3. AsksNoMore(Simple(<<"key", "value">>), Class(LargerThenEqual(2), <<"key">>))
    BY SMTT(30) DEF AsksNoMore, Wide, CheckOf, ParamOf
  <2> QED BY <2>1, <2>2, <2>3, RowAgrees, Zenon
<1>13. CASE name \in {"PUBLISH"}
  <2>1. Row(name, Simple(<<"value", "value">>), Class(LargerThenEqual(1), <<>>))
    BY <1>13, SMTT(30) DEF Row
  <2>2. name \in TooLax
    BY <1>13 DEF TooLax
  <2>3. AsksNoMore(Simple(<<"value", "value">>), Class(LargerThenEqual(1), <<>>))
    BY SMTT(30) DEF AsksNoMore, Wide, CheckOf, ParamOf
  <2> QED BY <2>1, <2>2, <2>3, RowAgrees, Zenon
<1>14. CASE name \in {"SETEX", "LREM", "LSET"}
  <2>1. Row(name, Simple(<<"key", "int", "value">>), Class(Equals(3), <<"key", "int">>))
    BY <1>14, SMTT(30) DEF Row
  <2>2. AsksEnough(Simple(<<"key", "int", "value">>), Class(Equals(3), <<"key", "int">>))
    BY SMTT(30) DEF AsksEnough, Narrow, Optional, CheckOf, ParamOf
  <2>3. AsksNoMore(Simple(<<"key", "int", "value">>), Class(Equals(3), <<"key", "int">>))
    BY SMTT(30) DEF AsksNoMore, Wide, CheckOf, ParamOf
  <2> QED BY <2>1, <2>2, <2>3, RowAgrees, Zenon
<1>15. CASE name \in {"HSET"}
  <2>1. Row(name, Simple(<<"key", "value", "value">>), Class(Equals(3), <<"key">>))
    BY <1>15, SMTT(30) DEF Row
  <2>2. AsksEnough(Simple(<<"key", "value", "value">>), Class(Equals(3), <<"key">>))
    BY SMTT(30) DEF AsksEnough, Narrow, Optional, CheckOf, ParamOf
  <2>3. AsksNoMore(Simple(<<"key", "value", "value">>), Class(Equals(3), <<"key">>))
    BY SMTT(30) DEF AsksNoMore, Wide, CheckOf, ParamOf
  <2> QED BY <2>1, <2>2, <2>3, RowAgrees, Zenon
<1>16. CASE name \in {"HSETNX"}
  <2>1. Row(name, Simple(<<"key", "value", "value">>), Class(LargerThenEqual(3), <<"key">>))
    BY <1>16, SMTT(30) DEF Row
  <2>2. name \in TooLax
    BY <1>16 DEF TooLax
  <2>3. AsksNoMore(Simple(<<"key", "value", "value">>), Class(LargerThenEqual(3), <<"key">>))
    BY SMTT(30) DEF AsksNoMore, Wide, CheckOf, ParamOf
  <2> QED BY <2>1, <2>2, <2>3, RowAgrees, Zenon
<1>17. CASE name \in {"HINCRBY"}
  <2>1. Row(name, Simple(<<"key", "value", "int">>), Class(Equals(3), <<"key", "any", "int">>))
    BY <1>17, SMTT(30) DEF Row
  <2>2. AsksEnough(Simple(<<"key", "value", "int">>), Class(Equals(3), <<"key", "any", "int">>))
    BY SMTT(30) DEF AsksEnough, Narrow, Optional, CheckOf, ParamOf
  <2>3. AsksNoMore(Simple(<<"key", "value", "int">>), Class(Equals(3), <<"key", "any", "int">>))
    BY SMTT(30) DEF AsksNoMore, Wide, CheckOf, ParamOf
  <2> QED BY <2>1, <2>2, <2>3, RowAgrees, Zenon
<1>18. CASE name \in {"LRANGE", "LTRIM"}
  <2>1. Row(name, Simple(<<"key", "int", "int">>), Class(Equals(3), <<"key", "int", "int">>))
    BY <1>18, SMTT(30) DEF Row
  <2>2. AsksEnough(Simple(<<"key", "int", "int">>), Class(Equals(3), <<"key", "int", "int">>))
    BY SMTT(30) DEF AsksEnough, Narrow, Optional, CheckOf, ParamOf
  <2>3. AsksNoMore(Simple(<<"key", "int", "int">>), Class(Equals(3), <<"key", "int", "int">>))
    BY SMTT(30) DEF AsksNoMore, Wide, CheckOf, ParamOf
  <2> QED BY <2>1, <2>2, <2>3, RowAgrees, Zenon
<1>19. CASE name \in {"ZREMRANGEBYRANK"}
  <2>1. Row(name, Simple(<<"key", "int", "int">>), Class(LargerThenEqual(2), <<"key", "int", "int">>))
    BY <1>19, SMTT(30) DEF Row
  <2>2. name \in TooLax
    BY <1>19 DEF TooLax
  <2>3. AsksNoMore(Simple(<<"key", "int", "int">>), Class(LargerThenEqual(2), <<"key", "int", "int">>))
    BY SMTT(30) DEF AsksNoMore, Wide, CheckOf, ParamOf
  <2> QED BY <2>1, <2>2, <2>3, RowAgrees, Zenon
<1>20. CASE name \in {"SMOVE"}
  <2>1. Row(name, Simple(<<"key", "key", "value">>), Class(Equals(3), <<"key", "key", "key">>))
    BY <1>20, SMTT(30) DEF Row
  <2>2. AsksEnough(Simple(<<"key", "key", "value">>), Class(Equals(3), <<"key", "key", "key">>))
    BY SMTT(30) DEF AsksEnough, Narrow, Optional, CheckOf, ParamOf
  <2>3. name \in TooStrict
    BY <1>20 DEF TooStrict
  <2> QED BY <2>1, <2>2, <2>3, RowAgrees, Zenon
<1>21. CASE name \in {"LINSERT"}
  <2>1. Row(name, Simple(<<"key", "side", "value", "value">>), Class(Equals(4), <<"key", "side">>))
    BY <1>21, SMTT(30) DEF Row
  <2>2. AsksEnough(Simple(<<"key", "side", "value", "value">>), Class(Equals(4), <<"key", "side">>))
    BY SMTT(30) DEF AsksEnough, Narrow, Optional, CheckOf, ParamOf
  <2>3. AsksNoMore(Simple(<<"key", "side", "value", "value">>), Class(Equals(4), <<"key", "side">>))
    BY SMTT(30) DEF AsksNoMore, Wide, CheckOf, ParamOf
  <2> QED BY <2>1, <2>2, <2>3, RowAgrees, Zenon
<1>22. CASE name \in {"ZADD"}
  <2>1. Row(name, Simple(<<"key", "number", "value">>), Class(Equals(3), <<"key", "number">>))
    BY <1>22, SMTT(30) DEF Row
  <2>2. AsksEnough(Simple(<<"key", "number", "value">>), Class(Equals(3), <<"key", "number">>))
    BY SMTT(30) DEF AsksEnough, Narrow, Optional, CheckOf, ParamOf
  <2>3. AsksNoMore(Simple(<<"key", "number", "value">>), Class(Equals(3), <<"key", "number">>))
    BY SMTT(30) DEF AsksNoMore, Wide, CheckOf, ParamOf
  <2> QED BY <2>1, <2>2, <2>3, RowAgrees, Zenon
<1>23. CASE name \in {"ZINCRBY"}
  <2>1. Row(name, Simple(<<"key", "number", "value">>), Class(Equals(3), <<"key", "int">>))
    BY <1>23, SMTT(30) DEF Row
  <2>2. AsksEnough(Simple(<<"key", "number", "value">>), Class(Equals(3), <<"key", "int">>))
    BY SMTT(30) DEF AsksEnough, Narrow, Optional, CheckOf, ParamOf
  <2>3. name \in TooStrict
    BY <1>23 DEF TooStrict
  <2> QED BY <2>1, <2>2, <2>3, RowAgrees, Zenon
<1>24. CASE name \in {"ZCOUNT"}
  <2>1. Row(name, Simple(<<"key", "number", "number">>), Class(Equals(3), <<"key", "int", "int">>))
    BY <1>24, SMTT(30) DEF Row
  <2>2. AsksEnough(Simple(<<"key", "number", "number">>), Class(Equals(3), <<"key", "int", "int">>))
    BY SMTT(30) DEF AsksEnough, Narrow, Optional, CheckOf, ParamOf
  <2>3. name \in TooStrict
    BY <1>24 DEF TooStrict
  <2> QED BY <2>1, <2>2, <2>3, RowAgrees, Zenon
<1>25. CASE name \in {"ZREMRANGEBYSCORE"}
  <2>1. Row(name, Simple(<<"key", "number", "number">>), Class(LargerThenEqual(2), <<"key", "number", "number">>))
    BY <1>25, SMTT(30) DEF Row
  <2>2. name \in TooLax
    BY <1>25 DEF TooLax
  <2>3. AsksNoMore(Simple(<<"key", "number", "number">>), Class(LargerThenEqual(2), <<"key", "number", "number">>))
    BY SMTT(30) DEF AsksNoMore, Wide, CheckOf, ParamOf
  <2> QED BY <2>1, <2>2, <2>3, RowAgrees, Zenon
<1>26. CASE name \in {"DEL"}
  <2>1. Row(name, Usage(<<"key">>, <<"key">>), ClassOfKeys(LargerThen(0)))
    BY <1>26, SMTT(30) DEF Row
  <2>2. AsksEnough(Usage(<<"key">>, <<"key">>), ClassOfKeys(LargerThen(0)))
    BY SMTT(30) DEF AsksEnough, Narrow, Optional, CheckOf, ParamOf
  <2>3. AsksNoMore(Usage(<<"key">>, <<"key">>), ClassOfKeys(LargerThen(0)))
    BY SMTT(30) DEF AsksNoMore, Wide, CheckOf, ParamOf
  <2> QED BY <2>1, <2>2, <2>3, RowAgrees, Zenon
<1>27. CASE name \in {"SUNION", "WATCH"}
  <2>1. Row(name, Usage(<<"key">>, <<"key">>), ClassOfKeys(LargerThenEqual(1)))
    BY <1>27, SMTT(30) DEF Row
  <2>2. AsksEnough(Usage(<<"key">>, <<"key">>), ClassOfKeys(LargerThenEqual(1)))
    BY SMTT(30) DEF AsksEnough, Narrow, Optional, CheckOf, ParamOf
  <2>3. AsksNoMore(Usage(<<"key">>, <<"key">>), ClassOfKeys(LargerThenEqual(1)))
    BY SMTT(30) DEF AsksNoMore, Wide, CheckOf, ParamOf
  <2> QED BY <2>1, <2>2, <2>3, RowAgrees, Zenon
<1>28. CASE name \in {"MGET", "MSET", "SDIFF", "SINTER"}
  <2>1. Row(name, Usage(<<"key">>, <<"key">>), ClassOfKeys(LargerThen(1)))
    BY <1>28, SMTT(30) DEF Row
  <2>2. AsksEnough(Usage(<<"key">>, <<"key">>), ClassOfKeys(LargerThen(1)))
    BY SMTT(30) DEF AsksEnough, Narrow, Optional, CheckOf, ParamOf
  <2>3. name \in TooStrict
    BY <1>28 DEF TooStrict
  <2> QED BY <2>1, <2>2, <2>3, RowAgrees, Zenon
<1>29. CASE name \in {"SDIFFSTORE"}
  <2>1. Row(name, Usage(<<"key", "key">>, <<"key">>), Class(LargerThenEqual(2), <<"key", "key">>))
    BY <1>29, SMTT(30) DEF Row
  <2>2. name \in TooLax
    BY <1>29 DEF TooLax
  <2>3. AsksNoMore(Usage(<<"key", "key">>, <<"key">>), Class(LargerThenEqual(2), <<"key", "key">>))
    BY SMTT(30) DEF AsksNoMore, Wide, CheckOf, ParamOf
  <2> QED BY <2>1, <2>2, <2>3, RowAgrees, Zenon
<1>30. CASE name \in {"SINTERSTORE", "SUNIONSTORE"}
  <2>1. Row(name, Usage(<<"key", "key">>, <<"key">>), ClassOfKeys(LargerThenEqual(2)))
    BY <1>30, SMTT(30) DEF Row
  <2>2. AsksEnough(Usage(<<"key", "key">>, <<"key">>), ClassOfKeys(LargerThenEqual(2)))
    BY SMTT(30) DEF AsksEnough, Narrow, Optional, CheckOf, ParamOf
  <2>3. AsksNoMore(Usage(<<"key", "key">>, <<"key">>), ClassOfKeys(LargerThenEqual(2)))
    BY SMTT(30) DEF AsksNoMore, Wide, CheckOf, ParamOf
  <2> QED BY <2>1, <2>2, <2>3, RowAgrees, Zenon
<1>31. CASE name \in {"SADD"}
  <2>1. Row(name, Usage(<<"key", "value">>, <<"value">>), Class(LargerThenEqual(2), <<"key">>))
    BY <1>31, SMTT(30) DEF Row
  <2>2. AsksEnough(Usage(<<"key", "value">>, <<"value">>), Class(LargerThenEqual(2), <<"key">>))
    BY SMTT(30) DEF AsksEnough, Narrow, Optional, CheckOf, ParamOf
  <2>3. AsksNoMore(Usage(<<"key", "value">>, <<"value">>), Class(LargerThenEqual(2), <<"key">>))
    BY SMTT(30) DEF AsksNoMore, Wide, CheckOf, ParamOf
  <2> QED BY <2>1, <2>2, <2>3, RowAgrees, Zenon
<1>32. CASE name \in {"HMGET"}
  <2>1. Row(name, Usage(<<"key", "value">>, <<"value">>), Class(LargerThen(2), <<"key">>))
    BY <1>32, SMTT(30) DEF Row
  <2>2. AsksEnough(Usage(<<"key", "value">>, <<"value">>), Class(LargerThen(2), <<"key">>))
    BY SMTT(30) DEF AsksEnough, Narrow, Optional, CheckOf, ParamOf
  <2>3. name \in TooStrict
    BY <1>32 DEF TooStrict
  <2> QED BY <2>1, <2>2, <2>3, RowAgrees, Zenon
<1>33. CASE name \in {"PSUBSCRIBE", "SUBSCRIBE"}
  <2>1. Row(name, Usage(<<"value">>, <<"value">>), Class(LargerThenEqual(1), <<>>))
    BY <1>33, SMTT(30) DEF Row
  <2>2. AsksEnough(Usage(<<"value">>, <<"value">>), Class(LargerThenEqual(1), <<>>))
    BY SMTT(30) DEF AsksEnough, Narrow, Optional, CheckOf, ParamOf
  <2>3. AsksNoMore(Usage(<<"value">>, <<"value">>), Class(LargerThenEqual(1), <<>>))
    BY SMTT(30) DEF AsksNoMore, Wide, CheckOf, ParamOf
  <2> QED BY <2>1, <2>2, <2>3, RowAgrees, Zenon
<1>34. CASE name \in {"PUNSUBSCRIBE", "UNSUBSCRIBE"}
  <2>1. Row(name, Usage(<<>>, <<"value">>), Class(LargerThenEqual(0), <<>>))
    BY <1>34, SMTT(30) DEF Row
  <2>2. AsksEnough(Usage(<<>>, <<"value">>), Class(LargerThenEqual(0), <<>>))
    BY SMTT(30) DEF AsksEnough, Narrow, Optional, CheckOf, ParamOf
  <2>3. AsksNoMore(Usage(<<>>, <<"value">>), Class(LargerThenEqual(0), <<>>))
    BY SMTT(30) DEF AsksNoMore, Wide, CheckOf, ParamOf
  <2> QED BY <2>1, <2>2, <2>3, RowAgrees, Zenon
<1>35. CASE name \in {"CONFIG_SET"}
  <2>1. Row(name, Simple(<<"value", "value">>), Class(Equals(2), <<>>))
    BY <1>35, SMTT(30) DEF Row
  <2>2. AsksEnough(Simple(<<"value", "value">>), Class(Equals(2), <<>>))
    BY SMTT(30) DEF AsksEnough, Narrow, Optional, CheckOf, ParamOf
  <2>3. AsksNoMore(Simple(<<"value", "value">>), Class(Equals(2), <<>>))
    BY SMTT(30) DEF AsksNoMore, Wide, CheckOf, ParamOf
  <2> QED BY <2>1, <2>2, <2>3, RowAgrees, Zenon
<1>36. CASE name \in {"BRPOPLPUSH"}
  <2>1. Row(name, Simple(<<"key", "key", "int">>), Class(LargerThen(1), <<>>))
    BY <1>36, SMTT(30) DEF Row
  <2>2. name \in TooLax
    BY <1>36 DEF TooLax
  <2>3. AsksNoMore(Simple(<<"key", "key", "int">>), Class(LargerThen(1), <<>>))
    BY SMTT(30) DEF AsksNoMore, Wide, CheckOf, ParamOf
  <2> QED BY <2>1, <2>2, <2>3, RowAgrees, Zenon
<1>37. CASE name \in Irregular \cup {"SLAVEOF"}
  <2>1. HasClass(name)
    BY <1>37 DEF Irregular
  <2>2. name \in TooLax /\ name \in TooStrict \cup Irregular
    BY <1>37 DEF TooLax, TooStrict, Irregular
  <2> QED BY <2>1, <2>2 DEF Agrees
<1> QED
  BY <1>1, <1>2, <1>3, <1>4, <1>5, <1>6, <1>7, <1>8, <1>9, <1>10, <1>11, <1>12, <1>13, <1>14,
     <1>15, <1>16, <1>17, <1>18, <1>19, <1>20, <1>21, <1>22, <1>23, <1>24, <1>25, <1>26, <1>27,
     <1>28, <1>29, <1>30, <1>31, <1>32, <1>33, <1>34, <1>35, <1>36, <1>37, SMTT(30)
     DEF Documented, NoUsage, Irregular

LEMMA ParamOfKind ==
  ASSUME NEW u, u.params \in Seq(Kinds), u.more \in Seq(Kinds), NEW i \in Nat \ {0},
         i <= Len(u.params) \/ u.more # <<>>
  PROVE  ParamOf(u, i) \in Kinds
<1>1. CASE i <= Len(u.params)
  BY <1>1 DEF ParamOf
<1>2. CASE u.more # <<>>
  <2>1. Len(u.more) \in Nat /\ Len(u.more) # 0
    BY <1>2, EmptySeq
  <2>2. u.more[1] \in Kinds
    BY <2>1
  <2> QED BY <1>1, <2>2 DEF ParamOf
<1> QED BY <1>1, <1>2

\* The class lets through only what the usage line says.
LEMMA ValidMatches ==
  ASSUME NEW name, Documented(name), name # "ECHO", name \notin TooLax,
         NEW args \in ArgumentLists, ValidationOutcome(ClassOf(name), args) = "valid"
  PROVE  Matches(args, UsageLine(name), Passable)
<1> DEFINE u == UsageLine(name)
           class == ClassOf(name)
<1>1. HasClass(name) /\ AsksEnough(u, class)
  BY UsageAndClass DEF Agrees
<1>2. /\ u.params \in Seq(Kinds) /\ u.more \in Seq(Kinds)
      /\ Len(u.more) <= 1 /\ u.options = {} /\ u.end = <<>>
  BY UsageRow DEF TooLax, Irregular
<1>3. Rejected(class, args) = {} /\ ~(Len(args) < class.count.least \/ Len(args) > class.count.most)
  BY <1>1, VerdictOf DEF ValidationExceptions
<1>4. args \in Seq(AllValues) /\ DOMAIN args = 1..Len(args) /\ Len(args) \in Nat
  BY ValuesAssumption, CallsAssumption DEF ArgumentLists
<1>5. \A i : CheckOf(class, args, i) \in Checks /\ CheckOf(class, args, i) = CheckOf(class, <<>>, i)
  BY <1>1, ChecksKnown DEF CheckOf
<1>6. class.count.least \in Nat /\ class.count.most \in Nat
  BY <1>1, CountRow
<1> HIDE DEF u, class
<1>7. Len(args) >= Len(u.params) /\ (u.more = <<>> => Len(args) = Len(u.params))
  BY <1>1, <1>2, <1>3, <1>4, <1>6 DEF AsksEnough
<1>8. ASSUME NEW i \in 1..Len(args) PROVE args[i] \in Passable[ParamOf(u, i)]
  <2>1. i \in Nat \ {0} /\ (i <= Len(u.params) \/ u.more # <<>>)
    BY <1>4, <1>7
  <2>2. ParamOf(u, i) \in Kinds
    BY <1>2, <2>1, ParamOfKind
  <2>3. Narrow(CheckOf(class, args, i), ParamOf(u, i))
    BY <1>1, <1>5, <2>1 DEF AsksEnough
  <2>4. Lets(CheckOf(class, args, i), args[i])
    BY <1>3, <1>4 DEF Rejected, Validated, Lets
  <2> QED BY <1>4, <1>5, <2>2, <2>3, <2>4, NarrowPasses
<1>9. Matches(args, u, Passable)
  BY <1>2, <1>7, <1>8, MatchesOf
<1> QED BY <1>9 DEF u

\* validate() has nothing to say of arguments that are as many as they should be,
\* each of which its check lets through, unless one is missing that may not be.
LEMMA ValidWhen ==
  ASSUME NEW class, NEW args, ~(Len(args) < class.count.least \/ Len(args) > class.count.most),
         \A i \in DOMAIN args : Lets(CheckOf(class, args, i), args[i]),
         \A i \in DOMAIN class.checks \ DOMAIN args : class.checks[i] \in Optional
  PROVE  ValidationOutcome(class, args) = "valid"
<1>1. \A check \in Optional : "null" \in Accepted(check)
  BY DEF Optional, Accepted
<1>2. Rejected(class, args) = {}
  BY <1>1 DEF Rejected, Validated, Lets
<1> QED BY <1>2 DEF ValidationOutcome

\* Whatever is repeated or left out, a list of arguments a usage line allows
\* begins with its parameters and has room for its end.
LEMMA ExpansionOf ==
  ASSUME NEW u, u.params \in Seq(Kinds), u.more \in Seq(Kinds), u.end \in Seq(Kinds),
         u.options \subseteq Seq(Kinds), NEW e \in Expansions(u)
  PROVE  /\ e \in Seq(Kinds) /\ Len(e) >= Len(u.params) + Len(u.end)
         /\ \A i \in 1..Len(u.params) : e[i] = u.params[i]
<1> DEFINE most == IF u.more = <<>> THEN 0 ELSE MaxArguments
           middles == u.options \cup {Repeated(u.more, n) : n \in 0..most}
<1>0. most \in Nat
  BY CallsAssumption
<1>1. PICK middle : /\ e = u.params \o middle \o u.end
                    /\ middle \in u.options \/ \E n \in Nat : middle = Repeated(u.more, n)
  <2>1. Expansions(u) = {u.params \o middle \o u.end : middle \in middles}
    BY Zenon DEF Expansions
  <2> HIDE DEF middles
  <2>2. PICK middle \in middles : e = u.params \o middle \o u.end
    BY <2>1, Zenon
  <2>3. middle \in u.options \/ \E n \in 0..most : middle = Repeated(u.more, n)
    BY <2>2, Zenon DEF middles
  <2>4. \A n \in 0..most : n \in Nat
    BY <1>0
  <2> HIDE DEF most
  <2> QED BY <2>2, <2>3, <2>4, Zenon
<1>2. ASSUME NEW n \in Nat PROVE Repeated(u.more, n) \in Seq(Kinds)
  <2>1. Len(u.more) \in Nat /\ n * Len(u.more) \in Nat
    OBVIOUS
  <2>2. ASSUME NEW i \in 1..(n * Len(u.more))
        PROVE  u.more[((i - 1) % Len(u.more)) + 1] \in Kinds
    <3>1. Len(u.more) # 0
      BY <2>2
    <3>2. i - 1 \in Nat
      BY <2>1
    <3>3. (i - 1) % Len(u.more) \in 0..(Len(u.more) - 1)
      <4>1. \A k, m \in Nat : m # 0 => k % m \in 0..(m - 1)
        OBVIOUS
      <4>2. Len(u.more) \in Nat
        OBVIOUS
      <4> QED BY <3>1, <3>2, <4>1, <4>2, Zenon
    <3> QED BY <2>1, <3>3
  <2> QED BY <2>1, <2>2 DEF Repeated
<1>3. middle \in Seq(Kinds)
  BY <1>1, <1>2
<1> HIDE DEF most, middles
<1>4. /\ u.params \o middle \in Seq(Kinds) /\ Len(u.params \o middle) = Len(u.params) + Len(middle)
      /\ \A i \in 1..Len(u.params) : (u.params \o middle)[i] = u.params[i]
  BY <1>3
<1>5. Len(u.params) \in Nat /\ Len(middle) \in Nat /\ Len(u.end) \in Nat
  BY <1>3
<1> DEFINE begin == u.params \o middle
<1> HIDE DEF begin
<1>6. begin \in Seq(Kinds) /\ Len(begin) >= Len(u.params)
  BY <1>4, <1>5 DEF begin
<1>7. /\ begin \o u.end \in Seq(Kinds) /\ Len(begin \o u.end) = Len(begin) + Len(u.end)
      /\ \A i \in 1..Len(begin) : (begin \o u.end)[i] = begin[i]
  BY <1>6
<1>8. e = begin \o u.end /\ \A i \in 1..Len(u.params) : begin[i] = u.params[i]
  BY <1>1, <1>4 DEF begin
<1>9. /\ e \in Seq(Kinds) /\ Len(e) = Len(begin) + Len(u.end)
      /\ \A i \in 1..Len(begin) : e[i] = begin[i]
  BY <1>7, <1>8
<1>10. Len(begin) \in Nat
  BY <1>6
<1>11. Len(e) >= Len(u.params) + Len(u.end)
  <2>1. \A a, b, c, d \in Nat : a >= b /\ d = a + c => d >= b + c
    OBVIOUS
  <2>2. Len(e) \in Nat
    BY <1>9
  <2> QED BY <1>5, <1>6, <1>9, <1>10, <2>1, <2>2, Zenon
<1>12. \A i \in 1..Len(u.params) : i \in 1..Len(begin)
  BY <1>5, <1>6, <1>10
<1> QED BY <1>8, <1>9, <1>11, <1>12, Zenon

\* A class that takes any number of arguments from those its usage line must have,
\* and lets through the parameters, lets through what the line allows.
LEMMA OpenValid ==
  ASSUME NEW u, u.params \in Seq(Kinds), u.more \in Seq(Kinds), u.end \in Seq(Kinds),
         u.options \subseteq Seq(Kinds),
         NEW count, NEW checks, count.least \in Nat, count.most = MaxArguments,
         count.least <= Len(u.params) + Len(u.end), DOMAIN checks \subseteq 1..Len(u.params),
         \A i \in DOMAIN checks : checks[i] \in Checks /\ Wide(checks[i], u.params[i]),
         NEW args \in ArgumentLists, Matches(args, u, Plain)
  PROVE  ValidationOutcome(Class(count, checks), args) = "valid"
<1> DEFINE class == Class(count, checks)
<1>1. PICK e \in Expansions(u) : Len(e) = Len(args) /\ \A i \in DOMAIN e : args[i] \in Plain[e[i]]
  BY DEF Matches
<1>2. /\ e \in Seq(Kinds) /\ Len(e) >= Len(u.params) + Len(u.end)
      /\ \A i \in 1..Len(u.params) : e[i] = u.params[i]
  BY ExpansionOf
<1>3. DOMAIN args = 1..Len(args) /\ Len(args) \in 0..MaxArguments /\ MaxArguments \in Nat
  BY CallsAssumption DEF ArgumentLists
<1>4. Len(u.params) \in Nat /\ Len(u.end) \in Nat /\ Len(args) >= Len(u.params)
  <2>1. Len(u.params) \in Nat /\ Len(u.end) \in Nat
    OBVIOUS
  <2>2. Len(args) \in Nat
    BY <1>3
  <2>3. \A a, b, c \in Nat : a >= b + c => a >= b
    OBVIOUS
  <2> QED BY <1>1, <1>2, <2>1, <2>2, <2>3, Zenon
<1>5. class.checks = checks /\ class.keys = FALSE /\ class.count = count
  BY DEF Class
<1>6. ~(Len(args) < class.count.least \/ Len(args) > class.count.most)
  <2> HIDE DEF class
  <2>1. Len(args) >= Len(u.params) + Len(u.end)
    BY <1>1, <1>2, Zenon
  <2>2. Len(args) \in Nat /\ Len(args) <= MaxArguments
    BY <1>3
  <2>3. \A a, b, c, d \in Nat : a >= b + c /\ d <= b + c => ~(a < d)
    OBVIOUS
  <2>4. ~(Len(args) < count.least)
    BY <1>4, <2>1, <2>2, <2>3, Zenon
  <2>5. ~(Len(args) > count.most)
    BY <1>3, <2>2
  <2> QED BY <1>5, <2>4, <2>5
<1>7. \A i \in DOMAIN args : args[i] \in AllValues
  BY ValuesAssumption DEF ArgumentLists
<1> HIDE DEF class
<1>8. ASSUME NEW i \in DOMAIN args PROVE Lets(CheckOf(class, args, i), args[i])
  <2>1. CASE i \in DOMAIN checks
    <3>1. CheckOf(class, args, i) = checks[i] /\ checks[i] \in Checks /\ Wide(checks[i], u.params[i])
      BY <1>5, <2>1 DEF CheckOf
    <3>2. i \in 1..Len(u.params) /\ i \in DOMAIN e /\ u.params[i] \in Kinds
      BY <1>1, <1>2, <1>3, <2>1
    <3>3. args[i] \in Plain[u.params[i]]
      BY <1>1, <1>2, <3>2
    <3> QED BY <3>1, <3>2, <3>3, WideLets
  <2>2. CASE i \notin DOMAIN checks
    <3>1. CheckOf(class, args, i) = "any"
      BY <1>5, <2>2 DEF CheckOf
    <3> QED BY <1>7, <3>1 DEF Lets, Accepted, Enumerated, Optional
  <2> QED BY <2>1, <2>2
<1>9. DOMAIN class.checks \ DOMAIN args = {}
  BY <1>3, <1>4, <1>5
<1>10. ValidationOutcome(class, args) = "valid"
  BY <1>6, <1>8, <1>9, ValidWhen, SMTT(30)
<1> QED BY <1>10 DEF class

\* The classes of irregular lines that take any number of arguments: HMSET, the
\* blocking pops, SLOWLOG and ZREVRANGEBYSCORE.
LEMMA IrregularValid ==
  ASSUME NEW name \in {"HMSET", "BLPOP", "BRPOP", "SLOWLOG", "ZREVRANGEBYSCORE"},
         NEW args \in ArgumentLists, Matches(args, UsageLine(name), Plain)
  PROVE  ValidationOutcome(ClassOf(name), args) = "valid"
<1> DEFINE Open(u, count, checks) ==
      /\ u.params \in Seq(Kinds) /\ u.more \in Seq(Kinds) /\ u.end \in Seq(Kinds)
      /\ u.options \subseteq Seq(Kinds)
      /\ count.least \in Nat /\ count.most = MaxArguments
      /\ count.least <= Len(u.params) + Len(u.end) /\ DOMAIN checks \subseteq 1..Len(u.params)
      /\ \A i \in DOMAIN checks : checks[i] \in Checks /\ Wide(checks[i], u.params[i])
      /\ UsageLine(name) = u /\ ClassOf(name) = Class(count, checks)
<1> USE DEF UsageLine, ClassOf, ConnectionCommands, KeyCommands, StringCommands, HashesCommands,
         ListCommands, SetCommands, SortedSetCommands, PubSubCommands, TransactionCommands,
         ServerCommands, Line, Usage, LargerThen, LargerThenEqual, Checks, Wide, Kinds
<1>1. CASE name = "HMSET"
  <2>1. Open(Usage(<<"key", "value", "value">>, <<"value", "value">>), LargerThen(2), <<"key">>)
    BY <1>1
  <2> HIDE DEF UsageLine, ClassOf, Wide
  <2> QED BY <2>1, OpenValid
<1>2. CASE name \in {"BLPOP", "BRPOP"}
  <2>1. Open(Line(<<"key">>, <<"key">>, {}, <<"int">>), LargerThen(1), <<>>)
    BY <1>2
  <2> HIDE DEF UsageLine, ClassOf, Wide
  <2> QED BY <2>1, OpenValid
<1>3. CASE name = "SLOWLOG"
  <2>1. Open(Line(<<"value">>, <<>>, {<<"value">>}, <<>>), LargerThenEqual(1), <<>>)
    BY <1>3
  <2> HIDE DEF UsageLine, ClassOf, Wide
  <2> QED BY <2>1, OpenValid
<1>4. CASE name = "ZREVRANGEBYSCORE"
  <2>1. Open(Line(<<"key", "number", "number">>, <<>>, ScoresAndLimit, <<>>), LargerThenEqual(3),
             <<"key", "number", "number">>)
    BY <1>4 DEF ScoresAndLimit
  <2> HIDE DEF UsageLine, ClassOf, Wide
  <2> QED BY <2>1, OpenValid
<1> QED BY <1>1, <1>2, <1>3, <1>4

\* ZRANGE and ZREVRANGE, which have an option.
LEMMA OptionValid ==
  ASSUME NEW name \in {"ZRANGE", "ZREVRANGE"}, NEW args \in ArgumentLists,
         Matches(args, UsageLine(name), Plain)
  PROVE  ValidationOutcome(ClassOf(name), args) = "valid"
<1> DEFINE params == <<"key", "int", "int">>
           class == Class(LargerThenEqual(3), <<"key", "int", "int", "scores?">>)
           u == Line(params, <<>>, {<<"scores?">>}, <<>>)
<1>1. UsageLine(name) = u
  BY DEF UsageLine
<1>2. ClassOf(name) = class
  BY DEF ClassOf, ConnectionCommands, KeyCommands, StringCommands, HashesCommands, ListCommands,
         SetCommands, SortedSetCommands, PubSubCommands, TransactionCommands, ServerCommands
<1>3. PICK e \in {params, params \o <<"scores?">>} :
        Len(e) = Len(args) /\ \A i \in DOMAIN e : args[i] \in Plain[e[i]]
  <2>1. Expansions(u) \subseteq {params, params \o <<"scores?">>}
    <3>1. \A n \in 0..0 : Repeated(<<>>, n) = <<>>
      BY DEF Repeated
    <3>2. Expansions(u) \subseteq {params \o <<>> \o <<>>, params \o <<"scores?">> \o <<>>}
      BY <3>1 DEF Expansions, Line
    <3>3. params \o <<>> \o <<>> = params /\ params \o <<"scores?">> \o <<>> = params \o <<"scores?">>
      OBVIOUS
    <3> HIDE DEF params, u
    <3> QED BY <3>2, <3>3
  <2>2. Matches(args, u, Plain)
    BY <1>1
  <2> HIDE DEF params, u
  <2> QED BY <2>1, <2>2, Zenon DEF Matches
<1>4. /\ Len(args) \in {3, 4} /\ args[1] = "key"
      /\ args[2] \in {"int", "negative"} /\ args[3] \in {"int", "negative"}
      /\ Len(args) = 4 => args[4] \in {"withscores", "WITHSCORES"}
  <2>1. /\ Plain["key"] = {"key"} /\ Plain["int"] = {"int", "negative"}
        /\ Plain["scores?"] = {"withscores", "WITHSCORES"}
    BY DEF Plain
  <2>2. CASE e = params
    <3>1. Len(args) = 3 /\ args[1] \in Plain["key"] /\ args[2] \in Plain["int"] /\ args[3] \in Plain["int"]
      BY <1>3, <2>2
    <3> QED BY <3>1, <2>1
  <2>3. CASE e = params \o <<"scores?">>
    <3>1. /\ Len(e) = 4 /\ DOMAIN e = 1..4
          /\ e[1] = "key" /\ e[2] = "int" /\ e[3] = "int" /\ e[4] = "scores?"
      BY <2>3
    <3>2. /\ Len(args) = 4 /\ args[1] \in Plain["key"] /\ args[2] \in Plain["int"]
          /\ args[3] \in Plain["int"] /\ args[4] \in Plain["scores?"]
      BY <1>3, <3>1
    <3> QED BY <3>2, <2>1
  <2> QED BY <2>2, <2>3
<1>5. DOMAIN args = 1..Len(args) /\ Len(args) <= MaxArguments
  BY CallsAssumption DEF ArgumentLists
<1>6. ~(Len(args) < class.count.least \/ Len(args) > class.count.most)
  BY <1>4, <1>5, CallsAssumption DEF Class, LargerThenEqual
<1>7. ASSUME NEW i \in DOMAIN args PROVE Lets(CheckOf(class, args, i), args[i])
  BY <1>4, <1>5
     DEF Class, CheckOf, Lets, Accepted, Enumerated, Optional, KeyShaped, Worded, Upper
<1>8. \A i \in DOMAIN class.checks \ DOMAIN args : class.checks[i] \in Optional
  BY <1>4, <1>5 DEF Class, Optional
<1> HIDE DEF class
<1> QED BY <1>2, <1>6, <1>7, <1>8, ValidWhen

\* The class lets through all that plainly is what the usage line says.
LEMMA MatchesValid ==
  ASSUME NEW name, Documented(name), name \notin TooStrict, NEW args \in ArgumentLists,
         Matches(args, UsageLine(name), Plain)
  PROVE  ValidationOutcome(ClassOf(name), args) = "valid"
<1>1. CASE name \in Irregular
  BY <1>1, IrregularValid, OptionValid DEF Irregular, TooStrict
<1>2. CASE name \notin Irregular
  <2> DEFINE u == UsageLine(name)
             class == ClassOf(name)
  <2>1. HasClass(name) /\ AsksNoMore(u, class)
    BY <1>2, UsageAndClass DEF Agrees, TooStrict
  <2>2. /\ u.params \in Seq(Kinds) /\ u.more \in Seq(Kinds)
        /\ Len(u.more) <= 1 /\ u.options = {} /\ u.end = <<>>
    BY <1>2, UsageRow
  <2>3. DOMAIN args = 1..Len(args) /\ Len(args) \in 0..MaxArguments /\ MaxArguments \in Nat
    BY CallsAssumption DEF ArgumentLists
  <2>4. \A i : CheckOf(class, args, i) \in Checks /\ CheckOf(class, args, i) = CheckOf(class, <<>>, i)
    BY <2>1, ChecksKnown DEF CheckOf
  <2>5. class.count.least \in Nat /\ class.count.most \in Nat
    BY <2>1, CountRow
  <2> HIDE DEF u, class
  <2>6. /\ Len(args) >= Len(u.params) /\ (u.more = <<>> => Len(args) = Len(u.params))
        /\ \A i \in 1..Len(args) : args[i] \in Plain[ParamOf(u, i)]
    BY <2>2, MatchesOf DEF u
  <2>7. ~(Len(args) < class.count.least \/ Len(args) > class.count.most)
    BY <2>1, <2>2, <2>3, <2>5, <2>6 DEF AsksNoMore
  <2>8. ASSUME NEW i \in DOMAIN args PROVE Lets(CheckOf(class, args, i), args[i])
    <3>1. i \in Nat \ {0} /\ (i <= Len(u.params) \/ u.more # <<>>)
      BY <2>3, <2>6
    <3>2. ParamOf(u, i) \in Kinds
      BY <2>2, <3>1, ParamOfKind
    <3>3. Wide(CheckOf(class, args, i), ParamOf(u, i))
      BY <2>1, <2>4, <3>1 DEF AsksNoMore
    <3> QED BY <2>3, <2>4, <2>6, <3>2, <3>3, WideLets
  <2>9. \A i \in DOMAIN class.checks : i \in DOMAIN args
    BY <2>1, <2>2, <2>3, <2>6 DEF AsksNoMore
  <2>10. ValidationOutcome(class, args) = "valid"
    BY <2>7, <2>8, <2>9, ValidWhen
  <2> QED BY <2>10 DEF class
<1> QED BY <1>1, <1>2

-----------------------------------------------------------------------------
(* What becomes of an answer.                                              *)

\* What is shown of two answers of a command: they are replies, neither is lost
\* or passes for an error when it is converted, and they do not become the same
\* value, but for two empty lists and the keys RANDOMKEY cuts off.
Clear(name, r, s) ==
  /\ r \in Replies /\ r # NoReply
  /\ Converted(name, r) \notin {"unread", "RedisServerException"}
  /\ Converted(name, r) = Converted(name, s) => name \in Lossy \/ r = s \/ BothEmpty(r, s)

LEMMA ClearOfType ==
  ASSUME NEW name, NEW t \in {"+", ":", "$", "*"}, NEW values \in SUBSET Words,
         Answers(name) = R(t, values),
         \A u \in values :
           Converted(name, [t |-> t, v |-> u]) \notin {"unread", "RedisServerException"},
         \A u, w \in values :
           Converted(name, [t |-> t, v |-> u]) = Converted(name, [t |-> t, v |-> w]) =>
             \/ u = w \/ name \in Lossy
             \/ t = "*" /\ u \in {"nil", "empty"} /\ w \in {"nil", "empty"}
  PROVE  \A r, s \in Answers(name) : Clear(name, r, s)
<1> SUFFICES ASSUME NEW r \in R(t, values), NEW s \in R(t, values) PROVE Clear(name, r, s)
  OBVIOUS
<1>1. PICK u \in values : r = [t |-> t, v |-> u]
  BY DEF R
<1>2. PICK w \in values : s = [t |-> t, v |-> w]
  BY DEF R
<1>3. r \in Replies /\ r # NoReply
  BY <1>1 DEF Replies, NoReply
<1>4. ASSUME t = "*", u \in {"nil", "empty"}, w \in {"nil", "empty"} PROVE BothEmpty(r, s)
  BY <1>1, <1>2, <1>4 DEF BothEmpty, R
<1> QED BY <1>1, <1>2, <1>3, <1>4 DEF Clear

\* One step for each case of Answers: what it holds, and what becomes of it.
LEMMA AnswersClear ==
  ASSUME NEW name
  PROVE  \A r, s \in Answers(name) : Clear(name, r, s)
<1>1. CASE name = "PING"
  <2>1. Answers(name) = R("+", {"PONG"}) /\ {"PONG"} \subseteq Words
    BY <1>1 DEF Answers, Words
  <2>2. \A u \in {"PONG"} : Converted(name, [t |-> "+", v |-> u]) = u
    BY <1>1 DEF Converted, Output, Flags, Pairs, Verbatim, KeyedBy
  <2> QED BY <2>1, <2>2, ClearOfType
<1>2. CASE name = "TYPE"
  <2>1. Answers(name) = R("+", {"none", "string", "list"}) /\ {"none", "string", "list"} \subseteq Words
    BY <1>2 DEF Answers, Words
  <2>2. \A u \in {"none", "string", "list"} : Converted(name, [t |-> "+", v |-> u]) = u
    BY <1>2 DEF Converted, Output, Flags, Pairs, Verbatim, KeyedBy
  <2> QED BY <2>1, <2>2, ClearOfType
<1>3. CASE name \in {"BGSAVE", "BGREWRITEAOF"}
  <2>1. Answers(name) = R("+", {"started"}) /\ {"started"} \subseteq Words
    BY <1>3 DEF Answers, Words
  <2>2. \A u \in {"started"} : Converted(name, [t |-> "+", v |-> u]) = "FALSE"
    BY <1>3 DEF Converted, Output, Flags, Pairs, Verbatim, KeyedBy
  <2> QED BY <2>1, <2>2, ClearOfType
<1>4. CASE name \in {"AUTH", "SELECT", "RENAME", "SET", "SETEX", "MSET", "HMSET", "LSET",
            "LTRIM", "DISCARD", "MULTI", "WATCH", "UNWATCH", "FLUSHALL", "FLUSHDB",
            "SAVE", "MONITOR", "SLAVEOF", "CONFIG_SET", "CONFIG_RESETSTAT", "SHUTDOWN"}
  <2>1. Answers(name) = R("+", {"OK"}) /\ {"OK"} \subseteq Words
    BY <1>4 DEF Answers, Words
  <2>2. \A u \in {"OK"} : Converted(name, [t |-> "+", v |-> u]) = "TRUE"
    BY <1>4 DEF Converted, Output, Flags, Pairs, Verbatim, KeyedBy
  <2> QED BY <2>1, <2>2, ClearOfType
<1>5. CASE name = "EXEC"
  <2>1. Answers(name) = R("*", {"nil", "empty", "elements"}) /\ {"nil", "empty", "elements"} \subseteq Words
    BY <1>5 DEF Answers, Words
  <2>2. \A u \in {"nil", "empty", "elements"} :
          Converted(name, [t |-> "*", v |-> u]) = IF u = "elements" THEN u ELSE "NULL"
    BY <1>5 DEF Converted, Output, Flags, Pairs, Verbatim, KeyedBy
  <2> QED BY <2>1, <2>2, ClearOfType
<1>6. CASE name \in {"KEYS", "SORT", "HKEYS", "HVALS", "HMGET", "MGET", "LRANGE", "SDIFF",
            "SINTER", "SUNION", "SMEMBERS", "ZRANGE", "ZREVRANGE", "ZRANGEBYSCORE",
            "ZREVRANGEBYSCORE", "CONFIG_GET", "SLOWLOG"}
  <2>1. Answers(name) = R("*", {"empty", "elements"}) /\ {"empty", "elements"} \subseteq Words
    BY <1>6 DEF Answers, Words
  <2>2. \A u \in {"empty", "elements"} :
          Converted(name, [t |-> "*", v |-> u]) = IF u = "elements" THEN u ELSE "NULL"
    BY <1>6 DEF Converted, Output, Flags, Pairs, Verbatim, KeyedBy
  <2> QED BY <2>1, <2>2, ClearOfType
<1>7. CASE name = "HGETALL"
  <2>1. Answers(name) = R("*", {"empty", "elements"}) /\ {"empty", "elements"} \subseteq Words
    BY <1>7 DEF Answers, Words
  <2>2. \A u \in {"empty", "elements"} :
          Converted(name, [t |-> "*", v |-> u]) = IF u = "elements" THEN "map" ELSE "array()"
    BY <1>7 DEF Converted, Output, Flags, Pairs, Verbatim, KeyedBy
  <2> QED BY <2>1, <2>2, ClearOfType
<1>8. CASE name \in {"BLPOP", "BRPOP"}
  <2>1. Answers(name) = R("*", {"nil", "elements"}) /\ {"nil", "elements"} \subseteq Words
    BY <1>8 DEF Answers, Words
  <2>2. \A u \in {"nil", "elements"} :
          Converted(name, [t |-> "*", v |-> u]) = IF u = "elements" THEN "map" ELSE "NULL"
    BY <1>8 DEF Converted, Output, Flags, Pairs, Verbatim, KeyedBy
  <2> QED BY <2>1, <2>2, ClearOfType
<1>9. CASE name = "RANDOMKEY"
  <2>1. Answers(name) = R("$", {"nil", "user", "user_1"}) /\ {"nil", "user", "user_1"} \subseteq Words
    BY <1>9 DEF Answers, Words
  <2>2. \A u \in {"nil", "user", "user_1"} :
          Converted(name, [t |-> "$", v |-> u]) = IF u = "nil" THEN "NULL" ELSE "user"
    BY <1>9 DEF Converted, Output, Flags, Pairs, Verbatim, KeyedBy, BeforeUnderscore
  <2> QED BY <1>9, <2>1, <2>2, ClearOfType DEF Lossy
<1>10. CASE name \in {"GET", "GETSET", "HGET", "LINDEX", "LPOP", "RPOP", "RPOPLPUSH",
            "BRPOPLPUSH", "SPOP", "SRANDMEMBER", "ZSCORE"}
  <2>1. Answers(name) = R("$", {"nil", "", "text"}) /\ {"nil", "", "text"} \subseteq Words
    BY <1>10 DEF Answers, Words
  <2>2. \A u \in {"nil", "", "text"} :
          Converted(name, [t |-> "$", v |-> u]) = IF u = "nil" THEN "NULL" ELSE u
    BY <1>10 DEF Converted, Output, Flags, Pairs, Verbatim, KeyedBy
  <2>3. \A u, w \in {"nil", "", "text"} :
          (IF u = "nil" THEN "NULL" ELSE u) = (IF w = "nil" THEN "NULL" ELSE w) => u = w
    OBVIOUS
  <2>4. \A u \in {"nil", "", "text"} :
          Converted(name, [t |-> "$", v |-> u]) \notin {"unread", "RedisServerException"}
    BY <2>2
  <2>5. \A u, w \in {"nil", "", "text"} :
          Converted(name, [t |-> "$", v |-> u]) = Converted(name, [t |-> "$", v |-> w]) => u = w
    BY <2>2, <2>3
  <2> DEFINE values == {"nil", "", "text"}
  <2>6. Answers(name) = R("$", values) /\ values \subseteq Words
    BY <2>1
  <2>7. /\ \A u \in values :
              Converted(name, [t |-> "$", v |-> u]) \notin {"unread", "RedisServerException"}
        /\ \A u, w \in values :
              Converted(name, [t |-> "$", v |-> u]) = Converted(name, [t |-> "$", v |-> w]) => u = w
    BY <2>4, <2>5
  <2> HIDE DEF values
  <2> QED BY <2>6, <2>7, ClearOfType
<1>11. CASE name \in {"UNSUBSCRIBE", "PUNSUBSCRIBE"}
  <2>1. Answers(name) = R("*", {"elements"}) /\ {"elements"} \subseteq Words
    BY <1>11 DEF Answers, Words
  <2>2. \A u \in {"elements"} : Converted(name, [t |-> "*", v |-> u]) = u
    BY <1>11 DEF Converted, Output, Flags, Pairs, Verbatim, KeyedBy
  <2> QED BY <2>1, <2>2, ClearOfType
<1>12. CASE name \in {"_ECHO", "INFO", "ZINCRBY"}
  <2>1. Answers(name) = R("$", {"text"}) /\ {"text"} \subseteq Words
    BY <1>12 DEF Answers, Words
  <2>2. \A u \in {"text"} : Converted(name, [t |-> "$", v |-> u]) = u
    BY <1>12 DEF Converted, Output, Flags, Pairs, Verbatim, KeyedBy
  <2> QED BY <2>1, <2>2, ClearOfType
<1>13. CASE name = "DEBUG_OBJECT"
  <2>1. Answers(name) = R("+", {"text"}) /\ {"text"} \subseteq Words
    BY <1>13 DEF Answers, Words
  <2>2. \A u \in {"text"} : Converted(name, [t |-> "+", v |-> u]) = "FALSE"
    BY <1>13 DEF Converted, Output, Flags, Pairs, Verbatim, KeyedBy
  <2> QED BY <2>1, <2>2, ClearOfType
<1>14. CASE name \in {"ZRANK", "ZREVRANK"}
  <2>1. Answers(name) = R(":", {"0", "1"}) \cup R("$", {"nil"})
    BY <1>14 DEF Answers
  <2>2. \A r \in Answers(name) : r \in {[t |-> ":", v |-> "0"], [t |-> ":", v |-> "1"],
                                     [t |-> "$", v |-> "nil"]}
    BY <2>1 DEF R
  <2>3. /\ Converted(name, [t |-> ":", v |-> "0"]) = "0"
        /\ Converted(name, [t |-> ":", v |-> "1"]) = "1"
        /\ Converted(name, [t |-> "$", v |-> "nil"]) = "NULL"
    BY <1>14 DEF Converted, Output, Flags, Pairs, Verbatim, KeyedBy
  <2>4. \A r \in Answers(name) : r \in Replies /\ r # NoReply
    <3>1. "0" \in Words /\ "1" \in Words /\ "nil" \in Words
      BY DEF Words
    <3>2. \A r \in Answers(name) :
            \E t \in {":", "$"}, u \in Words : r = [t |-> t, v |-> u]
      BY <2>2, <3>1
    <3> SUFFICES ASSUME NEW r \in Answers(name) PROVE r \in Replies /\ r # NoReply
      OBVIOUS
    <3>3. PICK t \in {":", "$"}, u \in Words : r = [t |-> t, v |-> u]
      BY <3>2
    <3> QED BY <3>3 DEF Replies, NoReply
  <2>5. \A r \in Answers(name) : Converted(name, r) \notin {"unread", "RedisServerException"}
    BY <2>2, <2>3
  <2>6. \A r, s \in Answers(name) : Converted(name, r) = Converted(name, s) => r = s
    BY <2>2, <2>3
  <2> QED BY <2>4, <2>5, <2>6 DEF Clear
<1>15. CASE Answers(name) = R(":", {"0", "1"}) /\ name \notin Pairs \cup Verbatim \cup Lossy
  <2>w. {"0", "1"} \subseteq Words
    BY DEF Words
  <2>v. name \notin Pairs /\ name \notin Verbatim /\ name # "RANDOMKEY"
    BY <1>15 DEF Lossy
  <2>1. CASE name \in Flags
    <3>1. \A u \in {"0", "1"} : Converted(name, [t |-> ":", v |-> u])
                                = IF u = "1" THEN "TRUE" ELSE "FALSE"
      <4>1. \A u \in {"0", "1"} : Converted(name, [t |-> ":", v |-> u]) = Output(name, u, u)
        BY DEF Converted
      <4>2. \A u \in {"0", "1"} : Output(name, u, u) = IF u = "1" THEN "TRUE" ELSE "FALSE"
        BY <2>1, <2>v DEF Output, Flag
      <4> QED BY <4>1, <4>2
    <3> QED BY <1>15, <3>1, <2>w, ClearOfType
  <2>2. CASE name \notin Flags
    <3>1. \A u \in {"0", "1"} : Converted(name, [t |-> ":", v |-> u]) = u
      <4>1. \A u \in {"0", "1"} : Converted(name, [t |-> ":", v |-> u]) = Output(name, u, u)
        BY DEF Converted
      <4>2. \A u \in {"0", "1"} : Output(name, u, u) = u
        BY <2>2, <2>v DEF Output
      <4> QED BY <4>1, <4>2
    <3> QED BY <1>15, <3>1, <2>w, ClearOfType
  <2> QED BY <2>1, <2>2
<1> QED
  BY <1>1, <1>2, <1>3, <1>4, <1>5, <1>6, <1>7, <1>8, <1>9, <1>10, <1>11, <1>12, <1>13, <1>14,
     <1>15
     DEF Answers, Pairs, Verbatim, Lossy

\* QUEUED is never success and never data, but for the classes that make pairs.
Queued == [t |-> "+", v |-> "QUEUED"]

LEMMA QueuedConverted ==
  ASSUME NEW name
  PROVE  /\ Converted(name, Queued) # "unread"
         /\ name \notin Pairs => Converted(name, Queued) \in {"FALSE", "QUEUED"}
<1>1. Converted(name, Queued) = Output(name, "QUEUED", "FALSE")
  BY DEF Converted, Queued
<1>2. Output(name, "QUEUED", "FALSE") # "unread"
  BY DEF Output, Flag, KeyedBy, BeforeUnderscore, Flags, Pairs, Verbatim
<1>3. name \notin Pairs => Output(name, "QUEUED", "FALSE") \in {"FALSE", "QUEUED"}
  BY DEF Output, Flag, BeforeUnderscore, Flags, Verbatim
<1> QED BY <1>1, <1>2, <1>3

Refused == [t |-> "-", v |-> "ERR"]

\* Whatever the server answers to a command, read() makes something of it.
LEMMA ReadSomething ==
  ASSUME NEW name, NEW r, r \in Answers(name) \/ r = Queued \/ r = Refused
  PROVE  r \in Replies /\ r # NoReply /\ Converted(name, r) # "unread"
<1>1. CASE r \in Answers(name)
  BY <1>1, AnswersClear DEF Clear
<1>2. CASE r = Queued
  BY <1>2, QueuedConverted DEF Queued, Replies, NoReply, Words
<1>3. CASE r = Refused
  BY <1>3 DEF Refused, Replies, NoReply, Words, Converted
<1> QED BY <1>1, <1>2, <1>3

-----------------------------------------------------------------------------
(* The invariant: how the last call ended and what was read for it.        *)

\* A call is thrown out with the verdict of its class, or it is valid and sent,
\* unless the client is not connected.
CallInv ==
  IF call = <<>> THEN outcome = "none"
  ELSE /\ Args \in ArgumentLists
       /\ LET verdict == ValidationOutcome(ClassOf(call[1]), Args)
          IN IF ~HasClass(call[1]) THEN outcome = "CommandNotFoundException"
             ELSE IF verdict # "valid" THEN outcome = verdict
             ELSE outcome \in {"sent", "NotConnectedException"}
       /\ outcome = "sent" => request[1] = CommandWord(call[1])

\* What was read is what read() makes of one of the answers to the command.
ReadInv ==
  reply # NoReply =>
    /\ outcome = "sent" /\ result = Converted(call[1], reply)
    /\ reply \in Answers(call[1]) \/ reply = Queued \/ reply = Refused

IInv == TypeOK /\ CallInv /\ ReadInv

LEMMA InitIInv == Init => IInv
<1> SUFFICES ASSUME Init PROVE IInv
  OBVIOUS
<1>1. TypeOK
  <2>1. calls \in 0..MaxCalls
    BY CallsAssumption DEF Init
  <2>2. connected \in BOOLEAN /\ queueing \in BOOLEAN /\ (queueing => connected)
    BY DEF Init
  <2> QED BY <2>1, <2>2 DEF Init, TypeOK
<1>2. CallInv /\ ReadInv
  BY DEF Init, CallInv, ReadInv
<1> QED BY <1>1, <1>2 DEF IInv

LEMMA CalledWith ==
  ASSUME NEW name, NEW args \in ArgumentLists, call' = <<name>> \o args
  PROVE  call' # <<>> /\ call'[1] = name /\ Args' = args
<1>1. args \in Seq(Values)
  BY CallsAssumption DEF ArgumentLists
<1> QED BY <1>1 DEF Args

LEMMA CallIInv ==
  ASSUME IInv, NEW name, NEW args \in ArgumentLists, calls < MaxCalls, CallMethod(name, args)
  PROVE  IInv'
<1> DEFINE class == ClassOf(name)
           verdict == ValidationOutcome(class, args)
<1>1. call' # <<>> /\ call'[1] = name /\ Args' = args
  BY CalledWith DEF CallMethod
<1>2. \/ ~HasClass(name) /\ outcome' = "CommandNotFoundException" /\ request' = <<>> /\ cache' = cache
      \/ /\ HasClass(name) /\ cache' = cache \cup {name}
         /\ \/ verdict # "valid" /\ outcome' = verdict /\ request' = <<>>
            \/ verdict = "valid" /\ outcome' = "NotConnectedException" /\ request' = <<>>
            \/ /\ verdict = "valid" /\ outcome' = "sent"
               /\ request' = <<CommandWord(name)>> \o Validated(class, args)
  BY DEF CallMethod, Throw
<1>3. /\ <<CommandWord(name)>> \o Validated(class, args) # <<>>
      /\ (<<CommandWord(name)>> \o Validated(class, args))[1] = CommandWord(name)
  <2>1. PICK n \in Nat : args \in [1..n -> Values]
    BY CallsAssumption DEF ArgumentLists
  <2>2. Validated(class, args) \in [1..n -> AllValues]
    BY <2>1, ValuesAssumption DEF Validated, Upper, AllValues, Strings, Options, SmallOptions
  <2>3. Validated(class, args) \in Seq(AllValues)
    BY <2>2
  <2> HIDE DEF verdict, class
  <2> QED BY <2>3
<1>4. HasClass(name) /\ verdict # "valid" => verdict \in ValidationExceptions \cup {"InvalidArgumentException"}
  BY VerdictOf
<1> HIDE DEF verdict, class
<1>5. TypeOK'
  <2>1. \A other \in cache' : HasClass(other)
    BY <1>2 DEF IInv, TypeOK
  <2>2. /\ connected' \in BOOLEAN /\ queueing' \in BOOLEAN /\ (queueing' => connected')
        /\ calls' \in 0..MaxCalls /\ reply' = NoReply /\ result' = "unread"
    BY CallsAssumption DEF CallMethod, IInv, TypeOK
  <2>3. /\ outcome' \in ValidationExceptions \cup
           {"none", "sent", "CommandNotFoundException", "NotConnectedException",
            "InvalidArgumentException"}
        /\ request' # <<>> <=> outcome' = "sent"
    BY <1>2, <1>3, <1>4 DEF ValidationExceptions
  <2> QED BY <2>1, <2>2, <2>3 DEF TypeOK
<1>6. CallInv'
  BY <1>1, <1>2, <1>3, <1>4 DEF CallInv, verdict, class, ValidationExceptions
<1>7. ReadInv'
  BY DEF CallMethod, ReadInv
<1> QED BY <1>5, <1>6, <1>7 DEF IInv

LEMMA ReadIInv ==
  ASSUME IInv, NEW r \in AnswersNow, Read(r)
  PROVE  IInv'
<1>1. /\ outcome = "sent" /\ connected /\ reply' = r /\ result' = Converted(call[1], r)
      /\ UNCHANGED <<cache, connected, call, outcome, request, calls>>
  BY DEF Read, Reading
<1>2. r \in Answers(call[1]) \/ r = Queued \/ r = Refused
  BY DEF AnswersNow, R, Queued, Refused
<1>3. r \in Replies /\ r # NoReply /\ Converted(call[1], r) # "unread"
  BY <1>2, ReadSomething
<1>4. queueing' \in BOOLEAN
  <2>1. queueing \in BOOLEAN
    BY DEF IInv, TypeOK
  <2>2. CASE r.t = "-"
    BY <2>1, <2>2, Zenon DEF Read
  <2>3. CASE r.t # "-" /\ request = <<"MULTI">>
    BY <2>3 DEF Read
  <2>4. CASE r.t # "-" /\ request # <<"MULTI">> /\ request \in {<<"EXEC">>, <<"DISCARD">>}
    BY <2>4, Zenon DEF Read
  <2>5. CASE r.t # "-" /\ request # <<"MULTI">> /\ request \notin {<<"EXEC">>, <<"DISCARD">>}
    BY <2>1, <2>5, Zenon DEF Read
  <2> QED BY <2>2, <2>3, <2>4, <2>5
<1>5. TypeOK'
  BY <1>1, <1>3, <1>4 DEF IInv, TypeOK
<1>6. CallInv'
  BY <1>1 DEF IInv, CallInv, Args
<1>7. ReadInv'
  BY <1>1, <1>2 DEF ReadInv
<1> QED BY <1>5, <1>6, <1>7 DEF IInv

LEMMA NextIInv == IInv /\ [Next]_vars => IInv'
<1> SUFFICES ASSUME IInv, [Next]_vars PROVE IInv'
  OBVIOUS
<1>1. CASE calls < MaxCalls /\ \E name \in Names, args \in ArgumentLists : CallMethod(name, args)
  BY <1>1, CallIInv
<1>2. CASE \E r \in AnswersNow : Read(r)
  BY <1>2, ReadIInv
<1>3. CASE UNCHANGED vars
  BY <1>3 DEF vars, IInv, TypeOK, CallInv, ReadInv, Args
<1> QED BY <1>1, <1>2, <1>3 DEF Next

LEMMA IInvHolds == Spec => []IInv
BY InitIInv, NextIInv, PTL DEF Spec

-----------------------------------------------------------------------------
(* The theorems.                                                           *)

\* TypeOK: every call ends in one of the outcomes __call has, a request is
\* written exactly when the call was sent, only classes are cached, and nothing
\* is read for a call that was not sent.
THEOREM CommandsTypeCorrect == Spec => []TypeOK
<1>1. IInv => TypeOK
  BY DEF IInv
<1> QED BY <1>1, IInvHolds, PTL

\* RejectedIsCatchable, whatever the program calls and with whatever arguments:
\* but for the three classes that check a score with PHP's own
\* InvalidArgumentException (RedisCommand.php:140), all that keeps a call from
\* being sent is a RedisException, and all that validate() throws a
\* ValidationException (the RedisValidationException of README:25 does not exist).
THEOREM RejectedIsCatchableCorrect ==
  Spec => []((call # <<>> /\ call[1] \in Uncatchable) \/ RejectedIsCatchable)
<1>1. IInv => (call # <<>> /\ call[1] \in Uncatchable) \/ RejectedIsCatchable
  <2> SUFFICES ASSUME IInv, ~(call # <<>> /\ call[1] \in Uncatchable)
               PROVE  RejectedIsCatchable
    OBVIOUS
  <2>1. outcome \in ValidationExceptions \cup
          {"none", "sent", "CommandNotFoundException", "NotConnectedException"}
    BY VerdictOf DEF IInv, CallInv
  <2> QED BY <2>1 DEF RejectedIsCatchable, Supertypes
<1> QED BY <1>1, IInvHolds, PTL

\* SentIsDocumented, but for the classes listed in TooLax and the commands of two
\* words in Unknown: whatever else is sent follows the usage line of its class.
THEOREM SentIsDocumentedCorrect ==
  Spec => []((call # <<>> /\ call[1] \in TooLax \cup Unknown) \/ SentIsDocumented)
<1>1. IInv => (call # <<>> /\ call[1] \in TooLax \cup Unknown) \/ SentIsDocumented
  <2> SUFFICES ASSUME IInv, ~(call # <<>> /\ call[1] \in TooLax \cup Unknown),
                      outcome = "sent", Documented(call[1])
               PROVE  request[1] = UsageWord(call[1]) /\ Matches(Args, UsageLine(call[1]), Passable)
    BY DEF SentIsDocumented
  <2>1. call # <<>> /\ Args \in ArgumentLists /\ HasClass(call[1])
    BY DEF IInv, CallInv
  <2>2. ValidationOutcome(ClassOf(call[1]), Args) = "valid"
    BY <2>1, VerdictOf DEF IInv, CallInv, ValidationExceptions
  <2>3. call[1] # "ECHO"
    BY <2>1 DEF HasClass, ClassOf, NoClass, Class, ConnectionCommands, KeyCommands,
         StringCommands, HashesCommands, ListCommands, SetCommands, SortedSetCommands,
         PubSubCommands, TransactionCommands, ServerCommands
  <2>4. Matches(Args, UsageLine(call[1]), Passable)
    BY <2>1, <2>2, <2>3, ValidMatches
  <2>5. request[1] = UsageWord(call[1])
    BY <2>1 DEF IInv, CallInv, CommandWord, UsageWord, Unknown
  <2> QED BY <2>4, <2>5
<1> QED BY <1>1, IInvHolds, PTL

\* DocumentedIsSent, but for the names listed in TooStrict: every other class with
\* a line in UsageLine lets through every call that follows it.
THEOREM DocumentedIsSentCorrect ==
  Spec => []((call # <<>> /\ call[1] \in TooStrict) \/ DocumentedIsSent)
<1>1. IInv => (call # <<>> /\ call[1] \in TooStrict) \/ DocumentedIsSent
  <2> SUFFICES ASSUME IInv, ~(call # <<>> /\ call[1] \in TooStrict), call # <<>>,
                      Documented(call[1]), Matches(Args, UsageLine(call[1]), Plain)
               PROVE  outcome \in {"sent", "NotConnectedException"}
    BY DEF DocumentedIsSent
  <2>1. Args \in ArgumentLists
    BY DEF IInv, CallInv
  <2>2. ValidationOutcome(ClassOf(call[1]), Args) = "valid"
    BY <2>1, MatchesValid
  <2>3. HasClass(call[1])
    BY UsageAndClass DEF Agrees, TooStrict
  <2> QED BY <2>2, <2>3 DEF IInv, CallInv
<1> QED BY <1>1, IInvHolds, PTL

\* QueuedIsNoData for every command but those of Pairs: what read() makes of a
\* QUEUED is FALSE, or the word itself.
THEOREM QueuedIsNoDataCorrect ==
  Spec => []((call # <<>> /\ call[1] \in Pairs) \/ QueuedIsNoData)
<1>1. IInv => (call # <<>> /\ call[1] \in Pairs) \/ QueuedIsNoData
  <2> SUFFICES ASSUME IInv, ~(call # <<>> /\ call[1] \in Pairs), reply = Queued
               PROVE  result \in {"FALSE", "QUEUED"}
    BY DEF QueuedIsNoData, Queued
  <2>1. reply # NoReply
    BY DEF Queued, NoReply
  <2>2. outcome = "sent" /\ result = Converted(call[1], Queued)
    BY <2>1 DEF IInv, ReadInv
  <2>3. call # <<>>
    BY <2>2 DEF IInv, CallInv
  <2> QED BY <2>2, <2>3, QueuedConverted
<1> QED BY <1>1, IInvHolds, PTL

\* AnswersToldApart for every command but RANDOMKEY: what a caller gets tells
\* the answer from every other answer to the command, but for an empty list and
\* a missing one.
THEOREM AnswersToldApartCorrect ==
  Spec => []((call # <<>> /\ call[1] \in Lossy) \/ AnswersToldApart)
<1>1. IInv => (call # <<>> /\ call[1] \in Lossy) \/ AnswersToldApart
  <2> SUFFICES ASSUME IInv, ~(call # <<>> /\ call[1] \in Lossy), result # "unread",
                      reply # Queued, NEW r \in Answers(call[1]), Converted(call[1], r) = result
               PROVE  r = reply \/ BothEmpty(r, reply)
    BY DEF AnswersToldApart, Queued
  <2>1. reply # NoReply
    BY DEF IInv, TypeOK
  <2>2. /\ outcome = "sent" /\ result = Converted(call[1], reply)
        /\ reply \in Answers(call[1]) \/ reply = Refused
    BY <2>1 DEF IInv, ReadInv
  <2>3. call # <<>>
    BY <2>2 DEF IInv, CallInv
  <2>4. \A s \in Answers(call[1]) : Clear(call[1], r, s)
    BY AnswersClear
  <2>5. CASE reply \in Answers(call[1])
    BY <2>2, <2>3, <2>4, <2>5 DEF Clear
  <2>6. CASE reply = Refused
    BY <2>2, <2>4, <2>6 DEF Clear, Converted, Refused
  <2> QED BY <2>2, <2>5, <2>6
<1> QED BY <1>1, IInvHolds, PTL
===============================================================================
