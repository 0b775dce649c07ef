-------------------------- MODULE MCRedisConnection --------------------------
(* Instances of RedisConnection for TLC: reply shapes, pipelines and bounds. *)
EXTENDS RedisConnection

H(t, n, k) == [t |-> t, n |-> n, owed |-> k]

Status == <<H("+", 0, 1)>>                          \* +OK
ErrorReply == <<H("-", 0, 1)>>                      \* -ERR ...
Missing == <<H("$", -1, 1)>>                        \* GET of a missing key
Bulk == <<H("$", 1, 1), H("text", 0, 1)>>           \* GET
TwoLines == Append(Bulk, H("text", 0, 1))           \* GET of a value with \n
NoElements == <<H("*", -1, 1)>>                     \* EXEC after a WATCH failed
TwoBulks == <<H("*", 2, 1), H("$", 1, 2), H("text", 0, 2),
                             H("$", 1, 1), H("text", 0, 1)>>   \* LRANGE
ExecOK == <<H("*", 2, 1), H("+", 0, 2), H("+", 0, 1)>>
ExecError == <<H("*", 2, 1), H("-", 0, 2), H("+", 0, 1)>>     \* EXEC, 1st fails
ExecNested == <<H("*", 2, 1), H("*", 1, 2), H(":", 0, 2), H("$", -1, 1)>>

CleanShapes == {Status, ErrorReply, Missing, Bulk, NoElements, TwoBulks, ExecOK, ExecNested}
AllShapes == {Status, ErrorReply, Bulk, TwoLines, NoElements, TwoBulks, ExecError}

OnePipeline == [p \in Pipelines |-> 2]
\* Two pipelines, one that sends every second call and one that only flushes.
TwoPipelines == [p \in Pipelines |-> IF p = "p1" THEN 2 ELSE 0]
NoPipelines == [p \in Pipelines |-> 0]

\* What the first character of a text and the number behind it may be: a status,
\* nothing that is known, and heads of replies that go on.
H2(t, n) == [t |-> t, n |-> n]
AnyHead == {H2("+", 0), H2("text", 0), H2("$", 1), H2("*", 1)}
=============================================================================
