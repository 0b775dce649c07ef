------------------------- MODULE RedisConnectionTypes -------------------------
(***************************************************************************)
(* Type correctness of RedisConnection, for every set of pipelines, batch  *)
(* sizes, command classes, well-formed reply structures and bounds.        *)
(***************************************************************************)
EXTENDS RedisConnection, SequenceTheorems, TLAPS

\* A labelled reply has the lines of its shape, in order.
LEMMA ReplyLines ==
  ASSUME NEW c \in Nat \ {0}, NEW s \in Shapes
  PROVE  /\ s \in Seq(ShapeLine) /\ s # <<>>
         /\ Reply(c, s) \in Seq(Line)
         /\ Len(Reply(c, s)) = Len(s) /\ Len(s) \in Nat \ {0}
         /\ \A i \in 1..Len(s) :
              /\ s[i] \in ShapeLine
              /\ Reply(c, s)[i].of = c
              /\ Reply(c, s)[i].t = s[i].t
              /\ Reply(c, s)[i].n = s[i].n
              /\ Reply(c, s)[i].owed = s[i].owed
PROOF
<1>1. s \in Seq(ShapeLine) /\ s # <<>>
  BY ShapesAssumption DEF WellFormed
<1>2. DOMAIN s = 1..Len(s) /\ Len(s) \in Nat \ {0} /\ \A i \in 1..Len(s) : s[i] \in ShapeLine
  BY <1>1, EmptySeq, LenProperties, ElementOfSeq
<1>3. Reply(c, s) = [i \in 1..Len(s) |-> [of |-> c, t |-> s[i].t, n |-> s[i].n, owed |-> s[i].owed]]
  BY <1>2 DEF Reply
<1>4. \A i \in 1..Len(s) : [of |-> c, t |-> s[i].t, n |-> s[i].n, owed |-> s[i].owed] \in Line
  BY <1>2 DEF ShapeLine, Line
<1>5. Reply(c, s) \in [1..Len(s) -> Line]
  BY <1>3, <1>4
<1>6. Reply(c, s) \in Seq(Line) /\ Len(Reply(c, s)) = Len(s)
  BY <1>2, <1>5, SeqDef, LenProperties
<1>. QED  BY <1>1, <1>2, <1>3, <1>6

-----------------------------------------------------------------------------
(* Type correctness.                                                       *)

LEMMA TypeInit == Init => TypeOK
PROOF
<1>. SUFFICES ASSUME Init PROVE TypeOK
  OBVIOUS
<1>1. ConnType  BY DEF Init, ConnType
<1>2. WireType  BY DEF Init, WireType
<1>3. PipeType  BY DEF Init, PipeType
<1>4. ReadType  BY DEF Init, ReadType, NoResult, Outcomes
<1>5. HistType  BY DEF Init, HistType
<1>. QED  BY <1>1, <1>2, <1>3, <1>4, <1>5 DEF TypeOK

LEMMA TypeOpenClose ==
  ASSUME TypeOK, Open \/ OpenFails \/ Close \/ Quit
  PROVE  TypeOK'
PROOF
<1>. USE DEF TypeOK, ConnType, WireType, PipeType, ReadType, HistType
<1>1. CASE Open
  BY <1>1 DEF Open, NoResult, Outcomes, wireVars, pipeVars
<1>2. CASE OpenFails
  BY <1>2 DEF OpenFails, wireVars, pipeVars, readVars, histVars
<1>3. CASE Close
  <2>1. ConnType'  BY <1>3 DEF Close, Hangup
  <2>2. WireType'  BY <1>3 DEF Close, Hangup
  <2>3. PipeType' /\ ReadType' /\ HistType'
    BY <1>3 DEF Close, pipeVars, readVars, histVars
  <2>. QED  BY <2>1, <2>2, <2>3
<1>4. CASE Quit
  <2>1. NextCall("direct", "quit") \in Call
    BY DEF NextCall, Call, Via, AllClasses
  <2>2. ConnType'  BY <1>4 DEF Quit, Hangup
  <2>3. WireType'  BY <1>4 DEF Quit, Hangup
  <2>4. PipeType' /\ ReadType'  BY <1>4 DEF Quit, pipeVars, readVars
  <2>5. HistType'  BY <1>4, <2>1 DEF Quit
  <2>. QED  BY <2>2, <2>3, <2>4, <2>5
<1>. QED  BY <1>1, <1>2, <1>3, <1>4

\* Writing a batch keeps the queues of calls well typed.
LEMMA TypeWrite ==
  ASSUME TypeOK, NEW batch \in Seq(Call), Write(batch)
  PROVE  toServer' \in Seq(Call) /\ sent' \in Seq(Call) /\ dropped' \subseteq Nat
PROOF
<1>1. DOMAIN batch = 1..Len(batch) /\ \A i \in 1..Len(batch) : batch[i] \in Call
  BY ElementOfSeq, LenProperties
<1>2. {batch[i].id : i \in DOMAIN batch} \subseteq Nat
  BY <1>1 DEF Call
<1>3. dropped' \subseteq Nat
  BY <1>2 DEF TypeOK, HistType, Write
<1>4. toServer' \in Seq(Call) /\ sent' \in Seq(Call)
  BY DEF TypeOK, HistType, WireType, Write
<1>. QED  BY <1>3, <1>4

LEMMA TypeSend ==
  ASSUME TypeOK, NEW class \in Classes, Send(class)
  PROVE  TypeOK'
PROOF
<1>1. NextCall("direct", class) \in Call
  BY ClassesAssumption DEF TypeOK, HistType, NextCall, Call, Via
<1>2. <<NextCall("direct", class)>> \in Seq(Call)
  BY <1>1
<1>3. toServer' \in Seq(Call) /\ sent' \in Seq(Call) /\ dropped' \subseteq Nat
  BY <1>2, TypeWrite DEF Send
<1>4. ConnType' /\ PipeType'
  BY DEF TypeOK, ConnType, PipeType, Send, connVars, pipeVars
<1>5. WireType' /\ HistType'
  BY <1>3 DEF TypeOK, WireType, HistType, Send
<1>6. ReadType'
  <2>1. calls \in Nat /\ ReadType
    BY DEF TypeOK, HistType
  <2>2. reading' \in Nat /\ owed' \in Nat
    BY <2>1 DEF Send
  <2>3. inBody' \in BOOLEAN /\ stray' = stray /\ got' = {} /\ result' = result
    BY DEF Send
  <2>. QED  BY <2>1, <2>2, <2>3 DEF ReadType
<1>. QED  BY <1>4, <1>5, <1>6 DEF TypeOK

LEMMA TypeReturn ==
  ASSUME TypeOK, NEW o \in Outcomes, NEW g \in SUBSET (Nat \cup Marks), Return(o, g)
  PROVE  ReadType'
PROOF
  BY DEF TypeOK, ReadType, Return

LEMMA TypeContinue ==
  ASSUME TypeOK, NEW left \in Nat, NEW g \in SUBSET (Nat \cup Marks), Continue(left, g)
  PROVE  ReadType'
PROOF
<1>1. CASE left = 0
  <2>1. "value" \in Outcomes /\ Return("value", g)
    BY <1>1 DEF Continue, Outcomes
  <2>. QED  BY <2>1, TypeReturn
<1>2. CASE left # 0
  BY <1>2 DEF TypeOK, ReadType, Continue
<1>. QED  BY <1>1, <1>2

\* The first line is a line, and the rest is a sequence of lines.
LEMMA FirstLine ==
  ASSUME TypeOK, toClient # <<>>
  PROVE  /\ Head(toClient) \in Line /\ Head(toClient) = toClient[1]
         /\ Tail(toClient) \in Seq(Line) /\ Len(Tail(toClient)) = Len(toClient) - 1
         /\ Len(toClient) \in Nat \ {0}
         /\ \A i \in 1..(Len(toClient) - 1) : Tail(toClient)[i] = toClient[i + 1]
         /\ \A i \in 1..Len(toClient) : toClient[i] \in Line
PROOF
<1>1. toClient \in Seq(Line)
  BY DEF TypeOK, WireType
<1>. QED  BY <1>1, HeadTailProperties, EmptySeq, LenProperties, ElementOfSeq

LEMMA ElementsNat ==
  ASSUME NEW l \in Line
  PROVE  Elements(l) \in Nat
PROOF
  BY DEF Line, Elements

\* What the switch sees is a line of the same call; a line that is no text is
\* seen as it is.
LEMMA SeenLine ==
  ASSUME NEW a \in Line, NEW l \in Seen(a)
  PROVE  l \in Line /\ l.of = a.of /\ l.owed = a.owed /\ (a.t # "text" => l = a)
PROOF
<1>1. CASE a.t # "text"
  BY <1>1 DEF Seen
<1>2. CASE a.t = "text"
  <2>1. PICK h \in TextHeads : l = [a EXCEPT !.t = h.t, !.n = h.n]
    BY <1>2 DEF Seen
  <2>2. h.t \in Types /\ h.n \in Int
    BY TextAssumption
  <2>. QED  BY <1>2, <2>1, <2>2 DEF Line
<1>. QED  BY <1>1, <1>2

\* What is left of a line closes or continues its reply as the line did.
LEMMA RestLine ==
  ASSUME NEW a \in Line
  PROVE  /\ Rest(a) \in Line /\ Rest(a).of = a.of /\ Rest(a).t = "text"
         /\ Rest(a).owed = a.owed + Elements(a)
         /\ ~BulkHead(Rest(a)) /\ Elements(Rest(a)) = 0
PROOF
<1>. DEFINE k == a.owed + Elements(a)
            b == [of |-> a.of, t |-> "text", n |-> 0, owed |-> k]
<1>1. k \in Nat \ {0}
  BY ElementsNat DEF Line
<1>2. Rest(a) = b
  BY DEF Rest
<1>. HIDE DEF k
<1>3. b \in Line
  BY <1>1 DEF Line, Types
<1>4. ~BulkHead(b) /\ Elements(b) = 0
  BY DEF BulkHead, Elements
<1>. QED  BY <1>2, <1>3, <1>4 DEF k

LEMMA TypeRead ==
  ASSUME TypeOK, ReaderInv, Read
  PROVE  TypeOK'
PROOF
<1>1. reading # 0 /\ owed \in Nat \ {0} /\ owed - 1 \in Nat
  BY DEF TypeOK, ReadType, ReaderInv, Read, ReadHeader, ReadBody, ReadEOF, ReadTimeout
<1>2. CASE ReadHeader
  <2>. DEFINE a == Head(toClient)
  <2>1. toClient # <<>> /\ a \in Line /\ Tail(toClient) \in Seq(Line)
    BY <1>2, FirstLine DEF ReadHeader
  <2>2. PICK l \in Seen(a), g \in SUBSET (Nat \cup Marks) :
          \/ \E o \in {"RedisServerException", "RuntimeException"} : Return(o, g)
          \/ inBody' = TRUE /\ stray' \in BOOLEAN /\ got' = g /\ UNCHANGED <<reading, owed, result>>
          \/ Continue(owed - 1 + Elements(l), g)
    <3>1. PICK l \in Seen(a) :
            LET text == a.t = "text"
                g == got \cup {l.of} \cup (IF text /\ Opens(l) THEN {Strayed} ELSE {})
            IN \/ \E o \in {"RedisServerException", "RuntimeException"} : Return(o, g)
               \/ inBody' = TRUE /\ stray' = text /\ got' = g /\ UNCHANGED <<reading, owed, result>>
               \/ Continue(owed - 1 + Elements(l), g)
      BY <1>2 DEF ReadHeader, Loop
    <3>. DEFINE g == got \cup {l.of} \cup (IF a.t = "text" /\ Opens(l) THEN {Strayed} ELSE {})
    <3>2. l.of \in Nat
      BY <2>1, SeenLine DEF Line
    <3>3. g \in SUBSET (Nat \cup Marks)
      BY <3>2 DEF TypeOK, ReadType, Marks
    <3>4. (a.t = "text") \in BOOLEAN
      OBVIOUS
    <3>. HIDE DEF a
    <3>5. \/ \E o \in {"RedisServerException", "RuntimeException"} : Return(o, g)
          \/ inBody' = TRUE /\ stray' \in BOOLEAN /\ got' = g /\ UNCHANGED <<reading, owed, result>>
          \/ Continue(owed - 1 + Elements(l), g)
      BY <3>1, <3>4
    <3>. HIDE DEF g
    <3>. QED  BY <3>3, <3>5
  <2>3. owed - 1 + Elements(l) \in Nat
    BY <1>1, <2>1, SeenLine, ElementsNat
  <2>4. {"RedisServerException", "RuntimeException"} \subseteq Outcomes
    BY DEF Outcomes
  <2>5. (inBody' = TRUE /\ stray' \in BOOLEAN /\ got' = g /\ UNCHANGED <<reading, owed, result>>) => ReadType'
    BY DEF TypeOK, ReadType
  <2>6. ReadType'
    BY <2>2, <2>3, <2>4, <2>5, TypeReturn, TypeContinue
  <2>7. ConnType' /\ PipeType' /\ HistType'
    BY <1>2 DEF TypeOK, ConnType, PipeType, HistType, ReadHeader, connVars, pipeVars, histVars
  <2>8. WireType'
    BY <1>2, <2>1 DEF TypeOK, WireType, ReadHeader
  <2>. QED  BY <2>6, <2>7, <2>8 DEF TypeOK
<1>3. CASE ReadBody
  <2>1. toClient # <<>> /\ Head(toClient) \in Line /\ Tail(toClient) \in Seq(Line)
    BY <1>3, FirstLine DEF ReadBody
  <2>2. got \cup {Head(toClient).of} \in SUBSET (Nat \cup Marks)
    BY <2>1 DEF TypeOK, ReadType, Line
  <2>3. ReadType'
    BY <1>1, <1>3, <2>2, TypeContinue DEF ReadBody
  <2>4. ConnType' /\ PipeType' /\ HistType'
    BY <1>3 DEF TypeOK, ConnType, PipeType, HistType, ReadBody, connVars, pipeVars, histVars
  <2>5. toClient' \in Seq(Line)
    <3>. DEFINE rest == Rest(Head(toClient))
    <3>1. rest \in Line
      BY <2>1, RestLine
    <3>2. toClient' = Tail(toClient) \/ toClient' = <<rest>> \o Tail(toClient)
      BY <1>3 DEF ReadBody
    <3>. HIDE DEF rest
    <3>. HIDE DEF rest
    <3>3. <<rest>> \in Seq(Line)
      BY <3>1
    <3>. DEFINE new == <<rest>>
    <3>. HIDE DEF new
    <3>4. new \o Tail(toClient) \in Seq(Line)
      BY <2>1, <3>3, ConcatProperties DEF new
    <3>. QED  BY <2>1, <3>2, <3>4 DEF new
  <2>6. WireType'
    BY <1>3, <2>5 DEF TypeOK, WireType, ReadBody
  <2>. QED  BY <2>3, <2>4, <2>6 DEF TypeOK
<1>4. CASE ReadEOF \/ ReadTimeout
  <2>1. FgetsFails /\ causes' \subseteq AllCauses
    BY <1>4 DEF TypeOK, HistType, AllCauses, ReadEOF, ReadTimeout
  <2>2. /\ got \in SUBSET (Nat \cup Marks) /\ got \cup {0} \in SUBSET (Nat \cup Marks)
        /\ "RuntimeException" \in Outcomes
    BY DEF TypeOK, ReadType, Outcomes, Marks
  <2>3. Continue(owed - 1, got \cup {0}) \/ Return("RuntimeException", got)
    BY <2>1 DEF FgetsFails
  <2>4. ReadType'
    BY <1>1, <2>2, <2>3, TypeReturn, TypeContinue
  <2>5. ConnType' /\ WireType' /\ PipeType' /\ HistType'
    BY <2>1 DEF TypeOK, ConnType, WireType, PipeType, HistType, FgetsFails, connVars, wireVars, pipeVars
  <2>. QED  BY <2>4, <2>5 DEF TypeOK
<1>. QED  BY <1>2, <1>3, <1>4 DEF Read

LEMMA TypePipeline ==
  ASSUME TypeOK, NEW p \in Pipelines,
         Flush(p) \/ \E class \in Classes : PipelineSend(p, class)
  PROVE  TypeOK'
PROOF
<1>1. pipeline[p] \in Seq(Call) /\ pipeline_count[p] \in Nat
  BY DEF TypeOK, PipeType
<1>2. ASSUME NEW batch \in Seq(Call), WriteBatch(p, batch)
      PROVE  /\ toServer' \in Seq(Call) /\ sent' \in Seq(Call) /\ dropped' \subseteq Nat
             /\ PipeType' /\ causes' \subseteq AllCauses
  <2>1. toServer' \in Seq(Call) /\ sent' \in Seq(Call) /\ dropped' \subseteq Nat
    BY <1>2, TypeWrite DEF WriteBatch
  <2>2. PipeType'
    BY <1>2 DEF TypeOK, PipeType, WriteBatch
  <2>3. causes' \subseteq AllCauses
    BY <1>2 DEF TypeOK, HistType, AllCauses, WriteBatch
  <2>. QED  BY <2>1, <2>2, <2>3
<1>3. CASE Flush(p)
  <2>1. WriteBatch(p, pipeline[p])
    BY <1>3 DEF Flush
  <2>2. ConnType' /\ ReadType' /\ WireType' /\ HistType'
    BY <1>1, <1>2, <1>3, <2>1 DEF TypeOK, ConnType, ReadType, WireType, HistType, Flush, connVars, readVars
  <2>. QED  BY <1>1, <1>2, <2>1, <2>2 DEF TypeOK
<1>4. ASSUME NEW class \in Classes, PipelineSend(p, class)
      PROVE  TypeOK'
  <2>. DEFINE batch == Append(pipeline[p], NextCall(p, class))
  <2>1. NextCall(p, class) \in Call
    BY ClassesAssumption DEF TypeOK, HistType, NextCall, Call, Via
  <2>2. batch \in Seq(Call)
    BY <1>1, <2>1
  <2>3. \/ WriteBatch(p, batch)
        \/ /\ pipeline' = [pipeline EXCEPT ![p] = batch]
           /\ pipeline_count' = [pipeline_count EXCEPT ![p] = @ + 1]
           /\ UNCHANGED <<toServer, sent, dropped, causes>>
    BY <1>4 DEF PipelineSend
  <2>4. ASSUME pipeline' = [pipeline EXCEPT ![p] = batch],
               pipeline_count' = [pipeline_count EXCEPT ![p] = @ + 1]
        PROVE  PipeType'
    <3>. HIDE DEF batch
    <3>. QED  BY <1>1, <2>2, <2>4 DEF TypeOK, PipeType
  <2>5. /\ toServer' \in Seq(Call) /\ sent' \in Seq(Call) /\ dropped' \subseteq Nat
        /\ PipeType' /\ causes' \subseteq AllCauses
    <3>1. CASE WriteBatch(p, batch)
      BY <1>2, <2>2, <3>1
    <3>2. CASE ~WriteBatch(p, batch)
      BY <2>3, <2>4, <3>2 DEF TypeOK, WireType, HistType
    <3>. QED  BY <3>1, <3>2
  <2>6. ConnType' /\ ReadType' /\ WireType' /\ HistType'
    BY <1>4, <2>5 DEF TypeOK, ConnType, ReadType, WireType, HistType, PipelineSend, connVars, readVars
  <2>. QED  BY <2>5, <2>6 DEF TypeOK
<1>. QED  BY <1>3, <1>4

\* A queue of calls that is not empty has a first one.
LEMMA FirstCall ==
  ASSUME TypeOK, toServer # <<>>
  PROVE  /\ Head(toServer) \in Call /\ Head(toServer) = toServer[1]
         /\ Tail(toServer) \in Seq(Call) /\ Len(Tail(toServer)) = Len(toServer) - 1
         /\ Len(toServer) \in Nat \ {0}
PROOF
<1>1. toServer \in Seq(Call)
  BY DEF TypeOK, WireType
<1>. QED  BY <1>1, HeadTailProperties, EmptySeq, LenProperties, ElementOfSeq

LEMMA StatusLineType ==
  ASSUME NEW c \in Nat \ {0}
  PROVE  StatusLine(c) \in Line
PROOF
  BY DEF StatusLine, Line, Types

LEMMA TypeServer ==
  ASSUME TypeOK, Server
  PROVE  TypeOK'
PROOF
<1>1. CASE Serve
  <2>1. toServer # <<>>
    BY <1>1 DEF Serve
  <2>2. PICK s \in Shapes : toClient' = toClient \o Reply(Head(toServer).id, s)
    BY <1>1 DEF Serve
  <2>3. Reply(Head(toServer).id, s) \in Seq(Line)
    BY <2>1, FirstCall, ReplyLines DEF Call
  <2>4. WireType'
    <3>1. toClient' \in Seq(Line)
      BY <2>2, <2>3 DEF TypeOK, WireType
    <3>2. toServer' \in Seq(Call) /\ monitoring' \in Nat
      BY <1>1, <2>1, FirstCall DEF TypeOK, WireType, Serve
    <3>. QED  BY <3>1, <3>2 DEF WireType
  <2>5. causes' \subseteq AllCauses
    BY <1>1 DEF TypeOK, HistType, AllCauses, Serve
  <2>6. ConnType' /\ PipeType' /\ ReadType' /\ HistType'
    BY <1>1, <2>5 DEF TypeOK, ConnType, PipeType, ReadType, HistType, Serve, connVars, pipeVars, readVars
  <2>. QED  BY <2>4, <2>6 DEF TypeOK
<1>2. CASE ServeMonitor
  <2>1. toServer # <<>>
    BY <1>2 DEF ServeMonitor
  <2>. DEFINE c == Head(toServer).id
  <2>2. c \in Nat \ {0} /\ Tail(toServer) \in Seq(Call)
    BY <2>1, FirstCall DEF Call
  <2>3. WireType'
    <3>1. StatusLine(c) \in Line
      BY <2>2, StatusLineType
    <3>2. toClient' = Append(toClient, StatusLine(c)) /\ toServer' = Tail(toServer) /\ monitoring' = c
      BY <1>2 DEF ServeMonitor
    <3>3. toClient \in Seq(Line)
      BY DEF TypeOK, WireType
    <3>. HIDE DEF c
    <3>4. toClient' \in Seq(Line)
      BY <3>1, <3>2, <3>3
    <3>. QED  BY <2>2, <3>2, <3>4 DEF WireType
  <2>4. ConnType' /\ PipeType' /\ ReadType' /\ HistType'
    BY <1>2 DEF TypeOK, ConnType, PipeType, ReadType, HistType, AllCauses, ServeMonitor, connVars, pipeVars, readVars
  <2>. QED  BY <2>3, <2>4 DEF TypeOK
<1>3. CASE ServeLast
  <2>1. toServer # <<>>
    BY <1>3 DEF ServeLast
  <2>2. toClient' \in Seq(Line)
    BY <1>3, <2>1, FirstCall, StatusLineType DEF TypeOK, WireType, Call, ServeLast
  <2>3. WireType'
    BY <1>3, <2>2 DEF WireType, ServeLast, Hangup
  <2>4. ConnType'
    BY <1>3 DEF TypeOK, ConnType, ServeLast, Hangup
  <2>5. PipeType' /\ ReadType' /\ HistType'
    BY <1>3 DEF TypeOK, PipeType, ReadType, HistType, ServeLast, pipeVars, readVars, histVars
  <2>. QED  BY <2>3, <2>4, <2>5 DEF TypeOK
<1>4. CASE MonitorLine
  <2>1. WireType'
    BY <1>4, StatusLineType DEF TypeOK, WireType, MonitorLine
  <2>2. ConnType' /\ PipeType' /\ ReadType' /\ HistType'
    BY <1>4 DEF TypeOK, ConnType, PipeType, ReadType, HistType, MonitorLine, connVars, pipeVars, readVars, histVars
  <2>. QED  BY <2>1, <2>2 DEF TypeOK
<1>5. CASE Drop
  <2>1. toClient' \in Seq(Line)
    BY <1>5, SubSeqProperties DEF TypeOK, WireType, Drop
  <2>2. WireType'  BY <1>5, <2>1 DEF WireType, Drop, Hangup
  <2>3. ConnType'  BY <1>5 DEF TypeOK, ConnType, Drop, Hangup
  <2>4. PipeType' /\ ReadType' /\ HistType'
    BY <1>5 DEF TypeOK, PipeType, ReadType, HistType, AllCauses, Drop, pipeVars, readVars
  <2>. QED  BY <2>2, <2>3, <2>4 DEF TypeOK
<1>. QED  BY <1>1, <1>2, <1>3, <1>4, <1>5 DEF Server

LEMMA TypeNext == TypeOK /\ ReaderInv /\ [Next]_vars => TypeOK'
PROOF
<1>. SUFFICES ASSUME TypeOK, ReaderInv, [Next]_vars
              PROVE  TypeOK'
  OBVIOUS
<1>1. CASE Open \/ OpenFails \/ Close \/ Quit
  BY <1>1, TypeOpenClose
<1>2. CASE Read
  BY <1>2, TypeRead
<1>3. CASE \E class \in Classes : Send(class)
  BY <1>3, TypeSend
<1>4. CASE \E p \in Pipelines : Flush(p) \/ \E class \in Classes : PipelineSend(p, class)
  BY <1>4, TypePipeline
<1>5. CASE Server
  BY <1>5, TypeServer
<1>6. CASE UNCHANGED vars
  BY <1>6 DEF TypeOK, ConnType, WireType, PipeType, ReadType, HistType,
              vars, connVars, wireVars, pipeVars, readVars, histVars
<1>. QED  BY <1>1, <1>2, <1>3, <1>4, <1>5, <1>6 DEF Next, Client
=============================================================================
