---------------------------- MODULE PipelineProofs ----------------------------
(***************************************************************************)
(* What becomes of a pipelined call: BatchBound, EveryCallOnce and         *)
(* SendOrder are invariants of RedisConnection and SkewIsPermanent is a    *)
(* property of its steps, for any set of pipelines, any batch sizes and    *)
(* any number of calls.                                                    *)
(*                                                                         *)
(* A step of the client moves calls between three places: the buffers, the *)
(* socket and, behind a closed socket, nowhere.  The proofs are about such *)
(* a move (Delivered) and not about each action.                           *)
(***************************************************************************)
EXTENDS RedisConnectionProofs

Ids(q) == {q[i].id : i \in DOMAIN q}

\* A batch that was written is on the wire, or lost behind a closed socket.
Delivered(batch) ==
  \/ sent' = sent \o batch /\ dropped' = dropped
  \/ sent' = sent /\ dropped' = dropped \cup Ids(batch)

\* One way a step may change the places where calls are.
Rests == UNCHANGED <<calls, sent, dropped, pipeline, pipeline_count>>

SentAtOnce ==
  /\ calls' = calls + 1 /\ UNCHANGED pipeVars
  /\ \E class \in Classes : Delivered(<<NextCall("direct", class)>>)

Buffers(p) ==
  /\ calls' = calls + 1 /\ UNCHANGED <<sent, dropped>>
  /\ pipeline_count[p] + 1 # pipeline_amount[p]
  /\ \E class \in Classes :
       pipeline' = [pipeline EXCEPT ![p] = Append(@, NextCall(p, class))]
  /\ pipeline_count' = [pipeline_count EXCEPT ![p] = @ + 1]

Empties(p, batch) ==
  /\ Delivered(batch)
  /\ pipeline' = [pipeline EXCEPT ![p] = <<>>]
  /\ pipeline_count' = [pipeline_count EXCEPT ![p] = 0]

Fills(p) ==
  /\ calls' = calls + 1
  /\ \E class \in Classes : Empties(p, Append(pipeline[p], NextCall(p, class)))

Flushes(p) == calls' = calls /\ Empties(p, pipeline[p])

Moves ==
  \/ Rests \/ SentAtOnce
  \/ \E p \in Pipelines : Buffers(p) \/ Fills(p) \/ Flushes(p)

LEMMA WriteDelivers ==
  ASSUME NEW batch, Write(batch)
  PROVE  Delivered(batch)
PROOF
  BY DEF Write, Delivered, Ids

LEMMA StepMoves ==
  ASSUME TypeOK, [Next]_vars
  PROVE  Moves
PROOF
<1>1. CASE Open \/ OpenFails \/ Close
  BY <1>1 DEF Moves, Rests, Open, OpenFails, Close, pipeVars, histVars
<1>2. CASE Quit
  <2>1. sent' = sent \o <<NextCall("direct", "quit")>> /\ dropped' = dropped
    <3>1. NextCall("direct", "quit") \in Call
      BY DEF TypeOK, HistType, NextCall, Call, Via, AllClasses
    <3>2. sent \in Seq(Call) /\ sent' = Append(sent, NextCall("direct", "quit")) /\ dropped' = dropped
      BY <1>2 DEF TypeOK, HistType, Quit
    <3>. QED  BY <3>1, <3>2, AppendIsConcat
  <2>2. "quit" \in Classes /\ calls' = calls + 1 /\ UNCHANGED pipeVars
    BY <1>2 DEF Quit, pipeVars
  <2>. QED  BY <2>1, <2>2 DEF Moves, SentAtOnce, Delivered
<1>3. CASE Read
  BY <1>3 DEF Moves, Rests, Read, ReadHeader, ReadBody, ReadEOF, ReadTimeout, FgetsFails, pipeVars, histVars
<1>4. ASSUME NEW class \in Classes, Send(class)
      PROVE  Moves
  BY <1>4, WriteDelivers DEF Moves, SentAtOnce, Send
<1>5. ASSUME NEW p \in Pipelines, Flush(p)
      PROVE  Moves
  BY <1>5, WriteDelivers DEF Moves, Flushes, Empties, Flush, WriteBatch
<1>6. ASSUME NEW p \in Pipelines, NEW class \in Classes, PipelineSend(p, class)
      PROVE  Moves
  <2>. DEFINE batch == Append(pipeline[p], NextCall(p, class))
  <2>1. CASE pipeline_count[p] + 1 = pipeline_amount[p]
    <3>1. calls' = calls + 1 /\ WriteBatch(p, batch)
      BY <1>6, <2>1 DEF PipelineSend
    <3>. QED  BY <3>1, WriteDelivers DEF Moves, Fills, Empties, WriteBatch
  <2>2. CASE pipeline_count[p] + 1 # pipeline_amount[p]
    <3>1. /\ calls' = calls + 1 /\ UNCHANGED <<sent, dropped>>
          /\ pipeline' = [pipeline EXCEPT ![p] = batch]
          /\ pipeline_count' = [pipeline_count EXCEPT ![p] = @ + 1]
      BY <1>6, <2>2 DEF PipelineSend
    <3>. QED  BY <2>2, <3>1 DEF Moves, Buffers
  <2>. QED  BY <2>1, <2>2
<1>7. CASE Server
  BY <1>7 DEF Moves, Rests, Server, Serve, ServeMonitor, ServeLast, MonitorLine, Drop, pipeVars, histVars
<1>8. CASE UNCHANGED vars
  BY <1>8 DEF Moves, Rests, vars, pipeVars, histVars
<1>. QED  BY <1>1, <1>2, <1>3, <1>4, <1>5, <1>6, <1>7, <1>8 DEF Next, Client

-----------------------------------------------------------------------------
(* The counter of a pipeline.                                              *)

LEMMA BatchBoundNext == TypeOK /\ BatchBound /\ Moves => BatchBound'
PROOF
<1>. SUFFICES ASSUME TypeOK, BatchBound, Moves, NEW q \in Pipelines
              PROVE  /\ pipeline_count'[q] = Len(pipeline'[q])
                     /\ pipeline_amount[q] > 0 => pipeline_count'[q] < pipeline_amount[q]
  BY DEF BatchBound
<1>1. /\ pipeline \in [Pipelines -> Seq(Call)] /\ pipeline_count \in [Pipelines -> Nat]
      /\ pipeline[q] \in Seq(Call) /\ pipeline_count[q] \in Nat /\ pipeline_amount[q] \in Int
      /\ pipeline_count[q] = Len(pipeline[q])
      /\ pipeline_amount[q] > 0 => pipeline_count[q] < pipeline_amount[q]
  BY AmountAssumption DEF TypeOK, PipeType, BatchBound
<1>2. CASE UNCHANGED pipeVars
  BY <1>1, <1>2 DEF pipeVars
<1>3. ASSUME NEW p \in Pipelines, pipeline' = [pipeline EXCEPT ![p] = <<>>],
             pipeline_count' = [pipeline_count EXCEPT ![p] = 0]
      PROVE  /\ pipeline_count'[q] = Len(pipeline'[q])
             /\ pipeline_amount[q] > 0 => pipeline_count'[q] < pipeline_amount[q]
  <2>1. CASE q = p
    BY <1>1, <1>3, <2>1
  <2>2. CASE q # p
    BY <1>1, <1>3, <2>2
  <2>. QED  BY <2>1, <2>2
<1>4. ASSUME NEW p \in Pipelines, Buffers(p)
      PROVE  /\ pipeline_count'[q] = Len(pipeline'[q])
             /\ pipeline_amount[q] > 0 => pipeline_count'[q] < pipeline_amount[q]
  <2>1. PICK class \in Classes : pipeline' = [pipeline EXCEPT ![p] = Append(@, NextCall(p, class))]
    BY <1>4 DEF Buffers
  <2>2. CASE q = p
    <3>1. pipeline'[q] = Append(pipeline[q], NextCall(p, class)) /\ pipeline_count'[q] = pipeline_count[q] + 1
      BY <1>1, <1>4, <2>1, <2>2 DEF Buffers
    <3>2. NextCall(p, class) \in Call
      BY ClassesAssumption DEF TypeOK, HistType, NextCall, Call, Via
    <3>3. Len(pipeline'[q]) = Len(pipeline[q]) + 1
      BY <1>1, <3>1, <3>2, AppendProperties
    <3>4. pipeline_count[q] + 1 # pipeline_amount[q]
      BY <1>4, <2>2 DEF Buffers
    <3>. QED  BY <1>1, <3>1, <3>3, <3>4
  <2>3. CASE q # p
    BY <1>1, <1>4, <2>1, <2>3 DEF Buffers
  <2>. QED  BY <2>2, <2>3
<1>. QED  BY <1>2, <1>3, <1>4 DEF Moves, Rests, SentAtOnce, Fills, Flushes, Empties, pipeVars

-----------------------------------------------------------------------------
(* No call is lost or doubled.                                             *)

LEMMA IdsConcat ==
  ASSUME NEW q \in Seq(Call), NEW r \in Seq(Call)
  PROVE  Ids(q \o r) = Ids(q) \cup Ids(r)
PROOF
<1>1. /\ DOMAIN q = 1..Len(q) /\ DOMAIN r = 1..Len(r) /\ Len(q) \in Nat /\ Len(r) \in Nat
      /\ DOMAIN (q \o r) = 1..(Len(q) + Len(r))
      /\ \A i \in 1..Len(q) : (q \o r)[i] = q[i]
      /\ \A i \in 1..Len(r) : (q \o r)[Len(q) + i] = r[i]
  BY ConcatProperties, LenProperties
<1>2. Ids(q \o r) \subseteq Ids(q) \cup Ids(r)
  <2>1. ASSUME NEW i \in 1..(Len(q) + Len(r))
        PROVE  (q \o r)[i].id \in Ids(q) \cup Ids(r)
    <3>1. CASE i \in 1..Len(q)
      BY <1>1, <3>1 DEF Ids
    <3>2. CASE i \notin 1..Len(q)
      <4>1. i - Len(q) \in 1..Len(r) /\ Len(q) + (i - Len(q)) = i
        BY <1>1, <3>2
      <4>2. (q \o r)[i] = r[i - Len(q)]
        BY <1>1, <4>1
      <4>. QED  BY <1>1, <4>1, <4>2 DEF Ids
    <3>. QED  BY <3>1, <3>2
  <2>. QED  BY <1>1, <2>1 DEF Ids
<1>3. Ids(q) \subseteq Ids(q \o r)
  BY <1>1 DEF Ids
<1>4. Ids(r) \subseteq Ids(q \o r)
  <2>1. ASSUME NEW i \in 1..Len(r) PROVE r[i].id \in Ids(q \o r)
    <3>1. Len(q) + i \in 1..(Len(q) + Len(r))
      BY <1>1
    <3>. QED  BY <1>1, <3>1 DEF Ids
  <2>. QED  BY <1>1, <2>1 DEF Ids
<1>. QED  BY <1>2, <1>3, <1>4

LEMMA IdsOne ==
  ASSUME NEW c \in Call
  PROVE  <<c>> \in Seq(Call) /\ Ids(<<c>>) = {c.id}
PROOF
  BY DEF Ids

\* The batch that a full pipeline writes.
LEMMA FullBatch ==
  ASSUME TypeOK, NEW p \in Pipelines, NEW class \in Classes
  PROVE  /\ NextCall(p, class) \in Call
         /\ Append(pipeline[p], NextCall(p, class)) = pipeline[p] \o <<NextCall(p, class)>>
         /\ Append(pipeline[p], NextCall(p, class)) \in Seq(Call)
         /\ Ids(Append(pipeline[p], NextCall(p, class))) = Ids(pipeline[p]) \cup {calls + 1}
PROOF
<1>1. NextCall(p, class) \in Call /\ NextCall(p, class).id = calls + 1
  BY ClassesAssumption DEF TypeOK, HistType, NextCall, Call, Via
<1>2. pipeline[p] \in Seq(Call)
  BY DEF TypeOK, PipeType
<1>. DEFINE c == NextCall(p, class)
<1>3. Append(pipeline[p], c) = pipeline[p] \o <<c>> /\ Append(pipeline[p], c) \in Seq(Call)
  BY <1>1, <1>2, AppendIsConcat, AppendProperties
<1>4. <<c>> \in Seq(Call) /\ Ids(<<c>>) = {calls + 1}
  BY <1>1, IdsOne
<1>5. Ids(pipeline[p] \o <<c>>) = Ids(pipeline[p]) \cup {calls + 1}
  BY <1>2, <1>4, IdsConcat
<1>. QED  BY <1>1, <1>3, <1>5

\* Where each call is, as sets of call numbers.
Once(all, s, d, b) ==
  /\ all = s \cup d \cup UNION {b[p] : p \in Pipelines}
  /\ s \cap d = {}
  /\ \A p \in Pipelines :
       /\ b[p] \cap (s \cup d) = {}
       /\ \A q \in Pipelines \ {p} : b[p] \cap b[q] = {}

LEMMA OnceIsEveryCallOnce ==
  EveryCallOnce <=> Once(1..calls, Ids(sent), dropped, [p \in Pipelines |-> Ids(pipeline[p])])
PROOF
  BY DEF EveryCallOnce, Once, SentIds, Buffered, Ids

LEMMA NextOnce ==
  EveryCallOnce' <=> Once(1..calls', Ids(sent'), dropped', [p \in Pipelines |-> Ids(pipeline'[p])])
PROOF
<1>1. (EveryCallOnce <=> Once(1..calls, Ids(sent), dropped, [p \in Pipelines |-> Ids(pipeline[p])]))'
  BY OnceIsEveryCallOnce, PTL
<1>. QED  BY <1>1

\* A call made is new; a buffer that is emptied moves as a whole.
LEMMA OnceSent ==
  ASSUME NEW all, NEW s, NEW d, NEW b, NEW x, x \notin all, Once(all, s, d, b)
  PROVE  /\ Once(all \cup {x}, s \cup {x}, d, b)
         /\ Once(all \cup {x}, s, d \cup {x}, b)
PROOF
  BY DEF Once

LEMMA OnceBuffered ==
  ASSUME NEW all, NEW s, NEW d, NEW b, NEW x, x \notin all, Once(all, s, d, b),
         NEW p \in Pipelines, NEW c, \A q \in Pipelines \ {p} : c[q] = b[q],
         c[p] = b[p] \cup {x}
  PROVE  Once(all \cup {x}, s, d, c)
PROOF
  BY DEF Once

LEMMA OnceMoved ==
  ASSUME NEW all, NEW s, NEW d, NEW b, Once(all, s, d, b),
         NEW p \in Pipelines, NEW c, \A q \in Pipelines \ {p} : c[q] = b[q],
         c[p] = {}
  PROVE  /\ Once(all, s \cup b[p], d, c)
         /\ Once(all, s, d \cup b[p], c)
PROOF
  BY DEF Once

LEMMA EveryCallOnceNext == TypeOK /\ EveryCallOnce /\ Moves => EveryCallOnce'
PROOF
<1>. SUFFICES ASSUME TypeOK, EveryCallOnce, Moves
              PROVE  EveryCallOnce'
  OBVIOUS
<1>. DEFINE x == calls + 1
            all == 1..calls
            all1 == 1..calls'
            s == Ids(sent)
            s1 == Ids(sent')
            d1 == dropped'
            b == [p \in Pipelines |-> Ids(pipeline[p])]
            b1 == [p \in Pipelines |-> Ids(pipeline'[p])]
<1>1. /\ calls \in Nat /\ sent \in Seq(Call) /\ pipeline \in [Pipelines -> Seq(Call)]
      /\ x \notin all /\ (calls' = x => all1 = all \cup {x}) /\ (calls' = calls => all1 = all)
  BY DEF TypeOK, HistType, PipeType
<1>2. Once(all, s, dropped, b)
  BY OnceIsEveryCallOnce
<1>3. Once(all1, s1, d1, b1) => EveryCallOnce'
  BY NextOnce
<1>4. \A q \in Pipelines : b[q] = Ids(pipeline[q]) /\ b1[q] = Ids(pipeline'[q])
  OBVIOUS
<1>5. ASSUME NEW batch \in Seq(Call), Delivered(batch)
      PROVE  \/ s1 = s \cup Ids(batch) /\ d1 = dropped
             \/ s1 = s /\ d1 = dropped \cup Ids(batch)
  BY <1>1, <1>5, IdsConcat DEF Delivered
<1>6. CASE UNCHANGED <<calls, sent, dropped, pipeline>>
  <2>1. all1 = all /\ s1 = s /\ d1 = dropped /\ b1 = b
    BY <1>6
  <2>. HIDE DEF all, all1, s, s1, d1, b, b1
  <2>. QED  BY <1>2, <1>3, <2>1
<1>7. CASE SentAtOnce
  <2>1. PICK class \in Classes : Delivered(<<NextCall("direct", class)>>)
    BY <1>7 DEF SentAtOnce
  <2>2. NextCall("direct", class) \in Call /\ NextCall("direct", class).id = x
    BY <1>1, ClassesAssumption DEF NextCall, Call, Via
  <2>3. <<NextCall("direct", class)>> \in Seq(Call) /\ Ids(<<NextCall("direct", class)>>) = {x}
    BY <2>2, IdsOne
  <2>4. all1 = all \cup {x} /\ b1 = b
    BY <1>1, <1>7 DEF SentAtOnce, pipeVars
  <2>5. \/ s1 = s \cup {x} /\ d1 = dropped
        \/ s1 = s /\ d1 = dropped \cup {x}
    BY <1>5, <2>1, <2>3
  <2>. HIDE DEF x, all, all1, s, s1, d1, b, b1
  <2>6. Once(all \cup {x}, s \cup {x}, dropped, b) /\ Once(all \cup {x}, s, dropped \cup {x}, b)
    BY <1>1, <1>2, OnceSent
  <2>7. Once(all1, s1, d1, b1)
    BY <2>4, <2>5, <2>6
  <2>. QED  BY <1>3, <2>7
<1>8. ASSUME NEW p \in Pipelines, Buffers(p)
      PROVE  EveryCallOnce'
  <2>1. PICK class \in Classes : pipeline' = [pipeline EXCEPT ![p] = Append(@, NextCall(p, class))]
    BY <1>8 DEF Buffers
  <2>2. all1 = all \cup {x} /\ s1 = s /\ d1 = dropped
    BY <1>1, <1>8 DEF Buffers
  <2>3. /\ pipeline'[p] = Append(pipeline[p], NextCall(p, class))
        /\ \A q \in Pipelines \ {p} : pipeline'[q] = pipeline[q]
    BY <1>1, <2>1
  <2>4. b1[p] = b[p] \cup {x} /\ \A q \in Pipelines \ {p} : b1[q] = b[q]
    BY <1>4, <2>3, FullBatch
  <2>. HIDE DEF x, all, all1, s, s1, d1, b, b1
  <2>5. Once(all1, s1, d1, b1)
    BY <1>1, <1>2, <2>2, <2>4, OnceBuffered
  <2>. QED  BY <1>3, <2>5
<1>9. ASSUME NEW p \in Pipelines, NEW batch \in Seq(Call), Empties(p, batch)
      PROVE  /\ (s1 = s \cup Ids(batch) /\ d1 = dropped) \/ (s1 = s /\ d1 = dropped \cup Ids(batch))
             /\ b1[p] = {} /\ \A q \in Pipelines \ {p} : b1[q] = b[q]
  <2>1. pipeline'[p] = <<>> /\ \A q \in Pipelines \ {p} : pipeline'[q] = pipeline[q]
    BY <1>1, <1>9 DEF Empties
  <2>2. Ids(<<>>) = {}
    BY DEF Ids
  <2>. QED  BY <1>4, <1>5, <1>9, <2>1, <2>2 DEF Empties
<1>10. ASSUME NEW p \in Pipelines, Flushes(p)
       PROVE  EveryCallOnce'
  <2>1. Empties(p, pipeline[p]) /\ pipeline[p] \in Seq(Call) /\ Ids(pipeline[p]) = b[p] /\ all1 = all
    BY <1>1, <1>10 DEF Flushes
  <2>2. /\ (s1 = s \cup b[p] /\ d1 = dropped) \/ (s1 = s /\ d1 = dropped \cup b[p])
        /\ b1[p] = {} /\ \A q \in Pipelines \ {p} : b1[q] = b[q]
    BY <1>9, <2>1
  <2>. HIDE DEF x, all, all1, s, s1, d1, b, b1
  <2>3. Once(all, s \cup b[p], dropped, b1) /\ Once(all, s, dropped \cup b[p], b1)
    BY <1>2, <2>2, OnceMoved
  <2>. QED  BY <1>3, <2>1, <2>2, <2>3
<1>11. ASSUME NEW p \in Pipelines, Fills(p)
       PROVE  EveryCallOnce'
  <2>1. PICK class \in Classes : Empties(p, Append(pipeline[p], NextCall(p, class)))
    BY <1>11 DEF Fills
  <2>. DEFINE c == [q \in Pipelines |-> IF q = p THEN b[p] \cup {x} ELSE b[q]]
  <2>2. /\ Append(pipeline[p], NextCall(p, class)) \in Seq(Call)
        /\ Ids(Append(pipeline[p], NextCall(p, class))) = c[p]
        /\ \A q \in Pipelines \ {p} : c[q] = b[q]
        /\ c[p] = b[p] \cup {x}
    BY <1>4, FullBatch
  <2>3. /\ (s1 = s \cup c[p] /\ d1 = dropped) \/ (s1 = s /\ d1 = dropped \cup c[p])
        /\ b1[p] = {} /\ \A q \in Pipelines \ {p} : b1[q] = c[q]
    BY <1>9, <2>1, <2>2
  <2>4. all1 = all \cup {x}
    BY <1>1, <1>11 DEF Fills
  <2>. HIDE DEF x, all, all1, s, s1, d1, b, b1, c
  <2>5. Once(all \cup {x}, s, dropped, c)
    BY <1>1, <1>2, <2>2, OnceBuffered
  <2>6. /\ Once(all \cup {x}, s \cup c[p], dropped, b1)
        /\ Once(all \cup {x}, s, dropped \cup c[p], b1)
    BY <2>3, <2>5, OnceMoved
  <2>. QED  BY <1>3, <2>3, <2>4, <2>6
<1>. QED  BY <1>6, <1>7, <1>8, <1>10, <1>11 DEF Moves, Rests

-----------------------------------------------------------------------------
(* The order of the calls of one pipeline.                                 *)

Rising(q) ==
  \A i, j \in 1..Len(q) : i < j /\ q[i].via = q[j].via => q[i].id < q[j].id

Older(q, r) ==
  \A i \in 1..Len(q), j \in 1..Len(r) : q[i].via = r[j].via => q[i].id < r[j].id

Of(p, q) == \A i \in 1..Len(q) : q[i].via = p

\* SendOrder is not inductive: a buffer must also hold nothing but the calls
\* of its own pipeline.
OrderInv ==
  /\ Rising(sent)
  /\ \A p \in Pipelines :
       Of(p, pipeline[p]) /\ Rising(pipeline[p]) /\ Older(sent, pipeline[p])

LEMMA RisingConcat ==
  ASSUME NEW q \in Seq(Call), NEW r \in Seq(Call), Rising(q), Rising(r), Older(q, r)
  PROVE  Rising(q \o r)
PROOF
<1>1. /\ Len(q) \in Nat /\ Len(r) \in Nat /\ Len(q \o r) = Len(q) + Len(r)
      /\ \A i \in 1..Len(q) : (q \o r)[i] = q[i]
      /\ \A i \in 1..Len(r) : (q \o r)[Len(q) + i] = r[i]
  BY ConcatProperties, LenProperties
<1>2. ASSUME NEW i \in 1..(Len(q) + Len(r)), NEW j \in 1..(Len(q) + Len(r)), i < j,
             (q \o r)[i].via = (q \o r)[j].via
      PROVE  (q \o r)[i].id < (q \o r)[j].id
  <2>1. CASE j \in 1..Len(q)
    BY <1>1, <1>2, <2>1 DEF Rising
  <2>2. CASE i \notin 1..Len(q)
    <3>1. /\ i - Len(q) \in 1..Len(r) /\ j - Len(q) \in 1..Len(r)
          /\ Len(q) + (i - Len(q)) = i /\ Len(q) + (j - Len(q)) = j /\ i - Len(q) < j - Len(q)
      BY <1>1, <1>2, <2>2
    <3>2. (q \o r)[i] = r[i - Len(q)] /\ (q \o r)[j] = r[j - Len(q)]
      BY <1>1, <3>1
    <3>. QED  BY <1>2, <3>1, <3>2 DEF Rising
  <2>3. CASE i \in 1..Len(q) /\ j \notin 1..Len(q)
    <3>1. j - Len(q) \in 1..Len(r) /\ Len(q) + (j - Len(q)) = j
      BY <1>1, <2>3
    <3>2. (q \o r)[i] = q[i] /\ (q \o r)[j] = r[j - Len(q)]
      BY <1>1, <2>3, <3>1
    <3>. QED  BY <1>2, <2>3, <3>1, <3>2 DEF Older
  <2>. QED  BY <1>1, <1>2, <2>1, <2>2, <2>3
<1>. QED  BY <1>1, <1>2 DEF Rising

LEMMA OlderConcat ==
  ASSUME NEW q \in Seq(Call), NEW r \in Seq(Call), NEW s \in Seq(Call)
  PROVE  /\ Older(q, s) /\ Older(r, s) => Older(q \o r, s)
         /\ Older(s, q) /\ Older(s, r) => Older(s, q \o r)
PROOF
<1>1. /\ Len(q) \in Nat /\ Len(r) \in Nat /\ Len(q \o r) = Len(q) + Len(r)
      /\ \A i \in 1..Len(q) : (q \o r)[i] = q[i]
      /\ \A i \in 1..Len(r) : (q \o r)[Len(q) + i] = r[i]
  BY ConcatProperties, LenProperties
<1>2. ASSUME NEW i \in 1..Len(q \o r)
      PROVE  (\E k \in 1..Len(q) : (q \o r)[i] = q[k]) \/ (\E k \in 1..Len(r) : (q \o r)[i] = r[k])
  <2>1. CASE i \in 1..Len(q)
    BY <1>1, <2>1
  <2>2. CASE i \notin 1..Len(q)
    <3>1. i - Len(q) \in 1..Len(r) /\ Len(q) + (i - Len(q)) = i
      BY <1>1, <2>2
    <3>. QED  BY <1>1, <3>1
  <2>. QED  BY <2>1, <2>2
<1>3. ASSUME Older(q, s), Older(r, s) PROVE Older(q \o r, s)
  BY <1>2, <1>3 DEF Older
<1>4. ASSUME Older(s, q), Older(s, r) PROVE Older(s, q \o r)
  BY <1>2, <1>4 DEF Older
<1>. QED  BY <1>3, <1>4

\* Calls of two pipelines do not constrain each other.
LEMMA OlderApart ==
  ASSUME NEW p, NEW q, p # q, NEW s \in Seq(Call), NEW r \in Seq(Call), Of(p, s), Of(q, r)
  PROVE  Older(s, r)
PROOF
  BY DEF Older, Of

\* What was made so far is older than the call made now.
LEMMA OlderNew ==
  ASSUME NEW q \in Seq(Call), NEW c \in Call, \A n \in Ids(q) : n < c.id
  PROVE  Older(q, <<c>>) /\ Rising(<<c>>) /\ Of(c.via, <<c>>)
PROOF
<1>1. DOMAIN q = 1..Len(q) /\ Len(<<c>>) = 1 /\ <<c>>[1] = c
  BY LenProperties
<1>2. \A i \in 1..Len(q) : q[i].id < c.id
  BY <1>1 DEF Ids
<1>. QED  BY <1>1, <1>2 DEF Older, Rising, Of

LEMMA IdsMade ==
  ASSUME TypeOK, EveryCallOnce
  PROVE  /\ \A n \in Ids(sent) : n < calls + 1
         /\ \A p \in Pipelines : \A n \in Ids(pipeline[p]) : n < calls + 1
PROOF
<1>1. calls \in Nat
  BY DEF TypeOK, HistType
<1>2. Ids(sent) \subseteq 1..calls /\ \A p \in Pipelines : Ids(pipeline[p]) \subseteq 1..calls
  BY OnceIsEveryCallOnce DEF Once
<1>. QED  BY <1>1, <1>2

LEMMA OrderNext == TypeOK /\ EveryCallOnce /\ OrderInv /\ Moves => OrderInv'
PROOF
<1>. SUFFICES ASSUME TypeOK, EveryCallOnce, OrderInv, Moves
              PROVE  OrderInv'
  OBVIOUS
<1>1. /\ sent \in Seq(Call) /\ pipeline \in [Pipelines -> Seq(Call)]
      /\ \A q \in Pipelines : pipeline[q] \in Seq(Call)
  BY DEF TypeOK, HistType, PipeType
<1>2. CASE UNCHANGED <<sent, pipeline>>
  BY <1>2 DEF OrderInv, Rising, Older, Of
<1>3. CASE SentAtOnce
  <2>1. PICK class \in Classes : Delivered(<<NextCall("direct", class)>>)
    BY <1>3 DEF SentAtOnce
  <2>. DEFINE c == NextCall("direct", class)
  <2>2. c \in Call /\ c.id = calls + 1 /\ c.via = "direct" /\ <<c>> \in Seq(Call)
    BY ClassesAssumption DEF TypeOK, HistType, NextCall, Call, Via
  <2>3. Older(sent, <<c>>) /\ Rising(<<c>>) /\ Of("direct", <<c>>)
    BY <1>1, <2>2, IdsMade, OlderNew
  <2>4. Rising(sent \o <<c>>)
    BY <1>1, <2>2, <2>3, RisingConcat DEF OrderInv
  <2>5. ASSUME NEW q \in Pipelines PROVE Older(sent \o <<c>>, pipeline[q])
    <3>1. Older(<<c>>, pipeline[q])
      BY <1>1, <2>2, <2>3, OlderApart, PipelinesAssumption DEF OrderInv
    <3>. QED  BY <1>1, <2>2, <3>1, OlderConcat DEF OrderInv
  <2>6. pipeline' = pipeline /\ (sent' = sent \/ sent' = sent \o <<c>>)
    BY <1>3, <2>1 DEF SentAtOnce, Delivered, pipeVars
  <2>. HIDE DEF c
  <2>7. Rising(sent') /\ \A q \in Pipelines : Older(sent', pipeline[q])
    BY <2>4, <2>5, <2>6 DEF OrderInv
  <2>. QED  BY <2>6, <2>7 DEF OrderInv
\* The buffer of p with the call made now.
<1>4. ASSUME NEW p \in Pipelines, NEW class \in Classes
      PROVE  LET batch == Append(pipeline[p], NextCall(p, class))
             IN /\ batch \in Seq(Call)
                /\ Of(p, batch) /\ Rising(batch) /\ Older(sent, batch)
  <2>. DEFINE c == NextCall(p, class)
  <2>1. /\ c \in Call /\ c.id = calls + 1 /\ c.via = p /\ <<c>> \in Seq(Call)
        /\ Append(pipeline[p], c) = pipeline[p] \o <<c>> /\ Append(pipeline[p], c) \in Seq(Call)
    <3>1. c.id = calls + 1 /\ c.via = p
      BY DEF NextCall
    <3>2. /\ c \in Call /\ Append(pipeline[p], c) = pipeline[p] \o <<c>>
          /\ Append(pipeline[p], c) \in Seq(Call)
      BY FullBatch
    <3>. HIDE DEF c
    <3>. QED  BY <3>1, <3>2
  <2>2. /\ Older(sent, <<c>>) /\ Rising(<<c>>) /\ Older(pipeline[p], <<c>>)
    BY <1>1, <2>1, IdsMade, OlderNew
  <2>3. Older(sent, pipeline[p] \o <<c>>) /\ Rising(pipeline[p] \o <<c>>)
    BY <1>1, <2>1, <2>2, OlderConcat, RisingConcat DEF OrderInv
  <2>4. Of(p, Append(pipeline[p], c))
    <3>1. Of(p, pipeline[p]) /\ Len(pipeline[p]) \in Nat
      BY <1>1, LenProperties DEF OrderInv
    <3>. QED  BY <1>1, <2>1, <3>1, AppendProperties DEF Of
  <2>. QED  BY <2>1, <2>3, <2>4
\* A batch is written and its buffer emptied.
<1>5. ASSUME NEW p \in Pipelines, NEW batch \in Seq(Call), Empties(p, batch),
             Of(p, batch), Rising(batch), Older(sent, batch)
      PROVE  OrderInv'
  <2>1. sent' = sent \/ sent' = sent \o batch
    BY <1>5 DEF Empties, Delivered
  <2>2. pipeline'[p] = <<>> /\ \A q \in Pipelines \ {p} : pipeline'[q] = pipeline[q]
    BY <1>1, <1>5 DEF Empties
  <2>3. Rising(sent')
    BY <1>1, <1>5, <2>1, RisingConcat DEF OrderInv
  <2>4. ASSUME NEW q \in Pipelines
        PROVE  Of(q, pipeline'[q]) /\ Rising(pipeline'[q]) /\ Older(sent', pipeline'[q])
    <3>1. CASE q = p
      BY <2>2, <3>1 DEF Of, Rising, Older
    <3>2. CASE q # p
      <4>1. Older(batch, pipeline[q])
        BY <1>1, <1>5, <3>2, OlderApart DEF OrderInv
      <4>2. Older(sent', pipeline[q])
        BY <1>1, <2>1, <4>1, OlderConcat DEF OrderInv
      <4>. QED  BY <2>2, <3>2, <4>2 DEF OrderInv
    <3>. QED  BY <3>1, <3>2
  <2>. QED  BY <2>3, <2>4 DEF OrderInv
<1>6. ASSUME NEW p \in Pipelines, Buffers(p)
      PROVE  OrderInv'
  <2>1. PICK class \in Classes : pipeline' = [pipeline EXCEPT ![p] = Append(@, NextCall(p, class))]
    BY <1>6 DEF Buffers
  <2>2. /\ pipeline'[p] = Append(pipeline[p], NextCall(p, class))
        /\ \A q \in Pipelines \ {p} : pipeline'[q] = pipeline[q]
        /\ sent' = sent
    BY <1>1, <1>6, <2>1 DEF Buffers
  <2>3. Of(p, pipeline'[p]) /\ Rising(pipeline'[p]) /\ Older(sent, pipeline'[p])
    BY <1>4, <2>2
  <2>. QED  BY <2>2, <2>3 DEF OrderInv
<1>7. ASSUME NEW p \in Pipelines, Fills(p)
      PROVE  OrderInv'
  BY <1>4, <1>5, <1>7 DEF Fills
<1>8. ASSUME NEW p \in Pipelines, Flushes(p)
      PROVE  OrderInv'
  BY <1>1, <1>5, <1>8 DEF Flushes, OrderInv
<1>. QED  BY <1>2, <1>3, <1>6, <1>7, <1>8 DEF Moves, Rests

LEMMA OrderIsSendOrder == TypeOK /\ EveryCallOnce /\ OrderInv => SendOrder
PROOF
<1>. SUFFICES ASSUME TypeOK, EveryCallOnce, OrderInv
              PROVE  SendOrder
  OBVIOUS
<1>1. /\ DOMAIN sent = 1..Len(sent)
      /\ \A p \in Pipelines : DOMAIN pipeline[p] = 1..Len(pipeline[p])
  BY LenProperties DEF TypeOK, HistType, PipeType
<1>2. \A i, j \in DOMAIN sent : i < j /\ sent[i].via = sent[j].via => sent[i].id < sent[j].id
  BY <1>1 DEF OrderInv, Rising
<1>3. ASSUME NEW p \in Pipelines, NEW i \in DOMAIN pipeline[p]
      PROVE  /\ \A j \in DOMAIN pipeline[p] : j < i => pipeline[p][j].id < pipeline[p][i].id
             /\ \A j \in DOMAIN sent : sent[j].via = p => sent[j].id < pipeline[p][i].id
             /\ pipeline[p][i].id \notin dropped
  <2>1. Of(p, pipeline[p]) /\ Rising(pipeline[p]) /\ Older(sent, pipeline[p])
    BY DEF OrderInv
  <2>2. pipeline[p][i].id \in Buffered(p)
    BY DEF Buffered
  <2>3. pipeline[p][i].id \notin dropped
    BY <2>2 DEF EveryCallOnce
  <2>. QED  BY <1>1, <2>1, <2>3 DEF Of, Rising, Older
<1>. QED  BY <1>2, <1>3 DEF SendOrder

-----------------------------------------------------------------------------
(* The theorems.                                                           *)

\* The counter of a pipeline is the length of its buffer and stays below the
\* batch size (RedisClient.php:227-233).
THEOREM BatchBoundCorrect == Spec => []BatchBound
PROOF
<1>1. ASSUME Init PROVE BatchBound
  <2>1. \A p \in Pipelines : pipeline[p] = <<>> /\ pipeline_count[p] = 0 /\ Len(pipeline[p]) = 0
    BY <1>1 DEF Init
  <2>. QED  BY <2>1, AmountAssumption DEF BatchBound
<1>2. IInv /\ BatchBound /\ [Next]_vars => BatchBound'
  BY StepMoves, BatchBoundNext DEF IInv
<1>. QED  BY IInvCorrect, <1>1, <1>2, PTL DEF Spec

\* A call that was made was written, is buffered or was discarded, and never
\* two of these (RedisClient.php:209-235).
THEOREM EveryCallOnceCorrect == Spec => []EveryCallOnce
PROOF
<1>1. Init => EveryCallOnce
  BY DEF Init, EveryCallOnce, SentIds, Buffered
<1>2. IInv /\ EveryCallOnce /\ [Next]_vars => EveryCallOnce'
  BY StepMoves, EveryCallOnceNext DEF IInv
<1>. QED  BY IInvCorrect, <1>1, <1>2, PTL DEF Spec

\* The calls of a pipeline, and those of the client, reach the socket in the
\* order they were made (RedisClient.php:209-235).
THEOREM SendOrderCorrect == Spec => []SendOrder
PROOF
<1>1. Init => OrderInv
  BY DEF Init, OrderInv, Rising, Older, Of
<1>2. IInv /\ EveryCallOnce /\ OrderInv /\ [Next]_vars => OrderInv'
  BY StepMoves, OrderNext DEF IInv
<1>3. IInv /\ EveryCallOnce /\ OrderInv => SendOrder
  BY OrderIsSendOrder DEF IInv
<1>. QED  BY IInvCorrect, EveryCallOnceCorrect, <1>1, <1>2, <1>3, PTL DEF Spec

-----------------------------------------------------------------------------
(* Out of step is for ever unless text is taken for a header:              *)
(* SkewIsPermanent.                                                        *)
(*                                                                         *)
(* A read() may use up the last line of an older call.  What is then left  *)
(* on the wires is the request it was made for, or its answer: SkewInv     *)
(* says that this is still there as long as the read has not touched it.   *)


Ofs(q) == {q[i].of : i \in DOMAIN q}

\* Calls with a request or with lines under way.
OnWires == Ofs(toClient) \cup Ids(toServer)

SkewInv ==
  /\ OnWires \subseteq 1..calls /\ monitoring \in 0..calls /\ reading \in 0..calls
  /\ peer /\ reading # 0 /\ reading \notin got => reading \in OnWires

LEMMA SkewedStale == Skewed <=> OnWires \ {reading} # {}
PROOF
  BY DEF Skewed, Stale, OnWires, Ofs, Ids

-----------------------------------------------------------------------------
(* The calls whose lines a queue holds.                                    *)

LEMMA OfsConcat ==
  ASSUME NEW q \in Seq(Line), NEW r \in Seq(Line)
  PROVE  Ofs(q \o r) = Ofs(q) \cup Ofs(r)
PROOF
<1>1. /\ DOMAIN q = 1..Len(q) /\ DOMAIN r = 1..Len(r) /\ Len(q) \in Nat /\ Len(r) \in Nat
      /\ DOMAIN (q \o r) = 1..(Len(q) + Len(r))
      /\ \A i \in 1..Len(q) : (q \o r)[i] = q[i]
      /\ \A i \in 1..Len(r) : (q \o r)[Len(q) + i] = r[i]
  BY ConcatProperties, LenProperties
<1>2. ASSUME NEW i \in 1..(Len(q) + Len(r))
      PROVE  (q \o r)[i].of \in Ofs(q) \cup Ofs(r)
  <2>1. CASE i \in 1..Len(q)
    BY <1>1, <2>1 DEF Ofs
  <2>2. CASE i \notin 1..Len(q)
    <3>1. i - Len(q) \in 1..Len(r) /\ Len(q) + (i - Len(q)) = i
      BY <1>1, <2>2
    <3>2. (q \o r)[i] = r[i - Len(q)]
      BY <1>1, <3>1
    <3>. QED  BY <1>1, <3>1, <3>2 DEF Ofs
  <2>. QED  BY <2>1, <2>2
<1>3. ASSUME NEW i \in 1..Len(q) PROVE q[i].of \in Ofs(q \o r)
  BY <1>1, SMTT(30) DEF Ofs
<1>4. ASSUME NEW i \in 1..Len(r) PROVE r[i].of \in Ofs(q \o r)
  <2>1. Len(q) + i \in 1..(Len(q) + Len(r))
    BY <1>1
  <2>. QED  BY <1>1, <2>1 DEF Ofs
<1>. QED  BY <1>1, <1>2, <1>3, <1>4 DEF Ofs

LEMMA OfsAppend ==
  ASSUME NEW q \in Seq(Line), NEW c \in Nat \ {0}
  PROVE  Ofs(Append(q, StatusLine(c))) = Ofs(q) \cup {c}
PROOF
<1>1. StatusLine(c) \in Line /\ StatusLine(c).of = c
  BY StatusLineType DEF StatusLine
<1>2. <<StatusLine(c)>> \in Seq(Line) /\ Ofs(<<StatusLine(c)>>) = {c}
  BY <1>1 DEF Ofs
<1>3. Append(q, StatusLine(c)) = q \o <<StatusLine(c)>>
  BY <1>1, AppendIsConcat
<1>. QED  BY <1>2, <1>3, OfsConcat

LEMMA OfsReply ==
  ASSUME NEW c \in Nat \ {0}, NEW s \in Shapes
  PROVE  Ofs(Reply(c, s)) = {c}
PROOF
<1>1. /\ Reply(c, s) \in Seq(Line) /\ Len(Reply(c, s)) \in Nat \ {0}
      /\ \A i \in 1..Len(Reply(c, s)) : Reply(c, s)[i].of = c
  BY ReplyLines
<1>2. DOMAIN Reply(c, s) = 1..Len(Reply(c, s)) /\ 1 \in DOMAIN Reply(c, s)
  BY <1>1, LenProperties
<1>. QED  BY <1>1, <1>2 DEF Ofs

LEMMA OfsPrefix ==
  ASSUME NEW q \in Seq(Line), NEW k \in 0..Len(q)
  PROVE  Ofs(SubSeq(q, 1, k)) \subseteq Ofs(q)
PROOF
<1>1. DOMAIN SubSeq(q, 1, k) \subseteq DOMAIN q /\ \A i \in DOMAIN SubSeq(q, 1, k) : SubSeq(q, 1, k)[i] = q[i]
  OBVIOUS
<1>. QED  BY <1>1 DEF Ofs

\* A line is consumed, a request executed.
LEMMA OfsTail ==
  ASSUME TypeOK, toClient # <<>>
  PROVE  /\ Ofs(toClient) = Ofs(Tail(toClient)) \cup {toClient[1].of}
         /\ Head(toClient) = toClient[1] /\ toClient[1].of \in Nat \ {0}
PROOF
<1>1. /\ Head(toClient) \in Line /\ Head(toClient) = toClient[1] /\ Tail(toClient) \in Seq(Line)
      /\ toClient \in Seq(Line)
  BY FirstLine DEF TypeOK, WireType
<1>2. toClient = <<Head(toClient)>> \o Tail(toClient) /\ <<Head(toClient)>> \in Seq(Line)
  BY <1>1
<1>3. Ofs(<<Head(toClient)>>) = {Head(toClient).of}
  BY DEF Ofs
<1>4. Ofs(toClient) = Ofs(<<Head(toClient)>>) \cup Ofs(Tail(toClient))
  BY <1>1, <1>2, OfsConcat
<1>5. toClient[1].of \in Nat \ {0}
  BY <1>1 DEF Line
<1>. QED  BY <1>1, <1>3, <1>4, <1>5

\* A line is torn: what is left of it is of the same call.
LEMMA OfsRest ==
  ASSUME TypeOK, toClient # <<>>
  PROVE  Ofs(<<Rest(toClient[1])>> \o Tail(toClient)) = Ofs(toClient)
PROOF
<1>1. toClient[1] \in Line /\ Tail(toClient) \in Seq(Line)
  BY FirstLine DEF TypeOK, WireType
<1>2. Rest(toClient[1]) \in Line /\ Rest(toClient[1]).of = toClient[1].of
  BY <1>1, RestLine DEF Rest
<1>3. <<Rest(toClient[1])>> \in Seq(Line) /\ Ofs(<<Rest(toClient[1])>>) = {toClient[1].of}
  BY <1>2 DEF Ofs
<1>. QED  BY <1>1, <1>3, OfsConcat, OfsTail

LEMMA IdsTail ==
  ASSUME TypeOK, toServer # <<>>
  PROVE  /\ Ids(toServer) = Ids(Tail(toServer)) \cup {Head(toServer).id}
         /\ Head(toServer).id \in Nat \ {0}
PROOF
<1>1. Head(toServer) \in Call /\ Tail(toServer) \in Seq(Call) /\ toServer \in Seq(Call)
  BY FirstCall DEF TypeOK, WireType
<1>2. toServer = <<Head(toServer)>> \o Tail(toServer) /\ <<Head(toServer)>> \in Seq(Call)
  BY <1>1
<1>3. Ids(<<Head(toServer)>>) = {Head(toServer).id}
  BY <1>1, IdsOne
<1>4. Ids(toServer) = Ids(<<Head(toServer)>>) \cup Ids(Tail(toServer))
  BY <1>1, <1>2, IdsConcat
<1>5. Head(toServer).id \in Nat \ {0}
  BY <1>1 DEF Call
<1>. QED  BY <1>3, <1>4, <1>5

-----------------------------------------------------------------------------
(* The steps of read().                                                    *)

\* Nothing is taken from the wires: a fgets() that failed.
TakesNothing ==
  /\ OnWires' = OnWires
  /\ reading' = 0 \/ (reading' = reading /\ got \subseteq got' /\ got' \subseteq got \cup {0})

\* A line of call c is taken, or the first characters of one.
Takes(c) ==
  /\ OnWires = OnWires' \cup {c}
  /\ Strayed \notin got => got \subseteq {c, 0}
  /\ reading' = 0 \/ (reading' = reading /\ got \cup {c} \subseteq got')

LEMMA ReadTakes ==
  ASSUME IInv, Read
  PROVE  /\ reading # 0 /\ UNCHANGED <<peer, calls, monitoring>>
         /\ TakesNothing \/ \E c \in Nat \ {0} : Takes(c)
PROOF
<1>1. ASSUME NEW o, NEW g, Return(o, g)
      PROVE  reading' = 0
  BY <1>1 DEF Return
<1>2. ASSUME NEW left, NEW g, Continue(left, g)
      PROVE  reading' = 0 \/ (reading' = reading /\ got' = g)
  BY <1>1, <1>2 DEF Continue
<1>3. ASSUME toClient # <<>>, toClient' = Tail(toClient), UNCHANGED toServer
      PROVE  OnWires = OnWires' \cup {toClient[1].of}
  BY <1>3, OfsTail DEF OnWires, IInv
<1>4. ASSUME toClient # <<>>, reading # 0
      PROVE  toClient[1].of \in Nat \ {0} /\ (Strayed \notin got => got \subseteq {toClient[1].of, 0})
  BY <1>4, OfsTail DEF IInv, ReaderInv, InReply
<1>5. CASE ReadHeader
  <2>1. /\ reading # 0 /\ toClient # <<>> /\ toClient' = Tail(toClient)
        /\ UNCHANGED <<peer, calls, monitoring, toServer>>
    BY <1>5, HeaderSteps DEF IInv
  <2>2. reading' = 0 \/ (reading' = reading /\ got \cup {toClient[1].of} \subseteq got')
    <3>1. PICK g : /\ got \cup {toClient[1].of} \subseteq g
                   /\ \/ \E o : Return(o, g)
                      \/ got' = g /\ reading' = reading
                      \/ \E left : Continue(left, g)
      BY <1>5, HeaderSteps DEF IInv
    <3>. QED  BY <1>1, <1>2, <3>1
  <2>. QED  BY <1>3, <1>4, <2>1, <2>2 DEF Takes
<1>6. CASE ReadBody
  <2>. DEFINE c == toClient[1].of
              g == got \cup {c}
  <2>1. /\ reading # 0 /\ toClient # <<>> /\ Continue(owed - 1, g)
        /\ UNCHANGED <<peer, calls, monitoring, toServer>>
        /\ toClient' = Tail(toClient) \/ toClient' = <<Rest(toClient[1])>> \o Tail(toClient)
    BY <1>6, BodySteps DEF IInv
  <2>2. OnWires = OnWires' \cup {c}
    <3>1. CASE toClient' = Tail(toClient)
      BY <1>3, <2>1, <3>1
    <3>2. CASE toClient' = <<Rest(toClient[1])>> \o Tail(toClient)
      BY <2>1, <3>2, OfsRest, OfsTail DEF OnWires, IInv
    <3>. QED  BY <2>1, <3>1, <3>2
  <2>3. reading' = 0 \/ (reading' = reading /\ got \cup {c} \subseteq got')
    <3>. HIDE DEF g
    <3>1. reading' = 0 \/ (reading' = reading /\ got' = g)
      BY <1>2, <2>1
    <3>. QED  BY <3>1 DEF g
  <2>. QED  BY <1>4, <2>1, <2>2, <2>3 DEF Takes
<1>7. CASE ReadEOF \/ ReadTimeout
  <2>1. /\ reading # 0 /\ FgetsFails /\ UNCHANGED <<peer, calls, monitoring, toClient, toServer>>
    BY <1>7 DEF ReadEOF, ReadTimeout, FgetsFails, connVars, wireVars
  <2>2. reading' = 0 \/ (reading' = reading /\ got' = got \cup {0})
    BY <1>1, <1>2, <2>1 DEF FgetsFails
  <2>. QED  BY <2>1, <2>2 DEF TakesNothing, OnWires
<1>. QED  BY <1>5, <1>6, <1>7 DEF Read

LEMMA ReadKeepsSkewInv ==
  ASSUME IInv, SkewInv, Read
  PROVE  SkewInv'
PROOF
<1>1. reading # 0 /\ UNCHANGED <<peer, calls, monitoring>> /\ calls \in Nat
  BY ReadTakes DEF IInv, TypeOK, HistType
<1>2. CASE TakesNothing
  BY <1>1, <1>2 DEF TakesNothing, SkewInv
<1>3. ASSUME NEW c \in Nat \ {0}, Takes(c)
      PROVE  SkewInv'
  BY <1>1, <1>3 DEF Takes, SkewInv
<1>. QED  BY <1>2, <1>3, ReadTakes

\* The line an older call is out of step by may be the one that is taken: then
\* more of its reply follows, or the read ends and leaves what it was made for.
LEMMA ReadKeepsSkewed ==
  ASSUME IInv, IInv', SkewInv, SkewInv', Skewed, Read, peer', Strayed \notin got \cup got'
  PROVE  Skewed'
PROOF
<1>1. reading # 0 /\ UNCHANGED <<peer, calls, monitoring>> /\ calls \in Nat
  BY ReadTakes DEF IInv, TypeOK, HistType
<1>2. PICK x \in OnWires : x # reading /\ x \in Nat \ {0}
  <2>1. PICK x \in OnWires : x # reading
    BY SkewedStale
  <2>2. x \in Nat \ {0}
    BY <1>1 DEF SkewInv
  <2>. QED  BY <2>1, <2>2
<1>3. Skewed' <=> OnWires' \ {reading'} # {}
  BY DEF Skewed, Stale, OnWires, Ofs, Ids
<1>4. CASE TakesNothing
  BY <1>2, <1>3, <1>4 DEF TakesNothing
<1>5. ASSUME NEW c \in Nat \ {0}, Takes(c)
      PROVE  Skewed'
  <2>1. CASE x # c
    BY <1>2, <1>3, <1>5, <2>1 DEF Takes
  <2>2. CASE x = c /\ reading' = 0
    <3>1. reading \in OnWires
      BY <1>1, <1>2, <1>5, <2>2 DEF Takes, SkewInv
    <3>2. reading \in OnWires'
      BY <1>2, <1>5, <2>2, <3>1 DEF Takes
    <3>. QED  BY <1>1, <1>3, <2>2, <3>2
  <2>3. CASE x = c /\ reading' # 0
    <3>1. reading' = reading /\ c \in got'
      BY <1>5, <2>3 DEF Takes
    <3>2. toClient' # <<>>
      BY <2>3, <3>1 DEF IInv, ReaderInv, InReply
    <3>3. c = toClient'[1].of
      BY <2>3, <3>1, <3>2 DEF IInv, ReaderInv, InReply
    <3>4. 1 \in DOMAIN toClient'
      BY <3>2 DEF IInv, TypeOK, WireType
    <3>5. c \in OnWires'
      BY <3>3, <3>4 DEF OnWires, Ofs
    <3>. QED  BY <1>2, <1>3, <2>3, <3>1, <3>5
  <2>. QED  BY <2>1, <2>2, <2>3
<1>. QED  BY <1>4, <1>5, ReadTakes

-----------------------------------------------------------------------------
(* All other steps.                                                        *)

\* Nothing that is on the wires of a living connection is taken from them, and
\* what is added was called before.
Adds ==
  /\ OnWires' \subseteq 1..calls' /\ monitoring' \in 0..calls' /\ calls' \in Nat /\ calls <= calls'
  /\ socket = "open" /\ socket' = "open" /\ peer' => peer /\ OnWires \subseteq OnWires'
  /\ \/ reading' = reading /\ got' = got
     \/ reading = 0 /\ reading' \in 0..calls' /\ (peer' => reading' \in OnWires') /\ reading' > calls

LEMMA ServerAdds ==
  ASSUME IInv, SkewInv, Server
  PROVE  Adds
PROOF
<1>1. /\ UNCHANGED <<socket, calls, reading, got>> /\ calls \in Nat
  BY DEF Server, Serve, ServeMonitor, ServeLast, MonitorLine, Drop, connVars, readVars, histVars,
         IInv, TypeOK, HistType
<1>2. SUFFICES /\ OnWires' \subseteq 1..calls /\ monitoring' \in 0..calls
               /\ peer' => peer /\ OnWires \subseteq OnWires'
  BY <1>1 DEF Adds
<1>3. toClient \in Seq(Line) /\ OnWires \subseteq 1..calls /\ monitoring \in 0..calls
  BY DEF IInv, TypeOK, WireType, SkewInv
<1>4. CASE Serve
  <2>1. PICK s \in Shapes : toClient' = toClient \o Reply(Head(toServer).id, s)
    BY <1>4 DEF Serve
  <2>2. toServer # <<>> /\ toServer' = Tail(toServer) /\ UNCHANGED <<peer, monitoring>>
    BY <1>4 DEF Serve, connVars
  <2>3. Head(toServer).id \in Nat \ {0} /\ Ids(toServer) = Ids(toServer') \cup {Head(toServer).id}
    BY <2>2, IdsTail DEF IInv
  <2>4. Reply(Head(toServer).id, s) \in Seq(Line) /\ Ofs(Reply(Head(toServer).id, s)) = {Head(toServer).id}
    BY <2>3, ReplyLines, OfsReply
  <2>5. Ofs(toClient') = Ofs(toClient) \cup {Head(toServer).id}
    BY <1>3, <2>1, <2>4, OfsConcat
  <2>6. OnWires' = OnWires
    BY <2>3, <2>5 DEF OnWires
  <2>. QED  BY <1>3, <2>2, <2>6
<1>5. CASE ServeMonitor
  <2>1. /\ toServer # <<>> /\ toServer' = Tail(toServer) /\ peer' = peer
        /\ toClient' = Append(toClient, StatusLine(Head(toServer).id)) /\ monitoring' = Head(toServer).id
    BY <1>5 DEF ServeMonitor, connVars
  <2>2. Head(toServer).id \in Nat \ {0} /\ Ids(toServer) = Ids(toServer') \cup {Head(toServer).id}
    BY <2>1, IdsTail DEF IInv
  <2>3. Ofs(toClient') = Ofs(toClient) \cup {Head(toServer).id}
    BY <1>3, <2>1, <2>2, OfsAppend
  <2>4. OnWires' = OnWires /\ monitoring' \in OnWires
    BY <2>1, <2>2, <2>3 DEF OnWires
  <2>. QED  BY <1>1, <1>3, <2>1, <2>4
<1>6. CASE ServeLast
  <2>1. toServer # <<>> /\ toServer' = <<>> /\ peer' = FALSE /\ monitoring' = 0
    BY <1>6 DEF ServeLast, Hangup
  <2>2. Head(toServer).id \in Nat \ {0} /\ Head(toServer).id \in OnWires
    BY <2>1, IdsTail DEF IInv, OnWires
  <2>3. Ofs(toClient') \subseteq Ofs(toClient) \cup {Head(toServer).id}
    BY <1>3, <1>6, <2>2, OfsAppend DEF ServeLast
  <2>4. Ids(toServer') = {}
    BY <2>1 DEF Ids
  <2>5. OnWires' \subseteq OnWires
    BY <2>2, <2>3, <2>4 DEF OnWires
  <2>. QED  BY <1>1, <1>3, <2>1, <2>5
<1>7. CASE MonitorLine
  <2>1. monitoring # 0 /\ toClient' = Append(toClient, StatusLine(monitoring)) /\ UNCHANGED <<peer, monitoring, toServer>>
    BY <1>7 DEF MonitorLine, connVars
  <2>2. Ofs(toClient') = Ofs(toClient) \cup {monitoring}
    BY <1>1, <1>3, <2>1, OfsAppend
  <2>3. OnWires' = OnWires \cup {monitoring}
    BY <2>1, <2>2 DEF OnWires
  <2>. QED  BY <1>1, <1>3, <2>1, <2>3
<1>8. CASE Drop
  <2>1. PICK k \in 0..Len(toClient) : toClient' = SubSeq(toClient, 1, k)
    BY <1>8 DEF Drop
  <2>2. toServer' = <<>> /\ peer' = FALSE /\ monitoring' = 0
    BY <1>8 DEF Drop, Hangup
  <2>3. Ofs(toClient') \subseteq Ofs(toClient) /\ Ids(toServer') = {}
    BY <1>3, <2>1, <2>2, OfsPrefix DEF Ids
  <2>4. OnWires' \subseteq OnWires
    BY <2>3 DEF OnWires
  <2>. QED  BY <1>1, <1>3, <2>2, <2>4
<1>. QED  BY <1>4, <1>5, <1>6, <1>7, <1>8 DEF Server

\* What is written comes behind what is under way.
LEMMA WriteAdds ==
  ASSUME IInv, NEW batch \in Seq(Call), Write(batch), toClient' = toClient
  PROVE  OnWires' = OnWires \cup (IF peer THEN Ids(batch) ELSE {})
PROOF
<1>1. toServer \in Seq(Call)
  BY DEF IInv, TypeOK, WireType
<1>. QED  BY <1>1, IdsConcat DEF Write, OnWires

LEMMA ClientAdds ==
  ASSUME IInv, EveryCallOnce, SkewInv, Client, ~Read
  PROVE  Adds
PROOF
<1>1. /\ calls \in Nat /\ OnWires \subseteq 1..calls /\ monitoring \in 0..calls /\ peer \in BOOLEAN
      /\ 1..calls \subseteq 1..(calls + 1)
  BY DEF IInv, TypeOK, HistType, ConnType, SkewInv
<1>2. CASE Open \/ OpenFails
  <2>1. /\ socket # "open" \/ socket' # "open"
        /\ UNCHANGED <<toClient, toServer, monitoring, calls, reading, got>>
    BY <1>2 DEF Open, OpenFails, wireVars, readVars, histVars, IInv, ConnectionInv
  <2>. QED  BY <1>1, <2>1 DEF Adds, OnWires
<1>3. CASE Close \/ Quit
  <2>1. /\ socket' = "closed" /\ toClient' = <<>> /\ toServer' = <<>> /\ monitoring' = 0
        /\ UNCHANGED <<reading, got>> /\ calls' \in {calls, calls + 1}
    BY <1>3 DEF Close, Quit, Hangup, readVars, histVars
  <2>2. OnWires' = {}
    BY <2>1 DEF OnWires, Ofs, Ids
  <2>. QED  BY <1>1, <2>1, <2>2 DEF Adds
<1>4. ASSUME NEW class \in Classes, Send(class)
      PROVE  Adds
  <2>. DEFINE batch == <<NextCall("direct", class)>>
  <2>1. /\ reading = 0 /\ reading' = calls + 1 /\ calls' = calls + 1
        /\ Write(batch) /\ UNCHANGED <<peer, monitoring, toClient>>
    BY <1>4 DEF Send, connVars
  <2>2. batch \in Seq(Call) /\ Ids(batch) = {calls + 1}
    <3>1. NextCall("direct", class) \in Call /\ NextCall("direct", class).id = calls + 1
      BY <1>1, ClassesAssumption DEF NextCall, Call, Via
    <3>. QED  BY <3>1, IdsOne
  <2>3. OnWires' = OnWires \cup (IF peer THEN {calls + 1} ELSE {})
    BY <2>1, <2>2, WriteAdds
  <2>. QED  BY <1>1, <2>1, <2>3 DEF Adds
<1>5. ASSUME NEW p \in Pipelines, Flush(p) \/ \E class \in Classes : PipelineSend(p, class)
      PROVE  Adds
  <2>1. pipeline[p] \in Seq(Call) /\ Ids(pipeline[p]) \subseteq 1..calls
    BY DEF IInv, TypeOK, PipeType, EveryCallOnce, Buffered, Ids
  <2>2. UNCHANGED <<socket, peer, monitoring, toClient, reading, got>>
    BY <1>5 DEF Flush, PipelineSend, connVars, readVars
  <2>3. CASE Flush(p)
    <3>1. Write(pipeline[p]) /\ calls' = calls
      BY <2>3 DEF Flush, WriteBatch
    <3>2. OnWires' = OnWires \cup (IF peer THEN Ids(pipeline[p]) ELSE {})
      BY <2>1, <2>2, <3>1, WriteAdds
    <3>3. OnWires \subseteq OnWires' /\ OnWires' \subseteq 1..calls
      BY <1>1, <2>1, <3>2
    <3>. QED  BY <1>1, <2>2, <3>1, <3>3 DEF Adds
  <2>4. ASSUME NEW class \in Classes, PipelineSend(p, class)
        PROVE  Adds
    <3>. DEFINE batch == Append(pipeline[p], NextCall(p, class))
    <3>1. calls' = calls + 1 /\ (toServer' = toServer \/ Write(batch))
      BY <2>4 DEF PipelineSend, WriteBatch
    <3>2. batch \in Seq(Call) /\ Ids(batch) = Ids(pipeline[p]) \cup {calls + 1}
      BY FullBatch DEF IInv
    <3>3. OnWires' = OnWires \/ OnWires' = OnWires \cup (IF peer THEN Ids(batch) ELSE {})
      <4>1. CASE toServer' = toServer
        BY <2>2, <4>1 DEF OnWires
      <4>2. CASE Write(batch)
        BY <2>2, <3>2, <4>2, WriteAdds
      <4>. QED  BY <3>1, <4>1, <4>2
    <3>4. OnWires \subseteq OnWires' /\ OnWires' \subseteq 1..(calls + 1)
      <4>1. Ids(batch) \subseteq 1..(calls + 1)
        BY <1>1, <2>1, <3>2
      <4>. HIDE DEF batch
      <4>. QED  BY <1>1, <3>3, <4>1
    <3>. HIDE DEF batch
    <3>. QED  BY <1>1, <2>2, <3>1, <3>4 DEF Adds
  <2>. QED  BY <1>5, <2>3, <2>4
<1>. QED  BY <1>2, <1>3, <1>4, <1>5 DEF Client

LEMMA AddsKeepsSkewInv ==
  ASSUME IInv, IInv', SkewInv, Adds
  PROVE  SkewInv'
PROOF
<1>1. reading' \in 0..calls'
  <2>1. calls \in Nat /\ calls' \in Nat /\ calls <= calls'
    BY DEF IInv, TypeOK, HistType, Adds
  <2>. QED  BY <2>1 DEF Adds, SkewInv
<1>2. ASSUME peer', reading' # 0, reading' \notin got'
      PROVE  reading' \in OnWires'
  <2>1. CASE reading' = reading /\ got' = got
    <3>1. socket = "open" /\ socket' = "open"
      BY <1>2, <2>1 DEF IInv, ConnectionInv
    <3>. QED  BY <1>2, <2>1, <3>1 DEF Adds, SkewInv
  <2>2. CASE reading = 0 /\ (peer' => reading' \in OnWires')
    BY <1>2, <2>2
  <2>. QED  BY <2>1, <2>2 DEF Adds
<1>. QED  BY <1>1, <1>2 DEF Adds, SkewInv

LEMMA AddsKeepsSkewed ==
  ASSUME IInv, SkewInv, Adds, Skewed, socket = "open", socket' = "open", peer'
  PROVE  Skewed'
PROOF
<1>1. Skewed' <=> OnWires' \ {reading'} # {}
  BY DEF Skewed, Stale, OnWires, Ofs, Ids
<1>2. PICK x \in OnWires : x # reading
  BY SkewedStale
<1>3. x \in OnWires' /\ x \in 1..calls
  BY <1>2 DEF Adds, SkewInv
<1>4. x # reading'
  <2>1. calls \in Nat /\ calls' \in Nat
    BY DEF IInv, TypeOK, HistType, Adds
  <2>. QED  BY <1>2, <1>3, <2>1 DEF Adds
<1>. QED  BY <1>1, <1>3, <1>4

-----------------------------------------------------------------------------
LEMMA SkewNext ==
  ASSUME IInv, IInv', EveryCallOnce, SkewInv, [Next]_vars
  PROVE  /\ SkewInv'
         /\ Skewed /\ socket = "open" /\ socket' = "open" /\ peer'
              => Skewed' \/ Strayed \in got \cup got'
PROOF
<1>1. CASE Read
  BY <1>1, ReadKeepsSkewInv, ReadKeepsSkewed
<1>2. CASE Client /\ ~Read
  BY <1>2, ClientAdds, AddsKeepsSkewInv, AddsKeepsSkewed
<1>3. CASE Server
  BY <1>3, ServerAdds, AddsKeepsSkewInv, AddsKeepsSkewed
<1>4. CASE UNCHANGED vars
  BY <1>4 DEF SkewInv, OnWires, Ofs, Ids, Skewed, Stale, vars, connVars, wireVars, readVars, histVars
<1>. QED  BY <1>1, <1>2, <1>3, <1>4 DEF Next

\* A connection that is out of step stays so until it is closed or lost, or
\* until a read() takes the text of a value for a header and runs into its own
\* reply (RedisClient.php:106-119, 148-163).
THEOREM SkewIsPermanentCorrect == Spec => SkewIsPermanent
PROOF
<1>1. Init => SkewInv
  BY DEF Init, SkewInv, OnWires, Ofs, Ids
<1>2. IInv /\ IInv' /\ EveryCallOnce /\ SkewInv /\ [Next]_vars => SkewInv'
  BY SkewNext
<1>3. IInv /\ IInv' /\ EveryCallOnce /\ SkewInv /\ [Next]_vars
        => [Skewed /\ socket = "open" /\ socket' = "open" /\ peer'
              => Skewed' \/ Strayed \in got \cup got']_vars
  BY SkewNext
<1>. QED
  BY IInvCorrect, EveryCallOnceCorrect, <1>1, <1>2, <1>3, PTL DEF Spec, SkewIsPermanent
=============================================================================
