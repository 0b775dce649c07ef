------------------------ MODULE RedisConnectionProofs ------------------------
(***************************************************************************)
(* IInv is an invariant of RedisConnection, and with it NoMixedReply,      *)
(* InSyncUnlessCaused and, until one of the causes occurs,                 *)
(* AppropriateResponse and the promise of RequestReply, for every set of   *)
(* pipelines and batch sizes, every set of well-formed reply structures,   *)
(* any text in the place of a header and any number of calls.              *)
(***************************************************************************)
EXTENDS RedisConnectionTypes

\* The two halves of WireInv, as predicates on a sequence of lines.
Chain(q) == \A i \in 1..(Len(q) - 1) : Linked(q[i], q[i + 1])
Whole(q) == q # <<>> => Closing(q[Len(q)])
Starts(l) == l.owed = 1 /\ l.t # "text"

\* No value with a line break in it.
NoBreak(q) == \A i \in 1..(Len(q) - 1) : q[i].t = "text" => q[i + 1].t # "text"

LEMMA WireInvChain == WireInv <=> Chain(toClient) /\ (peer => Whole(toClient))
PROOF
  BY Zenon DEF WireInv, Chain, Whole

LEMMA ChainTail ==
  ASSUME NEW q \in Seq(Line), q # <<>>, Chain(q)
  PROVE  Chain(Tail(q)) /\ (Whole(q) => Whole(Tail(q)))
PROOF
<1>1. /\ Tail(q) \in Seq(Line) /\ Len(Tail(q)) = Len(q) - 1 /\ Len(q) \in Nat \ {0}
      /\ \A i \in 1..(Len(q) - 1) : Tail(q)[i] = q[i + 1]
  BY HeadTailProperties, EmptySeq, LenProperties
<1>2. Chain(Tail(q))
  BY <1>1 DEF Chain
<1>3. ASSUME Whole(q) PROVE Whole(Tail(q))
  BY <1>1, <1>3, EmptySeq DEF Whole
<1>. QED  BY <1>2, <1>3

LEMMA ChainAppend ==
  ASSUME NEW q \in Seq(Line), Chain(q), Whole(q),
         NEW r \in Seq(Line), r # <<>>, Chain(r), Whole(r), Starts(r[1])
  PROVE  Chain(q \o r) /\ Whole(q \o r)
PROOF
<1>1. /\ Len(q) \in Nat /\ Len(r) \in Nat \ {0}
      /\ q \o r \in Seq(Line) /\ Len(q \o r) = Len(q) + Len(r)
      /\ \A i \in 1..Len(q) : (q \o r)[i] = q[i]
      /\ \A i \in 1..Len(r) : (q \o r)[Len(q) + i] = r[i]
  BY ConcatProperties, LenProperties, EmptySeq
<1>2. ASSUME NEW i \in 1..(Len(q \o r) - 1)
      PROVE  Linked((q \o r)[i], (q \o r)[i + 1])
  <2>1. CASE i < Len(q)
    BY <1>1, <2>1 DEF Chain
  <2>2. CASE i = Len(q)
    <3>1. (q \o r)[i] = q[Len(q)] /\ (q \o r)[i + 1] = r[1] /\ q # <<>>
      BY <1>1, <2>2
    <3>. QED  BY <3>1 DEF Whole, Starts, Linked
  <2>3. CASE i > Len(q)
    <3>. DEFINE j == i - Len(q)
    <3>1. j \in 1..(Len(r) - 1) /\ i = Len(q) + j
      BY <1>1, <2>3
    <3>2. (q \o r)[i] = r[j] /\ (q \o r)[i + 1] = r[j + 1]
      BY <1>1, <3>1
    <3>. QED  BY <3>1, <3>2 DEF Chain
  <2>. QED  BY <1>1, <2>1, <2>2, <2>3
<1>3. (q \o r)[Len(q \o r)] = r[Len(r)]
  BY <1>1
<1>. QED  BY <1>2, <1>3 DEF Chain, Whole

\* What is left of a line may stand where the line stood.
LEMMA RestLinked ==
  ASSUME NEW a \in Line
  PROVE  /\ \A b \in Line : Linked(a, b) => Linked(Rest(a), b)
         /\ Closing(a) => Closing(Rest(a))
PROOF
<1>1. Elements(a) \in Nat /\ a.owed \in Nat \ {0}
  BY ElementsNat DEF Line
<1>2. BulkHead(a) \/ a.t = "text" => Elements(a) = 0
  BY DEF BulkHead, Elements
<1>3. Closing(a) => Closing(Rest(a))
  BY <1>1, <1>2, RestLine DEF Closing
<1>4. ASSUME NEW b \in Line, Linked(a, b) PROVE Linked(Rest(a), b)
  <2>1. CASE Follows(a, b) /\ a.of = b.of
    <3>1. Follows(Rest(a), b)
      <4>. DEFINE c == Rest(a)
                  e == Elements(a)
      <4>1. /\ c.t = "text" /\ c.owed = a.owed + e /\ ~BulkHead(c) /\ Elements(c) = 0
            /\ e \in Nat /\ a.owed \in Nat /\ (BulkHead(a) \/ a.t = "text" => e = 0)
        BY <1>1, <1>2, RestLine
      <4>2. \/ BulkHead(a) /\ b.t = "text" /\ b.owed = a.owed
            \/ a.t = "text" /\ b.t = "text" /\ b.owed = a.owed
            \/ b.t # "text" /\ b.owed = a.owed - 1 + e
        BY <2>1 DEF Follows
      <4>. HIDE DEF c, e
      <4>3. Follows(c, b)
        BY <4>1, <4>2 DEF Follows
      <4>. QED  BY <4>3 DEF c
    <3>. QED  BY <2>1, <3>1, RestLine DEF Linked
  <2>2. CASE Closing(a) /\ b.owed = 1 /\ b.t # "text"
    BY <1>3, <2>2 DEF Linked
  <2>. QED  BY <1>4, <2>1, <2>2 DEF Linked
<1>. QED  BY <1>3, <1>4

LEMMA ChainRest ==
  ASSUME NEW q \in Seq(Line), q # <<>>, Chain(q)
  PROVE  /\ Chain(<<Rest(q[1])>> \o Tail(q))
         /\ Whole(q) => Whole(<<Rest(q[1])>> \o Tail(q))
PROOF
<1>. DEFINE a == q[1]
            c == Rest(q[1])
            r == <<c>> \o Tail(q)
<1>1. /\ Tail(q) \in Seq(Line) /\ Len(Tail(q)) = Len(q) - 1 /\ Len(q) \in Nat \ {0}
      /\ \A i \in 1..(Len(q) - 1) : Tail(q)[i] = q[i + 1]
      /\ \A i \in 1..Len(q) : q[i] \in Line
  BY HeadTailProperties, EmptySeq, LenProperties, ElementOfSeq
<1>2. a \in Line /\ c \in Line
  BY <1>1, RestLine
<1>3. (\A b \in Line : Linked(a, b) => Linked(c, b)) /\ (Closing(a) => Closing(c))
  BY <1>2, RestLinked
<1>. HIDE DEF a, c
<1>4. <<c>> \in Seq(Line) /\ Len(<<c>>) = 1 /\ <<c>>[1] = c
  BY <1>2
<1>. DEFINE new == <<c>>
            t == Tail(q)
<1>. HIDE DEF new
<1>5. /\ Len(new \o t) = Len(q)
      /\ \A i \in 1..1 : (new \o t)[i] = new[i]
      /\ \A i \in 1..Len(t) : (new \o t)[1 + i] = t[i]
  <2>1. new \in Seq(Line) /\ Len(new) = 1
    BY <1>4 DEF new
  <2>2. Len(new \o t) = Len(new) + Len(t)
    BY <1>1, <2>1, ConcatProperties
  <2>. QED  BY <1>1, <2>1, <2>2, ConcatProperties
<1>6. r = new \o t /\ new[1] = c
  BY <1>4 DEF new
<1>7. Len(r) = Len(q) /\ r[1] = c
  BY <1>5, <1>6
<1>8. ASSUME NEW i \in 2..Len(q) PROVE r[i] = q[i]
  <2>1. i - 1 \in 1..Len(t) /\ 1 + (i - 1) = i /\ i - 1 \in 1..(Len(q) - 1) /\ (i - 1) + 1 = i
    BY <1>1
  <2>. QED  BY <1>1, <1>5, <1>6, <2>1
<1>. HIDE DEF r
<1>9. ASSUME NEW i \in 1..(Len(r) - 1) PROVE Linked(r[i], r[i + 1])
  <2>1. Linked(q[i], q[i + 1]) /\ q[i + 1] \in Line /\ r[i + 1] = q[i + 1]
    BY <1>1, <1>7, <1>8 DEF Chain
  <2>2. CASE i = 1
    <3>1. Linked(a, q[i + 1]) /\ r[i] = c
      BY <1>7, <2>1, <2>2 DEF a
    <3>. QED  BY <1>3, <2>1, <3>1
  <2>3. CASE i # 1
    BY <1>1, <1>7, <1>8, <2>1, <2>3
  <2>. QED  BY <2>2, <2>3
<1>10. ASSUME Whole(q) PROVE Whole(r)
  <2>1. Closing(q[Len(q)])
    BY <1>10 DEF Whole
  <2>2. CASE Len(q) = 1
    <3>1. Closing(c)
      BY <1>3, <2>1, <2>2 DEF a
    <3>. QED  BY <1>7, <2>2, <3>1 DEF Whole
  <2>3. CASE Len(q) # 1
    <3>1. r[Len(q)] = q[Len(q)]
      BY <1>1, <1>8, <2>3
    <3>. QED  BY <1>7, <2>1, <3>1 DEF Whole
  <2>. QED  BY <2>2, <2>3
<1>11. Chain(r)
  BY <1>9 DEF Chain
<1>. QED  BY <1>10, <1>11 DEF r, c

LEMMA ChainPrefix ==
  ASSUME NEW q \in Seq(Line), Chain(q), NEW k \in 0..Len(q)
  PROVE  /\ Chain(SubSeq(q, 1, k)) /\ Len(SubSeq(q, 1, k)) = k
         /\ \A i \in 1..k : SubSeq(q, 1, k)[i] = q[i]
PROOF
<1>1. Len(q) \in Nat /\ \A i \in 1..Len(q) : q[i] \in Line
  BY LenProperties, ElementOfSeq
<1>2. k \in Nat /\ \A i \in 1..k : q[i] \in Line
  BY <1>1
<1>3. Len(SubSeq(q, 1, k)) = k /\ \A i \in 1..k : SubSeq(q, 1, k)[i] = q[i]
  BY <1>2, SubSeqProperties
<1>. QED  BY <1>1, <1>3 DEF Chain

\* What the server appends is a chain of its own, from a first line to a last.
LEMMA ReplyChain ==
  ASSUME NEW c \in Nat \ {0}, NEW s \in Shapes
  PROVE  /\ Chain(Reply(c, s)) /\ Whole(Reply(c, s))
         /\ Reply(c, s) # <<>> /\ Starts(Reply(c, s)[1])
         /\ ~LineBreak(s) => NoBreak(Reply(c, s))
PROOF
<1>. DEFINE r == Reply(c, s)
<1>1. /\ Len(r) = Len(s) /\ Len(s) \in Nat \ {0} /\ r \in Seq(Line)
      /\ \A i \in 1..Len(s) : r[i].of = c /\ r[i].t = s[i].t /\ r[i].n = s[i].n /\ r[i].owed = s[i].owed
  BY ReplyLines
<1>2. WellFormed(s)
  BY ShapesAssumption
<1>. HIDE DEF r
<1>3. Chain(r)
  <2>1. SUFFICES ASSUME NEW i \in 1..(Len(r) - 1) PROVE Linked(r[i], r[i + 1])
    BY DEF Chain
  <2>2. i \in 1..Len(s) /\ i + 1 \in 1..Len(s) /\ i \in 1..(Len(s) - 1)
    BY <1>1
  <2>3. Follows(s[i], s[i + 1])
    BY <1>2, <2>2 DEF WellFormed
  <2>4. r[i].of = c /\ r[i + 1].of = c
    BY <1>1, <2>2
  <2>5. /\ r[i].t = s[i].t /\ r[i].n = s[i].n /\ r[i].owed = s[i].owed
        /\ r[i + 1].t = s[i + 1].t /\ r[i + 1].owed = s[i + 1].owed
    BY <1>1, <2>2
  <2>6. Follows(r[i], r[i + 1])
    BY <2>3, <2>5 DEF Follows, BulkHead, Elements
  <2>. QED  BY <2>4, <2>6 DEF Linked
<1>4. Whole(r)
  BY <1>1, <1>2 DEF Whole, WellFormed, Closing, BulkHead, Elements
<1>5. r # <<>> /\ Starts(r[1])
  BY <1>1, <1>2, EmptySeq DEF Starts, WellFormed
<1>6. ~LineBreak(s) => NoBreak(r)
  BY <1>1 DEF LineBreak, NoBreak
<1>. QED  BY <1>3, <1>4, <1>5, <1>6 DEF r

LEMMA StatusLineChain ==
  ASSUME NEW c \in Nat \ {0}
  PROVE  /\ <<StatusLine(c)>> \in Seq(Line) /\ <<StatusLine(c)>> # <<>>
         /\ Chain(<<StatusLine(c)>>) /\ Whole(<<StatusLine(c)>>)
         /\ Starts(<<StatusLine(c)>>[1]) /\ NoBreak(<<StatusLine(c)>>)
PROOF
  BY StatusLineType DEF Chain, Whole, Starts, NoBreak, StatusLine, Closing, BulkHead, Elements

-----------------------------------------------------------------------------
LEMMA ConnectionNext == TypeOK /\ ConnectionInv /\ [Next]_vars => ConnectionInv'
PROOF
<1>. SUFFICES ASSUME TypeOK, ConnectionInv, [Next]_vars
              PROVE  ConnectionInv'
  OBVIOUS
<1>. USE DEF ConnectionInv
<1>1. CASE Open \/ OpenFails \/ Close \/ Quit
  BY <1>1 DEF Open, OpenFails, Close, Quit, Hangup, wireVars, readVars
<1>2. CASE Read
  <2>1. toClient # <<>> \/ reading # 0
    BY <1>2 DEF Read, ReadHeader, ReadBody, ReadEOF, ReadTimeout
  <2>2. UNCHANGED <<connVars, monitoring, toServer>>
    BY <1>2 DEF Read, ReadHeader, ReadBody, ReadEOF, ReadTimeout, FgetsFails, wireVars
  <2>. QED  BY <2>1, <2>2 DEF connVars
<1>3. CASE \E class \in Classes : Send(class)
  BY <1>3 DEF Send, Write, connVars
<1>4. ASSUME NEW p \in Pipelines, Flush(p) \/ \E class \in Classes : PipelineSend(p, class)
      PROVE  ConnectionInv'
  BY <1>4 DEF Flush, PipelineSend, WriteBatch, Write, connVars, readVars
<1>5. CASE Server
  <2>1. connected
    BY <1>5 DEF Server, Serve, ServeMonitor, ServeLast, MonitorLine, Drop
  <2>2. CASE Serve \/ ServeMonitor \/ MonitorLine
    BY <2>1, <2>2 DEF Serve, ServeMonitor, MonitorLine, connVars
  <2>3. CASE ServeLast \/ Drop
    BY <2>1, <2>3 DEF ServeLast, Drop, Hangup
  <2>. QED  BY <1>5, <2>2, <2>3 DEF Server
<1>6. CASE UNCHANGED vars
  BY <1>6 DEF vars, connVars, wireVars, readVars
<1>. QED  BY <1>1, <1>2, <1>3, <1>4, <1>5, <1>6 DEF Next, Client

\* What a step does to the unread lines: the server appends one whole reply
\* while the peer is there, or a hang-up cuts what was on its way.
WireGrows ==
  /\ peer
  /\ \E r \in Seq(Line) : /\ r # <<>> /\ Chain(r) /\ Whole(r) /\ Starts(r[1])
                          /\ NoBreak(r) \/ "line break" \in causes'
                          /\ toClient' = toClient \o r
WireCut == ~peer' /\ \E k \in 0..Len(toClient) : toClient' = SubSeq(toClient, 1, k)

LEMMA WireServer ==
  ASSUME TypeOK, ConnectionInv, Server
  PROVE  (toClient' = toClient \/ WireGrows \/ (Drop /\ WireCut)) /\ (peer' => peer)
PROOF
<1>1. ASSUME NEW c \in Nat \ {0}, toClient' = Append(toClient, StatusLine(c)), peer
      PROVE  WireGrows
  <2>1. toClient' = toClient \o <<StatusLine(c)>>
    BY <1>1, StatusLineType, AppendIsConcat DEF TypeOK, WireType
  <2>. QED  BY <1>1, <2>1, StatusLineChain DEF WireGrows
<1>2. toServer # <<>> => peer /\ Head(toServer).id \in Nat \ {0}
  BY FirstCall DEF ConnectionInv, Call
<1>3. monitoring # 0 => peer /\ monitoring \in Nat \ {0}
  BY DEF ConnectionInv, TypeOK, WireType
<1>4. CASE Serve
  <2>1. PICK s \in Shapes :
          /\ toClient' = toClient \o Reply(Head(toServer).id, s)
          /\ LineBreak(s) => "line break" \in causes'
    BY <1>4 DEF Serve
  <2>2. toServer # <<>> /\ peer' = peer
    BY <1>4 DEF Serve, connVars
  <2>. QED  BY <1>2, <2>1, <2>2, ReplyChain, ReplyLines DEF WireGrows
<1>5. CASE ServeMonitor
  BY <1>1, <1>2, <1>5 DEF ServeMonitor, connVars
<1>6. CASE ServeLast
  BY <1>1, <1>2, <1>6 DEF ServeLast, Hangup
<1>7. CASE MonitorLine
  BY <1>1, <1>3, <1>7 DEF MonitorLine, connVars
<1>8. CASE Drop
  BY <1>8 DEF Drop, Hangup, WireCut
<1>. QED  BY <1>4, <1>5, <1>6, <1>7, <1>8 DEF Server

LEMMA WireNext == TypeOK /\ ConnectionInv /\ WireInv /\ [Next]_vars => WireInv'
PROOF
<1>. SUFFICES ASSUME TypeOK, ConnectionInv, Chain(toClient), peer => Whole(toClient), [Next]_vars
              PROVE  Chain(toClient') /\ (peer' => Whole(toClient'))
  BY WireInvChain DEF WireInv, Chain, Whole
<1>1. toClient \in Seq(Line) /\ peer \in BOOLEAN
  BY DEF TypeOK, WireType, ConnType
<1>2. ASSUME toClient' = toClient, peer' => peer \/ toClient = <<>>
      PROVE  Chain(toClient') /\ (peer' => Whole(toClient'))
  BY <1>2 DEF Whole
<1>3. CASE Open \/ OpenFails
  BY <1>2, <1>3 DEF ConnectionInv, Open, OpenFails, wireVars
<1>4. CASE Close \/ Quit
  BY <1>4 DEF Close, Quit, Hangup, Chain
<1>5. CASE ReadHeader \/ ReadBody
  <2>1. /\ toClient # <<>> /\ peer' = peer
        /\ toClient' = Tail(toClient) \/ toClient' = <<Rest(toClient[1])>> \o Tail(toClient)
    BY <1>5, FirstLine DEF ReadHeader, ReadBody, connVars
  <2>. QED  BY <1>1, <2>1, ChainTail, ChainRest
<1>6. CASE ReadEOF \/ ReadTimeout
  BY <1>2, <1>6 DEF ReadEOF, ReadTimeout, FgetsFails, connVars, wireVars
<1>7. CASE \E class \in Classes : Send(class)
  BY <1>2, <1>7 DEF Send, connVars
<1>8. CASE \E p \in Pipelines : Flush(p) \/ \E class \in Classes : PipelineSend(p, class)
  BY <1>2, <1>8 DEF Flush, PipelineSend, connVars
<1>9. CASE Server
  <2>1. CASE toClient' = toClient
    BY <1>2, <1>9, <2>1, WireServer
  <2>2. CASE WireGrows
    BY <1>1, <2>2, ChainAppend DEF WireGrows
  <2>3. CASE WireCut
    BY <1>1, <2>3, ChainPrefix DEF WireCut
  <2>. QED  BY <1>9, <2>1, <2>2, <2>3, WireServer
<1>10. CASE UNCHANGED vars
  BY <1>2, <1>10 DEF vars, connVars, wireVars
<1>. QED
  BY <1>3, <1>4, <1>5, <1>6, <1>7, <1>8, <1>9, <1>10 DEF Next, Client, Read

-----------------------------------------------------------------------------
(* The reader against the line in front of it.                             *)

\* The line behind the first one, when the first one is consumed.
LEMMA SecondLine ==
  ASSUME TypeOK, WireInv, toClient # <<>>, toClient' = Tail(toClient), peer' = peer
  PROVE  /\ toClient[1] \in Line
         /\ toClient' # <<>> => toClient'[1] \in Line /\ Linked(toClient[1], toClient'[1])
         /\ toClient' = <<>> /\ peer' => Closing(toClient[1])
PROOF
<1>1. /\ toClient[1] \in Line /\ toClient' \in Seq(Line)
      /\ Len(toClient') = Len(toClient) - 1 /\ Len(toClient) \in Nat \ {0}
      /\ \A i \in 1..(Len(toClient) - 1) : toClient'[i] = toClient[i + 1]
  BY FirstLine
<1>2. CASE Len(toClient) = 1
  BY <1>1, <1>2, EmptySeq DEF WireInv
<1>3. CASE Len(toClient) > 1
  <2>1. toClient'[1] = toClient[2] /\ toClient' # <<>> /\ Len(toClient') >= 1
    <3>1. 1 \in 1..(Len(toClient) - 1) /\ 1 + 1 = 2
      BY <1>1, <1>3
    <3>2. toClient'[1] = toClient[2]
      BY <1>1, <3>1
    <3>3. Len(toClient') >= 1
      BY <1>1, <1>3
    <3>4. toClient' # <<>>
      BY <3>3, EmptySeq
    <3>. QED  BY <3>2, <3>3, <3>4
  <2>2. Linked(toClient[1], toClient[2])
    BY <1>1, <1>3 DEF WireInv
  <2>3. toClient'[1] \in Line
    BY <1>1, <2>1, ElementOfSeq
  <2>. QED  BY <1>1, <2>1, <2>2, <2>3
<1>. QED  BY <1>1, <1>2, <1>3

LEMMA ReaderReturn ==
  ASSUME NEW o, NEW g, Return(o, g)
  PROVE  ReaderInv'
PROOF
  BY DEF Return, ReaderInv, InReply

LEMMA ReaderContinue ==
  ASSUME NEW left \in Nat, NEW g, reading # 0, Continue(left, g),
         left # 0 =>
           /\ toClient' # <<>> => left <= toClient'[1].owed /\ g \subseteq {toClient'[1].of, 0}
           /\ toClient' = <<>> => ~peer'
  PROVE  ReaderInv'
PROOF
<1>1. CASE left = 0
  BY <1>1, ReaderReturn DEF Continue
<1>2. CASE left # 0
  <2>1. owed' = left /\ inBody' = FALSE /\ got' = g /\ reading' = reading
    BY <1>2 DEF Continue
  <2>2. stray' = FALSE
    BY <1>2 DEF Continue
  <2>. QED  BY <1>2, <2>1, <2>2 DEF ReaderInv, InReply
<1>. QED  BY <1>1, <1>2

\* A read that has taken text for a header, or goes on behind it, owes nothing
\* to the lines in front of it.
LEMMA ReaderStrays ==
  ASSUME ReaderInv, reading # 0, NEW g, Strayed \in g,
         \/ \E o : Return(o, g)
         \/ inBody' = TRUE /\ got' = g /\ UNCHANGED <<reading, owed>>
         \/ \E left \in Nat : Continue(left, g)
  PROVE  ReaderInv'
PROOF
<1>1. CASE \E o : Return(o, g)
  BY <1>1, ReaderReturn
<1>2. CASE inBody' = TRUE /\ got' = g /\ UNCHANGED <<reading, owed>>
  BY <1>2 DEF ReaderInv
<1>3. ASSUME NEW left \in Nat, Continue(left, g)
      PROVE  ReaderInv'
  <2>1. CASE left = 0
    BY <1>3, <2>1, ReaderReturn DEF Continue
  <2>2. CASE left # 0
    BY <1>3, <2>2 DEF Continue, ReaderInv
  <2>. QED  BY <2>1, <2>2
<1>. QED  BY <1>1, <1>2, <1>3

\* A reader that consumes a line other than a bulk header and then expects no
\* more than that line leaves of its reply is still behind the next line.
LEMMA ReaderConsume ==
  ASSUME TypeOK, WireInv, toClient # <<>>, toClient' = Tail(toClient), peer' = peer,
         reading # 0, ~BulkHead(toClient[1]),
         NEW left \in Nat, left <= toClient[1].owed - 1 + Elements(toClient[1]),
         NEW g, g \subseteq {toClient[1].of, 0}, Continue(left, g)
  PROVE  ReaderInv'
PROOF
<1>1. toClient[1] \in Line /\ Elements(toClient[1]) \in Nat
  BY SecondLine, ElementsNat
<1>2. ASSUME left # 0 PROVE ~Closing(toClient[1])
  BY <1>1, <1>2 DEF Closing, Line
<1>3. ASSUME left # 0, toClient' # <<>>
      PROVE  left <= toClient'[1].owed /\ g \subseteq {toClient'[1].of, 0}
  <2>1. toClient[1].of = toClient'[1].of /\ Follows(toClient[1], toClient'[1]) /\ toClient'[1] \in Line
    BY <1>2, <1>3, SecondLine DEF Linked
  <2>2. toClient[1].t = "text" => Elements(toClient[1]) = 0
    BY DEF Elements
  <2>3. toClient[1].owed \in Nat /\ toClient'[1].owed \in Nat
    BY <1>1, <2>1 DEF Line
  <2>4. \/ Elements(toClient[1]) = 0 /\ toClient'[1].owed = toClient[1].owed
        \/ toClient'[1].owed = toClient[1].owed - 1 + Elements(toClient[1])
    BY <2>1, <2>2 DEF Follows
  <2>5. left <= toClient'[1].owed
    <3>. DEFINE a == toClient[1].owed
                b == toClient'[1].owed
                e == Elements(toClient[1])
    <3>1. a \in Nat /\ b \in Nat /\ e \in Nat /\ left <= a - 1 + e
      BY <1>1, <2>3
    <3>2. (e = 0 /\ b = a) \/ b = a - 1 + e
      BY <2>4
    <3>. HIDE DEF a, b, e
    <3>3. left <= b
      BY <3>1, <3>2
    <3>. QED  BY <3>3 DEF b
  <2>. QED  BY <2>1, <2>5
<1>4. ASSUME left # 0, toClient' = <<>> PROVE ~peer'
  BY <1>2, <1>4, SecondLine
<1>. QED  BY <1>3, <1>4, ReaderContinue

\* What the switch of read() makes of a line: it ends the read, goes on to the
\* body of a bulk reply, or goes on to the next (sub)reply.
LEMMA HeaderSteps ==
  ASSUME TypeOK, ReadHeader
  PROVE  /\ reading # 0 /\ ~inBody /\ toClient # <<>> /\ toClient' = Tail(toClient)
         /\ toClient[1] = Head(toClient) /\ toClient[1] \in Line
         /\ UNCHANGED <<peer, monitoring, toServer, calls, causes>>
         /\ \E l \in Seen(toClient[1]), g \in SUBSET (got \cup {toClient[1].of, Strayed}) :
              /\ got \cup {toClient[1].of} \subseteq g
              /\ Strayed \in g <=> Strayed \in got \/ (toClient[1].t = "text" /\ Opens(l))
              /\ l \in Line /\ (toClient[1].t # "text" => l = toClient[1])
              /\ \/ l.t = "-" /\ Return("RedisServerException", g)
                 \/ l.t = "text" /\ Return("RuntimeException", g)
                 \/ /\ BulkHead(l) /\ inBody' = TRUE /\ stray' = (toClient[1].t = "text")
                    /\ got' = g /\ UNCHANGED <<reading, owed, result>>
                 \/ /\ l.t \notin {"-", "text"} /\ ~BulkHead(l)
                    /\ Continue(owed - 1 + Elements(l), g)
PROOF
<1>1. reading # 0 /\ ~inBody /\ toClient # <<>> /\ toClient' = Tail(toClient)
  BY DEF ReadHeader
<1>2. UNCHANGED <<peer, monitoring, toServer, calls, causes>>
  BY DEF ReadHeader, connVars, histVars
<1>3. toClient[1] = Head(toClient) /\ toClient[1] \in Line
  BY <1>1, FirstLine
<1>. DEFINE a == toClient[1]
            G(l) == got \cup {l.of} \cup (IF a.t = "text" /\ Opens(l) THEN {Strayed} ELSE {})
<1>4. PICK l \in Seen(a) :
        \/ l.t = "-" /\ Return("RedisServerException", G(l))
        \/ l.t = "text" /\ Return("RuntimeException", G(l))
        \/ /\ BulkHead(l) /\ inBody' = TRUE /\ stray' = (a.t = "text")
           /\ got' = G(l) /\ UNCHANGED <<reading, owed, result>>
        \/ l.t \notin {"-", "text"} /\ ~BulkHead(l) /\ Continue(owed - 1 + Elements(l), G(l))
  BY <1>3 DEF ReadHeader, Loop
<1>5. l \in Line /\ l.of = a.of /\ (a.t # "text" => l = a)
  BY <1>3, SeenLine
<1>6. l.of # Strayed
  BY <1>5 DEF Line, Strayed
<1>7. /\ G(l) \in SUBSET (got \cup {a.of, Strayed}) /\ got \cup {a.of} \subseteq G(l)
      /\ Strayed \in G(l) <=> Strayed \in got \/ (a.t = "text" /\ Opens(l))
  BY <1>5, <1>6
<1>. HIDE DEF a, G
<1>8. \E m \in Seen(a), g \in SUBSET (got \cup {a.of, Strayed}) :
        /\ got \cup {a.of} \subseteq g
        /\ Strayed \in g <=> Strayed \in got \/ (a.t = "text" /\ Opens(m))
        /\ m \in Line /\ (a.t # "text" => m = a)
        /\ \/ m.t = "-" /\ Return("RedisServerException", g)
           \/ m.t = "text" /\ Return("RuntimeException", g)
           \/ /\ BulkHead(m) /\ inBody' = TRUE /\ stray' = (a.t = "text")
              /\ got' = g /\ UNCHANGED <<reading, owed, result>>
           \/ m.t \notin {"-", "text"} /\ ~BulkHead(m) /\ Continue(owed - 1 + Elements(m), g)
  BY <1>4, <1>5, <1>7
<1>. QED  BY <1>1, <1>2, <1>3, <1>8 DEF a

LEMMA BodySteps ==
  ASSUME TypeOK, ReaderInv, ReadBody
  PROVE  /\ reading # 0 /\ inBody /\ toClient # <<>>
         /\ toClient[1] = Head(toClient) /\ toClient[1] \in Line
         /\ UNCHANGED <<peer, monitoring, toServer, calls, causes>>
         /\ Continue(owed - 1, got \cup {toClient[1].of})
         /\ \/ toClient' = Tail(toClient)
            \/ Strayed \in got /\ toClient' = <<Rest(toClient[1])>> \o Tail(toClient)
PROOF
<1>1. reading # 0 /\ inBody /\ toClient # <<>>
  BY DEF ReadBody
<1>2. toClient[1] = Head(toClient) /\ toClient[1] \in Line
  BY <1>1, FirstLine
<1>. QED  BY <1>1, <1>2 DEF ReadBody, ReaderInv, InReply, connVars, histVars

LEMMA ReaderRead ==
  ASSUME TypeOK, WireInv, ReaderInv, Read
  PROVE  ReaderInv'
PROOF
<1>1. reading # 0 /\ owed \in Nat \ {0} /\ owed - 1 \in Nat
  BY DEF TypeOK, ReadType, ReaderInv, Read, ReadHeader, ReadBody, ReadEOF, ReadTimeout
<1>2. ASSUME toClient # <<>>, Strayed \notin got
      PROVE  /\ owed <= toClient[1].owed /\ got \subseteq {toClient[1].of, 0}
             /\ toClient[1].owed \in Nat \ {0} /\ Elements(toClient[1]) \in Nat
             /\ inBody => toClient[1].t = "text"
  BY <1>1, <1>2, FirstLine, ElementsNat DEF ReaderInv, InReply, Line
<1>3. CASE ReadHeader
  <2>. DEFINE a == toClient[1]
  <2>1. /\ toClient # <<>> /\ toClient' = Tail(toClient) /\ peer' = peer /\ a \in Line
    BY <1>3, HeaderSteps
  <2>2. PICK l \in Seen(a), g \in SUBSET (got \cup {a.of, Strayed}) :
          /\ Strayed \in g <=> Strayed \in got \/ (a.t = "text" /\ Opens(l))
          /\ l \in Line /\ (a.t # "text" => l = a)
          /\ \/ \E o : Return(o, g)
             \/ BulkHead(l) /\ inBody' = TRUE /\ stray' = (a.t = "text") /\ got' = g /\ UNCHANGED <<reading, owed>>
             \/ ~BulkHead(l) /\ Continue(owed - 1 + Elements(l), g)
    BY <1>3, HeaderSteps
  <2>3. owed - 1 + Elements(l) \in Nat
    BY <1>1, <2>2, ElementsNat
  <2>4. CASE \E o : Return(o, g)
    BY <2>4, ReaderReturn
  <2>5. CASE Strayed \in g
    BY <1>1, <2>2, <2>3, <2>5, ReaderStrays
  <2>6. CASE Strayed \notin g
    <3>1. Strayed \notin got /\ g \subseteq {a.of, 0}
      BY <1>2, <2>1, <2>2, <2>6
    <3>2. CASE BulkHead(l) /\ inBody' = TRUE /\ stray' = (a.t = "text") /\ got' = g /\ UNCHANGED <<reading, owed>>
      <4>1. a.t # "text" /\ l = a /\ BulkHead(a)
        BY <2>2, <2>6, <3>2 DEF Opens
      <4>2. ~Closing(a) /\ stray' = FALSE
        BY <3>2, <4>1 DEF Closing
      <4>3. toClient' # <<>> => toClient'[1].t = "text" /\ toClient'[1].owed = a.owed /\ toClient'[1].of = a.of
        BY <2>1, <4>1, <4>2, SecondLine DEF Linked, Follows, BulkHead
      <4>4. toClient' = <<>> => ~peer'
        BY <2>1, <4>2, SecondLine
      <4>5. owed <= a.owed
        BY <1>2, <2>1, <3>1
      <4>. QED  BY <1>1, <3>1, <3>2, <4>2, <4>3, <4>4, <4>5 DEF ReaderInv, InReply
    <3>3. CASE ~BulkHead(l) /\ Continue(owed - 1 + Elements(l), g)
      <4>1. a.t = "text" => Elements(l) = 0
        BY <2>2, <2>6, ElementsNat DEF Opens
      <4>2. Elements(l) = Elements(a) /\ ~BulkHead(a)
        BY <2>2, <3>3, <4>1 DEF Elements, BulkHead
      <4>. DEFINE e == Elements(l)
      <4>3. owed \in Nat /\ a.owed \in Nat /\ e \in Nat /\ owed <= a.owed
        BY <1>1, <1>2, <2>1, <2>2, <3>1, ElementsNat
      <4>. HIDE DEF e
      <4>4. owed - 1 + e <= a.owed - 1 + e
        BY <4>3
      <4>5. owed - 1 + Elements(l) <= a.owed - 1 + Elements(a)
        BY <4>2, <4>4 DEF e
      <4>. QED  BY <1>1, <2>1, <2>3, <3>1, <3>3, <4>2, <4>5, ReaderConsume
    <3>. QED  BY <2>2, <2>4, <3>2, <3>3
  <2>. QED  BY <2>5, <2>6
<1>4. CASE ReadBody
  <2>. DEFINE a == toClient[1]
              g == got \cup {a.of}
  <2>1. /\ toClient # <<>> /\ peer' = peer /\ inBody /\ a \in Line /\ Continue(owed - 1, g)
        /\ Strayed \notin got => toClient' = Tail(toClient)
    BY <1>4, BodySteps
  <2>2. CASE Strayed \in got
    <3>1. Strayed \in g
      BY <2>2
    <3>. HIDE DEF g
    <3>. QED  BY <1>1, <2>1, <3>1, ReaderStrays
  <2>3. CASE Strayed \notin got
    <3>1. a.t = "text" /\ owed <= a.owed /\ g \subseteq {a.of, 0}
      BY <1>2, <2>1, <2>3
    <3>2. ~BulkHead(a) /\ Elements(a) = 0 /\ owed - 1 <= a.owed - 1 + Elements(a)
      BY <1>1, <1>2, <2>1, <2>3, <3>1 DEF BulkHead, Elements
    <3>. HIDE DEF g
    <3>. QED  BY <1>1, <2>1, <2>3, <3>1, <3>2, ReaderConsume
  <2>. QED  BY <2>2, <2>3
<1>5. CASE ReadEOF \/ ReadTimeout
  <2>. DEFINE g == got \cup {0}
  <2>1. /\ toClient' = toClient /\ peer' = peer /\ (ReadEOF => toClient = <<>> /\ ~peer)
        /\ IF inBody THEN Continue(owed - 1, g) ELSE \E o : Return(o, got)
    BY <1>5 DEF ReadEOF, ReadTimeout, FgetsFails, connVars, wireVars
  <2>2. CASE ~inBody
    BY <2>1, <2>2, ReaderReturn
  <2>3. CASE inBody /\ Strayed \in got
    <3>1. Strayed \in g
      BY <2>3
    <3>. HIDE DEF g
    <3>. QED  BY <1>1, <2>1, <2>3, <3>1, ReaderStrays
  <2>4. CASE inBody /\ Strayed \notin got
    <3>1. CASE toClient = <<>>
      <4>1. ~peer
        BY <1>1, <2>4, <3>1 DEF ReaderInv, InReply
      <4>. QED  BY <1>1, <2>1, <2>4, <3>1, <4>1, ReaderContinue
    <3>2. CASE toClient # <<>>
      <4>1. owed - 1 <= toClient[1].owed /\ g \subseteq {toClient[1].of, 0}
        BY <1>1, <1>2, <2>4, <3>2
      <4>. HIDE DEF g
      <4>. QED  BY <1>1, <2>1, <2>4, <3>2, <4>1, ReaderContinue
    <3>. QED  BY <3>1, <3>2
  <2>. QED  BY <2>2, <2>3, <2>4
<1>. QED  BY <1>3, <1>4, <1>5 DEF Read

LEMMA ReaderServer ==
  ASSUME TypeOK, ConnectionInv, ReaderInv, Server
  PROVE  ReaderInv'
PROOF
<1>1. UNCHANGED <<reading, owed, inBody, stray, got>>
  BY DEF Server, Serve, ServeMonitor, ServeLast, MonitorLine, Drop, readVars
<1>2. CASE reading = 0
  BY <1>1, <1>2 DEF ReaderInv, InReply
<1>3. CASE reading # 0 /\ toClient' = toClient
  BY <1>1, <1>3, WireServer DEF ReaderInv, InReply
<1>4. CASE reading # 0 /\ WireGrows
  <2>1. PICK r \in Seq(Line) : r # <<>> /\ Starts(r[1]) /\ toClient' = toClient \o r
    BY <1>4 DEF WireGrows
  <2>2. toClient \in Seq(Line) /\ peer
    BY <1>4 DEF TypeOK, WireType, WireGrows
  <2>3. CASE toClient = <<>>
    <3>1. toClient' = r /\ (Strayed \notin got => owed = 1 /\ ~inBody /\ got = {})
      BY <1>4, <2>1, <2>2, <2>3, ConcatEmptySeq DEF ReaderInv, InReply
    <3>. QED  BY <1>1, <2>1, <3>1 DEF ReaderInv, InReply, Starts
  <2>4. CASE toClient # <<>>
    <3>1. toClient'[1] = toClient[1] /\ toClient' # <<>>
      BY <2>1, <2>2, <2>4, ConcatProperties, LenProperties, EmptySeq
    <3>. QED  BY <1>1, <1>4, <2>4, <3>1 DEF ReaderInv, InReply
  <2>. QED  BY <2>3, <2>4
<1>5. CASE reading # 0 /\ WireCut
  <2>1. PICK k \in 0..Len(toClient) : toClient' = SubSeq(toClient, 1, k)
    BY <1>5 DEF WireCut
  <2>2. CASE toClient' = <<>>
    BY <1>1, <1>5, <2>2 DEF ReaderInv, InReply, WireCut
  <2>3. CASE toClient' # <<>>
    <3>1. toClient \in Seq(Line) /\ \A i \in 1..Len(toClient) : toClient[i] \in Line
      BY ElementOfSeq, LenProperties DEF TypeOK, WireType
    <3>2. toClient' \in Seq(Line) /\ Len(toClient') = k /\ \A i \in 1..k : toClient'[i] = toClient[i]
      BY <2>1, <3>1, SubSeqProperties
    <3>3. 1 \in 1..k /\ toClient # <<>>
      BY <2>1, <2>3, <3>1, <3>2, EmptySeq, LenProperties
    <3>. QED  BY <1>1, <1>5, <2>3, <3>2, <3>3 DEF ReaderInv, InReply
  <2>. QED  BY <2>2, <2>3
<1>. QED  BY <1>2, <1>3, <1>4, <1>5, WireServer

LEMMA ReaderNext == TypeOK /\ ConnectionInv /\ WireInv /\ ReaderInv /\ [Next]_vars => ReaderInv'
PROOF
<1>. SUFFICES ASSUME TypeOK, ConnectionInv, WireInv, ReaderInv, [Next]_vars
              PROVE  ReaderInv'
  OBVIOUS
<1>1. ASSUME reading = 0, UNCHANGED <<reading, owed, inBody, stray, got>>
      PROVE  ReaderInv'
  BY <1>1 DEF ReaderInv, InReply
<1>2. CASE Open \/ OpenFails \/ Close \/ Quit
  BY <1>1, <1>2 DEF Open, OpenFails, Close, Quit, ConnectionInv, readVars
<1>3. CASE Read
  BY <1>3, ReaderRead
<1>4. CASE \E class \in Classes : Send(class)
  <2>1. /\ reading' # 0 /\ owed' = 1 /\ inBody' = FALSE /\ got' = {} /\ toClient' = toClient
        /\ stray' = FALSE
    BY <1>4 DEF Send, TypeOK, HistType, ReaderInv, InReply
  <2>2. toClient # <<>> => toClient[1].owed \in Nat \ {0}
    BY FirstLine DEF Line
  <2>. QED  BY <2>1, <2>2 DEF ReaderInv, InReply
<1>5. CASE \E p \in Pipelines : Flush(p) \/ \E class \in Classes : PipelineSend(p, class)
  BY <1>1, <1>5 DEF Flush, PipelineSend, readVars
<1>6. CASE Server
  BY <1>6, ReaderServer
<1>7. CASE UNCHANGED vars
  BY <1>7 DEF ReaderInv, InReply, vars, connVars, wireVars, readVars
<1>. QED  BY <1>2, <1>3, <1>4, <1>5, <1>6, <1>7 DEF Next, Client

-----------------------------------------------------------------------------
(* A read() never mixes the lines of two calls.                            *)

\* A read step that has used the lines of the calls in g: it goes on, or
\* hands them to result.
Uses(g) ==
  got' \in {{}, g} /\ (result' = result \/ (result'.got = g /\ result'.call = reading))

LEMMA ReadUses ==
  ASSUME TypeOK, ReaderInv, Read
  PROVE  \E g : /\ Uses(g) /\ got \subseteq g
                /\ g \subseteq got \cup {0} \/ (\E c : g \subseteq {c, 0}) \/ Strayed \in g
PROOF
<1>1. ASSUME NEW o, NEW g, Return(o, g)
      PROVE  Uses(g)
  BY <1>1 DEF Return, Uses
<1>2. ASSUME NEW left, NEW g, Continue(left, g)
      PROVE  Uses(g)
  BY <1>1, <1>2 DEF Continue, Uses
<1>3. ASSUME reading # 0, toClient # <<>>, Strayed \notin got
      PROVE  got \subseteq {toClient[1].of, 0}
  BY <1>3 DEF ReaderInv, InReply
<1>4. CASE ReadHeader
  <2>1. PICK g \in SUBSET (got \cup {toClient[1].of, Strayed}) :
          /\ got \subseteq g
          /\ (\E o : Return(o, g)) \/ (got' = g /\ result' = result) \/ (\E left : Continue(left, g))
    BY <1>4, HeaderSteps
  <2>2. Uses(g)
    BY <1>1, <1>2, <2>1 DEF Uses
  <2>3. Strayed \notin g => g \subseteq {toClient[1].of, 0}
    BY <1>3, <1>4, <2>1, HeaderSteps
  <2>4. got \subseteq g
    BY <2>1
  <2>. QED  BY <2>2, <2>3, <2>4
<1>5. CASE ReadBody
  <2>. DEFINE g == got \cup {toClient[1].of}
  <2>1. \E left : Continue(left, g)
    BY <1>5, BodySteps
  <2>2. Strayed \notin got => g \subseteq {toClient[1].of, 0}
    BY <1>3, <1>5, BodySteps
  <2>3. got \subseteq g /\ Uses(g)
    BY <1>2, <2>1
  <2>. HIDE DEF g
  <2>. QED  BY <2>2, <2>3
<1>6. CASE ReadEOF \/ ReadTimeout
  <2>1. Continue(owed - 1, got \cup {0}) \/ Return("RuntimeException", got)
    BY <1>6 DEF ReadEOF, ReadTimeout, FgetsFails
  <2>. QED  BY <1>1, <1>2, <2>1
<1>. QED  BY <1>4, <1>5, <1>6 DEF Read

\* got and result change only in a read, except that they are emptied.
LEMMA GotStep ==
  ASSUME [Next]_vars, ~Read
  PROVE  got' \in {{}, got} /\ (result' = result \/ result'.got = {})
PROOF
<1>1. CASE Open \/ OpenFails \/ Close \/ Quit
  BY <1>1 DEF Open, OpenFails, Close, Quit, readVars, NoResult
<1>2. CASE \E class \in Classes : Send(class)
  BY <1>2 DEF Send
<1>3. CASE \E p \in Pipelines : Flush(p) \/ \E class \in Classes : PipelineSend(p, class)
  BY <1>3 DEF Flush, PipelineSend, readVars
<1>4. CASE Server
  BY <1>4 DEF Server, Serve, ServeMonitor, ServeLast, MonitorLine, Drop, readVars
<1>5. CASE UNCHANGED vars
  BY <1>5 DEF vars, readVars
<1>. QED  BY <1>1, <1>2, <1>3, <1>4, <1>5 DEF Next, Client

LEMMA NoMixedNext ==
  TypeOK /\ ReaderInv /\ NoMixedReply /\ [Next]_vars /\ TextInv' => NoMixedReply'
PROOF
<1>. SUFFICES ASSUME TypeOK, ReaderInv, NoMixedReply, [Next]_vars, TextInv'
              PROVE  NoMixedReply'
  OBVIOUS
<1>. DEFINE Pure(g) == Strayed \in g \/ \A c, d \in g \ Marks : c = d
<1>1. Pure(got) /\ Pure(result.got)
  BY DEF NoMixedReply
<1>2. \A g, x : g \subseteq {x, 0} => Pure(g)
  BY DEF Marks
<1>3. ASSUME NEW g, g \subseteq got \cup {0}, got \subseteq g
      PROVE  Pure(g)
  BY <1>1, <1>3 DEF Marks
<1>4. Pure({})
  OBVIOUS
<1>5. ASSUME NEW g, Strayed \in g PROVE Pure(g)
  BY <1>5
<1>. HIDE DEF Pure
<1>6. Pure(got') /\ Pure(result'.got)
  <2>1. CASE Read
    <3>1. PICK g : /\ Uses(g) /\ got \subseteq g
                   /\ (g \subseteq got \cup {0} \/ (\E c : g \subseteq {c, 0}) \/ Strayed \in g)
      BY <2>1, ReadUses
    <3>2. Pure(g)
      BY <1>2, <1>3, <1>5, <3>1
    <3>. QED  BY <1>1, <1>4, <3>1, <3>2 DEF Uses
  <2>2. CASE ~Read
    BY <1>1, <1>4, <2>2, GotStep
  <2>. QED  BY <2>1, <2>2
<1>7. Strayed \in got' \cup result'.got => TextLeft'
  BY DEF TextInv
<1>. QED  BY <1>6, <1>7 DEF Pure, NoMixedReply

-----------------------------------------------------------------------------
(* Reader and wires stay in step as long as nothing has gone wrong.        *)

\* History: a cause is forgotten only when a new connection is opened.
LEMMA CausesGrow ==
  ASSUME [Next]_vars, ~Open
  PROVE  causes \subseteq causes'
PROOF
<1>1. CASE OpenFails \/ Close \/ Quit
  BY <1>1 DEF OpenFails, Close, Quit, histVars
<1>2. CASE Read
  BY <1>2 DEF Read, ReadHeader, ReadBody, ReadEOF, ReadTimeout, histVars
<1>3. CASE \E class \in Classes : Send(class)
  BY <1>3 DEF Send
<1>4. CASE \E p \in Pipelines : Flush(p) \/ \E class \in Classes : PipelineSend(p, class)
  BY <1>4 DEF Flush, PipelineSend, WriteBatch
<1>5. CASE Server
  BY <1>5 DEF Server, Serve, ServeMonitor, ServeLast, MonitorLine, Drop, histVars
<1>6. CASE UNCHANGED vars
  BY <1>6 DEF vars, histVars
<1>. QED  BY <1>1, <1>2, <1>3, <1>4, <1>5, <1>6 DEF Next, Client

\* Until a value has a line break, or its body comes late, the reader meets
\* text only where it expects the body of a bulk reply.
Guarded(q, b) == (q # <<>> /\ q[1].t = "text" => b) /\ NoBreak(q)

LEMMA TextInvGuarded ==
  TextInv <=> (~TextLeft => Guarded(toClient, inBody) /\ Strayed \notin got \cup result.got)
PROOF
  BY DEF TextInv, Guarded, NoBreak

LEMMA TextRead ==
  ASSUME TypeOK, WireInv, ReaderInv, ~TextLeft, ~TextLeft', Guarded(toClient, inBody),
         Strayed \notin got \cup result.got, Read
  PROVE  Guarded(toClient', inBody') /\ Strayed \notin got' \cup result'.got
PROOF
<1>1. InReply /\ Strayed \notin got
  BY DEF ReaderInv
<1>2. ASSUME NEW o, NEW g, Return(o, g), Strayed \notin g
      PROVE  inBody' = FALSE /\ Strayed \notin got' \cup result'.got
  BY <1>2 DEF Return
<1>3. ASSUME NEW left, NEW g, Continue(left, g), Strayed \notin g
      PROVE  inBody' = FALSE /\ Strayed \notin got' \cup result'.got
  BY <1>2, <1>3 DEF Continue
<1>4. ASSUME toClient # <<>>, toClient' = Tail(toClient)
      PROVE  /\ NoBreak(toClient')
             /\ toClient' # <<>> => (toClient[1].t = "text" => toClient'[1].t # "text")
  <2>. DEFINE q == toClient'
  <2>1. /\ q \in Seq(Line) /\ Len(q) = Len(toClient) - 1 /\ Len(toClient) \in Nat \ {0}
        /\ \A i \in 1..(Len(toClient) - 1) : q[i] = toClient[i + 1]
    BY <1>4, FirstLine
  <2>2. NoBreak(toClient)
    BY DEF Guarded
  <2>3. q # <<>> => Len(toClient) > 1
    BY <2>1, EmptySeq
  <2>. HIDE DEF q
  <2>4. NoBreak(q)
    BY <2>1, <2>2 DEF NoBreak
  <2>5. Len(toClient) > 1 => q[1] = toClient[2] /\ (toClient[1].t = "text" => toClient[2].t # "text")
    BY <2>1, <2>2 DEF NoBreak
  <2>. QED  BY <2>3, <2>4, <2>5 DEF q
<1>5. CASE ReadHeader
  <2>. DEFINE a == toClient[1]
  <2>1. /\ ~inBody /\ toClient # <<>> /\ toClient' = Tail(toClient) /\ peer' = peer /\ a \in Line
    BY <1>5, HeaderSteps
  <2>2. a.t # "text"
    BY <2>1 DEF Guarded
  <2>3. PICK g : /\ Strayed \notin g
                 /\ \/ \E o : Return(o, g) /\ ~BulkHead(a)
                    \/ BulkHead(a) /\ inBody' = TRUE /\ got' = g /\ UNCHANGED result
                    \/ \E left : Continue(left, g) /\ ~BulkHead(a)
    <3>1. PICK l \in Seen(a), g \in SUBSET (got \cup {a.of, Strayed}) :
            /\ Strayed \in g <=> Strayed \in got \/ (a.t = "text" /\ Opens(l))
            /\ a.t # "text" => l = a
            /\ \/ l.t = "-" /\ Return("RedisServerException", g)
               \/ l.t = "text" /\ Return("RuntimeException", g)
               \/ BulkHead(l) /\ inBody' = TRUE /\ got' = g /\ UNCHANGED result
               \/ ~BulkHead(l) /\ Continue(owed - 1 + Elements(l), g)
      BY <1>5, HeaderSteps
    <3>2. l.t \in {"-", "text"} => ~BulkHead(l)
      BY DEF BulkHead
    <3>. QED  BY <1>1, <2>2, <3>1, <3>2
  <2>4. Strayed \notin got' \cup result'.got
    BY <1>2, <1>3, <2>3
  <2>5. toClient' # <<>> /\ toClient'[1].t = "text" => BulkHead(a)
    BY <2>1, <2>2, SecondLine DEF Linked, Follows
  <2>6. BulkHead(a) => inBody'
    BY <2>3
  <2>. QED  BY <1>4, <2>1, <2>4, <2>5, <2>6 DEF Guarded
<1>6. CASE ReadBody
  <2>. DEFINE g == got \cup {toClient[1].of}
  <2>1. /\ reading # 0 /\ inBody /\ toClient # <<>> /\ toClient' = Tail(toClient)
        /\ toClient[1] \in Line /\ \E left : Continue(left, g)
    BY <1>1, <1>6, BodySteps
  <2>2. Strayed \notin g
    BY <1>1, <2>1 DEF Line, Strayed
  <2>. HIDE DEF g
  <2>3. inBody' = FALSE /\ Strayed \notin got' \cup result'.got
    BY <1>3, <2>1, <2>2
  <2>4. toClient[1].t = "text"
    BY <1>1, <2>1 DEF InReply
  <2>. QED  BY <1>4, <2>1, <2>3, <2>4 DEF Guarded
<1>7. CASE ReadEOF
  <2>1. toClient' = <<>> /\ ((\E left : Continue(left, got \cup {0})) \/ \E o : Return(o, got))
    BY <1>7 DEF ReadEOF, FgetsFails, wireVars
  <2>2. Strayed \notin got \cup {0}
    BY <1>1 DEF Strayed
  <2>3. Strayed \notin got' \cup result'.got
    BY <1>1, <1>2, <1>3, <2>1, <2>2
  <2>. QED  BY <2>1, <2>3 DEF Guarded, NoBreak
<1>8. CASE ReadTimeout
  BY <1>8 DEF ReadTimeout, TextLeft
<1>. QED  BY <1>5, <1>6, <1>7, <1>8 DEF Read

LEMMA TextServer ==
  ASSUME TypeOK, ConnectionInv, ~TextLeft', Guarded(toClient, inBody), Server
  PROVE  Guarded(toClient', inBody)
PROOF
<1>1. toClient \in Seq(Line) /\ Len(toClient) \in Nat
  BY LenProperties DEF TypeOK, WireType
<1>2. CASE toClient' = toClient
  BY <1>2
<1>3. CASE WireGrows
  <2>1. PICK r \in Seq(Line) :
          r # <<>> /\ Starts(r[1]) /\ NoBreak(r) /\ toClient' = toClient \o r
    BY <1>3 DEF WireGrows, TextLeft
  <2>. DEFINE p == toClient
              q == toClient'
  <2>2. /\ Len(r) \in Nat \ {0} /\ Len(q) = Len(p) + Len(r)
        /\ \A i \in 1..Len(p) : q[i] = p[i]
        /\ \A i \in 1..Len(r) : q[Len(p) + i] = r[i]
    BY <1>1, <2>1, ConcatProperties, LenProperties, EmptySeq
  <2>3. NoBreak(p) /\ r[1].t # "text"
    BY <2>1 DEF Guarded, Starts
  <2>4. IF p = <<>> THEN Len(p) = 0 ELSE Len(p) > 0 /\ (p[1].t = "text" => inBody)
    BY <1>1, EmptySeq DEF Guarded
  <2>5. Len(p) \in Nat
    BY <1>1
  <2>. HIDE DEF p, q
  <2>6. ASSUME NEW i \in 1..(Len(q) - 1), q[i].t = "text" PROVE q[i + 1].t # "text"
    <3>1. CASE i < Len(p)
      <4>1. i \in 1..(Len(p) - 1) /\ i \in 1..Len(p) /\ i + 1 \in 1..Len(p)
        BY <2>2, <2>5, <3>1
      <4>2. q[i] = p[i] /\ q[i + 1] = p[i + 1]
        BY <2>2, <4>1
      <4>. QED  BY <2>3, <2>6, <4>1, <4>2 DEF NoBreak
    <3>2. CASE i = Len(p)
      <4>1. q[i + 1] = r[1]
        BY <2>2, <2>5, <3>2
      <4>. QED  BY <2>3, <4>1
    <3>3. CASE i > Len(p)
      <4>. DEFINE j == i - Len(p)
      <4>1. /\ j \in 1..(Len(r) - 1) /\ j \in 1..Len(r) /\ j + 1 \in 1..Len(r)
            /\ i = Len(p) + j /\ i + 1 = Len(p) + (j + 1)
        BY <2>2, <2>5, <3>3
      <4>. HIDE DEF j
      <4>2. q[i] = r[j] /\ q[i + 1] = r[j + 1]
        BY <2>2, <4>1
      <4>. QED  BY <2>1, <2>6, <4>1, <4>2 DEF NoBreak
    <3>. QED  BY <2>2, <2>5, <3>1, <3>2, <3>3
  <2>7. q[1].t = "text" => inBody
    BY <2>2, <2>3, <2>4, <2>5
  <2>8. NoBreak(q)
    BY <2>6 DEF NoBreak
  <2>. QED  BY <2>7, <2>8 DEF Guarded, q
<1>4. CASE WireCut
  <2>1. PICK k \in 0..Len(toClient) : toClient' = SubSeq(toClient, 1, k)
    BY <1>4 DEF WireCut
  <2>. DEFINE q == toClient'
  <2>2. k \in Nat /\ \A i \in 1..k : toClient[i] \in Line
    BY <1>1, <2>1, ElementOfSeq
  <2>3. q \in Seq(Line) /\ Len(q) = k /\ \A i \in 1..k : q[i] = toClient[i]
    BY <2>1, <2>2, SubSeqProperties
  <2>4. q # <<>> => k >= 1 /\ toClient # <<>>
    BY <1>1, <2>1, <2>2, <2>3, EmptySeq
  <2>. HIDE DEF q
  <2>5. NoBreak(q)
    <3>1. NoBreak(toClient)
      BY DEF Guarded
    <3>. QED  BY <1>1, <2>1, <2>2, <2>3, <3>1 DEF NoBreak
  <2>6. q # <<>> => q[1] = toClient[1] /\ toClient # <<>>
    BY <2>2, <2>3, <2>4
  <2>. QED  BY <2>5, <2>6 DEF Guarded, q
<1>. QED  BY <1>2, <1>3, <1>4, WireServer

LEMMA TextNext ==
  TypeOK /\ ConnectionInv /\ WireInv /\ ReaderInv /\ TextInv /\ [Next]_vars => TextInv'
PROOF
<1>. SUFFICES ASSUME TypeOK, ConnectionInv, WireInv, ReaderInv, TextInv, [Next]_vars, ~TextLeft'
              PROVE  Guarded(toClient', inBody') /\ Strayed \notin got' \cup result'.got
  BY TextInvGuarded DEF TextInv, Guarded, NoBreak
<1>1. Guarded(<<>>, inBody')
  BY DEF Guarded, NoBreak
<1>2. CASE Open
  <2>1. toClient' = <<>> /\ got' = {} /\ result'.got = {}
    BY <1>2 DEF Open, ConnectionInv, ReaderInv, NoResult, wireVars
  <2>. QED  BY <1>1, <2>1
<1>3. CASE ~Open
  <2>1. ~TextLeft /\ Guarded(toClient, inBody) /\ Strayed \notin got \cup result.got
    <3>1. ~TextLeft
      BY <1>3, CausesGrow DEF TextLeft
    <3>. QED  BY <3>1, TextInvGuarded
  <2>2. ASSUME UNCHANGED <<toClient, inBody, got, result>>
        PROVE  Guarded(toClient', inBody') /\ Strayed \notin got' \cup result'.got
    BY <2>1, <2>2
  <2>3. CASE OpenFails
    BY <2>2, <2>3 DEF OpenFails, wireVars, readVars
  <2>4. CASE Close \/ Quit
    BY <1>1, <2>1, <2>4 DEF Close, Quit, readVars
  <2>5. CASE Read
    BY <2>1, <2>5, TextRead
  <2>6. CASE \E class \in Classes : Send(class)
    <3>1. /\ ~inBody /\ toClient' = toClient /\ inBody' = FALSE /\ got' = {} /\ result' = result
      BY <2>6 DEF Send, ReaderInv
    <3>. QED  BY <2>1, <3>1 DEF Guarded
  <2>7. CASE \E p \in Pipelines : Flush(p) \/ \E class \in Classes : PipelineSend(p, class)
    BY <2>2, <2>7 DEF Flush, PipelineSend, readVars
  <2>8. CASE Server
    <3>1. UNCHANGED <<inBody, got, result>>
      BY <2>8 DEF Server, Serve, ServeMonitor, ServeLast, MonitorLine, Drop, readVars
    <3>. QED  BY <2>1, <2>8, <3>1, TextServer
  <2>9. CASE UNCHANGED vars
    BY <2>2, <2>9 DEF vars, wireVars, readVars
  <2>. QED  BY <1>3, <2>3, <2>4, <2>5, <2>6, <2>7, <2>8, <2>9 DEF Next, Client
<1>. QED  BY <1>2, <1>3

\* A read in step has taken no text for a header.
LEMMA SyncInReply ==
  ASSUME TypeOK, ReaderInv, InSync
  PROVE  InReply /\ Strayed \notin got
PROOF
  BY DEF TypeOK, ReadType, InSync, ReaderInv, Strayed

\* The line behind the first one of an unbroken reply.
LEMMA SyncSecondLine ==
  ASSUME TypeOK, InSync, toClient # <<>>, toClient' = Tail(toClient)
  PROVE  /\ toClient[1] \in Line /\ toClient[1] = Head(toClient) /\ toClient[1].of = reading
         /\ toServer = <<>>
         /\ \A i \in 1..Len(toClient') : toClient'[i].of = reading
         /\ Unbroken(toClient')
         /\ toClient' # <<>> =>
              /\ toClient'[1] \in Line
              /\ Follows(toClient[1], toClient'[1])
              /\ toClient[1].t # "-"
              /\ ~(toClient[1].t = "text" /\ toClient'[1].t = "text")
PROOF
<1>1. /\ toClient[1] \in Line /\ toClient[1] = Head(toClient) /\ toClient' \in Seq(Line)
      /\ Len(toClient') = Len(toClient) - 1 /\ Len(toClient) \in Nat \ {0}
      /\ \A i \in 1..(Len(toClient) - 1) : toClient'[i] = toClient[i + 1]
  BY FirstLine
<1>2. toServer = <<>> /\ \A i \in 1..Len(toClient) : toClient[i].of = reading
  BY DEF InSync
<1>3. Unbroken(toClient)
  BY DEF InSync
<1>. DEFINE q == toClient'
<1>4. /\ Len(q) = Len(toClient) - 1
      /\ \A i \in 1..(Len(toClient) - 1) : q[i] = toClient[i + 1]
  BY <1>1
<1>. HIDE DEF q
<1>5. \A i \in 1..Len(q) : q[i].of = reading
  BY <1>1, <1>2, <1>4
<1>6. Unbroken(q)
  BY <1>1, <1>3, <1>4 DEF Unbroken
<1>7. ASSUME Len(toClient) > 1
      PROVE  /\ Follows(toClient[1], q[1]) /\ toClient[1].t # "-"
             /\ ~(toClient[1].t = "text" /\ q[1].t = "text")
  <2>1. 1 \in 1..(Len(toClient) - 1) /\ q[1] = toClient[1 + 1]
    BY <1>1, <1>4, <1>7
  <2>. QED  BY <1>3, <2>1 DEF Unbroken
<1>8. ASSUME toClient' # <<>>
      PROVE  Len(toClient) > 1 /\ toClient'[1] \in Line
  BY <1>1, <1>8, EmptySeq, ElementOfSeq, LenProperties
<1>. QED  BY <1>1, <1>2, <1>5, <1>6, <1>7, <1>8 DEF q

\* What is left to show of a read once the wires are known.
LEMMA SyncReadDone ==
  ASSUME InSync, NEW g, Uses(g), g \subseteq {reading, 0},
         toServer' = <<>>, monitoring' = monitoring,
         \A i \in 1..Len(toClient') : toClient'[i].of = reading,
         Unbroken(toClient'),
         \/ reading' = 0 /\ got' = {} /\ toClient' = <<>>
         \/ /\ reading' = reading /\ reading # 0
            /\ toClient' # <<>> => owed' = toClient'[1].owed /\ (toClient'[1].t = "text" => inBody')
  PROVE  InSync'
PROOF
<1>1. got' \subseteq {reading', 0} /\ result'.got \subseteq {result'.call, 0}
  BY DEF InSync, Uses
<1>2. monitoring' = 0
  BY DEF InSync
<1>3. CASE reading' = 0 /\ got' = {} /\ toClient' = <<>>
  BY <1>1, <1>2, <1>3 DEF InSync
<1>4. CASE /\ reading' = reading /\ reading # 0
           /\ toClient' # <<>> => owed' = toClient'[1].owed /\ (toClient'[1].t = "text" => inBody')
  BY <1>1, <1>2, <1>4 DEF InSync
<1>. QED  BY <1>3, <1>4

LEMMA SyncReadHeader ==
  ASSUME TypeOK, ReaderInv, InSync, ReadHeader
  PROVE  InSync'
PROOF
<1>. DEFINE l == toClient[1]
            g == got \cup {l.of}
<1>1. /\ reading # 0 /\ ~inBody /\ toClient # <<>> /\ toClient' = Tail(toClient)
      /\ monitoring' = monitoring /\ toServer' = toServer
  BY DEF ReadHeader
<1>2. /\ l \in Line /\ l = Head(toClient) /\ l.of = reading /\ toServer' = <<>>
      /\ \A i \in 1..Len(toClient') : toClient'[i].of = reading
      /\ Unbroken(toClient')
      /\ toClient' # <<>> =>
           toClient'[1] \in Line /\ Follows(l, toClient'[1]) /\ l.t # "-"
      /\ l.t # "text" /\ owed = l.owed
  BY <1>1, SyncSecondLine DEF InSync
<1>3. g \subseteq {reading, 0}
  BY <1>2 DEF InSync
<1>4. \/ l.t = "-" /\ Return("RedisServerException", g)
      \/ BulkHead(l) /\ inBody' = TRUE /\ got' = g /\ UNCHANGED <<reading, owed, result>>
      \/ ~BulkHead(l) /\ Continue(owed - 1 + Elements(l), g)
  BY <1>2 DEF ReadHeader, Seen, Loop
<1>. HIDE DEF g
<1>5. CASE l.t = "-" /\ Return("RedisServerException", g)
  <2>1. reading' = 0 /\ got' = {} /\ toClient' = <<>> /\ Uses(g)
    BY <1>2, <1>5 DEF Return, Uses
  <2>. QED  BY <1>1, <1>2, <1>3, <2>1, SyncReadDone
<1>6. CASE BulkHead(l) /\ inBody' = TRUE /\ got' = g /\ UNCHANGED <<reading, owed, result>>
  <2>1. Uses(g) /\ reading' = reading
    BY <1>6 DEF Uses
  <2>2. toClient' # <<>> => owed' = toClient'[1].owed /\ (toClient'[1].t = "text" => inBody')
    BY <1>2, <1>6 DEF Follows, BulkHead
  <2>. QED  BY <1>1, <1>2, <1>3, <2>1, <2>2, SyncReadDone
<1>7. CASE ~BulkHead(l) /\ Continue(owed - 1 + Elements(l), g)
  <2>1. toClient' # <<>> => toClient'[1].owed = owed - 1 + Elements(l) /\ toClient'[1].t # "text"
    BY <1>2, <1>7 DEF Follows
  <2>2. toClient' # <<>> => toClient'[1].owed # 0
    BY <1>2 DEF Line
  <2>3. CASE owed - 1 + Elements(l) = 0
    <3>1. reading' = 0 /\ got' = {} /\ toClient' = <<>> /\ Uses(g)
      BY <1>7, <2>1, <2>2, <2>3 DEF Continue, Return, Uses
    <3>. QED  BY <1>1, <1>2, <1>3, <3>1, SyncReadDone
  <2>4. CASE owed - 1 + Elements(l) # 0
    <3>1. reading' = reading /\ owed' = owed - 1 + Elements(l) /\ Uses(g)
      BY <1>7, <2>4 DEF Continue, Uses
    <3>. QED  BY <1>1, <1>2, <1>3, <2>1, <3>1, SyncReadDone
  <2>. QED  BY <2>3, <2>4
<1>. QED  BY <1>4, <1>5, <1>6, <1>7

LEMMA SyncReadBody ==
  ASSUME TypeOK, ReaderInv, InSync, ReadBody
  PROVE  InSync'
PROOF
<1>. DEFINE l == toClient[1]
            g == got \cup {l.of}
<1>1. /\ reading # 0 /\ inBody /\ toClient # <<>> /\ toClient' = Tail(toClient)
      /\ monitoring' = monitoring /\ toServer' = toServer
  BY SyncInReply, BodySteps
<1>2. /\ l \in Line /\ l = Head(toClient) /\ l.of = reading /\ toServer' = <<>>
      /\ \A i \in 1..Len(toClient') : toClient'[i].of = reading
      /\ Unbroken(toClient')
      /\ l.t = "text" /\ owed = l.owed
      /\ toClient' # <<>> =>
           toClient'[1] \in Line /\ Follows(l, toClient'[1]) /\ toClient'[1].t # "text"
  BY <1>1, SyncSecondLine, SyncInReply DEF InSync, InReply
<1>3. g \subseteq {reading, 0} /\ Continue(owed - 1, g)
  BY <1>2 DEF InSync, ReadBody
<1>4. toClient' # <<>> => toClient'[1].owed = owed - 1 /\ toClient'[1].owed # 0
  BY <1>2 DEF Follows, BulkHead, Elements, Line
<1>. HIDE DEF g
<1>5. CASE owed - 1 = 0
  <2>1. reading' = 0 /\ got' = {} /\ toClient' = <<>> /\ Uses(g)
    BY <1>3, <1>4, <1>5 DEF Continue, Return, Uses
  <2>. QED  BY <1>1, <1>2, <1>3, <2>1, SyncReadDone
<1>6. CASE owed - 1 # 0
  <2>1. reading' = reading /\ owed' = owed - 1 /\ Uses(g)
    BY <1>3, <1>6 DEF Continue, Uses
  <2>. QED  BY <1>1, <1>2, <1>3, <1>4, <2>1, SyncReadDone
<1>. QED  BY <1>5, <1>6

LEMMA SyncReadEOF ==
  ASSUME TypeOK, ConnectionInv, InSync, ReadEOF
  PROVE  InSync'
PROOF
<1>1. /\ reading # 0 /\ toClient' = <<>> /\ toServer' = <<>> /\ monitoring' = monitoring
      /\ FgetsFails
  BY DEF ConnectionInv, ReadEOF, FgetsFails, wireVars
<1>2. Unbroken(toClient') /\ \A i \in 1..Len(toClient') : toClient'[i].of = reading
  BY <1>1 DEF Unbroken
<1>3. PICK g \in {got, got \cup {0}} : (\E o : Return(o, g)) \/ (\E left : Continue(left, g))
  BY <1>1 DEF FgetsFails
<1>4. g \subseteq {reading, 0}
  BY <1>3 DEF InSync
<1>5. Uses(g) /\ ((reading' = 0 /\ got' = {}) \/ reading' = reading)
  BY <1>3 DEF Return, Continue, Uses
<1>. QED  BY <1>1, <1>2, <1>4, <1>5, SyncReadDone

\* A step that leaves the reader where it is and empties the request queue.
LEMMA SyncReply ==
  ASSUME InSync, readVars' = readVars, monitoring' = 0, toServer' = <<>>, reading # 0,
         \A i \in 1..Len(toClient') : toClient'[i].of = reading,
         Unbroken(toClient'),
         toClient' # <<>> => owed = toClient'[1].owed /\ (toClient'[1].t = "text" => inBody)
  PROVE  InSync'
PROOF
<1>1. reading' = reading /\ owed' = owed /\ inBody' = inBody /\ got' = got /\ result' = result
  BY DEF readVars
<1>. QED  BY <1>1 DEF InSync

LEMMA SyncServer ==
  ASSUME TypeOK, ConnectionInv, ReaderInv, InSync, Server, causes' \subseteq {"drop"}
  PROVE  InSync'
PROOF
<1>1. ASSUME toServer # <<>>
      PROVE  /\ reading \in Nat \ {0} /\ Head(toServer).id = reading /\ Tail(toServer) = <<>>
             /\ toClient = <<>> /\ owed = 1
  <2>1. /\ Head(toServer) \in Call /\ Head(toServer) = toServer[1]
        /\ Tail(toServer) \in Seq(Call) /\ Len(Tail(toServer)) = Len(toServer) - 1
    BY <1>1, FirstCall
  <2>2. Len(toServer) = 1 /\ toServer[1].id = reading /\ toClient = <<>>
    BY <1>1 DEF InSync
  <2>3. Tail(toServer) = <<>>
    <3>1. Len(Tail(toServer)) = 0
      BY <2>1, <2>2
    <3>. QED  BY <2>1, <3>1, EmptySeq
  <2>4. reading \in Nat \ {0}
    BY <2>1, <2>2 DEF Call
  <2>. QED  BY <1>1, <2>1, <2>2, <2>3, <2>4, SyncInReply DEF InReply, ConnectionInv
<1>2. ASSUME toServer # <<>>, toClient' = Append(toClient, StatusLine(Head(toServer).id))
      PROVE  /\ toClient' = <<StatusLine(reading)>> /\ Unbroken(toClient')
             /\ \A i \in 1..Len(toClient') : toClient'[i].of = reading
             /\ owed = toClient'[1].owed /\ toClient'[1].t # "text"
  BY <1>1, <1>2 DEF StatusLine, Unbroken
<1>3. CASE Serve
  <2>1. PICK s \in Shapes :
          /\ toClient' = toClient \o Reply(Head(toServer).id, s)
          /\ causes' = causes \cup (IF ErrorInside(s) THEN {"error inside"} ELSE {})
                             \cup (IF LineBreak(s) THEN {"line break"} ELSE {})
    BY <1>3 DEF Serve
  <2>2. toServer # <<>> /\ toServer' = Tail(toServer) /\ monitoring' = monitoring /\ readVars' = readVars
    BY <1>3 DEF Serve, readVars
  <2>3. ~ErrorInside(s) /\ ~LineBreak(s)
    BY <2>1
  <2>. DEFINE r == Reply(reading, s)
  <2>4. /\ r \in Seq(Line) /\ Len(r) = Len(s) /\ Len(s) \in Nat \ {0}
        /\ \A i \in 1..Len(s) : r[i].of = reading /\ r[i].t = s[i].t /\ r[i].n = s[i].n /\ r[i].owed = s[i].owed
    BY <1>1, <2>2, ReplyLines
  <2>. HIDE DEF r
  <2>5. toClient' = r
    <3>1. toClient' = <<>> \o r
      BY <1>1, <2>1, <2>2 DEF r
    <3>. QED  BY <2>4, <3>1, ConcatEmptySeq
  <2>. DEFINE q == toClient'
  <2>6. /\ Len(q) = Len(s) /\ Len(s) \in Nat \ {0}
        /\ \A i \in 1..Len(s) : q[i].of = reading /\ q[i].t = s[i].t /\ q[i].n = s[i].n /\ q[i].owed = s[i].owed
    BY <2>4, <2>5
  <2>7. WellFormed(s)
    BY ShapesAssumption
  <2>. HIDE DEF q
  <2>8. Unbroken(q)
    <3>1. SUFFICES ASSUME NEW i \in 1..(Len(q) - 1)
                   PROVE  /\ Follows(q[i], q[i + 1])
                          /\ q[i].t # "-"
                          /\ ~(q[i].t = "text" /\ q[i + 1].t = "text")
      BY DEF Unbroken
    <3>2. i \in 1..(Len(s) - 1) /\ i \in 1..Len(s) /\ i + 1 \in 1..Len(s)
      BY <2>6
    <3>3. /\ q[i].t = s[i].t /\ q[i].n = s[i].n /\ q[i].owed = s[i].owed
          /\ q[i + 1].t = s[i + 1].t /\ q[i + 1].owed = s[i + 1].owed
      BY <2>6, <3>2
    <3>4. Follows(s[i], s[i + 1])
      BY <2>7, <3>2 DEF WellFormed
    <3>5. Follows(q[i], q[i + 1])
      BY <3>3, <3>4 DEF Follows, BulkHead, Elements
    <3>6. s[i].t # "-" /\ ~(s[i].t = "text" /\ s[i + 1].t = "text")
      BY <2>3, <3>2 DEF ErrorInside, LineBreak
    <3>. QED  BY <3>3, <3>5, <3>6
  <2>9. q[1].owed = 1 /\ q[1].t # "text"
    BY <2>6, <2>7 DEF WellFormed
  <2>10. monitoring' = 0
    BY <2>2 DEF InSync
  <2>. QED  BY <1>1, <2>2, <2>6, <2>8, <2>9, <2>10, SyncReply DEF q
<1>4. CASE ServeMonitor
  BY <1>4 DEF ServeMonitor
<1>5. CASE ServeLast
  <2>1. toServer # <<>> /\ monitoring' = 0 /\ toServer' = <<>> /\ readVars' = readVars
    BY <1>5 DEF ServeLast, Hangup, readVars
  <2>2. CASE toClient' = toClient
    BY <1>1, <2>1, <2>2, SyncReply DEF InSync
  <2>3. CASE toClient' = Append(toClient, StatusLine(Head(toServer).id))
    BY <1>1, <1>2, <2>1, <2>3, SyncReply
  <2>. QED  BY <1>5, <2>2, <2>3 DEF ServeLast
<1>6. CASE MonitorLine
  BY <1>6 DEF MonitorLine, InSync
<1>7. CASE Drop
  <2>1. PICK k \in 0..Len(toClient) : toClient' = SubSeq(toClient, 1, k)
    BY <1>7 DEF Drop
  <2>2. monitoring' = 0 /\ toServer' = <<>> /\ readVars' = readVars
    BY <1>7 DEF Drop, Hangup, readVars
  <2>3. toClient \in Seq(Line) /\ Len(toClient) \in Nat /\ \A i \in 1..Len(toClient) : toClient[i] \in Line
    BY ElementOfSeq, LenProperties DEF TypeOK, WireType
  <2>. DEFINE q == toClient'
  <2>4. q \in Seq(Line) /\ Len(q) = k /\ \A i \in 1..k : q[i] = toClient[i]
    BY <2>1, <2>3, SubSeqProperties
  <2>. HIDE DEF q
  <2>5. Unbroken(q) /\ \A i \in 1..Len(q) : q[i].of = reading
    <3>1. ASSUME NEW i \in 1..Len(q) PROVE i \in 1..Len(toClient) /\ q[i] = toClient[i]
      BY <2>1, <2>3, <2>4
    <3>2. ASSUME NEW i \in 1..(Len(q) - 1)
          PROVE  i \in 1..(Len(toClient) - 1) /\ q[i] = toClient[i] /\ q[i + 1] = toClient[i + 1]
      BY <2>1, <2>3, <2>4
    <3>3. Unbroken(q)
      BY <3>2 DEF InSync, Unbroken
    <3>. QED  BY <3>1, <3>3 DEF InSync
  <2>6. ASSUME q # <<>> PROVE toClient # <<>> /\ q[1] = toClient[1]
    BY <2>3, <2>4, <2>6, EmptySeq
  <2>7. CASE reading = 0
    <3>1. toClient' = <<>>
      BY <2>6, <2>7 DEF InSync, q
    <3>2. reading' = reading /\ got' = got /\ result' = result
      BY <2>2 DEF readVars
    <3>. QED  BY <2>2, <2>5, <2>7, <3>1, <3>2 DEF InSync, q
  <2>8. CASE reading # 0
    <3>1. q # <<>> => owed = q[1].owed /\ (q[1].t = "text" => inBody)
      BY <2>6 DEF InSync
    <3>. QED  BY <2>2, <2>5, <2>8, <3>1, SyncReply DEF q
  <2>. QED  BY <2>7, <2>8
<1>. QED  BY <1>3, <1>4, <1>5, <1>6, <1>7 DEF Server

LEMMA SyncNext ==
  TypeOK /\ ConnectionInv /\ ReaderInv /\ SyncInv /\ [Next]_vars => SyncInv'
PROOF
<1>. SUFFICES ASSUME TypeOK, ConnectionInv, ReaderInv, SyncInv, [Next]_vars, causes' \subseteq {"drop"}
              PROVE  InSync'
  BY DEF SyncInv
<1>1. CASE Open
  <2>1. reading = 0 /\ toClient = <<>> /\ toServer = <<>> /\ monitoring = 0 /\ got = {}
    BY <1>1 DEF Open, ConnectionInv, ReaderInv
  <2>2. /\ reading' = 0 /\ toClient' = <<>> /\ toServer' = <<>> /\ monitoring' = 0 /\ got' = {}
        /\ result'.got = {}
    BY <1>1, <2>1 DEF Open, wireVars, NoResult
  <2>. QED  BY <2>2 DEF InSync, Unbroken
<1>2. CASE ~Open
  <2>1. InSync
    <3>1. causes \subseteq causes'
      BY <1>2, CausesGrow
    <3>. QED  BY <3>1 DEF SyncInv
  <2>2. CASE OpenFails \/ UNCHANGED vars
    BY <2>1, <2>2 DEF OpenFails, InSync, vars, wireVars, readVars
  <2>3. CASE Close \/ Quit
    <3>1. /\ reading' = 0 /\ toClient' = <<>> /\ toServer' = <<>> /\ monitoring' = 0
          /\ got' = got /\ result' = result /\ reading = 0
      BY <2>3 DEF Close, Quit, Hangup, readVars
    <3>. QED  BY <2>1, <3>1 DEF InSync, Unbroken
  <2>4. CASE Read
    <3>1. CASE ReadTimeout
      BY <3>1 DEF ReadTimeout
    <3>. QED  BY <2>1, <2>4, <3>1, SyncReadHeader, SyncReadBody, SyncReadEOF DEF Read
  <2>5. ASSUME NEW class \in Classes, Send(class)
        PROVE  InSync'
    <3>1. toServer = <<>> /\ toClient = <<>> /\ calls + 1 # 0
      BY <2>1, <2>5 DEF Send, InSync, TypeOK, HistType
    <3>2. toServer' = <<NextCall("direct", class)>> \/ toServer' = <<>>
      BY <2>5, <3>1 DEF Send, Write
    <3>3. /\ reading' = calls + 1 /\ owed' = 1 /\ got' = {} /\ toClient' = <<>>
          /\ monitoring' = 0 /\ result' = result
      BY <2>1, <2>5, <3>1 DEF Send, InSync
    <3>4. toServer' # <<>> => Len(toServer') = 1 /\ toServer'[1].id = reading'
      BY <3>2, <3>3 DEF NextCall
    <3>. QED  BY <2>1, <3>1, <3>3, <3>4 DEF InSync, Unbroken
  <2>6. ASSUME NEW p \in Pipelines, Flush(p) \/ \E class \in Classes : PipelineSend(p, class)
        PROVE  InSync'
    <3>1. ~peer \/ UNCHANGED toServer
      BY <2>6 DEF Flush, PipelineSend, WriteBatch
    <3>2. UNCHANGED <<toServer, toClient, monitoring, reading, owed, inBody, got, result>>
      BY <2>6, <3>1 DEF Flush, PipelineSend, WriteBatch, Write, readVars
    <3>. QED  BY <2>1, <3>2 DEF InSync
  <2>7. CASE Server
    BY <2>1, <2>7, SyncServer
  <2>. QED  BY <1>2, <2>2, <2>3, <2>4, <2>5, <2>6, <2>7 DEF Next, Client
<1>. QED  BY <1>1, <1>2

-----------------------------------------------------------------------------
(* While no cause has occurred every call gets its answer, whole.          *)

\* What a read step of an untroubled connection does: it goes on to a line
\* that is there, it answers its call, or it fails without having read.
GoesOn ==
  /\ toClient # <<>> /\ toClient' # <<>> /\ UNCHANGED <<reading, result>>
  /\ got' = {reading}

Answers ==
  /\ toClient # <<>>
  /\ reading' = 0 /\ got' = {}
  /\ \E o \in {"value", "RedisServerException"} :
       result' = [call |-> reading, outcome |-> o, got |-> {reading}]

Fails ==
  /\ toClient = <<>> /\ got = {} /\ UNCHANGED toClient
  /\ reading' = 0 /\ got' = {}
  /\ result' = [call |-> reading, outcome |-> "RuntimeException", got |-> {}]

\* The line an untroubled read() consumes: of its own call, and the last one
\* on the wire exactly when it closes the reply.
LEMMA AnsweredLine ==
  ASSUME TypeOK, ReaderInv, InSync, Answered, reading # 0, toClient # <<>>,
         toClient' = Tail(toClient)
  PROVE  /\ toClient[1] \in Line /\ toClient[1] = Head(toClient)
         /\ got \cup {toClient[1].of} = {reading}
         /\ owed = toClient[1].owed
         /\ toClient' = <<>> => Closing(toClient[1])
         /\ toClient' # <<>> =>
              /\ toClient'[1] \in Line /\ Follows(toClient[1], toClient'[1])
              /\ toClient[1].t # "-"
              /\ ~(toClient[1].t = "text" /\ toClient'[1].t = "text")
PROOF
<1>1. /\ toClient[1] \in Line /\ toClient[1] = Head(toClient) /\ toClient[1].of = reading
      /\ toClient' # <<>> =>
           /\ toClient'[1] \in Line /\ Follows(toClient[1], toClient'[1])
           /\ toClient[1].t # "-"
           /\ ~(toClient[1].t = "text" /\ toClient'[1].t = "text")
  BY SyncSecondLine
<1>2. got \cup {toClient[1].of} = {reading}
  BY <1>1 DEF InSync, Answered
<1>3. ASSUME toClient' = <<>> PROVE Closing(toClient[1])
  <2>. DEFINE m == Len(toClient)
  <2>1. Len(Tail(toClient)) = m - 1 /\ m \in Nat /\ Tail(toClient) = <<>>
    BY <1>3, FirstLine
  <2>2. Len(<<>>) = 0
    OBVIOUS
  <2>3. 0 = m - 1
    BY <2>1, <2>2, Zenon
  <2>. HIDE DEF m
  <2>4. m = 1
    BY <2>1, <2>3
  <2>. QED  BY <2>4 DEF Answered, m
<1>. QED  BY <1>1, <1>2, <1>3 DEF InSync

LEMMA AnsweredContinue ==
  ASSUME NEW left \in Nat, Continue(left, {reading}), toClient # <<>>,
         toClient' = <<>> <=> left = 0
  PROVE  GoesOn \/ Answers
PROOF
<1>1. CASE left = 0
  BY <1>1 DEF Continue, Return, Answers
<1>2. CASE left # 0
  BY <1>2 DEF Continue, GoesOn
<1>. QED  BY <1>1, <1>2

LEMMA AnsweredHeader ==
  ASSUME TypeOK, ReaderInv, InSync, Answered, ReadHeader
  PROVE  GoesOn \/ Answers
PROOF
<1>. DEFINE l == toClient[1]
            g == got \cup {l.of}
<1>1. reading # 0 /\ ~inBody /\ toClient # <<>> /\ toClient' = Tail(toClient)
  BY DEF ReadHeader
<1>2. /\ l \in Line /\ l = Head(toClient) /\ g = {reading} /\ owed = l.owed
      /\ toClient' = <<>> => Closing(l)
      /\ toClient' # <<>> => toClient'[1] \in Line /\ Follows(l, toClient'[1]) /\ l.t # "-"
      /\ l.t # "text"
  BY <1>1, AnsweredLine DEF InSync
<1>3. \/ l.t = "-" /\ Return("RedisServerException", g)
      \/ BulkHead(l) /\ inBody' = TRUE /\ got' = g /\ UNCHANGED <<reading, owed, result>>
      \/ ~BulkHead(l) /\ l.t # "-" /\ Continue(owed - 1 + Elements(l), g)
  <2>1. Seen(l) = {l} /\ (l.t = "text" /\ Opens(l)) = FALSE
    BY <1>2 DEF Seen
  <2>. QED  BY <1>2, <2>1 DEF ReadHeader, Loop
<1>4. CASE l.t = "-" /\ Return("RedisServerException", g)
  BY <1>1, <1>2, <1>4 DEF Return, Answers
<1>5. CASE BulkHead(l) /\ inBody' = TRUE /\ got' = g /\ UNCHANGED <<reading, owed, result>>
  BY <1>1, <1>2, <1>5 DEF Closing, GoesOn
<1>6. CASE ~BulkHead(l) /\ Continue(owed - 1 + Elements(l), g)
  <2>1. toClient' # <<>> => owed - 1 + Elements(l) = toClient'[1].owed
    BY <1>2, <1>6 DEF Follows
  <2>2. toClient' # <<>> => owed - 1 + Elements(l) # 0
    BY <1>2, <2>1 DEF Line
  <2>3. toClient' = <<>> => owed - 1 + Elements(l) = 0
    BY <1>2 DEF Closing
  <2>4. owed - 1 + Elements(l) \in Nat
    <3>1. Elements(l) \in Nat
      BY <1>2, ElementsNat
    <3>2. owed \in Nat \ {0}
      BY <1>2 DEF Line
    <3>. QED  BY <3>1, <3>2
  <2>. QED  BY <1>1, <1>2, <1>6, <2>2, <2>3, <2>4, AnsweredContinue
<1>. QED  BY <1>3, <1>4, <1>5, <1>6

LEMMA AnsweredBody ==
  ASSUME TypeOK, ReaderInv, InSync, Answered, ReadBody
  PROVE  GoesOn \/ Answers
PROOF
<1>. DEFINE l == toClient[1]
            g == got \cup {l.of}
<1>1. reading # 0 /\ inBody /\ toClient # <<>> /\ toClient' = Tail(toClient)
  BY SyncInReply, BodySteps
<1>2. /\ l \in Line /\ l = Head(toClient) /\ g = {reading} /\ owed = l.owed
      /\ toClient' = <<>> => Closing(l)
      /\ toClient' # <<>> =>
           toClient'[1] \in Line /\ Follows(l, toClient'[1]) /\ toClient'[1].t # "text"
      /\ l.t = "text"
  BY <1>1, AnsweredLine, SyncInReply DEF InReply
<1>3. Continue(owed - 1, g)
  BY <1>2 DEF ReadBody
<1>4. ~BulkHead(l) /\ Elements(l) = 0
  BY <1>2 DEF BulkHead, Elements
<1>5. toClient' # <<>> => owed - 1 # 0
  BY <1>2, <1>4 DEF Follows, Line
<1>6. toClient' = <<>> => owed - 1 = 0
  BY <1>2, <1>4 DEF Closing, Line
<1>7. owed - 1 \in Nat
  BY <1>2 DEF Line
<1>. QED  BY <1>1, <1>2, <1>3, <1>5, <1>6, <1>7, AnsweredContinue

LEMMA AnsweredRead ==
  ASSUME TypeOK, ReaderInv, InSync, Answered, Read, causes' = {}
  PROVE  GoesOn \/ Answers \/ Fails
PROOF
<1>1. CASE ReadEOF
  <2>1. reading # 0 /\ toClient = <<>> /\ toClient' = toClient /\ FgetsFails
    BY <1>1 DEF ReadEOF, FgetsFails, wireVars
  <2>2. ~inBody /\ got = {}
    BY <2>1 DEF Answered
  <2>3. Return("RuntimeException", got)
    BY <2>1, <2>2 DEF FgetsFails
  <2>. QED  BY <2>1, <2>2, <2>3 DEF Return, Fails
<1>2. CASE ReadTimeout
  BY <1>2 DEF ReadTimeout
<1>. QED  BY <1>1, <1>2, AnsweredHeader, AnsweredBody DEF Read

\* The server appends whole replies.
LEMMA AnsweredServer ==
  ASSUME TypeOK, ConnectionInv, WireInv, ReaderInv, InSync, Answered, Server, causes' = {}
  PROVE  /\ UNCHANGED <<reading, owed, inBody, got, result>>
         /\ Whole(toClient') /\ (toClient # <<>> => toClient' # <<>>)
PROOF
<1>1. UNCHANGED <<reading, owed, inBody, got, result>>
  BY DEF Server, Serve, ServeMonitor, ServeLast, MonitorLine, Drop, readVars
<1>2. ~Drop
  BY DEF Drop
<1>3. Chain(toClient) /\ Whole(toClient) /\ toClient \in Seq(Line)
  BY WireInvChain DEF Answered, Whole, TypeOK, WireType
<1>4. CASE toClient' = toClient
  BY <1>1, <1>3, <1>4
<1>5. CASE WireGrows
  <2>1. PICK r \in Seq(Line) :
          r # <<>> /\ Chain(r) /\ Whole(r) /\ Starts(r[1]) /\ toClient' = toClient \o r
    BY <1>5 DEF WireGrows
  <2>2. Whole(toClient')
    BY <1>3, <2>1, ChainAppend
  <2>3. toClient' # <<>>
    BY <1>3, <2>1, ConcatProperties, LenProperties, EmptySeq
  <2>. QED  BY <1>1, <2>2, <2>3
<1>. QED  BY <1>2, <1>4, <1>5, WireServer

LEMMA AnsweredNext ==
  ASSUME TypeOK, ConnectionInv, WireInv, ReaderInv, SyncInv, AnswerInv, [Next]_vars, causes' = {}
  PROVE  Answered'
PROOF
<1>1. CASE Open
  <2>1. toClient' = <<>> /\ reading' = 0 /\ got' = {} /\ result' = NoResult
    BY <1>1 DEF Open, ConnectionInv, ReaderInv, wireVars
  <2>. QED  BY <2>1 DEF Answered, AppropriateResponse, NoResult
<1>2. CASE ~Open
  <2>1. InSync /\ Answered /\ ConnectionInv
    BY <1>2, CausesGrow DEF SyncInv, AnswerInv
  <2>2. ASSUME UNCHANGED <<reading, got, result>>, reading = 0,
               toClient' = toClient \/ toClient' = <<>>
        PROVE  Answered'
    BY <2>1, <2>2 DEF Answered, AppropriateResponse
  <2>3. CASE OpenFails \/ Close \/ Quit
    BY <2>2, <2>3 DEF OpenFails, Close, Quit, wireVars, readVars
  <2>4. CASE \E p \in Pipelines : Flush(p) \/ \E class \in Classes : PipelineSend(p, class)
    BY <2>2, <2>4 DEF Flush, PipelineSend, readVars
  <2>5. CASE UNCHANGED vars
    BY <2>1, <2>5 DEF Answered, AppropriateResponse, vars, wireVars, readVars
  <2>6. CASE \E class \in Classes : Send(class)
    <3>1. owed' = 1 /\ ~inBody' /\ got' = {} /\ UNCHANGED <<toClient, result>> /\ toClient = <<>>
      BY <2>1, <2>6 DEF Send, InSync
    <3>. QED  BY <2>1, <3>1 DEF Answered, AppropriateResponse
  <2>7. CASE Server
    <3>1. /\ UNCHANGED <<reading, owed, inBody, got, result>>
          /\ Whole(toClient') /\ (toClient # <<>> => toClient' # <<>>)
      BY <2>1, <2>7, AnsweredServer
    <3>. QED  BY <2>1, <3>1 DEF Answered, AppropriateResponse, Whole
  <2>8. CASE Read
    <3>1. Whole(toClient')
      <4>1. Chain(toClient) /\ Whole(toClient) /\ toClient \in Seq(Line)
        BY <2>1, WireInvChain DEF Answered, Whole, TypeOK, WireType
      <4>2. toClient' = toClient \/ (toClient # <<>> /\ toClient' = Tail(toClient))
        BY <2>1, <2>8, SyncInReply, BodySteps
        DEF Read, ReadHeader, ReadEOF, ReadTimeout, FgetsFails, wireVars
      <4>. QED  BY <4>1, <4>2, ChainTail
    <3>2. reading # 0
      BY <2>8 DEF Read, ReadHeader, ReadBody, ReadEOF, ReadTimeout
    <3>3. CASE GoesOn
      BY <2>1, <3>1, <3>2, <3>3 DEF GoesOn, Answered, AppropriateResponse, Whole
    <3>4. CASE Answers \/ Fails
      BY <3>1, <3>4 DEF Answers, Fails, Answered, AppropriateResponse, Whole
    <3>. QED  BY <2>1, <2>8, <3>3, <3>4, AnsweredRead
  <2>. QED  BY <1>2, <2>3, <2>4, <2>5, <2>6, <2>7, <2>8 DEF Next, Client
<1>. QED  BY <1>1, <1>2

\* reading and result name calls that were made.
LEMMA NumberNext ==
  ASSUME TypeOK, AnswerInv, [Next]_vars
  PROVE  reading' <= calls' /\ result'.call <= calls'
PROOF
<1>1. reading \in Nat /\ calls \in Nat /\ result.call \in Nat /\ reading <= calls /\ result.call <= calls
  BY DEF TypeOK, ReadType, HistType, AnswerInv
<1>2. CASE Open
  BY <1>1, <1>2 DEF Open, NoResult
<1>3. CASE OpenFails \/ Close \/ Quit \/ Server \/ UNCHANGED vars
  <2>1. UNCHANGED <<reading, result>>
    BY <1>3 DEF OpenFails, Close, Quit, Server, Serve, ServeMonitor, ServeLast, MonitorLine, Drop,
                vars, readVars
  <2>2. calls' \in {calls, calls + 1}
    BY <1>3 DEF OpenFails, Close, Quit, Server, Serve, ServeMonitor, ServeLast, MonitorLine, Drop,
                vars, histVars
  <2>. QED  BY <1>1, <2>1, <2>2
<1>4. CASE Read
  <2>1. calls' = calls
    BY <1>4 DEF Read, ReadHeader, ReadBody, ReadEOF, ReadTimeout, FgetsFails, histVars
  <2>2. reading' \in {0, reading} /\ (result' = result \/ result'.call = reading)
    <3>1. ASSUME NEW o, NEW g, Return(o, g)
          PROVE  reading' \in {0, reading} /\ (result' = result \/ result'.call = reading)
      BY <3>1 DEF Return
    <3>2. \/ \E o, g : Return(o, g)
          \/ UNCHANGED <<reading, result>>
      BY <1>4 DEF Read, ReadHeader, ReadBody, ReadEOF, ReadTimeout, FgetsFails, Continue
    <3>. QED  BY <3>1, <3>2
  <2>. QED  BY <1>1, <2>1, <2>2
<1>5. CASE \E class \in Classes : Send(class)
  BY <1>1, <1>5 DEF Send
<1>6. CASE \E p \in Pipelines : Flush(p) \/ \E class \in Classes : PipelineSend(p, class)
  BY <1>1, <1>6 DEF Flush, PipelineSend, readVars
<1>. QED  BY <1>2, <1>3, <1>4, <1>5, <1>6 DEF Next, Client

LEMMA AnswerNext ==
  TypeOK /\ ConnectionInv /\ WireInv /\ ReaderInv /\ SyncInv /\ AnswerInv /\ [Next]_vars => AnswerInv'
PROOF
  BY AnsweredNext, NumberNext DEF AnswerInv

-----------------------------------------------------------------------------
(* The theorems.                                                           *)

LEMMA IInvInit == Init => IInv
PROOF
<1>. SUFFICES ASSUME Init PROVE IInv
  OBVIOUS
<1>1. TypeOK
  BY TypeInit
<1>2. ConnectionInv /\ WireInv /\ ReaderInv
  BY DEF Init, ConnectionInv, WireInv, ReaderInv, InReply
<1>3. SyncInv /\ NoMixedReply /\ TextInv
  BY DEF Init, SyncInv, InSync, Unbroken, NoMixedReply, TextInv, NoResult
<1>4. AnswerInv
  BY DEF Init, AnswerInv, Answered, AppropriateResponse, NoResult
<1>. QED  BY <1>1, <1>2, <1>3, <1>4 DEF IInv

\* Read and wires keep to the inductive invariant in every step of the client,
\* its pipelines, the server and the network.
THEOREM IInvCorrect == Spec => []IInv
PROOF
<1>1. IInv /\ [Next]_vars => IInv'
  BY TypeNext, ConnectionNext, WireNext, ReaderNext, TextNext, SyncNext, NoMixedNext, AnswerNext DEF IInv
<1>. QED  BY IInvInit, <1>1, PTL DEF Spec

\* Every variable keeps its type.
THEOREM TypeCorrect == Spec => []TypeOK
PROOF
<1>1. IInv => TypeOK
  BY DEF IInv
<1>. QED  BY IInvCorrect, <1>1, PTL

\* A read() puts the lines of two calls together only when it has taken text for
\* the header of a reply that goes on; that text is of a value with a line break
\* or of a body that came late.
THEOREM NoMixedReplyCorrect == Spec => []NoMixedReply
PROOF
<1>1. IInv => NoMixedReply
  BY DEF IInv
<1>. QED  BY IInvCorrect, <1>1, PTL

\* On a connection that met none of the causes but a hang-up, no call gets or
\* leaves behind a line of another call.
THEOREM InSyncCorrect == Spec => []InSyncUnlessCaused
PROOF
<1>1. ASSUME IInv PROVE InSyncUnlessCaused
  <2>1. ASSUME InSync PROVE Stale = {}
    <3>1. DOMAIN toClient = 1..Len(toClient) /\ DOMAIN toServer = 1..Len(toServer) /\ Len(toServer) \in Nat
      BY <1>1, LenProperties DEF IInv, TypeOK, WireType
    <3>2. \A i \in DOMAIN toClient : toClient[i].of = reading
      BY <2>1, <3>1 DEF InSync
    <3>3. \A i \in DOMAIN toServer : toServer[i].id = reading
      BY <2>1, <3>1 DEF InSync
    <3>. QED  BY <3>2, <3>3 DEF Stale
  <2>. QED  BY <1>1, <2>1 DEF IInv, SyncInv, InSync, InSyncUnlessCaused
<1>. QED  BY IInvCorrect, <1>1, PTL

\* Until one of the causes occurs every call that returns has been handed the
\* answer the server gave to it, complete and nothing but that.
THEOREM AppropriateResponseCorrect == Spec => [](causes = {} => AppropriateResponse)
PROOF
<1>1. IInv => (causes = {} => AppropriateResponse)
  BY DEF IInv, AnswerInv, Answered
<1>. QED  BY IInvCorrect, <1>1, PTL

-----------------------------------------------------------------------------
(* The client implements RequestReply as long as no cause has occurred.    *)

LEMMA RequestReplyInit == Init => RR!Init
PROOF
  BY DEF Init, NoResult, Call_Served, RR!Init, RR!NoResult

\* The steps of a read: between two lines nothing happens to the caller, then
\* the call is answered or fails.
LEMMA RequestReplyRead ==
  ASSUME IInv, causes = {}, causes' = {}, Read
  PROVE  [RR!Next]_(RR!vars)
PROOF
<1>1. InSync /\ Answered /\ reading # 0
  BY DEF IInv, SyncInv, AnswerInv, Read, ReadHeader, ReadBody, ReadEOF, ReadTimeout
<1>2. UNCHANGED toServer /\ (toClient = <<>> => toServer = <<>>)
  BY <1>1 DEF IInv, ConnectionInv, Read, ReadHeader, ReadBody, ReadEOF, ReadTimeout, FgetsFails, wireVars
<1>3. toServer = <<>>
  BY <1>1, <1>2 DEF InSync
<1>4. CASE GoesOn
  BY <1>1, <1>2, <1>3, <1>4 DEF GoesOn, Call_Served, RR!vars
<1>5. CASE Answers
  <2>1. Call_Served /\ Call_Served' = FALSE
    BY <1>1, <1>3, <1>5 DEF Answers, Call_Served
  <2>2. RR!Answer
    BY <1>1, <1>5, <2>1 DEF Answers, RR!Answer, RR!Answers
  <2>. QED  BY <2>2 DEF RR!Next
<1>6. CASE Fails
  <2>1. ~Call_Served /\ Call_Served' = FALSE
    BY <1>6 DEF Fails, Call_Served
  <2>2. RR!Fail
    BY <1>1, <1>6, <2>1 DEF Fails, RR!Fail
  <2>. QED  BY <2>2 DEF RR!Next
<1>. QED  BY <1>1, <1>4, <1>5, <1>6, AnsweredRead DEF IInv

\* The steps of the server: executing the request of the call in progress.
LEMMA RequestReplyServer ==
  ASSUME IInv, causes = {}, causes' = {}, Server
  PROVE  [RR!Next]_(RR!vars)
PROOF
<1>1. TypeOK /\ ConnectionInv /\ ReaderInv /\ InSync /\ Answered
  BY DEF IInv, SyncInv, AnswerInv
<1>2. UNCHANGED <<reading, got, result>> /\ toServer # <<>>
  <2>1. UNCHANGED <<reading, owed, inBody, got, result>>
    BY <1>1, AnsweredServer DEF IInv
  <2>2. ~MonitorLine /\ ~Drop
    BY <1>1 DEF MonitorLine, Drop, InSync
  <2>. QED  BY <2>1, <2>2 DEF Server, Serve, ServeMonitor, ServeLast
<1>3. /\ reading \in Nat \ {0} /\ toClient = <<>> /\ ~Call_Served /\ got = {}
      /\ Tail(toServer) = <<>>
  <2>1. Len(toServer) = 1 /\ toServer[1].id = reading /\ toClient = <<>>
    BY <1>1, <1>2 DEF InSync
  <2>2. /\ Head(toServer) \in Call /\ Head(toServer) = toServer[1]
        /\ Tail(toServer) \in Seq(Call) /\ Len(Tail(toServer)) = Len(toServer) - 1
    BY <1>1, <1>2, FirstCall
  <2>3. Len(Tail(toServer)) = 0
    BY <2>1, <2>2
  <2>4. Tail(toServer) = <<>>
    BY <2>2, <2>3, EmptySeq
  <2>5. reading \in Nat \ {0}
    BY <2>1, <2>2 DEF Call
  <2>. QED  BY <1>1, <2>1, <2>4, <2>5 DEF Answered, Call_Served
<1>4. toServer' = <<>>
  <2>1. CASE Serve \/ ServeMonitor
    BY <1>3, <2>1 DEF Serve, ServeMonitor
  <2>2. CASE ServeLast \/ Drop
    BY <2>2 DEF ServeLast, Drop, Hangup
  <2>3. CASE MonitorLine
    BY <1>1, <2>3 DEF MonitorLine, InSync
  <2>. QED  BY <2>1, <2>2, <2>3 DEF Server
<1>5. CASE toClient' = <<>>
  BY <1>2, <1>3, <1>5 DEF Call_Served, RR!vars
<1>6. CASE toClient' # <<>>
  <2>1. Call_Served' = TRUE
    BY <1>2, <1>3, <1>4, <1>6 DEF Call_Served
  <2>2. RR!Served
    BY <1>2, <1>3, <2>1 DEF RR!Served
  <2>. QED  BY <2>2 DEF RR!Next
<1>. QED  BY <1>5, <1>6

LEMMA RequestReplyNext ==
  IInv /\ causes = {} /\ causes' = {} /\ [Next]_vars => [RR!Next]_(RR!vars)
PROOF
<1>. SUFFICES ASSUME IInv, causes = {}, causes' = {}, [Next]_vars
              PROVE  [RR!Next]_(RR!vars)
  OBVIOUS
<1>1. ASSUME UNCHANGED <<reading, result>>, reading = 0
      PROVE  [RR!Next]_(RR!vars)
  BY <1>1 DEF Call_Served, RR!vars
<1>2. CASE Open
  <2>1. reading = 0 /\ reading' = 0 /\ result' = RR!NoResult
    BY <1>2 DEF Open, NoResult, RR!NoResult
  <2>2. RR!Reset
    BY <2>1 DEF RR!Reset, Call_Served
  <2>. QED  BY <2>2 DEF RR!Next
<1>3. CASE OpenFails \/ Close \/ Quit
  BY <1>1, <1>3 DEF OpenFails, Close, Quit, readVars
<1>4. CASE \E p \in Pipelines : Flush(p) \/ \E class \in Classes : PipelineSend(p, class)
  BY <1>1, <1>4 DEF Flush, PipelineSend, readVars
<1>5. CASE \E class \in Classes : Send(class)
  <2>1. reading = 0 /\ reading' = calls + 1 /\ result' = result /\ toClient' = toClient /\ got' = {}
    BY <1>5 DEF Send
  <2>2. toClient = <<>>
    BY <2>1 DEF IInv, SyncInv, InSync
  <2>3. reading' \in Nat /\ reading' > result.call
    BY <2>1 DEF IInv, AnswerInv, TypeOK, HistType, ReadType
  <2>4. Call_Served' = FALSE
    BY <2>1, <2>2 DEF Call_Served
  <2>5. RR!Issue
    BY <2>1, <2>3, <2>4 DEF RR!Issue
  <2>. QED  BY <2>5 DEF RR!Next
<1>6. CASE Read
  BY <1>6, RequestReplyRead
<1>7. CASE Server
  BY <1>7, RequestReplyServer
<1>8. CASE UNCHANGED vars
  BY <1>8 DEF vars, wireVars, readVars, Call_Served, RR!vars
<1>. QED  BY <1>2, <1>3, <1>4, <1>5, <1>6, <1>7, <1>8 DEF Next, Client

\* A client whose connections meet none of the causes implements the
\* request-reply discipline: one call at a time, each served once, and answered
\* with what the server said to it, or failed if it was not served.
THEOREM RequestReplyCorrect == Spec /\ [](causes = {}) => ImplementsRequestReply
PROOF
<1>1. IInv /\ causes = {} /\ (causes = {})' /\ [Next]_vars => [RR!Next]_(RR!vars)
  BY RequestReplyNext
<1>. QED
  BY <1>1, IInvCorrect, RequestReplyInit, PTL DEF Spec, ImplementsRequestReply, RR!Spec

-----------------------------------------------------------------------------
(* No cause can occur on a connection that is used for direct calls only,  *)
(* to a server that answers in time and keeps the connection, with replies *)
(* read() walks to their end.                                              *)

CleanConnection ==
  /\ Pipelines = {} /\ "monitor" \notin Classes /\ ~MayTimeout /\ ~MayDrop
  /\ \A s \in Shapes : ~ErrorInside(s) /\ ~LineBreak(s)

CleanInv ==
  CleanConnection =>
    /\ causes = {}
    /\ \A i \in 1..Len(toServer) : toServer[i].class # "monitor"

LEMMA CleanTail ==
  ASSUME TypeOK, toServer # <<>>, \A i \in 1..Len(toServer) : toServer[i].class # "monitor"
  PROVE  \A i \in 1..Len(Tail(toServer)) : Tail(toServer)[i].class # "monitor"
PROOF
<1>1. toServer \in Seq(Call)
  BY DEF TypeOK, WireType
<1>2. /\ Len(Tail(toServer)) = Len(toServer) - 1 /\ Len(toServer) \in Nat
      /\ \A i \in 1..(Len(toServer) - 1) : Tail(toServer)[i] = toServer[i + 1]
  BY <1>1, HeadTailProperties, LenProperties
<1>. QED  BY <1>2

LEMMA CleanNext == IInv /\ CleanInv /\ [Next]_vars => CleanInv'
PROOF
<1>. SUFFICES ASSUME IInv, CleanInv, [Next]_vars, CleanConnection
              PROVE  causes' = {} /\ \A i \in 1..Len(toServer') : toServer'[i].class # "monitor"
  BY DEF CleanInv
<1>1. causes = {} /\ \A i \in 1..Len(toServer) : toServer[i].class # "monitor"
  BY DEF CleanInv
<1>2. ASSUME causes' = {}, toServer' \in {<<>>, toServer}
      PROVE  causes' = {} /\ \A i \in 1..Len(toServer') : toServer'[i].class # "monitor"
  BY <1>1, <1>2
<1>3. CASE Open
  BY <1>1, <1>2, <1>3 DEF Open, wireVars
<1>4. CASE OpenFails \/ Close \/ Quit
  BY <1>1, <1>2, <1>4 DEF OpenFails, Close, Quit, Hangup, wireVars, histVars
<1>5. CASE Read
  BY <1>1, <1>2, <1>5 DEF Read, ReadHeader, ReadBody, ReadEOF, ReadTimeout, FgetsFails,
                          CleanConnection, wireVars, histVars
<1>6. ASSUME NEW class \in Classes, Send(class)
      PROVE  causes' = {} /\ \A i \in 1..Len(toServer') : toServer'[i].class # "monitor"
  <2>1. toServer = <<>> /\ causes' = {}
    BY <1>1, <1>6 DEF Send, IInv, SyncInv, InSync
  <2>2. toServer' = <<NextCall("direct", class)>> \/ toServer' = <<>>
    BY <1>6, <2>1 DEF Send, Write
  <2>. QED  BY <2>1, <2>2 DEF NextCall, CleanConnection
<1>7. CASE \E p \in Pipelines : Flush(p) \/ \E class \in Classes : PipelineSend(p, class)
  BY <1>7 DEF CleanConnection
<1>8. CASE Serve
  <2>1. toServer # <<>> /\ toServer' = Tail(toServer)
    BY <1>8 DEF Serve
  <2>2. causes' = {}
    BY <1>1, <1>8 DEF Serve, CleanConnection
  <2>. QED  BY <1>1, <2>1, <2>2, CleanTail DEF IInv
<1>9. CASE ServeMonitor
  BY <1>1, <1>9, FirstCall DEF ServeMonitor, IInv
<1>10. CASE ServeLast \/ MonitorLine
  BY <1>1, <1>2, <1>10 DEF ServeLast, MonitorLine, Hangup, histVars
<1>11. CASE Drop
  BY <1>11 DEF Drop, CleanConnection
<1>12. CASE UNCHANGED vars
  BY <1>1, <1>2, <1>12 DEF vars, wireVars, histVars
<1>. QED
  BY <1>3, <1>4, <1>5, <1>6, <1>7, <1>8, <1>9, <1>10, <1>11, <1>12 DEF Next, Client, Server

LEMMA CleanCorrect == Spec => []CleanInv
PROOF
<1>1. Init => CleanInv
  BY DEF Init, CleanInv
<1>. QED  BY <1>1, CleanNext, IInvCorrect, PTL DEF Spec

\* Every call of a clean connection gets its own answer.
THEOREM CleanResponseCorrect == CleanConnection /\ Spec => []AppropriateResponse
PROOF
<1>. SUFFICES ASSUME CleanConnection
              PROVE  Spec => []AppropriateResponse
  OBVIOUS
<1>1. CleanInv => causes = {}
  BY DEF CleanInv
<1>. QED  BY <1>1, CleanCorrect, AppropriateResponseCorrect, PTL

\* A clean connection implements the request-reply discipline.
THEOREM CleanRequestReplyCorrect == CleanConnection /\ Spec => ImplementsRequestReply
PROOF
<1>. SUFFICES ASSUME CleanConnection
              PROVE  Spec => ImplementsRequestReply
  OBVIOUS
<1>1. CleanInv => causes = {}
  BY DEF CleanInv
<1>. QED  BY <1>1, CleanCorrect, RequestReplyCorrect, PTL
=============================================================================
