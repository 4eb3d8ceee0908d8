-------------------------- MODULE SerialLineProofs --------------------------
(***************************************************************************)
(* The bridge is a serial line.  First the parts of the invariant that say *)
(* what the pipe holds and when it may be missing, then what the mapping   *)
(* makes of the states and of each step, then the refinement and what      *)
(* follows from it for the writes of an application.                       *)
(***************************************************************************)
EXTENDS BridgeProofs

-----------------------------------------------------------------------------
(* Messages in the pipe.                                                   *)

LEMMA Parity ==
  ASSUME NEW n \in Int
  PROVE  /\ n % 2 \in {0, 1} /\ n = 2 * (n \div 2) + (n % 2) /\ n \div 2 \in Int
         /\ (n + 2) % 2 = n % 2 /\ (n + 2) \div 2 = (n \div 2) + 1
         /\ (n - 1) % 2 = 1 - (n % 2) /\ (n - 1) \div 2 = (n \div 2) - (1 - (n % 2))
<1>1. n % 2 \in {0, 1}
  OBVIOUS
<1>2. n = 2 * (n \div 2) + (n % 2)
  OBVIOUS
<1>3. n \div 2 \in Int
  OBVIOUS
<1>4. (n + 2) % 2 = n % 2 
  OBVIOUS
<1>5. (n + 2) \div 2 = (n \div 2) + 1
  OBVIOUS
<1>6. (n - 1) % 2 = 1 - (n % 2) 
  OBVIOUS
<1>7. (n - 1) \div 2 = (n \div 2) - (1 - (n % 2))
  OBVIOUS
<1> QED BY <1>1, <1>2, <1>3, <1>4, <1>5, <1>6, <1>7

Write == [id : Nat, len : Int]

LEMMA WriteType ==
  ASSUME NEW c \in Chunk
  PROVE  WriteOf(c) \in Write
BY DEF WriteOf, Write, Chunk, Data

\* The heads among n messages are a sequence of writes.
LEMMA HeadsType ==
  ASSUME NEW s \in Seq(Chunk), NEW n \in Nat, n <= Len(s) \div 2
  PROVE  /\ Heads(s, n) \in Seq(Write) /\ Len(Heads(s, n)) = n
         /\ \A k \in 1..n : /\ 2 * k - 1 + (Len(s) % 2) \in 1..Len(s)
                            /\ Heads(s, n)[k] = WriteOf(s[2 * k - 1 + (Len(s) % 2)])
<1> DEFINE p == Len(s) % 2
           m == Len(s) \div 2
<1>1. Len(s) \in Nat /\ p \in {0, 1} /\ Len(s) = 2 * m + p /\ m \in Int /\ n <= m
  BY Parity
<1>2. Heads(s, n) = [k \in 1..n |-> WriteOf(s[2 * k - 1 + p])]
  BY DEF Heads
<1> HIDE DEF p, m
<1>3. \A k \in 1..n : 2 * k - 1 + p \in 1..Len(s)
  BY <1>1
<1>4. \A k \in 1..n : WriteOf(s[2 * k - 1 + p]) \in Write
  <2> TAKE k \in 1..n
  <2>1. s[2 * k - 1 + p] \in Chunk
    BY <1>3
  <2> QED
    BY <2>1, WriteType
<1>5. Heads(s, n) \in Seq(Write) /\ Len(Heads(s, n)) = n
  BY <1>2, <1>4, IsASeq
<1> QED
  BY <1>2, <1>3, <1>5 DEF p

\* A message written to the pipe is the last one.
LEMMA HeadsAppended ==
  ASSUME NEW s \in Seq(Chunk), NEW a \in Chunk, NEW b \in Chunk
  PROVE  /\ Len(s \o <<a, b>>) \div 2 = (Len(s) \div 2) + 1
         /\ Heads(s \o <<a, b>>, (Len(s) \div 2) + 1)
              = Append(Heads(s, Len(s) \div 2), WriteOf(a))
         /\ Heads(s \o <<a, b>>, Len(s) \div 2) = Heads(s, Len(s) \div 2)
<1> DEFINE m == Len(s) \div 2
           t == s \o <<a, b>>
           p == Len(s) % 2
           q == Len(t) % 2
<1>1. Len(s) \in Nat /\ p \in {0, 1} /\ Len(s) = 2 * m + p /\ m \in Nat
  BY Parity
<1>2. t \in Seq(Chunk) /\ Len(t) = Len(s) + 2 /\ q = p /\ Len(t) \div 2 = m + 1
  BY PairAdded, Parity
<1>3. /\ \A k \in 1..Len(s) : t[k] = s[k]
      /\ t[Len(s) + 1] = a
  BY PairAdded
<1>4. Heads(s, m) = [k \in 1..m |-> WriteOf(s[2 * k - 1 + p])]
  BY DEF Heads
<1>5. \A j : Heads(t, j) = [k \in 1..j |-> WriteOf(t[2 * k - 1 + q])]
  BY DEF Heads
<1>6. Heads(s, m) \in Seq(Write) /\ Len(Heads(s, m)) = m
  BY <1>1, HeadsType
<1> HIDE DEF m, t, p, q
<1>7. \A k \in 1..m : 2 * k - 1 + p \in 1..Len(s) /\ t[2 * k - 1 + p] = s[2 * k - 1 + p]
  BY <1>1, <1>3
<1>8. 2 * (m + 1) - 1 + p = Len(s) + 1
  BY <1>1
<1>9. Heads(t, m) = Heads(s, m)
  BY <1>2, <1>4, <1>5, <1>7
<1> DEFINE h == Heads(s, m)
           g == Heads(t, m + 1)
           w == WriteOf(a)
<1>10. h \in Seq(Write) /\ Len(h) = m /\ w \in Write /\ g \in Seq(Write) /\ Len(g) = m + 1
  BY <1>1, <1>2, <1>6, WriteType, HeadsType
<1>11. \A k \in 1..m : g[k] = h[k]
  BY <1>1, <1>2, <1>4, <1>5, <1>7
<1>12. g[m + 1] = w
  <2>1. g = [k \in 1..(m + 1) |-> WriteOf(t[2 * k - 1 + p])]
    BY <1>2, <1>5
  <2>2. m + 1 \in 1..(m + 1)
    BY <1>1
  <2>3. g[m + 1] = WriteOf(t[2 * (m + 1) - 1 + p])
    BY <2>1, <2>2
  <2> QED
    BY <1>3, <1>8, <2>3
<1> HIDE DEF h, g, w
<1>13. g = Append(h, w)
  <2> DEFINE r == Append(h, w)
  <2>1. r \in Seq(Write) /\ Len(r) = m + 1
    BY <1>1, <1>10, AppendProperties
  <2>2. (\A k \in 1..m : r[k] = h[k]) /\ r[m + 1] = w
    BY <1>1, <1>10, AppendProperties
  <2> HIDE DEF r
  <2>3. \A k \in 1..(m + 1) : k \in 1..m \/ k = m + 1
    BY <1>1
  <2>4. \A k \in 1..(m + 1) : g[k] = r[k]
    BY <1>11, <1>12, <2>2, <2>3, Zenon
  <2> QED
    BY <1>10, <2>1, <2>4, SeqEqual DEF r
<1> QED
  BY <1>2, <1>9, <1>13 DEF m, t, h, g, w

\* When the rest of a message is read, the messages stay; when a head is read, its
\* write is the one that goes.
LEMMA HeadsTaken ==
  ASSUME NEW s \in Seq(Chunk), s # <<>>
  PROVE  /\ Len(s) % 2 = 1 =>
              /\ Len(Tail(s)) \div 2 = Len(s) \div 2
              /\ \A j \in 0..(Len(s) \div 2) : Heads(Tail(s), j) = Heads(s, j)
         /\ Len(s) % 2 = 0 =>
              /\ Len(s) \div 2 >= 1 /\ Len(Tail(s)) \div 2 = (Len(s) \div 2) - 1
              /\ \A j \in 0..((Len(s) \div 2) - 1) :
                   Heads(s, j + 1) = <<WriteOf(s[1])>> \o Heads(Tail(s), j)
<1> DEFINE m == Len(s) \div 2
           t == Tail(s)
           p == Len(s) % 2
           q == Len(t) % 2
<1>1. Len(s) \in Nat /\ p \in {0, 1} /\ Len(s) = 2 * m + p /\ m \in Nat /\ Len(s) >= 1
  BY Parity, ChunkTaken
<1>2. /\ t \in Seq(Chunk) /\ Len(t) = Len(s) - 1 /\ q = 1 - p
      /\ Len(t) \div 2 = m - (1 - p)
  BY ChunkTaken, HeadTailProperties, Parity
<1>3. \A k \in 1..Len(t) : t[k] = s[k + 1]
  BY ChunkTaken
<1>4. \A j : Heads(s, j) = [k \in 1..j |-> WriteOf(s[2 * k - 1 + p])]
  BY DEF Heads
<1>5. \A j : Heads(t, j) = [k \in 1..j |-> WriteOf(t[2 * k - 1 + q])]
  BY DEF Heads
<1>t. \A j \in 0..(Len(t) \div 2) : Heads(t, j) \in Seq(Write) /\ Len(Heads(t, j)) = j
  <2> TAKE j \in 0..(Len(t) \div 2)
  <2>1. j \in Nat /\ j <= Len(t) \div 2
    BY <1>1, <1>2
  <2> QED
    BY <1>2, <2>1, HeadsType
<1>s. \A j \in 0..m : Heads(s, j) \in Seq(Write) /\ Len(Heads(s, j)) = j
  BY <1>1, HeadsType
<1>w. WriteOf(s[1]) \in Write
  BY <1>1, WriteType
<1> HIDE DEF m, t, p, q
<1>6. ASSUME p = 1, NEW j \in 0..m
      PROVE  Heads(t, j) = Heads(s, j)
  <2>1. \A k \in 1..j : 2 * k - 1 + q \in 1..Len(t) /\ 2 * k - 1 + q + 1 = 2 * k - 1 + p
    BY <1>1, <1>2, <1>6
  <2>2. \A k \in 1..j : t[2 * k - 1 + q] = s[2 * k - 1 + p]
    BY <1>3, <2>1
  <2> QED
    BY <1>4, <1>5, <2>2
<1>7. ASSUME p = 0, NEW j \in 0..(m - 1)
      PROVE  Heads(s, j + 1) = <<WriteOf(s[1])>> \o Heads(t, j)
  <2> DEFINE g == Heads(s, j + 1)
             h == Heads(t, j)
             w == WriteOf(s[1])
  <2>1. /\ g \in Seq(Write) /\ Len(g) = j + 1 /\ h \in Seq(Write) /\ Len(h) = j
        /\ w \in Write /\ j \in Nat
    BY <1>1, <1>2, <1>7, <1>t, <1>s, <1>w
  <2>2. g[1] = w
    BY <1>1, <1>4, <1>7
  <2>3. ASSUME NEW k \in 1..j PROVE g[k + 1] = h[k]
    <3>1. 2 * k - 1 + q \in 1..Len(t) /\ 2 * k - 1 + q + 1 = 2 * (k + 1) - 1 + p
      BY <1>1, <1>2, <1>7
    <3>2. t[2 * k - 1 + q] = s[2 * (k + 1) - 1 + p]
      BY <1>3, <3>1
    <3>3. h[k] = WriteOf(t[2 * k - 1 + q])
      BY <1>5
    <3>4. g[k + 1] = WriteOf(s[2 * (k + 1) - 1 + p])
      BY <1>4, <2>1
    <3> QED
      BY <3>2, <3>3, <3>4
  <2> HIDE DEF g, h, w
  <2>4. <<w>> \in Seq(Write) /\ Len(<<w>>) = 1 /\ <<w>>[1] = w
    BY <2>1
  <2>5. <<w>> \o h \in Seq(Write) /\ Len(<<w>> \o h) = 1 + j
    BY <2>1, <2>4, ConcatProperties
  <2>6. \A i \in 1..(j + 1) : (<<w>> \o h)[i] = IF i = 1 THEN w ELSE h[i - 1]
    BY <2>1, <2>4, ConcatProperties
  <2>7. \A i \in 1..(j + 1) : g[i] = (<<w>> \o h)[i]
    <3> TAKE i \in 1..(j + 1)
    <3>1. CASE i = 1
      BY <2>1, <2>2, <2>6, <3>1
    <3>2. CASE i # 1
      <4>1. i - 1 \in 1..j /\ (i - 1) + 1 = i
        BY <2>1, <3>2
      <4>2. g[(i - 1) + 1] = h[i - 1]
        BY <2>3, <4>1
      <4> QED
        BY <2>6, <3>2, <4>1, <4>2
    <3> QED
      BY <3>1, <3>2
  <2>8. g = <<w>> \o h
    BY <2>1, <2>5, <2>7, SeqEqual
  <2> QED
    BY <2>8 DEF g, h, w
<1>8. /\ p = 1 => Len(t) \div 2 = m /\ \A j \in 0..m : Heads(t, j) = Heads(s, j)
      /\ p = 0 =>
           /\ m >= 1 /\ Len(t) \div 2 = m - 1
           /\ \A j \in 0..(m - 1) : Heads(s, j + 1) = <<WriteOf(s[1])>> \o Heads(t, j)
  BY <1>1, <1>2, <1>6, <1>7
<1> QED
  BY <1>8, Zenon DEF m, t, p

-----------------------------------------------------------------------------
\* The shape of what the pipe holds, after a message, a read, or nothing
LEMMA ShapeKept ==
  ASSUME ShapePart, toSvc' \in {toSvc, <<>>}
  PROVE  ShapePart'
<1>1. Len(<<>>) = 0
  OBVIOUS
<1>2. CASE toSvc' = <<>>
  <2>1. 1..Len(toSvc') = {}
    BY <1>1, <1>2
  <2> QED
    BY <2>1 DEF ShapePart
<1>3. CASE toSvc' = toSvc
  BY <1>3 DEF ShapePart
<1> QED
  BY <1>2, <1>3

LEMMA ShapeAppended ==
  ASSUME ClientInv, ShapePart, ~Requested,
         NEW a \in Chunk, a.d = "RX" \/ (a.d = "TX" /\ a.len > 0),
         toSvc' = toSvc \o <<a, ZeroChunk>>
  PROVE  ShapePart'
<1> DEFINE n == Len(toSvc)
<1>1. toSvc \in Seq(Chunk) /\ n \in Nat
  BY PipeTypes
<1>2. ZeroChunk \in Chunk
  BY DEF ZeroChunk, Chunk, Direction, Data, Zero
<1>3. /\ Len(toSvc') = n + 2
      /\ \A k \in 1..(n + 2) : \/ k \in 1..n /\ toSvc'[k] = toSvc[k]
                               \/ k = n + 1 /\ toSvc'[k] = a
                               \/ k = n + 2 /\ toSvc'[k] = ZeroChunk
  BY <1>1, <1>2, PairAdded
<1>4. \A k \in 1..n : IF (n - k) % 2 = 0 THEN toSvc[k] = ZeroChunk
                                         ELSE toSvc[k].d = "TX" /\ toSvc[k].len > 0
  BY DEF ShapePart, Requested
<1> HIDE DEF n
<1>5. ASSUME NEW k \in 1..(n + 2)
      PROVE  IF ((n + 2) - k) % 2 = 0 THEN toSvc'[k] = ZeroChunk
             ELSE IF toSvc'[k].d = "RX" THEN k = (n + 2) - 1
                                        ELSE toSvc'[k].d = "TX" /\ toSvc'[k].len > 0
  <2>1. CASE k \in 1..n /\ toSvc'[k] = toSvc[k]
    <3>1. (n + 2) - k = (n - k) + 2 /\ n - k \in Int
      BY <1>1, <2>1
    <3>p. \A x \in Int : (x + 2) % 2 = x % 2
      BY Parity
    <3>2. ((n + 2) - k) % 2 = (n - k) % 2
      <4> DEFINE x == n - k
      <4>1. x \in Int /\ (n + 2) - k = x + 2
        BY <3>1
      <4> HIDE DEF x
      <4>2. ((n + 2) - k) % 2 = x % 2
        BY <3>p, <4>1
      <4> QED
        BY <4>2, Zenon DEF x
    <3> QED
      BY <1>4, <2>1, <3>2
  <2>2. CASE k = n + 1 /\ toSvc'[k] = a
    <3>1. (n + 2) - k = 1 /\ k = (n + 2) - 1
      BY <1>1, <2>2
    <3>2. ((n + 2) - k) % 2 # 0
      BY <3>1
    <3> QED
      BY <2>2, <3>1, <3>2, Zenon
  <2>3. CASE k = n + 2 /\ toSvc'[k] = ZeroChunk
    <3>1. (n + 2) - k = 0
      BY <1>1, <2>3
    <3>2. 0 % 2 = 0
      OBVIOUS
    <3> QED
      BY <2>3, <3>1, <3>2
  <2> QED
    BY <1>3, <2>1, <2>2, <2>3
<1> QED
  BY <1>3, <1>5 DEF ShapePart

LEMMA ShapeTaken ==
  ASSUME ClientInv, ShapePart, toSvc # <<>>, toSvc' = Tail(toSvc)
  PROVE  ShapePart'
<1> DEFINE n == Len(toSvc)
<1>1. /\ n \in Nat /\ Len(toSvc') = n - 1
      /\ \A k \in 1..(n - 1) : k + 1 \in 1..n /\ toSvc'[k] = toSvc[k + 1]
  BY PipeTypes, ChunkTaken
<1>2. \A k \in 1..n : IF (n - k) % 2 = 0 THEN toSvc[k] = ZeroChunk
                      ELSE IF toSvc[k].d = "RX" THEN k = n - 1
                                                ELSE toSvc[k].d = "TX" /\ toSvc[k].len > 0
  BY DEF ShapePart
<1> HIDE DEF n
<1>3. ASSUME NEW k \in 1..(n - 1)
      PROVE  IF ((n - 1) - k) % 2 = 0 THEN toSvc'[k] = ZeroChunk
             ELSE IF toSvc'[k].d = "RX" THEN k = (n - 1) - 1
                                        ELSE toSvc'[k].d = "TX" /\ toSvc'[k].len > 0
  <2>1. (n - 1) - k = n - (k + 1)
    BY <1>1
  <2>2. k + 1 = n - 1 => k = (n - 1) - 1
    BY <1>1
  <2> QED
    BY <1>1, <1>2, <2>1, <2>2
<1> QED
  BY <1>1, <1>3 DEF ShapePart

\* The driver sends a head and the rest of a message, of a write or of a read request.
LEMMA DriverShape ==
  ASSUME ClientInv, AtMostOneExchange, DataPart, ShapePart, WritePart,
         NEW t \in Threads, Callbacks(t)
  PROVE  ShapePart'
<1>0. cb \in [Threads -> Callback] /\ \A u \in Threads \ {t} : cb[u].pc = "idle"
  BY OnlyCallback DEF ClientInv, DriverInv, DriverTypeOK
<1>1. CASE QuietStep
  BY <1>1, ShapeKept DEF QuietStep
<1>2. CASE WriteSent(t)
  <2> DEFINE head == [d |-> smOut.d, len |-> smOut.len, data |-> smOut.data]
  <2>1. cb[t].pc = "wfile" /\ toSvc' = toSvc \o <<head, ZeroChunk>>
    BY <1>2 DEF WriteSent, SendWrite, ServerWriteOK, DataPart
  <2>2. head \in Chunk
    BY DEF ClientInv, DriverInv, DriverTypeOK, Chunk
  <2>5. head.d = "TX" /\ head.len \in Lengths \ {0}
    BY <2>1 DEF DataPart, WritePart
  <2>3. head.len > 0
    <3>1. head.len \in Nat /\ head.len # 0
      BY <2>5, DriverAssumption
    <3> QED
      BY <3>1
  <2>4. ~Requested
    BY <1>0, <2>1 DEF AtMostOneExchange, Readers
  <2> HIDE DEF head
  <2> QED
    BY <2>1, <2>2, <2>3, <2>4, <2>5, ShapeAppended
<1>3. CASE RequestSent(t)
  <2> DEFINE head == [d |-> "RX", len |-> req[cb[t].iss].len, data |-> Zero]
  <2>1. cb[t].pc = "rwrite" /\ toSvc' = toSvc \o <<head, ZeroChunk>>
    BY <1>3 DEF RequestSent, SendReadRequest, ServerWriteOK
  <2>2. head \in Chunk /\ head.d = "RX"
    <3>1. cb[t].iss \in Issuers /\ req \in [Issuers -> Request]
      BY <2>1, OthersIdle DEF ClientInv, DriverInv, DriverTypeOK
    <3> QED
      BY <3>1 DEF Chunk, Direction, Request, Data, Zero
  <2>3. ~Requested
    BY <1>0, <2>1 DEF AtMostOneExchange, Readers
  <2> HIDE DEF head
  <2> QED
    BY <2>1, <2>2, <2>3, ShapeAppended
<1>4. CASE ReadReply(t)
  <2>1. toSvc' = toSvc
    BY <1>4 DEF ReadReply, ReadNothing, ServerReadOK, pipeVars
  <2> QED
    BY <2>1, ShapeKept
<1>5. CASE HostDies(t)
  BY <1>5, HostGone, ShapeKept
<1> QED
  BY <1>1, <1>2, <1>3, <1>4, <1>5, DriverStepKinds

LEMMA ServiceShape ==
  ASSUME ClientInv, ShapePart, AppRequest \/ ServiceStep \/ ServiceCrash
  PROVE  ShapePart'
<1>1. CASE toSvc' \in {toSvc, <<>>}
  BY <1>1, ShapeKept
<1>2. CASE ClientRead
  BY <1>2, ShapeTaken DEF ClientRead
<1> QED
  BY <1>1, <1>2
  DEF AppRequest, ServiceStep, ServiceCrash, ServiceLoop, ServiceStart, OpenPipe, SetMode,
      ReadPipe, ForwardToCom, ReadFromCom, Reply, Exit, VcomFails, SendControl,
      SendBaudRate, BaudRateSet, Crash, Issue, ClientOpen, ClientClose, ClientWrite,
      pipeVars

\* Nothing is sent while a reply is made or on its way.
LEMMA LastKept ==
  ASSUME ClientInv, LastPart, Answering' \/ Answered' => Answering \/ Answered,
         toSvc' \in {toSvc, <<>>} \/ ClientRead
  PROVE  LastPart'
<1>1. Len(<<>>) = 0 /\ toSvc \in Seq(Chunk) /\ Len(toSvc) \in Nat
  BY PipeTypes, LenProperties
<1>2. toSvc # <<>> => Len(Tail(toSvc)) = Len(toSvc) - 1
  BY <1>1, ChunkTaken
<1>3. Len(toSvc) <= 1 => Len(toSvc') <= 1
  BY <1>1, <1>2 DEF ClientRead
<1> QED
  BY <1>3 DEF LastPart

LEMMA DriverLast ==
  ASSUME ClientInv, AtMostOneExchange, LastPart, NEW t \in Threads, Callbacks(t),
         UNCHANGED serviceVars
  PROVE  LastPart'
<1>0. /\ UNCHANGED spc /\ toDrv \in Seq(Chunk) /\ Len(<<>>) = 0
      /\ \A u \in Threads \ {t} : cb[u].pc = "idle"
  BY OnlyCallback, PipeTypes DEF serviceVars
<1>1. CASE QuietStep
  BY <1>0, <1>1, LastKept DEF QuietStep, Answering, Answered
<1>2. CASE WriteSent(t) \/ RequestSent(t)
  <2>1. cb[t].pc \in {"wfile", "rwrite"} /\ UNCHANGED toDrv
    BY <1>2 DEF WriteSent, RequestSent, SendWrite, SendReadRequest, ServerWriteOK
  <2>2. Readers = {}
    BY <1>0, <2>1 DEF Readers
  <2> QED
    BY <1>0, <2>1, <2>2 DEF AtMostOneExchange, LastPart, Answering, Answered
<1>3. CASE ReadReply(t)
  <2>1. toSvc' = toSvc /\ (toDrv # <<>> \/ toDrv' = toDrv)
    BY <1>3 DEF ReadReply, ReadNothing, ServerReadOK, pipeVars
  <2> QED
    BY <1>0, <2>1, LastKept DEF Answering, Answered
<1>4. CASE HostDies(t)
  BY <1>0, <1>4, HostGone, LastKept DEF Answering, Answered
<1> QED
  BY <1>1, <1>2, <1>3, <1>4, DriverStepKinds

LEMMA ServiceLast ==
  ASSUME ClientInv, ShapePart, LastPart, AppRequest \/ ServiceStep \/ ServiceCrash
  PROVE  LastPart'
<1>1. CASE ReadPipe /\ ClientRead /\ spc' = "rx"
  <2>1. /\ toSvc # <<>> /\ toSvc' = Tail(toSvc) /\ toSvc \in Seq(Chunk)
        /\ Head(toSvc).d \in {"TX", "RX", "NONE"}
    BY <1>1, PipeTypes, HeadIsChunk DEF ClientRead
  <2>2. Head(toSvc).d = "RX"
    BY <1>1, <2>1 DEF ReadPipe, ClientRead
  <2>3. /\ Len(toSvc) \in Nat /\ Len(toSvc) >= 1 /\ Len(Tail(toSvc)) = Len(toSvc) - 1
        /\ toSvc[1].d = "RX"
    BY <2>1, <2>2, ChunkTaken
  <2>t. ZeroChunk.d = "TX" /\ 1 \in 1..Len(toSvc)
    BY <2>3 DEF ZeroChunk
  <2>4. 1 = Len(toSvc) - 1
    BY <2>3, <2>t DEF ShapePart
  <2> QED
    BY <2>1, <2>3, <2>4 DEF LastPart
<1>2. CASE ReadPipe /\ ~(ClientRead /\ spc' = "rx")
  <2>1. CASE ClientRead
    <3>1. /\ spc' \in {"tx", "read"} /\ UNCHANGED toDrv
      <4>1. toSvc # <<>> => Head(toSvc).d \in {"TX", "RX", "NONE"}
        BY HeadIsChunk
      <4> QED
        BY <1>2, <2>1, <4>1 DEF ReadPipe, ClientRead
    <3> QED
      BY <2>1, <3>1, LastKept DEF Answering, Answered
  <2>2. CASE ~ClientRead
    BY <1>2, <2>2, LastKept DEF ReadPipe, pipeVars, Answering, Answered
  <2> QED
    BY <2>1, <2>2
<1>3. CASE ReadFromCom \/ Reply
  BY <1>3, LastKept DEF ReadFromCom, Reply, ClientWrite, pipeVars, Answering, Answered
<1>4. CASE AppRequest
  BY <1>4, LastKept DEF AppRequest, Issue, pipeVars, serviceVars, Answering, Answered
<1>5. CASE SendControl \/ SendBaudRate \/ VcomFails \/ BaudRateSet
  BY <1>5, LastKept
  DEF SendControl, SendBaudRate, VcomFails, BaudRateSet, Issue, pipeVars, Answering, Answered
<1>6. CASE ServiceStart \/ SetMode \/ ForwardToCom
  BY <1>6, LastKept DEF ServiceStart, SetMode, ForwardToCom, pipeVars, Answering, Answered
<1>7. CASE OpenPipe \/ Exit \/ ServiceCrash
  <2>1. toSvc' \in {toSvc, <<>>} /\ toDrv' \in {toDrv, <<>>} /\ spc' \in {"mode", "down"}
    BY <1>7 DEF OpenPipe, Exit, ServiceCrash, Crash, ClientOpen, ClientClose, pipeVars
  <2> QED
    BY <2>1, LastKept DEF Answering, Answered
<1> QED
  BY <1>1, <1>2, <1>3, <1>4, <1>5, <1>6, <1>7 DEF ServiceStep, ServiceLoop

\* Where a callback may begin or go on to serve a write
LEMMA WritePlace ==
  ASSUME ClientInv, NEW t \in Threads, Callbacks(t), cb'[t].pc = "write"
  PROVE  \/ /\ pipeOpen /\ UNCHANGED pipeOpen
            /\ \E i \in Issuers : Dispatch(t, i) /\ req[i].op = "write"
         \/ /\ UNCHANGED req /\ cb'[t].iss = cb[t].iss /\ req[cb[t].iss].op = "write"
            /\ cb[t].pc \in {"create", "connect", "listen"}
            /\ CreatePipeFails(t) \/ ClientConnected(t) \/ ConnectFails(t)
<1>0. cb \in [Threads -> Callback] /\ req \in [Issuers -> Request] /\ pipeOpen \in BOOLEAN
  BY DEF ClientInv, DriverInv, DriverTypeOK
<1>1. CASE \E i \in Issuers : Dispatch(t, i)
  <2>1. PICK i \in Issuers : Dispatch(t, i)
    BY <1>1
  <2>2. cb'[t].pc = EntryPc(req[i].op) /\ UNCHANGED pipeOpen
    BY <1>0, <2>1 DEF Dispatch
  <2>3. req[i].op \in {"write", "read", "baud", "ioctl"}
    BY <1>0 DEF Request, AllOps
  <2>4. pipeOpen /\ req[i].op = "write"
    BY <1>0, <2>2, <2>3 DEF EntryPc
  <2> QED
    BY <2>1, <2>2, <2>4
<1>2. CASE CreatePipeFails(t) \/ ClientConnected(t) \/ ConnectFails(t)
  <2>1. cb[t].pc \in {"create", "connect", "listen"} /\ UNCHANGED req
    BY <1>2 DEF CreatePipeFails, ClientConnected, ConnectFails
  <2>2. cb'[t].pc = req[cb[t].iss].op /\ cb'[t].iss = cb[t].iss
    BY <1>0, <1>2, GotoPlace DEF CreatePipeFails, ClientConnected, ConnectFails
  <2> QED
    BY <1>2, <2>1, <2>2
<1>3. CASE CreatePipe(t) \/ WaitForClient(t) \/ WriteBytes(t) \/ SendWrite(t) \/ StartRead(t)
             \/ SendReadRequest(t) \/ ReadReply(t) \/ ClosePipes(t) \/ OtherIoctl(t)
  <2>1. Return(t) \/ Goto(t, "connect") \/ Goto(t, "listen") \/ Goto(t, "wfile")
          \/ Goto(t, "rwrite") \/ Goto(t, "rread")
    BY <1>3
    DEF CreatePipe, WaitForClient, WriteBytes, SendWrite, StartRead, SendReadRequest,
        ReadReply, ReadNothing, ClosePipes, OtherIoctl
  <2> QED
    BY <1>0, <2>1, GotoPlace, ReturnPlace
<1>4. CASE HostDies(t)
  BY <1>4, HostGone
<1> QED
  BY <1>1, <1>2, <1>3, <1>4 DEF Callbacks

\* Only OnWrite goes on to send.
LEMMA SendPlace ==
  ASSUME ClientInv, NEW t \in Threads, Callbacks(t), ~WriteBytes(t)
  PROVE  cb'[t].pc # "wfile"
<1>0. cb \in [Threads -> Callback] /\ req \in [Issuers -> Request]
  BY DEF ClientInv, DriverInv, DriverTypeOK
<1>1. CASE \E i \in Issuers : Dispatch(t, i)
  <2>1. PICK i \in Issuers : Dispatch(t, i)
    BY <1>1
  <2>2. cb'[t].pc = EntryPc(req[i].op)
    BY <1>0, <2>1 DEF Dispatch
  <2>3. req[i].op \in {"write", "read", "baud", "ioctl"} /\ pipeOpen \in BOOLEAN
    BY <1>0 DEF Request, AllOps, ClientInv, DriverInv, DriverTypeOK
  <2> QED
    BY <2>2, <2>3 DEF EntryPc
<1>2. CASE Return(t) \/ Goto(t, "connect") \/ Goto(t, "listen") \/ Goto(t, "rwrite")
             \/ Goto(t, "rread")
  BY <1>0, <1>2, GotoPlace, ReturnPlace
<1>3. CASE CreatePipeFails(t) \/ ClientConnected(t) \/ ConnectFails(t)
  <2>1. cb[t].pc \in {"create", "connect", "listen"}
    BY <1>3 DEF CreatePipeFails, ClientConnected, ConnectFails
  <2>2. req[cb[t].iss].op \in {"write", "read"}
    BY <2>1 DEF ClientInv, DriverInv, RequestPart
  <2>3. cb'[t].pc = req[cb[t].iss].op
    BY <1>0, <1>3, GotoPlace DEF CreatePipeFails, ClientConnected, ConnectFails
  <2> QED
    BY <2>2, <2>3
<1>4. CASE HostDies(t)
  BY <1>4, HostGone
<1> QED
  BY <1>1, <1>2, <1>3, <1>4
  DEF Callbacks, CreatePipe, WaitForClient, SendWrite, StartRead, SendReadRequest,
      ReadReply, ReadNothing, ClosePipes, OtherIoctl

\* A write stays a write of its length until it is sent.
LEMMA DriverWrites ==
  ASSUME ClientInv, WritePart, NEW t \in Threads, Callbacks(t)
  PROVE  WritePart'
<1>0. /\ cb \in [Threads -> Callback] /\ req \in [Issuers -> Request]
      /\ \A u \in Threads \ {t} : cb[u].pc = "idle" /\ cb'[u].pc = "idle"
  BY OnlyCallback DEF ClientInv, DriverInv, DriverTypeOK
<1>1. \A i \in Issuers :
        req'[i].st # "none" /\ req'[i].op = "write" => req'[i].len \in Lengths \ {0}
  <2>1. CASE UNCHANGED req
    BY <2>1 DEF WritePart
  <2>2. CASE Complete(cb[t].iss)
    BY <1>0, <2>2 DEF WritePart, Complete, NoRequest
  <2>3. CASE \E j \in Issuers : Dispatch(t, j)
    <3>1. PICK j \in Issuers : req[j].st = "queued" /\ req' = [req EXCEPT ![j].st = "active"]
      BY <2>3 DEF Dispatch
    <3>2. \A i \in Issuers : /\ req'[i].op = req[i].op /\ req'[i].len = req[i].len
                             /\ req'[i].st # "none" => req[i].st # "none"
      BY <1>0, <3>1 DEF Request
    <3> QED
      BY <3>2 DEF WritePart
  <2>4. CASE HostDies(t)
    BY <2>4, HostGone DEF NoRequest
  <2> QED
    BY <2>1, <2>2, <2>3, <2>4
    DEF Callbacks, CreatePipe, CreatePipeFails, WaitForClient, ClientConnected,
        ConnectFails, WriteBytes, SendWrite, StartRead, SendReadRequest, ReadReply,
        ReadNothing, ClosePipes, OtherIoctl
<1>2. cb'[t].pc = "write" => req'[cb'[t].iss].op = "write"
  <2> SUFFICES ASSUME cb'[t].pc = "write" PROVE req'[cb'[t].iss].op = "write"
    OBVIOUS
  <2>1. CASE \E i \in Issuers : Dispatch(t, i) /\ req[i].op = "write"
    <3>1. PICK i \in Issuers : Dispatch(t, i) /\ req[i].op = "write"
      BY <2>1
    <3>2. cb'[t].iss = i
      BY <1>0, <3>1 DEF Dispatch
    <3>3. req'[i].op = req[i].op
      BY <1>0, <3>1 DEF Dispatch, Request
    <3> QED
      BY <3>1, <3>2, <3>3
  <2>2. CASE UNCHANGED req /\ cb'[t].iss = cb[t].iss /\ req[cb[t].iss].op = "write"
    BY <2>2
  <2> QED
    BY <2>1, <2>2, WritePlace
<1>3. cb'[t].pc = "wfile" => smOut'.len \in Lengths \ {0}
  <2>1. CASE WriteBytes(t)
    <3> DEFINE r == req[cb[t].iss]
               c == CopiedIn(acked + 1, r.len, r.tail)
    <3>1. cb[t].iss \in Issuers /\ r.st = "active" /\ r.op = "write"
      BY <2>1, OthersIdle DEF WriteBytes, ClientInv, DriverInv, RequestPart, WritePart
    <3>2. r.len \in Lengths \ {0}
      BY <3>1 DEF WritePart
    <3>3. DOMAIN c = {"d", "len", "data", "tail"}
      <4>1. smOut \in [d : Direction, len : Int, data : Data, tail : Chunk]
        BY DEF ClientInv, DriverInv, DriverTypeOK
      <4> QED
        BY <4>1 DEF CopiedIn
    <3>4. cb'[t].pc = "wfile" => smOut' = [c EXCEPT !.d = "TX", !.len = r.len]
      BY <1>0, <2>1, ReturnPlace DEF WriteBytes
    <3> HIDE DEF c, r
    <3> QED
      BY <3>2, <3>3, <3>4
  <2>2. CASE ~WriteBytes(t)
    BY <2>2, SendPlace
  <2> QED
    BY <2>1, <2>2
<1> QED
  BY <1>0, <1>1, <1>2, <1>3 DEF WritePart

\* The driver leaves the ends of the pipe as its flags say.
LEMMA DriverFaults ==
  ASSUME ClientInv, FaultPart, NEW t \in Threads, Callbacks(t), UNCHANGED serviceVars,
         faulted' = (faulted \/ Fault)
  PROVE  FaultPart'
<1>0. /\ cb \in [Threads -> Callback] /\ faulted' \in BOOLEAN
      /\ faulted => faulted'
      /\ \A u \in Threads \ {t} : cb[u].pc = "idle" /\ cb'[u].pc = "idle"
  BY OnlyCallback DEF ClientInv, DriverInv, DriverTypeOK
<1>i. DriverInv
  BY DEF ClientInv
<1>1. hPipe' = "invalid" \/ pipe' = "clientGone" => faulted'
  <2>1. pipe' = "clientGone" => pipe = "clientGone"
    BY DEF Callbacks, Dispatch, CreatePipe, CreatePipeFails, WaitForClient,
       ClientConnected, ConnectFails, WriteBytes, SendWrite, StartRead, SendReadRequest,
       ReadReply, ReadNothing, HostDies, ClosePipes, OtherIoctl, ServerCreate,
       ServerDestroy, ServerWriteOK, ServerReadOK, pipeVars
  <2>2. hPipe' = "invalid" => faulted'
    BY DEF Fault
  <2> QED
    BY <1>0, <2>1, <2>2 DEF FaultPart
<1>2. ConnectFails(t) \/ CreatePipeFails(t) => faulted'
  BY <1>0 DEF ConnectFails, CreatePipeFails, FaultPart, Fault
<1>3. ClientConnected(t) => hPipe' = "live" /\ fConnected' /\ pipeOpen'
  BY <1>i DEF ClientConnected, DriverInv, PlacePart, HandlePart
<1>4. CreatePipe(t) \/ WaitForClient(t) =>
        cb'[t].pc \in {"connect", "listen"}
  BY <1>0, GotoPlace DEF CreatePipe, WaitForClient
<1>5. CASE CreatePipe(t) \/ CreatePipeFails(t) \/ WaitForClient(t) \/ ClientConnected(t)
             \/ ConnectFails(t) \/ ClosePipes(t)
  <2>1. pipeOpen' /\ ~UsesPipe' =>
          faulted' \/ \E u \in Threads : cb'[u].pc \in {"connect", "listen"}
    BY <1>2, <1>3, <1>4, <1>5 DEF UsesPipe, ClosePipes
  <2>2. cb'[t].pc = "write" => pipeOpen' \/ faulted'
    <3>1. ClosePipes(t) => cb'[t].pc = "idle"
      BY <1>0, ReturnPlace DEF ClosePipes
    <3> QED
      BY <1>2, <1>3, <1>4, <1>5, <3>1
  <2> QED
    BY <1>0, <1>1, <2>1, <2>2 DEF FaultPart
<1>6. CASE (\E i \in Issuers : Dispatch(t, i)) \/ WriteBytes(t) \/ SendWrite(t)
             \/ StartRead(t) \/ SendReadRequest(t) \/ ReadReply(t) \/ OtherIoctl(t)
  <2>1. UNCHANGED <<pipeOpen, hPipe, fConnected>> /\ cb[t].pc \notin {"connect", "listen"}
    BY <1>6
    DEF Dispatch, LockFree, WriteBytes, SendWrite, StartRead, SendReadRequest, ReadReply,
        ReadNothing, OtherIoctl
  <2>2. pipeOpen' /\ ~UsesPipe' => faulted'
    BY <1>0, <2>1 DEF FaultPart, UsesPipe
  <2>3. cb'[t].pc = "write" => pipeOpen' \/ faulted'
    <3>1. ~(CreatePipeFails(t) \/ ClientConnected(t) \/ ConnectFails(t)) \/ faulted' \/ pipeOpen'
      BY <1>2, <1>3
    <3> QED
      BY <3>1, WritePlace
  <2> QED
    BY <1>0, <1>1, <2>2, <2>3 DEF FaultPart
<1>7. CASE HostDies(t)
  <2>1. ~pipeOpen' /\ \A u \in Threads : cb'[u].pc = "idle"
    BY <1>7, HostGone DEF HostDies
  <2> QED
    BY <1>0, <1>1, <2>1 DEF FaultPart
<1> QED
  BY <1>5, <1>6, <1>7 DEF Callbacks

LEMMA DriverServed ==
  ASSUME ClientInv, ServedPart, AnswerPart, NEW t \in Threads, Callbacks(t),
         UNCHANGED serviceVars
  PROVE  ServedPart' /\ AnswerPart'
<1>0. UNCHANGED <<spc, smReply>> /\ toDrv \in Seq(Chunk) /\ Len(<<>>) = 0
  BY PipeTypes DEF serviceVars
<1>1. /\ cli' = cli \/ (cli = "open" /\ cli' = "broken")
      /\ pipe' = "clientGone" => pipe = "clientGone" /\ cli' = cli
  BY DEF Callbacks, Dispatch, CreatePipe, CreatePipeFails, WaitForClient,
     ClientConnected, ConnectFails, WriteBytes, SendWrite, StartRead, SendReadRequest,
     ReadReply, ReadNothing, HostDies, ClosePipes, OtherIoctl, ServerCreate, ServerDestroy,
     ServerWriteOK, ServerReadOK, pipeVars
<1>2. ServedPart'
  BY <1>0, <1>1 DEF ServedPart
<1>3. CASE toDrv' \in {toDrv, <<>>}
  BY <1>0, <1>2, <1>3 DEF AnswerPart
<1>4. CASE toDrv # <<>> /\ toDrv' = Tail(toDrv)
  BY <1>0, <1>2, <1>4, ChunkTaken DEF AnswerPart
<1> QED
  BY <1>3, <1>4
  DEF Callbacks, Dispatch, CreatePipe, CreatePipeFails, WaitForClient,
      ClientConnected, ConnectFails, WriteBytes, SendWrite, StartRead, SendReadRequest,
      ReadReply, ReadNothing, HostDies, ClosePipes, OtherIoctl, ServerCreate,
      ServerDestroy, ServerWriteOK, ServerReadOK, pipeVars

\* The requests of the applications and of the service are none for no bytes.
LEMMA ServiceWrites ==
  ASSUME ClientInv, WritePart, AppRequest \/ ServiceStep \/ ServiceCrash
  PROVE  WritePart'
<1>0. cb \in [Threads -> Callback] /\ req \in [Issuers -> Request] /\ svc \in Issuers
  BY BridgeAssumption DEF ClientInv, DriverInv, DriverTypeOK
<1>1. UNCHANGED <<cb, smOut>>
  BY DEF AppRequest, ServiceStep, ServiceCrash, ServiceLoop, VcomFails, SendControl,
     SendBaudRate, BaudRateSet, Issue, driverVars
<1>2. \A t \in Threads : cb[t].pc = "write" =>
        cb[t].iss \in Issuers /\ req[cb[t].iss].st = "active"
  BY OthersIdle DEF ClientInv, DriverInv, RequestPart
<1>3. CASE UNCHANGED req
  BY <1>1, <1>3 DEF WritePart
<1>4. ASSUME NEW i \in Issuers, NEW op, NEW len, NEW tail, Issue(i, op, len, tail),
             op = "write" => len \in Lengths \ {0}
      PROVE  WritePart'
  <2>1. /\ req[i].st = "none"
        /\ \A j \in Issuers : req'[j] = IF j = i THEN [st |-> "queued", op |-> op,
                                                       len |-> len, tail |-> tail]
                                        ELSE req[j]
    BY <1>0, <1>4 DEF Issue
  <2>2. \A j \in Issuers :
          req'[j].st # "none" /\ req'[j].op = "write" => req'[j].len \in Lengths \ {0}
    BY <1>4, <2>1 DEF WritePart
  <2>3. \A t \in Threads : cb[t].pc = "write" => req'[cb[t].iss] = req[cb[t].iss]
    BY <1>2, <2>1
  <2> QED
    BY <1>1, <2>2, <2>3 DEF WritePart
<1>5. CASE AppRequest
  <2>1. PICK i \in Issuers \ {svc}, op \in AppOps, len \in AppLengths, tail \in Tails :
          Issue(i, op, len, tail)
    BY <1>5 DEF AppRequest
  <2>2. len \in Lengths \ {0}
    BY AppAssumption
  <2> QED
    BY <1>4, <2>1, <2>2
<1>6. CASE SendControl \/ SendBaudRate
  BY <1>0, <1>4, <1>6 DEF SendControl, SendBaudRate
<1>7. CASE ServiceCrash
  <2>1. \A j \in Issuers : \/ req'[j] = req[j]
                           \/ req[j].st = "queued" /\ req'[j] = NoRequest
    BY <1>0, <1>7 DEF ServiceCrash, CancelQueued
  <2>2. \A j \in Issuers :
          req'[j].st # "none" /\ req'[j].op = "write" => req'[j].len \in Lengths \ {0}
    BY <2>1 DEF WritePart, NoRequest
  <2>3. \A t \in Threads : cb[t].pc = "write" => req'[cb[t].iss] = req[cb[t].iss]
    BY <1>2, <2>1
  <2> QED
    BY <1>1, <2>2, <2>3 DEF WritePart
<1> QED
  BY <1>3, <1>5, <1>6, <1>7 DEF ServiceStep, VcomFails, BaudRateSet, driverVars

\* The service lets go of an open pipe only when it dies.
LEMMA ServiceFaults ==
  ASSUME ClientInv, FaultPart, ServedPart, AppRequest \/ ServiceStep \/ ServiceCrash,
         faulted' = (faulted \/ Fault)
  PROVE  FaultPart'
<1>0. faulted' \in BOOLEAN /\ (faulted => faulted')
  OBVIOUS
<1>1. UNCHANGED <<cb, pipeOpen, hPipe, fConnected>>
  BY DEF AppRequest, ServiceStep, ServiceCrash, ServiceLoop, VcomFails, SendControl,
     SendBaudRate, BaudRateSet, Issue, driverVars
<1>2. pipe' = "clientGone" => faulted'
  <2>1. CASE pipe' = pipe \/ ClientOpen
    BY <1>0, <2>1 DEF FaultPart, ClientOpen
  <2>2. CASE Exit
    <3>1. pipe' = pipe
      BY <2>2 DEF Exit, ClientClose, ServedPart
    <3> QED
      BY <2>1, <3>1
  <2>3. CASE Crash
    <3>1. CASE spc = "exit"
      <4>1. pipe' = pipe
        BY <2>3, <3>1 DEF Crash, ClientClose, ServedPart, pipeVars
      <4> QED
        BY <2>1, <4>1
    <3>2. CASE spc # "exit"
      BY <2>3, <3>2 DEF Crash, Fault
    <3> QED
      BY <3>1, <3>2
  <2> QED
    BY <2>1, <2>2, <2>3
    DEF AppRequest, ServiceStep, ServiceCrash, ServiceLoop, ServiceStart, OpenPipe,
        SetMode, ReadPipe, ForwardToCom, ReadFromCom, Reply, VcomFails, SendControl,
        SendBaudRate, BaudRateSet, Issue, ClientRead, ClientWrite, pipeVars
<1> QED
  BY <1>0, <1>1, <1>2 DEF FaultPart, UsesPipe

LEMMA ServiceServed ==
  ASSUME ClientInv, WirePart, ServedPart, AnswerPart,
         AppRequest \/ ServiceStep \/ ServiceCrash
  PROVE  ServedPart' /\ AnswerPart'
<1>0. /\ toDrv \in Seq(Chunk) /\ cli \in {"none", "open", "broken"}
      /\ pipe = "clientGone" => cli = "none"
  BY PipeTypes
  DEF ServedPart, ClientInv, DriverInv, DriverTypeOK, PipeTypeOK, CliStates
<1>1. CASE UNCHANGED <<pipe, cli, toDrv>> /\ spc' \notin {"reply", "mode", "read", "tx", "rx", "exit"}
  BY <1>0, <1>1 DEF ServedPart, AnswerPart
<1>2. CASE AppRequest
  BY <1>2 DEF AppRequest, Issue, pipeVars, serviceVars, ServedPart, AnswerPart
<1>3. CASE SendControl \/ SendBaudRate \/ VcomFails \/ BaudRateSet \/ ServiceStart
  BY <1>1, <1>3
  DEF SendControl, SendBaudRate, VcomFails, BaudRateSet, ServiceStart, Issue, pipeVars
<1>4. CASE ServiceCrash \/ Exit
  <2>1. cli' = "none" /\ spc' = "down" /\ toDrv' = toDrv
    BY <1>4 DEF ServiceCrash, Crash, Exit, ClientClose, pipeVars
  <2> QED
    BY <2>1 DEF ServedPart, AnswerPart
<1>5. CASE OpenPipe
  BY <1>5 DEF OpenPipe, ClientOpen, ServedPart, AnswerPart
<1>6. CASE SetMode \/ ForwardToCom
  BY <1>0, <1>6 DEF SetMode, ForwardToCom, pipeVars, ServedPart, AnswerPart
<1>7. CASE ReadPipe
  <2>1. /\ UNCHANGED <<pipe, cli, toDrv>> /\ cli # "none"
        /\ (spc' = "exit" /\ cli = "broken") \/ spc' \in {"tx", "rx", "read"}
    <3>1. toSvc # <<>> => Head(toSvc).d \in {"TX", "RX", "NONE"}
      BY HeadIsChunk
    <3> QED
      BY <1>7, <3>1 DEF ReadPipe, ClientRead, pipeVars
  <2> QED
    BY <1>0, <2>1 DEF ServedPart, AnswerPart
<1>8. CASE ReadFromCom
  <2>1. smReply'.d = "NONE"
    <3>1. smReply \in Chunk
      BY DEF ClientInv, ServiceTypeOK
    <3>2. [smReply EXCEPT !.d = "NONE", !.len = -1].d = "NONE"
      BY <3>1 DEF Chunk
    <3>3. CASE \E n \in BlockSizes :
                 smReply' = [d |-> "NONE", len |-> n,
                             data |-> IF n > 0 THEN RxData(comIn + 1, n) ELSE Zero]
      BY <3>3
    <3>4. CASE smReply' = [smReply EXCEPT !.d = "NONE", !.len = -1]
      BY <3>2, <3>4
    <3> QED
      BY <1>8, <3>3, <3>4 DEF ReadFromCom
  <2>2. UNCHANGED <<pipe, cli, toDrv>> /\ spc = "rx" /\ spc' = "reply"
    BY <1>8 DEF ReadFromCom, pipeVars
  <2> QED
    BY <2>1, <2>2 DEF ServedPart, AnswerPart
<1>9. CASE Reply
  <2>1. CASE cli = "broken" /\ spc' = "exit" /\ UNCHANGED pipeVars
    BY <1>0, <2>1 DEF pipeVars, ServedPart, AnswerPart
  <2>2. CASE ClientWrite(smReply) /\ spc' = "read"
    <3>1. /\ UNCHANGED <<pipe, cli>> /\ cli = "open" /\ toDrv' = Append(toDrv, smReply)
          /\ smReply.d = "NONE" /\ smReply \in Chunk
      BY <1>9, <2>2 DEF Reply, ClientWrite, AnswerPart, ClientInv, ServiceTypeOK
    <3>2. \A k \in 1..Len(toDrv') : toDrv'[k] = smReply \/
            (k \in 1..Len(toDrv) /\ toDrv'[k] = toDrv[k])
      BY <1>0, <3>1, AppendProperties
    <3> QED
      BY <1>0, <2>2, <3>1, <3>2 DEF ServedPart, AnswerPart
  <2> QED
    BY <1>9, <2>1, <2>2 DEF Reply
<1> QED
  BY <1>2, <1>3, <1>4, <1>5, <1>6, <1>7, <1>8, <1>9 DEF ServiceStep, ServiceLoop

LEMMA LineInitInv == BridgeInit => LineInv
<1> SUFFICES ASSUME BridgeInit PROVE LineInv
  OBVIOUS
<1>0. Len(<<>>) = 0 /\ 1..0 = {}
  OBVIOUS
<1> USE DEF BridgeInit, DriverInit, PipeInit, ServiceInit
<1>1. ShapePart /\ LastPart /\ AnswerPart
  BY <1>0 DEF ShapePart, LastPart, AnswerPart
<1>2. WritePart
  BY DEF WritePart, NoRequest, NoCallback
<1>3. FaultPart /\ ServedPart
  BY DEF FaultPart, ServedPart, NoCallback, UsesPipe
<1> QED
  BY <1>1, <1>2, <1>3, BridgeInitInv DEF LineInv

LEMMA LineNextInv ==
  ASSUME EnvChunks = Chunk, ShortWrites, LineInv, [BridgeNext]_vars
  PROVE  LineInv'
<1>0. /\ BridgeInv /\ ClientInv /\ WirePart /\ AtMostOneExchange /\ DataPart
      /\ ShapePart /\ LastPart /\ WritePart /\ FaultPart /\ ServedPart /\ AnswerPart
  BY DEF LineInv, BridgeInv, OneExchange
<1>1. BridgeInv'
  BY <1>0, BridgeNextInv
<1>2. CASE UNCHANGED vars
  <2>1. ShapePart' /\ LastPart' /\ AnswerPart'
    BY <1>0, <1>2 DEF vars, bvars, pipeVars, serviceVars, ShapePart, LastPart, AnswerPart,
       Answering, Answered
  <2>2. WritePart'
    BY <1>0, <1>2 DEF vars, bvars, driverVars, WritePart
  <2>3. FaultPart' /\ ServedPart'
    BY <1>0, <1>2
    DEF vars, bvars, pipeVars, driverVars, serviceVars, FaultPart, ServedPart, UsesPipe
  <2> QED
    BY <1>1, <2>1, <2>2, <2>3 DEF LineInv
<1>3. CASE DriverStep /\ UNCHANGED serviceVars /\ faulted' = (faulted \/ Fault)
  <2>1. PICK t \in Threads : Callbacks(t)
    BY <1>3 DEF DriverStep
  <2> QED
    BY <1>0, <1>1, <1>3, <2>1, DriverShape, DriverLast, DriverWrites, DriverFaults,
       DriverServed
    DEF LineInv
<1>4. CASE (AppRequest \/ ServiceStep \/ ServiceCrash) /\ faulted' = (faulted \/ Fault)
  BY <1>0, <1>1, <1>4, ServiceShape, ServiceLast, ServiceWrites, ServiceFaults,
     ServiceServed
  DEF LineInv
<1> QED
  BY <1>2, <1>3, <1>4 DEF BridgeNext

\* The pipe never holds anything but whole messages of writes and, last, one read
\* request; and the driver finds no pipe, or no client, only after a fault.
THEOREM LineInvariant ==
  ASSUME EnvChunks = Chunk, ShortWrites PROVE BridgeSpec => []LineInv
<1>1. LineInv /\ [BridgeNext]_vars => LineInv'
  BY LineNextInv
<1> QED
  BY <1>1, LineInitInv, PTL DEF BridgeSpec

-----------------------------------------------------------------------------
(* The refinement.  First the steps of the line, in the terms of the       *)
(* mapping.                                                                *)

\* What is left when the oldest of s \o r have gone
LEMMA OldestGone ==
  ASSUME NEW S, NEW s \in Seq(S), NEW r \in Seq(S)
  PROVE  /\ Len(s) \in 0..Len(s \o r)
         /\ SubSeq(s \o r, Len(s) + 1, Len(s \o r)) = r
<1> DEFINE x == s \o r
           y == SubSeq(x, Len(s) + 1, Len(x))
<1>1. /\ x \in Seq(S) /\ Len(s) \in Nat /\ Len(r) \in Nat /\ Len(x) = Len(s) + Len(r)
      /\ \A i \in 1..(Len(s) + Len(r)) : x[i] = IF i <= Len(s) THEN s[i] ELSE r[i - Len(s)]
  BY ConcatProperties
<1> HIDE DEF x
<1>2. \A i \in (Len(s) + 1)..Len(x) : x[i] \in S
  BY <1>1
<1>3. /\ y \in Seq(S)
      /\ Len(y) = IF Len(s) + 1 <= Len(x) THEN Len(x) - (Len(s) + 1) + 1 ELSE 0
      /\ \A i \in 1..(Len(x) - (Len(s) + 1) + 1) : y[i] = x[(Len(s) + 1) + i - 1]
  BY <1>1, <1>2, SubSeqProperties
<1> HIDE DEF y
<1>4. Len(y) = Len(r)
  BY <1>1, <1>3
<1>5. \A i \in 1..Len(r) : y[i] = r[i]
  <2> TAKE i \in 1..Len(r)
  <2>1. /\ i \in 1..(Len(x) - (Len(s) + 1) + 1) /\ (Len(s) + 1) + i - 1 = Len(s) + i
        /\ Len(s) + i \in 1..(Len(s) + Len(r)) /\ ~(Len(s) + i <= Len(s))
        /\ (Len(s) + i) - Len(s) = i
    BY <1>1
  <2>2. y[i] = x[Len(s) + i]
    BY <1>3, <2>1
  <2> QED
    BY <1>1, <2>1, <2>2
<1>6. y = r
  BY <1>3, <1>4, <1>5, SeqEqual
<1>7. Len(s) \in 0..Len(x)
  BY <1>1
<1> QED
  BY <1>6, <1>7 DEF x, y

\* The first of a sequence
LEMMA FirstOf ==
  ASSUME NEW S, NEW e \in S, NEW r \in Seq(S)
  PROVE  /\ <<e>> \o r # <<>> /\ Head(<<e>> \o r) = e /\ Tail(<<e>> \o r) = r
         /\ <<e>> \in Seq(S) /\ Len(<<e>>) = 1
         /\ r \o <<e>> = Append(r, e)
OBVIOUS

lineVars == <<faulted, acked, inFlightBar, onWireBar, comIn, answersBar, returnedBar>>
LineStep == [Line!LineNext]_<<Line!outbound, Line!inbound>>

LEMMA Stutters ==
  ASSUME UNCHANGED lineVars
  PROVE  LineStep
BY DEF lineVars, LineStep, Line!outbound, Line!inbound

LEMMA Accepts ==
  ASSUME acked' = acked + 1,
         \/ \E len \in Lengths :
              inFlightBar' = Append(inFlightBar, [id |-> acked + 1, len |-> len])
         \/ faulted /\ UNCHANGED inFlightBar,
         UNCHANGED <<faulted, onWireBar, comIn, answersBar, returnedBar>>
  PROVE  LineStep
BY DEF LineStep, Line!LineNext, Line!Accept, Line!inbound

LEMMA Emits ==
  ASSUME NEW w \in Write, inFlightBar' \in Seq(Write),
         inFlightBar = <<w>> \o inFlightBar',
         onWireBar' = Append(onWireBar, Line!Carried(w, w.len)),
         UNCHANGED <<faulted, acked, comIn, answersBar, returnedBar>>
  PROVE  LineStep
<1>1. inFlightBar # <<>> /\ Head(inFlightBar) = w /\ Tail(inFlightBar) = inFlightBar'
  BY FirstOf
<1> QED
  BY <1>1 DEF LineStep, Line!LineNext, Line!Emit, Line!inbound

LEMMA EmitsPart ==
  ASSUME faulted', NEW w \in Write, inFlightBar' \in Seq(Write),
         inFlightBar = <<w>> \o inFlightBar', NEW n \in 1..(w.len - 1),
         onWireBar' = Append(onWireBar, Line!Carried(w, n)),
         UNCHANGED <<acked, comIn, answersBar, returnedBar>>
  PROVE  LineStep
<1>1. inFlightBar # <<>> /\ Head(inFlightBar) = w /\ Tail(inFlightBar) = inFlightBar'
  BY FirstOf
<1> QED
  BY <1>1 DEF LineStep, Line!LineNext, Line!EmitPart, Line!inbound

LEMMA Takes ==
  ASSUME comIn' = comIn + 1, answersBar' = Append(answersBar, comIn + 1),
         UNCHANGED <<faulted, acked, inFlightBar, onWireBar, returnedBar>>
  PROVE  LineStep
BY DEF LineStep, Line!LineNext, Line!Take, Line!outbound

LEMMA GivesBack ==
  ASSUME NEW b, answersBar = <<b>>, answersBar' = <<>>,
         returnedBar' = Append(returnedBar, b),
         UNCHANGED <<faulted, acked, inFlightBar, onWireBar, comIn>>
  PROVE  LineStep
<1>1. answersBar # <<>> /\ Head(answersBar) = b /\ Tail(answersBar) = answersBar'
  OBVIOUS
<1> QED
  BY <1>1 DEF LineStep, Line!LineNext, Line!GiveBack, Line!outbound

LEMMA GivesNothing ==
  ASSUME answersBar = <<>>, answersBar' = <<>>, returnedBar' = Append(returnedBar, 0),
         UNCHANGED <<faulted, acked, inFlightBar, onWireBar, comIn>>
  PROVE  LineStep
BY DEF LineStep, Line!LineNext, Line!GiveNothing, Line!outbound

LEMMA Loses ==
  ASSUME faulted', NEW s \in Seq(Write), inFlightBar' \in Seq(Write),
         inFlightBar = s \o inFlightBar',
         answersBar \in Seq(Nat), answersBar' \in {answersBar, <<>>},
         UNCHANGED <<acked, onWireBar, comIn, returnedBar>>
  PROVE  LineStep
<1>1. \E k \in 0..Len(inFlightBar) : inFlightBar' = Line!WithoutOldest(inFlightBar, k)
  BY OldestGone DEF Line!WithoutOldest
<1>2. \E k \in 0..Len(answersBar) : answersBar' = Line!WithoutOldest(answersBar, k)
  <2>1. \A a \in Seq(Nat) : /\ 0 \in 0..Len(a) /\ SubSeq(a, 0 + 1, Len(a)) = a
                            /\ Len(a) \in 0..Len(a) /\ SubSeq(a, Len(a) + 1, Len(a)) = <<>>
    <3> TAKE a \in Seq(Nat)
    <3>1. Len(a) \in Nat /\ 0 \in 0..Len(a) /\ Len(a) \in 0..Len(a) /\ 0 + 1 = 1
      BY LenProperties
    <3>2. SubSeq(a, 1, Len(a)) = a
      BY SubSeqFull
    <3>3. SubSeq(a, Len(a) + 1, Len(a)) = <<>>
      <4>1. Len(a) + 1 \in Int /\ Len(a) \in Int /\ Len(a) < Len(a) + 1
        BY <3>1
      <4> QED
        BY <4>1, SubSeqEmpty
    <3> QED
      BY <3>1, <3>2, <3>3
  <2> QED
    BY <2>1 DEF Line!WithoutOldest
<1> QED
  BY <1>1, <1>2 DEF LineStep, Line!LineNext, Line!Lose

-----------------------------------------------------------------------------
(* What the mapping makes of the states.                                   *)

\* A read request is in the last message, and so there is one.
LEMMA RequestLast ==
  ASSUME ClientInv, ShapePart, Requested
  PROVE  Len(toSvc) >= 2 /\ Len(toSvc) \div 2 >= 1
<1>1. PICK k \in 1..Len(toSvc) : toSvc[k].d = "RX"
  BY DEF Requested
<1>2. Len(toSvc) \in Nat
  BY PipeTypes, LenProperties
<1>3. ZeroChunk.d = "TX"
  BY DEF ZeroChunk
<1>4. k = Len(toSvc) - 1
  BY <1>1, <1>3 DEF ShapePart
<1> QED
  BY <1>2, <1>4

LEMMA BarTypes ==
  ASSUME ClientInv, ShapePart
  PROVE  /\ HeldByService \in Seq(Write) /\ SentWrites \in Seq(Write)
         /\ HeldByDriver \in Seq(Write) /\ WriteOf(smRet) \in Write
         /\ WriteOf(smOut) \in Write
         /\ inFlightBar \in Seq(Write) /\ answersBar \in Seq(Nat)
<1>1. WriteOf(smRet) \in Write
  BY WriteType DEF ClientInv, ServiceTypeOK
<1>2. WriteOf(smOut) \in Write
  BY DEF ClientInv, DriverInv, DriverTypeOK, WriteOf, Write, Data
<1>3. SentWrites \in Seq(Write)
  <2> DEFINE n == IF Requested THEN (Len(toSvc) \div 2) - 1 ELSE Len(toSvc) \div 2
  <2>1. Len(toSvc) \in Nat /\ Len(toSvc) \div 2 \in Nat
    BY PipeTypes, LenProperties
  <2>2. n \in Nat /\ n <= Len(toSvc) \div 2
    BY <2>1, RequestLast
  <2> HIDE DEF n
  <2>3. Heads(toSvc, n) \in Seq(Write)
    BY <2>2, PipeTypes, HeadsType
  <2> QED
    BY <2>3 DEF SentWrites, n
<1>4. HeldByService \in Seq(Write)
  BY <1>1, FirstOf, EmptySeq DEF HeldByService
<1>5. HeldByDriver \in Seq(Write)
  BY <1>2, FirstOf, EmptySeq DEF HeldByDriver
<1>6. inFlightBar \in Seq(Write)
  BY <1>3, <1>4, <1>5, ConcatProperties DEF inFlightBar
<1>7. \A c \in Chunk : BlockOf(c) \in Seq(Nat)
  BY DEF BlockOf, Chunk, Data
<1>8. answersBar \in Seq(Nat)
  <2>1. Answered => toDrv[1] \in Chunk
    BY PipeTypes, ChunkTaken DEF Answered
  <2>2. smReply \in Chunk
    BY DEF ClientInv, ServiceTypeOK
  <2> QED
    BY <1>7, <2>1, <2>2, EmptySeq DEF answersBar
<1> QED
  BY <1>1, <1>2, <1>3, <1>4, <1>5, <1>6, <1>8

\* Nothing in the pipe, nothing sent
LEMMA NothingSent ==
  ASSUME toSvc = <<>>
  PROVE  SentWrites = <<>>
<1>1. Len(toSvc) = 0 /\ 0 \div 2 = 0 /\ 1..0 = {}
  OBVIOUS
<1>2. ~Requested
  BY <1>1 DEF Requested
<1> QED
  BY <1>1, <1>2 DEF SentWrites, Heads

\* As long as the pipe holds the same, so do the writes in it.
LEMMA SentKept ==
  ASSUME toSvc' = toSvc
  PROVE  SentWrites' = SentWrites /\ (Requested' <=> Requested)
BY DEF SentWrites, Requested, Heads

\* A sequence by its entries
LEMMA SeqOf ==
  ASSUME NEW S, NEW n \in Nat, NEW f \in [1..n -> S]
  PROVE  f \in Seq(S) /\ Len(f) = n
OBVIOUS

\* The log of the real port grows by what it took of the write the service holds.
LEMMA WireAppended ==
  ASSUME ClientInv, DataPart, spc = "tx", smRet.len > 0, NEW sent \in 1..smRet.len,
         comLog' = Written(sent)
  PROVE  onWireBar' = Append(onWireBar, Line!Carried(WriteOf(smRet), sent))
<1> DEFINE S == [data : Data, len : Int]
           OnPort == [id : Nat, len : Nat, sent : Int]
           e == [data |-> smRet.data, len |-> sent]
           w == Line!Carried(WriteOf(smRet), sent)
           n == Len(comLog)
           m == n + 1
<1>1. e \in S /\ LeftOf(e) = w /\ comLog \in Seq(S) /\ comLog' = Append(comLog, e)
  <2>1. /\ smRet \in Chunk /\ smRet.len <= PACKET_SIZE /\ comLog \in Seq(S)
        /\ smRet.data = TxData(smRet.data[2], smRet.len)
    BY DEF DataPart, Whole, ClientInv, ServiceTypeOK
  <2>2. smRet.len \in Int /\ PACKET_SIZE \in Nat /\ smRet.data \in Data
    BY <2>1, PipeAssumption DEF Chunk
  <2>3. sent > 0 /\ sent <= PACKET_SIZE /\ sent \in Int
    BY <2>1, <2>2
  <2>4. comLog' = Append(comLog, e)
    BY <2>3 DEF Written
  <2>5. smRet.data[3] = smRet.len
    BY <2>1 DEF TxData
  <2>6. LeftOf(e) = w
    BY <2>5 DEF LeftOf, WriteOf, Line!Carried
  <2> QED
    BY <2>1, <2>2, <2>3, <2>4, <2>6
<1>2. \A c \in S : LeftOf(c) \in OnPort
  BY DEF LeftOf, Data
<1> HIDE DEF S, OnPort
<1>3. n \in Nat /\ m \in Nat /\ (\A k \in 1..n : comLog[k] \in S)
  BY <1>1, LenProperties, ElementOfSeq
<1>4. /\ Len(comLog') = m /\ comLog'[m] = e
      /\ \A k \in 1..n : comLog'[k] = comLog[k]
  BY <1>1, AppendProperties
<1>5. onWireBar = [k \in 1..n |-> LeftOf(comLog[k])]
  BY DEF onWireBar
<1>6. onWireBar' = [k \in 1..m |-> LeftOf(comLog'[k])]
  BY <1>4 DEF onWireBar
<1>7. onWireBar \in Seq(OnPort) /\ Len(onWireBar) = n
  <2>1. \A k \in 1..n : LeftOf(comLog[k]) \in OnPort
    BY <1>2, <1>3
  <2>2. onWireBar \in [1..n -> OnPort]
    BY <1>5, <2>1
  <2> QED
    BY <1>3, <2>2, SeqOf
<1> DEFINE r == Append(onWireBar, w)
<1>9. w \in OnPort
  BY <1>1, <1>2
<1>m. m = n + 1
  OBVIOUS
<1> HIDE DEF e, w, n, m
<1>10. /\ r \in Seq(OnPort) /\ Len(r) = m /\ r[m] = w
       /\ \A k \in 1..n : r[k] = onWireBar[k]
  BY <1>3, <1>7, <1>9, <1>m, AppendProperties
<1> HIDE DEF r
<1>11. onWireBar' \in Seq(OnPort) /\ Len(onWireBar') = m
  <2>1. \A k \in 1..m : LeftOf(comLog'[k]) \in OnPort
    <3> TAKE k \in 1..m
    <3>1. k \in 1..n \/ k = m
      BY <1>3, <1>m
    <3>2. comLog'[k] \in S
      BY <1>1, <1>3, <1>4, <3>1
    <3> QED
      BY <1>2, <3>2
  <2>2. onWireBar' \in [1..m -> OnPort]
    BY <1>6, <2>1
  <2> QED
    BY <1>3, <2>2, SeqOf
<1>12. \A k \in 1..m : onWireBar'[k] = r[k]
  <2> TAKE k \in 1..m
  <2>0. onWireBar'[k] = LeftOf(comLog'[k])
    BY <1>6
  <2>1. CASE k = m
    BY <1>1, <1>4, <1>10, <2>0, <2>1
  <2>2. CASE k \in 1..n
    <3>1. onWireBar[k] = LeftOf(comLog[k])
      BY <1>5, <2>2
    <3> QED
      BY <1>4, <1>10, <2>0, <2>2, <3>1
  <2> QED
    BY <1>3, <1>m, <2>1, <2>2
<1>13. onWireBar' = r
  BY <1>10, <1>11, <1>12, SeqEqual
<1> QED
  BY <1>13 DEF r, w

\* So does what the reads were given, by a block or by nothing.
LEMMA ReturnedAppended ==
  ASSUME ClientInv, NEW e \in [asked : Nat, got : Int, data : Data],
         readLog' = Append(readLog, e)
  PROVE  returnedBar' = Append(returnedBar, IF e.got > 0 THEN e.data[2] ELSE 0)
<1> DEFINE S == [asked : Nat, got : Int, data : Data]
           Given(x) == IF x.got > 0 THEN x.data[2] ELSE 0
           w == Given(e)
           n == Len(readLog)
           m == n + 1
<1>1. e \in S /\ readLog \in Seq(S)
  BY DEF ClientInv, DriverInv, DriverTypeOK
<1>2. \A c \in S : Given(c) \in Nat
  BY DEF Data
<1> HIDE DEF S
<1>3. n \in Nat /\ m \in Nat /\ (\A k \in 1..n : readLog[k] \in S)
  BY <1>1, LenProperties, ElementOfSeq
<1>4. /\ Len(readLog') = m /\ readLog'[m] = e
      /\ \A k \in 1..n : readLog'[k] = readLog[k]
  BY <1>1, AppendProperties
<1>5. returnedBar = [k \in 1..n |-> Given(readLog[k])]
  BY DEF returnedBar
<1>6. returnedBar' = [k \in 1..m |-> Given(readLog'[k])]
  BY <1>4 DEF returnedBar
<1>9. w \in Nat
  BY <1>1, <1>2
<1>d. w = Given(e)
  OBVIOUS
<1>m. m = n + 1
  OBVIOUS
<1> HIDE DEF Given, w, n, m
<1>7. returnedBar \in Seq(Nat) /\ Len(returnedBar) = n
  <2>1. returnedBar \in [1..n -> Nat]
    BY <1>2, <1>3, <1>5
  <2> QED
    BY <1>3, <2>1, SeqOf
<1> DEFINE r == Append(returnedBar, w)
<1>10. /\ r \in Seq(Nat) /\ Len(r) = m /\ r[m] = w
       /\ \A k \in 1..n : r[k] = returnedBar[k]
  BY <1>3, <1>7, <1>9, <1>m, AppendProperties
<1> HIDE DEF r
<1>11. returnedBar' \in Seq(Nat) /\ Len(returnedBar') = m
  <2>1. \A k \in 1..m : Given(readLog'[k]) \in Nat
    <3> TAKE k \in 1..m
    <3>1. k \in 1..n \/ k = m
      BY <1>3, <1>m
    <3>2. readLog'[k] \in S
      BY <1>1, <1>3, <1>4, <3>1
    <3> QED
      BY <1>2, <3>2
  <2>2. returnedBar' \in [1..m -> Nat]
    BY <1>6, <2>1
  <2> QED
    BY <1>3, <2>2, SeqOf
<1>12. \A k \in 1..m : returnedBar'[k] = r[k]
  <2> TAKE k \in 1..m
  <2>0. returnedBar'[k] = Given(readLog'[k])
    BY <1>6
  <2>1. CASE k = m
    BY <1>4, <1>10, <1>d, <2>0, <2>1
  <2>2. CASE k \in 1..n
    <3>1. returnedBar[k] = Given(readLog[k])
      BY <1>5, <2>2
    <3> QED
      BY <1>4, <1>10, <2>0, <2>2, <3>1
  <2> QED
    BY <1>3, <1>m, <2>1, <2>2
<1>13. returnedBar' = r
  BY <1>10, <1>11, <1>12, SeqEqual
<1> QED
  BY <1>13 DEF r, w, Given

\* What a read of the service does to the writes that are sent
LEMMA TakenWrites ==
  ASSUME ClientInv, AtMostOneExchange, ShapePart, toSvc # <<>>, toSvc' = Tail(toSvc),
         NEW c, c = toSvc[1]
  PROVE  \/ c = ZeroChunk /\ SentWrites' = SentWrites
         \/ c.d = "RX" /\ SentWrites = <<>> /\ SentWrites' = <<>>
         \/ c.d = "TX" /\ c.len > 0 /\ SentWrites = <<WriteOf(c)>> \o SentWrites'
<1> DEFINE s == toSvc
           t == toSvc'
           m == Len(s) \div 2
           p == Len(s) % 2
<1>1. /\ s \in Seq(Chunk) /\ t \in Seq(Chunk) /\ Len(s) \in Nat /\ Len(s) >= 1
      /\ Len(t) = Len(s) - 1
      /\ \A k \in 1..Len(t) : k + 1 \in 1..Len(s) /\ t[k] = s[k + 1]
  <2>1. s \in Seq(Chunk)
    BY PipeTypes
  <2>2. t \in Seq(Chunk) /\ Len(t) = Len(s) - 1
    BY <2>1, HeadTailProperties
  <2>3. /\ Len(s) \in Nat /\ Len(s) >= 1
        /\ \A k \in 1..Len(t) : k + 1 \in 1..Len(s) /\ t[k] = s[k + 1]
    BY <2>1, ChunkTaken
  <2> QED
    BY <2>1, <2>2, <2>3
<1>2. p \in {0, 1} /\ Len(s) = 2 * m + p /\ m \in Nat
  <2>1. \A n \in Nat : n % 2 \in {0, 1} /\ n = 2 * (n \div 2) + (n % 2) /\ n \div 2 \in Nat
    BY Parity
  <2> QED
    BY <1>1, <2>1
<1>3. ZeroChunk.d = "TX"
  BY DEF ZeroChunk
<1>4. SentWrites = Heads(s, IF Requested THEN m - 1 ELSE m)
  BY DEF SentWrites
<1>5. SentWrites' = Heads(t, IF Requested' THEN (Len(t) \div 2) - 1 ELSE Len(t) \div 2)
  BY DEF SentWrites, Heads
<1>6. Requested => m >= 1
  BY RequestLast
<1>7. (Len(s) - 1) % 2 = 0 <=> p = 1
  BY <1>1, Parity
<1>8. IF p = 1 THEN s[1] = ZeroChunk
      ELSE IF s[1].d = "RX" THEN 1 = Len(s) - 1 ELSE s[1].d = "TX" /\ s[1].len > 0
  <2>1. 1 \in 1..Len(s)
    BY <1>1
  <2> HIDE DEF p
  <2> QED
    BY <1>2, <1>7, <2>1 DEF ShapePart
<1>9. /\ p = 1 => Len(t) \div 2 = m /\ \A j \in 0..m : Heads(t, j) = Heads(s, j)
      /\ p = 0 => /\ m >= 1 /\ Len(t) \div 2 = m - 1
                  /\ \A j \in 0..(m - 1) :
                       Heads(s, j + 1) = <<WriteOf(s[1])>> \o Heads(t, j)
  BY <1>1, HeadsTaken
<1>10. s[1].d # "RX" => (Requested' <=> Requested)
  <2> SUFFICES ASSUME s[1].d # "RX" PROVE Requested' <=> Requested
    OBVIOUS
  <2>1. Requested' => Requested
    BY <1>1 DEF Requested
  <2>2. ASSUME NEW k \in 1..Len(s), s[k].d = "RX" PROVE Requested'
    <3>1. k - 1 \in 1..Len(t) /\ (k - 1) + 1 = k
      BY <1>1, <2>2
    <3>2. t[k - 1].d = "RX"
      BY <1>1, <2>2, <3>1
    <3> QED
      BY <3>1, <3>2 DEF Requested
  <2> QED
    BY <2>1, <2>2 DEF Requested
<1> HIDE DEF s, t, m, p
<1>11. CASE p = 1
  <2>1. Requested' <=> Requested
    BY <1>3, <1>8, <1>10, <1>11
  <2>2. SentWrites' = SentWrites
    BY <1>2, <1>4, <1>5, <1>6, <1>9, <1>11, <2>1
  <2> QED
    BY <1>8, <1>11, <2>2 DEF s
<1>12. CASE p = 0 /\ s[1].d = "RX"
  <2>1. Len(s) = 2 /\ m = 1 /\ Len(t) = 1 /\ Len(t) \div 2 = 0
    BY <1>1, <1>2, <1>8, <1>9, <1>12
  <2>2. Requested
    BY <1>1, <1>12 DEF Requested, s
  <2>3. ~Requested'
    <3> SUFFICES ASSUME NEW k \in 1..Len(t), t[k].d = "RX" PROVE FALSE
      BY DEF Requested, t
    <3>1. k + 1 \in 1..Len(s) /\ s[k + 1].d = "RX" /\ 1 \in 1..Len(s)
      BY <1>1
    <3>2. k + 1 = 1
      BY <1>12, <3>1 DEF AtMostOneExchange, s
    <3> QED
      BY <3>2
  <2>4. \A x : Heads(x, 0) = <<>>
    <3>1. 1..0 = {}
      OBVIOUS
    <3> QED
      BY <3>1 DEF Heads
  <2>5. SentWrites = <<>> /\ SentWrites' = <<>>
    BY <1>4, <1>5, <2>1, <2>2, <2>3, <2>4
  <2> QED
    BY <1>12, <2>5 DEF s
<1>13. CASE p = 0 /\ s[1].d # "RX"
  <2>1. Requested' <=> Requested
    BY <1>10, <1>13
  <2>2. Requested => m >= 2
    <3> SUFFICES ASSUME Requested PROVE m >= 2
      OBVIOUS
    <3>1. PICK k \in 1..Len(s) : s[k].d = "RX"
      BY DEF Requested, s
    <3>2. k # 1 /\ k = Len(s) - 1
      BY <1>3, <1>13, <3>1 DEF ShapePart, s
    <3> QED
      BY <1>1, <1>2, <1>13, <3>2
  <2>3. SentWrites = <<WriteOf(s[1])>> \o SentWrites'
    <3>1. CASE Requested
      <4>1. m - 2 \in 0..(m - 1) /\ (m - 2) + 1 = m - 1 /\ (m - 1) - 1 = m - 2
        BY <1>2, <2>2, <3>1
      <4>2. SentWrites = Heads(s, m - 1) /\ SentWrites' = Heads(t, m - 2)
        BY <1>4, <1>5, <1>9, <1>13, <2>1, <3>1, <4>1
      <4> QED
        BY <1>9, <1>13, <4>1, <4>2
    <3>2. CASE ~Requested
      <4>1. m - 1 \in 0..(m - 1) /\ (m - 1) + 1 = m
        BY <1>2, <1>9, <1>13
      <4>2. SentWrites = Heads(s, m) /\ SentWrites' = Heads(t, m - 1)
        BY <1>4, <1>5, <1>9, <1>13, <2>1, <3>2
      <4> QED
        BY <1>9, <1>13, <4>1, <4>2
    <3> QED
      BY <3>1, <3>2
  <2> QED
    BY <1>8, <1>13, <2>3 DEF s
<1> QED
  BY <1>2, <1>11, <1>12, <1>13

-----------------------------------------------------------------------------
(* The driver's steps.                                                     *)

\* The write that OnWrite copies is the next one, with its own length.
LEMMA CopiedWrite ==
  ASSUME ClientInv, DataPart, WritePart, ShortWrites,
         NEW t \in Threads, WriteBytes(t), UsesPipe
  PROVE  /\ cb'[t].pc = "wfile"
         /\ \E len \in Lengths : WriteOf(smOut') = [id |-> acked + 1, len |-> len]
<1> DEFINE r == req[cb[t].iss]
           L == r.len
           c == CopiedIn(acked + 1, L, r.tail)
           data == TxData(acked + 1, L)
<1>0. /\ cb \in [Threads -> Callback] /\ req \in [Issuers -> Request]
      /\ smOut \in [d : Direction, len : Int, data : Data, tail : Chunk]
  BY DEF ClientInv, DriverInv, DriverTypeOK
<1>1. cb[t].iss \in Issuers /\ r.st = "active" /\ r.op = "write"
  BY OthersIdle DEF WriteBytes, ClientInv, DriverInv, RequestPart, WritePart
<1>2. L \in Lengths /\ L \in Nat /\ L <= PACKET_SIZE
  BY <1>0, <1>1 DEF WritePart, DataPart, Request
<1>3. L < MSG_SIZE /\ ~(L > PACKET_SIZE)
  BY <1>2, PipeAssumption, DriverAssumption DEF ShortWrites
<1>4. c = [smOut EXCEPT !.data = data]
  BY <1>0, <1>3 DEF CopiedIn
<1>5. data[2] = acked + 1
  BY DEF TxData
<1>6. smOut' = [c EXCEPT !.d = "TX", !.len = L] /\ Goto(t, "wfile")
  BY DEF WriteBytes
<1> HIDE DEF c, L, data
<1>7. DOMAIN c = {"d", "len", "data", "tail"} /\ c.data = data
  BY <1>0, <1>4
<1>8. smOut'.data = data /\ smOut'.len = L
  BY <1>6, <1>7
<1>9. WriteOf(smOut') = [id |-> acked + 1, len |-> L]
  BY <1>5, <1>8 DEF WriteOf
<1> QED
  BY <1>0, <1>2, <1>6, <1>9, GotoPlace

\* A fault of the driver is a pipe that cannot be created.
LEMMA DriverFaultless ==
  ASSUME FaultPart, NEW t \in Threads, Callbacks(t), ~CreatePipeFails(t),
         UNCHANGED serviceVars, faulted' = (faulted \/ Fault)
  PROVE  faulted' = faulted
<1>1. hPipe' = "invalid" => hPipe = "invalid"
  BY DEF Callbacks, Dispatch, CreatePipe, WaitForClient, ClientConnected, ConnectFails,
     WriteBytes, SendWrite, StartRead, SendReadRequest, ReadReply, ReadNothing, HostDies,
     ClosePipes, OtherIoctl
<1>2. Fault => faulted
  BY <1>1 DEF Fault, FaultPart, serviceVars
<1> QED
  BY <1>2 DEF FaultPart

\* What the driver flushes or destroys holds nothing any more.
LEMMA DriverPipe ==
  ASSUME ClientInv, WirePart, AtMostOneExchange, NEW t \in Threads, Callbacks(t),
         ~WriteSent(t), ~RequestSent(t), ~ReadReply(t), ~HostDies(t)
  PROVE  Readers = {} /\ UNCHANGED <<toSvc, toDrv>>
<1>1. QuietStep
  BY DriverStepKinds
<1>2. ~Answered
  BY <1>1 DEF QuietStep, AtMostOneExchange
<1>3. UNCHANGED toDrv
  BY <1>1, <1>2 DEF QuietStep, Answered
<1>4. CASE CreatePipe(t)
  <2>1. pipe # "connected"
    BY <1>4 DEF CreatePipe, ClientInv, DriverInv, PlacePart, HandlePart
  <2> QED
    BY <1>1, <1>3, <2>1 DEF WirePart, QuietStep
<1>5. CASE ConnectFails(t) \/ ClosePipes(t)
  <2>1. toSvc = <<>> \/ toSvc' = toSvc
    BY <1>5 DEF ConnectFails, ClosePipes, Flushed, WirePart, pipeVars
  <2> QED
    BY <1>1, <1>3, <2>1 DEF QuietStep
<1>6. CASE SendWrite(t) \/ SendReadRequest(t)
  <2>1. UNCHANGED pipeVars
    <3>1. SendWrite(t) => WriteSent(t) \/ UNCHANGED pipeVars
      BY DEF SendWrite, WriteSent
    <3>2. SendReadRequest(t) => RequestSent(t) \/ UNCHANGED pipeVars
      BY DEF SendReadRequest, ReadNothing, RequestSent
    <3> QED
      BY <1>6, <3>1, <3>2
  <2> QED
    BY <1>1, <2>1 DEF QuietStep, pipeVars
<1>7. CASE UNCHANGED toSvc
  BY <1>1, <1>3, <1>7 DEF QuietStep
<1> QED
  BY <1>4, <1>5, <1>6, <1>7
  DEF Callbacks, Dispatch, CreatePipeFails, WaitForClient, ClientConnected, WriteBytes,
      StartRead, OtherIoctl, pipeVars

\* The parts of the mapping that a step of the driver leaves alone
LEMMA DriverBars ==
  ASSUME ClientInv, NEW t \in Threads, Callbacks(t), UNCHANGED serviceVars
  PROVE  /\ UNCHANGED <<HeldByService, onWireBar, comIn>>
         /\ UNCHANGED readLog => UNCHANGED returnedBar
         /\ UNCHANGED toDrv => UNCHANGED answersBar
         /\ HeldByDriver = IF cb[t].pc = "wfile" THEN <<WriteOf(smOut)>> ELSE <<>>
         /\ HeldByDriver' = IF cb'[t].pc = "wfile" THEN <<WriteOf(smOut)'>> ELSE <<>>
<1>1. \A u \in Threads \ {t} : cb[u].pc = "idle" /\ cb'[u].pc = "idle"
  BY OnlyCallback
<1>2. UNCHANGED <<spc, smRet, smReply, comLog, comIn>>
  BY DEF serviceVars
<1>3. HeldByDriver = IF cb[t].pc = "wfile" THEN <<WriteOf(smOut)>> ELSE <<>>
  BY <1>1 DEF HeldByDriver
<1>4. HeldByDriver' = IF cb'[t].pc = "wfile" THEN <<WriteOf(smOut)'>> ELSE <<>>
  <2>1. (\E u \in Threads : cb'[u].pc = "wfile") <=> cb'[t].pc = "wfile"
    BY <1>1
  <2> QED
    BY <2>1 DEF HeldByDriver
<1>5. UNCHANGED HeldByService
  BY <1>2 DEF HeldByService, WriteOf
<1>6. UNCHANGED onWireBar
  BY <1>2 DEF onWireBar
<1>7. UNCHANGED readLog => UNCHANGED returnedBar
  BY DEF returnedBar
<1>8. UNCHANGED toDrv => UNCHANGED answersBar
  BY <1>2 DEF answersBar, Answered, BlockOf
<1> QED
  BY <1>2, <1>3, <1>4, <1>5, <1>6, <1>7, <1>8

\* Every step of the driver is one of the line, or none: a write is accepted when
\* OnWrite completes it, a read is answered when OnRead gets the reply.
LEMMA DriverLine ==
  ASSUME LineInv, ShortWrites, NEW t \in Threads, Callbacks(t), UNCHANGED serviceVars,
         faulted' = (faulted \/ Fault)
  PROVE  LineStep
<1>0. /\ ClientInv /\ DriverInv /\ WirePart /\ AtMostOneExchange /\ DataPart
      /\ ShapePart /\ LastPart /\ WritePart /\ FaultPart /\ ServedPart /\ AnswerPart
      /\ ReplyFits
  BY DEF LineInv, BridgeInv, OneExchange, ClientInv
<1>1. /\ cb \in [Threads -> Callback] /\ req \in [Issuers -> Request]
      /\ \A u \in Threads \ {t} : cb[u].pc = "idle" /\ cb'[u].pc = "idle"
  BY <1>0, OnlyCallback DEF ClientInv, DriverInv, DriverTypeOK
<1>2. /\ UNCHANGED <<HeldByService, onWireBar, comIn>>
      /\ UNCHANGED readLog => UNCHANGED returnedBar
      /\ UNCHANGED toDrv => UNCHANGED answersBar
      /\ HeldByDriver = IF cb[t].pc = "wfile" THEN <<WriteOf(smOut)>> ELSE <<>>
      /\ HeldByDriver' = IF cb'[t].pc = "wfile" THEN <<WriteOf(smOut)'>> ELSE <<>>
  BY <1>0, DriverBars
<1>3. /\ HeldByService \in Seq(Write) /\ SentWrites \in Seq(Write)
      /\ HeldByDriver \in Seq(Write) /\ WriteOf(smOut) \in Write
      /\ inFlightBar \in Seq(Write) /\ answersBar \in Seq(Nat)
  BY <1>0, BarTypes
<1>4. /\ inFlightBar = HeldByService \o (SentWrites \o HeldByDriver)
      /\ inFlightBar' = HeldByService' \o (SentWrites' \o HeldByDriver')
  BY DEF inFlightBar
<1>5. ~CreatePipeFails(t) => faulted' = faulted
  BY <1>0, DriverFaultless
<1>6. ~WriteBytes(t) => cb'[t].pc # "wfile"
  BY <1>0, SendPlace
<1>7. toSvc' = toSvc => SentWrites' = SentWrites
  BY SentKept
\* The write is accepted.
<1>8. CASE WriteBytes(t)
  <2>1. cb[t].pc = "write" /\ acked' = acked + 1 /\ UNCHANGED <<toSvc, toDrv, readLog>>
    BY <1>8 DEF WriteBytes, pipeVars
  <2>2. faulted' = faulted
    BY <1>5, <2>1 DEF CreatePipeFails
  <2>3. CASE UsesPipe
    <3>1. PICK len \in Lengths :
            cb'[t].pc = "wfile" /\ WriteOf(smOut') = [id |-> acked + 1, len |-> len]
      BY <1>0, <1>8, <2>3, CopiedWrite
    <3> DEFINE w == [id |-> acked + 1, len |-> len]
    <3>2. w \in Write
      BY <1>0, DriverAssumption DEF Write, DriverInv, DriverTypeOK
    <3>3. WriteOf(smOut)' = w
      BY <3>1 DEF WriteOf
    <3> HIDE DEF w
    <3>4. HeldByDriver = <<>> /\ HeldByDriver' = <<w>>
      BY <1>2, <2>1, <3>1, <3>3
    <3>5. inFlightBar = HeldByService \o SentWrites
      BY <1>3, <1>4, <3>4, ConcatEmptySeq
    <3>6. inFlightBar' = HeldByService \o (SentWrites \o <<w>>)
      BY <1>2, <1>4, <1>7, <2>1, <3>4
    <3>7. <<w>> \in Seq(Write)
      BY <3>2
    <3>8. inFlightBar' = inFlightBar \o <<w>>
      BY <1>3, <3>5, <3>6, <3>7, ConcatAssociative
    <3>9. inFlightBar' = Append(inFlightBar, w)
      BY <1>3, <3>2, <3>8, FirstOf
    <3> QED
      BY <1>2, <2>1, <2>2, <3>9, Accepts DEF w
  <2>4. CASE ~UsesPipe
    <3>1. Return(t)
      BY <1>8, <2>4 DEF WriteBytes
    <3>2. HeldByDriver = <<>> /\ HeldByDriver' = <<>>
      BY <1>1, <1>2, <2>1, <3>1, ReturnPlace
    <3>3. UNCHANGED inFlightBar
      BY <1>2, <1>4, <1>7, <2>1, <3>2
    <3>4. faulted
      <4>1. \A u \in Threads : cb[u].pc \notin {"connect", "listen"}
        BY <1>1, <2>1
      <4> QED
        BY <1>0, <2>1, <2>4, <4>1 DEF FaultPart
    <3> QED
      BY <1>2, <2>1, <2>2, <3>3, <3>4, Accepts
  <2> QED
    BY <2>3, <2>4
\* The message of a write joins those in the pipe.
<1>9. CASE WriteSent(t)
  <2> DEFINE head == [d |-> smOut.d, len |-> smOut.len, data |-> smOut.data]
             w == WriteOf(smOut)
  <2>1. /\ cb[t].pc = "wfile" /\ toSvc' = toSvc \o <<head, ZeroChunk>>
        /\ UNCHANGED <<toDrv, readLog, acked>>
    BY <1>0, <1>9 DEF WriteSent, SendWrite, ServerWriteOK, DataPart
  <2>2. head \in Chunk /\ head.d = "TX" /\ ZeroChunk \in Chunk /\ ZeroChunk.d = "TX"
    <3>1. smOut \in [d : Direction, len : Int, data : Data, tail : Chunk] /\ smOut.d = "TX"
      BY <1>0, <2>1 DEF DriverInv, DriverTypeOK, DataPart
    <3> QED
      BY <3>1 DEF Chunk, ZeroChunk, Direction, Data, Zero
  <2>3. WriteOf(head) = w
    BY DEF WriteOf
  <2>4. ~Requested
    BY <1>0, <1>1, <2>1 DEF AtMostOneExchange, Readers
  <2> HIDE DEF head, w
  <2>5. ~Requested'
    <3>1. /\ Len(toSvc') = Len(toSvc) + 2
          /\ \A k \in 1..Len(toSvc') : toSvc'[k] \in {head, ZeroChunk} \/
               (k \in 1..Len(toSvc) /\ toSvc'[k] = toSvc[k])
      BY <1>0, <2>1, <2>2, PairAdded, PipeTypes
    <3> QED
      BY <2>2, <2>4, <3>1 DEF Requested
  <2>6. SentWrites' = Append(SentWrites, w)
    <3> DEFINE s == toSvc
               t2 == toSvc'
    <3>1. SentWrites = Heads(s, Len(s) \div 2)
      BY <2>4 DEF SentWrites
    <3>2. SentWrites' = Heads(t2, Len(t2) \div 2)
      BY <2>5 DEF SentWrites, Heads
    <3>3. s \in Seq(Chunk) /\ t2 = s \o <<head, ZeroChunk>>
      BY <1>0, <2>1, PipeTypes
    <3> HIDE DEF s, t2
    <3>4. /\ Len(t2) \div 2 = (Len(s) \div 2) + 1
          /\ Heads(t2, (Len(s) \div 2) + 1) = Append(Heads(s, Len(s) \div 2), WriteOf(head))
      BY <2>2, <3>3, HeadsAppended
    <3> QED
      BY <2>3, <3>1, <3>2, <3>4
  <2>7. HeldByDriver = <<w>> /\ HeldByDriver' = <<>>
    <3>1. ~WriteBytes(t)
      BY <2>1 DEF WriteBytes
    <3> QED
      BY <1>2, <1>6, <2>1, <3>1 DEF w
  <2>8. w \in Write
    BY <1>3 DEF w
  <2>9. UNCHANGED inFlightBar
    <3>1. Append(SentWrites, w) \in Seq(Write) /\ Append(SentWrites, w) = SentWrites \o <<w>>
      BY <1>3, <2>8, FirstOf, AppendProperties
    <3>2. SentWrites' \o <<>> = SentWrites \o <<w>>
      BY <2>6, <3>1, ConcatEmptySeq
    <3> QED
      BY <1>2, <1>4, <2>7, <3>2
  <2>10. faulted' = faulted
    BY <1>5, <2>1 DEF CreatePipeFails
  <2> QED
    BY <1>2, <2>1, <2>9, <2>10, Stutters DEF lineVars
\* The message of a read request carries no write.
<1>10. CASE RequestSent(t)
  <2> DEFINE head == [d |-> "RX", len |-> req[cb[t].iss].len, data |-> Zero]
  <2>1. /\ cb[t].pc = "rwrite" /\ toSvc' = toSvc \o <<head, ZeroChunk>>
        /\ UNCHANGED <<toDrv, readLog, acked>>
    BY <1>10 DEF RequestSent, SendReadRequest, ServerWriteOK, ReadNothing, pipeVars
  <2>2. head \in Chunk /\ head.d = "RX" /\ ZeroChunk \in Chunk
    <3>1. cb[t].iss \in Issuers
      BY <1>0, <2>1, OthersIdle
    <3> QED
      BY <1>1, <3>1 DEF Chunk, ZeroChunk, Direction, Request, Data, Zero
  <2>4. ~Requested
    BY <1>0, <1>1, <2>1 DEF AtMostOneExchange, Readers
  <2> HIDE DEF head
  <2>5. Requested'
    <3>1. Len(toSvc) + 1 \in 1..Len(toSvc') /\ toSvc'[Len(toSvc) + 1] = head
      <4>1. toSvc \in Seq(Chunk) /\ Len(toSvc) \in Nat
        BY <1>0, PipeTypes, LenProperties
      <4>2. Len(toSvc') = Len(toSvc) + 2 /\ toSvc'[Len(toSvc) + 1] = head
        BY <2>1, <2>2, <4>1, PairAdded
      <4> QED
        BY <4>1, <4>2
    <3> QED
      BY <2>2, <3>1 DEF Requested
  <2>6. SentWrites' = SentWrites
    <3> DEFINE s == toSvc
               t2 == toSvc'
    <3>1. SentWrites = Heads(s, Len(s) \div 2)
      BY <2>4 DEF SentWrites
    <3>2. SentWrites' = Heads(t2, (Len(t2) \div 2) - 1)
      BY <2>5 DEF SentWrites, Heads
    <3>3. s \in Seq(Chunk) /\ t2 = s \o <<head, ZeroChunk>> /\ Len(s) \div 2 \in Nat
      BY <1>0, <2>1, PipeTypes, LenProperties
    <3> HIDE DEF s, t2
    <3>4. /\ Len(t2) \div 2 = (Len(s) \div 2) + 1
          /\ Heads(t2, Len(s) \div 2) = Heads(s, Len(s) \div 2)
      BY <2>2, <3>3, HeadsAppended
    <3>5. ((Len(s) \div 2) + 1) - 1 = Len(s) \div 2
      BY <3>3
    <3> QED
      BY <3>1, <3>2, <3>4, <3>5
  <2>7. HeldByDriver = <<>> /\ HeldByDriver' = <<>>
    <3>1. ~WriteBytes(t)
      BY <2>1 DEF WriteBytes
    <3> QED
      BY <1>2, <1>6, <2>1, <3>1
  <2>8. UNCHANGED inFlightBar
    BY <1>2, <1>4, <2>6, <2>7
  <2>9. faulted' = faulted
    BY <1>5, <2>1 DEF CreatePipeFails
  <2> QED
    BY <1>2, <2>1, <2>8, <2>9, Stutters DEF lineVars
\* A reply is given to the read that waits for it.
<1>11. CASE ReadReply(t) /\ ~ReadNothing(t)
  <2> DEFINE m == Head(toDrv)
             e == [asked |-> req[cb[t].iss].len, got |-> m.len, data |-> m.data]
  <2>1. /\ cb[t].pc = "rread" /\ toDrv # <<>> /\ toDrv' = Tail(toDrv)
        /\ readLog' = IF m.d = "NONE" THEN Append(readLog, e) ELSE readLog
        /\ UNCHANGED <<toSvc, acked>>
    BY <1>11 DEF ReadReply, ServerReadOK
  <2>2. m = toDrv[1] /\ m \in Chunk /\ m.d = "NONE"
    <3>1. m = toDrv[1] /\ 1 \in 1..Len(toDrv)
      BY <1>0, <2>1, PipeTypes, ChunkTaken
    <3>2. m \in Chunk
      BY <1>0, <2>1, PipeTypes, HeadTailProperties
    <3> QED
      BY <1>0, <3>1, <3>2 DEF AnswerPart
  <2>3. toDrv' = <<>>
    BY <1>0, <2>1, PipeTypes, LastTaken DEF AtMostOneExchange
  <2>4. cb[t].iss \in Issuers /\ req[cb[t].iss].len \in Nat
    BY <1>0, <1>1, <2>1, OthersIdle DEF Request
  <2>5. e \in [asked : Nat, got : Int, data : Data]
    BY <2>2, <2>4 DEF Chunk
  <2>6. readLog' = Append(readLog, e) /\ e.got = m.len /\ e.data = m.data
    BY <2>1, <2>2
  <2> HIDE DEF e
  <2>7. returnedBar' = Append(returnedBar, IF m.len > 0 THEN m.data[2] ELSE 0)
    BY <1>0, <2>5, <2>6, ReturnedAppended
  <2>8. answersBar = BlockOf(m) /\ answersBar' = <<>>
    <3>1. Answered /\ ~Answered' /\ spc' # "reply"
      BY <1>0, <2>1, <2>3 DEF Answered, AtMostOneExchange, Answering, serviceVars
    <3> QED
      BY <2>2, <3>1 DEF answersBar
  <2>9. UNCHANGED inFlightBar
    <3>1. ~WriteBytes(t)
      BY <2>1 DEF WriteBytes
    <3> QED
      BY <1>2, <1>4, <1>6, <1>7, <2>1, <3>1
  <2>10. faulted' = faulted
    BY <1>5, <2>1 DEF CreatePipeFails
  <2>11. CASE m.len > 0
    BY <1>2, <2>1, <2>7, <2>8, <2>9, <2>10, <2>11, GivesBack DEF BlockOf
  <2>12. CASE ~(m.len > 0)
    BY <1>2, <2>1, <2>7, <2>8, <2>9, <2>10, <2>12, GivesNothing DEF BlockOf
  <2> QED
    BY <2>11, <2>12
\* Without a client the write is lost with all that is under way.
<1>12. CASE SendWrite(t) /\ ~WriteSent(t)
  <2>1. /\ cb[t].pc = "wfile" /\ (hPipe # "live" \/ pipe # "connected")
        /\ UNCHANGED <<toSvc, toDrv, readLog, acked>>
    BY <1>12 DEF SendWrite, WriteSent, pipeVars
  <2>2. pipe = "clientGone"
    BY <1>0, <2>1 DEF DriverInv, PlacePart, ConnectedPart
  <2>3. faulted' = faulted /\ faulted
    BY <1>0, <1>5, <2>1, <2>2 DEF CreatePipeFails, FaultPart
  <2>4. toSvc = <<>> /\ spc # "tx"
    BY <1>0, <2>2 DEF WirePart, ServedPart
  <2>5. HeldByService = <<>> /\ SentWrites = <<>>
    BY <2>4, NothingSent DEF HeldByService
  <2>6. HeldByDriver' = <<>>
    <3>1. ~WriteBytes(t)
      BY <2>1 DEF WriteBytes
    <3> QED
      BY <1>2, <1>6, <3>1
  <2>7. inFlightBar' = <<>> /\ <<>> \in Seq(Write)
    <3>1. <<>> \in Seq(Write) /\ <<>> \o (<<>> \o <<>>) = <<>>
      BY EmptySeq, ConcatEmptySeq
    <3> QED
      BY <1>2, <1>4, <1>7, <2>1, <2>5, <2>6, <3>1
  <2>8. inFlightBar = inFlightBar \o inFlightBar'
    BY <1>3, <2>7, ConcatEmptySeq
  <2> QED
    BY <1>2, <1>3, <2>1, <2>3, <2>7, <2>8, Loses
\* Nothing is lost when the pipe cannot be created, but something has failed.
<1>13. CASE CreatePipeFails(t)
  <2>1. /\ cb[t].pc = "create" /\ UNCHANGED <<toSvc, toDrv, readLog, acked>> /\ faulted'
    BY <1>13 DEF CreatePipeFails, Fault, pipeVars
  <2>2. UNCHANGED inFlightBar
    <3>1. ~WriteBytes(t)
      BY <2>1 DEF WriteBytes
    <3> QED
      BY <1>2, <1>4, <1>6, <1>7, <2>1, <3>1
  <2>3. <<>> \in Seq(Write) /\ inFlightBar = <<>> \o inFlightBar'
    BY <1>3, <2>2, EmptySeq, ConcatEmptySeq
  <2> QED
    BY <1>2, <1>3, <2>1, <2>2, <2>3, Loses
<1>14. CASE /\ ~WriteBytes(t) /\ ~SendWrite(t) /\ ~RequestSent(t)
            /\ ReadReply(t) => ReadNothing(t)
            /\ ~CreatePipeFails(t) /\ ~HostDies(t)
  <2>1. UNCHANGED <<toSvc, toDrv>>
    <3>1. CASE ReadReply(t)
      BY <1>14, <3>1 DEF ReadNothing, pipeVars
    <3>2. CASE ~ReadReply(t)
      <4>1. ~WriteSent(t)
        BY <1>14 DEF WriteSent
      <4> QED
        BY <1>0, <1>14, <3>2, <4>1, DriverPipe
    <3> QED
      BY <3>1, <3>2
  <2>2. UNCHANGED <<acked, readLog>>
    BY <1>14
    DEF Callbacks, Dispatch, CreatePipe, WaitForClient, ClientConnected, ConnectFails,
        StartRead, SendReadRequest, RequestSent, ReadReply, ReadNothing, ClosePipes,
        OtherIoctl
  <2>3. cb[t].pc # "wfile"
    BY <1>14
    DEF Callbacks, Dispatch, LockFree, CreatePipe, WaitForClient, ClientConnected,
        ConnectFails, StartRead, SendReadRequest, ReadReply, ClosePipes, OtherIoctl
  <2>4. UNCHANGED inFlightBar
    BY <1>2, <1>4, <1>6, <1>7, <1>14, <2>1, <2>3
  <2> QED
    BY <1>2, <1>5, <1>14, <2>1, <2>2, <2>4, Stutters DEF lineVars
\* When the host dies there is no write on its way to the service, and the reply that
\* it dies of carries no block.
<1>15. CASE HostDies(t)
  <2>1. /\ toSvc' = <<>> /\ toDrv' = <<>> /\ toDrv # <<>> /\ t \in Readers
        /\ UNCHANGED <<readLog, acked>> /\ cb[t].pc = "rread" /\ cb'[t].pc = "idle"
    BY <1>0, <1>15, HostGone DEF HostDies
  <2>2. Answered /\ ~Requested /\ ~Answering /\ ~Answered' /\ spc' # "reply"
    BY <1>0, <2>1 DEF Answered, AtMostOneExchange, Answering, serviceVars
  <2>3. SentWrites = <<>> /\ SentWrites' = <<>>
    <3>1. Len(<<>>) = 0 /\ 0 \div 2 = 0 /\ 1..0 = {} /\ Len(toSvc) \div 2 = 0
      <4>1. Len(toSvc) \in Nat /\ Len(toSvc) <= 1
        BY <1>0, <2>2, PipeTypes, LenProperties DEF LastPart
      <4>2. Len(<<>>) = 0 /\ 0 \div 2 = 0 /\ 1..0 = {}
        OBVIOUS
      <4>3. \A n \in Nat : n <= 1 => n \div 2 = 0
        OBVIOUS
      <4>4. Len(toSvc) \div 2 = 0
        BY <4>1, <4>3, Zenon
      <4> QED
        BY <4>2, <4>4
    <3>2. ~Requested'
      BY <2>1, <3>1 DEF Requested
    <3>3. \A q : Heads(q, 0) = <<>>
      BY <3>1 DEF Heads
    <3>4. SentWrites = Heads(toSvc, 0)
      BY <2>2, <3>1 DEF SentWrites
    <3>5. SentWrites' = <<>>
      BY <2>1, <3>1, <3>2 DEF SentWrites, Heads
    <3> QED
      BY <3>3, <3>4, <3>5
  <2>4. answersBar = <<>> /\ answersBar' = <<>>
    <3>1. 1 \in 1..Len(toDrv) /\ Head(toDrv) = toDrv[1] /\ toDrv[1] \in Chunk
      BY <1>0, <2>1, PipeTypes, ChunkTaken
    <3>2. toDrv[1].len \notin 0..req[cb[t].iss].len /\ toDrv[1].len \in Int
      BY <1>15, <3>1 DEF HostDies, Chunk
    <3>3. toDrv[1].len <= req[cb[t].iss].len
      BY <1>0, <2>1, <3>1 DEF ReplyFits
    <3>4. req[cb[t].iss].len \in Nat
      BY <1>0, <1>1, <2>1, OthersIdle DEF Request
    <3>5. ~(toDrv[1].len > 0)
      BY <3>2, <3>3, <3>4
    <3> QED
      BY <2>2, <3>5 DEF answersBar, BlockOf
  <2>5. UNCHANGED inFlightBar
    BY <1>2, <1>4, <2>1, <2>3
  <2>6. faulted' = faulted
    BY <1>5, <2>1 DEF CreatePipeFails
  <2> QED
    BY <1>2, <2>1, <2>4, <2>5, <2>6, Stutters DEF lineVars
<1> QED
  BY <1>8, <1>9, <1>10, <1>11, <1>12, <1>13, <1>14, <1>15

-----------------------------------------------------------------------------
(* The steps of the applications and of the service.                       *)

\* A step beside the callbacks that the line does not notice
LEMMA LineKept ==
  ASSUME UNCHANGED <<cb, smOut, acked, readLog, toSvc, toDrv, comLog, comIn, faulted>>,
         \/ UNCHANGED <<spc, smRet, smReply>>
         \/ spc \notin {"tx", "reply"} /\ spc' \notin {"tx", "reply"}
  PROVE  LineStep
<1>1. UNCHANGED <<SentWrites, onWireBar, returnedBar>>
  BY SentKept DEF onWireBar, returnedBar
<1>2. UNCHANGED HeldByDriver
  BY DEF HeldByDriver, WriteOf
<1>3. UNCHANGED HeldByService
  BY DEF HeldByService, WriteOf
<1>4. UNCHANGED answersBar
  BY DEF answersBar, Answered, BlockOf
<1>5. UNCHANGED inFlightBar
  BY <1>1, <1>2, <1>3 DEF inFlightBar
<1> QED
  BY <1>1, <1>4, <1>5, Stutters DEF lineVars

\* A chunk that is read: the head of a write passes from the pipe to the service.
LEMMA ReadPipeLine ==
  ASSUME LineInv, ReadPipe, UNCHANGED driverVars, faulted' = faulted
  PROVE  LineStep
<1>0. ClientInv /\ AtMostOneExchange /\ ShapePart /\ spc = "read"
  BY DEF LineInv, BridgeInv, OneExchange, ReadPipe
<1>1. CASE ~ClientRead
  BY <1>1, LineKept DEF ReadPipe, pipeVars, driverVars
<1>2. CASE ClientRead
  <2> DEFINE c == toSvc[1]
  <2>1. /\ toSvc # <<>> /\ toSvc' = Tail(toSvc) /\ Head(toSvc) = c
        /\ UNCHANGED <<cb, smOut, acked, readLog, toDrv, comLog, comIn>> /\ smRet' = c
    BY <1>0, <1>2, PipeTypes, ChunkTaken DEF ReadPipe, ClientRead, driverVars
  <2>2. /\ c.d \in {"TX", "RX", "NONE"} /\ c \in Chunk
        /\ spc' = CASE c.d = "TX" -> "tx" [] c.d = "RX" -> "rx" [] c.d = "NONE" -> "read"
    <3>1. c \in Chunk /\ c.d \in {"TX", "RX", "NONE"}
      BY <1>0, <2>1, HeadIsChunk
    <3> QED
      BY <1>0, <1>2, <2>1, <3>1 DEF ReadPipe, ClientRead
  <2>3. UNCHANGED <<HeldByDriver, onWireBar, returnedBar>>
    BY <2>1 DEF HeldByDriver, WriteOf, onWireBar, returnedBar
  <2>4. UNCHANGED answersBar
    <3>1. spc # "reply" /\ spc' # "reply"
      BY <1>0, <2>2
    <3> QED
      BY <2>1, <3>1 DEF answersBar, Answered, BlockOf
  <2>5. HeldByService = <<>>
    BY <1>0 DEF HeldByService
  <2>6. HeldByService' = IF spc' = "tx" /\ c.len > 0 THEN <<WriteOf(c)>> ELSE <<>>
    BY <2>1 DEF HeldByService, WriteOf
  <2>7. /\ SentWrites \in Seq(Write) /\ HeldByDriver \in Seq(Write)
        /\ WriteOf(c) \in Write
    BY <1>0, <2>2, BarTypes, WriteType
  <2>t. ZeroChunk.d = "TX" /\ ~(ZeroChunk.len > 0)
    BY DEF ZeroChunk
  <2>8. \/ c = ZeroChunk /\ SentWrites' = SentWrites
        \/ c.d = "RX" /\ SentWrites = <<>> /\ SentWrites' = <<>>
        \/ c.d = "TX" /\ c.len > 0 /\ SentWrites = <<WriteOf(c)>> \o SentWrites'
    BY <1>0, <2>1, TakenWrites
  <2>9. /\ inFlightBar = HeldByService \o (SentWrites \o HeldByDriver)
        /\ inFlightBar' = HeldByService' \o (SentWrites' \o HeldByDriver')
    BY DEF inFlightBar
  <2> HIDE DEF c
  <2>10. CASE SentWrites' = SentWrites /\ HeldByService' = <<>>
    <3>1. UNCHANGED inFlightBar
      BY <2>3, <2>5, <2>9, <2>10
    <3> QED
      BY <2>1, <2>3, <2>4, <3>1, Stutters DEF lineVars
  <2>11. CASE c.d = "TX" /\ c.len > 0 /\ SentWrites = <<WriteOf(c)>> \o SentWrites'
    <3>1. HeldByService' = <<WriteOf(c)>>
      BY <2>2, <2>6, <2>11
    <3>2. SentWrites' \in Seq(Write)
      <4>1. SentWrites' = Heads(toSvc', IF Requested' THEN (Len(toSvc') \div 2) - 1
                                                      ELSE Len(toSvc') \div 2)
        BY DEF SentWrites, Heads
      <4>2. toSvc' \in Seq(Chunk) /\ Len(toSvc') \in Nat /\ Len(toSvc') \div 2 \in Nat
        BY <1>0, <2>1, PipeTypes, HeadTailProperties, LenProperties
      <4>3. Requested' => Len(toSvc') \div 2 >= 1
        <5> SUFFICES ASSUME Requested' PROVE Len(toSvc') >= 2
          BY <4>2
        <5>1. /\ Len(toSvc) \in Nat /\ Len(toSvc') = Len(toSvc) - 1
              /\ \A k \in 1..Len(toSvc') : k + 1 \in 1..Len(toSvc) /\ toSvc'[k] = toSvc[k + 1]
          BY <1>0, <2>1, PipeTypes, ChunkTaken
        <5>2. PICK k \in 1..Len(toSvc') : toSvc'[k].d = "RX"
          BY DEF Requested
        <5>3. k + 1 \in 1..Len(toSvc) /\ toSvc[k + 1].d = "RX"
          BY <5>1, <5>2
        <5>4. k + 1 = Len(toSvc) - 1
          BY <1>0, <2>t, <5>3 DEF ShapePart
        <5> QED
          BY <5>1, <5>2, <5>4
      <4> DEFINE n == IF Requested' THEN (Len(toSvc') \div 2) - 1 ELSE Len(toSvc') \div 2
      <4>4. n \in Nat /\ n <= Len(toSvc') \div 2
        BY <4>2, <4>3
      <4> HIDE DEF n
      <4>5. Heads(toSvc', n) \in Seq(Write)
        BY <4>2, <4>4, HeadsType
      <4> QED
        BY <4>1, <4>5 DEF n
    <3>3. <<WriteOf(c)>> \in Seq(Write)
      BY <2>7
    <3>4. UNCHANGED inFlightBar
      <4>1. inFlightBar = SentWrites \o HeldByDriver
        <5>1. SentWrites \o HeldByDriver \in Seq(Write)
          BY <2>7, ConcatProperties
        <5> QED
          BY <2>5, <2>9, <5>1, ConcatEmptySeq
      <4>2. inFlightBar' = <<WriteOf(c)>> \o (SentWrites' \o HeldByDriver)
        BY <2>3, <2>9, <3>1
      <4> QED
        BY <2>7, <2>11, <3>2, <3>3, <4>1, <4>2, ConcatAssociative
    <3> QED
      BY <2>1, <2>3, <2>4, <3>4, Stutters DEF lineVars
  <2> QED
    BY <2>2, <2>6, <2>8, <2>10, <2>11, <2>t
<1> QED
  BY <1>1, <1>2

\* What the service takes from a message leaves on the port, or is lost.
LEMMA ForwardLine ==
  ASSUME LineInv, ForwardToCom, UNCHANGED driverVars, faulted' = (faulted \/ Fault)
  PROVE  LineStep
<1>0. ClientInv /\ DataPart /\ ShapePart /\ FaultPart /\ spc = "tx" /\ spc' = "read"
  BY DEF LineInv, BridgeInv, ForwardToCom
<1>1. UNCHANGED <<cb, smOut, acked, readLog, toSvc, toDrv, smReply, comIn, hPipe>>
  BY DEF ForwardToCom, driverVars, pipeVars
<1>2. UNCHANGED <<HeldByDriver, SentWrites, returnedBar>>
  BY <1>1, SentKept DEF HeldByDriver, WriteOf, returnedBar
<1>3. UNCHANGED answersBar
  BY <1>0, <1>1 DEF answersBar, Answered, BlockOf
<1>4. /\ HeldByService = IF smRet.len > 0 THEN <<WriteOf(smRet)>> ELSE <<>>
      /\ HeldByService' = <<>>
  BY <1>0 DEF HeldByService
<1>5. /\ SentWrites \in Seq(Write) /\ HeldByDriver \in Seq(Write) /\ WriteOf(smRet) \in Write
      /\ answersBar \in Seq(Nat)
  BY <1>0, BarTypes
<1> DEFINE r == SentWrites \o HeldByDriver
<1>6. r \in Seq(Write) /\ inFlightBar' = r
  <2>1. r \in Seq(Write)
    BY <1>5, ConcatProperties
  <2>2. inFlightBar' = <<>> \o r
    BY <1>2, <1>4 DEF inFlightBar
  <2> QED
    BY <2>1, <2>2, ConcatEmptySeq
<1>7. inFlightBar = HeldByService \o r
  BY DEF inFlightBar
<1> HIDE DEF r
<1>p. PICK n \in BytesTaken(com') : comLog' = Written(n)
  BY DEF ForwardToCom
<1>q. smRet.len \in Int /\ n \in Int
  <2>1. smRet.len \in Int
    BY <1>0 DEF ClientInv, ServiceTypeOK, Chunk
  <2> QED
    BY <2>1 DEF BytesTaken
\* The whole write leaves.
<1>8. CASE smRet.len > 0 /\ n = smRet.len
  <2>1. smRet.len \in 1..smRet.len /\ comLog' = Written(smRet.len)
    BY <1>p, <1>q, <1>8
  <2>2. onWireBar' = Append(onWireBar, Line!Carried(WriteOf(smRet), smRet.len))
    BY <1>0, <1>8, <2>1, WireAppended
  <2>3. WriteOf(smRet).len = smRet.len
    BY DEF WriteOf
  <2>4. faulted' = faulted
    BY <1>0, <1>1, <2>1 DEF Fault, FaultPart
  <2>5. inFlightBar = <<WriteOf(smRet)>> \o inFlightBar'
    BY <1>4, <1>6, <1>7, <1>8
  <2> QED
    BY <1>1, <1>2, <1>3, <1>5, <1>6, <2>2, <2>3, <2>4, <2>5, Emits
\* Its beginning does.
<1>9. CASE smRet.len > 0 /\ n \in 1..(smRet.len - 1)
  <2>1. n \in 1..smRet.len /\ n > 0
    BY <1>q, <1>9
  <2>2. onWireBar' = Append(onWireBar, Line!Carried(WriteOf(smRet), n))
    BY <1>0, <1>p, <1>9, <2>1, WireAppended
  <2>3. n \in 1..(WriteOf(smRet).len - 1)
    BY <1>9 DEF WriteOf
  <2>4. faulted'
    <3> DEFINE block(j) == [data |-> IF j <= PACKET_SIZE THEN smRet.data ELSE Junk,
                            len |-> j]
               a == block(n)
               b == block(smRet.len)
    <3>1. a.len # b.len
      BY <1>q, <1>9
    <3>2. comLog' = Append(comLog, a) /\ Written(smRet.len) = Append(comLog, b)
      BY <1>p, <1>9, <2>1 DEF Written
    <3>3. comLog \in Seq([data : Data, len : Int])
      BY <1>0 DEF ClientInv, ServiceTypeOK
    <3> HIDE DEF a, b
    <3>4. Append(comLog, a) # Append(comLog, b)
      <4>1. \A x : Append(comLog, x)[Len(comLog) + 1] = x
        BY <3>3
      <4> QED
        BY <3>1, <4>1
    <3> QED
      BY <1>0, <3>2, <3>4 DEF Fault
  <2>5. inFlightBar = <<WriteOf(smRet)>> \o inFlightBar'
    BY <1>4, <1>6, <1>7, <1>9
  <2> QED
    BY <1>1, <1>2, <1>3, <1>5, <1>6, <2>2, <2>3, <2>4, <2>5, EmitsPart
\* Nothing does.
<1>10. CASE smRet.len > 0 /\ n = 0
  <2>1. comLog' = comLog
    BY <1>p, <1>10 DEF Written
  <2>2. faulted'
    <3>1. Written(smRet.len) # comLog
      <4> DEFINE b == [data |-> IF smRet.len <= PACKET_SIZE THEN smRet.data ELSE Junk,
                       len |-> smRet.len]
      <4>1. Written(smRet.len) = Append(comLog, b)
        BY <1>10 DEF Written
      <4>2. comLog \in Seq([data : Data, len : Int])
        BY <1>0 DEF ClientInv, ServiceTypeOK
      <4> HIDE DEF b
      <4>3. Len(Append(comLog, b)) = Len(comLog) + 1 /\ Len(comLog) \in Nat
        BY <4>2
      <4> QED
        BY <4>1, <4>3
    <3> QED
      BY <1>0, <2>1, <3>1 DEF Fault
  <2>3. UNCHANGED onWireBar
    BY <2>1 DEF onWireBar
  <2>4. <<WriteOf(smRet)>> \in Seq(Write) /\ inFlightBar = <<WriteOf(smRet)>> \o inFlightBar'
    BY <1>4, <1>5, <1>6, <1>7, <1>10
  <2> QED
    BY <1>1, <1>2, <1>3, <1>5, <1>6, <2>2, <2>3, <2>4, Loses
\* There was nothing to leave: the service holds the rest of a message.
<1>11. CASE ~(smRet.len > 0)
  <2>1. ~(n > 0)
    BY <1>q, <1>11 DEF BytesTaken
  <2>2. comLog' = comLog /\ Written(smRet.len) = comLog
    BY <1>p, <1>11, <2>1 DEF Written
  <2>3. faulted' = faulted
    BY <1>0, <1>1, <2>2 DEF Fault, FaultPart
  <2>4. UNCHANGED inFlightBar
    BY <1>4, <1>6, <1>7, <1>11, ConcatEmptySeq
  <2>5. UNCHANGED onWireBar
    BY <2>2 DEF onWireBar
  <2> QED
    BY <1>1, <1>2, <1>3, <2>3, <2>4, <2>5, Stutters DEF lineVars
<1>12. smRet.len > 0 => n \in 1..smRet.len \/ n = 0
  BY <1>q DEF BytesTaken
<1> QED
  BY <1>q, <1>8, <1>9, <1>10, <1>11, <1>12

\* A block is taken from the port, or none.
LEMMA ReadFromComLine ==
  ASSUME LineInv, ReadFromCom, UNCHANGED driverVars, faulted' = faulted
  PROVE  LineStep
<1>1. /\ spc = "rx" /\ spc' = "reply"
      /\ UNCHANGED <<cb, smOut, acked, readLog, toSvc, toDrv, smRet, comLog>>
  BY DEF ReadFromCom, driverVars, pipeVars
<1>2. UNCHANGED <<HeldByDriver, SentWrites, returnedBar, onWireBar>>
  BY <1>1, SentKept DEF HeldByDriver, WriteOf, returnedBar, onWireBar
<1>3. HeldByService = <<>> /\ HeldByService' = <<>>
  BY <1>1 DEF HeldByService
<1>4. UNCHANGED inFlightBar
  BY <1>2, <1>3 DEF inFlightBar
<1>5. answersBar = <<>> /\ answersBar' = BlockOf(smReply')
  <2>1. ~Answered
    BY <1>1 DEF LineInv, BridgeInv, OneExchange, AtMostOneExchange, Answering
  <2> QED
    BY <1>1, <2>1 DEF answersBar, Answered, BlockOf
<1>6. CASE \E n \in BlockSizes :
             /\ comIn' = IF n > 0 THEN comIn + 1 ELSE comIn
             /\ smReply' = [d |-> "NONE", len |-> n,
                            data |-> IF n > 0 THEN RxData(comIn + 1, n) ELSE Zero]
  <2>1. PICK n \in BlockSizes :
             /\ comIn' = IF n > 0 THEN comIn + 1 ELSE comIn
             /\ smReply' = [d |-> "NONE", len |-> n,
                            data |-> IF n > 0 THEN RxData(comIn + 1, n) ELSE Zero]
    BY <1>6
  <2>2. CASE n > 0
    <3>1. comIn' = comIn + 1 /\ answersBar' = <<comIn + 1>>
      BY <1>5, <2>1, <2>2 DEF BlockOf, RxData
    <3>2. answersBar' = Append(answersBar, comIn + 1)
      BY <1>5, <3>1
    <3> QED
      BY <1>1, <1>2, <1>4, <3>1, <3>2, Takes
  <2>3. CASE ~(n > 0)
    <3>1. comIn' = comIn /\ answersBar' = <<>>
      BY <1>5, <2>1, <2>3 DEF BlockOf
    <3> QED
      BY <1>1, <1>2, <1>4, <1>5, <3>1, Stutters DEF lineVars
  <2> QED
    BY <2>2, <2>3
<1>7. CASE smReply' = [smReply EXCEPT !.d = "NONE", !.len = -1] /\ UNCHANGED comIn
  <2>1. smReply \in Chunk
    BY DEF LineInv, BridgeInv, ClientInv, ServiceTypeOK
  <2>2. smReply'.len = -1
    BY <1>7, <2>1 DEF Chunk
  <2>3. answersBar' = <<>>
    <3>1. ~(-1 > 0)
      OBVIOUS
    <3> QED
      BY <1>5, <2>2, <3>1 DEF BlockOf
  <2> QED
    BY <1>1, <1>2, <1>4, <1>5, <1>7, <2>3, Stutters DEF lineVars
<1> QED
  BY <1>6, <1>7 DEF ReadFromCom

\* The reply takes its block along.
LEMMA ReplyLine ==
  ASSUME LineInv, Reply, UNCHANGED driverVars, faulted' = faulted
  PROVE  LineStep
<1>0. ClientInv /\ spc = "reply" /\ ~Answered /\ cli = "open"
  BY DEF LineInv, BridgeInv, Reply, WirePart, OneExchange, AtMostOneExchange,
     Answering
<1>1. /\ spc' = "read" /\ toDrv' = Append(toDrv, smReply)
      /\ UNCHANGED <<cb, smOut, acked, readLog, toSvc, smRet, smReply, comLog, comIn>>
  BY <1>0 DEF Reply, ClientWrite, driverVars
<1>2. UNCHANGED <<HeldByDriver, SentWrites, returnedBar, onWireBar>>
  BY <1>1, SentKept DEF HeldByDriver, WriteOf, returnedBar, onWireBar
<1>3. HeldByService = <<>> /\ HeldByService' = <<>>
  BY <1>0, <1>1 DEF HeldByService
<1>4. UNCHANGED inFlightBar
  BY <1>2, <1>3 DEF inFlightBar
<1>5. toDrv' = <<smReply>>
  BY <1>0, <1>1 DEF Answered
<1>6. Answered' /\ toDrv'[1] = smReply
  BY <1>5 DEF Answered
<1>7. answersBar = BlockOf(smReply) /\ answersBar' = BlockOf(smReply)
  BY <1>0, <1>6 DEF answersBar, BlockOf
<1> QED
  BY <1>1, <1>2, <1>4, <1>7, Stutters DEF lineVars

\* With the service die the writes it holds and the pipe, or nothing at all.
LEMMA CrashLine ==
  ASSUME LineInv, ServiceCrash, faulted' = (faulted \/ Fault)
  PROVE  LineStep
<1>0. /\ ClientInv /\ ShapePart /\ FaultPart /\ ServedPart /\ spc # "down" /\ spc' = "down"
      /\ UNCHANGED <<cb, smOut, acked, readLog, toDrv, smRet, smReply, comLog, comIn, hPipe>>
  BY DEF LineInv, BridgeInv, ServiceCrash, Crash, ClientClose, pipeVars
<1>1. CASE spc = "exit"
  <2>1. UNCHANGED toSvc
    BY <1>0, <1>1 DEF ServiceCrash, Crash, ClientClose, ServedPart, pipeVars
  <2>2. faulted' = faulted
    BY <1>0, <1>1 DEF Fault, FaultPart
  <2> QED
    BY <1>0, <1>1, <2>1, <2>2, LineKept
<1>2. CASE spc # "exit"
  <2>1. faulted'
    BY <1>0, <1>2 DEF Fault
  <2>2. UNCHANGED <<HeldByDriver, returnedBar, onWireBar>>
    BY <1>0 DEF HeldByDriver, WriteOf, returnedBar, onWireBar
  <2>3. HeldByService' = <<>>
    BY <1>0 DEF HeldByService
  <2>4. /\ HeldByService \in Seq(Write) /\ SentWrites \in Seq(Write)
        /\ HeldByDriver \in Seq(Write) /\ answersBar \in Seq(Nat)
    BY <1>0, BarTypes
  <2>5. answersBar' \in {answersBar, <<>>}
    BY <1>0 DEF answersBar, Answered, BlockOf
  <2>6. /\ inFlightBar = HeldByService \o (SentWrites \o HeldByDriver)
        /\ inFlightBar' = HeldByService' \o (SentWrites' \o HeldByDriver')
    BY DEF inFlightBar
  <2>7. CASE UNCHANGED toSvc
    <3>1. SentWrites' = SentWrites
      BY <2>7, SentKept
    <3>2. SentWrites \o HeldByDriver \in Seq(Write)
      BY <2>4, ConcatProperties
    <3>3. inFlightBar' = SentWrites \o HeldByDriver
      BY <2>2, <2>3, <2>6, <3>1, <3>2, ConcatEmptySeq
    <3>4. inFlightBar' \in Seq(Write) /\ inFlightBar = HeldByService \o inFlightBar'
      BY <2>6, <3>2, <3>3
    <3> QED
      BY <1>0, <2>1, <2>2, <2>4, <2>5, <3>4, Loses
  <2>8. CASE toSvc' = <<>>
    <3>1. SentWrites' = <<>>
      <4>1. Len(<<>>) = 0 /\ 0 \div 2 = 0 /\ 1..0 = {}
        OBVIOUS
      <4>2. ~Requested'
        BY <2>8, <4>1 DEF Requested
      <4> QED
        BY <2>8, <4>1, <4>2 DEF SentWrites, Heads
    <3>2. inFlightBar' = HeldByDriver
      BY <2>2, <2>3, <2>4, <2>6, <3>1, ConcatEmptySeq
    <3>3. inFlightBar = (HeldByService \o SentWrites) \o HeldByDriver
      BY <2>4, <2>6, ConcatAssociative
    <3>4. HeldByService \o SentWrites \in Seq(Write)
      BY <2>4, ConcatProperties
    <3> QED
      BY <1>0, <2>1, <2>2, <2>4, <2>5, <3>2, <3>3, <3>4, Loses
  <2> QED
    BY <2>7, <2>8 DEF ServiceCrash, Crash, ClientClose, pipeVars
<1> QED
  BY <1>1, <1>2

\* Every step of the applications and of the service is one of the line, or none.
LEMMA ServiceLine ==
  ASSUME LineInv, AppRequest \/ ServiceStep, faulted' = (faulted \/ Fault)
  PROVE  LineStep
<1>0. ClientInv /\ FaultPart /\ ServedPart
  BY DEF LineInv, BridgeInv
<1>1. CASE ForwardToCom /\ UNCHANGED driverVars
  BY <1>1, ForwardLine
<1>2. CASE ~ForwardToCom
  <2>1. spc = "tx" => UNCHANGED spc
    BY <1>2
    DEF AppRequest, ServiceStep, ServiceLoop, ServiceStart, OpenPipe, SetMode, ReadPipe,
        ReadFromCom, Reply, Exit, VcomFails, SendControl, SendBaudRate, BaudRateSet,
        serviceVars
  <2>2. spc' = "down" => spc \in {"exit", "down"}
    <3>1. ReadPipe => spc' # "down"
      <4>1. ClientRead => Head(toSvc).d \in {"TX", "RX", "NONE"}
        BY <1>0, HeadIsChunk DEF ClientRead
      <4> QED
        BY <4>1 DEF ReadPipe
    <3> QED
      BY <1>2, <3>1
      DEF AppRequest, ServiceStep, ServiceLoop, ServiceStart, OpenPipe, SetMode,
          ReadFromCom, Reply, Exit, VcomFails, SendControl, SendBaudRate, BaudRateSet,
          serviceVars
  <2>3. UNCHANGED hPipe
    BY DEF AppRequest, ServiceStep, ServiceLoop, VcomFails, SendControl, SendBaudRate,
       BaudRateSet, Issue, driverVars
  <2>4. faulted' = faulted
    <3>1. Fault => faulted
      BY <1>0, <2>1, <2>2, <2>3 DEF Fault, FaultPart
    <3> QED
      BY <1>0, <3>1 DEF FaultPart
  <2>5. CASE ReadPipe /\ UNCHANGED driverVars
    BY <2>4, <2>5, ReadPipeLine
  <2>6. CASE ReadFromCom /\ UNCHANGED driverVars
    BY <2>4, <2>6, ReadFromComLine
  <2>7. CASE Reply /\ UNCHANGED driverVars
    BY <2>4, <2>7, ReplyLine
  <2>8. CASE AppRequest
    BY <2>4, <2>8, LineKept DEF AppRequest, Issue, serviceVars, pipeVars
  <2>9. CASE SendControl \/ SendBaudRate \/ VcomFails \/ BaudRateSet
    BY <2>4, <2>9, LineKept
    DEF SendControl, SendBaudRate, VcomFails, BaudRateSet, Issue, pipeVars, driverVars
  <2>10. CASE (ServiceStart \/ OpenPipe \/ SetMode) /\ UNCHANGED driverVars
    BY <2>4, <2>10, LineKept
    DEF ServiceStart, OpenPipe, SetMode, ClientOpen, pipeVars, driverVars
  <2>11. CASE Exit /\ UNCHANGED driverVars
    <3>1. UNCHANGED <<toSvc, toDrv, comLog, comIn>> /\ spc = "exit" /\ spc' = "down"
      BY <1>0, <2>11 DEF Exit, ClientClose, ServedPart
    <3> QED
      BY <2>4, <2>11, <3>1, LineKept DEF driverVars
  <2> QED
    BY <1>2, <2>5, <2>6, <2>7, <2>8, <2>9, <2>10, <2>11 DEF ServiceStep, ServiceLoop
<1> QED
  BY <1>1, <1>2 DEF ServiceStep, AppRequest, serviceVars, ForwardToCom, VcomFails,
     SendControl, SendBaudRate, BaudRateSet

\* A step that changes nothing is none of the line's.
LEMMA LineUnchanged ==
  ASSUME UNCHANGED vars
  PROVE  LineStep
BY LineKept DEF vars, bvars, pipeVars, driverVars, serviceVars

LEMMA LineInitBar == BridgeInit => Line!LineInit
<1> SUFFICES ASSUME BridgeInit PROVE Line!LineInit
  OBVIOUS
<1> USE DEF BridgeInit, DriverInit, PipeInit, ServiceInit
<1>0. Len(<<>>) = 0 /\ 1..0 = {} /\ <<>> \o (<<>> \o <<>>) = <<>>
  OBVIOUS
<1>1. HeldByService = <<>> /\ HeldByDriver = <<>> /\ SentWrites = <<>>
  BY NothingSent DEF HeldByService, HeldByDriver, NoCallback
<1>2. inFlightBar = <<>> /\ onWireBar = <<>> /\ answersBar = <<>> /\ returnedBar = <<>>
  BY <1>0, <1>1 DEF inFlightBar, onWireBar, answersBar, returnedBar, Answered
<1> QED
  BY <1>2 DEF Line!LineInit

\* The whole path, from an application's request through the driver, the pipe and the
\* service to the real port and back, is a serial line: in every behaviour writes leave
\* in the order in which they were accepted, each at most once and under its own length,
\* and blocks reach the readers in the order of arrival, each at most once; and as long
\* as nothing has failed nothing is lost, also across a change of the baud rate.
THEOREM BridgeImplementsLine ==
  ASSUME EnvChunks = Chunk, ShortWrites PROVE BridgeSpec => IsSerialLine
<1>1. LineInv /\ [BridgeNext]_vars => LineStep
  <2> SUFFICES ASSUME LineInv, [BridgeNext]_vars PROVE LineStep
    OBVIOUS
  <2>1. CASE UNCHANGED vars
    BY <2>1, LineUnchanged
  <2>2. CASE DriverStep /\ UNCHANGED serviceVars /\ faulted' = (faulted \/ Fault)
    BY <2>2, DriverLine DEF DriverStep
  <2>3. CASE (AppRequest \/ ServiceStep) /\ faulted' = (faulted \/ Fault)
    BY <2>3, ServiceLine
  <2>4. CASE ServiceCrash /\ faulted' = (faulted \/ Fault)
    BY <2>4, CrashLine
  <2> QED
    BY <2>1, <2>2, <2>3, <2>4 DEF BridgeNext
<1> QED
  BY <1>1, LineInitBar, LineInvariant, PTL DEF BridgeSpec, IsSerialLine, Line!LineSpec, LineStep

-----------------------------------------------------------------------------
(* What an application may rely on: the invariants of the line, and with   *)
(* the refinement of the bridge.                                           *)

\* A sequence grows at its end, and loses its oldest elements.
LEMMA Grown ==
  ASSUME NEW S, NEW s \in Seq(S), NEW e \in S
  PROVE  /\ Append(s, e) \in Seq(S) /\ Len(Append(s, e)) = Len(s) + 1
         /\ Append(s, e)[Len(s) + 1] = e
         /\ \A k \in 1..Len(s) : Append(s, e)[k] = s[k]
OBVIOUS

LEMMA HeadGone ==
  ASSUME NEW S, NEW s \in Seq(S), s # <<>>
  PROVE  /\ Head(s) = s[1] /\ Head(s) \in S /\ Len(s) \in Nat \ {0}
         /\ Tail(s) \in Seq(S) /\ Len(Tail(s)) = Len(s) - 1
         /\ \A k \in 1..(Len(s) - 1) : Tail(s)[k] = s[k + 1]
OBVIOUS

LEMMA OldestLost ==
  ASSUME NEW S, NEW s \in Seq(S), NEW k \in 0..Len(s)
  PROVE  /\ Line!WithoutOldest(s, k) \in Seq(S)
         /\ \A i \in 1..Len(Line!WithoutOldest(s, k)) :
              i + k \in 1..Len(s) /\ Line!WithoutOldest(s, k)[i] = s[i + k]
<1> DEFINE r == SubSeq(s, k + 1, Len(s))
<1>1. Len(s) \in Nat /\ k + 1 \in 1..(Len(s) + 1) /\ r \in Seq(S)
  OBVIOUS
<1>2. Len(r) = Len(s) - k
  BY <1>1
<1>3. \A i \in 1..(Len(s) - k) : i + k \in 1..Len(s) /\ r[i] = s[(k + 1) + i - 1]
  BY <1>1
<1>4. r = Line!WithoutOldest(s, k)
  BY DEF Line!WithoutOldest
<1> HIDE DEF r
<1>5. \A i \in 1..Len(r) : i + k \in 1..Len(s) /\ r[i] = s[i + k]
  BY <1>1, <1>2, <1>3
<1> QED
  BY <1>1, <1>4, <1>5

LineRecord == [id : Nat, len : Lengths]
WireRecord == [id : Nat, len : Lengths, sent : Nat]

LEMMA LineInitKeeps ==
  ASSUME Line!LineInit
  PROVE  /\ Line!LineTypeOK /\ Line!NothingLost
         /\ Line!WritesInOrder /\ Line!BlocksInOrder
<1>1. /\ faulted = FALSE /\ acked = 0 /\ comIn = 0 /\ inFlightBar = <<>>
      /\ onWireBar = <<>> /\ answersBar = <<>> /\ returnedBar = <<>>
  BY DEF Line!LineInit
<1>2. Len(<<>>) = 0 /\ 1..0 = {} /\ \A S : <<>> \in Seq(S)
  OBVIOUS
<1>3. Line!LineTypeOK
  BY <1>1, <1>2 DEF Line!LineTypeOK
<1>4. Line!NothingLost
  BY <1>1, <1>2 DEF Line!NothingLost
<1>5. Line!WritesInOrder /\ Line!BlocksInOrder
  BY <1>1, <1>2 DEF Line!WritesInOrder, Line!BlocksInOrder
<1> QED
  BY <1>3, <1>4, <1>5

\* A write is accepted: it is the last.
LEMMA AcceptKeeps ==
  ASSUME Line!LineTypeOK, Line!NothingLost, Line!WritesInOrder, Line!Accept
  PROVE  (Line!LineTypeOK /\ Line!NothingLost /\ Line!WritesInOrder)'
<1>1. CASE faulted /\ UNCHANGED inFlightBar
  <2>1. /\ acked \in Nat /\ acked' = acked + 1
        /\ UNCHANGED <<faulted, inFlightBar, onWireBar, comIn, answersBar, returnedBar>>
    BY <1>1 DEF Line!Accept, Line!inbound, Line!LineTypeOK
  <2>2. Line!LineTypeOK'
    BY <2>1 DEF Line!LineTypeOK
  <2>3. Line!NothingLost'
    BY <1>1, <2>1 DEF Line!NothingLost
  <2>4. 1..acked \subseteq 1..acked'
    BY <2>1
  <2>5. Line!WritesInOrder'
    BY <2>1, <2>4 DEF Line!WritesInOrder
  <2> QED
    BY <2>2, <2>3, <2>5
<1>2. ASSUME NEW len \in Lengths,
             inFlightBar' = Append(inFlightBar, [id |-> acked + 1, len |-> len])
      PROVE  (Line!LineTypeOK /\ Line!NothingLost /\ Line!WritesInOrder)'
  <2> DEFINE w == [id |-> acked + 1, len |-> len]
  <2>1. /\ acked' = acked + 1 /\ acked \in Nat /\ faulted \in BOOLEAN
        /\ UNCHANGED <<faulted, onWireBar, comIn, answersBar, returnedBar>>
        /\ inFlightBar \in Seq(LineRecord) /\ onWireBar \in Seq(WireRecord)
        /\ w \in LineRecord /\ w.id = acked + 1
    BY DEF Line!Accept, Line!inbound, Line!LineTypeOK, LineRecord, WireRecord
  <2> HIDE DEF w
  <2>2. /\ inFlightBar' \in Seq(LineRecord) /\ Len(inFlightBar') = Len(inFlightBar) + 1
        /\ inFlightBar'[Len(inFlightBar) + 1] = w
        /\ \A k \in 1..Len(inFlightBar) : inFlightBar'[k] = inFlightBar[k]
    BY <1>2, <2>1, Grown DEF w
  <2>3. Len(inFlightBar) \in Nat /\ Len(onWireBar) \in Nat
    BY <2>1
  <2>4. Line!LineTypeOK'
    BY <2>1, <2>2 DEF Line!LineTypeOK, LineRecord, WireRecord
  <2>5. /\ Len(inFlightBar') = Len(inFlightBar) + 1
        /\ \A k \in 1..(Len(inFlightBar) + 1) :
             \/ k \in 1..Len(inFlightBar) /\ inFlightBar'[k].id = inFlightBar[k].id
             \/ k = Len(inFlightBar) + 1 /\ inFlightBar'[k].id = acked + 1
    BY <2>1, <2>2, <2>3
  <2>6. acked \in Nat /\ acked' = acked + 1 /\ UNCHANGED <<faulted, onWireBar>>
    BY <2>1
  <2>7. Line!NothingLost'
    <3> SUFFICES ASSUME ~faulted
                 PROVE  /\ acked + 1 = Len(onWireBar) + (Len(inFlightBar) + 1)
                        /\ \A k \in 1..Len(onWireBar) :
                             onWireBar[k].id = k /\ onWireBar[k].sent = onWireBar[k].len
                        /\ \A k \in 1..(Len(inFlightBar) + 1) :
                             inFlightBar'[k].id = Len(onWireBar) + k
      BY <2>5, <2>6 DEF Line!NothingLost
    <3>1. /\ acked = Len(onWireBar) + Len(inFlightBar)
          /\ \A k \in 1..Len(onWireBar) :
               onWireBar[k].id = k /\ onWireBar[k].sent = onWireBar[k].len
          /\ \A k \in 1..Len(inFlightBar) : inFlightBar[k].id = Len(onWireBar) + k
      BY DEF Line!NothingLost
    <3>2. acked + 1 = Len(onWireBar) + (Len(inFlightBar) + 1)
      BY <2>3, <3>1
    <3>3. \A k \in 1..(Len(inFlightBar) + 1) : inFlightBar'[k].id = Len(onWireBar) + k
      BY <2>3, <2>5, <3>1, <3>2
    <3> QED
      BY <3>1, <3>2, <3>3
  <2>8. Line!WritesInOrder'
    <3>1. /\ \A j, k \in 1..Len(onWireBar) : j < k => onWireBar[j].id < onWireBar[k].id
          /\ \A j, k \in 1..Len(inFlightBar) : j < k => inFlightBar[j].id < inFlightBar[k].id
          /\ \A j \in 1..Len(onWireBar), k \in 1..Len(inFlightBar) :
               onWireBar[j].id < inFlightBar[k].id
      BY DEF Line!WritesInOrder
    <3>2. /\ \A k \in 1..Len(onWireBar) : onWireBar[k].id \in 1..acked
          /\ \A k \in 1..Len(inFlightBar) : inFlightBar[k].id \in 1..acked
      BY DEF Line!WritesInOrder
    <3>3. \A j, k \in 1..(Len(inFlightBar) + 1) :
            j < k => inFlightBar'[j].id < inFlightBar'[k].id
      BY <2>3, <2>5, <2>6, <3>1, <3>2
    <3>4. \A j \in 1..Len(onWireBar), k \in 1..(Len(inFlightBar) + 1) :
            onWireBar[j].id < inFlightBar'[k].id
      BY <2>3, <2>5, <2>6, <3>1, <3>2
    <3>5. \A k \in 1..(Len(inFlightBar) + 1) : inFlightBar'[k].id \in 1..(acked + 1)
      BY <2>3, <2>5, <2>6, <3>2
    <3>6. \A k \in 1..Len(onWireBar) : onWireBar[k].id \in 1..(acked + 1)
      BY <2>3, <2>6, <3>2
    <3> QED
      BY <2>5, <2>6, <3>1, <3>3, <3>4, <3>5, <3>6 DEF Line!WritesInOrder
  <2> QED
    BY <2>4, <2>7, <2>8
<1> QED
  BY <1>1, <1>2 DEF Line!Accept

\* The oldest write leaves, at least its beginning: those on their way come after it.
LEMMA OldestLeaves ==
  ASSUME Line!LineTypeOK, Line!NothingLost, Line!WritesInOrder, inFlightBar # <<>>,
         NEW n \in Nat, onWireBar' = Append(onWireBar, Line!Carried(Head(inFlightBar), n)),
         inFlightBar' = Tail(inFlightBar),
         UNCHANGED <<acked, comIn, answersBar, returnedBar>>,
         faulted' = TRUE \/ (n = Head(inFlightBar).len /\ faulted' = faulted)
  PROVE  (Line!LineTypeOK /\ Line!NothingLost /\ Line!WritesInOrder)'
<1> DEFINE h == Head(inFlightBar)
           w == Line!Carried(h, n)
<1>1. /\ UNCHANGED <<acked, comIn, answersBar, returnedBar>>
      /\ onWireBar' = Append(onWireBar, w) /\ inFlightBar' = Tail(inFlightBar)
      /\ acked \in Nat /\ faulted' \in BOOLEAN
      /\ inFlightBar \in Seq(LineRecord) /\ onWireBar \in Seq(WireRecord)
  BY DEF Line!LineTypeOK, LineRecord, WireRecord
<1>2. /\ h = inFlightBar[1] /\ h \in LineRecord /\ Len(inFlightBar) \in Nat \ {0}
      /\ inFlightBar' \in Seq(LineRecord) /\ Len(inFlightBar') = Len(inFlightBar) - 1
      /\ \A k \in 1..(Len(inFlightBar) - 1) : inFlightBar'[k] = inFlightBar[k + 1]
  BY <1>1, HeadGone
<1>c. w \in WireRecord /\ w.id = inFlightBar[1].id /\ w.len = h.len /\ w.sent = n
  BY <1>2 DEF Line!Carried, LineRecord, WireRecord
<1>f. ~faulted' => ~faulted /\ w.sent = w.len
  BY <1>c
<1> HIDE DEF h, w
<1>3. /\ onWireBar' \in Seq(WireRecord) /\ Len(onWireBar') = Len(onWireBar) + 1
      /\ onWireBar'[Len(onWireBar) + 1] = w
      /\ \A k \in 1..Len(onWireBar) : onWireBar'[k] = onWireBar[k]
  BY <1>1, <1>c, Grown
<1>4. Len(onWireBar) \in Nat
  BY <1>1
<1>5. Line!LineTypeOK'
  BY <1>1, <1>2, <1>3 DEF Line!LineTypeOK, LineRecord, WireRecord
<1>6. Line!NothingLost'
  <2> SUFFICES ASSUME ~faulted' PROVE Line!NothingLost'
    BY DEF Line!NothingLost
  <2>1. /\ acked = Len(onWireBar) + Len(inFlightBar)
        /\ \A k \in 1..Len(onWireBar) :
             onWireBar[k].id = k /\ onWireBar[k].sent = onWireBar[k].len
        /\ \A k \in 1..Len(inFlightBar) : inFlightBar[k].id = Len(onWireBar) + k
    BY <1>f DEF Line!NothingLost
  <2>2. w.sent = w.len /\ w.id = Len(onWireBar) + 1
    <3>1. 1 \in 1..Len(inFlightBar)
      BY <1>2
    <3>2. inFlightBar[1].id = Len(onWireBar) + 1
      BY <2>1, <3>1
    <3> QED
      BY <1>c, <1>f, <3>2
  <2>3. \A k \in 1..Len(onWireBar') :
          onWireBar'[k].id = k /\ onWireBar'[k].sent = onWireBar'[k].len
    <3> TAKE k \in 1..Len(onWireBar')
    <3>1. k \in 1..Len(onWireBar) \/ k = Len(onWireBar) + 1
      BY <1>3, <1>4
    <3>2. CASE k \in 1..Len(onWireBar)
      BY <1>3, <2>1, <3>2
    <3>3. CASE k = Len(onWireBar) + 1
      BY <1>3, <2>2, <3>3
    <3> QED
      BY <3>1, <3>2, <3>3
  <2>4. \A k \in 1..Len(inFlightBar') : inFlightBar'[k].id = Len(onWireBar') + k
    BY <1>2, <1>3, <1>4, <2>1
  <2>5. acked' = Len(onWireBar') + Len(inFlightBar')
    BY <1>1, <1>2, <1>3, <1>4, <2>1
  <2> QED
    BY <2>3, <2>4, <2>5 DEF Line!NothingLost
<1>7. Line!WritesInOrder'
  <2>1. /\ \A j, k \in 1..Len(onWireBar) : j < k => onWireBar[j].id < onWireBar[k].id
        /\ \A j, k \in 1..Len(inFlightBar) : j < k => inFlightBar[j].id < inFlightBar[k].id
        /\ \A j \in 1..Len(onWireBar), k \in 1..Len(inFlightBar) :
             onWireBar[j].id < inFlightBar[k].id
        /\ \A k \in 1..Len(onWireBar) : onWireBar[k].id \in 1..acked
        /\ \A k \in 1..Len(inFlightBar) : inFlightBar[k].id \in 1..acked
    BY DEF Line!WritesInOrder
  <2>2. \A k \in 1..(Len(onWireBar) + 1) :
          \/ k \in 1..Len(onWireBar) /\ onWireBar'[k].id = onWireBar[k].id
          \/ k = Len(onWireBar) + 1 /\ onWireBar'[k].id = inFlightBar[1].id
    BY <1>2, <1>3, <1>4, <1>c
  <2>3. \A k \in 1..(Len(inFlightBar) - 1) :
          k + 1 \in 1..Len(inFlightBar) /\ inFlightBar'[k].id = inFlightBar[k + 1].id
    BY <1>2
  <2>4. 1 \in 1..Len(inFlightBar) /\ Len(inFlightBar) \in Nat
    BY <1>2
  <2>5. \A j, k \in 1..(Len(onWireBar) + 1) : j < k => onWireBar'[j].id < onWireBar'[k].id
    BY <1>4, <2>1, <2>2, <2>4
  <2>6. \A j, k \in 1..(Len(inFlightBar) - 1) :
          j < k => inFlightBar'[j].id < inFlightBar'[k].id
    BY <2>1, <2>3, <2>4
  <2>7. \A j \in 1..(Len(onWireBar) + 1), k \in 1..(Len(inFlightBar) - 1) :
          onWireBar'[j].id < inFlightBar'[k].id
    BY <1>4, <2>1, <2>2, <2>3, <2>4
  <2>8. \A k \in 1..(Len(onWireBar) + 1) : onWireBar'[k].id \in 1..acked
    BY <1>4, <2>1, <2>2, <2>4
  <2>9. \A k \in 1..(Len(inFlightBar) - 1) : inFlightBar'[k].id \in 1..acked
    BY <2>1, <2>3, <2>4
  <2> QED
    BY <1>1, <1>2, <1>3, <2>5, <2>6, <2>7, <2>8, <2>9 DEF Line!WritesInOrder
<1> QED
  BY <1>5, <1>6, <1>7

LEMMA EmitKeeps ==
  ASSUME Line!LineTypeOK, Line!NothingLost, Line!WritesInOrder, Line!Emit \/ Line!EmitPart
  PROVE  (Line!LineTypeOK /\ Line!NothingLost /\ Line!WritesInOrder)'
<1>1. /\ inFlightBar # <<>> /\ inFlightBar' = Tail(inFlightBar)
      /\ UNCHANGED <<acked, comIn, answersBar, returnedBar>>
  BY DEF Line!Emit, Line!EmitPart, Line!inbound
<1>2. Head(inFlightBar).len \in Nat
  <2>1. inFlightBar \in Seq(LineRecord)
    BY DEF Line!LineTypeOK, LineRecord
  <2>2. Head(inFlightBar) \in LineRecord
    BY <1>1, <2>1, HeadGone
  <2> QED
    BY <2>2, DriverAssumption DEF LineRecord
<1>3. CASE Line!Emit
  <2>1. /\ onWireBar' = Append(onWireBar, Line!Carried(Head(inFlightBar), Head(inFlightBar).len))
        /\ faulted' = faulted
    BY <1>3 DEF Line!Emit
  <2> QED
    BY <1>1, <1>2, <2>1, OldestLeaves
<1>4. CASE Line!EmitPart
  <2>1. PICK n \in 1..(Head(inFlightBar).len - 1) :
          onWireBar' = Append(onWireBar, Line!Carried(Head(inFlightBar), n))
    BY <1>4 DEF Line!EmitPart
  <2>2. n \in Nat /\ faulted' = TRUE
    BY <1>2, <1>4 DEF Line!EmitPart
  <2> QED
    BY <1>1, <2>1, <2>2, OldestLeaves
<1> QED
  BY <1>3, <1>4

\* Blocks come in at one end and go out at the other.
LEMMA BlockSteps ==
  ASSUME Line!LineTypeOK, Line!BlocksInOrder,
         Line!Take \/ Line!GiveBack \/ Line!GiveNothing
  PROVE  (Line!LineTypeOK /\ Line!BlocksInOrder)'
<1> DEFINE Block == Nat \ {0}
<1>0. /\ comIn \in Nat /\ answersBar \in Seq(Block) /\ returnedBar \in Seq(Nat)
      /\ Len(answersBar) \in Nat /\ Len(returnedBar) \in Nat
      /\ UNCHANGED <<faulted, acked, inFlightBar, onWireBar>>
  BY DEF Line!LineTypeOK, Line!Take, Line!GiveBack, Line!GiveNothing, Line!outbound
<1>b. /\ \A j, k \in 1..Len(returnedBar) :
           j < k /\ returnedBar[k] # 0 => returnedBar[j] < returnedBar[k]
      /\ \A j, k \in 1..Len(answersBar) : j < k => answersBar[j] < answersBar[k]
      /\ \A j \in 1..Len(returnedBar), k \in 1..Len(answersBar) :
           returnedBar[j] < answersBar[k]
      /\ \A k \in 1..Len(returnedBar) : returnedBar[k] <= comIn
      /\ \A k \in 1..Len(answersBar) : answersBar[k] <= comIn
  BY DEF Line!BlocksInOrder
<1>t. /\ \A k \in 1..Len(returnedBar) : returnedBar[k] \in Nat
      /\ \A k \in 1..Len(answersBar) : answersBar[k] \in Nat \ {0}
  BY <1>0
<1>n. comIn \in Nat /\ Len(answersBar) \in Nat /\ Len(returnedBar) \in Nat
  BY <1>0
<1>1. CASE Line!Take
  <2>1. /\ comIn' = comIn + 1 /\ UNCHANGED returnedBar
        /\ answersBar' \in Seq(Block) /\ Len(answersBar') = Len(answersBar) + 1
        /\ answersBar'[Len(answersBar) + 1] = comIn + 1
        /\ \A k \in 1..Len(answersBar) : answersBar'[k] = answersBar[k]
    BY <1>0, <1>1, Grown DEF Line!Take
  <2>2. \A k \in 1..(Len(answersBar) + 1) :
          \/ k \in 1..Len(answersBar) /\ answersBar'[k] = answersBar[k]
          \/ k = Len(answersBar) + 1 /\ answersBar'[k] = comIn + 1
    BY <1>0, <2>1
  <2>3. \A j, k \in 1..(Len(answersBar) + 1) : j < k => answersBar'[j] < answersBar'[k]
    BY <1>n, <1>t, <1>b, <2>2
  <2>4. \A j \in 1..Len(returnedBar), k \in 1..(Len(answersBar) + 1) :
          returnedBar[j] < answersBar'[k]
    BY <1>n, <1>t, <1>b, <2>2
  <2>5. \A k \in 1..(Len(answersBar) + 1) : answersBar'[k] <= comIn + 1
    BY <1>n, <1>t, <1>b, <2>2
  <2>6. \A k \in 1..Len(returnedBar) : returnedBar[k] <= comIn + 1
    BY <1>n, <1>t, <1>b
  <2>7. Line!BlocksInOrder'
    BY <1>b, <2>1, <2>3, <2>4, <2>5, <2>6 DEF Line!BlocksInOrder
  <2> QED
    BY <1>0, <2>1, <2>7 DEF Line!LineTypeOK
<1>2. CASE Line!GiveBack
  <2> DEFINE b == Head(answersBar)
  <2>1. /\ b = answersBar[1] /\ b \in Block /\ Len(answersBar) \in Nat \ {0}
        /\ answersBar' \in Seq(Block) /\ Len(answersBar') = Len(answersBar) - 1
        /\ \A k \in 1..(Len(answersBar) - 1) : answersBar'[k] = answersBar[k + 1]
    BY <1>0, <1>2, HeadGone DEF Line!GiveBack
  <2>2. returnedBar' = Append(returnedBar, b) /\ UNCHANGED comIn
    BY <1>2 DEF Line!GiveBack
  <2> HIDE DEF b
  <2>3. /\ returnedBar' \in Seq(Nat) /\ Len(returnedBar') = Len(returnedBar) + 1
        /\ returnedBar'[Len(returnedBar) + 1] = b
        /\ \A k \in 1..Len(returnedBar) : returnedBar'[k] = returnedBar[k]
    BY <1>0, <2>1, <2>2, Grown
  <2>4. Line!LineTypeOK'
    BY <1>0, <2>1, <2>2, <2>3 DEF Line!LineTypeOK
  <2>5. \A k \in 1..(Len(returnedBar) + 1) :
          \/ k \in 1..Len(returnedBar) /\ returnedBar'[k] = returnedBar[k]
          \/ k = Len(returnedBar) + 1 /\ returnedBar'[k] = answersBar[1]
    BY <1>0, <2>1, <2>3
  <2>6. \A k \in 1..(Len(answersBar) - 1) :
          k + 1 \in 1..Len(answersBar) /\ answersBar'[k] = answersBar[k + 1]
    BY <2>1
  <2>7. 1 \in 1..Len(answersBar)
    BY <2>1
  <2>8. \A j, k \in 1..(Len(returnedBar) + 1) :
          j < k /\ returnedBar'[k] # 0 => returnedBar'[j] < returnedBar'[k]
    BY <1>n, <1>t, <1>b, <2>5, <2>7
  <2>9. \A j, k \in 1..(Len(answersBar) - 1) : j < k => answersBar'[j] < answersBar'[k]
    BY <1>n, <1>t, <1>b, <2>6, <2>7
  <2>10. \A j \in 1..(Len(returnedBar) + 1), k \in 1..(Len(answersBar) - 1) :
           returnedBar'[j] < answersBar'[k]
    BY <1>n, <1>t, <1>b, <2>5, <2>6, <2>7
  <2>11. /\ \A k \in 1..(Len(returnedBar) + 1) : returnedBar'[k] <= comIn
         /\ \A k \in 1..(Len(answersBar) - 1) : answersBar'[k] <= comIn
    <3>1. \A k \in 1..(Len(returnedBar) + 1) : returnedBar'[k] <= comIn
      BY <1>n, <1>t, <1>b, <2>5, <2>7
    <3>2. \A k \in 1..(Len(answersBar) - 1) : answersBar'[k] <= comIn
      BY <1>n, <1>t, <1>b, <2>6
    <3> QED
      BY <3>1, <3>2
  <2>12. Line!BlocksInOrder'
    BY <2>1, <2>2, <2>3, <2>8, <2>9, <2>10, <2>11 DEF Line!BlocksInOrder
  <2> QED
    BY <2>4, <2>12
<1>3. CASE Line!GiveNothing
  <2>1. returnedBar' = Append(returnedBar, 0) /\ UNCHANGED <<comIn, answersBar>>
    BY <1>3 DEF Line!GiveNothing
  <2>2. /\ returnedBar' \in Seq(Nat) /\ Len(returnedBar') = Len(returnedBar) + 1
        /\ returnedBar'[Len(returnedBar) + 1] = 0
        /\ \A k \in 1..Len(returnedBar) : returnedBar'[k] = returnedBar[k]
    BY <1>0, <2>1, Grown
  <2>3. \A k \in 1..(Len(returnedBar) + 1) :
          \/ k \in 1..Len(returnedBar) /\ returnedBar'[k] = returnedBar[k]
          \/ k = Len(returnedBar) + 1 /\ returnedBar'[k] = 0
    BY <1>0, <2>2
  <2>4. \A j, k \in 1..(Len(returnedBar) + 1) :
          j < k /\ returnedBar'[k] # 0 => returnedBar'[j] < returnedBar'[k]
    BY <1>n, <1>t, <1>b, <2>3
  <2>5. \A j \in 1..(Len(returnedBar) + 1), k \in 1..Len(answersBar) :
          returnedBar'[j] < answersBar[k]
    BY <1>n, <1>t, <1>b, <2>3
  <2>6. \A k \in 1..(Len(returnedBar) + 1) : returnedBar'[k] <= comIn
    BY <1>n, <1>t, <1>b, <2>3
  <2>7. Line!BlocksInOrder'
    BY <1>b, <2>1, <2>2, <2>4, <2>5, <2>6 DEF Line!BlocksInOrder
  <2> QED
    BY <1>0, <2>1, <2>2, <2>7 DEF Line!LineTypeOK
<1> QED
  BY <1>1, <1>2, <1>3

\* What is oldest goes: the rest stays in order.
LEMMA LoseKeeps ==
  ASSUME Line!LineTypeOK, Line!WritesInOrder, Line!BlocksInOrder, Line!Lose
  PROVE  (Line!LineTypeOK /\ Line!NothingLost /\ Line!WritesInOrder /\ Line!BlocksInOrder)'
<1> DEFINE Block == Nat \ {0}
<1>1. /\ faulted' = TRUE /\ UNCHANGED <<acked, onWireBar, comIn, returnedBar>>
      /\ acked \in Nat /\ comIn \in Nat
      /\ inFlightBar \in Seq(LineRecord) /\ onWireBar \in Seq(WireRecord)
      /\ answersBar \in Seq(Block) /\ returnedBar \in Seq(Nat)
  BY DEF Line!Lose, Line!LineTypeOK, LineRecord, WireRecord
<1>2. PICK k \in 0..Len(inFlightBar) : inFlightBar' = Line!WithoutOldest(inFlightBar, k)
  BY DEF Line!Lose
<1>3. PICK n \in 0..Len(answersBar) : answersBar' = Line!WithoutOldest(answersBar, n)
  BY DEF Line!Lose
<1>4. /\ inFlightBar' \in Seq(LineRecord)
      /\ \A i \in 1..Len(inFlightBar') :
           i + k \in 1..Len(inFlightBar) /\ inFlightBar'[i] = inFlightBar[i + k]
  <2> DEFINE left == Line!WithoutOldest(inFlightBar, k)
  <2>1. inFlightBar \in Seq(LineRecord)
    BY <1>1
  <2>2. /\ left \in Seq(LineRecord)
        /\ \A i \in 1..Len(left) :
             i + k \in 1..Len(inFlightBar) /\ left[i] = inFlightBar[i + k]
    BY <2>1, OldestLost, Zenon
  <2> HIDE DEF left
  <2> QED
    BY <1>2, <2>2 DEF left
<1>5. /\ answersBar' \in Seq(Block)
      /\ \A i \in 1..Len(answersBar') :
           i + n \in 1..Len(answersBar) /\ answersBar'[i] = answersBar[i + n]
  <2> DEFINE left == Line!WithoutOldest(answersBar, n)
  <2>1. answersBar \in Seq(Block)
    BY <1>1
  <2>2. /\ left \in Seq(Block)
        /\ \A i \in 1..Len(left) : i + n \in 1..Len(answersBar) /\ left[i] = answersBar[i + n]
    <3> HIDE DEF Block
    <3> QED
      BY <2>1, OldestLost, Zenon
  <2> HIDE DEF left
  <2> QED
    BY <1>3, <2>2 DEF left
<1>6. Len(inFlightBar') \in Nat /\ Len(answersBar') \in Nat /\ k \in Int /\ n \in Int
  BY <1>4, <1>5
<1>7. Line!LineTypeOK'
  BY <1>1, <1>4, <1>5 DEF Line!LineTypeOK, LineRecord, WireRecord
<1>8. Line!NothingLost'
  BY <1>1 DEF Line!NothingLost
<1>9. Line!WritesInOrder'
  <2>1. /\ \A i, j \in 1..Len(inFlightBar) : i < j => inFlightBar[i].id < inFlightBar[j].id
        /\ \A i \in 1..Len(onWireBar), j \in 1..Len(inFlightBar) :
             onWireBar[i].id < inFlightBar[j].id
        /\ \A i \in 1..Len(inFlightBar) : inFlightBar[i].id \in 1..acked
    BY DEF Line!WritesInOrder
  <2>2. \A i, j \in 1..Len(inFlightBar') : i < j => inFlightBar'[i].id < inFlightBar'[j].id
    <3> TAKE i, j \in 1..Len(inFlightBar')
    <3>1. /\ i + k \in 1..Len(inFlightBar) /\ inFlightBar'[i] = inFlightBar[i + k]
          /\ j + k \in 1..Len(inFlightBar) /\ inFlightBar'[j] = inFlightBar[j + k]
          /\ i < j => i + k < j + k
      BY <1>4, <1>6
    <3> QED
      BY <2>1, <3>1
  <2>3. \A i \in 1..Len(onWireBar), j \in 1..Len(inFlightBar') :
          onWireBar[i].id < inFlightBar'[j].id
    BY <1>4, <1>6, <2>1
  <2>4. \A i \in 1..Len(inFlightBar') : inFlightBar'[i].id \in 1..acked
    BY <1>4, <2>1
  <2> QED
    BY <1>1, <2>2, <2>3, <2>4 DEF Line!WritesInOrder
<1>10. Line!BlocksInOrder'
  <2>1. /\ \A i, j \in 1..Len(answersBar) : i < j => answersBar[i] < answersBar[j]
        /\ \A i \in 1..Len(returnedBar), j \in 1..Len(answersBar) :
             returnedBar[i] < answersBar[j]
        /\ \A i \in 1..Len(answersBar) : answersBar[i] <= comIn
    BY DEF Line!BlocksInOrder
  <2>2. \A i, j \in 1..Len(answersBar') : i < j => answersBar'[i] < answersBar'[j]
    BY <1>5, <1>6, <2>1
  <2>3. \A i \in 1..Len(returnedBar), j \in 1..Len(answersBar') :
          returnedBar[i] < answersBar'[j]
    BY <1>5, <1>6, <2>1
  <2>4. \A i \in 1..Len(answersBar') : answersBar'[i] <= comIn
    BY <1>5, <2>1
  <2> QED
    BY <1>1, <2>2, <2>3, <2>4 DEF Line!BlocksInOrder
<1> QED
  BY <1>7, <1>8, <1>9, <1>10

LineKeeps == Line!LineTypeOK /\ Line!NothingLost /\ Line!WritesInOrder /\ Line!BlocksInOrder

LEMMA LineStepKeeps == LineKeeps /\ LineStep => LineKeeps'
<1> SUFFICES ASSUME LineKeeps, LineStep PROVE LineKeeps'
  OBVIOUS
<1>0. Line!LineTypeOK /\ Line!NothingLost /\ Line!WritesInOrder /\ Line!BlocksInOrder
  BY DEF LineKeeps
<1>1. CASE Line!Accept
  <2>1. UNCHANGED <<comIn, answersBar, returnedBar>>
    BY <1>1 DEF Line!Accept, Line!inbound
  <2>2. Line!BlocksInOrder'
    BY <1>0, <2>1 DEF Line!BlocksInOrder
  <2> QED
    BY <1>0, <1>1, <2>2, AcceptKeeps DEF LineKeeps
<1>2. CASE Line!Emit \/ Line!EmitPart
  <2>1. UNCHANGED <<comIn, answersBar, returnedBar>>
    BY <1>2 DEF Line!Emit, Line!EmitPart, Line!inbound
  <2>2. Line!BlocksInOrder'
    BY <1>0, <2>1 DEF Line!BlocksInOrder
  <2> QED
    BY <1>0, <1>2, <2>2, EmitKeeps DEF LineKeeps
<1>3. CASE Line!Take \/ Line!GiveBack \/ Line!GiveNothing
  <2>1. UNCHANGED <<faulted, acked, inFlightBar, onWireBar>>
    BY <1>3 DEF Line!Take, Line!GiveBack, Line!GiveNothing, Line!outbound
  <2>2. (Line!NothingLost /\ Line!WritesInOrder)'
    BY <1>0, <2>1 DEF Line!NothingLost, Line!WritesInOrder
  <2> QED
    BY <1>0, <1>3, <2>2, BlockSteps DEF LineKeeps
<1>4. CASE Line!Lose
  BY <1>0, <1>4, LoseKeeps DEF LineKeeps
<1>5. CASE UNCHANGED <<Line!outbound, Line!inbound>>
  BY <1>0, <1>5 DEF Line!outbound, Line!inbound, LineKeeps, Line!LineTypeOK,
     Line!NothingLost, Line!WritesInOrder, Line!BlocksInOrder
<1> QED
  BY <1>1, <1>2, <1>3, <1>4, <1>5 DEF LineStep, Line!LineNext

\* What an application may rely on, for any number of applications, requests, starts
\* and deaths of the service: while nothing has failed, every acknowledged write is on
\* the port or on its way there, in the order of the acknowledgements; whatever fails,
\* no write is sent twice or after a later one, and no block is given to two readers
\* or after a later one.
THEOREM AckedWritesSurvive ==
  ASSUME EnvChunks = Chunk, ShortWrites
  PROVE  BridgeSpec => [](Line!NothingLost /\ Line!WritesInOrder /\ Line!BlocksInOrder)
<1>1. Line!LineInit => LineKeeps
  BY LineInitKeeps DEF LineKeeps
<1>2. IsSerialLine => []LineKeeps
  BY <1>1, LineStepKeeps, PTL DEF IsSerialLine, Line!LineSpec, LineStep
<1>3. LineKeeps => Line!NothingLost /\ Line!WritesInOrder /\ Line!BlocksInOrder
  BY DEF LineKeeps
<1> QED
  BY <1>2, <1>3, BridgeImplementsLine, PTL
===============================================================================
