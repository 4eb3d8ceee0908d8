-------------------------- MODULE SerialIoctlProofs --------------------------
(***************************************************************************)
(* Theorems about SerialIoctl, for any requests and any register values.   *)
(***************************************************************************)
EXTENDS SerialIoctl, TLAPS, SequenceTheorems

USE DEF Registers, Readable, Line, Parities, Statuses, NoAnswer, STOP_BIT_1,
        STOP_BITS_1_5, STOP_BITS_2, SERIAL_LCR_BREAK

LineReq == [word : Nat, stop : Nat, parity : Nat]

(* The register never gains a bit above the parity field but the break bit *)
(* it had, whatever was refused on the way.                                *)
LEMMA EncodeInRange ==
  ASSUME NEW c \in LineReq, NEW mem \in BOOLEAN
  PROVE  Encode(c, mem) \in 0..63
<1>1. CASE ~mem \/ ~WordAccepted(c)
  BY <1>1 DEF Encode
<1>2. CASE mem /\ WordAccepted(c)
  <2>1. DataBits(c) \in 0..3
    BY <1>2 DEF WordAccepted, DataBits, LineReq
  <2>2. c.parity \in Parities => 8 * ParityField[c.parity] \in 0..56
    BY DEF ParityField, LineReq
  <2> QED
    BY <1>2, <2>1, <2>2 DEF Encode
<1> QED
  BY <1>1, <1>2

(* What a SET_LINE_CONTROL leaves is a line, and the one that was asked for *)
(* when it is accepted.                                                    *)
LEMMA LineLeftIsLine ==
  ASSUME NEW c \in LineReq, NEW mem \in BOOLEAN
  PROVE  /\ LineLeft(c, mem) \in Line
         /\ mem /\ LineAccepted(c) => LineLeft(c, mem) = c
<1>1. WordAccepted(c) => c.word \in 5..8
  BY DEF WordAccepted
<1>2. StopAccepted(c) => c.stop \in 0..2
  BY DEF StopAccepted
<1>3. LineLeft(c, mem) \in Line
  BY <1>1, <1>2 DEF LineLeft
<1>4. ASSUME mem, LineAccepted(c)
      PROVE  LineLeft(c, mem) = [word |-> c.word, stop |-> c.stop, parity |-> c.parity]
  BY <1>4 DEF LineLeft, LineAccepted
<1>5. c = [word |-> c.word, stop |-> c.stop, parity |-> c.parity]
  BY DEF LineReq
<1> QED
  BY <1>3, <1>4, <1>5

(* GET_LINE_CONTROL reads what SET_LINE_CONTROL was to leave, also when it *)
(* was refused, with the break bit set or not (queue.cpp, the two cases of *)
(* OnDeviceIoControl).                                                     *)
LEMMA LineRoundTrip ==
  ASSUME NEW c \in LineReq, NEW mem \in BOOLEAN, NEW b \in {0, SERIAL_LCR_BREAK}
  PROVE  Decode(b + Encode(c, mem)) = LineLeft(c, mem)
<1> DEFINE e == LineLeft(c, mem)
           d == e.word - 5
           s == IF e.stop = 0 THEN 0 ELSE 4
           f == IF e.parity = 0 THEN 0 ELSE 2 * e.parity - 1
           l == b + (d + s + 8 * f)
<1>1. e \in Line /\ e = [word |-> e.word, stop |-> e.stop, parity |-> e.parity]
  BY LineLeftIsLine
<1>2. d \in 0..3 /\ s \in {0, 4} /\ f \in {0, 1, 3, 5, 7}
  <2> HIDE DEF e
  <2> QED BY <1>1
<1>3. Encode(c, mem) = d + s + 8 * f
  <2>1. CASE ~mem \/ ~WordAccepted(c)
    BY <2>1 DEF Encode, LineLeft
  <2>2. CASE mem /\ WordAccepted(c) /\ ~StopAccepted(c)
    BY <2>2 DEF Encode, LineLeft, DataBits, WordAccepted
  <2>3. CASE mem /\ WordAccepted(c) /\ StopAccepted(c)
    <3>1. /\ d = DataBits(c) /\ DataBits(c) \in 0..3
          /\ s = IF c.stop = 0 THEN 0 ELSE 4
          /\ f = IF c.parity \in Parities THEN ParityField[c.parity] ELSE 0
      BY <2>3 DEF LineLeft, DataBits, WordAccepted, ParityField
    <3>2. Encode(c, mem) = DataBits(c) + (IF c.stop = 0 THEN 0 ELSE 4)
             + (IF c.parity \in Parities THEN 8 * ParityField[c.parity] ELSE 0)
      BY <2>3 DEF Encode
    <3> HIDE DEF d, s, f
    <3> QED BY <1>2, <3>1, <3>2
  <2> QED BY <2>1, <2>2, <2>3
<1> HIDE DEF e
<1>4. l % 4 = d
  BY <1>2
<1>5. (l \div 4) % 2 = s \div 4
  BY <1>2
<1>6. (l \div 8) % 8 = f
  BY <1>2
<1>7. DecodedWord(l) = e.word
  BY <1>1, <1>4 DEF DecodedWord
<1>8. (IF (l \div 4) % 2 = 0 THEN STOP_BIT_1
       ELSE IF DecodedWord(l) = 5 THEN STOP_BITS_1_5 ELSE STOP_BITS_2) = e.stop
  <2>1. e.stop = 0 \/ (e.stop = 1 /\ e.word = 5) \/ (e.stop = 2 /\ e.word # 5)
    BY <1>1 DEF e, LineLeft, StopAccepted, DataBits, WordAccepted
  <2> QED BY <1>1, <1>5, <1>7, <2>1
<1>9. (IF f \in {1, 3, 5, 7} THEN (f + 1) \div 2 ELSE 0) = e.parity
  BY <1>1
<1>10. Decode(l) = [word |-> e.word, stop |-> e.stop, parity |-> e.parity]
  <2> HIDE DEF l, f
  <2> QED BY <1>6, <1>7, <1>8, <1>9 DEF Decode
<1> QED
  BY <1>1, <1>3, <1>10 DEF e

(* Whatever the register holds, GET_LINE_CONTROL answers with a line.      *)
LEMMA DecodeIsLine ==
  ASSUME NEW l \in 0..127
  PROVE  Decode(l) \in Line
<1> DEFINE field == (l \div 8) % 8
<1>1. DecodedWord(l) \in 5..8
  BY DEF DecodedWord
<1>2. (IF field \in {1, 3, 5, 7} THEN (field + 1) \div 2 ELSE 0) \in Parities
  <2>1. field \in {1, 3, 5, 7} => (field + 1) \div 2 \in 1..4
    OBVIOUS
  <2> HIDE DEF field
  <2> QED BY <2>1
<1> DEFINE stop == IF (l \div 4) % 2 = 0 THEN STOP_BIT_1
                   ELSE IF DecodedWord(l) = 5 THEN STOP_BITS_1_5 ELSE STOP_BITS_2
           parity == IF field \in {1, 3, 5, 7} THEN (field + 1) \div 2 ELSE 0
<1>3. stop \in 0..2
  <2> HIDE DEF field
  <2> QED OBVIOUS
<1>4. Decode(l) = [word |-> DecodedWord(l), stop |-> stop, parity |-> parity]
  BY DEF Decode
<1> QED
  <2> HIDE DEF field, stop, parity
  <2>1. parity \in Parities
    BY <1>2 DEF parity
  <2> QED BY <1>1, <1>3, <1>4, <2>1

(* What the manual queue is after each use of it, when it held at most one *)
(* request.                                                                *)
LEMMA QueueAfter ==
  ASSUME NEW Q, NEW w \in Seq(Q), Len(w) <= 1
  PROVE  /\ w = <<>> \/ (w = <<Head(w)>> /\ Head(w) \in Q)
         /\ w # <<>> => Tail(w) = <<>>
         /\ \A i \in DOMAIN w :
              /\ i = 1 /\ w[i] = Head(w)
              /\ SubSeq(w, 1, i - 1) \o SubSeq(w, i + 1, Len(w)) = <<>>
<1>1. CASE w = <<>>
  BY <1>1
<1>2. CASE w # <<>>
  <2>1. Len(w) = 1 /\ w = <<w[1]>> /\ w[1] \in Q
    <3>1. Len(w) \in Nat /\ Len(w) # 0
      BY <1>2, EmptySeq
    <3>2. Len(w) = 1
      <4> DEFINE n == Len(w)
      <4>1. n \in Nat /\ n # 0 /\ n <= 1
        BY <3>1
      <4> HIDE DEF n
      <4>2. n = 1
        BY <4>1
      <4> QED BY <4>2 DEF n
    <3> QED BY <3>2
  <2>2. PICK q \in Q : w = <<q>>
    BY <2>1
  <2>3. Tail(<<q>>) = <<>> /\ Head(<<q>>) = q
    OBVIOUS
  <2>4. SubSeq(<<q>>, 1, 0) = <<>> /\ SubSeq(<<q>>, 2, 1) = <<>>
    OBVIOUS
  <2>5. <<>> \o <<>> = <<>>
    OBVIOUS
  <2>6. ASSUME NEW i \in DOMAIN w
        PROVE  i = 1 /\ w[i] = Head(w)
    BY <2>2, <2>3
  <2>7. ASSUME NEW i \in DOMAIN w
        PROVE  SubSeq(w, 1, i - 1) \o SubSeq(w, i + 1, Len(w)) = <<>>
    <3>1. i = 1 /\ Len(w) = 1
      BY <2>6, <2>7, <2>1
    <3>2. SubSeq(w, 1, i - 1) = <<>> /\ SubSeq(w, i + 1, Len(w)) = <<>>
      BY <3>1, <2>2, <2>4
    <3> QED BY <3>2, <2>5
  <2> QED BY <2>2, <2>3, <2>6, <2>7
<1> QED
  BY <1>1, <1>2

-----------------------------------------------------------------------------
(* The invariant is preserved, one lemma per kind of request.              *)

LEMMA IoctlInitInv == IoctlInit => IoctlInv
<1> SUFFICES ASSUME IoctlInit PROVE IoctlInv
  OBVIOUS
<1>1. 0 \in Values /\ Decode(0) \in Line
  BY DecodeIsLine, IoctlAssumption
<1>2. IoctlTypeOK
  <2>1. reg \in [Registers -> Values]
    BY <1>1 DEF IoctlInit
  <2>2. asked \in Asked
    BY <1>1, <2>1 DEF IoctlInit, Asked
  <2>3. /\ waitQueue \in Seq(Requests)
        /\ status \in [Requests -> Statuses]
        /\ memory \in [Requests -> BOOLEAN]
        /\ completions \in [Requests -> Nat]
    BY DEF IoctlInit
  <2>4. lcr \in 0..127
    BY DEF IoctlInit
  <2>6. mask \in {0, 31, 63, 127, 255}
    BY DEF IoctlInit
  <2>5. answer \in [of : Readable, value : Values] \cup [of : {"line"}, value : Line]
                  \cup {NoAnswer}
    BY DEF IoctlInit
  <2> HIDE DEF NoAnswer, Line, Registers, Readable, Parities, Statuses
  <2> QED
    BY <2>1, <2>2, <2>3, <2>4, <2>5, <2>6 DEF IoctlTypeOK
<1>3. reg = asked.reg /\ LineStored /\ AnswersLastSet
  <2>1. Decode(0) = [word |-> 5, stop |-> STOP_BIT_1, parity |-> 0]
    BY DEF Decode, DecodedWord
  <2> QED BY <2>1 DEF IoctlInit, LineStored, AnswersLastSet
<1>4. WaitersQueued
  BY DEF IoctlInit, WaitersQueued
<1>5. CompletedOnce
  BY DEF IoctlInit, CompletedOnce
<1> QED
  BY <1>2, <1>3, <1>4, <1>5 DEF IoctlInv

(* Completing a request that does not wait leaves the queue exact.         *)
LEMMA CompleteKeeps ==
  ASSUME IoctlInv, NEW r \in Requests, Unsent(r), NEW ok \in BOOLEAN,
         Complete(r, ok), UNCHANGED waitQueue
  PROVE  /\ status' \in [Requests -> Statuses]
         /\ completions' \in [Requests -> Nat]
         /\ WaitersQueued'
         /\ CompletedOnce'
<1> USE DEF IoctlInv
<1>1. status \in [Requests -> Statuses] /\ completions \in [Requests -> Nat]
  BY DEF IoctlTypeOK
<1>2. Outcome(ok) \in {"ok", "failed"}
  BY DEF Outcome
<1>3. status' \in [Requests -> Statuses] /\ completions' \in [Requests -> Nat]
  BY <1>1, <1>2 DEF Complete
<1>4. \A q \in Requests : status'[q] = IF q = r THEN Outcome(ok) ELSE status[q]
  BY <1>1 DEF Complete
<1>5. \A q \in Requests :
        completions'[q] = IF q = r THEN completions[q] + 1 ELSE completions[q]
  BY <1>1 DEF Complete
<1>6. WaitersQueued'
  BY <1>2, <1>4 DEF WaitersQueued, Unsent
<1>7. CompletedOnce'
  BY <1>2, <1>4, <1>5 DEF CompletedOnce, Unsent
<1> QED
  BY <1>3, <1>6, <1>7

LEMMA SetRegisterInv ==
  ASSUME IoctlInv, NEW r \in Requests, NEW x \in Registers, NEW v \in Values,
         NEW mem \in BOOLEAN, SetRegister(r, x, v, mem)
  PROVE  IoctlInv'
<1> USE DEF IoctlInv
<1>1. /\ status' \in [Requests -> Statuses]
      /\ completions' \in [Requests -> Nat]
      /\ WaitersQueued' /\ CompletedOnce'
  <2>1. (mem /\ Accepts(x, v)) \in BOOLEAN
    BY DEF Accepts
  <2> QED BY <2>1, CompleteKeeps DEF SetRegister
<1>2. /\ reg \in [Registers -> Values]
      /\ asked \in Asked
  BY DEF IoctlTypeOK
<1>3. /\ reg' \in [Registers -> Values]
      /\ asked' \in Asked
      /\ reg' = asked'.reg /\ asked'.line = asked.line /\ asked'.word = asked.word
  <2> USE DEF Asked
  <2>1. CASE UNCHANGED <<reg, asked>>
    BY <2>1, <1>2
  <2>2. CASE /\ reg' = [reg EXCEPT ![x] = v]
             /\ asked' = [asked EXCEPT !.reg[x] = v]
    BY <2>2, <1>2
  <2> QED BY <2>1, <2>2 DEF SetRegister, Target
<1>4. IoctlTypeOK'
  BY <1>1, <1>3 DEF IoctlTypeOK, SetRegister
<1>5. LineStored' /\ AnswersLastSet'
  BY <1>3 DEF LineStored, AnswersLastSet, SetRegister, Decode, DecodedWord
<1> QED
  BY <1>1, <1>3, <1>4, <1>5

LEMMA GetRegisterInv ==
  ASSUME IoctlInv, NEW r \in Requests, NEW x \in Readable,
         NEW mem \in BOOLEAN, GetRegister(r, x, mem)
  PROVE  IoctlInv'
<1> USE DEF IoctlInv
<1>1. /\ status' \in [Requests -> Statuses]
      /\ completions' \in [Requests -> Nat]
      /\ WaitersQueued' /\ CompletedOnce'
  BY CompleteKeeps DEF GetRegister
<1>2. reg \in [Registers -> Values]
  BY DEF IoctlTypeOK
<1>3. answer' = NoAnswer \/ answer' = [of |-> x, value |-> reg[x]]
  BY DEF GetRegister
<1>4. IoctlTypeOK'
  BY <1>1, <1>2, <1>3 DEF IoctlTypeOK, GetRegister
<1>5. LineStored'
  BY DEF LineStored, GetRegister, Decode, DecodedWord
<1>6. AnswersLastSet'
  BY <1>3 DEF AnswersLastSet, GetRegister
<1> QED
  BY <1>1, <1>4, <1>5, <1>6 DEF GetRegister

LEMMA GetLineInv ==
  ASSUME IoctlInv, NEW r \in Requests, NEW mem \in BOOLEAN,
         GetLineControl(r, mem)
  PROVE  IoctlInv'
<1> USE DEF IoctlInv
<1>1. /\ status' \in [Requests -> Statuses]
      /\ completions' \in [Requests -> Nat]
      /\ WaitersQueued' /\ CompletedOnce'
  BY CompleteKeeps DEF GetLineControl
<1>2. Decode(lcr) \in Line
  BY DecodeIsLine DEF IoctlTypeOK
<1>3. answer' = NoAnswer \/ answer' = [of |-> "line", value |-> Decode(lcr)]
  BY DEF GetLineControl
<1>4. IoctlTypeOK'
  BY <1>1, <1>2, <1>3 DEF IoctlTypeOK, GetLineControl
<1>5. LineStored'
  BY DEF LineStored, GetLineControl, Decode, DecodedWord
<1>6. AnswersLastSet'
  BY <1>3 DEF AnswersLastSet, GetLineControl, LineStored
<1> QED
  BY <1>1, <1>4, <1>5, <1>6 DEF GetLineControl

LEMMA OtherInv ==
  ASSUME IoctlInv, NEW r \in Requests, NEW known \in BOOLEAN,
         OtherRequest(r, known)
  PROVE  IoctlInv'
<1> USE DEF IoctlInv
<1>1. /\ status' \in [Requests -> Statuses]
      /\ completions' \in [Requests -> Nat]
      /\ WaitersQueued' /\ CompletedOnce'
  BY CompleteKeeps DEF OtherRequest
<1>2. IoctlTypeOK'
  BY <1>1 DEF IoctlTypeOK, OtherRequest
<1>3. LineStored' /\ AnswersLastSet'
  BY DEF LineStored, AnswersLastSet, OtherRequest, Decode, DecodedWord
<1> QED
  BY <1>1, <1>2, <1>3 DEF OtherRequest

LEMMA SetLineInv ==
  ASSUME IoctlInv, NEW r \in Requests, NEW c \in LineRequests,
         NEW mem \in BOOLEAN, SetLineControl(r, c, mem)
  PROVE  IoctlInv'
<1> USE DEF IoctlInv
<1> DEFINE ok == mem /\ LineAccepted(c)
<1>0. c \in LineReq /\ ok \in BOOLEAN
  BY IoctlAssumption DEF LineReq, LineAccepted
<1>1. /\ status' \in [Requests -> Statuses]
      /\ completions' \in [Requests -> Nat]
      /\ WaitersQueued' /\ CompletedOnce'
  <2> HIDE DEF ok
  <2> QED BY <1>0, CompleteKeeps DEF SetLineControl, ok
<1>2. BreakOf(lcr) \in {0, SERIAL_LCR_BREAK}
  BY DEF BreakOf
<1>3. lcr' = BreakOf(lcr) + Encode(c, mem) /\ lcr' \in 0..127
  <2>1. Encode(c, mem) \in 0..63
    BY <1>0, EncodeInRange
  <2> QED BY <1>2, <2>1 DEF SetLineControl
<1>4. mask' \in {0, 31, 63, 127, 255}
  <2>1. WordAccepted(c) => ValidDataMask[c.word] \in {31, 63, 127, 255}
    BY DEF WordAccepted, ValidDataMask
  <2> QED BY <2>1 DEF SetLineControl, IoctlTypeOK
<1> DEFINE w == IF mem /\ WordAccepted(c) THEN c.word ELSE asked.word
<1>5. asked' \in Asked /\ asked'.reg = asked.reg
      /\ asked'.line = LineLeft(c, mem) /\ asked'.word = w
  <2>1. asked \in Asked
    BY DEF IoctlTypeOK
  <2>2. LineLeft(c, mem) \in Line
    BY <1>0, LineLeftIsLine
  <2>3. w \in {0} \cup 5..8
    BY <2>1 DEF Asked, WordAccepted
  <2>4. asked' = [asked EXCEPT !.line = LineLeft(c, mem), !.word = w]
    BY DEF SetLineControl
  <2> HIDE DEF w
  <2> QED BY <2>1, <2>2, <2>3, <2>4 DEF Asked
<1>6. answer' = NoAnswer /\ UNCHANGED <<reg, waitQueue, memory>>
  BY DEF SetLineControl
<1>7. IoctlTypeOK'
  <2> HIDE DEF ok, w
  <2> QED BY <1>1, <1>3, <1>4, <1>5, <1>6 DEF IoctlTypeOK
<1>8. LineStored'
  <2>1. Decode(lcr') = LineLeft(c, mem)
    BY <1>0, <1>2, <1>3, LineRoundTrip
  <2>2. mask' = IF w = 0 THEN 0 ELSE ValidDataMask[w]
    <3>1. mask = IF asked.word = 0 THEN 0 ELSE ValidDataMask[asked.word]
      BY DEF LineStored
    <3>2. WordAccepted(c) => c.word # 0
      BY DEF WordAccepted
    <3> QED BY <3>1, <3>2 DEF SetLineControl
  <2> HIDE DEF w
  <2> QED BY <1>5, <2>1, <2>2 DEF LineStored, Decode, DecodedWord
<1>9. AnswersLastSet'
  BY <1>6 DEF AnswersLastSet
<1> QED
  BY <1>1, <1>5, <1>6, <1>7, <1>8, <1>9

(* What WAIT_ON_MASK and SET_WAIT_MASK leave alone.                        *)
LEMMA WaitMaskFrame ==
  ASSUME IoctlInv, UNCHANGED <<reg, lcr, mask, asked>>,
         answer' = NoAnswer,
         waitQueue' \in Seq(Requests),
         status' \in [Requests -> Statuses],
         memory' \in [Requests -> BOOLEAN],
         completions' \in [Requests -> Nat]
  PROVE  IoctlTypeOK' /\ reg' = asked'.reg /\ LineStored' /\ AnswersLastSet'
<1>1. IoctlTypeOK'
  BY DEF IoctlInv, IoctlTypeOK
<1>2. LineStored' /\ AnswersLastSet'
  BY DEF IoctlInv, LineStored, AnswersLastSet, Decode, DecodedWord
<1> QED
  BY <1>1, <1>2 DEF IoctlInv

(* The request RetrieveNextRequest returns is the one that waits.          *)
LEMMA RetrievedWaits ==
  ASSUME IoctlInv
  PROVE  \A q \in Requests : Retrieved(q) <=> status[q] = "waiting"
<1> USE DEF IoctlInv
<1>1. waitQueue \in Seq(Requests) /\ Len(waitQueue) <= 1
  BY DEF IoctlTypeOK, WaitersQueued
<1> SUFFICES ASSUME NEW q \in Requests
             PROVE  Retrieved(q) <=> status[q] = "waiting"
  OBVIOUS
<1>2. waitQueue = <<>> \/ waitQueue = <<Head(waitQueue)>>
  BY <1>1, QueueAfter
<1>3. CASE waitQueue = <<>>
  BY <1>3 DEF WaitersQueued, Retrieved
<1>4. CASE waitQueue = <<Head(waitQueue)>>
  <2>1. DOMAIN waitQueue = {1} /\ waitQueue[1] = Head(waitQueue) /\ waitQueue # <<>>
    BY <1>4
  <2> QED BY <2>1 DEF WaitersQueued, Retrieved
<1> QED
  BY <1>2, <1>3, <1>4

LEMMA WaitOnMaskInv ==
  ASSUME IoctlInv, NEW r \in Requests, NEW mem \in BOOLEAN, WaitOnMask(r, mem)
  PROVE  IoctlInv'
<1> USE DEF IoctlInv
<1>1. waitQueue \in Seq(Requests) /\ Len(waitQueue) <= 1
  BY DEF IoctlTypeOK, WaitersQueued
<1>2. Remaining = <<>>
  BY <1>1, QueueAfter DEF Remaining
<1>3. waitQueue' = <<r>>
  BY <1>2 DEF WaitOnMask
<1>4. \A q \in Requests : Retrieved(q) <=> status[q] = "waiting"
  BY RetrievedWaits
<1>5. status' \in [Requests -> Statuses] /\ completions' \in [Requests -> Nat]
  BY DEF WaitOnMask, WaitCompletes, IoctlTypeOK
<1>6. memory' \in [Requests -> BOOLEAN]
  BY DEF WaitOnMask, IoctlTypeOK
<1>7. IoctlTypeOK' /\ reg' = asked'.reg /\ LineStored' /\ AnswersLastSet'
  BY <1>3, <1>5, <1>6, WaitMaskFrame DEF WaitOnMask
<1>8. \A q \in Requests :
        status'[q] = IF q = r THEN "waiting"
                     ELSE IF status[q] = "waiting" THEN "failed" ELSE status[q]
  BY <1>4 DEF WaitOnMask
<1>9. \A q \in Requests :
        completions'[q] = IF status[q] = "waiting" THEN completions[q] + 1
                          ELSE completions[q]
  BY <1>4 DEF WaitOnMask, WaitCompletes
<1>10. WaitersQueued'
  BY <1>3, <1>8 DEF WaitersQueued
<1>11. CompletedOnce'
  BY <1>8, <1>9 DEF CompletedOnce, WaitOnMask, Unsent
<1> QED
  BY <1>7, <1>10, <1>11

LEMMA SetWaitMaskInv ==
  ASSUME IoctlInv, NEW r \in Requests, SetWaitMask(r)
  PROVE  IoctlInv'
<1> USE DEF IoctlInv
<1>1. waitQueue \in Seq(Requests) /\ Len(waitQueue) <= 1
  BY DEF IoctlTypeOK, WaitersQueued
<1>2. waitQueue' = <<>>
  BY <1>1, QueueAfter DEF Remaining, SetWaitMask
<1>3. \A q \in Requests : Retrieved(q) <=> status[q] = "waiting"
  BY RetrievedWaits
<1>4. \A q \in Requests : Released(q) \in {"ok", "failed"}
  BY DEF Released, Outcome
<1>5. status' \in [Requests -> Statuses] /\ completions' \in [Requests -> Nat]
  BY <1>4 DEF SetWaitMask, IoctlTypeOK
<1>6. memory' \in [Requests -> BOOLEAN]
  BY DEF SetWaitMask, IoctlTypeOK
<1>7. IoctlTypeOK' /\ reg' = asked'.reg /\ LineStored' /\ AnswersLastSet'
  BY <1>2, <1>5, <1>6, WaitMaskFrame, EmptySeq DEF SetWaitMask
<1>8. \A q \in Requests :
        status'[q] = IF q = r THEN "ok"
                     ELSE IF status[q] = "waiting" THEN Released(q) ELSE status[q]
  BY <1>3 DEF SetWaitMask
<1>9. \A q \in Requests :
        completions'[q] = IF q = r \/ status[q] = "waiting" THEN completions[q] + 1
                          ELSE completions[q]
  BY <1>3 DEF SetWaitMask
<1>10. WaitersQueued'
  BY <1>2, <1>4, <1>8 DEF WaitersQueued
<1>11. CompletedOnce'
  BY <1>4, <1>8, <1>9 DEF CompletedOnce, SetWaitMask, Unsent
<1> QED
  BY <1>7, <1>10, <1>11

LEMMA CancelWaitInv ==
  ASSUME IoctlInv, NEW r \in Requests, CancelWait(r)
  PROVE  IoctlInv'
<1> USE DEF IoctlInv
<1>1. waitQueue \in Seq(Requests) /\ Len(waitQueue) <= 1
  BY DEF IoctlTypeOK, WaitersQueued
<1>2. waitQueue' = <<>> /\ status[r] = "waiting" /\ Retrieved(r)
  <2>1. PICK i \in DOMAIN waitQueue :
          /\ waitQueue[i] = r
          /\ waitQueue' = SubSeq(waitQueue, 1, i - 1)
                           \o SubSeq(waitQueue, i + 1, Len(waitQueue))
    BY DEF CancelWait
  <2>2. waitQueue' = <<>> /\ r = Head(waitQueue)
    BY <1>1, <2>1, QueueAfter
  <2>3. waitQueue # <<>>
    BY <2>1
  <2> QED BY <2>2, <2>3, RetrievedWaits DEF Retrieved
<1>3. \A q \in Requests : status[q] = "waiting" => q = r
  BY <1>2, RetrievedWaits DEF Retrieved
<1>4. status' \in [Requests -> Statuses] /\ completions' \in [Requests -> Nat]
  BY DEF CancelWait, IoctlTypeOK
<1>5. IoctlTypeOK' /\ reg' = asked'.reg /\ LineStored' /\ AnswersLastSet'
  <2>1. memory' \in [Requests -> BOOLEAN]
    BY DEF CancelWait, IoctlTypeOK
  <2>2. waitQueue' \in Seq(Requests)
    BY <1>2, EmptySeq
  <2>3. UNCHANGED <<reg, lcr, mask, asked>> /\ answer' = NoAnswer
    BY DEF CancelWait
  <2> QED BY <1>4, <2>1, <2>2, <2>3, WaitMaskFrame
<1>6. \A q \in Requests :
        /\ status'[q] = IF q = r THEN "cancelled" ELSE status[q]
        /\ completions'[q] = IF q = r THEN completions[q] + 1 ELSE completions[q]
  BY DEF CancelWait, IoctlTypeOK
<1>7. WaitersQueued'
  BY <1>2, <1>3, <1>6 DEF WaitersQueued
<1>8. CompletedOnce'
  BY <1>2, <1>6 DEF CompletedOnce
<1> QED
  BY <1>5, <1>7, <1>8

-----------------------------------------------------------------------------
(* The inductive invariant holds of every behaviour.                       *)
THEOREM IoctlInvariant == IoctlSpec => []IoctlInv
<1>1. IoctlInit => IoctlInv
  BY IoctlInitInv
<1>2. IoctlInv /\ [IoctlNext]_ivars => IoctlInv'
  <2> SUFFICES ASSUME IoctlInv, [IoctlNext]_ivars PROVE IoctlInv'
    OBVIOUS
  <2>1. CASE IoctlNext
    <3>1. PICK r \in Requests :
            \/ \E x \in Registers, v \in Values, mem \in BOOLEAN : SetRegister(r, x, v, mem)
            \/ \E x \in Readable, mem \in BOOLEAN : GetRegister(r, x, mem)
            \/ \E c \in LineRequests, mem \in BOOLEAN : SetLineControl(r, c, mem)
            \/ \E mem \in BOOLEAN : GetLineControl(r, mem)
            \/ \E mem \in BOOLEAN : WaitOnMask(r, mem)
            \/ SetWaitMask(r)
            \/ \E known \in BOOLEAN : OtherRequest(r, known)
            \/ CancelWait(r)
      BY <2>1 DEF IoctlNext
    <3>2. CASE \E x \in Registers, v \in Values, mem \in BOOLEAN : SetRegister(r, x, v, mem)
      BY <3>2, SetRegisterInv
    <3>3. CASE \E x \in Readable, mem \in BOOLEAN : GetRegister(r, x, mem)
      BY <3>3, GetRegisterInv
    <3>4. CASE \E c \in LineRequests, mem \in BOOLEAN : SetLineControl(r, c, mem)
      BY <3>4, SetLineInv
    <3>5. CASE \E mem \in BOOLEAN : GetLineControl(r, mem)
      BY <3>5, GetLineInv
    <3>6. CASE \E mem \in BOOLEAN : WaitOnMask(r, mem)
      BY <3>6, WaitOnMaskInv
    <3>7. CASE SetWaitMask(r)
      BY <3>7, SetWaitMaskInv
    <3>8. CASE \E known \in BOOLEAN : OtherRequest(r, known)
      BY <3>8, OtherInv
    <3>9. CASE CancelWait(r)
      BY <3>9, CancelWaitInv
    <3> QED
      BY <3>1, <3>2, <3>3, <3>4, <3>5, <3>6, <3>7, <3>8, <3>9
  <2>2. CASE UNCHANGED ivars
    BY <2>2 DEF ivars, IoctlInv, IoctlTypeOK, LineStored, AnswersLastSet,
       WaitersQueued, CompletedOnce, Decode, DecodedWord
  <2> QED BY <2>1, <2>2
<1> QED
  BY <1>1, <1>2, PTL DEF IoctlSpec

(* The register decodes to what the last SET_LINE_CONTROL was to leave, for *)
(* every record it is sent, accepted or refused (OnDeviceIoControl).       *)
THEOREM LineIsStored == IoctlSpec => []LineStored
<1>1. IoctlInv => LineStored
  BY DEF IoctlInv
<1> QED
  BY <1>1, IoctlInvariant, PTL

(* A register is read back as it was last set, and the line as the last     *)
(* SET_LINE_CONTROL left it, also after one that was refused               *)
(* (OnDeviceIoControl).                                                    *)
THEOREM AnswersAreLastSet == IoctlSpec => []AnswersLastSet
<1>1. IoctlInv => AnswersLastSet
  BY DEF IoctlInv
<1> QED
  BY <1>1, IoctlInvariant, PTL

(* The manual queue holds the request that waits and no other.             *)
THEOREM WaitersAreQueued == IoctlSpec => []WaitersQueued
<1>1. IoctlInv => WaitersQueued
  BY DEF IoctlInv
<1> QED
  BY <1>1, IoctlInvariant, PTL

(* No request is completed twice, or while it waits.                       *)
THEOREM CompletedExactlyOnce == IoctlSpec => []CompletedOnce
<1>1. IoctlInv => CompletedOnce
  BY DEF IoctlInv
<1> QED
  BY <1>1, IoctlInvariant, PTL

\* Type correctness, whatever is requested: the line control register keeps to its
\* seven bits, also when a request is refused, and the mask to those of word lengths.
THEOREM IoctlTypeCorrect == IoctlSpec => []IoctlTypeOK
<1>1. IoctlInv => IoctlTypeOK
  BY DEF IoctlInv
<1> QED
  BY <1>1, IoctlInvariant, PTL

(* A wait fails only when another takes its place (queue.cpp, WAIT_ON_MASK *)
(* and SET_WAIT_MASK).                                                     *)
THEOREM WaitsFailOnlyReplaced == IoctlSpec => WaitFailsOnlyReplaced
<1> DEFINE P(r) == status[r] = "waiting" /\ status'[r] = "failed" /\ memory[r]
                     => waitQueue' # <<>> /\ Head(waitQueue') # r
<1>1. IoctlInv /\ [IoctlNext]_ivars => [\A r \in Requests : P(r)]_ivars
  <2> SUFFICES ASSUME IoctlInv, IoctlNext, NEW q \in Requests,
                      status[q] = "waiting", status'[q] = "failed", memory[q]
               PROVE  waitQueue' # <<>> /\ Head(waitQueue') # q
    BY DEF IoctlNext
  <2> USE DEF IoctlInv
  <2>0. status \in [Requests -> Statuses]
    BY DEF IoctlTypeOK
  <2>1. PICK r \in Requests :
          \/ \E ok \in BOOLEAN : Unsent(r) /\ Complete(r, ok)
          \/ \E mem \in BOOLEAN : WaitOnMask(r, mem)
          \/ SetWaitMask(r)
          \/ CancelWait(r)
    <3>1. \A x, v : \A mem \in BOOLEAN : (mem /\ Accepts(x, v)) \in BOOLEAN
      BY DEF Accepts
    <3>2. \A c : \A mem \in BOOLEAN : (mem /\ LineAccepted(c)) \in BOOLEAN
      BY DEF LineAccepted
    <3> QED
      BY <3>1, <3>2 DEF IoctlNext, SetRegister, GetRegister, SetLineControl,
         GetLineControl, OtherRequest
  <2>2. ~(Unsent(r) /\ \E ok \in BOOLEAN : Complete(r, ok))
    <3> SUFFICES ASSUME Unsent(r), NEW ok \in BOOLEAN, Complete(r, ok) PROVE FALSE
      OBVIOUS
    <3>1. q # r
      BY DEF Unsent
    <3>2. status'[q] = status[q]
      BY <2>0, <3>1 DEF Complete
    <3> QED BY <3>2
  <2>3. ~CancelWait(r)
    <3> SUFFICES ASSUME CancelWait(r) PROVE FALSE
      OBVIOUS
    <3>1. status'[q] = IF q = r THEN "cancelled" ELSE status[q]
      BY <2>0 DEF CancelWait
    <3> QED BY <3>1
  <2>4. ~SetWaitMask(r)
    BY DEF SetWaitMask, Released, Outcome
  <2>5. PICK mem \in BOOLEAN : WaitOnMask(r, mem)
    BY <2>1, <2>2, <2>3, <2>4
  <2>6. waitQueue \in Seq(Requests) /\ Len(waitQueue) <= 1
    BY DEF IoctlTypeOK, WaitersQueued
  <2>7. waitQueue' = <<r>>
    <3>1. Remaining = <<>>
      BY <2>6, QueueAfter DEF Remaining
    <3> QED BY <2>5, <3>1 DEF WaitOnMask
  <2>8. Head(<<r>>) = r /\ <<r>> # <<>> /\ r # q
    BY <2>5 DEF WaitOnMask
  <2> QED BY <2>7, <2>8
<1> QED
  BY <1>1, IoctlInvariant, PTL DEF IoctlSpec, WaitFailsOnlyReplaced
=============================================================================
