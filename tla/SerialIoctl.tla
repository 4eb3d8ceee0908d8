----------------------------- MODULE SerialIoctl -----------------------------
(***************************************************************************)
(* The control requests of CMyQueue::OnDeviceIoControl: the registers of   *)
(* CMyDevice they set and read back, and the manual queue that holds the   *)
(* pending WAIT_ON_MASK request.                                           *)
(*                                                                         *)
(* A handler runs from its request to its end under the device lock, so    *)
(* each one is a step.  What SET_BAUD_RATE does to the pipe is in          *)
(* DriverQueue.  Memory that is missing and memory that is too short fail  *)
(* the same way: a request has usable memory or it has not.                *)
(***************************************************************************)
EXTENDS Integers, Sequences, FiniteSets

CONSTANTS
  Requests,      \* the requests, each sent once
  Values,        \* what registers are set to
  MAXULONG,      \* the value SET_TIMEOUTS refuses, in all three fields at once
  LineRequests   \* the records SET_LINE_CONTROL is sent, right or wrong

\* Codes of SERIAL_LINE_CONTROL, and how the line control register holds them
STOP_BIT_1 == 0
STOP_BITS_1_5 == 1
STOP_BITS_2 == 2
Parities == {0, 1, 2, 3, 4}      \* none, odd, even, mark, space
ParityField == [p \in Parities |-> IF p = 0 THEN 0 ELSE 2 * p - 1]
SERIAL_LCR_BREAK == 64

ValidDataMask == [w \in 5..8 |-> IF w = 5 THEN 31 ELSE IF w = 6 THEN 63
                                 ELSE IF w = 7 THEN 127 ELSE 255]

Line == [word : 5..8, stop : 0..2, parity : Parities]
Registers == {"baud", "modem", "fifo", "timeouts"}
Readable == Registers \ {"fifo"}      \* there is no GET_FIFO_CONTROL

ASSUME IoctlAssumption ==
  /\ {0, MAXULONG} \subseteq Values
  /\ LineRequests \subseteq [word : Nat, stop : Nat, parity : Nat]

VARIABLES
  reg,          \* m_BaudRate, m_MCR, m_FCR, m_Timeouts
  lcr,          \* m_LCR
  mask,         \* m_ValidDataMask
  waitQueue,    \* m_FxWaitMaskQueue
  status,       \* where each request is
  memory,       \* whether each waiting request has room for the event mask
  completions,  \* how often each request has been completed
  answer,       \* what the last request read, if it was one that reads
  asked         \* what the last SET of each kind was to leave; see Asked

ivars == <<reg, lcr, mask, waitQueue, status, memory, completions, answer, asked>>

NoAnswer == [of |-> "none", value |-> 0]

-----------------------------------------------------------------------------
(* The line control register: bits 0-1 word length, 2 stop, 3-5 parity,    *)
(* 6 break.                                                                *)

WordAccepted(c) == c.word \in 5..8
DataBits(c) == c.word - 5

\* A bug to try the properties on: one and a half stop bits with any word.
StopAccepted_AnyWord(c) == c.stop \in 0..2

StopAccepted(c) == \/ c.stop = STOP_BIT_1
                   \/ c.stop = STOP_BITS_1_5 /\ DataBits(c) = 0
                   \/ c.stop = STOP_BITS_2 /\ DataBits(c) # 0

LineAccepted(c) == WordAccepted(c) /\ StopAccepted(c) /\ c.parity \in Parities

BreakOf(l) == IF (l \div 64) % 2 = 1 THEN SERIAL_LCR_BREAK ELSE 0

\* A bug: the stop bits are taken over before they are checked.
Encode_StopUnchecked(c, mem) ==
  IF ~mem \/ ~WordAccepted(c) THEN 0
  ELSE IF ~StopAccepted(c) THEN DataBits(c) + 4
  ELSE DataBits(c) + (IF c.stop = STOP_BIT_1 THEN 0 ELSE 4)
       + (IF c.parity \in Parities THEN 8 * ParityField[c.parity] ELSE 0)

\* What is gathered up to the field that is refused is stored all the same.
Encode(c, mem) ==
  IF ~mem \/ ~WordAccepted(c) THEN 0
  ELSE IF ~StopAccepted(c) THEN DataBits(c)
  ELSE DataBits(c) + (IF c.stop = STOP_BIT_1 THEN 0 ELSE 4)
       + (IF c.parity \in Parities THEN 8 * ParityField[c.parity] ELSE 0)

\* A bug: the branch of eight bits is missing, the field keeps its zero.
DecodedWord_NoEight(l) == IF l % 4 = 3 THEN 0 ELSE (l % 4) + 5

DecodedWord(l) == (l % 4) + 5

Decode(l) ==
  [word |-> DecodedWord(l),
   stop |-> IF (l \div 4) % 2 = 0 THEN STOP_BIT_1
            ELSE IF DecodedWord(l) = 5 THEN STOP_BITS_1_5 ELSE STOP_BITS_2,
   parity |-> LET field == (l \div 8) % 8
              IN IF field \in {1, 3, 5, 7} THEN (field + 1) \div 2 ELSE 0]

\* The line a SET_LINE_CONTROL leaves, as an application sees it: what it asked for
\* when it is accepted; when it is refused, the fields before the first bad one, and
\* 5 bits, 1 stop bit and no parity for the others.
LineLeft(c, mem) ==
  LET wordTaken == mem /\ WordAccepted(c)
      stopTaken == wordTaken /\ StopAccepted(c)
  IN [word   |-> IF wordTaken THEN c.word ELSE 5,
      stop   |-> IF stopTaken THEN c.stop ELSE STOP_BIT_1,
      parity |-> IF stopTaken /\ c.parity \in Parities THEN c.parity ELSE 0]

\* The values of the last accepted SET of each register, the line the last
\* SET_LINE_CONTROL left, and the last word length that was taken, 0 for none
Asked == [reg : [Registers -> Values], line : Line, word : {0} \cup 5..8]

-----------------------------------------------------------------------------
IoctlInit ==
  /\ reg = [x \in Registers |-> 0]
  /\ lcr = 0 /\ mask = 0
  /\ waitQueue = <<>>
  /\ status = [r \in Requests |-> "unsent"]
  /\ memory = [r \in Requests |-> TRUE]
  /\ completions = [r \in Requests |-> 0]
  /\ answer = NoAnswer
  /\ asked = [reg |-> reg, line |-> [word |-> 5, stop |-> STOP_BIT_1, parity |-> 0],
              word |-> 0]

Unsent(r) == status[r] = "unsent"

Outcome(ok) == IF ok THEN "ok" ELSE "failed"

\* CompleteWithInformation at the end of the handler.
Complete(r, ok) ==
  /\ status' = [status EXCEPT ![r] = Outcome(ok)]
  /\ completions' = [completions EXCEPT ![r] = @ + 1]

\* SET_BAUD_RATE, SET_MODEM_CONTROL, SET_FIFO_CONTROL, SET_TIMEOUTS.
Accepts(x, v) == ~(x = "timeouts" /\ v = MAXULONG)

\* A bug: the modem control handler was copied and takes the FIFO's pointer.
Target_Copied(x) == IF x = "modem" THEN "fifo" ELSE x

\* The register whose address the handler copies to.
Target(x) == x

SetRegister(r, x, v, mem) ==
  /\ Unsent(r)
  /\ Complete(r, mem /\ Accepts(x, v))
  /\ IF mem /\ Accepts(x, v)
     THEN /\ reg' = [reg EXCEPT ![Target(x)] = v]
          /\ asked' = [asked EXCEPT !.reg[x] = v]
     ELSE UNCHANGED <<reg, asked>>
  /\ answer' = NoAnswer
  /\ UNCHANGED <<lcr, mask, waitQueue, memory>>

\* GET_BAUD_RATE, GET_MODEM_CONTROL, GET_TIMEOUTS.
GetRegister(r, x, mem) ==
  /\ Unsent(r)
  /\ Complete(r, mem)
  /\ answer' = IF mem THEN [of |-> x, value |-> reg[x]] ELSE NoAnswer
  /\ UNCHANGED <<reg, lcr, mask, waitQueue, memory, asked>>

(* SET_LINE_CONTROL.  The compare-and-swap succeeds at once: nobody else   *)
(* writes m_LCR while the lock is held.                                    *)
SetLineControl(r, c, mem) ==
  /\ Unsent(r)
  /\ mask' = IF mem /\ WordAccepted(c) THEN ValidDataMask[c.word] ELSE mask
  /\ lcr' = BreakOf(lcr) + Encode(c, mem)
  /\ Complete(r, mem /\ LineAccepted(c))
  /\ asked' = [asked EXCEPT !.line = LineLeft(c, mem),
                            !.word = IF mem /\ WordAccepted(c) THEN c.word ELSE @]
  /\ answer' = NoAnswer
  /\ UNCHANGED <<reg, waitQueue, memory>>

GetLineControl(r, mem) ==
  /\ Unsent(r)
  /\ Complete(r, mem)
  /\ answer' = IF mem THEN [of |-> "line", value |-> Decode(lcr)] ELSE NoAnswer
  /\ UNCHANGED <<reg, lcr, mask, waitQueue, memory, asked>>

-----------------------------------------------------------------------------
\* RetrieveNextRequest: the request it returns, and what it leaves behind.
Retrieved(r) == waitQueue # <<>> /\ r = Head(waitQueue)

\* A bug: the request is looked at, not taken out of the queue.
Remaining_Found == waitQueue

Remaining == IF waitQueue = <<>> THEN <<>> ELSE Tail(waitQueue)

\* A bug: break instead of return, so the handler's end completes r as well.
WaitCompletes_Break(r, q) == Retrieved(q) \/ q = r

\* The requests q that WAIT_ON_MASK request r completes: not itself.
WaitCompletes(r, q) == Retrieved(q)

\* WAIT_ON_MASK fails the request that waits and takes its place.
WaitOnMask(r, mem) ==
  /\ Unsent(r)
  /\ status' = [q \in Requests |-> IF q = r THEN "waiting"
                                   ELSE IF Retrieved(q) THEN "failed"
                                   ELSE status[q]]
  /\ completions' = [q \in Requests |-> IF WaitCompletes(r, q)
                                        THEN completions[q] + 1
                                        ELSE completions[q]]
  /\ waitQueue' = Append(Remaining, r)
  /\ memory' = [memory EXCEPT ![r] = mem]
  /\ answer' = NoAnswer
  /\ UNCHANGED <<reg, lcr, mask, asked>>

\* A bug: the waiting request is failed as in WAIT_ON_MASK.
Released_Failed(q) == "failed"

\* How the waiting request ends: CopyFromBuffer needs room for the event mask.
Released(q) == Outcome(memory[q])

\* SET_WAIT_MASK releases the request that waits and succeeds whatever happened.
SetWaitMask(r) ==
  /\ Unsent(r)
  /\ status' = [q \in Requests |-> IF q = r THEN "ok"
                                   ELSE IF Retrieved(q) THEN Released(q)
                                   ELSE status[q]]
  /\ completions' = [q \in Requests |-> IF q = r \/ Retrieved(q)
                                        THEN completions[q] + 1
                                        ELSE completions[q]]
  /\ waitQueue' = Remaining
  /\ answer' = NoAnswer
  /\ UNCHANGED <<reg, lcr, mask, memory, asked>>

\* The requests that only complete, and the default branch that refuses.
OtherRequest(r, known) ==
  /\ Unsent(r)
  /\ Complete(r, known)
  /\ answer' = NoAnswer
  /\ UNCHANGED <<reg, lcr, mask, waitQueue, memory, asked>>

\* The framework cancels a request of the manual queue when its application exits.
CancelWait(r) ==
  /\ \E i \in DOMAIN waitQueue :
       /\ waitQueue[i] = r
       /\ waitQueue' = SubSeq(waitQueue, 1, i - 1)
                       \o SubSeq(waitQueue, i + 1, Len(waitQueue))
  /\ status' = [status EXCEPT ![r] = "cancelled"]
  /\ completions' = [completions EXCEPT ![r] = @ + 1]
  /\ answer' = NoAnswer
  /\ UNCHANGED <<reg, lcr, mask, memory, asked>>

IoctlNext ==
  \E r \in Requests :
    \/ \E x \in Registers, v \in Values, mem \in BOOLEAN : SetRegister(r, x, v, mem)
    \/ \E x \in Readable, mem \in BOOLEAN : GetRegister(r, x, mem)
    \/ \E c \in LineRequests, mem \in BOOLEAN : SetLineControl(r, c, mem)
    \/ \E mem \in BOOLEAN : GetLineControl(r, mem)
    \/ \E mem \in BOOLEAN : WaitOnMask(r, mem)
    \/ SetWaitMask(r)
    \/ \E known \in BOOLEAN : OtherRequest(r, known)
    \/ CancelWait(r)

IoctlSpec == IoctlInit /\ [][IoctlNext]_ivars

-----------------------------------------------------------------------------
(* Properties.                                                             *)

Statuses == {"unsent", "waiting", "ok", "failed", "cancelled"}

(* Types, and what the registers can hold at all: the line control        *)
(* register has its seven bits and GET_LINE_CONTROL answers with a line    *)
(* that exists, refused requests or not.                                   *)
IoctlTypeOK ==
  /\ reg \in [Registers -> Values]
  /\ lcr \in 0..127
  /\ mask \in {0, 31, 63, 127, 255}
  /\ waitQueue \in Seq(Requests)
  /\ status \in [Requests -> Statuses]
  /\ memory \in [Requests -> BOOLEAN]
  /\ completions \in [Requests -> Nat]
  /\ answer \in [of : Readable, value : Values] \cup [of : {"line"}, value : Line]
               \cup {NoAnswer}
  /\ asked \in Asked

(* The packed register holds exactly the word length, stop bits and parity *)
(* that the last SET_LINE_CONTROL was to leave, although 1.5 and 2 stop    *)
(* bits share a bit: all three fields when it was accepted, those before   *)
(* the bad one when it was refused.  The valid data mask is that of the    *)
(* last word length that was taken, which after a refused length is not    *)
(* the one in the register.                                                *)
LineStored ==
  /\ Decode(lcr) = asked.line
  /\ mask = IF asked.word = 0 THEN 0 ELSE ValidDataMask[asked.word]

(* A request that reads a register gets what the last accepted SET of it   *)
(* stored, whatever other applications set or were refused; one that reads *)
(* the line gets what the last SET_LINE_CONTROL left, which is not what    *)
(* the last accepted one asked for when another was refused since.         *)
AnswersLastSet ==
  /\ answer.of \in Registers => answer.value = asked.reg[answer.of]
  /\ answer.of = "line" => answer.value = asked.line

(* The manual queue holds the requests that wait and no other, and at most *)
(* one of them (queue.cpp: "At most one pending wait-on-mask request").    *)
WaitersQueued ==
  /\ Len(waitQueue) <= 1
  /\ \A r \in Requests :
       status[r] = "waiting" <=> \E i \in DOMAIN waitQueue : waitQueue[i] = r

(* Every request is completed exactly once, by its own handler, by a later *)
(* request or by the framework, and not at all while it waits.             *)
CompletedOnce ==
  \A r \in Requests :
    completions[r] = IF status[r] \in {"unsent", "waiting"} THEN 0 ELSE 1

(* The inductive invariant: the properties, and that no register holds a    *)
(* value an accepted request did not give it.                              *)
IoctlInv ==
  /\ IoctlTypeOK
  /\ reg = asked.reg
  /\ LineStored
  /\ AnswersLastSet
  /\ WaitersQueued
  /\ CompletedOnce

(* A wait that has room for its answer fails only because another wait     *)
(* takes its place: SET_WAIT_MASK completes it with success.               *)
WaitFailsOnlyReplaced ==
  [][\A r \in Requests :
       status[r] = "waiting" /\ status'[r] = "failed" /\ memory[r]
         => waitQueue' # <<>> /\ Head(waitQueue') # r]_ivars
=============================================================================
