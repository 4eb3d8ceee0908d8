-------------------------------- MODULE Bridge --------------------------------
(***************************************************************************)
(* The whole path of server mode: applications on the virtual port, the    *)
(* driver, the pipe, SerialService and the real COM port.  The service is  *)
(* also a client of the driver: before it opens the pipe it opens the      *)
(* virtual port and sends it control requests (InitVirtualCom).            *)
(***************************************************************************)
EXTENDS DriverQueue, SerialService

CONSTANTS
  svc,            \* the service as a sender of requests to the driver
  ServiceFirst    \* applications use the port only once the service serves it

ASSUME BridgeAssumption ==
  /\ svc \in Issuers
  /\ MaxRequests[svc] >= 2 * MaxStarts
  /\ {"ioctl", "baud"} \subseteq Ops
  /\ 0 \in Lengths /\ ZeroChunk \in Tails
  /\ ServiceFirst \in BOOLEAN

CONSTANTS
  AppOps,         \* what applications ask of the driver
  AppLengths      \* for how many bytes

\* The queue does not take requests of length zero (CreateIoQueue, queue.cpp:198),
\* which the framework then completes itself.
ASSUME AppAssumption ==
  AppOps \subseteq Ops /\ AppLengths \subseteq Lengths /\ 0 \notin AppLengths

VARIABLE
  faulted         \* something has failed that may cost data; no action looks at it

bvars == <<pipeVars, driverVars, serviceVars>>
vars == <<bvars, faulted>>

BridgeInit == DriverInit /\ ServiceInit /\ faulted = FALSE

-----------------------------------------------------------------------------
(* COMPortManager::InitVirtualCom                                          *)

\* CreateFile on the virtual port fails, or the port is lost after the first requests;
\* the service goes on without it.
VcomFails ==
  /\ "vcom" \in Faults
  /\ spc \in {"vcom", "vioctl"} /\ req[svc].st = "none"
  /\ spc' = "open"
  /\ UNCHANGED <<smRet, smReply, com, comLog, comIn, starts, pipeVars, driverVars>>

\* The control requests before SET_BAUD_RATE (PurgeComm, GetCommState), of
\* which one stands for all
SendControl ==
  /\ spc = "vcom"
  /\ spc' = "vioctl"
  /\ Issue(svc, "ioctl", 0, ZeroChunk)
  /\ UNCHANGED <<smRet, smReply, com, comLog, comIn, starts>>

\* Seeded fault: the next request is sent before the last one has completed.
SendBaudRate_NoWait ==
  /\ spc = "vioctl"
  /\ spc' = "vbaud"
  /\ req' = [req EXCEPT ![svc] = [st |-> "queued", op |-> "baud", len |-> 0,
                                  tail |-> ZeroChunk]]
  /\ issued' = [issued EXCEPT ![svc] = @ + 1]
  /\ UNCHANGED <<pipeVars, pipeOpen, fConnected, hPipe, smOut, lock, cb, acked,
                 readLog, smRet, smReply, com, comLog, comIn, starts>>

\* SetCommState
SendBaudRate ==
  /\ spc = "vioctl"
  /\ spc' = "vbaud"
  /\ Issue(svc, "baud", 0, ZeroChunk)
  /\ UNCHANGED <<smRet, smReply, com, comLog, comIn, starts>>

\* Seeded fault: main goes on without waiting for the request.
BaudRateSet_NoWait ==
  /\ spc = "vbaud"
  /\ spc' = "open"
  /\ UNCHANGED <<smRet, smReply, com, comLog, comIn, starts, pipeVars, driverVars>>

\* SetCommState has returned; main goes on to waitForMsg.
BaudRateSet ==
  /\ spc = "vbaud"
  /\ req[svc].st = "none"
  /\ spc' = "open"
  /\ UNCHANGED <<smRet, smReply, com, comLog, comIn, starts, pipeVars, driverVars>>

-----------------------------------------------------------------------------
InStartup == spc \in {"down", "vcom", "vioctl", "vbaud"}

AppRequest ==
  /\ ServiceFirst => ~InStartup
  /\ \E i \in Issuers \ {svc}, op \in AppOps, len \in AppLengths, tail \in Tails :
       /\ op # "write" \/ len <= PACKET_SIZE => tail = ZeroChunk
       /\ Issue(i, op, len, tail)
  /\ UNCHANGED serviceVars

\* A request of the dead process that is still queued is cancelled.
ServiceCrash ==
  /\ Crash
  /\ CancelQueued(svc)
  /\ UNCHANGED <<pipeOpen, fConnected, hPipe, smOut, lock, cb, issued, acked,
                 readLog>>

ServiceStep ==
  \/ (ServiceStart \/ ServiceLoop) /\ UNCHANGED driverVars
  \/ VcomFails \/ SendControl \/ SendBaudRate \/ BaudRateSet

\* The pipe could not be created, the real port did not take a whole write, or the
\* service died.
Fault ==
  \/ hPipe' = "invalid"
  \/ spc = "tx" /\ spc' = "read" /\ comLog' # Written(smRet.len)
  \/ spc \notin {"down", "exit"} /\ spc' = "down"

BridgeNext ==
  /\ \/ DriverStep /\ UNCHANGED serviceVars
     \/ AppRequest
     \/ ServiceStep
     \/ ServiceCrash
  /\ faulted' = (faulted \/ Fault)

BridgeSpec == BridgeInit /\ [][BridgeNext]_vars

(***************************************************************************)
(* Fairness.  Windows schedules the framework's threads and the service,   *)
(* the framework hands a free lock to some callback that waits for it, a   *)
(* read of the real port ends by its timeouts (SetTimeout), and someone    *)
(* starts the service.  Applications need never send a request, and the    *)
(* service need never die.                                                 *)
(***************************************************************************)
Fairness ==
  /\ \A t \in Threads : WF_bvars(Callbacks(t) /\ UNCHANGED serviceVars)
  /\ WF_bvars(ServiceStep)

FairSpec == BridgeSpec /\ Fairness

-----------------------------------------------------------------------------
(* The invariant that carries the driver's properties over to the bridge.  *)

\* The client end is unused until the service has got through its requests to the
\* driver: a dying service leaves an open pipe or a queued request, never both.
StartupPart ==
  /\ spc \in {"down", "vcom", "vioctl", "vbaud", "open"} => cli = "none"
  /\ req[svc].st = "queued" => spc \in {"vioctl", "vbaud"}

ClientInv == DriverInv /\ ServiceTypeOK /\ StartupPart

-----------------------------------------------------------------------------
(* Properties                                                              *)

\* The driver behaves next to SerialService as next to any client, so what
\* DriverQueue's properties say of it holds in the bridge too.
DriverBehaviour == DriverSpec

Readers == {t \in Threads : cb[t].pc = "rread"}

Requested == \E k \in 1..Len(toSvc) : toSvc[k].d = "RX"
Answering == spc \in {"rx", "reply"}
Answered == toDrv # <<>>

AtMostOneExchange ==
  /\ \A j, k \in 1..Len(toSvc) : toSvc[j].d = "RX" /\ toSvc[k].d = "RX" => j = k
  /\ Len(toDrv) <= 1
  /\ ~(Requested /\ Answering) /\ ~(Requested /\ Answered) /\ ~(Answering /\ Answered)
  /\ Requested \/ Answering \/ Answered => Readers # {}

NoReadForgotten ==
  Readers # {} /\ pipe = "connected" => Requested \/ Answering \/ Answered

\* Reads are answered one at a time: there is at most one read request or reply
\* between the driver and the service, and only for a callback that waits for
\* it.  A reply can thus never reach a read it was not made for, and the
\* requests and the replies never fall out of step, even when the service dies
\* and is started again in the middle of an exchange.  And OnRead, which waits
\* without a timeout and keeps everybody else out, waits in vain for nothing: as
\* long as its client is there, its request or the reply to it is under way.
OneExchange == AtMostOneExchange /\ NoReadForgotten

\* A reply on its way to the driver states no more bytes than the read that
\* waits for it has room for.
ReplyFits ==
  \A k \in 1..Len(toDrv), t \in Readers :
    toDrv[k].len <= req[cb[t].iss].len

\* What OnRead copies into an application's buffer fits in the buffer and is one
\* block that the real port delivered, all of it and under its own length: never
\* what an earlier reply left in the message, also when a read of the port failed.
ReadFits ==
  \A k \in 1..Len(readLog) :
    LET r == readLog[k] IN
    /\ r.got \in 0..r.asked
    /\ r.got > 0 => \E j \in 1..comIn : r.data = RxData(j, r.got)

\* What the real port has taken is each time the beginning of one accepted write, and
\* all of that write as long as nothing has failed.
ForwardedIntact ==
  \A k \in 1..Len(comLog) :
    LET b == comLog[k] IN
    /\ b.data = TxData(b.data[2], b.data[3])
    /\ b.len \in 1..b.data[3]
    /\ ~faulted => b.len = b.data[3]

-----------------------------------------------------------------------------
(* The inductive invariant, in named parts.                                *)

\* Chunks wait for an open client, and the service works for one only there.
WirePart ==
  /\ toSvc # <<>> => pipe = "connected"
  /\ Answering => cli = "open"

\* The read that waits has room for what is asked, found or answered for it.
ReplyPart ==
  \A t \in Readers :
    LET room == req[cb[t].iss].len IN
    /\ \A k \in 1..Len(toSvc) : toSvc[k].d = "RX" => toSvc[k].len <= room
    /\ spc = "rx" => smRet.len <= room
    /\ spc = "reply" => smReply.len <= room

\* A message of a write carries the bytes of one write, under its length.
Whole(c) == c.len <= PACKET_SIZE /\ c.data = TxData(c.data[2], c.len)

\* So it does wherever it is, and no write is longer than a packet.
DataPart ==
  /\ \A i \in Issuers : req[i].tail = ZeroChunk /\ req[i].len <= PACKET_SIZE
  /\ smOut.tail = ZeroChunk
  /\ \A t \in Threads : cb[t].pc = "wfile" =>
       smOut.d = "TX" /\ (smOut.len > 0 => Whole(smOut))
  /\ \A k \in 1..Len(toSvc) : toSvc[k].d = "TX" /\ toSvc[k].len > 0 => Whole(toSvc[k])
  /\ spc = "tx" /\ smRet.len > 0 => Whole(smRet)

\* A reply that is not empty carries one block read from the real port.
BlockRead(c) == c.len > 0 => \E j \in 1..comIn : c.data = RxData(j, c.len)

PortPart ==
  /\ \A k \in 1..Len(toDrv) : BlockRead(toDrv[k])
  /\ spc = "reply" => BlockRead(smReply)

\* The exchange, its lengths and its bytes, on top of what the driver keeps next to
\* any client.
BridgeInv ==
  /\ ClientInv
  /\ WirePart /\ OneExchange
  /\ ReplyPart /\ ReplyFits
  /\ DataPart /\ ForwardedIntact
  /\ PortPart /\ ReadFits

-----------------------------------------------------------------------------
(* What the serial line needs to know besides, in named parts.             *)

\* The pipe holds messages of two chunks, the first perhaps without its head: writes
\* that are not empty, and last perhaps a read request.
ShapePart ==
  \A k \in 1..Len(toSvc) :
    IF (Len(toSvc) - k) % 2 = 0
    THEN toSvc[k] = ZeroChunk
    ELSE IF toSvc[k].d = "RX" THEN k = Len(toSvc) - 1
                              ELSE toSvc[k].d = "TX" /\ toSvc[k].len > 0

\* No write is empty, and OnWrite serves writes.
WritePart ==
  /\ \A i \in Issuers :
       req[i].st # "none" /\ req[i].op = "write" => req[i].len \in Lengths \ {0}
  /\ \A t \in Threads : /\ cb[t].pc = "write" => req[cb[t].iss].op = "write"
                        /\ cb[t].pc = "wfile" => smOut.len \in Lengths \ {0}

\* The driver is without a pipe to use, or without a client at the end of it, only
\* while it opens one, or after a fault.
FaultPart ==
  /\ faulted \in BOOLEAN
  /\ hPipe = "invalid" \/ pipe = "clientGone" => faulted
  /\ pipeOpen /\ ~UsesPipe =>
       faulted \/ \E t \in Threads : cb[t].pc \in {"connect", "listen"}
  /\ \A t \in Threads : cb[t].pc = "write" => pipeOpen \/ faulted

\* The service keeps its end until it exits, which it does only on a broken pipe.
ServedPart ==
  /\ spc \in {"mode", "read", "tx", "rx", "reply", "exit"} => cli # "none"
  /\ spc = "exit" => cli = "broken"
  /\ pipe = "clientGone" => cli = "none"

\* A read request is the last message of the pipe, so what is left there while it is
\* answered is its second chunk at most.
LastPart == Answering \/ Answered => Len(toSvc) <= 1

\* What comes back is marked as a reply.
AnswerPart ==
  /\ \A k \in 1..Len(toDrv) : toDrv[k].d = "NONE"
  /\ spc = "reply" => smReply.d = "NONE"

LineInv ==
  /\ BridgeInv
  /\ ShapePart /\ LastPart /\ WritePart
  /\ FaultPart /\ ServedPart /\ AnswerPart

-----------------------------------------------------------------------------
\* Every control request is completed, whatever else the device is doing.
ControlCompletes ==
  \A i \in Issuers :
    (req[i].st # "none" /\ req[i].op = "ioctl") ~> (req[i].st = "none")

\* Every request an application sends is completed.
RequestsComplete ==
  \A i \in Issuers \ {svc} : (req[i].st # "none") ~> (req[i].st = "none")

\* Every write the driver has acknowledged reaches the real port.
AckedReachesPort ==
  \A i \in Issuers : \A n \in 1..MaxRequests[i] :
    (acked >= n) ~> (\E k \in 1..Len(comLog) : comLog[k].data[2] = n)

(***************************************************************************)
(* The refinement of SerialLine: a write is in flight from its             *)
(* acknowledgement until the service has dealt with it, a block from the   *)
(* read of the real port until a read request gets it.                     *)
(***************************************************************************)
WriteOf(c) == [id |-> c.data[2], len |-> c.len]

HeldByService == IF spc = "tx" /\ smRet.len > 0 THEN <<WriteOf(smRet)>> ELSE <<>>

HeldByDriver ==
  IF \E t \in Threads : cb[t].pc = "wfile" THEN <<WriteOf(smOut)>> ELSE <<>>

\* The writes in the first n messages of s.  A message is two chunks, and of the
\* first one the service may have read the head.
Heads(s, n) == [k \in 1..n |-> WriteOf(s[2 * k - 1 + (Len(s) % 2)])]

\* The last message may be a read request.
SentWrites ==
  Heads(toSvc, IF Requested THEN (Len(toSvc) \div 2) - 1 ELSE Len(toSvc) \div 2)

inFlightBar == HeldByService \o (SentWrites \o HeldByDriver)

LeftOf(b) == [id |-> b.data[2], len |-> b.data[3], sent |-> b.len]

onWireBar == [k \in 1..Len(comLog) |-> LeftOf(comLog[k])]

BlockOf(c) == IF c.len > 0 THEN <<c.data[2]>> ELSE <<>>

answersBar ==
  IF Answered THEN BlockOf(toDrv[1]) ELSE IF spc = "reply" THEN BlockOf(smReply) ELSE <<>>

returnedBar ==
  [k \in 1..Len(readLog) |-> IF readLog[k].got > 0 THEN readLog[k].data[2] ELSE 0]

Line == INSTANCE SerialLine
  WITH WriteSizes <- Lengths, faulty <- faulted,
       accepted <- acked, inFlight <- inFlightBar, onWire <- onWireBar,
       taken <- comIn, answers <- answersBar, returned <- returnedBar

\* The bridge is a serial line: lossless as long as the real port opens and
\* takes what is written, the pipe can be created and the service does not die,
\* also when the baud rate is set, the service started again or the driver's host
\* gone; after a fault it loses only the oldest of what is in flight, and the end
\* of a write that the port takes in part.
IsSerialLine == Line!LineSpec
=============================================================================
