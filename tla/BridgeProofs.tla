----------------------------- MODULE BridgeProofs -----------------------------
(***************************************************************************)
(* SerialService is one of the pipe clients that DriverQueue allows, so    *)
(* what is proved of the driver next to any client holds in the bridge.    *)
(* Of the bridge itself: reads are answered one at a time and with no more *)
(* than was asked, and writes arrive whole.                                *)
(***************************************************************************)
EXTENDS Bridge, DriverQueueProofs

LEMMA ClientInitInv == BridgeInit => ClientInv
<1> SUFFICES ASSUME BridgeInit PROVE ClientInv
  OBVIOUS
<1>1. NoMessage \in Chunk
  BY DEF NoMessage, Chunk, Direction, Data, Zero
<1>2. ServiceTypeOK
  BY <1>1, EmptySeq DEF BridgeInit, ServiceInit, ServiceTypeOK, ServicePcs
<1>3. StartupPart
  BY BridgeAssumption
  DEF BridgeInit, ServiceInit, DriverInit, PipeInit, StartupPart, NoRequest
<1> QED
  BY <1>2, <1>3, InitInv DEF BridgeInit, ClientInv

-----------------------------------------------------------------------------
(* Every step of the bridge is a step of the driver next to some client.    *)

\* A step of the service that leaves the driver's own variables alone is a step of
\* a pipe client, or no step of the driver's world at all.
LEMMA ServiceIsClient ==
  ASSUME EnvChunks = Chunk, ServiceTypeOK, ServiceStart \/ ServiceLoop,
         UNCHANGED driverVars
  PROVE  [DriverNext]_dvars
<1>1. CASE UNCHANGED pipeVars
  BY <1>1 DEF dvars
<1>2. CASE ClientOpen \/ ClientClose \/ ClientRead
  BY <1>2 DEF PipeClient, DriverNext
<1>3. CASE ClientWrite(smReply)
  BY <1>3 DEF PipeClient, DriverNext, ServiceTypeOK
<1> QED
  BY <1>1, <1>2, <1>3
  DEF ServiceStart, ServiceLoop, OpenPipe, SetMode, ReadPipe, ForwardToCom,
      ReadFromCom, Reply, Exit

\* The requests the service sends the driver are requests it may get.
LEMMA ServiceRequests ==
  ASSUME SendControl \/ SendBaudRate
  PROVE  RequestArrives
<1>1. /\ svc \in Issuers /\ "ioctl" \in Ops /\ "baud" \in Ops
      /\ 0 \in Lengths /\ ZeroChunk \in Tails
  BY BridgeAssumption
<1> QED
  BY <1>1 DEF SendControl, SendBaudRate, RequestArrives

\* The death of the service closes its end of the pipe or cancels its request.
LEMMA CrashStep ==
  ASSUME ClientInv, ServiceCrash
  PROVE  [DriverNext]_dvars
<1> USE DEF ServiceCrash, Crash
<1>1. svc \in Issuers
  BY BridgeAssumption
<1>2. CASE req[svc].st = "queued"
  <2>1. UNCHANGED pipeVars
    BY <1>2 DEF ClientInv, StartupPart
  <2>2. RequestCancelled
    BY <1>1, <1>2, <2>1 DEF RequestCancelled
  <2> QED
    BY <2>2 DEF DriverNext
<1>3. CASE req[svc].st # "queued"
  <2>1. UNCHANGED req
    BY <1>1, <1>3 DEF CancelQueued, ClientInv, DriverInv, DriverTypeOK
  <2>2. UNCHANGED driverVars
    BY <2>1 DEF driverVars
  <2>3. UNCHANGED pipeVars \/ ClientClose
    OBVIOUS
  <2> QED
    BY <2>2, <2>3 DEF PipeClient, DriverNext, dvars
<1> QED
  BY <1>2, <1>3

LEMMA BridgeStep ==
  ASSUME EnvChunks = Chunk, ClientInv, [BridgeNext]_vars
  PROVE  [DriverNext]_dvars
<1>1. CASE UNCHANGED vars
  BY <1>1 DEF vars, bvars, dvars
<1>2. CASE DriverStep
  BY <1>2 DEF DriverNext
<1>3. CASE AppRequest
  <2>1. RequestArrives
    BY <1>3, AppAssumption DEF AppRequest, RequestArrives
  <2> QED
    BY <2>1 DEF DriverNext
<1>4. CASE ServiceStep
  <2>1. CASE (ServiceStart \/ ServiceLoop) /\ UNCHANGED driverVars
    BY <2>1, ServiceIsClient DEF ClientInv
  <2>2. CASE VcomFails \/ BaudRateSet
    BY <2>2 DEF VcomFails, BaudRateSet, dvars
  <2>3. CASE SendControl \/ SendBaudRate
    BY <2>3, ServiceRequests DEF DriverNext
  <2> QED
    BY <1>4, <2>1, <2>2, <2>3 DEF ServiceStep
<1>5. CASE ServiceCrash
  BY <1>5, CrashStep
<1> QED
  BY <1>1, <1>2, <1>3, <1>4, <1>5 DEF BridgeNext

-----------------------------------------------------------------------------
(* The invariant of the driver and its client.                              *)

\* What the service reads from the pipe is a chunk.
LEMMA HeadIsChunk ==
  ASSUME ClientInv, toSvc # <<>>
  PROVE  Head(toSvc) \in Chunk /\ Head(toSvc).d \in {"TX", "RX", "NONE"}
<1>1. toSvc \in Seq(Chunk)
  BY DEF ClientInv, DriverInv, DriverTypeOK, PipeTypeOK
<1>2. Head(toSvc) \in Chunk
  BY <1>1, HeadTailProperties
<1>3. \A c \in Chunk : c.d \in {"TX", "RX", "NONE"}
  BY DEF Chunk, Direction
<1> QED
  BY <1>2, <1>3

\* OpenRealCOM leaves hComm open or closed.
LEMMA ComIsOpenOrNot ==
  ASSUME com \in BOOLEAN, NEW c \in ComAfterOpen
  PROVE  c \in BOOLEAN
BY DEF ComAfterOpen

\* The service keeps its variables in their types.
LEMMA ServiceTypes ==
  ASSUME ClientInv, [BridgeNext]_vars
  PROVE  ServiceTypeOK'
<1> USE DEF ClientInv, ServiceTypeOK
<1>1. CASE UNCHANGED serviceVars
  BY <1>1 DEF serviceVars
<1>2. CASE ServiceStart
  <2>1. NoMessage \in Chunk
    BY DEF NoMessage, Chunk, Direction, Data, Zero
  <2>2. com' \in BOOLEAN
    BY <1>2, ComIsOpenOrNot DEF ServiceStart
  <2>3. starts' \in Nat
    BY <1>2 DEF ServiceStart
  <2> QED
    BY <1>2, <2>1, <2>2, <2>3 DEF ServiceStart, ServicePcs
<1>3. CASE OpenPipe \/ SetMode \/ Reply \/ Exit \/ VcomFails \/ SendControl
             \/ SendBaudRate \/ BaudRateSet \/ Crash
  BY <1>3
  DEF OpenPipe, SetMode, Reply, Exit, VcomFails, SendControl, SendBaudRate,
      BaudRateSet, Crash, ServicePcs
<1>4. CASE ReadPipe
  <2>1. toSvc # <<>> => Head(toSvc) \in Chunk
    BY HeadIsChunk
  <2>2. smRet' \in Chunk
    BY <1>4, <2>1 DEF ReadPipe, ClientRead
  <2>3. spc' \in ServicePcs
    <3>1. CASE ClientRead
      <4>1. Head(toSvc).d \in {"TX", "RX", "NONE"}
        BY <3>1, HeadIsChunk DEF ClientRead
      <4> QED
        BY <1>4, <4>1 DEF ReadPipe, ServicePcs
    <3>2. CASE spc' = "exit"
      BY <3>2 DEF ServicePcs
    <3> QED
      BY <1>4, <3>1, <3>2 DEF ReadPipe
  <2> QED
    BY <1>4, <2>2, <2>3 DEF ReadPipe
<1>5. CASE ForwardToCom
  <2>1. PICK n \in BytesTaken(com') : comLog' = Written(n)
    BY <1>5 DEF ForwardToCom
  <2>2. comLog' \in Seq([data : Data, len : Int])
    <3> DEFINE b == [data |-> IF n <= PACKET_SIZE THEN smRet.data ELSE Junk, len |-> n]
    <3>1. n \in Int
      BY <2>1 DEF BytesTaken, Chunk
    <3>2. b \in [data : Data, len : Int]
      BY <3>1 DEF Chunk, Data, Junk
    <3>3. comLog' = comLog \/ comLog' = Append(comLog, b)
      BY <2>1 DEF Written
    <3> HIDE DEF b
    <3>4. Append(comLog, b) \in Seq([data : Data, len : Int])
      BY <3>2, AppendProperties
    <3> QED
      BY <3>3, <3>4
  <2>3. com' \in BOOLEAN
    BY <1>5, ComIsOpenOrNot DEF ForwardToCom
  <2> QED
    BY <1>5, <2>2, <2>3 DEF ForwardToCom, ServicePcs
<1>6. CASE ReadFromCom
  <2>1. ASSUME NEW n \in BlockSizes,
               comIn' = IF n > 0 THEN comIn + 1 ELSE comIn,
               smReply' = [d |-> "NONE", len |-> n,
                           data |-> IF n > 0 THEN RxData(comIn + 1, n) ELSE Zero]
        PROVE  comIn' \in Nat /\ smReply' \in Chunk
    <3>1. n \in Nat
      BY ServiceAssumption
    <3>2. RxData(comIn + 1, n) \in Data /\ Zero \in Data
      BY <3>1 DEF RxData, Zero, Data
    <3>3. comIn' \in Nat
      BY <2>1
    <3>4. smReply'.data \in Data
      BY <2>1, <3>2
    <3>5. smReply' \in Chunk
      BY <2>1, <3>1, <3>4 DEF Chunk, Direction
    <3> QED
      BY <3>3, <3>5
  <2>2. ASSUME smReply' = [smReply EXCEPT !.d = "NONE", !.len = -1], UNCHANGED comIn
        PROVE  comIn' \in Nat /\ smReply' \in Chunk
    <3>1. -1 \in Int /\ "NONE" \in Direction
      BY DEF Direction
    <3>2. smReply' \in Chunk
      BY <2>2, <3>1 DEF Chunk
    <3> QED
      BY <2>2, <3>2
  <2> QED
    BY <1>6, <2>1, <2>2 DEF ReadFromCom, ServicePcs
<1> QED
  BY <1>1, <1>2, <1>3, <1>4, <1>5, <1>6
  DEF BridgeNext, AppRequest, ServiceStep, ServiceLoop, ServiceCrash, vars, bvars,
      serviceVars

\* The order of the service's startup is kept.
LEMMA StartupOrder ==
  ASSUME ClientInv, [BridgeNext]_vars
  PROVE  StartupPart'
<1>0. svc \in Issuers /\ req \in [Issuers -> Request]
  BY BridgeAssumption DEF ClientInv, DriverInv, DriverTypeOK
<1> USE DEF ClientInv, StartupPart
<1>1. CASE UNCHANGED vars
  BY <1>1 DEF vars, bvars, pipeVars, driverVars, serviceVars
<1>2. CASE DriverStep /\ UNCHANGED serviceVars
  <2> PICK t \in Threads : Callbacks(t)
    BY <1>2 DEF DriverStep
  <2>1. cli = "none" => cli' = "none"
    BY DEF Callbacks, Dispatch, CreatePipe, CreatePipeFails, WaitForClient,
       ClientConnected, ConnectFails, WriteBytes, SendWrite, StartRead,
       SendReadRequest, ReadReply, ReadNothing, HostDies, ClosePipes, OtherIoctl,
       ServerCreate, ServerDestroy, ServerWriteOK, ServerReadOK, pipeVars
  <2>2. req'[svc].st = "queued" => req[svc].st = "queued"
    <3>1. ASSUME NEW i \in Issuers, Dispatch(t, i)
          PROVE  req'[svc].st = "queued" => req[svc].st = "queued"
      BY <1>0, <3>1 DEF Dispatch, Request
    <3>2. ASSUME cb[t].pc # "idle", Complete(cb[t].iss)
          PROVE  req'[svc].st = "queued" => req[svc].st = "queued"
      BY <1>0, <3>2 DEF Complete, NoRequest
    <3>3. ASSUME HostDies(t) PROVE req'[svc].st = "none"
      BY <1>0, <3>3 DEF HostDies, NoRequest
    <3> QED
      BY <3>1, <3>2, <3>3
      DEF Callbacks, CreatePipe, CreatePipeFails, WaitForClient,
       ClientConnected, ConnectFails, WriteBytes, SendWrite, StartRead,
       SendReadRequest, ReadReply, ReadNothing, ClosePipes, OtherIoctl
  <2> QED
    BY <1>2, <2>1, <2>2 DEF serviceVars
<1>3. CASE AppRequest
  <2>1. UNCHANGED <<cli, spc>> /\ req'[svc] = req[svc]
    BY <1>0, <1>3 DEF AppRequest, Issue, serviceVars, pipeVars
  <2> QED
    BY <2>1
<1>4. CASE ServiceCrash
  <2>1. cli' = "none" /\ req'[svc].st # "queued"
    BY <1>0, <1>4
    DEF ServiceCrash, Crash, ClientClose, CancelQueued, NoRequest, pipeVars
  <2> QED
    BY <2>1
<1>5. CASE ServiceStep
  <2>1. CASE ServiceStart \/ OpenPipe \/ SetMode \/ ReadPipe \/ ForwardToCom
               \/ ReadFromCom \/ Reply \/ Exit
    <3>1. CASE UNCHANGED driverVars
      <4>1. UNCHANGED req
        BY <3>1 DEF driverVars
      <4>2. CASE ServiceStart
        BY <4>1, <4>2 DEF ServiceStart, pipeVars
      <4>3. CASE OpenPipe \/ Exit
        BY <4>1, <4>3 DEF OpenPipe, Exit, ClientClose
      <4>4. CASE SetMode \/ ForwardToCom \/ ReadFromCom
        BY <4>1, <4>4 DEF SetMode, ForwardToCom, ReadFromCom, pipeVars
      <4>5. CASE ReadPipe
        <5>1. spc = "read" /\ spc' \in {"tx", "rx", "read", "exit"}
          <6>1. toSvc # <<>> => Head(toSvc).d \in {"TX", "RX", "NONE"}
            BY HeadIsChunk
          <6> QED
            BY <4>5, <6>1 DEF ReadPipe, ClientRead
        <5> QED
          BY <4>1, <5>1
      <4>6. CASE Reply
        BY <4>1, <4>6 DEF Reply
      <4> QED
        BY <2>1, <4>2, <4>3, <4>4, <4>5, <4>6
    <3> QED
      BY <1>5, <2>1, <3>1
      DEF ServiceStep, VcomFails, SendControl, SendBaudRate, BaudRateSet,
          ServiceStart, OpenPipe, SetMode, ReadPipe, ForwardToCom,
          ReadFromCom, Reply, Exit
  <2>2. CASE VcomFails \/ BaudRateSet
    BY <2>2 DEF VcomFails, BaudRateSet, pipeVars, driverVars
  <2>3. CASE SendControl \/ SendBaudRate
    BY <2>3 DEF SendControl, SendBaudRate, Issue, pipeVars
  <2> QED
    BY <1>5, <2>1, <2>2, <2>3 DEF ServiceStep, ServiceLoop
<1> QED
  BY <1>1, <1>2, <1>3, <1>4, <1>5 DEF BridgeNext

LEMMA ClientNextInv ==
  ASSUME EnvChunks = Chunk, ClientInv, [BridgeNext]_vars
  PROVE  ClientInv'
<1>1. DriverInv'
  BY BridgeStep, NextInv DEF ClientInv
<1> QED
  BY <1>1, ServiceTypes, StartupOrder DEF ClientInv

\* In the bridge the driver behaves as it does next to any pipe client.
THEOREM BridgeImplementsDriver ==
  ASSUME EnvChunks = Chunk PROVE BridgeSpec => DriverBehaviour
<1>1. BridgeInit => ClientInv /\ DriverInit
  BY ClientInitInv DEF BridgeInit
<1>2. ClientInv /\ [BridgeNext]_vars => ClientInv' /\ [DriverNext]_dvars
  BY ClientNextInv, BridgeStep
<1> QED
  BY <1>1, <1>2, PTL DEF BridgeSpec, DriverBehaviour, DriverSpec

\* The driver's safety properties therefore hold in the bridge, with the service
\* starting, answering and dying at any time.
THEOREM BridgeKeepsDriverSafe ==
  ASSUME EnvChunks = Chunk
  PROVE  BridgeSpec => [](HandleLive /\ NoPipeLeak /\ FlagsAgree)
<1>1. BridgeSpec => DriverSpec
  BY BridgeImplementsDriver DEF DriverBehaviour
<1> QED
  BY <1>1, HandleIsLive, PipesDoNotLeak, FlagsAreRight, PTL

-----------------------------------------------------------------------------
(* The exchange.  A callback that holds the lock is the only one, so no    *)
(* read waits while another callback runs.                                 *)

\* Where a callback goes on
LEMMA GotoPlace ==
  ASSUME cb \in [Threads -> Callback], NEW t \in Threads, NEW pc, Goto(t, pc)
  PROVE  cb'[t].pc = pc /\ cb'[t].iss = cb[t].iss
BY DEF Goto, Callback

LEMMA ReturnPlace ==
  ASSUME cb \in [Threads -> Callback], NEW t \in Threads, Return(t)
  PROVE  cb'[t].pc = "idle"
BY DEF Return, NoCallback

\* What only one thread at a time means for the callbacks
LEMMA OnlyCallback ==
  ASSUME ClientInv, NEW t \in Threads, Callbacks(t)
  PROVE  \A u \in Threads \ {t} : cb[u].pc = "idle" /\ cb'[u].pc = "idle"
<1>0. cb \in [Threads -> Callback] /\ DriverInv
  BY DEF ClientInv, DriverInv, DriverTypeOK
<1>1. CASE \E i \in Issuers : Dispatch(t, i)
  <2>1. \A u \in Threads : cb[u].pc = "idle"
    BY <1>0, <1>1, DriverAssumption DEF Dispatch, LockFree, DriverInv, LockPart
  <2> QED
    BY <1>0, <1>1, <2>1 DEF Dispatch
<1>2. CASE cb[t].pc # "idle"
  <2>1. \A u \in Threads \ {t} : cb[u].pc = "idle"
    BY <1>0, <1>2, OthersIdle
  <2>2. \A u \in Threads \ {t} : cb'[u].pc = "idle"
    BY <1>0, <1>2, <2>1 DEF Callbacks, Dispatch, LockFree, CreatePipe, CreatePipeFails,
       WaitForClient, ClientConnected, ConnectFails, WriteBytes, SendWrite, StartRead,
       SendReadRequest, ReadReply, ReadNothing, HostDies, ClosePipes, OtherIoctl, Goto,
       Return, NoCallback
  <2> QED
    BY <2>1, <2>2
<1> QED
  BY <1>1, <1>2
  DEF Callbacks, CreatePipe, CreatePipeFails, WaitForClient, ClientConnected, ConnectFails,
      WriteBytes, SendWrite, StartRead, SendReadRequest, ReadReply, HostDies, ClosePipes,
      OtherIoctl

\* A write's message, and a read request, in the pipe
WriteSent(t) ==
  /\ SendWrite(t)
  /\ ServerWriteOK([d |-> smOut.d, len |-> smOut.len, data |-> smOut.data], smOut.tail)
RequestSent(t) ==
  /\ SendReadRequest(t) /\ Goto(t, "rread") /\ UNCHANGED req
  /\ ServerWriteOK([d |-> "RX", len |-> req[cb[t].iss].len, data |-> Zero], ZeroChunk)

\* Every other step of the driver puts nothing into the pipe, and has no read waiting.
QuietStep ==
  /\ Readers = {} /\ Readers' = {}
  /\ toSvc' = <<>> \/ (toSvc' = toSvc /\ (pipe' = pipe \/ pipe # "connected"))
  /\ toDrv' \in {toDrv, <<>>}

LEMMA DriverStepKinds ==
  ASSUME ClientInv, NEW t \in Threads, Callbacks(t)
  PROVE  QuietStep \/ WriteSent(t) \/ RequestSent(t) \/ ReadReply(t) \/ HostDies(t)
<1>0. cb \in [Threads -> Callback] /\ req \in [Issuers -> Request]
  BY DEF ClientInv, DriverInv, DriverTypeOK
<1>1. \A u \in Threads \ {t} : cb[u].pc = "idle" /\ cb'[u].pc = "idle"
  BY OnlyCallback
<1>2. CASE CreatePipeFails(t) \/ ClientConnected(t)
  <2>1. cb[t].pc \in {"create", "connect", "listen"}
    BY <1>2 DEF CreatePipeFails, ClientConnected
  <2>2. req[cb[t].iss].op \in {"write", "read"}
    BY <2>1 DEF ClientInv, DriverInv, RequestPart
  <2>3. cb'[t].pc = req[cb[t].iss].op /\ UNCHANGED pipeVars
    BY <1>0, <1>2, GotoPlace DEF CreatePipeFails, ClientConnected
  <2> QED
    BY <1>1, <2>1, <2>2, <2>3 DEF QuietStep, Readers, pipeVars
<1>3. CASE \E i \in Issuers : Dispatch(t, i)
  <2>1. PICK i \in Issuers : Dispatch(t, i)
    BY <1>3
  <2>2. cb[t].pc = "idle" /\ UNCHANGED pipeVars
    BY <2>1 DEF Dispatch, LockFree
  <2>3. cb'[t].pc = EntryPc(req[i].op)
    BY <1>0, <2>1 DEF Dispatch
  <2>4. EntryPc(req[i].op) # "rread"
    <3>1. req[i].op \in {"write", "read", "baud", "ioctl"} /\ pipeOpen \in BOOLEAN
      BY <1>0, <2>1 DEF Request, AllOps, ClientInv, DriverInv, DriverTypeOK
    <3> QED
      BY <3>1 DEF EntryPc
  <2> QED
    BY <1>1, <2>2, <2>3, <2>4 DEF QuietStep, Readers, pipeVars
<1>4. CASE CreatePipe(t) \/ ConnectFails(t) \/ ClosePipes(t)
  <2>1. cb[t].pc # "rread" /\ (UNCHANGED pipeVars \/ (toSvc' = <<>> /\ toDrv' = <<>>))
    BY <1>4 DEF CreatePipe, ConnectFails, ClosePipes, ServerCreate, ServerDestroy
  <2>2. cb'[t].pc # "rread"
    <3>1. CASE CreatePipe(t) \/ ClosePipes(t)
      BY <1>0, <3>1, GotoPlace, ReturnPlace DEF CreatePipe, ClosePipes
    <3>2. CASE ConnectFails(t)
      <4>1. req[cb[t].iss].op \in {"write", "read"}
        BY <3>2 DEF ConnectFails, ClientInv, DriverInv, RequestPart
      <4> QED
        BY <1>0, <3>2, <4>1, GotoPlace DEF ConnectFails
    <3> QED
      BY <1>4, <3>1, <3>2
  <2> QED
    BY <1>1, <2>1, <2>2 DEF QuietStep, Readers, pipeVars
<1>5. CASE WaitForClient(t) \/ WriteBytes(t) \/ StartRead(t) \/ OtherIoctl(t)
  <2>1. cb[t].pc # "rread" /\ cb'[t].pc # "rread"
    BY <1>0, <1>5, GotoPlace, ReturnPlace
    DEF WaitForClient, WriteBytes, StartRead, OtherIoctl
  <2>2. UNCHANGED <<toSvc, toDrv>> /\ (pipe' = pipe \/ pipe # "connected")
    BY <1>5 DEF WaitForClient, WriteBytes, StartRead, OtherIoctl, pipeVars
  <2> QED
    BY <1>1, <2>1, <2>2 DEF QuietStep, Readers
<1>6. CASE SendWrite(t) \/ SendReadRequest(t)
  <2>1. CASE UNCHANGED pipeVars /\ Return(t)
    <3>1. cb[t].pc # "rread" /\ cb'[t].pc # "rread"
      BY <1>0, <1>6, <2>1, ReturnPlace DEF SendWrite, SendReadRequest
    <3> QED
      BY <1>1, <2>1, <3>1 DEF QuietStep, Readers, pipeVars
  <2> QED
    <3>1. SendWrite(t) => WriteSent(t) \/ (UNCHANGED pipeVars /\ Return(t))
      BY DEF SendWrite, WriteSent
    <3>2. SendReadRequest(t) => RequestSent(t) \/ (UNCHANGED pipeVars /\ Return(t))
      BY DEF SendReadRequest, ReadNothing, RequestSent
    <3> QED
      BY <1>6, <2>1, <3>1, <3>2
<1> QED
  BY <1>2, <1>3, <1>4, <1>5, <1>6 DEF Callbacks

\* The death of the host empties the pipe and leaves no read waiting.
LEMMA HostGone ==
  ASSUME ClientInv, NEW t \in Threads, HostDies(t)
  PROVE  /\ toSvc' = <<>> /\ toDrv' = <<>> /\ Len(<<>>) = 0
         /\ t \in Readers /\ toDrv # <<>> /\ Readers' = {} /\ UNCHANGED readLog
         /\ \A u \in Threads : cb'[u].pc = "idle"
         /\ smOut' = NewMessage
         /\ \A i \in Issuers : req'[i] = NoRequest
BY DEF HostDies, ServerDestroy, Readers, NoCallback

LEMMA PipeTypes ==
  ASSUME ClientInv
  PROVE  toSvc \in Seq(Chunk) /\ toDrv \in Seq(Chunk)
BY DEF ClientInv, DriverInv, DriverTypeOK, PipeTypeOK

\* What a message of the driver adds to the chunks
LEMMA PairAdded ==
  ASSUME NEW s \in Seq(Chunk), NEW a \in Chunk, NEW b \in Chunk
  PROVE  /\ Len(s \o <<a, b>>) = Len(s) + 2
         /\ \A k \in 1..(Len(s) + 2) :
              \/ k \in 1..Len(s) /\ (s \o <<a, b>>)[k] = s[k]
              \/ k = Len(s) + 1 /\ (s \o <<a, b>>)[k] = a
              \/ k = Len(s) + 2 /\ (s \o <<a, b>>)[k] = b
         /\ (s \o <<a, b>>)[Len(s) + 1] = a
OBVIOUS

\* What a read of the service leaves of them
LEMMA ChunkTaken ==
  ASSUME NEW s \in Seq(Chunk), s # <<>>
  PROVE  /\ Len(s) \in Nat /\ Len(s) >= 1 /\ Len(Tail(s)) = Len(s) - 1 /\ Head(s) = s[1]
         /\ \A k \in 1..Len(Tail(s)) : k + 1 \in 1..Len(s) /\ Tail(s)[k] = s[k + 1]
BY HeadTailProperties

LEMMA LastTaken ==
  ASSUME NEW s \in Seq(Chunk), s # <<>>, Len(s) <= 1
  PROVE  Tail(s) = <<>>
<1> DEFINE n == Len(s)
           rest == Tail(s)
<1>1. n \in Nat /\ n >= 1 /\ n <= 1 /\ Len(rest) = n - 1 /\ rest \in Seq(Chunk)
  BY ChunkTaken, HeadTailProperties, Zenon
<1> HIDE DEF n, rest
<1>2. Len(rest) = 0
  BY <1>1
<1>3. rest = <<>>
  BY <1>1, <1>2
<1> QED
  BY <1>3 DEF rest

LEMMA QuietExchange ==
  ASSUME WirePart, AtMostOneExchange, QuietStep, UNCHANGED spc
  PROVE  WirePart' /\ AtMostOneExchange'
<1>1. ~Requested /\ ~Answering /\ ~Answered
  BY DEF AtMostOneExchange, QuietStep
<1>2. Len(<<>>) = 0
  OBVIOUS
<1>3. ~Requested' /\ ~Answering' /\ ~Answered'
  BY <1>1, <1>2 DEF QuietStep, Requested, Answering, Answered
<1> QED
  BY <1>2, <1>3 DEF WirePart, AtMostOneExchange, QuietStep, Requested, Answered

\* The callbacks keep to one exchange.
LEMMA DriverExchange ==
  ASSUME ClientInv, WirePart, AtMostOneExchange, DataPart,
         NEW t \in Threads, Callbacks(t), UNCHANGED serviceVars
  PROVE  WirePart' /\ AtMostOneExchange'
<1>0. /\ UNCHANGED spc
      /\ cb \in [Threads -> Callback]
      /\ \A u \in Threads \ {t} : cb[u].pc = "idle" /\ cb'[u].pc = "idle"
  BY OnlyCallback DEF serviceVars, ClientInv, DriverInv, DriverTypeOK
<1>1. toSvc \in Seq(Chunk) /\ toDrv \in Seq(Chunk) /\ Len(<<>>) = 0
  BY PipeTypes
<1>z. ZeroChunk \in Chunk /\ Zero \in Data /\ ZeroChunk.d = "TX"
  BY DEF ZeroChunk, Chunk, Direction, Data, Zero
<1>2. CASE QuietStep
  BY <1>0, <1>2, QuietExchange
<1>3. CASE WriteSent(t)
  <2> DEFINE head == [d |-> smOut.d, len |-> smOut.len, data |-> smOut.data]
  <2>1. cb[t].pc = "wfile" /\ Return(t) /\ ServerWriteOK(head, smOut.tail)
    BY <1>3 DEF WriteSent, SendWrite
  <2>2. head \in Chunk /\ head.d # "RX" /\ smOut.tail = ZeroChunk
    BY <2>1 DEF DataPart, ClientInv, DriverInv, DriverTypeOK, Chunk
  <2>3. Readers = {} /\ Readers' = {}
    BY <1>0, <2>1, ReturnPlace DEF Readers
  <2>4. ~Requested /\ ~Answering /\ ~Answered
    BY <2>3 DEF AtMostOneExchange
  <2> HIDE DEF head
  <2>5. toSvc' = toSvc \o <<head, ZeroChunk>> /\ UNCHANGED <<pipe, cli, toDrv>> /\ pipe = "connected"
    BY <2>1, <2>2 DEF ServerWriteOK
  <2>6. ~Requested'
    <3>1. /\ Len(toSvc') = Len(toSvc) + 2
          /\ \A k \in 1..Len(toSvc') : toSvc'[k] \in {head, ZeroChunk} \/
               (k \in 1..Len(toSvc) /\ toSvc'[k] = toSvc[k])
      BY <1>1, <1>z, <2>2, <2>5, PairAdded
    <3> QED
      BY <1>z, <2>2, <2>4, <3>1 DEF Requested
  <2>7. ~Answering' /\ ~Answered'
    BY <1>0, <2>4, <2>5 DEF Answering, Answered
  <2> QED
    BY <1>1, <2>5, <2>6, <2>7 DEF WirePart, AtMostOneExchange, Requested, Answered
<1>4. CASE RequestSent(t)
  <2> DEFINE head == [d |-> "RX", len |-> req[cb[t].iss].len, data |-> Zero]
  <2>1. /\ cb[t].pc = "rwrite" /\ Goto(t, "rread") /\ ServerWriteOK(head, ZeroChunk)
    BY <1>4 DEF RequestSent, SendReadRequest
  <2>2. head \in Chunk
    <3>1. cb[t].iss \in Issuers /\ req \in [Issuers -> Request]
      BY <2>1, OthersIdle DEF ClientInv, DriverInv, DriverTypeOK
    <3> QED
      BY <1>z, <3>1 DEF Chunk, Direction, Request
  <2>3. Readers = {} /\ t \in Readers'
    BY <1>0, <2>1, GotoPlace DEF Readers
  <2>4. ~Requested /\ ~Answering /\ ~Answered
    BY <2>3 DEF AtMostOneExchange
  <2>5. toSvc' = toSvc \o <<head, ZeroChunk>> /\ UNCHANGED <<pipe, cli, toDrv>> /\ pipe = "connected"
    BY <2>1 DEF ServerWriteOK
  <2> HIDE DEF head
  <2>6. \A k \in 1..Len(toSvc') : toSvc'[k].d = "RX" => k = Len(toSvc) + 1
    <3>1. /\ Len(toSvc') = Len(toSvc) + 2
          /\ \A k \in 1..Len(toSvc') : toSvc'[k] = ZeroChunk \/ k = Len(toSvc) + 1 \/
               (k \in 1..Len(toSvc) /\ toSvc'[k] = toSvc[k])
      BY <1>1, <1>z, <2>2, <2>5, PairAdded
    <3> QED
      BY <1>z, <2>4, <3>1 DEF Requested
  <2>7. ~Answering' /\ ~Answered'
    BY <1>0, <2>4, <2>5 DEF Answering, Answered
  <2>8. Len(toDrv') <= 1
    BY <1>1, <2>7 DEF Answered
  <2> QED
    BY <2>3, <2>5, <2>6, <2>7, <2>8 DEF WirePart, AtMostOneExchange
<1>5. CASE ReadReply(t)
  <2>1. cb[t].pc = "rread" /\ Return(t)
    BY <1>5 DEF ReadReply, ReadNothing
  <2>2. hPipe = "live" /\ UNCHANGED <<pipe, cli, toSvc>>
    BY <1>5 DEF ReadReply, ReadNothing, ServerReadOK, pipeVars, ClientInv, DriverInv,
       PlacePart, ConnectedPart
  <2>3. ~Requested /\ ~Answering /\ toDrv' = <<>>
    <3>1. CASE toDrv # <<>>
      <4>1. toDrv' = Tail(toDrv)
        BY <1>5, <2>2, <3>1 DEF ReadReply, ServerReadOK, ServerReadFails
      <4>2. Tail(toDrv) = <<>>
        BY <1>1, <3>1, LastTaken DEF AtMostOneExchange
      <4> QED
        BY <3>1, <4>1, <4>2 DEF AtMostOneExchange, Answered
    <3>2. CASE toDrv = <<>>
      <4>1. pipe # "connected" /\ toDrv' = toDrv
        BY <1>5, <2>2, <3>2 DEF ReadReply, ReadNothing, ServerReadOK, ServerReadFails, pipeVars
      <4>2. toSvc = <<>> /\ cli # "open"
        BY <4>1 DEF WirePart, ClientInv, DriverInv, ClientPart
      <4> QED
        BY <1>1, <3>2, <4>1, <4>2 DEF WirePart, Requested
    <3> QED
      BY <3>1, <3>2
  <2>4. ~Requested' /\ ~Answering' /\ ~Answered'
    BY <1>0, <2>2, <2>3 DEF Requested, Answering, Answered
  <2> QED
    BY <1>1, <2>2, <2>3, <2>4 DEF WirePart, AtMostOneExchange, Requested
<1>6. CASE HostDies(t)
  <2>1. toSvc' = <<>> /\ toDrv' = <<>> /\ Readers' = {} /\ Answered
    BY <1>6, HostGone DEF Answered
  <2>2. ~Requested' /\ ~Answering' /\ ~Answered'
    BY <1>0, <1>1, <2>1 DEF AtMostOneExchange, Requested, Answering, Answered
  <2> QED
    BY <1>1, <2>1, <2>2 DEF WirePart, AtMostOneExchange, Requested
<1> QED
  BY <1>2, <1>3, <1>4, <1>5, <1>6, DriverStepKinds

\* A step beside the callbacks that neither takes up a request nor answers one
LEMMA ExchangeKept ==
  ASSUME WirePart, AtMostOneExchange, UNCHANGED <<cb, toDrv>>,
         toSvc' = <<>> \/ (toSvc' = toSvc /\ (pipe' = pipe \/ pipe # "connected")),
         Answering' => Answering /\ cli' = cli
  PROVE  WirePart' /\ AtMostOneExchange'
<1>0. Len(<<>>) = 0
  OBVIOUS
<1>1. (Requested' => Requested) /\ Readers' = Readers /\ (Answered' <=> Answered)
  BY <1>0 DEF Requested, Readers, Answered
<1>2. \A j, k \in 1..Len(toSvc') : toSvc'[j].d = "RX" /\ toSvc'[k].d = "RX" => j = k
  BY <1>0 DEF AtMostOneExchange
<1>3. Len(toDrv') <= 1
  BY DEF AtMostOneExchange
<1>4. /\ ~(Requested' /\ Answering') /\ ~(Requested' /\ Answered') /\ ~(Answering' /\ Answered')
      /\ Requested' \/ Answering' \/ Answered' => Readers' # {}
  BY <1>1 DEF AtMostOneExchange
<1>5. WirePart'
  BY DEF WirePart
<1> QED
  BY <1>2, <1>3, <1>4, <1>5 DEF AtMostOneExchange

\* The service and the applications keep to it too.
LEMMA ServiceExchange ==
  ASSUME ClientInv, WirePart, AtMostOneExchange, AppRequest \/ ServiceStep \/ ServiceCrash
  PROVE  WirePart' /\ AtMostOneExchange'
<1>1. toSvc \in Seq(Chunk) /\ toDrv \in Seq(Chunk)
  BY PipeTypes
<1>2. CASE AppRequest \/ SendControl \/ SendBaudRate \/ VcomFails \/ BaudRateSet
  BY <1>2, ExchangeKept
  DEF AppRequest, SendControl, SendBaudRate, VcomFails, BaudRateSet, Issue, serviceVars,
      pipeVars, driverVars, Answering
<1>3. CASE (ServiceStart \/ SetMode \/ ForwardToCom \/ ReadFromCom) /\ UNCHANGED driverVars
  BY <1>3, ExchangeKept
  DEF ServiceStart, SetMode, ForwardToCom, ReadFromCom, pipeVars, driverVars, Answering
<1>4. CASE (OpenPipe \/ Exit) /\ UNCHANGED driverVars
  <2>1. cli # "open" => pipe # "connected"
    BY DEF ClientInv, DriverInv, ClientPart
  <2>2. UNCHANGED <<cb, toDrv>> /\ ~Answering'
    BY <1>4 DEF OpenPipe, Exit, ClientOpen, ClientClose, driverVars, Answering
  <2>3. toSvc' = <<>> \/ (toSvc' = toSvc /\ (pipe' = pipe \/ pipe # "connected"))
    BY <1>4, <2>1 DEF OpenPipe, Exit, ClientOpen, ClientClose
  <2> QED
    BY <2>2, <2>3, ExchangeKept
<1>5. CASE ServiceCrash
  <2>1. cli # "open" => pipe # "connected"
    BY DEF ClientInv, DriverInv, ClientPart
  <2>2. UNCHANGED <<cb, toDrv>> /\ ~Answering'
    BY <1>5 DEF ServiceCrash, Crash, ClientClose, pipeVars, Answering
  <2>3. toSvc' = <<>> \/ (toSvc' = toSvc /\ (pipe' = pipe \/ pipe # "connected"))
    BY <1>5, <2>1 DEF ServiceCrash, Crash, ClientClose, pipeVars
  <2> QED
    BY <2>2, <2>3, ExchangeKept
<1>6. CASE ReadPipe /\ UNCHANGED driverVars
  <2>1. CASE ~ClientRead
    BY <1>6, <2>1, ExchangeKept DEF ReadPipe, pipeVars, driverVars, Answering
  <2>2. CASE ClientRead
    <3>1. /\ toSvc # <<>> /\ toSvc' = Tail(toSvc) /\ cli = "open" /\ spc = "read"
          /\ UNCHANGED <<pipe, cli, toDrv, cb>>
      BY <1>6, <2>2 DEF ClientRead, ReadPipe, driverVars
    <3>2. /\ Head(toSvc) = toSvc[1] /\ 1 \in 1..Len(toSvc)
          /\ \A k \in 1..Len(toSvc') : k + 1 \in 1..Len(toSvc) /\ toSvc'[k] = toSvc[k + 1]
      BY <1>1, <3>1, ChunkTaken
    <3>3. ~Answering /\ Readers' = Readers /\ (Answered' <=> Answered)
      BY <3>1 DEF Answering, Readers, Answered
    <3>4. spc' \in {"rx", "reply"} => toSvc[1].d = "RX"
      <4>1. Head(toSvc).d \in {"TX", "RX", "NONE"} /\ spc' = CASE Head(toSvc).d = "TX" -> "tx"
               [] Head(toSvc).d = "RX" -> "rx" [] Head(toSvc).d = "NONE" -> "read"
        BY <1>6, <2>2, <3>1, HeadIsChunk DEF ReadPipe
      <4> QED
        BY <3>2, <4>1
    <3>5. Answering' => Requested /\ ~Requested'
      <4>1. Answering' => toSvc[1].d = "RX"
        BY <3>4 DEF Answering
      <4>2. toSvc[1].d = "RX" => Requested
        BY <3>2 DEF Requested
      <4>3. toSvc[1].d = "RX" => ~Requested'
        <5> SUFFICES ASSUME toSvc[1].d = "RX", NEW k \in 1..Len(toSvc'), toSvc'[k].d = "RX"
                     PROVE  FALSE
          BY DEF Requested
        <5>1. k + 1 \in 1..Len(toSvc) /\ toSvc[k + 1].d = "RX"
          BY <3>2
        <5>2. k + 1 = 1
          BY <3>2, <5>1 DEF AtMostOneExchange
        <5> QED
          BY <5>2
      <4> QED
        BY <4>1, <4>2, <4>3
    <3>6. Requested' => Requested
      BY <3>2 DEF Requested
    <3>7. ASSUME NEW j \in 1..Len(toSvc'), NEW k \in 1..Len(toSvc'),
                 toSvc'[j].d = "RX", toSvc'[k].d = "RX"
          PROVE  j = k
      <4>1. j + 1 = k + 1
        BY <3>2, <3>7 DEF AtMostOneExchange
      <4> QED
        BY <4>1
    <3>8. Len(toDrv') <= 1
      BY <3>1 DEF AtMostOneExchange
    <3>9. WirePart'
      BY <3>1 DEF WirePart
    <3>10. /\ ~(Requested' /\ Answering') /\ ~(Requested' /\ Answered') /\ ~(Answering' /\ Answered')
           /\ Requested' \/ Answering' \/ Answered' => Readers' # {}
      BY <3>3, <3>5, <3>6 DEF AtMostOneExchange
    <3> QED
      BY <3>7, <3>8, <3>9, <3>10 DEF AtMostOneExchange
  <2> QED
    BY <2>1, <2>2
<1>7. CASE Reply /\ UNCHANGED driverVars
  <2>1. spc = "reply" /\ Answering /\ cli = "open"
    BY <1>7 DEF Reply, Answering, WirePart
  <2>2. /\ UNCHANGED <<pipe, cli, toSvc, cb>> /\ spc' = "read"
        /\ toDrv' = Append(toDrv, smReply)
    BY <1>7, <2>1 DEF Reply, ClientWrite, driverVars
  <2>3. toDrv = <<>> /\ ~Requested /\ Readers # {}
    BY <2>1 DEF AtMostOneExchange, Answered
  <2>4. Len(toDrv') = 1
    BY <2>2, <2>3
  <2>5. ~Requested' /\ ~Answering' /\ Readers' = Readers
    BY <2>2, <2>3 DEF Requested, Answering, Readers
  <2> QED
    BY <2>2, <2>3, <2>4, <2>5 DEF WirePart, AtMostOneExchange, Requested
<1> QED
  BY <1>2, <1>3, <1>4, <1>5, <1>6, <1>7 DEF ServiceStep, ServiceLoop

-----------------------------------------------------------------------------
(* The lengths.                                                            *)

\* The request of a read that waits is nobody's to change.
LEMMA ReaderActive ==
  ASSUME ClientInv, NEW t \in Readers
  PROVE  /\ t \in Threads /\ cb[t].iss \in Issuers /\ req \in [Issuers -> Request]
         /\ req[cb[t].iss].st = "active" /\ req[cb[t].iss].len \in Nat
<1>1. t \in Threads /\ cb[t].pc = "rread"
  BY DEF Readers
<1>2. cb[t].iss \in Issuers /\ req[cb[t].iss].st = "active" /\ req \in [Issuers -> Request]
  BY <1>1, OthersIdle DEF ClientInv, DriverInv, RequestPart, DriverTypeOK
<1> QED
  BY <1>1, <1>2 DEF Request

LEMMA ReplyKept ==
  ASSUME ReplyPart, ReplyFits, UNCHANGED cb,
         \A t \in Readers : req'[cb[t].iss].len = req[cb[t].iss].len,
         toSvc' \in {toSvc, <<>>}, toDrv' = toDrv,
         spc' = "rx" => spc = "rx" /\ smRet' = smRet,
         spc' = "reply" => spc = "reply" /\ smReply' = smReply
  PROVE  ReplyPart' /\ ReplyFits'
<1>1. Readers' = Readers /\ Len(<<>>) = 0
  BY DEF Readers
<1>2. ASSUME NEW t \in Readers
      PROVE  /\ \A k \in 1..Len(toSvc') : toSvc'[k].d = "RX" => toSvc'[k].len <= req'[cb'[t].iss].len
             /\ spc' = "rx" => smRet'.len <= req'[cb'[t].iss].len
             /\ spc' = "reply" => smReply'.len <= req'[cb'[t].iss].len
  BY <1>1, <1>2 DEF ReplyPart
<1>3. ReplyPart'
  BY <1>1, <1>2 DEF ReplyPart
<1>4. ReplyFits'
  BY <1>1 DEF ReplyFits
<1> QED
  BY <1>3, <1>4

\* A callback that no read waits beside has nothing to keep.
LEMMA DriverReplies ==
  ASSUME ClientInv, AtMostOneExchange, WirePart, DataPart,
         NEW t \in Threads, Callbacks(t), UNCHANGED serviceVars
  PROVE  ReplyPart' /\ ReplyFits'
<1>0. /\ UNCHANGED spc
      /\ cb \in [Threads -> Callback]
      /\ \A u \in Threads \ {t} : cb[u].pc = "idle" /\ cb'[u].pc = "idle"
  BY OnlyCallback DEF serviceVars, ClientInv, DriverInv, DriverTypeOK
<1>1. Readers' = {} => ReplyPart' /\ ReplyFits'
  BY DEF ReplyPart, ReplyFits
<1>2. CASE WriteSent(t) \/ ReadReply(t)
  <2>1. Return(t)
    BY <1>2 DEF WriteSent, SendWrite, ReadReply, ReadNothing
  <2>2. Readers' = {}
    BY <1>0, <2>1, ReturnPlace DEF Readers
  <2> QED
    BY <1>1, <2>2
<1>3. CASE RequestSent(t)
  <2> DEFINE head == [d |-> "RX", len |-> req[cb[t].iss].len, data |-> Zero]
  <2>1. /\ cb[t].pc = "rwrite" /\ Goto(t, "rread") /\ UNCHANGED req
        /\ ServerWriteOK(head, ZeroChunk)
    BY <1>3 DEF RequestSent, SendReadRequest
  <2>2. cb[t].iss \in Issuers /\ req[cb[t].iss].len \in Nat
    BY <2>1, OthersIdle DEF ClientInv, DriverInv, DriverTypeOK, Request
  <2>3. Readers = {} /\ Readers' = {t} /\ cb'[t].iss = cb[t].iss
    BY <1>0, <2>1, GotoPlace DEF Readers
  <2>4. ~Requested /\ ~Answering /\ ~Answered
    BY <2>3 DEF AtMostOneExchange
  <2>5. toSvc' = toSvc \o <<head, ZeroChunk>> /\ toDrv' = <<>>
    BY <2>1, <2>4 DEF ServerWriteOK, Answered
  <2>6. head \in Chunk /\ ZeroChunk \in Chunk /\ ZeroChunk.d = "TX"
    BY <2>2 DEF ZeroChunk, Chunk, Direction, Data, Zero
  <2>7. head.len = req[cb[t].iss].len
    OBVIOUS
  <2> HIDE DEF head
  <2>8. ASSUME NEW k \in 1..Len(toSvc'), toSvc'[k].d = "RX"
        PROVE  toSvc'[k].len <= req'[cb'[t].iss].len
    <3>1. Len(toSvc') = Len(toSvc) + 2
      BY <2>5, <2>6, PairAdded, PipeTypes
    <3>2. toSvc'[k] = head \/ toSvc'[k] = ZeroChunk \/
            (k \in 1..Len(toSvc) /\ toSvc'[k] = toSvc[k])
      BY <2>5, <2>6, <3>1, PairAdded, PipeTypes
    <3>3. toSvc'[k] = head
      BY <2>4, <2>6, <2>8, <3>2 DEF Requested
    <3> QED
      BY <2>1, <2>2, <2>3, <2>7, <3>3
  <2>9. ~Answering'
    BY <1>0, <2>4 DEF Answering
  <2>10. Len(<<>>) = 0
    OBVIOUS
  <2>11. ReplyPart'
    BY <2>3, <2>8, <2>9 DEF ReplyPart, Answering
  <2>12. ReplyFits'
    BY <2>5, <2>10 DEF ReplyFits
  <2> QED
    BY <2>11, <2>12
<1> QED
  BY <1>1, <1>2, <1>3, HostGone, DriverStepKinds DEF QuietStep

LEMMA ServiceReplies ==
  ASSUME ClientInv, AtMostOneExchange, WirePart, ReplyPart, ReplyFits,
         AppRequest \/ ServiceStep \/ ServiceCrash
  PROVE  ReplyPart' /\ ReplyFits'
<1>1. CASE AppRequest \/ SendControl \/ SendBaudRate
  <2>1. \E i \in Issuers : \E op, len, tail : Issue(i, op, len, tail)
    BY <1>1, BridgeAssumption DEF AppRequest, SendControl, SendBaudRate
  <2>2. ASSUME NEW t \in Readers PROVE req'[cb[t].iss].len = req[cb[t].iss].len
    BY <2>1, ReaderActive DEF Issue
  <2>3. spc' \notin {"rx", "reply"} \/ UNCHANGED serviceVars
    BY <1>1 DEF AppRequest, SendControl, SendBaudRate
  <2> QED
    BY <2>1, <2>2, <2>3, ReplyKept DEF Issue, pipeVars, serviceVars
<1>2. CASE ServiceCrash
  <2>1. ASSUME NEW t \in Readers PROVE req'[cb[t].iss].len = req[cb[t].iss].len
    BY <1>2, ReaderActive DEF ServiceCrash, CancelQueued
  <2> QED
    BY <1>2, <2>1, ReplyKept DEF ServiceCrash, Crash, ClientClose, pipeVars
<1>3. CASE (ServiceStart \/ OpenPipe \/ SetMode \/ ForwardToCom \/ Exit) /\ UNCHANGED driverVars
  BY <1>3, ReplyKept
  DEF ServiceStart, OpenPipe, SetMode, ForwardToCom, Exit, ClientOpen, ClientClose,
      pipeVars, driverVars
<1>4. CASE VcomFails \/ BaudRateSet
  BY <1>4, ReplyKept DEF VcomFails, BaudRateSet, pipeVars, driverVars
<1>5. CASE ReadPipe /\ UNCHANGED driverVars
  <2>1. CASE ~ClientRead
    BY <1>5, <2>1, ReplyKept DEF ReadPipe, pipeVars, driverVars
  <2>2. CASE ClientRead
    <3>1. toSvc # <<>> /\ toSvc' = Tail(toSvc) /\ UNCHANGED <<toDrv, cb, req>> /\ smRet' = Head(toSvc)
      BY <1>5, <2>2 DEF ClientRead, ReadPipe, driverVars
    <3>2. /\ Head(toSvc) = toSvc[1] /\ 1 \in 1..Len(toSvc)
          /\ \A k \in 1..Len(toSvc') : k + 1 \in 1..Len(toSvc) /\ toSvc'[k] = toSvc[k + 1]
      BY <3>1, ChunkTaken, PipeTypes
    <3>3. spc' # "reply" /\ (spc' = "rx" => toSvc[1].d = "RX")
      <4>1. Head(toSvc).d \in {"TX", "RX", "NONE"}
        BY <3>1, HeadIsChunk
      <4>2. cli = "open"
        BY <2>2 DEF ClientRead
      <4>3. spc' = CASE Head(toSvc).d = "TX" -> "tx" [] Head(toSvc).d = "RX" -> "rx"
                     [] Head(toSvc).d = "NONE" -> "read"
        BY <1>5, <4>2 DEF ReadPipe
      <4> QED
        BY <3>2, <4>1, <4>3
    <3>4. ReplyPart'
      BY <3>1, <3>2, <3>3 DEF ReplyPart, Readers
    <3>5. ReplyFits'
      BY <3>1 DEF ReplyFits, Readers
    <3> QED
      BY <3>4, <3>5
  <2> QED
    BY <2>1, <2>2
<1>6. CASE ReadFromCom /\ UNCHANGED driverVars
  <2>1. spc = "rx" /\ spc' = "reply" /\ UNCHANGED <<toSvc, toDrv, cb, req, smRet>>
    BY <1>6 DEF ReadFromCom, pipeVars, driverVars
  <2>2. smReply'.len = -1 \/ (smReply'.len \in Nat /\ smReply'.len <= smRet.len)
    <3>1. ASSUME NEW n \in BlockSizes, n <= RequestedLen,
                 smReply' = [d |-> "NONE", len |-> n,
                             data |-> IF n > 0 THEN RxData(comIn + 1, n) ELSE Zero]
          PROVE  smReply'.len \in Nat /\ smReply'.len <= smRet.len
      BY <3>1, ServiceAssumption, PipeAssumption
      DEF RequestedLen, ClientInv, ServiceTypeOK, Chunk
    <3>2. ASSUME smReply' = [smReply EXCEPT !.d = "NONE", !.len = -1]
          PROVE  smReply'.len = -1
      BY <3>2 DEF ClientInv, ServiceTypeOK, Chunk
    <3> QED
      BY <1>6, <3>1, <3>2 DEF ReadFromCom
  <2>3. ASSUME NEW t \in Readers
        PROVE  smReply'.len <= req[cb[t].iss].len /\ req[cb[t].iss].len \in Nat
    <3>1. req[cb[t].iss].len \in Nat /\ smRet.len \in Int /\ smRet.len <= req[cb[t].iss].len
      BY <2>1, ReaderActive DEF ReplyPart, ClientInv, ServiceTypeOK, Chunk
    <3> QED
      BY <2>2, <3>1
  <2>4. ReplyPart'
    BY <2>1, <2>3 DEF ReplyPart, Readers
  <2>5. ReplyFits'
    BY <2>1 DEF ReplyFits, Readers
  <2> QED
    BY <2>4, <2>5
<1>7. CASE Reply /\ UNCHANGED driverVars
  <2>1. spc = "reply" /\ Answering /\ cli = "open"
    BY <1>7 DEF Reply, Answering, WirePart
  <2>2. /\ UNCHANGED <<toSvc, cb, req>> /\ spc' = "read"
        /\ toDrv' = Append(toDrv, smReply) /\ toDrv = <<>>
    BY <1>7, <2>1 DEF Reply, ClientWrite, driverVars, AtMostOneExchange, Answered
  <2>3. \A k \in 1..Len(toDrv') : toDrv'[k] = smReply
    BY <2>2
  <2>4. \A t \in Readers : smReply.len <= req[cb[t].iss].len
    BY <2>1 DEF ReplyPart, Answering, Reply
  <2>5. ReplyFits'
    BY <2>2, <2>3, <2>4 DEF ReplyFits, Readers
  <2>6. ReplyPart'
    BY <2>2 DEF ReplyPart, Readers
  <2> QED
    BY <2>5, <2>6
<1> QED
  BY <1>1, <1>2, <1>3, <1>4, <1>5, <1>6, <1>7 DEF ServiceStep, ServiceLoop

-----------------------------------------------------------------------------
(* The bytes, while no application writes more than a packet at once.      *)

ShortWrites == PACKET_SIZE < MSG_SIZE /\ \A n \in AppLengths : n <= PACKET_SIZE

\* Completed and dispatched requests stay as short as they were.
LEMMA DriverRequests ==
  ASSUME ClientInv, DataPart, NEW t \in Threads, Callbacks(t)
  PROVE  \A i \in Issuers : req'[i].tail = ZeroChunk /\ req'[i].len <= PACKET_SIZE
<1>1. /\ req \in [Issuers -> Request]
      /\ NoRequest.tail = ZeroChunk /\ NoRequest.len = 0 /\ 0 <= PACKET_SIZE
  BY PipeAssumption DEF ClientInv, DriverInv, DriverTypeOK, NoRequest
<1>2. \A i \in Issuers : req[i].tail = ZeroChunk /\ req[i].len <= PACKET_SIZE
  BY DEF DataPart
<1>3. CASE UNCHANGED req
  BY <1>2, <1>3
<1>4. CASE Complete(cb[t].iss)
  BY <1>1, <1>2, <1>4 DEF Complete
<1>5. CASE \E j \in Issuers : Dispatch(t, j)
  <2>1. PICK j \in Issuers : req' = [req EXCEPT ![j].st = "active"]
    BY <1>5 DEF Dispatch
  <2>2. \A i \in Issuers : req'[i].tail = req[i].tail /\ req'[i].len = req[i].len
    BY <1>1, <2>1 DEF Request
  <2> QED
    BY <1>2, <2>2
<1>6. CASE HostDies(t)
  BY <1>1, <1>6, HostGone
<1> QED
  BY <1>3, <1>4, <1>5, <1>6
  DEF Callbacks, CreatePipe, CreatePipeFails, WaitForClient, ClientConnected,
      ConnectFails, WriteBytes, SendWrite, StartRead, SendReadRequest, ReadReply,
      ReadNothing, ClosePipes, OtherIoctl

\* The message buffer holds one write while it is being sent.
LEMMA DriverBuffer ==
  ASSUME ClientInv, DataPart, ShortWrites, NEW t \in Threads, Callbacks(t)
  PROVE  /\ smOut'.tail = ZeroChunk
         /\ \A u \in Threads : cb'[u].pc = "wfile" =>
              smOut'.d = "TX" /\ (smOut'.len > 0 => Whole(smOut'))
<1>0. /\ cb \in [Threads -> Callback] /\ req \in [Issuers -> Request]
      /\ smOut \in [d : Direction, len : Int, data : Data, tail : Chunk]
      /\ smOut.tail = ZeroChunk
      /\ \A u \in Threads \ {t} : cb[u].pc = "idle" /\ cb'[u].pc = "idle"
  BY OnlyCallback DEF ClientInv, DriverInv, DriverTypeOK, DataPart
<1>1. CASE WriteBytes(t)
  <2> DEFINE r == req[cb[t].iss]
             c == CopiedIn(acked + 1, r.len, r.tail)
             m == [c EXCEPT !.d = "TX", !.len = r.len]
  <2>1. cb[t].iss \in Issuers
    BY <1>1, OthersIdle DEF WriteBytes, ClientInv
  <2>2. r.len \in Nat /\ r.len <= PACKET_SIZE
    BY <1>0, <2>1 DEF DataPart, Request
  <2>3. smOut' = m \/ (smOut' = c /\ Return(t))
    BY <1>1 DEF WriteBytes
  <2>4. m.d = "TX" /\ Whole(m) /\ m.tail = ZeroChunk /\ c.tail = ZeroChunk
    <3> DEFINE L == r.len
               data == TxData(acked + 1, L)
    <3>1. L < MSG_SIZE /\ ~(L > PACKET_SIZE)
      BY <2>2, PipeAssumption, DriverAssumption DEF ShortWrites
    <3>2. c = [smOut EXCEPT !.data = data]
      BY <1>0, <3>1 DEF CopiedIn
    <3>3. data[2] = acked + 1 /\ data = TxData(data[2], L)
      BY DEF TxData
    <3> HIDE DEF c, L, data
    <3>4. /\ DOMAIN c = {"d", "len", "data", "tail"} /\ c.data = data
          /\ c.tail = ZeroChunk
      BY <1>0, <3>2
    <3>5. m = [c EXCEPT !.d = "TX", !.len = L]
      BY DEF L
    <3> HIDE DEF m
    <3>6. m.d = "TX" /\ m.len = L /\ m.data = data /\ m.tail = ZeroChunk
      BY <3>4, <3>5
    <3>7. L <= PACKET_SIZE
      BY <2>2 DEF L
    <3> QED
      BY <3>3, <3>4, <3>6, <3>7 DEF Whole
  <2> HIDE DEF c, m
  <2>5. CASE smOut' = m
    BY <2>4, <2>5
  <2>6. CASE smOut' = c /\ Return(t)
    BY <1>0, <2>4, <2>6, ReturnPlace
  <2> QED
    BY <2>3, <2>5, <2>6
<1>3. CASE HostDies(t)
  <2>1. NewMessage.tail = ZeroChunk
    BY DEF NewMessage
  <2> QED
    BY <1>3, <2>1, HostGone
<1>2. CASE ~WriteBytes(t) /\ ~HostDies(t)
  <2>1. cb'[t].pc # "wfile"
    <3>1. CASE \E i \in Issuers : Dispatch(t, i)
      <4>1. PICK i \in Issuers : Dispatch(t, i)
        BY <3>1
      <4>2. cb'[t].pc = EntryPc(req[i].op)
        BY <1>0, <4>1 DEF Dispatch
      <4>3. req[i].op \in {"write", "read", "baud", "ioctl"} /\ pipeOpen \in BOOLEAN
        BY <1>0, <4>1 DEF Request, AllOps, ClientInv, DriverInv, DriverTypeOK
      <4> QED
        BY <4>2, <4>3 DEF EntryPc
    <3>2. CASE CreatePipeFails(t) \/ ClientConnected(t) \/ ConnectFails(t)
      <4>1. req[cb[t].iss].op \in {"write", "read"}
        BY <3>2
        DEF CreatePipeFails, ClientConnected, ConnectFails, ClientInv, DriverInv, RequestPart
      <4> QED
        BY <1>0, <3>2, <4>1, GotoPlace DEF CreatePipeFails, ClientConnected, ConnectFails
    <3>3. Return(t) => cb'[t].pc # "wfile"
      BY <1>0, ReturnPlace
    <3>4. ASSUME NEW pc \in {"connect", "listen", "rwrite", "rread"}, Goto(t, pc)
          PROVE  cb'[t].pc # "wfile"
      BY <1>0, <3>4, GotoPlace
    <3> QED
      BY <1>2, <3>1, <3>2, <3>3, <3>4
      DEF Callbacks, CreatePipe, WaitForClient, SendWrite, StartRead, SendReadRequest,
          ReadReply, ReadNothing, ClosePipes, OtherIoctl
  <2>2. smOut'.tail = smOut.tail
    BY <1>0, <1>2
    DEF Callbacks, Dispatch, CreatePipe, CreatePipeFails, WaitForClient, ClientConnected,
        ConnectFails, SendWrite, StartRead, SendReadRequest, ReadReply, ReadNothing,
        ClosePipes, OtherIoctl
  <2> QED
    BY <1>0, <2>1, <2>2
<1> QED
  BY <1>1, <1>2, <1>3

\* So does what is in the pipe.
LEMMA DriverChunks ==
  ASSUME ClientInv, DataPart, NEW t \in Threads, Callbacks(t)
  PROVE  \A k \in 1..Len(toSvc') : toSvc'[k].d = "TX" /\ toSvc'[k].len > 0 => Whole(toSvc'[k])
<1> DEFINE Good(c) == c.d = "TX" /\ c.len > 0 => Whole(c)
<1>1. /\ \A k \in 1..Len(toSvc) : Good(toSvc[k])
      /\ toSvc \in Seq(Chunk) /\ Len(<<>>) = 0
      /\ ZeroChunk \in Chunk /\ Good(ZeroChunk)
  BY PipeTypes DEF DataPart, ZeroChunk, Chunk, Direction, Data, Zero
<1>2. ASSUME NEW a \in Chunk, Good(a), toSvc' = toSvc \o <<a, ZeroChunk>>
      PROVE  \A k \in 1..Len(toSvc') : Good(toSvc'[k])
  <2> HIDE DEF Good
  <2>1. Len(toSvc') = Len(toSvc) + 2
    BY <1>1, <1>2, PairAdded
  <2>2. \A k \in 1..Len(toSvc') :
          toSvc'[k] = a \/ toSvc'[k] = ZeroChunk \/ (k \in 1..Len(toSvc) /\ toSvc'[k] = toSvc[k])
    BY <1>1, <1>2, <2>1, PairAdded
  <2> QED
    BY <1>1, <1>2, <2>2
<1>3. CASE QuietStep
  BY <1>1, <1>3 DEF QuietStep
<1>4. CASE WriteSent(t)
  <2> DEFINE head == [d |-> smOut.d, len |-> smOut.len, data |-> smOut.data]
  <2>1. cb[t].pc = "wfile" /\ toSvc' = toSvc \o <<head, smOut.tail>>
    BY <1>4 DEF WriteSent, SendWrite, ServerWriteOK
  <2>2. head \in Chunk /\ smOut.tail = ZeroChunk
    BY DEF DataPart, ClientInv, DriverInv, DriverTypeOK, Chunk
  <2>3. Good(head)
    BY <2>1 DEF DataPart, Whole
  <2> QED
    BY <1>2, <2>1, <2>2, <2>3
<1>5. CASE RequestSent(t)
  <2> DEFINE head == [d |-> "RX", len |-> req[cb[t].iss].len, data |-> Zero]
  <2>1. cb[t].pc = "rwrite" /\ toSvc' = toSvc \o <<head, ZeroChunk>>
    BY <1>5 DEF RequestSent, SendReadRequest, ServerWriteOK
  <2>2. cb[t].iss \in Issuers /\ req[cb[t].iss].len \in Nat
    BY <2>1, OthersIdle DEF ClientInv, DriverInv, DriverTypeOK, Request
  <2>3. head \in Chunk /\ Good(head)
    BY <2>2 DEF Chunk, Direction, Data, Zero
  <2> QED
    BY <1>2, <2>1, <2>3
<1>6. CASE ReadReply(t)
  <2>1. toSvc' = toSvc
    BY <1>6 DEF ReadReply, ReadNothing, ServerReadOK, pipeVars
  <2> QED
    BY <1>1, <2>1
<1>7. CASE HostDies(t)
  BY <1>7, HostGone
<1> QED
  BY <1>3, <1>4, <1>5, <1>6, <1>7, DriverStepKinds

LEMMA DriverData ==
  ASSUME ClientInv, DataPart, ForwardedIntact, ShortWrites,
         NEW t \in Threads, Callbacks(t), UNCHANGED serviceVars,
         faulted' = (faulted \/ Fault)
  PROVE  DataPart' /\ ForwardedIntact'
<1>1. UNCHANGED <<spc, smRet, comLog>>
  BY DEF serviceVars
<1>2. (spc = "tx" /\ smRet.len > 0 => Whole(smRet))'
  BY <1>1 DEF DataPart, Whole
<1>3. DataPart'
  BY <1>2, DriverRequests, DriverBuffer, DriverChunks DEF DataPart
<1>4. ForwardedIntact'
  BY <1>1 DEF ForwardedIntact
<1> QED
  BY <1>3, <1>4

\* A step beside the callbacks that takes nothing from the pipe
LEMMA DataKept ==
  ASSUME DataPart, UNCHANGED <<smOut, cb>>, toSvc' \in {toSvc, <<>>},
         \A i \in Issuers : req'[i].tail = ZeroChunk /\ req'[i].len <= PACKET_SIZE,
         spc' = "tx" => spc = "tx" /\ smRet' = smRet
  PROVE  DataPart'
<1>1. Len(<<>>) = 0
  OBVIOUS
<1>2. \A k \in 1..Len(toSvc') : toSvc'[k].d = "TX" /\ toSvc'[k].len > 0 => Whole(toSvc'[k])
  BY <1>1 DEF DataPart
<1>3. \A t \in Threads : cb'[t].pc = "wfile" =>
        smOut'.d = "TX" /\ (smOut'.len > 0 => Whole(smOut'))
  BY DEF DataPart, Whole
<1>4. spc' = "tx" /\ smRet'.len > 0 => Whole(smRet')
  BY DEF DataPart, Whole
<1>5. smOut'.tail = ZeroChunk
  BY DEF DataPart
<1> QED
  BY <1>2, <1>3, <1>4, <1>5 DEF DataPart

\* A request of one packet at most joins the others.
LEMMA ShortRequest ==
  ASSUME ClientInv, DataPart, NEW j \in Issuers, NEW r, r.tail = ZeroChunk,
         r.len <= PACKET_SIZE, req' = [req EXCEPT ![j] = r]
  PROVE  \A i \in Issuers : req'[i].tail = ZeroChunk /\ req'[i].len <= PACKET_SIZE
BY DEF ClientInv, DriverInv, DriverTypeOK, DataPart

\* The real port takes the beginning of a write, and is at fault when it is not all.
LEMMA BlockAdded ==
  ASSUME ClientInv, DataPart, ForwardedIntact, ForwardToCom,
         faulted' = (faulted \/ Fault)
  PROVE  ForwardedIntact'
<1> DEFINE S == [data : Data, len : Int]
           Intact(b) == b.data = TxData(b.data[2], b.data[3]) /\ b.len \in 1..b.data[3]
<1>1. comLog \in Seq(S) /\ smRet \in Chunk /\ spc = "tx" /\ spc' = "read"
  BY DEF ClientInv, ServiceTypeOK, ForwardToCom
<1>2. \A k \in 1..Len(comLog) :
        Intact(comLog[k]) /\ (~faulted => comLog[k].len = comLog[k].data[3])
  BY DEF ForwardedIntact
<1>3. PICK n \in BytesTaken(com') : comLog' = Written(n)
  BY DEF ForwardToCom
<1>4. n \in Int /\ smRet.len \in Int /\ (n <= smRet.len \/ n = 0)
  BY <1>1 DEF BytesTaken, Chunk
<1>5. CASE ~(n > 0)
  BY <1>3, <1>5 DEF ForwardedIntact, Written
<1>6. CASE n > 0
  <2> DEFINE b == [data |-> smRet.data, len |-> n]
             all == [data |-> smRet.data, len |-> smRet.len]
  <2>1. smRet.len > 0 /\ smRet.len <= PACKET_SIZE /\ smRet.data = TxData(smRet.data[2], smRet.len)
    BY <1>1, <1>4, <1>6 DEF DataPart, Whole
  <2>2. n \in Int /\ n <= smRet.len /\ n <= PACKET_SIZE /\ smRet.len \in Int
    BY <1>4, <1>6, <2>1, PipeAssumption
  <2>3. comLog' = Append(comLog, b) /\ Written(smRet.len) = Append(comLog, all)
    BY <1>3, <1>6, <2>1, <2>2 DEF Written
  <2>4. smRet.data[3] = smRet.len
    BY <2>1 DEF TxData
  <2>5. b \in S /\ all \in S /\ Intact(b)
    BY <1>1, <1>6, <2>1, <2>2, <2>4 DEF Chunk
  <2>6. ~faulted' => n = smRet.len
    <3>1. n # smRet.len => b # all
      OBVIOUS
    <3> HIDE DEF b, all, S
    <3>2. b # all => Append(comLog, b) # Append(comLog, all)
      <4>1. /\ Append(comLog, b)[Len(comLog) + 1] = b
            /\ Append(comLog, all)[Len(comLog) + 1] = all
        BY <1>1, <2>5, AppendProperties
      <4> QED
        BY <4>1
    <3> QED
      BY <1>1, <2>3, <3>1, <3>2 DEF Fault
  <2>7. b.len = n /\ b.data[3] = smRet.len
    BY <2>4
  <2> HIDE DEF S, Intact, b
  <2>8. \A k \in 1..Len(comLog') :
          comLog'[k] = b \/ (k \in 1..Len(comLog) /\ comLog'[k] = comLog[k])
    BY <1>1, <2>3, <2>5, AppendProperties
  <2>9. \A k \in 1..Len(comLog') :
          Intact(comLog'[k]) /\ (~faulted' => comLog'[k].len = comLog'[k].data[3])
    BY <1>2, <2>5, <2>6, <2>7, <2>8
  <2> QED
    BY <2>9 DEF ForwardedIntact, Intact
<1> QED
  BY <1>5, <1>6

LEMMA ServiceData ==
  ASSUME ClientInv, DataPart, ForwardedIntact, ShortWrites,
         AppRequest \/ ServiceStep \/ ServiceCrash, faulted' = (faulted \/ Fault)
  PROVE  DataPart' /\ ForwardedIntact'
<1>0. /\ 0 <= PACKET_SIZE /\ svc \in Issuers
      /\ \A i \in Issuers : req[i].tail = ZeroChunk /\ req[i].len <= PACKET_SIZE
  BY PipeAssumption, BridgeAssumption DEF DataPart
<1>k. UNCHANGED comLog => ForwardedIntact'
  BY DEF ForwardedIntact
<1>1. CASE AppRequest \/ SendControl \/ SendBaudRate
  <2>1. \E i \in Issuers : \E op, len : len <= PACKET_SIZE /\ Issue(i, op, len, ZeroChunk)
    <3>1. CASE AppRequest
      <4>1. PICK i \in Issuers, op \in AppOps, len \in AppLengths, tail \in Tails :
              /\ op # "write" \/ len <= PACKET_SIZE => tail = ZeroChunk
              /\ Issue(i, op, len, tail)
        BY <3>1 DEF AppRequest
      <4> QED
        BY <4>1 DEF ShortWrites
    <3> QED
      BY <1>0, <1>1, <3>1 DEF SendControl, SendBaudRate
  <2>2. PICK i \in Issuers : \E op, len : len <= PACKET_SIZE /\ Issue(i, op, len, ZeroChunk)
    BY <2>1
  <2>3. PICK op, len : len <= PACKET_SIZE /\ Issue(i, op, len, ZeroChunk)
    BY <2>2
  <2> DEFINE r == [st |-> "queued", op |-> op, len |-> len, tail |-> ZeroChunk]
  <2>4. r.tail = ZeroChunk /\ r.len <= PACKET_SIZE /\ req' = [req EXCEPT ![i] = r]
    BY <2>3 DEF Issue
  <2> HIDE DEF r
  <2>5. \A j \in Issuers : req'[j].tail = ZeroChunk /\ req'[j].len <= PACKET_SIZE
    BY <2>4, ShortRequest
  <2>6. spc' # "tx" \/ UNCHANGED serviceVars
    BY <1>1 DEF AppRequest, SendControl, SendBaudRate
  <2>7. UNCHANGED <<smOut, cb, toSvc, comLog>>
    BY <1>1, <2>3 DEF Issue, pipeVars, AppRequest, SendControl, SendBaudRate, serviceVars
  <2> QED
    BY <1>k, <2>5, <2>6, <2>7, DataKept DEF serviceVars
<1>2. CASE ServiceCrash
  <2>1. NoRequest.tail = ZeroChunk /\ NoRequest.len = 0
    BY DEF NoRequest
  <2>2. \A i \in Issuers : req'[i] \in {req[i], NoRequest}
    BY <1>0, <1>2 DEF ServiceCrash, CancelQueued, ClientInv, DriverInv, DriverTypeOK
  <2>3. \A i \in Issuers : req'[i].tail = ZeroChunk /\ req'[i].len <= PACKET_SIZE
    BY <1>0, <2>1, <2>2
  <2> QED
    BY <1>k, <1>2, <2>3, DataKept DEF ServiceCrash, Crash, ClientClose, pipeVars
<1>3. CASE (ServiceStart \/ OpenPipe \/ SetMode \/ ReadFromCom \/ Reply \/ Exit)
             /\ UNCHANGED driverVars
  BY <1>0, <1>k, <1>3, DataKept
  DEF ServiceStart, OpenPipe, SetMode, ReadFromCom, Reply, Exit, ClientOpen, ClientWrite,
      ClientClose, pipeVars, driverVars
<1>4. CASE VcomFails \/ BaudRateSet
  BY <1>0, <1>k, <1>4, DataKept DEF VcomFails, BaudRateSet, pipeVars, driverVars
<1>5. CASE ForwardToCom /\ UNCHANGED driverVars
  BY <1>0, <1>5, DataKept, BlockAdded DEF ForwardToCom, pipeVars, driverVars
<1>6. CASE ReadPipe /\ UNCHANGED driverVars
  <2>1. CASE ~ClientRead
    BY <1>0, <1>k, <1>6, <2>1, DataKept DEF ReadPipe, pipeVars, driverVars
  <2>2. CASE ClientRead
    <3>1. /\ toSvc # <<>> /\ toSvc' = Tail(toSvc) /\ cli = "open" /\ smRet' = Head(toSvc)
          /\ UNCHANGED <<cb, smOut, req, comLog>>
      BY <1>6, <2>2 DEF ClientRead, ReadPipe, driverVars
    <3>2. /\ Head(toSvc) = toSvc[1] /\ 1 \in 1..Len(toSvc)
          /\ \A k \in 1..Len(toSvc') : k + 1 \in 1..Len(toSvc) /\ toSvc'[k] = toSvc[k + 1]
      BY <3>1, ChunkTaken, PipeTypes
    <3>3. spc' = "tx" => toSvc[1].d = "TX"
      <4>1. Head(toSvc).d \in {"TX", "RX", "NONE"}
        BY <3>1, HeadIsChunk
      <4>2. spc' = CASE Head(toSvc).d = "TX" -> "tx" [] Head(toSvc).d = "RX" -> "rx"
                     [] Head(toSvc).d = "NONE" -> "read"
        BY <1>6, <3>1 DEF ReadPipe
      <4> QED
        BY <3>2, <4>1, <4>2
    <3>4. spc' = "tx" /\ smRet'.len > 0 => Whole(smRet')
      BY <3>1, <3>2, <3>3 DEF DataPart, Whole
    <3>5. \A k \in 1..Len(toSvc') :
            toSvc'[k].d = "TX" /\ toSvc'[k].len > 0 => Whole(toSvc'[k])
      BY <3>2 DEF DataPart, Whole
    <3>6. DataPart'
      BY <3>1, <3>4, <3>5 DEF DataPart, Whole
    <3> QED
      BY <1>k, <3>1, <3>6
  <2> QED
    BY <2>1, <2>2
<1> QED
  BY <1>1, <1>2, <1>3, <1>4, <1>5, <1>6 DEF ServiceStep, ServiceLoop

-----------------------------------------------------------------------------
(* A read that waits is not forgotten.                                     *)

\* A callback enters its wait with a request, and leaves it for good.
LEMMA DriverForgetsNoRead ==
  ASSUME ClientInv, NEW t \in Threads, Callbacks(t)
  PROVE  NoReadForgotten'
<1>0. /\ cb \in [Threads -> Callback]
      /\ \A u \in Threads \ {t} : cb[u].pc = "idle" /\ cb'[u].pc = "idle"
  BY OnlyCallback DEF ClientInv, DriverInv, DriverTypeOK
<1>1. CASE QuietStep
  BY <1>1 DEF QuietStep, NoReadForgotten
<1>2. CASE WriteSent(t) \/ ReadReply(t)
  <2>1. Return(t)
    BY <1>2 DEF WriteSent, SendWrite, ReadReply, ReadNothing
  <2>2. Readers' = {}
    BY <1>0, <2>1, ReturnPlace DEF Readers
  <2> QED
    BY <2>2 DEF NoReadForgotten
<1>3. CASE RequestSent(t)
  <2> DEFINE head == [d |-> "RX", len |-> req[cb[t].iss].len, data |-> Zero]
  <2>1. cb[t].pc = "rwrite" /\ ServerWriteOK(head, ZeroChunk)
    BY <1>3 DEF RequestSent, SendReadRequest
  <2>2. head \in Chunk /\ ZeroChunk \in Chunk
    <3>1. cb[t].iss \in Issuers /\ req \in [Issuers -> Request]
      BY <2>1, OthersIdle DEF ClientInv, DriverInv, DriverTypeOK
    <3> QED
      BY <3>1 DEF Chunk, Direction, Request, ZeroChunk, Data, Zero
  <2>3. toSvc \in Seq(Chunk) /\ head.d = "RX"
    BY PipeTypes
  <2>4. toSvc' = toSvc \o <<head, ZeroChunk>>
    BY <2>1 DEF ServerWriteOK
  <2> HIDE DEF head
  <2>5. Len(toSvc) + 1 \in 1..Len(toSvc') /\ toSvc'[Len(toSvc) + 1] = head
    BY <2>2, <2>3, <2>4, PairAdded
  <2> QED
    BY <2>3, <2>5 DEF NoReadForgotten, Requested
<1> QED
  BY <1>1, <1>2, <1>3, HostGone, DriverStepKinds DEF NoReadForgotten

\* A step beside the callbacks that connects nobody and drops nothing
LEMMA ReadKept ==
  ASSUME NoReadForgotten, UNCHANGED <<cb, toDrv>>,
         pipe' = "connected" => pipe = "connected" /\ toSvc' = toSvc /\ (Answering => Answering')
  PROVE  NoReadForgotten'
BY DEF NoReadForgotten, Readers, Requested, Answered

\* The service answers what it has read, and only its end takes the pipe away.
LEMMA ServiceForgetsNoRead ==
  ASSUME ClientInv, WirePart, NoReadForgotten, AppRequest \/ ServiceStep \/ ServiceCrash
  PROVE  NoReadForgotten'
<1>1. cli = "open" <=> pipe = "connected"
  BY DEF ClientInv, DriverInv, ClientPart
<1>2. CASE AppRequest \/ SendControl \/ SendBaudRate \/ VcomFails \/ BaudRateSet
  BY <1>2, ReadKept
  DEF AppRequest, SendControl, SendBaudRate, VcomFails, BaudRateSet, Issue, serviceVars,
      pipeVars, driverVars, Answering
<1>3. CASE (ServiceStart \/ SetMode \/ ForwardToCom \/ ReadFromCom) /\ UNCHANGED driverVars
  BY <1>3, ReadKept
  DEF ServiceStart, SetMode, ForwardToCom, ReadFromCom, pipeVars, driverVars, Answering
<1>4. CASE OpenPipe /\ UNCHANGED driverVars
  <2>1. pipe \in {"created", "listening"} /\ cb' = cb
    BY <1>4 DEF OpenPipe, ClientOpen, driverVars
  <2>2. Readers = {}
    BY <2>1 DEF Readers, ClientInv, DriverInv, PlacePart, ConnectedPart
  <2> QED
    BY <2>1, <2>2 DEF NoReadForgotten, Readers
<1>5. CASE (Exit /\ UNCHANGED driverVars) \/ ServiceCrash
  <2>1. pipe' # "connected"
    BY <1>1, <1>5 DEF Exit, ServiceCrash, Crash, ClientClose, pipeVars
  <2> QED
    BY <2>1 DEF NoReadForgotten
<1>6. CASE ReadPipe /\ UNCHANGED driverVars
  <2>1. CASE ~ClientRead
    BY <1>6, <2>1, ReadKept DEF ReadPipe, pipeVars, driverVars, Answering
  <2>2. CASE ClientRead
    <3>1. /\ toSvc # <<>> /\ toSvc' = Tail(toSvc) /\ spc = "read"
          /\ UNCHANGED <<pipe, toDrv, cb>>
      BY <1>6, <2>2 DEF ClientRead, ReadPipe, driverVars
    <3>2. toSvc \in Seq(Chunk)
      BY PipeTypes
    <3>3. /\ Len(toSvc) \in Nat /\ Len(toSvc') = Len(toSvc) - 1 /\ Head(toSvc) = toSvc[1]
          /\ \A k \in 1..Len(toSvc') : toSvc'[k] = toSvc[k + 1]
      BY <3>1, <3>2, ChunkTaken
    <3>4. ASSUME NEW k \in 1..Len(toSvc), toSvc[k].d = "RX"
          PROVE  Requested' \/ Answering'
      <4>1. CASE k = 1
        <5>1. spc' = "rx"
          BY <1>6, <2>2, <3>1, <3>3, <3>4, <4>1 DEF ReadPipe, ClientRead
        <5> QED
          BY <5>1 DEF Answering
      <4>2. CASE k # 1
        <5>1. k - 1 \in 1..Len(toSvc') /\ toSvc'[k - 1] = toSvc[k]
          BY <3>3, <4>2
        <5> QED
          BY <3>4, <5>1 DEF Requested
      <4> QED
        BY <4>1, <4>2
    <3>5. Requested => Requested' \/ Answering'
      BY <3>4 DEF Requested
    <3>6. ~Answering /\ Readers' = Readers /\ (Answered' <=> Answered)
      BY <3>1 DEF Answering, Readers, Answered
    <3> QED
      BY <3>1, <3>5, <3>6 DEF NoReadForgotten
  <2> QED
    BY <2>1, <2>2
<1>7. CASE Reply /\ UNCHANGED driverVars
  <2>1. toDrv' = Append(toDrv, smReply)
    BY <1>7 DEF Reply, ClientWrite, Answering, WirePart
  <2>2. toDrv \in Seq(Chunk) /\ smReply \in Chunk
    BY PipeTypes DEF ClientInv, ServiceTypeOK
  <2>3. Len(toDrv') # 0 /\ Len(<<>>) = 0
    BY <2>1, <2>2
  <2> QED
    BY <2>3 DEF NoReadForgotten, Answered
<1> QED
  BY <1>2, <1>3, <1>4, <1>5, <1>6, <1>7 DEF ServiceStep, ServiceLoop

-----------------------------------------------------------------------------
(* What the reads of an application get.                                   *)

\* A step that brings no answer and reads nothing from the real port
LEMMA ReadsKept ==
  ASSUME PortPart, ReadFits, UNCHANGED <<readLog, comIn>>, toDrv' \in {toDrv, <<>>},
         spc' = "reply" => spc = "reply" /\ smReply' = smReply
  PROVE  PortPart' /\ ReadFits'
<1>1. Len(<<>>) = 0
  OBVIOUS
<1>2. PortPart'
  BY <1>1 DEF PortPart, BlockRead
<1>3. ReadFits'
  BY DEF ReadFits
<1> QED
  BY <1>2, <1>3

\* OnRead logs answers only when they are blocks that fit.
LEMMA DriverReads ==
  ASSUME ClientInv, ReplyFits, PortPart, ReadFits,
         NEW t \in Threads, Callbacks(t), UNCHANGED serviceVars
  PROVE  PortPart' /\ ReadFits'
<1>0. /\ UNCHANGED <<spc, comIn, smReply>>
      /\ toDrv \in Seq(Chunk)
  BY PipeTypes DEF serviceVars
<1>1. CASE ~ReadReply(t)
  <2>1. UNCHANGED readLog /\ toDrv' \in {toDrv, <<>>}
    BY <1>1
    DEF Callbacks, Dispatch, CreatePipe, CreatePipeFails, WaitForClient, ClientConnected,
        ConnectFails, WriteBytes, SendWrite, StartRead, SendReadRequest, ReadNothing,
        HostDies, ClosePipes, OtherIoctl, ServerCreate, ServerDestroy, ServerWriteOK,
        pipeVars
  <2> QED
    BY <1>0, <2>1, ReadsKept
<1>2. CASE ReadReply(t) /\ ReadNothing(t)
  BY <1>0, <1>2, ReadsKept DEF ReadNothing, pipeVars
<1>3. CASE ReadReply(t) /\ ~ReadNothing(t)
  <2> DEFINE m == Head(toDrv)
             e == [asked |-> req[cb[t].iss].len, got |-> m.len, data |-> m.data]
  <2>1. t \in Readers /\ cb[t].iss \in Issuers /\ req[cb[t].iss].len \in Nat
    BY <1>3, ReaderActive DEF ReadReply, Readers
  <2>2. /\ toDrv # <<>> /\ toDrv' = Tail(toDrv)
        /\ m.d = "NONE" => m.len >= 0
        /\ readLog' = IF m.d = "NONE" THEN Append(readLog, e) ELSE readLog
    BY <1>3 DEF ReadReply, ServerReadOK
  <2>3. /\ m = toDrv[1] /\ 1 \in 1..Len(toDrv)
        /\ \A k \in 1..Len(toDrv') : k + 1 \in 1..Len(toDrv) /\ toDrv'[k] = toDrv[k + 1]
    BY <1>0, <2>2, ChunkTaken
  <2>4. toDrv[1] \in Chunk
    BY <1>0, <2>3
  <2>5. m.len \in Int /\ m.len <= req[cb[t].iss].len /\ BlockRead(m)
    BY <2>1, <2>3, <2>4 DEF PortPart, ReplyFits, Chunk
  <2>6. PortPart'
    BY <1>0, <2>3 DEF PortPart, BlockRead
  <2>7. CASE m.d # "NONE"
    BY <1>0, <2>2, <2>6, <2>7 DEF ReadFits
  <2>8. CASE m.d = "NONE"
    <3>1. e.got \in 0..e.asked /\ (e.got > 0 => \E j \in 1..comIn : e.data = RxData(j, e.got))
      BY <2>1, <2>2, <2>5, <2>8 DEF BlockRead
    <3>2. readLog' = Append(readLog, e)
      BY <2>2, <2>8
    <3> DEFINE S == [asked : Nat, got : Int, data : Data]
    <3>3. readLog \in Seq(S)
      BY DEF ClientInv, DriverInv, DriverTypeOK
    <3> HIDE DEF S, e
    <3>4. Len(readLog') = Len(readLog) + 1 /\ Len(readLog) \in Nat
      BY <3>2, <3>3
    <3>5. \A k \in 1..Len(readLog') : readLog'[k] = e \/
            (k \in 1..Len(readLog) /\ readLog'[k] = readLog[k])
      BY <3>2, <3>3, <3>4
    <3>6. ReadFits'
      BY <1>0, <3>1, <3>5 DEF ReadFits
    <3> QED
      BY <2>6, <3>6
  <2> QED
    BY <2>7, <2>8
<1> QED
  BY <1>1, <1>2, <1>3

\* The service answers with the block it has just read.
LEMMA ServiceReads ==
  ASSUME ClientInv, PortPart, ReadFits, AppRequest \/ ServiceStep \/ ServiceCrash
  PROVE  PortPart' /\ ReadFits'
<1>0. comIn \in Nat /\ smReply \in Chunk
  BY DEF ClientInv, ServiceTypeOK
<1>1. CASE AppRequest \/ SendControl \/ SendBaudRate \/ VcomFails \/ BaudRateSet
  BY <1>1, ReadsKept
  DEF AppRequest, SendControl, SendBaudRate, VcomFails, BaudRateSet, Issue, pipeVars,
      driverVars, serviceVars
<1>2. CASE ServiceCrash
  BY <1>2, ReadsKept DEF ServiceCrash, Crash, ClientClose, pipeVars
<1>3. CASE (ServiceStart \/ OpenPipe \/ SetMode \/ ForwardToCom \/ Exit) /\ UNCHANGED driverVars
  BY <1>3, ReadsKept
  DEF ServiceStart, OpenPipe, SetMode, ForwardToCom, Exit, ClientOpen, ClientClose,
      pipeVars, driverVars
<1>4. CASE ReadPipe /\ UNCHANGED driverVars
  <2>1. CASE ~ClientRead
    BY <1>4, <2>1, ReadsKept DEF ReadPipe, pipeVars, driverVars
  <2>2. CASE ClientRead
    <3>1. UNCHANGED <<toDrv, readLog, comIn>>
      BY <1>4, <2>2 DEF ClientRead, ReadPipe, driverVars
    <3>2. Head(toSvc).d \in {"TX", "RX", "NONE"}
      BY <2>2, HeadIsChunk DEF ClientRead
    <3>3. spc' # "reply"
      <4>1. cli = "open"
        BY <2>2 DEF ClientRead
      <4>2. spc' = CASE Head(toSvc).d = "TX" -> "tx" [] Head(toSvc).d = "RX" -> "rx"
                     [] Head(toSvc).d = "NONE" -> "read"
        BY <1>4, <4>1 DEF ReadPipe
      <4> QED
        BY <3>2, <4>2
    <3> QED
      BY <3>1, <3>3, ReadsKept
  <2> QED
    BY <2>1, <2>2
<1>5. CASE ReadFromCom /\ UNCHANGED driverVars
  <2>1. UNCHANGED <<toDrv, readLog>>
    BY <1>5 DEF ReadFromCom, pipeVars, driverVars
  <2>2. /\ comIn' \in {comIn, comIn + 1}
        /\ smReply'.len > 0 => \E j \in 1..comIn' : smReply'.data = RxData(j, smReply'.len)
    <3>1. ASSUME NEW n \in BlockSizes,
                 comIn' = IF n > 0 THEN comIn + 1 ELSE comIn,
                 smReply' = [d |-> "NONE", len |-> n,
                             data |-> IF n > 0 THEN RxData(comIn + 1, n) ELSE Zero],
                 smReply'.len > 0
          PROVE  smReply'.data = RxData(comIn', smReply'.len) /\ comIn' \in 1..comIn'
      <4>1. n > 0 /\ n \in Nat
        BY <3>1, ServiceAssumption
      <4>2. comIn' = comIn + 1 /\ smReply'.data = RxData(comIn + 1, n) /\ smReply'.len = n
        BY <3>1, <4>1
      <4> QED
        BY <1>0, <4>2
    <3>2. ASSUME smReply' = [smReply EXCEPT !.d = "NONE", !.len = -1]
          PROVE  ~(smReply'.len > 0)
      BY <1>0, <3>2 DEF Chunk
    <3> QED
      BY <1>5, <3>1, <3>2 DEF ReadFromCom
  <2>3. \A j \in 1..comIn : j \in 1..comIn'
    BY <1>0, <2>2
  <2>4. PortPart'
    BY <2>1, <2>2, <2>3 DEF PortPart, BlockRead
  <2>5. ReadFits'
    BY <2>1, <2>3 DEF ReadFits
  <2> QED
    BY <2>4, <2>5
<1>6. CASE Reply /\ UNCHANGED driverVars
  <2>1. CASE ~ClientWrite(smReply)
    BY <1>6, <2>1, ReadsKept DEF Reply, pipeVars, driverVars
  <2>2. CASE ClientWrite(smReply)
    <3>1. /\ spc = "reply" /\ spc' = "read" /\ toDrv' = Append(toDrv, smReply)
          /\ UNCHANGED <<comIn, readLog>>
      BY <1>6, <2>2 DEF Reply, ClientWrite, driverVars, ClientInv, DriverInv
    <3>2. BlockRead(smReply)
      BY <3>1 DEF PortPart
    <3>3. \A k \in 1..Len(toDrv') : toDrv'[k] = smReply \/
            (k \in 1..Len(toDrv) /\ toDrv'[k] = toDrv[k])
      BY <1>0, <3>1, PipeTypes, AppendProperties
    <3>4. PortPart'
      BY <3>1, <3>2, <3>3 DEF PortPart, BlockRead
    <3>5. ReadFits'
      BY <3>1 DEF ReadFits
    <3> QED
      BY <3>4, <3>5
  <2> QED
    BY <2>1, <2>2
<1> QED
  BY <1>1, <1>2, <1>3, <1>4, <1>5, <1>6 DEF ServiceStep, ServiceLoop

-----------------------------------------------------------------------------
(* The whole invariant.                                                    *)

LEMMA BridgeInitInv == BridgeInit => BridgeInv
<1> SUFFICES ASSUME BridgeInit PROVE BridgeInv
  OBVIOUS
<1> USE DEF BridgeInit, DriverInit, PipeInit, ServiceInit
<1>0. Len(<<>>) = 0 /\ 0 <= PACKET_SIZE
  BY PipeAssumption
<1>1. ClientInv
  BY ClientInitInv
<1>2. Readers = {}
  BY DEF Readers, NoCallback
<1>3. WirePart /\ OneExchange
  BY <1>0, <1>2
  DEF WirePart, OneExchange, AtMostOneExchange, NoReadForgotten, Requested, Answering, Answered
<1>4. ReplyPart /\ ReplyFits
  BY <1>2 DEF ReplyPart, ReplyFits
<1>5. DataPart /\ ForwardedIntact
  BY <1>0 DEF DataPart, ForwardedIntact, NoRequest, NoCallback, NewMessage
<1>6. PortPart /\ ReadFits
  BY <1>0 DEF PortPart, ReadFits
<1> QED
  BY <1>1, <1>3, <1>4, <1>5, <1>6 DEF BridgeInv

LEMMA BridgeNextInv ==
  ASSUME EnvChunks = Chunk, ShortWrites, BridgeInv, [BridgeNext]_vars
  PROVE  BridgeInv'
<1>0. /\ ClientInv /\ WirePart /\ AtMostOneExchange /\ NoReadForgotten
      /\ ReplyPart /\ ReplyFits /\ DataPart /\ ForwardedIntact /\ PortPart /\ ReadFits
  BY DEF BridgeInv, OneExchange
<1>1. ClientInv'
  BY <1>0, ClientNextInv
<1>2. CASE UNCHANGED vars
  <2>1. WirePart' /\ OneExchange'
    BY <1>0, <1>2
    DEF vars, bvars, pipeVars, driverVars, serviceVars, WirePart, OneExchange,
        AtMostOneExchange, NoReadForgotten, Requested, Answering, Answered, Readers
  <2>2. ReplyPart' /\ ReplyFits'
    BY <1>0, <1>2
    DEF vars, bvars, pipeVars, driverVars, serviceVars, ReplyPart, ReplyFits, Readers
  <2>3. DataPart' /\ ForwardedIntact'
    BY <1>0, <1>2
    DEF vars, bvars, pipeVars, driverVars, serviceVars, DataPart, ForwardedIntact, Whole
  <2>4. PortPart' /\ ReadFits'
    BY <1>0, <1>2, ReadsKept DEF vars, bvars, pipeVars, driverVars, serviceVars
  <2> QED
    BY <1>1, <2>1, <2>2, <2>3, <2>4 DEF BridgeInv
<1>3. CASE DriverStep /\ UNCHANGED serviceVars /\ faulted' = (faulted \/ Fault)
  <2>1. PICK t \in Threads : Callbacks(t)
    BY <1>3 DEF DriverStep
  <2> QED
    BY <1>0, <1>1, <1>3, <2>1, DriverExchange, DriverForgetsNoRead, DriverReplies,
       DriverData, DriverReads
    DEF BridgeInv, OneExchange
<1>4. CASE (AppRequest \/ ServiceStep \/ ServiceCrash) /\ faulted' = (faulted \/ Fault)
  BY <1>0, <1>1, <1>4, ServiceExchange, ServiceForgetsNoRead, ServiceReplies, ServiceData,
     ServiceReads
  DEF BridgeInv, OneExchange
<1> QED
  BY <1>2, <1>3, <1>4 DEF BridgeNext

\* The exchange, its lengths and its bytes are kept by every step of the driver, the
\* service and the applications, as long as no application writes more than a
\* packet at once.
THEOREM BridgeInvariant ==
  ASSUME EnvChunks = Chunk, ShortWrites PROVE BridgeSpec => []BridgeInv
<1>1. BridgeInv /\ [BridgeNext]_vars => BridgeInv'
  BY BridgeNextInv
<1> QED
  BY <1>1, BridgeInitInv, PTL DEF BridgeSpec

\* Reads are answered one at a time: no reply meets a read it was not made for,
\* whoever dies or is started again in the middle of OnRead, and no read that
\* waits on a connected pipe has lost its request or its reply.
THEOREM ExchangesAreSingle ==
  ASSUME EnvChunks = Chunk, ShortWrites PROVE BridgeSpec => []OneExchange
<1>1. BridgeInv => OneExchange
  BY DEF BridgeInv
<1> QED
  BY <1>1, BridgeInvariant, PTL

\* A reply never states more bytes than the application's buffer holds, so that
\* OnRead's unchecked copy of the stated length stays in it.
THEOREM RepliesFit ==
  ASSUME EnvChunks = Chunk, ShortWrites PROVE BridgeSpec => []ReplyFits
<1>1. BridgeInv => ReplyFits
  BY DEF BridgeInv
<1> QED
  BY <1>1, BridgeInvariant, PTL

\* What the real port takes is each time the beginning of one accepted write, never
\* other bytes and never more of them, and all of the write while nothing has failed:
\* no timeout has cut a write short, the port opens, the service has not died.
THEOREM WritesArriveWhole ==
  ASSUME EnvChunks = Chunk, ShortWrites PROVE BridgeSpec => []ForwardedIntact
<1>1. BridgeInv => ForwardedIntact
  BY DEF BridgeInv
<1> QED
  BY <1>1, BridgeInvariant, PTL

\* A read of an application completes with no more bytes than it asked for, and they are
\* one block of the real port with its own length, whatever fails: a read of the port
\* that failed before, a service that died, a reply that was never fetched.
THEOREM ReadsGetBlocks ==
  ASSUME EnvChunks = Chunk, ShortWrites PROVE BridgeSpec => []ReadFits
<1>1. BridgeInv => ReadFits
  BY DEF BridgeInv
<1> QED
  BY <1>1, BridgeInvariant, PTL

\* A message in the pipe carries the bytes of the write it was made for, although
\* smOut is shared and the write has been completed before it is sent.
THEOREM WritesAreSentWhole ==
  ASSUME EnvChunks = Chunk, ShortWrites PROVE BridgeSpec => []SentIntact
<1>1. BridgeInv => SentIntact
  <2>1. \A c : Whole(c) => c.data[1] = "tx" /\ c.data[3] = c.len
    BY DEF Whole, TxData
  <2> QED
    BY <2>1 DEF BridgeInv, DataPart, SentIntact
<1> QED
  BY <1>1, BridgeInvariant, PTL
=============================================================================
