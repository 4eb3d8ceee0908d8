---------------------------- MODULE SerialService ----------------------------
(***************************************************************************)
(* SerialService in server mode: waitForMsg of SerialService.cpp, which    *)
(* serves the driver through the pipe, and the COMPortManager through      *)
(* which it uses the real COM port.  What main does before waitForMsg      *)
(* needs the driver, and is in Bridge.                                     *)
(***************************************************************************)
EXTENDS NamedPipe

CONSTANTS
  MaxStarts,    \* bound on how often the service is started
  BlockSizes,   \* sizes of the blocks of bytes the port delivers
  Faults        \* what may go wrong: a subset of AllFaults

\* The real port does not open, a write to it fails or times out, a read from it
\* fails, the virtual port does not open, the service process dies.
AllFaults == {"comopen", "comwrite", "comread", "vcom", "crash"}

ASSUME ServiceAssumption ==
  /\ MaxStarts \in Nat
  /\ BlockSizes \subseteq Nat
  /\ Faults \subseteq AllFaults

VARIABLES
  spc,       \* where the service is; "down" without a process
  smRet,     \* the chunk it read last
  smReply,   \* the reply it is building (smOut in waitForMsg)
  com,       \* hComm is open
  comLog,    \* what the real port has taken: of which write, how many bytes
  comIn,     \* how many blocks have been read from the real port
  starts     \* how often the service has been started

serviceVars == <<spc, smRet, smReply, com, comLog, comIn, starts>>

ServicePcs == {"down", "vcom", "vioctl", "vbaud", "open", "mode", "read",
               "tx", "rx", "reply", "exit"}

\* A SerialMessage of a new process
NoMessage == [d |-> "NONE", len |-> 0, data |-> Zero]

ServiceTypeOK ==
  /\ spc \in ServicePcs
  /\ smRet \in Chunk
  /\ smReply \in Chunk
  /\ com \in BOOLEAN
  /\ comLog \in Seq([data : Data, len : Int])
  /\ comIn \in Nat
  /\ starts \in Nat

ServiceInit ==
  /\ spc = "down"
  /\ smRet = NoMessage
  /\ smReply = NoMessage
  /\ com = FALSE
  /\ comLog = <<>>
  /\ comIn = 0
  /\ starts = 0

\* What hComm may be after OpenRealCOM
ComAfterOpen ==
  IF com THEN {TRUE} ELSE {TRUE} \cup (IF "comopen" \in Faults THEN {FALSE} ELSE {})

\* The process starts, with the globals and buffers of a new process, and opens
\* the real port.
ServiceStart ==
  /\ spc = "down"
  /\ starts < MaxStarts
  /\ starts' = starts + 1
  /\ spc' = "vcom"
  /\ smRet' = NoMessage
  /\ smReply' = NoMessage
  /\ com' \in ComAfterOpen
  /\ UNCHANGED <<comLog, comIn, pipeVars>>

-----------------------------------------------------------------------------
(* waitForMsg                                                              *)

\* The loop around CreateFile ends when the open succeeds.
OpenPipe ==
  /\ spc = "open"
  /\ ClientOpen
  /\ spc' = "mode"
  /\ UNCHANGED <<smRet, smReply, com, comLog, comIn, starts>>

\* SetNamedPipeHandleState fails on a pipe that has been disconnected.
SetMode ==
  /\ spc = "mode"
  /\ spc' = IF cli = "open" THEN "read" ELSE "exit"
  /\ UNCHANGED <<smRet, smReply, com, comLog, comIn, starts, pipeVars>>

\* ReadFile: a chunk, or an error that ends the loop.  ERROR_MORE_DATA is no
\* error, and the rest of the message is read as a message of its own.
ReadPipe ==
  /\ spc = "read"
  /\ \/ /\ ClientRead
        /\ smRet' = Head(toSvc)
        /\ spc' = CASE Head(toSvc).d = "TX"   -> "tx"
                    [] Head(toSvc).d = "RX"   -> "rx"
                    [] Head(toSvc).d = "NONE" -> "read"
     \/ /\ cli = "broken"
        /\ spc' = "exit"
        /\ UNCHANGED <<smRet, pipeVars>>
  /\ UNCHANGED <<smReply, com, comLog, comIn, starts>>

\* Seeded fault: the whole buffer is written, whatever its length.
BytesTaken_WholeBuffer(open) == IF open THEN {PACKET_SIZE} ELSE {0}

\* How many of smRet.len bytes the real port takes: none when it is closed, and any
\* number of them when the write fails or its timeout ends it.
BytesTaken(open) ==
  IF ~open THEN {0}
  ELSE IF "comwrite" \in Faults THEN 0..smRet.len ELSE {smRet.len}

\* What the port has carried once it has taken n bytes of smRet.msg; more than a
\* packet reaches past the buffer.
Written(n) ==
  IF n > 0
  THEN Append(comLog, [data |-> IF n <= PACKET_SIZE THEN smRet.data ELSE Junk, len |-> n])
  ELSE comLog

\* Seeded fault: a write that was cut short is tried again from its beginning.
ForwardToCom_Retry ==
  /\ spc = "tx"
  /\ com' \in ComAfterOpen
  /\ \E n \in BytesTaken(com') :
       /\ comLog' = Written(n)
       /\ spc' = IF com' /\ n < smRet.len /\ Len(comLog) < 4 THEN "tx" ELSE "read"
  /\ UNCHANGED <<smRet, smReply, comIn, starts, pipeVars>>

\* TX: WriteRealCOM, which opens the port when it is closed.  Its result is
\* ignored, so what the port did not take is lost.
ForwardToCom ==
  /\ spc = "tx"
  /\ com' \in ComAfterOpen
  /\ \E n \in BytesTaken(com') : comLog' = Written(n)
  /\ spc' = "read"
  /\ UNCHANGED <<smRet, smReply, comIn, starts, pipeVars>>

\* Seeded fault: the port is asked for a whole packet.
RequestedLen_Packet == PACKET_SIZE

RequestedLen == IF smRet.len < PACKET_SIZE THEN smRet.len ELSE PACKET_SIZE

\* Seeded fault: nothing is answered when the read of the port timed out.
ReadFromCom_SilentTimeout ==
  /\ spc = "rx"
  /\ com
  /\ \E n \in BlockSizes :
       /\ n <= RequestedLen
       /\ comIn' = IF n > 0 THEN comIn + 1 ELSE comIn
       /\ smReply' = [d |-> "NONE", len |-> n,
                      data |-> IF n > 0 THEN RxData(comIn + 1, n) ELSE Zero]
       /\ spc' = IF n > 0 THEN "reply" ELSE "read"
  /\ UNCHANGED <<smRet, com, comLog, starts, pipeVars>>

\* RX: ReadRealCOM.  A timeout gives fewer bytes, perhaps none; a failure gives
\* the length -1 and leaves the bytes of the last reply in the buffer.
ReadFromCom ==
  /\ spc = "rx"
  /\ \/ \E n \in BlockSizes :
          /\ com
          /\ n <= RequestedLen
          /\ comIn' = IF n > 0 THEN comIn + 1 ELSE comIn
          /\ smReply' = [d |-> "NONE", len |-> n,
                         data |-> IF n > 0 THEN RxData(comIn + 1, n) ELSE Zero]
     \/ /\ ~com \/ RequestedLen < 0 \/ "comread" \in Faults
        /\ smReply' = [smReply EXCEPT !.d = "NONE", !.len = -1]
        /\ UNCHANGED comIn
  /\ spc' = "reply"
  /\ UNCHANGED <<smRet, com, comLog, starts, pipeVars>>

Reply ==
  /\ spc = "reply"
  /\ \/ ClientWrite(smReply) /\ spc' = "read"
     \/ cli = "broken" /\ spc' = "exit" /\ UNCHANGED pipeVars
  /\ UNCHANGED <<smRet, smReply, com, comLog, comIn, starts>>

\* waitForMsg returns and main closes everything and ends.
Exit ==
  /\ spc = "exit"
  /\ ClientClose
  /\ spc' = "down"
  /\ com' = FALSE
  /\ UNCHANGED <<smRet, smReply, comLog, comIn, starts>>

\* The process dies.
Crash ==
  /\ "crash" \in Faults
  /\ spc # "down"
  /\ IF cli = "none" THEN UNCHANGED pipeVars ELSE ClientClose
  /\ spc' = "down"
  /\ com' = FALSE
  /\ UNCHANGED <<smRet, smReply, comLog, comIn, starts>>

ServiceLoop ==
  \/ OpenPipe \/ SetMode \/ ReadPipe \/ ForwardToCom \/ ReadFromCom \/ Reply
  \/ Exit
=============================================================================
