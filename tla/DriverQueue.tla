----------------------------- MODULE DriverQueue -----------------------------
(***************************************************************************)
(* CMyQueue of queue.cpp: the callbacks OnWrite, OnRead and                *)
(* OnDeviceIoControl of the virtual COM driver, run by framework threads   *)
(* under the device lock (SetLockingConstraint(WdfDeviceLevel) in          *)
(* device.cpp), and the pipe they share through the globals pipeOpen,      *)
(* fConnected, _pipe and smOut.                                            *)
(*                                                                         *)
(* DriverSpec puts the driver next to any pipe client at all; Bridge       *)
(* replaces that client by SerialService.                                  *)
(***************************************************************************)
EXTENDS NamedPipe

CONSTANTS
  Issuers,        \* streams of requests, each with one request at a time
  Threads,        \* framework threads that run callbacks
  NoThread,       \* the device lock is free
  NoIssuer,       \* no request
  MSG_SIZE,       \* payload of a message of the driver (2048)
  Ops,            \* requests the issuers send
  Lengths,        \* lengths they ask for
  Tails,          \* what a write longer than PACKET_SIZE leaves in msg[1024..]
  EnvChunks,      \* messages the client may write
  MaxRequests,    \* bound on the requests of each issuer
  CreateMayFail   \* CreateNamedPipe may return INVALID_HANDLE_VALUE

AllOps == {"write", "read", "baud", "ioctl"}

ASSUME DriverAssumption ==
  /\ NoThread \notin Threads
  /\ NoIssuer \notin Issuers
  /\ MSG_SIZE \in Nat /\ PACKET_SIZE <= MSG_SIZE
  /\ Ops \subseteq AllOps
  /\ Lengths \subseteq Nat
  /\ Tails \subseteq Chunk
  /\ EnvChunks \subseteq Chunk
  /\ MaxRequests \in [Issuers -> Nat]
  /\ CreateMayFail \in BOOLEAN

VARIABLES
  pipeOpen,     \* an open has been tried and not undone by closePipes
  fConnected,   \* ConnectNamedPipe found a client
  hPipe,        \* _pipe: "null", "invalid", "live", or "stale" once closed
  smOut,        \* the message buffer that writes and reads share
  lock,         \* the thread that holds the device lock
  cb,           \* the callback each thread runs: its place and its request
  req,          \* the request of each issuer
  issued,       \* how many requests each issuer has sent
  acked,        \* how many writes have been completed
  readLog       \* what completed reads were asked and got

driverVars == <<pipeOpen, fConnected, hPipe, smOut, lock, cb, req, issued,
                acked, readLog>>
dvars == <<pipeVars, driverVars>>

Pcs == {"idle", "create", "connect", "listen", "write", "wfile",
        "read", "rwrite", "rread", "flush", "ioctl"}

Request == [st : {"none", "queued", "active"}, op : AllOps, len : Nat,
            tail : Chunk]
NoRequest == [st |-> "none", op |-> "read", len |-> 0, tail |-> ZeroChunk]
Callback == [pc : Pcs, iss : Issuers \cup {NoIssuer}]
NoCallback == [pc |-> "idle", iss |-> NoIssuer]

\* smOut of a new host process
NewMessage == [d |-> "TX", len |-> 0, data |-> Zero, tail |-> ZeroChunk]

DriverTypeOK ==
  /\ PipeTypeOK
  /\ pipeOpen \in BOOLEAN
  /\ fConnected \in BOOLEAN
  /\ hPipe \in {"null", "invalid", "live", "stale"}
  /\ smOut \in [d : Direction, len : Int, data : Data, tail : Chunk]
  /\ lock \in Threads \cup {NoThread}
  /\ cb \in [Threads -> Callback]
  /\ req \in [Issuers -> Request]
  /\ issued \in [Issuers -> Nat]
  /\ acked \in Nat
  /\ readLog \in Seq([asked : Nat, got : Int, data : Data])

DriverInit ==
  /\ PipeInit
  /\ pipeOpen = FALSE
  /\ fConnected = FALSE
  /\ hPipe = "null"
  /\ smOut = NewMessage
  /\ lock = NoThread
  /\ cb = [t \in Threads |-> NoCallback]
  /\ req = [i \in Issuers |-> NoRequest]
  /\ issued = [i \in Issuers |-> 0]
  /\ acked = 0
  /\ readLog = <<>>

-----------------------------------------------------------------------------
(* The framework: requests arrive, one callback at a time is dispatched.   *)

Issue(i, op, len, tail) ==
  /\ req[i].st = "none"
  /\ issued[i] < MaxRequests[i]
  /\ req' = [req EXCEPT ![i] = [st |-> "queued", op |-> op, len |-> len,
                                tail |-> tail]]
  /\ issued' = [issued EXCEPT ![i] = @ + 1]
  /\ UNCHANGED <<pipeVars, pipeOpen, fConnected, hPipe, smOut, lock, cb,
                 acked, readLog>>

\* The issuer's process dies before its request is dispatched.
CancelQueued(i) ==
  req' = [req EXCEPT ![i] = IF @.st = "queued" THEN NoRequest ELSE @]

\* Seeded fault: OnWrite does not open the pipe.
EntryPc_WriteWithoutOpen(op) ==
  CASE op = "read" /\ ~pipeOpen -> "create"
    [] op = "read" /\ pipeOpen  -> "read"
    [] op = "write" -> "write"
    [] op = "baud"  -> "flush"
    [] op = "ioctl" -> "ioctl"

\* Where a callback for op begins: OnWrite and OnRead open the pipe first.
EntryPc(op) ==
  CASE op \in {"write", "read"} /\ ~pipeOpen -> "create"
    [] op \in {"write", "read"} /\ pipeOpen  -> op
    [] op = "baud"  -> "flush"
    [] op = "ioctl" -> "ioctl"

\* Seeded fault: no SetLockingConstraint, callbacks run side by side.
LockFree_NoDeviceLock(t) == cb[t].pc = "idle"

LockFree(t) == lock = NoThread /\ cb[t].pc = "idle"

Dispatch(t, i) ==
  /\ LockFree(t)
  /\ req[i].st = "queued"
  /\ req' = [req EXCEPT ![i].st = "active"]
  /\ lock' = t
  /\ cb' = [cb EXCEPT ![t] = [pc |-> EntryPc(req[i].op), iss |-> i]]
  /\ UNCHANGED <<pipeVars, pipeOpen, fConnected, hPipe, smOut, issued, acked,
                 readLog>>

\* The callback of t goes on at pc.
Goto(t, pc) ==
  /\ cb' = [cb EXCEPT ![t].pc = pc]
  /\ UNCHANGED lock

\* The callback returns and the framework gives the lock up.
Return(t) ==
  /\ cb' = [cb EXCEPT ![t] = NoCallback]
  /\ lock' = NoThread

Complete(i) == req' = [req EXCEPT ![i] = NoRequest]

-----------------------------------------------------------------------------
(* openPipes                                                               *)

\* pipeOpen = TRUE, then CreateNamedPipe
CreatePipe(t) ==
  /\ cb[t].pc = "create"
  /\ pipeOpen' = TRUE
  /\ hPipe' = "live"
  /\ ServerCreate
  /\ Goto(t, "connect")
  /\ UNCHANGED <<fConnected, smOut, req, issued, acked, readLog>>

CreatePipeFails(t) ==
  /\ CreateMayFail
  /\ cb[t].pc = "create"
  /\ pipeOpen' = FALSE
  /\ hPipe' = "invalid"
  /\ Goto(t, req[cb[t].iss].op)
  /\ UNCHANGED <<pipeVars, fConnected, smOut, req, issued, acked, readLog>>

\* ConnectNamedPipe on an instance no client has opened yet: it blocks, with
\* the device lock held.
WaitForClient(t) ==
  /\ cb[t].pc = "connect"
  /\ pipe = "created"
  /\ pipe' = "listening"
  /\ Goto(t, "listen")
  /\ UNCHANGED <<cli, toSvc, toDrv, pipeOpen, fConnected, hPipe, smOut, req,
                 issued, acked, readLog>>

\* ConnectNamedPipe succeeds, at once (ERROR_PIPE_CONNECTED) or after a wait.
ClientConnected(t) ==
  /\ \/ cb[t].pc = "connect" /\ pipe = "connected"
     \/ cb[t].pc = "listen" /\ pipe \in {"connected", "clientGone"}
  /\ fConnected' = TRUE
  /\ Goto(t, req[cb[t].iss].op)
  /\ UNCHANGED <<pipeVars, pipeOpen, hPipe, smOut, req, issued, acked, readLog>>

\* Seeded fault: every failure of ConnectNamedPipe counts as a connection.
ConnectFails_TakenAsSuccess(t) ==
  /\ cb[t].pc = "connect"
  /\ pipe = "clientGone"
  /\ fConnected' = TRUE
  /\ hPipe' = "stale"
  /\ ServerDestroy
  /\ Goto(t, req[cb[t].iss].op)
  /\ UNCHANGED <<pipeOpen, smOut, req, issued, acked, readLog>>

\* The client came and went before ConnectNamedPipe was called (ERROR_NO_DATA):
\* the handle is closed and pipeOpen stays TRUE.
ConnectFails(t) ==
  /\ cb[t].pc = "connect"
  /\ pipe = "clientGone"
  /\ fConnected' = FALSE
  /\ hPipe' = "stale"
  /\ ServerDestroy
  /\ Goto(t, req[cb[t].iss].op)
  /\ UNCHANGED <<pipeOpen, smOut, req, issued, acked, readLog>>

-----------------------------------------------------------------------------
(* OnWrite and ProcessWriteBytes                                           *)

UsesPipe == hPipe # "invalid" /\ fConnected

\* Seeded fault: the bound of the copy is one too small.
CopiedIn_OffByOne(n, L, tail) ==
  IF L + 1 < MSG_SIZE
  THEN [smOut EXCEPT !.data = TxData(n, L),
                     !.tail = IF L > PACKET_SIZE THEN tail ELSE @]
  ELSE smOut

\* ProcessWriteBytes: what copying write n of L bytes leaves in smOut.msg
CopiedIn(n, L, tail) ==
  IF L < MSG_SIZE
  THEN [smOut EXCEPT !.data = TxData(n, L),
                     !.tail = IF L > PACKET_SIZE THEN tail ELSE @]
  ELSE smOut

\* The bytes are copied and the request is completed, before the pipe is used.
WriteBytes(t) ==
  LET r == req[cb[t].iss] IN
  /\ cb[t].pc = "write"
  /\ acked' = acked + 1
  /\ Complete(cb[t].iss)
  /\ IF UsesPipe
     THEN /\ smOut' = [CopiedIn(acked + 1, r.len, r.tail)
                         EXCEPT !.d = "TX", !.len = r.len]
          /\ Goto(t, "wfile")
     ELSE /\ smOut' = CopiedIn(acked + 1, r.len, r.tail)
          /\ Return(t)
  /\ UNCHANGED <<pipeVars, pipeOpen, fConnected, hPipe, issued, readLog>>

\* WriteFile(_pipe, &smOut); its result is ignored.
SendWrite(t) ==
  /\ cb[t].pc = "wfile"
  /\ \/ /\ hPipe = "live"
        /\ ServerWriteOK([d |-> smOut.d, len |-> smOut.len, data |-> smOut.data],
                         smOut.tail)
     \/ /\ hPipe # "live" \/ pipe # "connected"
        /\ UNCHANGED pipeVars
  /\ Return(t)
  /\ UNCHANGED <<pipeOpen, fConnected, hPipe, smOut, req, issued, acked, readLog>>

-----------------------------------------------------------------------------
(* OnRead                                                                  *)

\* ZeroMemory of the head of smOut.msg, whose rest the tokens do not tell apart;
\* or the read completes with no bytes.
StartRead(t) ==
  /\ cb[t].pc = "read"
  /\ IF UsesPipe
     THEN /\ smOut' = [smOut EXCEPT !.data = Zero]
          /\ Goto(t, "rwrite")
          /\ UNCHANGED req
     ELSE /\ Complete(cb[t].iss)
          /\ Return(t)
          /\ UNCHANGED smOut
  /\ UNCHANGED <<pipeVars, pipeOpen, fConnected, hPipe, issued, acked, readLog>>

\* The read completes with no bytes and no error.
ReadNothing(t) ==
  /\ Complete(cb[t].iss)
  /\ Return(t)
  /\ UNCHANGED <<pipeVars, pipeOpen, fConnected, hPipe, smOut, issued, acked,
                 readLog>>

\* WriteFile(_pipe, &smInput)
SendReadRequest(t) ==
  /\ cb[t].pc = "rwrite"
  /\ \/ /\ hPipe = "live"
        /\ ServerWriteOK([d |-> "RX", len |-> req[cb[t].iss].len, data |-> Zero],
                         ZeroChunk)
        /\ Goto(t, "rread")
        /\ UNCHANGED <<pipeOpen, fConnected, hPipe, smOut, req, issued, acked,
                       readLog>>
     \/ /\ hPipe # "live" \/ pipe # "connected"
        /\ ReadNothing(t)

\* Seeded fault: OnRead may give up waiting (a timeout that leaves the exchange open).
ReadReply_Timeout(t) ==
  LET m == Head(toDrv)
      i == cb[t].iss
  IN
  /\ cb[t].pc = "rread"
  /\ \/ /\ ServerReadOK
        /\ smOut' = [smOut EXCEPT !.d = m.d, !.len = m.len, !.data = m.data]
        /\ readLog' = Append(readLog, [asked |-> req[i].len, got |-> m.len,
                                      data |-> m.data])
        /\ Complete(i)
        /\ Return(t)
        /\ UNCHANGED <<pipeOpen, fConnected, hPipe, issued, acked>>
     \/ ReadNothing(t)

\* Seeded fault: the read completes with the length it asked for.
ReadReply_AskedLength(t) ==
  LET m == Head(toDrv)
      i == cb[t].iss
  IN
  /\ cb[t].pc = "rread"
  /\ \/ /\ hPipe = "live"
        /\ ServerReadOK
        /\ smOut' = [smOut EXCEPT !.d = m.d, !.len = m.len, !.data = m.data]
        /\ readLog' = IF m.d = "NONE"
                      THEN Append(readLog, [asked |-> req[i].len, got |-> req[i].len,
                                            data |-> m.data])
                      ELSE readLog
        /\ Complete(i)
        /\ Return(t)
        /\ UNCHANGED <<pipeOpen, fConnected, hPipe, issued, acked>>
     \/ /\ hPipe # "live" \/ ServerReadFails
        /\ ReadNothing(t)

\* ReadFile(_pipe, &smOut): the reply is passed on when its direction is NONE,
\* with the length the reply states.  What a negative length does is HostDies.
ReadReply(t) ==
  LET m == Head(toDrv)
      i == cb[t].iss
  IN
  /\ cb[t].pc = "rread"
  /\ \/ /\ hPipe = "live"
        /\ ServerReadOK
        /\ m.d = "NONE" => m.len >= 0
        /\ smOut' = [smOut EXCEPT !.d = m.d, !.len = m.len, !.data = m.data]
        /\ readLog' = IF m.d = "NONE"
                      THEN Append(readLog, [asked |-> req[i].len, got |-> m.len,
                                            data |-> m.data])
                      ELSE readLog
        /\ Complete(i)
        /\ Return(t)
        /\ UNCHANGED <<pipeOpen, fConnected, hPipe, issued, acked>>
     \/ /\ hPipe # "live" \/ ServerReadFails
        /\ ReadNothing(t)

\* The reply states a length that the read's buffer has no room for, or a negative
\* one, which BytesCopied, a SIZE_T, takes for more bytes than there are: CopyMemory
\* runs out of the process's memory and the host process ends.  Its handles are
\* closed, every request fails, and the framework starts a new host for the device.
HostDies(t) ==
  /\ cb[t].pc = "rread"
  /\ hPipe = "live"
  /\ toDrv # <<>>
  /\ Head(toDrv).d = "NONE" /\ Head(toDrv).len \notin 0..req[cb[t].iss].len
  /\ ServerDestroy
  /\ pipeOpen' = FALSE /\ fConnected' = FALSE /\ hPipe' = "null"
  /\ smOut' = NewMessage
  /\ lock' = NoThread
  /\ cb' = [u \in Threads |-> NoCallback]
  /\ req' = [i \in Issuers |-> NoRequest]
  /\ UNCHANGED <<issued, acked, readLog>>

-----------------------------------------------------------------------------
(* OnDeviceIoControl                                                       *)

\* Seeded fault: closePipes without FlushFileBuffers.
ClosePipes_NoFlush(t) ==
  /\ cb[t].pc = "flush"
  /\ IF hPipe = "live"
     THEN ServerDestroy /\ hPipe' = "stale"
     ELSE UNCHANGED <<pipeVars, hPipe>>
  /\ pipeOpen' = FALSE
  /\ fConnected' = FALSE
  /\ Complete(cb[t].iss)
  /\ Return(t)
  /\ UNCHANGED <<smOut, issued, acked, readLog>>

\* Seeded fault: closePipes resets the flags and forgets the handle.
ClosePipes_FlagsOnly(t) ==
  /\ cb[t].pc = "flush"
  /\ pipeOpen' = FALSE
  /\ fConnected' = FALSE
  /\ Complete(cb[t].iss)
  /\ Return(t)
  /\ UNCHANGED <<pipeVars, hPipe, smOut, issued, acked, readLog>>

\* Seeded fault: closePipes does not reset fConnected.
ClosePipes_StaysConnected(t) ==
  /\ cb[t].pc = "flush"
  /\ IF hPipe = "live"
     THEN Flushed /\ ServerDestroy /\ hPipe' = "stale"
     ELSE UNCHANGED <<pipeVars, hPipe>>
  /\ pipeOpen' = FALSE
  /\ Complete(cb[t].iss)
  /\ Return(t)
  /\ UNCHANGED <<fConnected, smOut, issued, acked, readLog>>

\* IOCTL_SERIAL_SET_BAUD_RATE: closePipes, after which the request completes.
\* (The rate itself is never used.)  On a handle that is not live the three
\* calls fail and only the flags change.
ClosePipes(t) ==
  /\ cb[t].pc = "flush"
  /\ IF hPipe = "live"
     THEN Flushed /\ ServerDestroy /\ hPipe' = "stale"
     ELSE UNCHANGED <<pipeVars, hPipe>>
  /\ pipeOpen' = FALSE
  /\ fConnected' = FALSE
  /\ Complete(cb[t].iss)
  /\ Return(t)
  /\ UNCHANGED <<smOut, issued, acked, readLog>>

\* A control request that completes without using the pipe
OtherIoctl(t) ==
  /\ cb[t].pc = "ioctl"
  /\ Complete(cb[t].iss)
  /\ Return(t)
  /\ UNCHANGED <<pipeVars, pipeOpen, fConnected, hPipe, smOut, issued, acked,
                 readLog>>

-----------------------------------------------------------------------------
Callbacks(t) ==
  \/ \E i \in Issuers : Dispatch(t, i)
  \/ CreatePipe(t) \/ CreatePipeFails(t)
  \/ WaitForClient(t) \/ ClientConnected(t) \/ ConnectFails(t)
  \/ WriteBytes(t) \/ SendWrite(t)
  \/ StartRead(t) \/ SendReadRequest(t) \/ ReadReply(t) \/ HostDies(t)
  \/ ClosePipes(t) \/ OtherIoctl(t)

DriverStep == \E t \in Threads : Callbacks(t)

RequestArrives ==
  \E i \in Issuers, op \in Ops, len \in Lengths, tail \in Tails :
    Issue(i, op, len, tail)

RequestCancelled ==
  \E i \in Issuers :
    /\ req[i].st = "queued"
    /\ CancelQueued(i)
    /\ UNCHANGED <<pipeVars, pipeOpen, fConnected, hPipe, smOut, lock, cb,
                   issued, acked, readLog>>

\* Any client of the pipe
PipeClient ==
  /\ \/ ClientOpen \/ ClientClose \/ ClientRead
     \/ \E m \in EnvChunks : ClientWrite(m)
  /\ UNCHANGED driverVars

DriverNext == DriverStep \/ RequestArrives \/ RequestCancelled \/ PipeClient

DriverSpec == DriverInit /\ [][DriverNext]_dvars

-----------------------------------------------------------------------------
(* The inductive invariant behind the safety properties, in named parts.   *)

\* A thread runs a callback, for some request, exactly while it holds the lock.
LockPart ==
  \A t \in Threads : /\ cb[t].pc # "idle" <=> lock = t
                     /\ cb[t].pc # "idle" => cb[t].iss \in Issuers

\* The request of a callback stays active until the callback completes it, and a
\* callback that opens the pipe serves a read or a write.
RequestPart ==
  \A t \in Threads :
    /\ cb[t].pc \notin {"idle", "wfile"} => req[cb[t].iss].st = "active"
    /\ cb[t].pc \in {"create", "connect", "listen"} =>
         req[cb[t].iss].op \in {"write", "read"}

\* _pipe is the live instance exactly while there is one, and pipeOpen then.
HandlePart ==
  /\ hPipe = "live" <=> pipe # "none"
  /\ hPipe = "live" => pipeOpen

\* The client end is open exactly while the instance is connected.
ClientPart ==
  cli = "open" <=> pipe = "connected"

\* fConnected is set for a live instance that has had a client, and an instance
\* without fConnected belongs to the callback that is opening it.
ConnectedPart ==
  /\ fConnected => hPipe = "live" /\ pipe \in {"connected", "clientGone"}
  /\ hPipe = "live" /\ ~fConnected =>
       \E t \in Threads : cb[t].pc \in {"connect", "listen"}

\* What each place in a callback knows of the flags
PlacePart ==
  \A t \in Threads :
    /\ cb[t].pc = "create" => ~pipeOpen
    /\ cb[t].pc \in {"connect", "listen"} => hPipe = "live" /\ ~fConnected
    /\ cb[t].pc = "connect" => pipe # "listening"
    /\ cb[t].pc \in {"wfile", "rwrite", "rread"} => fConnected

DriverInv ==
  /\ DriverTypeOK
  /\ LockPart
  /\ RequestPart
  /\ HandlePart
  /\ ClientPart
  /\ ConnectedPart
  /\ PlacePart

-----------------------------------------------------------------------------
(* Properties                                                              *)

\* The handle given to WriteFile and ReadFile is always the live instance: no
\* callback tests fConnected and then finds the pipe closed under it.
HandleLive ==
  \A t \in Threads : cb[t].pc \in {"wfile", "rwrite", "rread"} => hPipe = "live"

\* A new pipe is created only when the last instance has been closed: an
\* instance is never leaked, and the service can never reach two of them.
NoPipeLeak ==
  \A t \in Threads : cb[t].pc = "create" => pipe = "none"

\* The flags agree with the pipe: a pipe that some client could open belongs to
\* a callback that waits for it, and fConnected means that a client did come.
FlagsAgree ==
  /\ fConnected => hPipe = "live" /\ pipe \in {"connected", "clientGone"}
  /\ pipe \in {"created", "listening"} =>
       \E t \in Threads : cb[t].pc \in {"connect", "listen"}

\* Every write that the driver puts in the pipe carries the bytes of the write
\* request it was made for, with the length of that request.
SentIntact ==
  \A k \in 1..Len(toSvc) :
    toSvc[k].d = "TX" /\ toSvc[k].len > 0 =>
      toSvc[k].data[1] = "tx" /\ toSvc[k].data[3] = toSvc[k].len
=============================================================================
