# VirtualSerial: a TLA+ verification project

VirtualSerial gives a Windows machine a virtual COM port whose bytes come from a
real COM port, on the same machine or, over TCP, on another one. This directory
models the program, checks the models with TLC and proves theorems about them
with TLAPS. Paths below are relative to `src/VirtualSerial` unless they say
otherwise.

Contents: [1 the system](#1-the-system), [2 the modules](#2-the-modules),
[3 how model and code correspond](#3-how-model-and-code-correspond),
[4 the runs](#4-the-runs), [5 what the runs found](#5-what-the-runs-found),
[6 bounds](#6-bounds), [7 fairness](#7-fairness), [8 proofs](#8-proofs),
[9 what is not modelled](#9-what-is-not-modelled), [10 plan](#10-plan),
[11 running it](#11-running-it).

## 1. The system

```
 applications          UMDF host process           service process            other machine
 ------------      ------------------------      --------------------      --------------------
 WriteFile   --->  CMyQueue::OnWrite     pipe ->  waitForMsg  (server) -->  real COM port
 ReadFile    --->  CMyQueue::OnRead      <- pipe       |
 SetCommState -->  CMyQueue::OnDeviceIoControl         | (client mode)
                   one callback at a time,             v
                   under the device lock           TCPClient  -- TCP -->  TCPServer thread --> real COM port
```

| Part | Source | State | Operations | Correct when |
|---|---|---|---|---|
| Virtual COM driver: read, write, pipe | `queue.cpp`, `queue.h` | globals `_pipe`, `fConnected`, `pipeOpen`, `smOut`, `smInput` | `OnWrite`, `OnRead`, `openPipes`, `closePipes` | the handle is live when it is used, no instance of the pipe leaks, a message carries the bytes of its own request |
| Driver: registers | `queue.cpp:303-815`, `device.h` | `m_BaudRate`, `m_MCR`, `m_FCR`, `m_LCR`, `m_ValidDataMask`, `m_Timeouts` | the SET and GET control requests | a register reads back what was last accepted, the line what the last request left of it |
| Driver: wait mask | `queue.cpp:817-902` | the manual queue `m_FxWaitMaskQueue` | `WAIT_ON_MASK`, `SET_WAIT_MASK`, cancellation | one waiter at most; every request is completed once |
| Driver: ring buffer | `ringbuffer.*` | `m_Head`, `m_Tail`, the buffer | `Read`, `Write` | a first-in first-out queue for one reader and one writer without a lock |
| Device and driver objects, COM support | `device.*`, `driver.*`, `comsup.*`, `dllsup.cpp`, `queue.cpp:99-260` | reference counts, the members of `CMyDevice`, the value under the legacy hardware key | `CreateInstance`, `Initialize`, `Configure`, `GetPdoName`, `OnCleanup`, `Release` | objects, memory, stores and the key's value are released once, on error paths too |
| SerialService, server mode | `SerialService/SerialService.cpp` | the local `smRet`, `smOut` | `main`, `waitForMsg` | each message of the driver is served once and in order |
| The service's threads | `SerialService.cpp:183-228`, `TCPServer.cpp` | `WAIT_FOR_PIPE`, `RUN_SERVER`, `ListenSocket`, `hComm`, without a lock | `main`, `HandleClient`, `SignalHandler` | SIGINT ends the process, a closed server serves nobody |
| COMPortManager | `SerialService/COMPortManager.cpp` | `hComm` | open, close, read, write, `InitVirtualCom` | what reaches the port of a write is its beginning, and nothing of it comes later; the port is not lost by an open or a close that failed |
| SerialService, client mode | `SerialService/SerialService.cpp:125-152` | `xyz`, `bufferFill`, `bufferIdx` | `waitForMsg` | bytes read ahead are returned once and in order, and never one of an earlier block |
| TCP client and server | `SerialService/TCPClient.cpp`, `TCPServer.cpp` | sockets, `RUN_SERVER`, the mutex | `Connect`, `Write`, `Read`, `HandleClient`, `ParseMSG`, `Close` | nothing is acted on twice however the stream is cut; a reply goes to its own request |
| VirtualSerialManager | `../VirtualSerialManager` | none of the system's | the window of the project template | no logic |

How they interact.

* **Applications and driver.** The framework queues requests and dispatches one
  callback at a time: `device.cpp:116-120` sets the device-level lock. The
  callbacks share the globals of `queue.cpp` and make *synchronous* pipe calls
  with the lock held, so a callback that waits stops the whole device.
* **Driver and service.** One message-mode pipe, `virtualserialpipe2`. The
  driver is the pipe's server. A write is one message (`TX`) and is completed
  *before* it is sent. A read is a request message (`RX`) and the wait for a
  reply (`NONE`). The two programs do not agree on the size of a message: 2048
  bytes of payload in the driver, 1024 in the service, so the service reads
  each driver message in two chunks.
* **Service and driver.** In server mode the service is also an application of
  its own driver: `InitVirtualCom` opens the virtual port and sets its baud rate
  before the service opens the pipe.
* **Service and service.** A service in client mode sends frames of fixed length
  over TCP to the service that owns the real port; that one takes what a `recv`
  returns for one frame.

What is hard here: callbacks that wait under a lock for a process that waits for
the lock; globals tested in one callback and closed in another; acknowledged
data that is still in a pipe when it is disconnected; an exchange of two
messages that a crash or a restart may cut in the middle; lengths at two
different packet sizes; a stream that keeps no message boundaries; two pointers,
a handle and three flags shared without a lock; a function of two dozen calls
each of which may fail. `PROJECT.json` lists each of these hazards at its line
with the properties that cover it.

## 2. The modules

| Module | What it is |
|---|---|
| `NamedPipe` | contract of the Win32 pipe as the two programs use it (external code) |
| `DriverQueue` | `CMyQueue`: the callbacks, the lock, the pipe's server end, next to *any* pipe client |
| `SerialService` | `waitForMsg` in server mode, `COMPortManager`, death and restart of the process |
| `Bridge` | composes `DriverQueue` and `SerialService` over one `NamedPipe`, adds `InitVirtualCom` and the applications |
| `SerialLine` | abstract: what the bridge promises applications. `Bridge` implements it |
| `SerialIoctl` | the control requests: registers, packed line control register, wait queue |
| `CRingBuffer` | the ring buffer at the grain of loads, stores and copies |
| `LossyFifo` | abstract: a bounded queue that drops what has no room. `CRingBuffer` implements it |
| `TcpLink` | `TCPClient`, `TCPServer` and the two byte streams between them |
| `ClientRelay` | `waitForMsg` in client mode: the read-ahead buffer, and what applications get out of it |
| `ClientMode` | composes `ClientRelay` and `TcpLink`: each call of the one is the step of the other |
| `ServerProcess` | the three threads of a service in server mode and what they share |
| `DeviceLifecycle` | class factory, driver, device and queue from load to removal: references, resources, the legacy key, the globals of the pipe |
| `DriverQueueProofs`, `BridgeProofs`, `SerialLineProofs`, `SerialIoctlProofs`, `CRingBufferProofs`, `DeviceLifecycleProofs`, `ServerProcessProofs`, `ClientModeProofs` (with `TcpLink`) | theorems and proofs |
| `MCDriver`, `MCBridge`, `MCIoctl`, `MCRing`, `MCTcp`, `MCTcpRead`, `MCServer`, `MCLifecycle` | the small instances TLC checks |

`Bridge` stands in two refinements. Downwards, `DriverBehaviour` says that what
the driver does next to the real service is what `DriverSpec` says it does next
to an arbitrary client, so every property of `DriverQueue` carries over; this is
checked and also proved. Upwards, `IsSerialLine` says that the bridge is a
`SerialLine`, which is checked and proved as well. The refinement mapping
collects the writes in flight, oldest first, from the service
(`HeldByService`), the pipe (`SentWrites`: every second chunk is the head of a
message, counted from the end because the service may have read the first head)
and the callback (`HeldByDriver`), and the blocks on their way back likewise.
`returned` has an entry for every answered read: its block, or 0 when the
answer was empty. A history variable, `faulted`, records whether something has
failed that may cost data (the pipe, a write to the real port, the service's
process): until then the line is lossless, also when the baud rate is set and the
service or the driver's host is started again; afterwards it may lose the end of a
write as it leaves, and the oldest of what is in flight.
`NothingLost`, `WritesInOrder` and `BlocksInOrder` say what that means for an
application; they are invariants of the line, and so of the bridge.

`ClientMode` is where client mode comes together: `RelayStart` is `Connect`, a
read that the buffer cannot answer is `TCPClient::Read`, and the ways that call
can end (`ReadBlock`, `ReadEnded`, `ReadUnsent`) are the ways the connection can
end in `TcpLink`. It implements both (`ClientModeImplements`), so what is proved
of the relay alone holds of the service with its connection.

Definitions whose comment says *seeded fault* or *a bug* are mutated forms of
the definition that follows them, named `Definition_WhatIsWrong`. No specification
uses them. Substituted for the definition, each makes a property of some run
fail; `PROJECT.json` pairs them.

## 3. How model and code correspond

`PROJECT.json`, under `map`, gives the source lines of every definition. The
principles:

**One action per step another party can see.** A callback of the driver is cut
where it makes a pipe call or completes a request, because that is where the
service and the applications can act. Everything between two cuts is one action.
The places of a callback (`cb[t].pc`) are:

| `pc` | in the code |
|---|---|
| `create`, `connect`, `listen` | `openPipes` before `CreateNamedPipe`, before `ConnectNamedPipe`, and waiting in it |
| `write`, `wfile` | `OnWrite` up to the completion of the request; then `WriteFile` |
| `read`, `rwrite`, `rread` | `OnRead` before it clears `smOut`; `WriteFile` of the request; `ReadFile` of the reply |
| `flush` | `closePipes` for `SET_BAUD_RATE`, waiting in `FlushFileBuffers` |
| `ioctl` | a control request that does not touch the pipe |

The service (`spc` in `SerialService`) is cut the same way: `vcom`, `vioctl`,
`vbaud` are `InitVirtualCom`; `open`, `mode` the opening of the pipe; `read`,
`tx`, `rx`, `reply` the loop; `exit` the end of `main`.

**Requests.** `req[i]` is the request of issuer `i`: queued, active in a
callback, or none. Zero-length reads and writes do not occur: the default queue
is created without `bAllowZeroLengthRequests`, so the framework completes them.

**Payloads are tokens.** `TxData(n, L)` is the bytes of the `n`-th acknowledged
write of `L` bytes, `RxData(k, n)` the `k`-th block of `n` bytes read from the
port, `Zero` cleared memory, `Junk` anything else. Lengths are numbers and the
two packet sizes are the real ones, since the findings about lengths depend on
them. A driver message is two chunks: the head that fits the service's buffer,
and the tail, which the service reads as a message of its own. What the tail of
a long write looks like to the service is a parameter (`Tails`).

**Pipe calls wait.** The driver opens the pipe with `FILE_FLAG_OVERLAPPED`
(`queue.cpp:57`) but gives every call a NULL `OVERLAPPED`, and the lock admits
one call at a time, so each call is modelled as one that returns when it is done.

**The real port.** `COMPortManager::SetTimeout` gives writes a timeout, and
nobody looks at how many bytes `WriteFile` has written. `BytesTaken` is what the
port takes of a write: all of it, any beginning of it under the fault
`"comwrite"`, nothing when the port is closed. `comLog` keeps the count next to the
bytes the write had.

**A read of the port that fails** is answered with the length -1 (`ReadFromCom`).
`OnRead` converts it to `SIZE_T` and copies that many bytes (`queue.cpp:1103-1105`),
which no memory has: `HostDies` ends the driver's process in the middle of the
read, with its pipe, its globals and every request, and the framework starts a new
one. The same step stands for a reply longer than the read's buffer, which the
service never makes (`ReplyFits`) but an arbitrary client may.

**Handles.** `hPipe` distinguishes `null`, `invalid` (creation failed), `live`
and `stale` (closed, but the variable keeps its value).

**Control requests.** A handler of `SerialIoctl` is one step, since the lock is
held from its start to its end and nobody else writes the registers. Registers
are kept as numbers and the line control register in its packed form, because
the properties are about packing. The variables `asked`, `answer` and
`completions` are history: what the last requests were to leave in the registers,
and what a request got. A `SET_LINE_CONTROL` that is refused changes the register
too; `LineLeft` says, in terms of the request, what an application then reads.

**Ring buffer.** Every load and store of `m_Head` and `m_Tail` and every
`CopyMemory` is a step. Each of the two methods reads the other side's pointer
once, in `GetAvailableSpace`, and its own pointer belongs to it, so one
load step carries the whole test. When a write ends exactly at the end of the
buffer, `m_Tail` is stored twice, first as `m_End` and then as `m_Base`
(`ringbuffer.cpp:151-158`); the pointer is not `volatile`, so a build may drop
the first store, and `WriteAdvance` allows both. In between, the count of a
reader whose head is at `m_Base` is wrong (`AtWrap`); `WrapInterrupted` says
whether a `Read` may begin there. Memory is taken to be in program order, as on
the x86 targets of the project.

**TCP.** To the server, a frame is three pieces: the beginning of its header, the
rest of it with what follows up to 512 bytes, and what remains. `recv` returns any
number of pieces that fits its buffer, possibly of two frames. `ParseMSG` looks at
the first frame only, and only when the buffer starts with its header; of a header
that is cut, `sscanf_s` may make no message at all or one whose length has lost
digits, and either outcome is allowed wherever the first piece comes alone. Other
cuts change only which bytes of a payload there are, and payloads are left out:
pieces carry the number of their request. To the client a stream is a sequence of
bytes, each with the number of the read it answers, and `recv` returns as many as
it likes up to the length asked for. The server's process may end, which ends or
resets its connections, and be started again. Whenever `HandleClient` ends it calls
`WSACleanup`, and with the one `WSAStartup` of `Start` that is the last: the
listening socket is closed too (`Listening`, `DropFrom`).

**Client mode.** The bytes the server sends over one connection are numbered
from 1; `xyz` holds the numbers, 0 for a NUL. `bufferFill` and `bufferIdx` are
changed exactly as the code changes them, from what `Read` *returned*, so blocks
have any length and the error codes 0 and 1 count as lengths too. Requests have
any length (`AskLengths`), and each gets one byte, because `smOut.len` is 1
(`SerialService.cpp:122`). History are `came` and `block` (how many bytes the server
has sent, and how many of them last), `passed` (how many were asked for), `out` (the
byte an application got, and the one it was due) and `regular`: every block came
whole, and no request found too few bytes left or took a whole block. While that
is so the code keeps its own accounts right; what it does otherwise is in the
model as well. `Read` clears 1024 bytes at an `xyz` of 128 (`TCPClient.cpp:152`):
what else that clears, and what an index beyond the block finds, is up to the build
and is the parameter `Layouts` (`"smOut"`: the reply lies behind `xyz`).

**The service's threads.** Each access to `hComm`, `RUN_SERVER`, `WAIT_FOR_PIPE`
or `ListenSocket` is a step of `ServerProcess`; what a request does with the port
beyond that is in `Bridge` and `TcpLink`. `overlap` is history: two threads have
been between a test of `hComm` and the store that rests on it. The C runtime
runs the handler of SIGINT in a thread of its own and restores the default
action first, so the next SIGINT ends the process (`SecondSignal`).

**Life cycle.** `refs` is the reference count of each object and `ptr` the set
of those who hold a pointer to it that they will release, our own code and the
framework. `Configure` and `GetPdoName` are one `pc` per call that can fail:
`CallSucceeds` and `CallFails` are all of them that only take a resource, in the
order of the record `Then`; the calls that do more have actions of their own.
`locals` and `members` are the variables that hold a resource, `live` counts
what is taken and not given back. The framework drops its pointers in any order.
A dead host process loses everything but `keyValue`. `keyLeft` says that the
value has nobody left to delete it. `OpenPipes` and `SetBaudRate` keep of
`DriverQueue` only what they do to the globals.

## 4. The runs

Passing runs:

| Run | Instance | What it shows |
|---|---|---|
| `driver` | 2 request streams, 2 threads, any client | `DriverInv` (the inductive invariant); `HandleLive`: `_pipe` is live wherever `WriteFile` or `ReadFile` uses it; `NoPipeLeak`: a pipe is created only when there is none; `FlagsAgree`; `SentIntact`: a message carries the bytes of the write it was made for, although `smOut` is shared and the write is already completed |
| `bridge` | 2 applications, every fault, 2 starts of the service, quota 2 | `OneExchange`: at most one read request, answer or reply is under way, and only for a callback that waits, even across a death and restart, and as long as the client is there a read that waits has its request or reply under way; `ReplyFits`; `ForwardedIntact`: what the port takes is each time the beginning of one accepted write, and all of it until something fails; `ReadFits`: a read gets one block of the port under its own length or nothing, never what an earlier reply left, also when a read of the port fails and ends the driver's host; `LineInv` (the inductive invariant, with all that the refinement rests on); `DriverBehaviour`; `IsSerialLine`: until the first fault nothing acknowledged is lost, because `FlushFileBuffers` empties the pipe before `SET_BAUD_RATE` closes it; afterwards only ends of writes and what is oldest in flight; nothing is ever duplicated or reordered |
| `live` | no faults, service first, nobody sets the baud rate, fairness | `RequestsComplete`, `AckedReachesPort` |
| `ring` | 5 slots, all lengths 1..6, `WrapInterrupted` false | order, counts, disjoint copies, the code's assertions, refinement of `LossyFifo` |
| `ioctl` | 4 requests of any kind, all line records at or next to a legal value | `LineStored`: the packed register holds what the last `SET_LINE_CONTROL` was to leave, accepted or refused at any field; `AnswersLastSet`: so does what an application reads; `WaitersQueued`, `CompletedOnce`, `WaitFailsOnlyReplaced` |
| `tcp` | 3 calls of `Write` and `Read`, requests of 1 and 2 bytes, read-ahead of 3, 2 lives of client and server, every cut and fault | `PortInOrder`: nothing is written twice or out of order; `RepliesMatch`: no `Read` gets the reply of another, also when the client died in an earlier one, until a `recv` has left part of a reply behind; `TcpInv` (the inductive invariant); `RelayInOrder`: while blocks come whole and are used up exactly, each request gets the first of the bytes it is due, from the buffer or from a new block; `NoStaleByte`: also afterwards, wherever the index is, an application gets no byte of an earlier block; `LoneReadReturns`: a request that has the stream to itself is answered unless its header is cut, and a `Read` ends when the server's process has, or the socket was closed by SIGINT |
| `server` | 3 opens of the port, 2 clients, SIGINT at any time, fairness | `PortKept`: the port is lost only when two threads are between test and store at once; `NoneAccepted`: nobody is accepted once `Close` has returned, also when it came before or during `Start`; `ShutdownEnds`: SIGINT before the pipe is open ends the process, the way out of `waitForMsg` leads to its end, and the thread in `accept` ends |
| `lifecycle` | 2 devices, one death of the host, every call failing or not | `RefsCountPointers`: a reference count is the number of those who will release; `ReleasedOnce`: nothing is given back twice or kept; `KeyFollowsDevice`: the legacy key has a value only while its device is there, except after a death or a failed deletion, and then the next device takes it over; `FreshPipe`: a new device finds no pipe of the one before; `LifecycleInv` (the inductive invariant) |

Violation runs each check one sentence of the repository that the code does not
keep: `startup`, `longwrite`, `ringtail`, `tcpread`.

## 5. What the runs found

`PROJECT.json` quotes the sentence and the line for each.

* `startup`: the service and the driver wait for each other when an application
  uses the port before the service opens the pipe: `ConnectNamedPipe` holds the
  device lock, and `InitVirtualCom` needs it. The `live` run shows the
  deployment rule that avoids this: start the service first, let no application
  set the baud rate.
* `longwrite`: writes of more than 1024 bytes are passed on with a length beyond
  the service's buffer, and their rest is read as a message of its own.
* `ringtail`: a reader that has taken everything and calls `Read` between the two
  stores to `m_Tail` counts bytes that are not there. The driver uses its ring
  buffer only in `printDEBUG`, so nothing depends on it today.
* `tcpread`: a read request is lost when TCP cuts its header, or when it arrives
  behind a write in one `recv`; then the client waits for ever, with it the pipe and
  the driver.

More is visible in the models and the code, with no run of its own:

* `SET_BAUD_RATE` closes the pipe under the service, whose process then ends,
  although the comment says the rate is only stored (`ClosePipes`). Nothing is
  lost (`IsSerialLine`), but somebody has to restart the service.
* A failed read of the real port is answered with length -1, which `OnRead`
  uses as a count: the driver's host process ends (`ReadFromCom` with the fault
  `"comread"`, `HostDies`). No read gets wrong bytes from it (`ReadFits`) and no
  acknowledged write is lost (`IsSerialLine`), but every request in the driver fails.
* A write that a timeout cuts short loses its end: the result of `WriteRealCOM` is
  ignored (`ForwardToCom`).
* In client mode every reply has `len` 1, and the index moves by the length
  asked for: an application that asks for two bytes gets every second one
  (`Reply`). A block shorter than 32 bytes, a request that finds too few bytes left
  (which are dropped), or one of 32 bytes and more leave `bufferIdx` where it is not
  set back, so later bytes are taken from the wrong place, left out or repeated, and
  in the end the index leaves the block (`ServeCached`, `ReadBlock`; `regular`).
* A `recv` of the client that takes part of a reply puts every later `Read` of the
  connection a reply behind (`cut` in `TcpLink`).
* After the connection has failed, reads are answered with NULs, or with the
  byte left in `xyz`, one for ever (`ReadEnded`, `ReadUnsent`).
* `Read` clears 1024 bytes at a buffer of 128; where the reply lies behind the
  buffer its length is cleared too, and the application gets nothing
  (`Layouts`).
* SIGINT while the pipe is connected does not end the process by itself, and the
  next write opens the port again (`Signal`, `DriverWrite`).
* Two overlapping opens, or a close and an open, lose the port: the handle
  is forgotten and nobody else can open it until the process ends (`overlap`).
* `TCPServer::Wait` waits for a handle that `Close` has closed, so it does not
  wait, but for a thread that was started after `Close` (`Wait`).
* A failed `DeleteNamedValue`, or a dead host, leaves the value under the legacy
  key; a failure of `Configure` after `SetNamedValue` does not (`KeyFollowsDevice`).
* After a client that came and went during `openPipes`, `pipeOpen` stays set
  without a pipe, so reads return nothing and writes are swallowed until
  `SET_BAUD_RATE` (`ConnectFails`; `driver` shows that the flags stay consistent).
* A second `SET_BAUD_RATE` closes a stale handle value again (`ClosePipes` with
  `hPipe = "stale"`).
* A service that dies leaves `fConnected` set, so writes are acknowledged and
  dropped until then (`SendWrite`, allowed by the line after a fault).
* From 2048 bytes on `OnWrite` copies nothing but sends the message and completes
  the request: `smOut` still holds the bytes of an earlier one (`CopiedIn`).
* A refused `SET_LINE_CONTROL` changes the register all the same, and the next
  `GET_LINE_CONTROL` reads a line that nobody asked for (`SetLineControl`, `LineLeft`);
  and a second `WAIT_ON_MASK` fails the first, against
  the comment at `queue.cpp:821-823` (`WaitOnMask`).
* A write frame that arrives behind another one is lost like a read request
  (`ParseMSG`; `PortInOrder` allows gaps).
* A reset connection ends the server's only thread and, by `WSACleanup`, closes the
  listening socket: nobody can connect until the service is started again
  (`ServerRecvError`, `ServerSend`, `Listening`).
* `TCPClient::Write` ends its copy at a NUL byte, not its length, and
  `HandleClient` fills a short read up with zeros; `TcpLink` leaves payloads out.

## 6. Bounds

Every behaviour is bounded, so the configurations say `CHECK_DEADLOCK FALSE`: a
state without successor is one where the bounds are used up, or where the
system really may stop (no service is ever started). Absence of unwanted waiting
is stated as liveness instead.

| Bound | Value | Why it is enough |
|---|---|---|
| `Threads` | 2 | the lock admits one callback; two threads show what would happen without it (`LockFree_NoDeviceLock`) |
| `Issuers` | 2 applications, and the service | one request holds the lock while another waits; each issuer is sequential, as a synchronous handle is |
| `MaxRequests` | 2 per application, 2 per start of the service | a write and a read, or two of a kind, around a `SET_BAUD_RATE` of the other |
| `PipeQuota` | 1 or 2 driver messages (5 in `queue.cpp:55-60`) | the full pipe is reached with 1; the value only scales |
| `MaxStarts` | 1 or 2 | a restart in the middle of an exchange, and one after `SET_BAUD_RATE` |
| `Lengths`, `AppLengths` | 1; 2 in `bridge`; 1025 and 2047 where they matter | a write the port may take half of; below and between the two packet sizes |
| `BlockSizes` | 0, 1, 2; 0, 1, 3 in `bridge` | a timeout, a short or full read; more than asked is excluded by the guard, and 3 is there for the bugs that drop it |
| `Size`, `WriteSizes`, `MaxBytes` | 5, 1..6, 30 (12 in `ringtail`) | every pair of positions of the pointers, up to six rounds, and calls longer than the buffer |
| `Requests`, `LineRequests` | 4, word 4..9, stop 0..3, parity 0..5 | set, refused set, other set, get; every field legal and just outside |
| `MaxCalls`, `MaxConnects`, `MaxServers` | 3, 2, 2 (2, 1, 1 in `tcpread`) | frames of both kinds joined in either order, a third behind a reply that was cut, and either side started again |
| `READ_AHEAD`, `ReadLen`, `AskLengths`, `Layouts` | 3 (32 in the code; 1 in `tcpread`), 1 and 2, `"frame"` | blocks of one to three bytes, handed out to the last byte, dropped or overrun, and another after each |
| `MaxOpens`, `MaxClients` | 3, 2 | an open by each thread; a client that is served while another connects |
| `MaxAdds`, `MaxCrashes` | 2, 1 | a device after one that failed, was removed, or died with its host |

Symmetry is used for framework threads, for the two interchangeable applications
of `driver` and `bridge` and for the requests of `ioctl`, and in no run that checks liveness. (The
temporal properties of `bridge` are safety.)

## 7. Fairness

`Bridge!FairSpec`: weak fairness of each thread's callback and of the service.
Windows schedules runnable threads. The framework hands the lock to a waiting
callback when it becomes free; weak fairness per thread is enough because each
issuer has a bounded number of requests and a callback's steps stay enabled. A
read of the real port ends by the timeouts `COMPortManager::SetTimeout` sets, so
`ReadFromCom` is never stuck. Someone starts the service (`ServiceStart` is part
of `ServiceStep`). Applications need not send anything, and the process need
not die. `live` also sets `ServiceFirst`, the deployment rule of section 5;
`startup` shows that it is needed.

`TcpLink!TcpFairSpec`: the server's thread runs, and a `recv` that has bytes to
return returns. Nothing makes a client connect, write or close.
`ClientMode!CMFairSpec` says the same of the two together.

`ServerProcess!ServerFairSpec`: weak fairness of each of the three threads, for
the steps that wait for nobody: an `accept` on a closed socket fails, a
`CreateFile` of the pipe comes back. Clients, the driver and the user need not
do anything; `recv` may wait for ever.

## 8. Proofs

TLAPS checks these for every value of the constants that satisfies the named
`ASSUME`s (sizes are natural numbers, the packet fits the message, the null
thread is not a thread, and the like; TLC evaluates them in every run).

**Driver** (`DriverQueueProofs`). `DriverInvariant`: `DriverSpec => []DriverInv`,
for any number of threads, streams, requests and any client. The safety
properties are not inductive: that the handle is live at `wfile` needs that
nobody else can run `closePipes`, which needs the lock. `DriverInv` adds
`LockPart` (a thread is in a callback iff it holds the lock), `RequestPart` (its
request stays active), `HandlePart` and `ClientPart` (flags against the pipe's
ends), `ConnectedPart` (an instance without `fConnected` belongs to the callback
that opens it) and `PlacePart` (what each place knows). One lemma per action
shows that it keeps them; `OthersIdle` says once that under the lock only the
stepping thread matters. From the invariant follow `DriverTypeCorrect`,
`HandleIsLive`, `PipesDoNotLeak`, `FlagsAreRight`.

`SentWritesAreIntact` adds `SentIntact`, next to any client, under `WritesFit`: no
write is as long as a message of the driver (section 5 says what happens
otherwise), and no tail looks like a write. `SentPart` follows the bytes from
the request through `smOut` into the pipe; that OnRead does not overwrite them
in between is the lock again.

**Bridge** (`BridgeProofs`). `BridgeImplementsDriver`: `BridgeSpec =>
DriverBehaviour`. A step of the service is a step of the arbitrary client or of
the service as an issuer. The hard one is a crash, which closes the client's end
*and* cancels a queued request; as one step of `DriverSpec` it must be one or
the other. `StartupPart` shows that it is: the pipe is opened only after the
service's requests are completed. `BridgeKeepsDriverSafe` then takes
`HandleLive`, `NoPipeLeak` and `FlagsAgree` over to the whole system.

`BridgeInvariant`: `BridgeSpec => []BridgeInv`, for any number of applications,
requests, starts and deaths of the service and any quota. `OneExchange` needs
little beyond itself: that chunks are in the pipe, and the service at work on
one, only while the client's end is open (`WirePart`), so that a read which finds
the pipe without a client has no answer coming. That is `AtMostOneExchange`; the
other half, `NoReadForgotten`, holds because only the end of the service takes a
request or a reply from under the read, and a client can only come to a pipe that
no read waits on. `OnRead` has no timeout and holds the queue's lock, so this
is the safety half of `RequestsComplete`: the wait can end as soon as the service
runs. `ReplyFits` looks at the last hop of a length; `ReplyPart` follows it from the
request through the service's buffers. `ForwardedIntact` likewise: `DataPart` says
that a message is one write, whole, in `smOut` while `OnWrite` sends it, in the
pipe, and in the service.
The port may take less than it was given, so what is whole on the way is a
beginning on the port, and whole there only while `faulted` is not set.
`DriverStepKinds` reduces the steps of a callback to five: sending a
write, sending a read request, taking a reply, the death of the host, and the rest,
which leave the pipe as it is or empty it while no read waits. Then `ExchangesAreSingle`,
`RepliesFit`, `WritesArriveWhole`, `WritesAreSentWhole` (`SentIntact` in the
bridge). They assume `ShortWrites`: no application writes more than a packet at
once; `longwrite` shows what happens otherwise. `ReadsGetBlocks` proves
`ReadFits` with every fault, a failing read of the port included: `PortPart`
says that a reply which is not empty carries one block under its own length, from
`ReadRealCOM` to the pipe, and a negative length never gets past `OnRead`, where it
ends the host (`HostGone`).

**Serial line** (`SerialLineProofs`). `BridgeImplementsLine`: `BridgeSpec =>
IsSerialLine`, under `ShortWrites`. The invariant is `LineInv`, which adds to
`BridgeInv` what the mapping needs:

* `ShapePart`: the pipe holds messages of two chunks, the first perhaps without
  its head, all of them writes but perhaps the last, a read request. Without it
  the mapping would not know a head from a tail.
* `WritePart`: no write in progress is empty, since the queue takes no empty
  requests (`AppAssumption`: 0 is not in `AppLengths`). An empty message would
  be in flight and never leave.
* `FaultPart`: the driver finds its pipe missing, or without a client, only
  while it opens it or after a fault. This is what makes a loss without a fault
  impossible.
* `ServedPart`: the service keeps its end until it exits, and exits only when the
  driver has disconnected, by which time the pipe has been emptied.
* `LastPart`: while a read is answered the pipe to the service holds no write, so a
  host that dies at the answer takes none with it.
* `AnswerPart`: what comes back is marked as a reply, so it is passed on.

`LineInvariant` proves it, by the kind of step. Then every step is matched:
`WriteBytes` is `Accept` (on a lossy line perhaps of a write that is never
carried), `ForwardToCom` is `Emit` when the port takes the write, `EmitPart` when it
takes a beginning of it and `Lose` when it takes none, `ReadFromCom` that finds a block is `Take`, `ReadReply` is
`GiveBack` or `GiveNothing`, the death of the host changes nothing the line has, and
a pipe that cannot be created, a send without a client and a dead service are `Lose`. Every other step leaves the mapped
state alone: the head that `ReadPipe` takes passes from `SentWrites` to
`HeldByService`, `SendWrite` passes one from `HeldByDriver` to `SentWrites`, and
what `ClosePipes` destroys has been flushed. The lemmas about the mapping
(`HeadsAppended`, `HeadsTaken`, `TakenWrites`, `WireAppended`, `ReturnedAppended`)
say what one more chunk, or one fewer, does to it.

`AckedWritesSurvive` is what an application gets from it: as long as nothing has
failed, the writes on the port, all of each, and then those in flight are all that
were acknowledged, in order and each once; and in any case no write leaves twice or
after a later one, and no block is given to two readers or out of order. It is
proved of `SerialLine` alone and carried over.

**Ring buffer** (`CRingBufferProofs`). For every size and all lengths, under
`~WrapInterrupted` (without it the claim is false, see `ringtail`): `RingInvariant`,
and from it `ReadsAreInOrder`, `CountsAreExact`, `CopiesAreDisjoint`. The
invariant says where the accepted bytes lie (`ContentPart`), what each copy in
progress has done and still fits (`WriterPart`, `ReaderPart`); the lemmas are
about addition modulo `Size`. With the invariant `AssertionsHold`, and
`RingImplementsFifo`: the store to `m_Tail` that makes a write visible is `Put`,
the store to `m_Head` after a read is `Get`, every other step stutters.

**Control requests** (`SerialIoctlProofs`). For any set of requests, values and
line records, of any size: `IoctlInvariant`, `IoctlTypeCorrect`, `LineIsStored`,
`AnswersAreLastSet`, `WaitersAreQueued`, `CompletedExactlyOnce`, and the action
property `WaitsFailOnlyReplaced`. `LineRoundTrip` is the lemma that decoding what
`SET_LINE_CONTROL` encodes gives `LineLeft`, for every record, legal or not, and
break bit. The invariant
adds to the properties that registers hold what was last asked for.

**Life cycle** (`DeviceLifecycleProofs`). For any number of devices and deaths:
`LifecycleInvariant`, and from it `ReferencesAreCounted`,
`ResourcesAreReleasedOnce`, `KeyFollows`, `PipeIsFresh`. That the count is the
number of pointers is almost inductive: it needs to know which pointers exist at
each place (`PointerPart`, `QueuePart`). `ResourcePart` says the same of memory
and stores: at each call exactly those are taken that the calls before it take
(`SetBefore`), and at `Exit` those that the members keep are among the locals
(else they would be given back by nobody). `KeyPart` ties the members to the
value under the key, `PipePart` the flags to the queue.

**The service's threads** (`ServerProcessProofs`). For any number of opens and
clients: `ServerInvariant`, `PortIsKept`, and the action property
`NoneIsAccepted`. The invariant says what a thread between test and store knows
(`HandlePart`), as long as it is alone there.

**TCP** (`ClientModeProofs`, first part; the theorems are about `TcpSpec`). For any
number of writes, reads, connections and processes, however the streams are cut:
`TcpInvariant`, `PortIsInOrder`, `RepliesAreMatched`. That the port's log is in order says nothing of what is
still in the streams: `WritePart` says that the frames to come, over all
connections not yet left, are in order and later than the log and than the one
`HandleClient` holds. That a reply is the right one rests on `OneRead` (a
connection in step carries one read at a time: a request, the server at work, or a
reply) and `ReadPart` (it is the one the client waits for). A connection is in step
(`InStep`) until SIGINT closes its socket or a `recv` leaves part of a reply behind;
cuts inside headers do not take it out of step, as they lose requests and never
double them. Both need `EndPart`, that a connection whose server has gone is never served
again. Streams are handled by four lemmas on what a send adds and a recv takes.

**Client mode** (`ClientModeProofs`, second part). `ClientModeImplements`: every step of the
composition is a step, or a stutter, of the relay and of the link.
`RelayInvariant`: for every size of the block and all lengths, what `xyz` holds is
of the last block, and while `regular` holds what is left of it lies at its end and is
what comes next; with it `ClientModeInOrder` and the action property
`ClientModeNoStaleByte`, of the composed specification. No assumption is made on
what `recv` returns, requests ask for or the build lays out. `ClientModeLink` takes `PortInOrder` and `RepliesMatch` over from the link.

Every invariant and every safety property that a passing run checks is stated by
a theorem. Only model-checked is liveness, which is out of the prover's reach:
`RequestsComplete`, `AckedReachesPort`, `ShutdownEnds` and `LoneReadReturns`. The theorems about the bridge have the hypothesis `EnvChunks =
Chunk`, that the arbitrary client of `DriverSpec` may write any message; no
action of `BridgeSpec` looks at `EnvChunks`.

## 9. What is not modelled

* **The mutexes of `TCPClient`** after `Close` has closed their handles: nobody else
  waits for them. `Connect` is one step.
* **Requests in client mode so long** that copying them writes over what lies behind
  `smOut` or `xyz`: beyond the block, each request still gets one byte.
* **What a handle value comes to mean** after it was closed: a second
  `CloseHandle`, and a write of one thread on a handle another has closed, fail
  in the models.
* **`SetMode` failing.** Modelled, but reached only when the driver has
  disconnected in between, so the service exits as it does after a failed read.
* **A `ForwardToIoQueue` that fails** (its result is ignored): when the framework
  refuses is not in the repository.
* **Undersized or missing request memory** in reads and writes; for control
  requests it is modelled as one case, "no usable memory".
* **Two devices at a time**: the globals of `queue.cpp` would be shared by two
  device locks. One port is what the service and the pipe's one instance are for.
* **`LockServer`'s count**, which nobody reads (`DllCanUnloadNow` always says no),
  `DllMain` and tracing.
* **`ReadConfigFile` and the settings of the port** (`PrintCommState`, the DCB).
* **The baud rate itself**: `SET_BAUD_RATE` stores it (`SerialIoctl`) and nothing
  uses it. **The ring buffer after a failed set-up**: `CMyQueue::Initialize` goes
  on whatever it returns (`NewQueue`), and `CRingBuffer` starts after a good one.
* **The bytes of a payload** over TCP: `strncat_s` ends at a NUL, a write that is cut
  after its header is filled up with zeros, and its length may have lost digits.
  `PortInOrder` is about which writes reach the port.
* **VirtualSerialManager** has no logic of the system.

## 10. Plan

Done, in this order: `NamedPipe`, `DriverQueue`, `SerialService`, `Bridge` with
`SerialLine`, the proofs about the driver and the bridge, `CRingBuffer` with
`LossyFifo` and its proofs, `SerialIoctl` and its proofs, `TcpLink` and its proofs,
`DeviceLifecycle` and its proofs, `ClientRelay` and `ClientMode` and their
proofs, `ServerProcess` and its proofs, and the proof that `Bridge` implements
`SerialLine`.

To extend the model:

1. The payloads of `TcpLink`, with lengths that have lost digits, and which of their
   bytes the port takes.
2. `ServerProcess` with the driver's pipe of `Bridge` instead of `PipeEnds`, to
   state the end of the process together with the end of the exchange.

To prove more: what the bridge keeps of writes longer than a packet, whose tails
the service reads as messages of their own (`longwrite`).

## 11. Running it

```
tlc -config driver.cfg MCDriver.tla      # and so on: PROJECT.json pairs them
tlapm DriverQueueProofs.tla              # and the other modules named ...Proofs
```
