----------------------------- MODULE ServerProcess -----------------------------
(***************************************************************************)
(* The service in server mode as a process of three threads: main, the TCP *)
(* server's thread in HandleClient, and the thread Windows starts for the  *)
(* handler of SIGINT.  They share COMPortManager's hComm, RUN_SERVER,      *)
(* WAIT_FOR_PIPE and ListenSocket, without a lock.  Each access to one of  *)
(* these is a step.                                                        *)
(*                                                                         *)
(* Bridge says what main's requests do, and TcpLink what a client's do;    *)
(* here a request is only the use it makes of hComm.                       *)
(***************************************************************************)
EXTENDS Integers

CONSTANTS
  MaxOpens,    \* bound on how often the port can be opened
  MaxClients   \* bound on the clients that connect

ASSUME ServerAssumption == MaxOpens \in Nat /\ MaxClients \in Nat

VARIABLES
  pc,             \* where each thread is; with main "gone" the process has ended
  back,           \* where it goes on after OpenRealCOM or CloseRealCOM
  hComm,          \* the handle COMPortManager knows
  opened,         \* what CreateFile returned to each thread
  port,           \* the open handle of the real port, which is not shared
  opens,          \* handles given out so far; the values are not used again
  overlap,        \* two threads were in the unlocked parts at once
  WAIT_FOR_PIPE,
  RUN_SERVER,
  ListenSocket,   \* "none", "open" or "closed"
  accepted        \* clients accepted

spvars == <<pc, back, hComm, opened, port, opens, overlap,
            WAIT_FOR_PIPE, RUN_SERVER, ListenSocket, accepted>>
comVars == <<hComm, opened, port, opens, overlap>>
flagVars == <<WAIT_FOR_PIPE, RUN_SERVER, ListenSocket, accepted>>

Threads == {"main", "tcp", "sig"}
INVALID == 0

At(p, place) == pc["main"] # "gone" /\ pc[p] = place
Goto(p, place) == pc' = [pc EXCEPT ![p] = place]
Call(p, procedure, return) ==
  pc' = [pc EXCEPT ![p] = procedure] /\ back' = [back EXCEPT ![p] = return]

\* Between a test of hComm and the last store that rests on it
Inside == {"create", "store", "closeHandle", "forget"}
Enter(p) == overlap' = (overlap \/ \E q \in Threads \ {p} : pc[q] \in Inside)

ServerInit ==
  /\ pc = [p \in Threads |-> IF p = "main" THEN "open" ELSE "off"]
  /\ back = [p \in Threads |-> IF p = "main" THEN "start" ELSE "off"]
  /\ hComm = INVALID /\ opened = [p \in Threads |-> INVALID]
  /\ port = INVALID /\ opens = 0 /\ overlap = FALSE
  /\ WAIT_FOR_PIPE = TRUE /\ RUN_SERVER = TRUE
  /\ ListenSocket = "none" /\ accepted = 0

-----------------------------------------------------------------------------
(* COMPortManager, in any thread.                                          *)

\* A bug: an open port is opened again.
OpenRealCOM_Unchecked(p) ==
  /\ At(p, "open")
  /\ Goto(p, "create") /\ Enter(p)
  /\ UNCHANGED <<back, hComm, opened, port, opens, flagVars>>

OpenRealCOM(p) ==
  /\ At(p, "open")
  /\ IF hComm # INVALID THEN Goto(p, back[p]) /\ UNCHANGED overlap
                        ELSE Goto(p, "create") /\ Enter(p)
  /\ UNCHANGED <<back, hComm, opened, port, opens, flagVars>>

\* The port may be missing, and fails to open a second time.
CreateFile(p) ==
  /\ At(p, "create")
  /\ \/ /\ port = INVALID /\ opens < MaxOpens
        /\ opens' = opens + 1
        /\ port' = opens' /\ opened' = [opened EXCEPT ![p] = opens']
     \/ /\ opened' = [opened EXCEPT ![p] = INVALID]
        /\ UNCHANGED <<port, opens>>
  /\ Goto(p, "store")
  /\ UNCHANGED <<back, hComm, overlap, flagVars>>

\* Whether it worked or not; the settings and the WriteFile of WriteRealCOM that
\* follow change nothing here, on whatever handle they find in hComm.
StoreHandle(p) ==
  /\ At(p, "store")
  /\ hComm' = opened[p]
  /\ Goto(p, back[p])
  /\ UNCHANGED <<back, opened, port, opens, overlap, flagVars>>

CloseRealCOM(p) ==
  /\ At(p, "close")
  /\ IF hComm = INVALID THEN Goto(p, back[p]) /\ UNCHANGED overlap
                        ELSE Goto(p, "closeHandle") /\ Enter(p)
  /\ UNCHANGED <<back, hComm, opened, port, opens, flagVars>>

CloseHandle(p) ==
  /\ At(p, "closeHandle")
  /\ port' = IF hComm = port THEN INVALID ELSE port
  /\ Goto(p, "forget")
  /\ UNCHANGED <<back, hComm, opened, opens, overlap, flagVars>>

ForgetHandle(p) ==
  /\ At(p, "forget")
  /\ hComm' = INVALID
  /\ Goto(p, back[p])
  /\ UNCHANGED <<back, opened, port, opens, overlap, flagVars>>

ComStep(p) ==
  \/ OpenRealCOM(p) \/ CreateFile(p) \/ StoreHandle(p)
  \/ CloseRealCOM(p) \/ CloseHandle(p) \/ ForgetHandle(p)

-----------------------------------------------------------------------------
(* TCPServer: Start in main, Close and Wait in main and in the handler.    *)

\* socket and bind, which may fail; main goes on all the same.
StartSocket ==
  /\ At("main", "start")
  /\ \/ ListenSocket' = "open" /\ Goto("main", "listen")
     \/ UNCHANGED ListenSocket /\ Goto("main", "pipe")
  /\ UNCHANGED <<back, comVars, WAIT_FOR_PIPE, RUN_SERVER, accepted>>

\* listen fails when the handler has closed the socket.
StartThread ==
  /\ At("main", "listen")
  /\ pc' = IF ListenSocket = "open"
             THEN [pc EXCEPT !["main"] = "pipe", !["tcp"] = "check"]
             ELSE [pc EXCEPT !["main"] = "pipe"]
  /\ UNCHANGED <<back, comVars, flagVars>>

CloseSocket(s) == IF s = "open" THEN "closed" ELSE s

CloseFlag(p) ==
  /\ At(p, "closeServer")
  /\ RUN_SERVER' = FALSE
  /\ Goto(p, "closeListen")
  /\ UNCHANGED <<back, comVars, WAIT_FOR_PIPE, ListenSocket, accepted>>

\* A bug: clearing the flag is taken to be enough.
CloseListen_KeepsSocket(p) ==
  /\ At(p, "closeListen")
  /\ Goto(p, "join")
  /\ UNCHANGED <<back, comVars, flagVars>>

CloseListen(p) ==
  /\ At(p, "closeListen")
  /\ ListenSocket' = CloseSocket(ListenSocket)
  /\ Goto(p, "join")
  /\ UNCHANGED <<back, comVars, WAIT_FOR_PIPE, RUN_SERVER, accepted>>

\* Close has closed the handle of the thread, so the wait for it fails at once.
\* Where the thread was started after that, the wait ends after 10 seconds.  In
\* main the process ends with it, whatever the thread is doing.
Wait(p) ==
  /\ At(p, "join")
  /\ Goto(p, "gone")
  /\ UNCHANGED <<back, comVars, flagVars>>

ServerStep(p) == CloseFlag(p) \/ CloseListen(p) \/ Wait(p)

-----------------------------------------------------------------------------
(* waitForMsg, in main.                                                    *)

\* A bug: nobody tells the loop to end.
TryPipe_Forever ==
  /\ At("main", "pipe")
  /\ Goto("main", "tryPipe") /\ UNCHANGED back
  /\ UNCHANGED <<comVars, flagVars>>

\* The loop ends without a pipe, SetNamedPipeHandleState fails, and main ends.
TryPipe ==
  /\ At("main", "pipe")
  /\ IF WAIT_FOR_PIPE THEN Goto("main", "tryPipe") /\ UNCHANGED back
                      ELSE Call("main", "close", "closeServer")
  /\ UNCHANGED <<comVars, flagVars>>

\* There is no pipe, or it is busy: half a second to 20 seconds later.
NoPipe ==
  /\ At("main", "tryPipe")
  /\ Goto("main", "pipe")
  /\ UNCHANGED <<back, comVars, flagVars>>

PipeOpened ==
  /\ At("main", "tryPipe")
  /\ Goto("main", "relay")
  /\ UNCHANGED <<back, comVars, flagVars>>

\* A write of the driver opens the port if need be.
DriverWrite ==
  /\ At("main", "relay")
  /\ Call("main", "open", "relay")
  /\ UNCHANGED <<comVars, flagVars>>

\* The pipe fails; a read of the driver, which does not open the port, changes
\* nothing otherwise.
PipeEnds ==
  /\ At("main", "relay")
  /\ Call("main", "close", "closeServer")
  /\ UNCHANGED <<comVars, flagVars>>

-----------------------------------------------------------------------------
(* HandleClient.                                                           *)

\* Each way out of the thread calls WSACleanup, once for the only WSAStartup: this
\* closes the sockets of the process, ListenSocket among them.
EndThread ==
  /\ Goto("tcp", "ended")
  /\ ListenSocket' = CloseSocket(ListenSocket)
  /\ UNCHANGED <<back, comVars, WAIT_FOR_PIPE, RUN_SERVER, accepted>>

CheckRun ==
  /\ At("tcp", "check")
  /\ IF RUN_SERVER
       THEN Goto("tcp", "accept") /\ UNCHANGED <<back, comVars, flagVars>>
       ELSE EndThread

Accept ==
  /\ At("tcp", "accept") /\ ListenSocket = "open" /\ accepted < MaxClients
  /\ accepted' = accepted + 1
  /\ Goto("tcp", "recv")
  /\ UNCHANGED <<back, comVars, WAIT_FOR_PIPE, RUN_SERVER, ListenSocket>>

AcceptFails == At("tcp", "accept") /\ ListenSocket # "open" /\ EndThread

ClientWrite ==
  /\ At("tcp", "recv")
  /\ Call("tcp", "open", "recv")
  /\ UNCHANGED <<comVars, flagVars>>

\* The client closes its connection.
ClientLeaves ==
  /\ At("tcp", "recv")
  /\ Goto("tcp", "check")
  /\ UNCHANGED <<back, comVars, flagVars>>

\* recv or send fails, and the thread returns.
ClientFails == At("tcp", "recv") /\ EndThread

-----------------------------------------------------------------------------
(* SIGINT.                                                                 *)

Signal ==
  /\ At("sig", "off")
  /\ WAIT_FOR_PIPE' = FALSE
  /\ Call("sig", "close", "closeServer")
  /\ UNCHANGED <<comVars, RUN_SERVER, ListenSocket, accepted>>

\* The handler is taken back as it is called: the next signal ends the process.
SecondSignal ==
  /\ pc["main"] # "gone" /\ pc["sig"] # "off"
  /\ Goto("main", "gone")
  /\ UNCHANGED <<back, comVars, flagVars>>

-----------------------------------------------------------------------------
MainStep == \/ ComStep("main") \/ ServerStep("main")
            \/ StartSocket \/ StartThread \/ TryPipe \/ NoPipe \/ PipeOpened
TcpStep == ComStep("tcp") \/ CheckRun \/ AcceptFails
SignalStep == ComStep("sig") \/ ServerStep("sig")

\* What the driver, the clients and the user do
Events == \/ DriverWrite \/ PipeEnds \/ Accept \/ ClientWrite \/ ClientLeaves
          \/ ClientFails \/ Signal \/ SecondSignal

ServerNext == MainStep \/ TcpStep \/ SignalStep \/ Events
ServerSpec == ServerInit /\ [][ServerNext]_spvars

\* Each thread runs as long as it does not wait for somebody else.
ServerFairSpec ==
  /\ ServerSpec
  /\ WF_spvars(MainStep) /\ WF_spvars(TcpStep) /\ WF_spvars(SignalStep)

-----------------------------------------------------------------------------
(* Properties.                                                             *)

\* The server has been closed, by the handler or by main.
Closed == \E p \in {"main", "sig"} : pc[p] \in {"join", "gone"}

(* COMPortManager does not lose the port: as long as no two threads were   *)
(* between a test and a store of hComm at once, the handle it knows is the *)
(* open one whenever no thread is there, and none is left open that it has *)
(* forgotten (OpenRealCOM, CloseRealCOM, without a lock).                  *)
PortKept ==
  (/\ pc["main"] # "gone" /\ ~overlap
   /\ \A p \in Threads : pc[p] \notin Inside)
    => hComm = port

(* Once TCPServer::Close has returned no client is accepted, also when it  *)
(* ran before or during Start (Close, Start, HandleClient).                *)
NoneAccepted == [][Closed => accepted' = accepted]_spvars

(* SIGINT before the pipe is open ends the process, or came too late to    *)
(* keep waitForMsg from opening it; once waitForMsg has returned the       *)
(* process ends; and a HandleClient that waits for a client or comes back  *)
(* to it ends after Close (SignalHandler, waitForMsg, main).               *)
ShutdownEnds ==
  /\ (pc["main"] \in {"pipe", "tryPipe"} /\ ~WAIT_FOR_PIPE)
       ~> pc["main"] \in {"relay", "gone"}
  /\ pc["main"] \in {"closeServer", "closeListen", "join"} ~> pc["main"] = "gone"
  /\ (Closed /\ pc["tcp"] \in {"check", "accept"})
       ~> (pc["tcp"] = "ended" \/ pc["main"] = "gone")
=============================================================================
