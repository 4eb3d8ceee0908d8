-------------------------- MODULE ServerProcessProofs --------------------------
(***************************************************************************)
(* The service's threads share the port's handle and the listening socket  *)
(* without a lock.  For any number of opens and clients: the port is kept  *)
(* as long as no two threads are in the unlocked parts at once, and no     *)
(* client is accepted after the server was closed.                         *)
(***************************************************************************)
EXTENDS ServerProcess, TLAPS

Places == {"off", "open", "create", "store", "close", "closeHandle", "forget",
           "start", "listen", "pipe", "tryPipe", "relay",
           "check", "accept", "recv", "ended",
           "closeServer", "closeListen", "join", "gone"}

\* Where a thread may go on after OpenRealCOM or CloseRealCOM
Returns == {"off", "start", "relay", "recv", "closeServer"}

ServerTypeOK ==
  /\ pc \in [Threads -> Places]
  /\ back \in [Threads -> Returns]
  /\ opened \in [Threads -> Nat]
  /\ hComm \in Nat /\ port \in Nat /\ opens \in Nat
  /\ overlap \in BOOLEAN
  /\ WAIT_FOR_PIPE \in BOOLEAN /\ RUN_SERVER \in BOOLEAN
  /\ ListenSocket \in {"none", "open", "closed"}
  /\ accepted \in Nat

\* What a thread in an unlocked part knows
HandlePart(p) ==
  /\ pc[p] = "create" => hComm = INVALID /\ port = INVALID
  /\ pc[p] = "store" => hComm = INVALID /\ port = opened[p]
  /\ pc[p] = "closeHandle" => hComm = port
  /\ pc[p] = "forget" => port = INVALID

\* Without an overlap one thread at most is in an unlocked part, and the others
\* find the handle known.
PortInv ==
  (pc["main"] # "gone" /\ ~overlap) =>
    /\ \A p, q \in Threads : pc[p] \in Inside /\ pc[q] \in Inside => p = q
    /\ \A p \in Threads : HandlePart(p)
    /\ (\A p \in Threads : pc[p] \notin Inside) => hComm = port

LEMMA InitPort == ServerInit => ServerTypeOK /\ PortInv
<1> SUFFICES ASSUME ServerInit PROVE ServerTypeOK /\ PortInv
  OBVIOUS
<1>1. ServerTypeOK
  BY DEF ServerInit, ServerTypeOK, Threads, Places, Returns, INVALID
<1>2. \A p \in Threads : pc[p] \notin Inside
  BY DEF ServerInit, Inside
<1>3. hComm = port
  BY DEF ServerInit
<1> QED
  BY <1>1, <1>2, <1>3 DEF PortInv, HandlePart, Inside

LEMMA TypeStep ==
  ASSUME ServerTypeOK, [ServerNext]_spvars PROVE ServerTypeOK'
<1> USE DEF ServerTypeOK, comVars, flagVars
<1>1. ASSUME NEW p \in Threads, ComStep(p) PROVE ServerTypeOK'
  <2> USE DEF At, Goto
  <2>1. CASE OpenRealCOM(p)
    BY <2>1 DEF OpenRealCOM, Enter, Places, Returns
  <2>2. CASE CreateFile(p)
    BY <2>2 DEF CreateFile, Places, INVALID
  <2>3. CASE StoreHandle(p)
    BY <2>3 DEF StoreHandle, Places, Returns
  <2>4. CASE CloseRealCOM(p)
    BY <2>4 DEF CloseRealCOM, Enter, Places, Returns
  <2>5. CASE CloseHandle(p)
    BY <2>5 DEF CloseHandle, Places, INVALID
  <2>6. CASE ForgetHandle(p)
    BY <2>6 DEF ForgetHandle, Places, Returns, INVALID
  <2> QED
    BY <1>1, <2>1, <2>2, <2>3, <2>4, <2>5, <2>6 DEF ComStep
<1>2. ASSUME NEW p \in Threads, ServerStep(p) PROVE ServerTypeOK'
  BY <1>2 DEF ServerStep, CloseFlag, CloseListen, Wait, At, Goto, Places, CloseSocket
<1>3. CASE StartSocket \/ StartThread \/ TryPipe \/ NoPipe \/ PipeOpened
  BY <1>3 DEF StartSocket, StartThread, TryPipe, NoPipe, PipeOpened,
     At, Goto, Call, Places, Returns, Threads
<1>4. CASE CheckRun \/ AcceptFails
  BY <1>4 DEF CheckRun, AcceptFails, EndThread, CloseSocket, At, Goto, Places, Threads
<1>5. CASE DriverWrite \/ PipeEnds \/ ClientWrite \/ Signal
  <2>1. \E p \in Threads, proc \in {"open", "close"}, ret \in Returns : Call(p, proc, ret)
    BY <1>5 DEF DriverWrite, PipeEnds, ClientWrite, Signal, Returns, Threads
  <2>2. pc' \in [Threads -> Places] /\ back' \in [Threads -> Returns]
    BY <2>1 DEF Call, Places
  <2> QED
    BY <1>5, <2>2 DEF DriverWrite, PipeEnds, ClientWrite, Signal
<1>6. CASE Accept \/ ClientLeaves \/ ClientFails \/ SecondSignal
  BY <1>6 DEF Accept, ClientLeaves, ClientFails, EndThread, CloseSocket, SecondSignal, At, Goto,
       Places, Threads
<1>7. CASE UNCHANGED spvars
  BY <1>7 DEF spvars
<1> QED
  BY <1>1, <1>2, <1>3, <1>4, <1>5, <1>6, <1>7
     DEF ServerNext, MainStep, TcpStep, SignalStep, Events, Threads

-----------------------------------------------------------------------------
(* The port's handle.                                                      *)

\* Only COMPortManager moves a thread into an unlocked part, or out of one.
LEMMA OthersKeepPort ==
  ASSUME ServerTypeOK, PortInv, UNCHANGED comVars,
         pc'["main"] = "gone" \/
           /\ pc["main"] # "gone"
           /\ \A q \in Threads : pc'[q] = pc[q] \/ {pc[q], pc'[q]} \cap Inside = {}
  PROVE  PortInv'
<1>1. CASE pc'["main"] = "gone"
  BY <1>1 DEF PortInv
<1>2. CASE /\ pc["main"] # "gone" /\ ~overlap
           /\ \A q \in Threads : pc'[q] = pc[q] \/ {pc[q], pc'[q]} \cap Inside = {}
  <2>1. /\ \A p, q \in Threads : pc[p] \in Inside /\ pc[q] \in Inside => p = q
        /\ \A p \in Threads : HandlePart(p)
        /\ (\A p \in Threads : pc[p] \notin Inside) => hComm = port
    BY <1>2 DEF PortInv
  <2>2. \A q \in Threads : pc'[q] \in Inside => pc[q] = pc'[q]
    BY <1>2
  <2>3. \A q \in Threads : pc[q] \in Inside => pc'[q] = pc[q]
    BY <1>2
  <2>4. \A p \in Threads : HandlePart(p)'
    BY <2>1, <2>2 DEF HandlePart, Inside, comVars
  <2>5. /\ \A p, q \in Threads : pc'[p] \in Inside /\ pc'[q] \in Inside => p = q
        /\ (\A p \in Threads : pc'[p] \notin Inside) => hComm' = port'
    BY <2>1, <2>2, <2>3 DEF comVars
  <2> QED
    BY <2>4, <2>5 DEF PortInv
<1>3. CASE overlap
  BY <1>3 DEF PortInv, comVars
<1> QED
  BY <1>1, <1>2, <1>3

LEMMA ComStepPort ==
  ASSUME ServerTypeOK, PortInv, NEW p \in Threads, ComStep(p) PROVE PortInv'
<1> SUFFICES ASSUME pc'["main"] # "gone", ~overlap' PROVE PortInv'
  BY DEF PortInv
<1> DEFINE Alone == \A q \in Threads \ {p} : pc[q] \notin Inside /\ pc'[q] = pc[q]
<1>1. /\ pc["main"] # "gone" /\ ~overlap
      /\ \A q \in Threads \ {p} : pc'[q] = pc[q]
      /\ pc[p] \in {"open", "close"} \cup Inside
  BY DEF ComStep, OpenRealCOM, CreateFile, StoreHandle, CloseRealCOM, CloseHandle,
     ForgetHandle, At, Goto, Enter, Inside, ServerTypeOK
<1>2. /\ \A q, r \in Threads : pc[q] \in Inside /\ pc[r] \in Inside => q = r
      /\ \A q \in Threads : HandlePart(q)
      /\ (\A q \in Threads : pc[q] \notin Inside) => hComm = port
  BY <1>1 DEF PortInv
\* A thread that finds the handle known, or none, goes on.
<1>3. CASE /\ OpenRealCOM(p) \/ CloseRealCOM(p)
           /\ pc'[p] \notin Inside
  <2>1. UNCHANGED <<hComm, opened, port, opens>>
    BY <1>3 DEF OpenRealCOM, CloseRealCOM
  <2>2. overlap' = overlap
    BY <1>3 DEF OpenRealCOM, CloseRealCOM, Goto, Inside, ServerTypeOK
  <2>3. pc[p] \notin Inside
    BY <1>3 DEF OpenRealCOM, CloseRealCOM, At, Inside
  <2>4. \A q \in Threads : pc'[q] = pc[q] \/ {pc[q], pc'[q]} \cap Inside = {}
    BY <1>1, <1>3, <2>3
  <2> QED
    BY <1>1, <2>1, <2>2, <2>4, OthersKeepPort DEF comVars
\* From now on the stepping thread is the one in an unlocked part.
<1>4. ASSUME Alone, pc'[p] \in Inside => HandlePart(p)',
             pc'[p] \notin Inside => hComm' = port'
      PROVE  PortInv'
  <2>1. \A q \in Threads : q # p => pc'[q] \notin Inside
    BY <1>4
  <2>2. \A q \in Threads : HandlePart(q)'
    BY <1>4, <2>1 DEF HandlePart, Inside
  <2> QED
    BY <1>4, <2>1, <2>2 DEF PortInv
<1>5. CASE /\ OpenRealCOM(p) \/ CloseRealCOM(p)
           /\ pc'[p] \in Inside
  <2>1. /\ Enter(p) /\ UNCHANGED <<hComm, opened, port>>
        /\ \/ pc'[p] = "create" /\ hComm = INVALID
           \/ pc'[p] = "closeHandle"
    BY <1>5 DEF OpenRealCOM, CloseRealCOM, At, Goto, ServerTypeOK, Returns, Inside
  <2>2. pc[p] \notin Inside
    BY <1>5 DEF OpenRealCOM, CloseRealCOM, At, Inside
  <2>3. Alone
    BY <1>1, <2>1 DEF Enter
  <2>4. hComm = port
    BY <1>2, <2>2, <2>3
  <2>5. HandlePart(p)'
    BY <2>1, <2>4 DEF HandlePart
  <2> QED
    BY <1>4, <1>5, <2>3, <2>5
<1>6. ASSUME pc[p] \in Inside PROVE Alone
  BY <1>1, <1>2, <1>6
<1>7. CASE CreateFile(p)
  <2>1. pc[p] = "create" /\ pc'[p] = "store" /\ hComm' = hComm
        /\ port = INVALID /\ hComm = INVALID
    BY <1>2, <1>7 DEF CreateFile, At, Goto, ServerTypeOK, HandlePart
  <2>2. port' = opened'[p]
    BY <1>7, <2>1 DEF CreateFile, ServerTypeOK
  <2>3. HandlePart(p)'
    BY <2>1, <2>2 DEF HandlePart
  <2> QED
    BY <1>4, <1>6, <2>1, <2>3 DEF Inside
<1>8. CASE StoreHandle(p)
  <2>1. pc[p] = "store" /\ pc'[p] \notin Inside /\ hComm' = port'
    BY <1>2, <1>8 DEF StoreHandle, At, Goto, ServerTypeOK, HandlePart, Returns, Inside
  <2> QED
    BY <1>4, <1>6, <2>1 DEF Inside
<1>9. CASE CloseHandle(p)
  <2>1. pc[p] = "closeHandle" /\ pc'[p] = "forget" /\ port' = INVALID
    BY <1>2, <1>9 DEF CloseHandle, At, Goto, ServerTypeOK, HandlePart
  <2>2. HandlePart(p)'
    BY <2>1 DEF HandlePart
  <2> QED
    BY <1>4, <1>6, <2>1, <2>2 DEF Inside
<1>10. CASE ForgetHandle(p)
  <2>1. pc[p] = "forget" /\ pc'[p] \notin Inside /\ hComm' = port'
    BY <1>2, <1>10 DEF ForgetHandle, At, Goto, ServerTypeOK, HandlePart, Returns, Inside
  <2> QED
    BY <1>4, <1>6, <2>1 DEF Inside
<1> QED
  BY <1>3, <1>5, <1>7, <1>8, <1>9, <1>10 DEF ComStep

-----------------------------------------------------------------------------
(* The start of the TCP server and its end.                                *)

\* Before Start has made it, there is no thread that could accept.
Starting ==
  \/ pc["main"] \in {"start", "listen"}
  \/ back["main"] = "start" /\ pc["main"] \in {"open", "close"} \cup Inside

\* After the flag has been cleared, and after the socket has been closed
CloseInv ==
  /\ Starting => pc["tcp"] = "off"
  /\ (\E p \in {"main", "sig"} : pc[p] \in {"closeListen", "join"}) => ~RUN_SERVER
  /\ pc["sig"] = "gone" => ~RUN_SERVER
  /\ (pc["main"] # "gone" /\ Closed /\ pc["tcp"] = "accept") => ListenSocket # "open"

LEMMA InitClose == ServerInit => CloseInv
  BY DEF ServerInit, CloseInv, Closed, Starting, Threads, Inside

LEMMA CloseStep ==
  ASSUME ServerTypeOK, CloseInv, [ServerNext]_spvars PROVE CloseInv'
<1> USE DEF CloseInv, ServerTypeOK
<1>1. ASSUME NEW p \in Threads, ComStep(p), p = "tcp" => pc["tcp"] # "off"
      PROVE  CloseInv'
  <2>1. /\ pc["main"] # "gone" /\ UNCHANGED <<back, flagVars>>
        /\ pc' = [pc EXCEPT ![p] = pc'[p]]
        /\ pc[p] \in {"open", "close"} \cup Inside
        /\ pc'[p] \in {back[p]} \cup Inside
    BY <1>1 DEF ComStep, OpenRealCOM, CreateFile, StoreHandle, CloseRealCOM, CloseHandle,
       ForgetHandle, At, Goto, Inside
  <2>2. back[p] \in Returns
    OBVIOUS
  <2>3. (Starting => pc["tcp"] = "off")'
    BY <1>1, <2>1, <2>2 DEF Starting, Inside, Returns, Threads
  <2>4. Closed' => Closed
    BY <2>1, <2>2 DEF Closed, Inside, Returns, Threads
  <2> QED
    BY <2>1, <2>2, <2>3, <2>4 DEF Inside, Returns, Threads, flagVars
<1>2. ASSUME NEW p \in {"main", "sig"}, ServerStep(p) PROVE CloseInv'
  <2>1. CASE CloseFlag(p)
    BY <1>2, <2>1 DEF CloseFlag, At, Goto, Closed, Starting, Threads, Inside
  <2>2. CASE CloseListen(p)
    BY <1>2, <2>2 DEF CloseListen, CloseSocket, At, Goto, Closed, Starting, Threads, Inside
  <2>3. CASE Wait(p)
    BY <1>2, <2>3 DEF Wait, At, Goto, Closed, Starting, Threads, Inside, flagVars
  <2> QED
    BY <1>2, <2>1, <2>2, <2>3 DEF ServerStep
<1>3. CASE StartSocket \/ StartThread
  BY <1>3 DEF StartSocket, StartThread, At, Goto, Closed, Starting, Threads, Inside, flagVars
<1>4. CASE TryPipe \/ NoPipe \/ PipeOpened \/ DriverWrite \/ PipeEnds
  BY <1>4 DEF TryPipe, NoPipe, PipeOpened, DriverWrite, PipeEnds, At, Goto, Call,
     Closed, Starting, Threads, Inside, flagVars
<1>5. CASE CheckRun \/ AcceptFails
  BY <1>5 DEF CheckRun, AcceptFails, EndThread, CloseSocket, At, Goto,
     Closed, Starting, Threads, Inside, flagVars
<1>6. CASE Accept \/ ClientWrite \/ ClientLeaves \/ ClientFails
  BY <1>6 DEF Accept, ClientWrite, ClientLeaves, ClientFails, EndThread, CloseSocket, At, Goto, Call,
     Closed, Starting, Threads, Inside, flagVars
<1>7. CASE Signal
  BY <1>7 DEF Signal, At, Call, Closed, Starting, Threads, Inside
<1>8. CASE SecondSignal
  BY <1>8 DEF SecondSignal, Goto, Closed, Starting, Threads, Inside, flagVars
<1>9. CASE UNCHANGED spvars
  BY <1>9 DEF spvars, Closed, Starting, Inside
<1>10. ComStep("tcp") => pc["tcp"] # "off"
  BY DEF ComStep, OpenRealCOM, CreateFile, StoreHandle, CloseRealCOM, CloseHandle,
     ForgetHandle, At
<1> QED
  BY <1>1, <1>2, <1>3, <1>4, <1>5, <1>6, <1>7, <1>8, <1>9, <1>10
     DEF ServerNext, MainStep, TcpStep, SignalStep, Events, Threads

LEMMA PortStep ==
  ASSUME ServerTypeOK, PortInv, CloseInv, [ServerNext]_spvars PROVE PortInv'
<1> DEFINE Moves == \A q \in Threads : pc'[q] = pc[q] \/ {pc[q], pc'[q]} \cap Inside = {}
<1> USE DEF ServerTypeOK
<1>1. ASSUME NEW p \in Threads, ComStep(p) PROVE PortInv'
  BY <1>1, ComStepPort
<1>2. ASSUME UNCHANGED comVars, pc["main"] # "gone", Moves PROVE PortInv'
  BY <1>2, OthersKeepPort
<1>3. ASSUME NEW p \in Threads, ServerStep(p) PROVE PortInv'
  <2>1. UNCHANGED comVars /\ pc["main"] # "gone" /\ Moves
    BY <1>3 DEF ServerStep, CloseFlag, CloseListen, Wait, At, Goto, Inside
  <2> QED
    BY <1>2, <2>1
<1>4. CASE StartThread
  <2>1. pc["main"] = "listen" /\ pc["tcp"] = "off"
    BY <1>4 DEF StartThread, At, CloseInv, Starting
  <2>2. UNCHANGED comVars /\ pc["main"] # "gone" /\ Moves
    BY <1>4, <2>1 DEF StartThread, Inside, Threads
  <2> QED
    BY <1>2, <2>2
<1>5. CASE StartSocket \/ TryPipe \/ NoPipe \/ PipeOpened \/ DriverWrite \/ PipeEnds
  <2>1. UNCHANGED comVars /\ pc["main"] # "gone" /\ Moves
    BY <1>5 DEF StartSocket, TryPipe, NoPipe, PipeOpened, DriverWrite, PipeEnds,
       At, Goto, Call, Inside, Threads
  <2> QED
    BY <1>2, <2>1
<1>6. CASE CheckRun \/ AcceptFails \/ Accept \/ ClientLeaves \/ ClientFails
  <2>1. UNCHANGED comVars /\ pc["main"] # "gone" /\ Moves
    BY <1>6 DEF CheckRun, AcceptFails, EndThread, Accept, ClientLeaves, ClientFails,
       At, Goto, Inside, Threads
  <2> QED
    BY <1>2, <2>1
<1>7. CASE ClientWrite \/ Signal
  <2>1. UNCHANGED comVars /\ pc["main"] # "gone" /\ Moves
    BY <1>7 DEF ClientWrite, Signal, At, Call, Inside, Threads
  <2> QED
    BY <1>2, <2>1
<1>8. CASE SecondSignal
  <2>1. UNCHANGED comVars /\ pc'["main"] = "gone"
    BY <1>8 DEF SecondSignal, Goto, Threads
  <2> QED
    BY <2>1, OthersKeepPort
<1>9. CASE UNCHANGED spvars
  BY <1>9 DEF spvars, PortInv, HandlePart, Inside
<1> QED
  BY <1>1, <1>3, <1>4, <1>5, <1>6, <1>7, <1>8, <1>9
     DEF ServerNext, MainStep, TcpStep, SignalStep, Events, Threads

-----------------------------------------------------------------------------
(* The handle and the end of the server agree with what the threads know   *)
(* (OpenRealCOM, CloseRealCOM, Start, Close, HandleClient).                *)
THEOREM ServerInvariant ==
  ServerSpec => [](ServerTypeOK /\ PortInv /\ CloseInv)
<1>1. ServerInit => ServerTypeOK /\ PortInv /\ CloseInv
  BY InitPort, InitClose
<1>2. ServerTypeOK /\ PortInv /\ CloseInv /\ [ServerNext]_spvars
        => (ServerTypeOK /\ PortInv /\ CloseInv)'
  BY TypeStep, PortStep, CloseStep
<1> QED
  BY <1>1, <1>2, PTL DEF ServerSpec

(* The handle COMPortManager knows is the open one, unless two threads     *)
(* were between a test and a store at once (OpenRealCOM, CloseRealCOM).    *)
THEOREM PortIsKept == ServerSpec => []PortKept
<1>1. PortInv => PortKept
  BY DEF PortInv, PortKept
<1> QED
  BY <1>1, ServerInvariant, PTL

(* No client is accepted after TCPServer::Close, whenever it runs (Close,  *)
(* Start, HandleClient).                                                   *)
THEOREM NoneIsAccepted == ServerSpec => NoneAccepted
<1>1. ServerTypeOK /\ CloseInv /\ [ServerNext]_spvars
        => [Closed => accepted' = accepted]_spvars
  <2> SUFFICES ASSUME CloseInv, ServerNext, Closed PROVE accepted' = accepted
    OBVIOUS
  <2>1. ~Accept
    BY DEF CloseInv, Accept, At
  <2> QED
    BY <2>1 DEF ServerNext, MainStep, TcpStep, SignalStep, Events, ComStep, ServerStep,
       OpenRealCOM, CreateFile, StoreHandle, CloseRealCOM, CloseHandle, ForgetHandle,
       CloseFlag, CloseListen, Wait, StartSocket, StartThread, TryPipe, NoPipe,
       PipeOpened, DriverWrite, PipeEnds, CheckRun, AcceptFails, EndThread, ClientWrite,
       ClientLeaves, ClientFails, Signal, SecondSignal, flagVars
<1> QED
  BY <1>1, ServerInvariant, PTL DEF ServerSpec, NoneAccepted
=============================================================================
