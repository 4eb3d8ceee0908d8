-------------------------- MODULE DriverQueueProofs --------------------------
(***************************************************************************)
(* The safety properties of the driver, for any number of framework        *)
(* threads and request streams, any pipe quota and any pipe client.        *)
(***************************************************************************)
EXTENDS DriverQueue, SequenceTheorems, TLAPS

\* The initial state satisfies the invariant.
LEMMA InitInv == DriverInit => DriverInv
<1> SUFFICES ASSUME DriverInit PROVE DriverInv
  OBVIOUS
<1> USE DEF DriverInit, PipeInit
<1>1. ZeroChunk \in Chunk /\ Zero \in Data
  BY DEF ZeroChunk, Zero, Chunk, Direction, Data
<1>2. NoRequest \in Request
  BY <1>1 DEF NoRequest, Request, AllOps
<1>3. NoCallback \in Callback
  BY DEF NoCallback, Callback, Pcs
<1>4. DriverTypeOK
  <2>1. PipeTypeOK
    BY DEF PipeTypeOK, PipeStates, CliStates
  <2>2. smOut \in [d : Direction, len : Int, data : Data, tail : Chunk]
    BY <1>1 DEF Direction, NewMessage
  <2>3. /\ cb \in [Threads -> Callback]
        /\ req \in [Issuers -> Request]
        /\ issued \in [Issuers -> Nat]
    BY <1>2, <1>3
  <2>4. readLog \in Seq([asked : Nat, got : Int, data : Data])
    BY EmptySeq
  <2>5. /\ pipeOpen \in BOOLEAN
        /\ fConnected \in BOOLEAN
        /\ hPipe \in {"null", "invalid", "live", "stale"}
        /\ lock \in Threads \cup {NoThread}
        /\ acked \in Nat
    OBVIOUS
  <2> QED
    BY <2>1, <2>2, <2>3, <2>4, <2>5 DEF DriverTypeOK
<1>5. LockPart
  BY DriverAssumption DEF LockPart, NoCallback
<1>6. RequestPart /\ HandlePart /\ ClientPart /\ ConnectedPart /\ PlacePart
  BY DEF RequestPart, HandlePart, ClientPart, ConnectedPart, PlacePart, NoCallback
<1> QED
  BY <1>4, <1>5, <1>6 DEF DriverInv

\* A request arrives.
LEMMA RequestArrivesInv == DriverInv /\ RequestArrives => DriverInv'
<1> SUFFICES ASSUME DriverInv, RequestArrives PROVE DriverInv'
  OBVIOUS
<1> PICK i \in Issuers, op \in Ops, len \in Lengths, tail \in Tails :
      Issue(i, op, len, tail)
  BY DEF RequestArrives
<1> USE DEF Issue
<1>1. DriverTypeOK'
  BY DriverAssumption
  DEF DriverInv, DriverTypeOK, PipeTypeOK, pipeVars, Request
<1>2. RequestPart'
  BY DEF DriverInv, RequestPart, DriverTypeOK, LockPart
<1>3. LockPart' /\ HandlePart' /\ ClientPart' /\ ConnectedPart' /\ PlacePart'
  BY DEF DriverInv, LockPart, HandlePart, ClientPart, ConnectedPart, PlacePart, pipeVars
<1> QED
  BY <1>1, <1>2, <1>3 DEF DriverInv

\* A queued request is cancelled.
LEMMA RequestCancelledInv == DriverInv /\ RequestCancelled => DriverInv'
<1> SUFFICES ASSUME DriverInv, NEW i \in Issuers, req[i].st = "queued",
                    CancelQueued(i),
                    UNCHANGED <<pipeVars, pipeOpen, fConnected, hPipe, smOut,
                                lock, cb, issued, acked, readLog>>
             PROVE  DriverInv'
  BY DEF RequestCancelled
<1> USE DEF CancelQueued
<1>0. NoRequest \in Request
  BY DEF NoRequest, Request, AllOps, ZeroChunk, Chunk, Direction, Data, Zero
<1>1. DriverTypeOK'
  BY <1>0 DEF DriverInv, DriverTypeOK, PipeTypeOK, pipeVars
<1>2. RequestPart'
  BY DEF DriverInv, RequestPart, DriverTypeOK, LockPart
<1>3. LockPart' /\ HandlePart' /\ ClientPart' /\ ConnectedPart' /\ PlacePart'
  BY DEF DriverInv, LockPart, HandlePart, ClientPart, ConnectedPart, PlacePart, pipeVars
<1> QED
  BY <1>1, <1>2, <1>3 DEF DriverInv

\* Any step of the client end.
LEMMA PipeClientInv == DriverInv /\ PipeClient => DriverInv'
<1> SUFFICES ASSUME DriverInv, PipeClient PROVE DriverInv'
  OBVIOUS
<1> USE DEF PipeClient, driverVars
<1>1. LockPart' /\ RequestPart'
  BY DEF DriverInv, LockPart, RequestPart
<1>2. ASSUME PipeTypeOK',
             pipe' # "none" <=> pipe # "none",
             cli' = "open" <=> pipe' = "connected",
             pipe \in {"connected", "clientGone"} =>
               pipe' \in {"connected", "clientGone"},
             pipe' = "listening" => pipe = "listening"
      PROVE  DriverInv'
  <2>1. DriverTypeOK'
    BY <1>2 DEF DriverInv, DriverTypeOK
  <2>2. HandlePart' /\ ClientPart' /\ ConnectedPart' /\ PlacePart'
    BY <1>2 DEF DriverInv, HandlePart, ClientPart, ConnectedPart, PlacePart
  <2> QED
    BY <1>1, <2>1, <2>2 DEF DriverInv
<1>3. CASE ClientOpen
  BY <1>2, <1>3
  DEF ClientOpen, DriverInv, DriverTypeOK, PipeTypeOK, PipeStates, CliStates
<1>4. CASE ClientClose
  <2>1. toSvc' \in Seq(Chunk)
    BY <1>4, EmptySeq DEF ClientClose, DriverInv, DriverTypeOK, PipeTypeOK
  <2> QED
    BY <1>2, <1>4, <2>1
    DEF ClientClose, DriverInv, DriverTypeOK, PipeTypeOK, PipeStates, CliStates,
        ClientPart
<1>5. CASE ClientRead
  <2>1. toSvc' \in Seq(Chunk)
    BY <1>5, HeadTailProperties
    DEF ClientRead, DriverInv, DriverTypeOK, PipeTypeOK
  <2> QED
    BY <1>2, <1>5, <2>1
    DEF ClientRead, DriverInv, DriverTypeOK, PipeTypeOK, ClientPart
<1>6. ASSUME NEW m \in EnvChunks, ClientWrite(m)
      PROVE  DriverInv'
  <2>1. toDrv' \in Seq(Chunk)
    BY <1>6, AppendProperties, DriverAssumption
    DEF ClientWrite, DriverInv, DriverTypeOK, PipeTypeOK
  <2> QED
    BY <1>2, <1>6, <2>1
    DEF ClientWrite, DriverInv, DriverTypeOK, PipeTypeOK, ClientPart
<1> QED
  BY <1>3, <1>4, <1>5, <1>6

-----------------------------------------------------------------------------
(* The steps of a callback.  The thread that takes one holds the lock, so   *)
(* every other thread is idle, before the step and after it.                *)

LEMMA OthersIdle ==
  ASSUME DriverInv, NEW t \in Threads, cb[t].pc # "idle"
  PROVE  /\ lock = t
         /\ cb[t].iss \in Issuers
         /\ \A u \in Threads \ {t} : cb[u].pc = "idle"
BY DEF DriverInv, LockPart

\* A callback starts.
LEMMA DispatchInv ==
  ASSUME DriverInv, NEW t \in Threads, NEW i \in Issuers, Dispatch(t, i)
  PROVE  DriverInv'
<1> USE DEF Dispatch, LockFree
<1>1. \A u \in Threads : cb[u].pc = "idle"
  BY DriverAssumption DEF DriverInv, LockPart
<1>2. /\ EntryPc(req[i].op) \in Pcs \ {"idle", "connect", "listen", "wfile",
                                       "rwrite", "rread"}
      /\ EntryPc(req[i].op) = "create" =>
           ~pipeOpen /\ req[i].op \in {"write", "read"}
  BY DEF EntryPc, Pcs, DriverInv, DriverTypeOK, Request, AllOps
<1>3. /\ cb'[t] = [pc |-> EntryPc(req[i].op), iss |-> i]
      /\ \A u \in Threads \ {t} : cb'[u] = cb[u]
      /\ cb' \in [Threads -> Callback]
  BY <1>2 DEF DriverInv, DriverTypeOK, Callback
<1>4. /\ req' \in [Issuers -> Request]
      /\ req'[i].st = "active" /\ req'[i].op = req[i].op
  BY DEF DriverInv, DriverTypeOK, Request
<1>5. DriverTypeOK'
  BY <1>3, <1>4 DEF DriverInv, DriverTypeOK, PipeTypeOK, pipeVars
<1>6. LockPart'
  BY <1>1, <1>2, <1>3, DriverAssumption DEF LockPart
<1>7. RequestPart' /\ PlacePart'
  BY <1>1, <1>2, <1>3, <1>4 DEF RequestPart, PlacePart
<1>8. HandlePart' /\ ClientPart' /\ ConnectedPart'
  BY <1>1 DEF DriverInv, HandlePart, ClientPart, ConnectedPart, pipeVars
<1> QED
  BY <1>5, <1>6, <1>7, <1>8 DEF DriverInv

\* A callback that goes on at another place keeps the lock.
LEMMA GotoFacts ==
  ASSUME DriverInv, NEW t \in Threads, cb[t].pc # "idle",
         NEW pc \in Pcs \ {"idle"}, Goto(t, pc)
  PROVE  /\ cb' \in [Threads -> Callback]
         /\ cb'[t] = [pc |-> pc, iss |-> cb[t].iss]
         /\ \A u \in Threads \ {t} : cb'[u].pc = "idle"
         /\ lock' \in Threads \cup {NoThread}
         /\ LockPart'
<1> USE DEF Goto
<1>1. cb' \in [Threads -> Callback]
  BY DEF DriverInv, DriverTypeOK, Callback
<1>2. /\ cb'[t] = [pc |-> pc, iss |-> cb[t].iss]
      /\ \A u \in Threads \ {t} : cb'[u].pc = "idle"
  BY OthersIdle DEF DriverInv, DriverTypeOK, Callback
<1>3. lock' \in Threads \cup {NoThread}
  BY DEF DriverInv, DriverTypeOK
<1>4. LockPart'
  BY <1>2, OthersIdle DEF LockPart
<1> QED
  BY <1>1, <1>2, <1>3, <1>4

\* A callback that returns leaves every thread idle and the lock free.
LEMMA ReturnFacts ==
  ASSUME DriverInv, NEW t \in Threads, cb[t].pc # "idle", Return(t)
  PROVE  /\ cb' \in [Threads -> Callback]
         /\ \A u \in Threads : cb'[u].pc = "idle"
         /\ lock' \in Threads \cup {NoThread}
         /\ LockPart' /\ RequestPart' /\ PlacePart'
<1> USE DEF Return
<1>1. cb' \in [Threads -> Callback]
  BY DEF DriverInv, DriverTypeOK, Callback, NoCallback, Pcs
<1>2. \A u \in Threads : cb'[u].pc = "idle"
  BY OthersIdle DEF DriverInv, DriverTypeOK, NoCallback
<1>3. LockPart'
  BY <1>2, DriverAssumption DEF LockPart
<1>4. RequestPart' /\ PlacePart'
  BY <1>2 DEF RequestPart, PlacePart
<1> QED
  BY <1>1, <1>2, <1>3, <1>4

\* A completed request makes room for the next one of its issuer.
LEMMA CompleteFacts ==
  ASSUME DriverInv, NEW i \in Issuers, Complete(i)
  PROVE  req' \in [Issuers -> Request]
<1>1. NoRequest \in Request
  BY DEF NoRequest, Request, AllOps, ZeroChunk, Chunk, Direction, Data, Zero
<1> QED
  BY <1>1 DEF Complete, DriverInv, DriverTypeOK

\* openPipes calls CreateNamedPipe.
LEMMA CreateInv ==
  ASSUME DriverInv, NEW t \in Threads, CreatePipe(t) \/ CreatePipeFails(t)
  PROVE  DriverInv'
<1>0. cb[t].pc = "create" /\ lock = t /\ cb[t].iss \in Issuers
  BY OthersIdle DEF CreatePipe, CreatePipeFails
<1>1. CASE CreatePipe(t)
  <2> USE <1>1 DEF CreatePipe, ServerCreate
  <2>1. /\ cb' \in [Threads -> Callback]
        /\ cb'[t] = [pc |-> "connect", iss |-> cb[t].iss]
        /\ \A u \in Threads \ {t} : cb'[u].pc = "idle"
        /\ lock' \in Threads \cup {NoThread}
        /\ LockPart'
    BY <1>0, GotoFacts DEF Pcs
  <2>2. DriverTypeOK'
    BY <2>1, EmptySeq
    DEF DriverInv, DriverTypeOK, PipeTypeOK, PipeStates
  <2>3. RequestPart'
    BY <1>0, <2>1 DEF DriverInv, RequestPart
  <2>4. ~fConnected /\ cli # "open"
    BY <1>0 DEF DriverInv, PlacePart, HandlePart, ClientPart, ConnectedPart
  <2>5. HandlePart' /\ ClientPart' /\ ConnectedPart' /\ PlacePart'
    BY <1>0, <2>1, <2>4
    DEF HandlePart, ClientPart, ConnectedPart, PlacePart
  <2> QED
    BY <2>1, <2>2, <2>3, <2>5 DEF DriverInv
<1>2. CASE CreatePipeFails(t)
  <2> USE <1>2 DEF CreatePipeFails, pipeVars
  <2> DEFINE op == req[cb[t].iss].op
  <2>1. op \in {"write", "read"} /\ req[cb[t].iss].st = "active"
    BY <1>0 DEF DriverInv, RequestPart
  <2>2. /\ cb' \in [Threads -> Callback]
        /\ cb'[t] = [pc |-> op, iss |-> cb[t].iss]
        /\ \A u \in Threads \ {t} : cb'[u].pc = "idle"
        /\ lock' \in Threads \cup {NoThread}
        /\ LockPart'
    <3> HIDE DEF op
    <3>1. op \in Pcs \ {"idle"}
      BY <2>1 DEF Pcs
    <3> QED
      BY <1>0, <3>1, GotoFacts DEF op
  <2>3. DriverTypeOK'
    BY <2>2 DEF DriverInv, DriverTypeOK, PipeTypeOK
  <2>4. RequestPart'
    BY <1>0, <2>1, <2>2 DEF RequestPart
  <2>5. HandlePart' /\ ClientPart' /\ ConnectedPart' /\ PlacePart'
    BY <1>0, <2>1, <2>2
    DEF DriverInv, HandlePart, ClientPart, ConnectedPart, PlacePart
  <2> QED
    BY <2>2, <2>3, <2>4, <2>5 DEF DriverInv
<1> QED
  BY <1>1, <1>2

\* openPipes calls ConnectNamedPipe, which may have to wait.
LEMMA WaitInv ==
  ASSUME DriverInv, NEW t \in Threads, WaitForClient(t)
  PROVE  DriverInv'
<1> USE DEF WaitForClient
<1>0. cb[t].pc = "connect" /\ lock = t /\ cb[t].iss \in Issuers
  BY OthersIdle
<1>1. /\ cb' \in [Threads -> Callback]
      /\ cb'[t] = [pc |-> "listen", iss |-> cb[t].iss]
      /\ \A u \in Threads \ {t} : cb'[u].pc = "idle"
      /\ lock' \in Threads \cup {NoThread}
      /\ LockPart'
  BY <1>0, GotoFacts DEF Pcs
<1>2. DriverTypeOK'
  BY <1>1 DEF DriverInv, DriverTypeOK, PipeTypeOK, PipeStates
<1>3. RequestPart'
  BY <1>0, <1>1 DEF DriverInv, RequestPart
<1>4. HandlePart' /\ ClientPart' /\ ConnectedPart' /\ PlacePart'
  BY <1>0, <1>1
  DEF DriverInv, HandlePart, ClientPart, ConnectedPart, PlacePart
<1> QED
  BY <1>1, <1>2, <1>3, <1>4 DEF DriverInv

\* ConnectNamedPipe returns.
LEMMA ConnectInv ==
  ASSUME DriverInv, NEW t \in Threads, ClientConnected(t) \/ ConnectFails(t)
  PROVE  DriverInv'
<1> DEFINE op == req[cb[t].iss].op
<1>0. cb[t].pc \in {"connect", "listen"} /\ lock = t /\ cb[t].iss \in Issuers
  BY OthersIdle DEF ClientConnected, ConnectFails
<1>1. op \in {"write", "read"} /\ req[cb[t].iss].st = "active"
  BY <1>0 DEF DriverInv, RequestPart
<1>2. /\ cb' \in [Threads -> Callback]
      /\ cb'[t] = [pc |-> op, iss |-> cb[t].iss]
      /\ \A u \in Threads \ {t} : cb'[u].pc = "idle"
      /\ lock' \in Threads \cup {NoThread}
      /\ LockPart'
  <2>1. Goto(t, op)
    BY DEF ClientConnected, ConnectFails
  <2> HIDE DEF op
  <2>2. op \in Pcs \ {"idle"}
    BY <1>1 DEF Pcs
  <2> QED
    BY <1>0, <2>1, <2>2, GotoFacts
<1>3. RequestPart'
  BY <1>0, <1>1, <1>2 DEF RequestPart, ClientConnected, ConnectFails
<1>4. hPipe = "live"
  BY <1>0 DEF DriverInv, PlacePart
<1>5. CASE ClientConnected(t)
  <2> USE <1>5 DEF ClientConnected, pipeVars
  <2>1. DriverTypeOK'
    BY <1>2 DEF DriverInv, DriverTypeOK, PipeTypeOK
  <2>2. HandlePart' /\ ClientPart' /\ ConnectedPart' /\ PlacePart'
    BY <1>0, <1>1, <1>2, <1>4
    DEF DriverInv, HandlePart, ClientPart, ConnectedPart, PlacePart
  <2> QED
    BY <1>2, <1>3, <2>1, <2>2 DEF DriverInv
<1>6. CASE ConnectFails(t)
  <2> USE <1>6 DEF ConnectFails, ServerDestroy
  <2>1. DriverTypeOK'
    BY <1>2, EmptySeq
    DEF DriverInv, DriverTypeOK, PipeTypeOK, PipeStates, CliStates
  <2>2. HandlePart' /\ ClientPart' /\ ConnectedPart' /\ PlacePart'
    BY <1>0, <1>1, <1>2, <1>4
    DEF DriverInv, HandlePart, ClientPart, ConnectedPart, PlacePart
  <2> QED
    BY <1>2, <1>3, <2>1, <2>2 DEF DriverInv
<1> QED
  BY <1>5, <1>6

\* Marking a message as one of n bytes to send keeps it a message.
LEMMA MarkedType ==
  ASSUME NEW m \in [d : Direction, len : Int, data : Data, tail : Chunk],
         NEW n \in Nat
  PROVE  [m EXCEPT !.d = "TX", !.len = n]
           \in [d : Direction, len : Int, data : Data, tail : Chunk]
<1>1. "TX" \in Direction /\ n \in Int
  BY DEF Direction
<1> QED
  BY <1>1

\* OnWrite copies the bytes and completes the request.
LEMMA WriteBytesInv ==
  ASSUME DriverInv, NEW t \in Threads, WriteBytes(t)
  PROVE  DriverInv'
<1> USE DEF WriteBytes, pipeVars
<1> DEFINE r == req[cb[t].iss]
<1>0. cb[t].pc = "write" /\ lock = t /\ cb[t].iss \in Issuers
  BY OthersIdle
<1>1. req' \in [Issuers -> Request]
  BY <1>0, CompleteFacts
<1>2. smOut' \in [d : Direction, len : Int, data : Data, tail : Chunk]
  <2>1. TxData(acked + 1, r.len) \in Data /\ r.tail \in Chunk /\ r.len \in Nat
    BY <1>0 DEF DriverInv, DriverTypeOK, Request, TxData, Data
  <2>2. CopiedIn(acked + 1, r.len, r.tail)
          \in [d : Direction, len : Int, data : Data, tail : Chunk]
    <3> HIDE DEF r
    <3> QED
      BY <2>1 DEF CopiedIn, DriverInv, DriverTypeOK
  <2>3. smOut' = CopiedIn(acked + 1, r.len, r.tail)
        \/ smOut' = [CopiedIn(acked + 1, r.len, r.tail)
                       EXCEPT !.d = "TX", !.len = r.len]
    OBVIOUS
  <2> HIDE DEF r
  <2> QED
    BY <2>1, <2>2, <2>3, MarkedType
<1>3. acked' \in Nat
  BY DEF DriverInv, DriverTypeOK
<1>4. HandlePart' /\ ClientPart'
  BY DEF DriverInv, HandlePart, ClientPart
<1>5. CASE UsesPipe
  <2>1. /\ cb' \in [Threads -> Callback]
        /\ cb'[t] = [pc |-> "wfile", iss |-> cb[t].iss]
        /\ \A u \in Threads \ {t} : cb'[u].pc = "idle"
        /\ lock' \in Threads \cup {NoThread}
        /\ LockPart'
    BY <1>0, <1>5, GotoFacts DEF Pcs
  <2>2. DriverTypeOK'
    BY <1>1, <1>2, <1>3, <2>1 DEF DriverInv, DriverTypeOK, PipeTypeOK
  <2>3. RequestPart'
    BY <2>1 DEF RequestPart
  <2>4. ConnectedPart' /\ PlacePart'
    BY <1>0, <1>5, <2>1
    DEF DriverInv, ConnectedPart, PlacePart, UsesPipe
  <2> QED
    BY <1>4, <2>1, <2>2, <2>3, <2>4 DEF DriverInv
<1>6. CASE ~UsesPipe
  <2>1. /\ cb' \in [Threads -> Callback]
        /\ \A u \in Threads : cb'[u].pc = "idle"
        /\ lock' \in Threads \cup {NoThread}
        /\ LockPart' /\ RequestPart' /\ PlacePart'
    BY <1>0, <1>6, ReturnFacts
  <2>2. DriverTypeOK'
    BY <1>1, <1>2, <1>3, <2>1 DEF DriverInv, DriverTypeOK, PipeTypeOK
  <2>3. ConnectedPart'
    BY <1>0, OthersIdle DEF DriverInv, ConnectedPart
  <2> QED
    BY <1>4, <2>1, <2>2, <2>3 DEF DriverInv
<1> QED
  BY <1>5, <1>6

\* A step that returns from a callback and leaves the flags and the pipe's state
\* alone.
LEMMA ReturnInv ==
  ASSUME DriverInv, NEW t \in Threads, cb[t].pc \notin {"idle", "connect", "listen"},
         Return(t), UNCHANGED <<pipe, cli, pipeOpen, fConnected, hPipe>>,
         DriverTypeOK'
  PROVE  DriverInv'
<1>1. LockPart' /\ RequestPart' /\ PlacePart'
  BY ReturnFacts
<1>2. HandlePart' /\ ClientPart'
  BY DEF DriverInv, HandlePart, ClientPart
<1>3. ConnectedPart'
  BY OthersIdle DEF DriverInv, ConnectedPart
<1> QED
  BY <1>1, <1>2, <1>3 DEF DriverInv

\* The chunks a server write appends are chunks.
LEMMA ServerWriteType ==
  ASSUME PipeTypeOK, NEW head \in Chunk, NEW tail \in Chunk,
         ServerWriteOK(head, tail)
  PROVE  PipeTypeOK'
<1>1. <<head, tail>> \in Seq(Chunk)
  OBVIOUS
<1>2. toSvc' \in Seq(Chunk)
  BY <1>1, ConcatProperties DEF ServerWriteOK, PipeTypeOK
<1> QED
  BY <1>2 DEF ServerWriteOK, PipeTypeOK

\* OnWrite sends the message.
LEMMA SendWriteInv ==
  ASSUME DriverInv, NEW t \in Threads, SendWrite(t)
  PROVE  DriverInv'
<1> USE DEF SendWrite
<1>1. PipeTypeOK' /\ UNCHANGED <<pipe, cli>>
  <2>1. CASE UNCHANGED pipeVars
    BY <2>1 DEF DriverInv, DriverTypeOK, PipeTypeOK, pipeVars
  <2>2. CASE ServerWriteOK([d |-> smOut.d, len |-> smOut.len, data |-> smOut.data],
                           smOut.tail)
    <3>1. /\ [d |-> smOut.d, len |-> smOut.len, data |-> smOut.data] \in Chunk
          /\ smOut.tail \in Chunk
      BY DEF DriverInv, DriverTypeOK, Chunk
    <3>2. PipeTypeOK'
      BY <2>2, <3>1, ServerWriteType DEF DriverInv, DriverTypeOK
    <3> QED
      BY <2>2, <3>2 DEF ServerWriteOK
  <2> QED
    BY <2>1, <2>2
<1>2. DriverTypeOK'
  BY <1>1, ReturnFacts DEF DriverInv, DriverTypeOK
<1> QED
  BY <1>1, <1>2, ReturnInv

\* OnRead completes a read with no bytes.
LEMMA ReadNothingInv ==
  ASSUME DriverInv, NEW t \in Threads, cb[t].pc \notin {"idle", "connect", "listen"},
         ReadNothing(t)
  PROVE  DriverInv'
<1> USE DEF ReadNothing, pipeVars
<1>1. req' \in [Issuers -> Request]
  BY OthersIdle, CompleteFacts
<1>2. DriverTypeOK'
  BY <1>1, ReturnFacts DEF DriverInv, DriverTypeOK, PipeTypeOK
<1> QED
  BY <1>2, ReturnInv

\* OnRead begins to use the pipe, or finds none.
LEMMA StartReadInv ==
  ASSUME DriverInv, NEW t \in Threads, StartRead(t)
  PROVE  DriverInv'
<1> USE DEF StartRead
<1>0. cb[t].pc = "read" /\ lock = t /\ cb[t].iss \in Issuers
  BY OthersIdle
<1>1. CASE UsesPipe
  <2>1. /\ cb' \in [Threads -> Callback]
        /\ cb'[t] = [pc |-> "rwrite", iss |-> cb[t].iss]
        /\ \A u \in Threads \ {t} : cb'[u].pc = "idle"
        /\ lock' \in Threads \cup {NoThread}
        /\ LockPart'
    BY <1>0, <1>1, GotoFacts DEF Pcs
  <2>2. smOut' \in [d : Direction, len : Int, data : Data, tail : Chunk]
    <3>1. Zero \in Data
      BY DEF Data, Zero
    <3> QED
      BY <1>1, <3>1 DEF DriverInv, DriverTypeOK
  <2>3. DriverTypeOK'
    BY <1>1, <2>1, <2>2 DEF DriverInv, DriverTypeOK, PipeTypeOK, pipeVars
  <2>4. RequestPart'
    BY <1>0, <1>1, <2>1 DEF DriverInv, RequestPart
  <2>5. HandlePart' /\ ClientPart' /\ ConnectedPart' /\ PlacePart'
    BY <1>0, <1>1, <2>1
    DEF DriverInv, HandlePart, ClientPart, ConnectedPart, PlacePart, UsesPipe,
        pipeVars
  <2> QED
    BY <2>1, <2>3, <2>4, <2>5 DEF DriverInv
<1>2. CASE ~UsesPipe
  <2>1. ReadNothing(t)
    BY <1>2 DEF ReadNothing
  <2> QED
    BY <1>0, <2>1, ReadNothingInv
<1> QED
  BY <1>1, <1>2

\* OnRead sends its request.
LEMMA SendReadRequestInv ==
  ASSUME DriverInv, NEW t \in Threads, SendReadRequest(t)
  PROVE  DriverInv'
<1> USE DEF SendReadRequest
<1> DEFINE head == [d |-> "RX", len |-> req[cb[t].iss].len, data |-> Zero]
<1>0. cb[t].pc = "rwrite" /\ lock = t /\ cb[t].iss \in Issuers
  BY OthersIdle
<1>1. ASSUME ServerWriteOK(head, ZeroChunk), Goto(t, "rread"),
             UNCHANGED <<pipeOpen, fConnected, hPipe, smOut, req, issued, acked,
                         readLog>>
      PROVE  DriverInv'
  <2>1. /\ cb' \in [Threads -> Callback]
        /\ cb'[t] = [pc |-> "rread", iss |-> cb[t].iss]
        /\ \A u \in Threads \ {t} : cb'[u].pc = "idle"
        /\ lock' \in Threads \cup {NoThread}
        /\ LockPart'
    BY <1>0, <1>1, GotoFacts DEF Pcs
  <2>2. head \in Chunk /\ ZeroChunk \in Chunk
    BY <1>0
    DEF DriverInv, DriverTypeOK, Request, Chunk, Direction, ZeroChunk, Data, Zero
  <2>3. PipeTypeOK'
    <3> HIDE DEF head
    <3> QED
      BY <1>1, <2>2, ServerWriteType DEF DriverInv, DriverTypeOK
  <2>4. DriverTypeOK'
    BY <1>1, <2>1, <2>3 DEF DriverInv, DriverTypeOK
  <2>5. RequestPart'
    BY <1>0, <1>1, <2>1 DEF DriverInv, RequestPart
  <2>6. UNCHANGED <<pipe, cli, pipeOpen, fConnected, hPipe>>
    BY <1>1 DEF ServerWriteOK
  <2>7. fConnected
    BY <1>0 DEF DriverInv, PlacePart
  <2>8. HandlePart' /\ ClientPart' /\ ConnectedPart' /\ PlacePart'
    <3> HIDE DEF head
    <3> QED
      BY <2>1, <2>6, <2>7
      DEF DriverInv, HandlePart, ClientPart, ConnectedPart, PlacePart
  <2> QED
    BY <2>1, <2>4, <2>5, <2>8 DEF DriverInv
<1> QED
  BY <1>0, <1>1, ReadNothingInv

\* OnRead gets its reply, or none.
LEMMA ReadReplyInv ==
  ASSUME DriverInv, NEW t \in Threads, ReadReply(t)
  PROVE  DriverInv'
<1> DEFINE m == Head(toDrv)
           i == cb[t].iss
<1>0. cb[t].pc = "rread" /\ lock = t /\ i \in Issuers
  BY OthersIdle DEF ReadReply
<1>1. CASE ReadNothing(t)
  BY <1>0, <1>1, ReadNothingInv
<1>2. ASSUME ServerReadOK,
             smOut' = [smOut EXCEPT !.d = m.d, !.len = m.len, !.data = m.data],
             readLog' = IF m.d = "NONE"
                        THEN Append(readLog, [asked |-> req[i].len, got |-> m.len,
                                              data |-> m.data])
                        ELSE readLog,
             Complete(i), Return(t),
             UNCHANGED <<pipeOpen, fConnected, hPipe, issued, acked>>
      PROVE  DriverInv'
  <2>1. m \in Chunk /\ toDrv' \in Seq(Chunk)
    BY <1>2, HeadTailProperties
    DEF ServerReadOK, DriverInv, DriverTypeOK, PipeTypeOK
  <2>2. PipeTypeOK' /\ UNCHANGED <<pipe, cli>>
    BY <1>2, <2>1 DEF ServerReadOK, DriverInv, DriverTypeOK, PipeTypeOK
  <2>3. smOut' \in [d : Direction, len : Int, data : Data, tail : Chunk]
    <3> HIDE DEF m
    <3> QED
      BY <1>2, <2>1 DEF DriverInv, DriverTypeOK, Chunk
  <2>4. readLog' \in Seq([asked : Nat, got : Int, data : Data])
    <3>1. [asked |-> req[i].len, got |-> m.len, data |-> m.data]
            \in [asked : Nat, got : Int, data : Data]
      <4> HIDE DEF m
      <4> QED
        BY <1>0, <2>1 DEF DriverInv, DriverTypeOK, Request, Chunk
    <3> HIDE DEF m, i
    <3> QED
      BY <1>2, <3>1, AppendProperties DEF DriverInv, DriverTypeOK
  <2>5. req' \in [Issuers -> Request]
    BY <1>0, <1>2, CompleteFacts
  <2>6. DriverTypeOK'
    BY <1>0, <1>2, <2>2, <2>3, <2>4, <2>5, ReturnFacts DEF DriverInv, DriverTypeOK
  <2> QED
    BY <1>0, <1>2, <2>2, <2>6, ReturnInv
<1> QED
  BY <1>1, <1>2 DEF ReadReply

\* The host process dies of a reply's length: everything is as in a new one.
LEMMA HostDiesInv ==
  ASSUME DriverInv, NEW t \in Threads, HostDies(t)
  PROVE  DriverInv'
<1> USE DEF HostDies, ServerDestroy
<1>1. NoRequest \in Request /\ NoCallback \in Callback /\ NoCallback.pc = "idle"
  BY DEF NoRequest, Request, AllOps, ZeroChunk, Chunk, Direction, Data, Zero, NoCallback,
     Callback, Pcs
<1>2. NewMessage \in [d : Direction, len : Int, data : Data, tail : Chunk]
  BY DEF NewMessage, ZeroChunk, Chunk, Direction, Data, Zero
<1>3. PipeTypeOK'
  BY EmptySeq DEF DriverInv, DriverTypeOK, PipeTypeOK, PipeStates, CliStates
<1>4. cb' \in [Threads -> Callback] /\ \A u \in Threads : cb'[u].pc = "idle"
  BY <1>1
<1>5. req' \in [Issuers -> Request]
  BY <1>1
<1>6. DriverTypeOK'
  <2>1. pipeOpen' \in BOOLEAN /\ fConnected' \in BOOLEAN
    OBVIOUS
  <2> QED
    BY <1>2, <1>3, <1>4, <1>5, <2>1 DEF DriverInv, DriverTypeOK
<1>7. LockPart' /\ RequestPart' /\ PlacePart'
  BY <1>4, DriverAssumption DEF LockPart, RequestPart, PlacePart
<1>8. HandlePart' /\ ClientPart' /\ ConnectedPart'
  BY DEF HandlePart, ClientPart, ConnectedPart
<1> QED
  BY <1>6, <1>7, <1>8 DEF DriverInv

\* closePipes, called for SET_BAUD_RATE.
LEMMA ClosePipesInv ==
  ASSUME DriverInv, NEW t \in Threads, ClosePipes(t)
  PROVE  DriverInv'
<1> USE DEF ClosePipes, ServerDestroy, pipeVars
<1>0. cb[t].pc = "flush" /\ lock = t /\ cb[t].iss \in Issuers
  BY OthersIdle
<1>1. /\ cb' \in [Threads -> Callback]
      /\ lock' \in Threads \cup {NoThread}
      /\ LockPart' /\ RequestPart' /\ PlacePart'
  BY <1>0, ReturnFacts
<1>2. req' \in [Issuers -> Request]
  BY <1>0, CompleteFacts
<1>3. PipeTypeOK'
  BY EmptySeq DEF DriverInv, DriverTypeOK, PipeTypeOK, PipeStates, CliStates
<1>4. DriverTypeOK'
  BY <1>1, <1>2, <1>3 DEF DriverInv, DriverTypeOK
<1>5. HandlePart' /\ ClientPart' /\ ConnectedPart'
  BY DEF DriverInv, HandlePart, ClientPart, ConnectedPart
<1> QED
  BY <1>1, <1>4, <1>5 DEF DriverInv

\* A control request that leaves the pipe alone.
LEMMA OtherIoctlInv ==
  ASSUME DriverInv, NEW t \in Threads, OtherIoctl(t)
  PROVE  DriverInv'
<1>1. ReadNothing(t) /\ cb[t].pc = "ioctl"
  BY DEF OtherIoctl, ReadNothing
<1> QED
  BY <1>1, ReadNothingInv

-----------------------------------------------------------------------------
\* Every step of the driver and of its client preserves the invariant.
LEMMA NextInv == DriverInv /\ [DriverNext]_dvars => DriverInv'
<1> SUFFICES ASSUME DriverInv, [DriverNext]_dvars PROVE DriverInv'
  OBVIOUS
<1>1. CASE UNCHANGED dvars
  BY <1>1
  DEF dvars, driverVars, pipeVars, DriverInv, DriverTypeOK, PipeTypeOK, LockPart,
      RequestPart, HandlePart, ClientPart, ConnectedPart, PlacePart
<1>2. ASSUME NEW t \in Threads, Callbacks(t) PROVE DriverInv'
  BY <1>2, DispatchInv, CreateInv, WaitInv, ConnectInv, WriteBytesInv,
     SendWriteInv, StartReadInv, SendReadRequestInv, ReadReplyInv, HostDiesInv,
     ClosePipesInv, OtherIoctlInv
  DEF Callbacks
<1> QED
  BY <1>1, <1>2, RequestArrivesInv, RequestCancelledInv, PipeClientInv
  DEF DriverNext, DriverStep

\* The inductive invariant holds in every reachable state, whatever the threads,
\* the requests and the pipe's client do.
THEOREM DriverInvariant == DriverSpec => []DriverInv
BY InitInv, NextInv, PTL DEF DriverSpec

\* Type correctness of the driver and the pipe.
THEOREM DriverTypeCorrect == DriverSpec => []DriverTypeOK
<1>1. DriverInv => DriverTypeOK
  BY DEF DriverInv
<1> QED
  BY <1>1, DriverInvariant, PTL

\* OnWrite and OnRead never hand a closed or unopened pipe to WriteFile or
\* ReadFile: nothing can close it between their test of fConnected and their use.
THEOREM HandleIsLive == DriverSpec => []HandleLive
<1>1. DriverInv => HandleLive
  BY DEF DriverInv, PlacePart, ConnectedPart, HandleLive
<1> QED
  BY <1>1, DriverInvariant, PTL

\* openPipes never creates a second instance of the pipe while one exists.
THEOREM PipesDoNotLeak == DriverSpec => []NoPipeLeak
<1>1. DriverInv => NoPipeLeak
  BY DEF DriverInv, DriverTypeOK, PlacePart, HandlePart, NoPipeLeak
<1> QED
  BY <1>1, DriverInvariant, PTL

\* The flags pipeOpen and fConnected agree with the state of the pipe.
THEOREM FlagsAreRight == DriverSpec => []FlagsAgree
<1>1. DriverInv => FlagsAgree
  BY DEF DriverInv, ConnectedPart, HandlePart, FlagsAgree
<1> QED
  BY <1>1, DriverInvariant, PTL

-----------------------------------------------------------------------------
(* What the driver sends.  OnWrite completes the request before it sends   *)
(* the message, and smOut is shared with OnRead.                           *)

NoWrite(c) == ~(c.d = "TX" /\ c.len > 0)
OwnBytes(c) == c.data[1] = "tx" /\ c.data[3] = c.len

\* No write fills the message, and no tail looks like a write to the service.
WritesFit == (\A n \in Lengths : n < MSG_SIZE) /\ (\A c \in Tails : NoWrite(c))

\* From the copy in OnWrite to the client's read, a write keeps its own bytes.
SentPart ==
  /\ \A i \in Issuers : req[i].len < MSG_SIZE /\ NoWrite(req[i].tail)
  /\ NoWrite(smOut.tail)
  /\ \A t \in Threads : cb[t].pc = "wfile" => NoWrite(smOut) \/ OwnBytes(smOut)
  /\ \A k \in 1..Len(toSvc) : NoWrite(toSvc[k]) \/ OwnBytes(toSvc[k])

LEMMA SentInit == DriverInit => SentPart
<1> SUFFICES ASSUME DriverInit PROVE SentPart
  OBVIOUS
<1>1. 0 < MSG_SIZE
  BY PipeAssumption, DriverAssumption
<1>2. Len(<<>>) = 0 /\ NoWrite(ZeroChunk)
  BY DEF NoWrite, ZeroChunk
<1> QED
  BY <1>1, <1>2 DEF DriverInit, PipeInit, SentPart, NoRequest, NoCallback, NewMessage

\* What is left of the requests when one of them is completed, marked or cancelled
LEMMA RequestsFit ==
  ASSUME DriverInv, SentPart, NEW i \in Issuers,
         \/ req' = req
         \/ req' = [req EXCEPT ![i] = NoRequest]
         \/ req' = [req EXCEPT ![i].st = "active"]
  PROVE  \A j \in Issuers : req'[j].len < MSG_SIZE /\ NoWrite(req'[j].tail)
<1>1. NoRequest.len < MSG_SIZE /\ NoWrite(NoRequest.tail)
  BY PipeAssumption, DriverAssumption DEF NoRequest, ZeroChunk, NoWrite
<1>2. req \in [Issuers -> Request]
  BY DEF DriverInv, DriverTypeOK
<1> QED
  BY <1>1, <1>2 DEF SentPart, Request

\* A step of the client takes chunks out of the pipe.
LEMMA ChunksLeft ==
  ASSUME PipeTypeOK, SentPart, toSvc' \in {toSvc, <<>>} \/ ClientRead
  PROVE  \A k \in 1..Len(toSvc') : NoWrite(toSvc'[k]) \/ OwnBytes(toSvc'[k])
<1>1. CASE toSvc' \in {toSvc, <<>>}
  <2>1. Len(<<>>) = 0
    OBVIOUS
  <2> QED
    BY <1>1, <2>1 DEF SentPart
<1>2. CASE ClientRead
  <2>1. /\ toSvc \in Seq(Chunk) /\ Len(toSvc') = Len(toSvc) - 1 /\ Len(toSvc) \in Nat
        /\ \A k \in 1..(Len(toSvc) - 1) : toSvc'[k] = toSvc[k + 1]
    BY <1>2 DEF ClientRead, PipeTypeOK
  <2> QED
    BY <2>1 DEF SentPart
<1> QED
  BY <1>1, <1>2

\* The driver sends a head and a tail.
LEMMA ChunksAdded ==
  ASSUME PipeTypeOK, SentPart, NEW head \in Chunk, NEW tail \in Chunk,
         NoWrite(head) \/ OwnBytes(head), NoWrite(tail), ServerWriteOK(head, tail)
  PROVE  \A k \in 1..Len(toSvc') : NoWrite(toSvc'[k]) \/ OwnBytes(toSvc'[k])
<1> DEFINE more == <<head, tail>>
<1>1. /\ more \in Seq(Chunk) /\ Len(more) = 2 /\ more[1] = head /\ more[2] = tail
      /\ toSvc \in Seq(Chunk) /\ toSvc' = toSvc \o more
  BY DEF ServerWriteOK, PipeTypeOK
<1> HIDE DEF more
<1>2. /\ Len(toSvc) \in Nat /\ Len(toSvc') = Len(toSvc) + 2
      /\ \A k \in 1..(Len(toSvc) + 2) :
           toSvc'[k] = IF k <= Len(toSvc) THEN toSvc[k] ELSE more[k - Len(toSvc)]
  <2>1. /\ Len(toSvc') = Len(toSvc) + Len(more)
        /\ \A k \in 1..(Len(toSvc) + Len(more)) :
             toSvc'[k] = IF k <= Len(toSvc) THEN toSvc[k] ELSE more[k - Len(toSvc)]
    BY <1>1, ConcatProperties
  <2> QED
    BY <1>1, <2>1
<1>3. ASSUME NEW k \in 1..(Len(toSvc) + 2)
      PROVE  toSvc'[k] \in {head, tail} \/ (k \in 1..Len(toSvc) /\ toSvc'[k] = toSvc[k])
  <2>1. CASE k <= Len(toSvc)
    BY <1>2, <2>1
  <2>2. CASE k = Len(toSvc) + 1
    <3>1. k - Len(toSvc) = 1
      BY <1>2, <2>2
    <3> QED
      BY <1>1, <1>2, <2>2, <3>1
  <2>3. CASE k = Len(toSvc) + 2
    <3>1. k - Len(toSvc) = 2
      BY <1>2, <2>3
    <3> QED
      BY <1>1, <1>2, <2>3, <3>1
  <2> QED
    BY <1>2, <2>1, <2>2, <2>3
<1> QED
  BY <1>2, <1>3 DEF SentPart

\* OnWrite copies the bytes of its own request, and its length.
LEMMA CopyIntact ==
  ASSUME DriverInv, SentPart, NEW t \in Threads, WriteBytes(t)
  PROVE  SentPart'
<1>0. cb[t].pc = "write" /\ cb[t].iss \in Issuers
  BY OthersIdle DEF WriteBytes
<1> DEFINE r == req[cb[t].iss]
           c == CopiedIn(acked + 1, r.len, r.tail)
<1>1. r.len < MSG_SIZE /\ NoWrite(r.tail)
  BY <1>0 DEF SentPart
<1>2. smOut \in [d : Direction, len : Int, data : Data, tail : Chunk]
  BY DEF DriverInv, DriverTypeOK
<1> HIDE DEF r
<1>3. c = [smOut EXCEPT !.data = TxData(acked + 1, r.len),
                        !.tail = IF r.len > PACKET_SIZE THEN r.tail ELSE smOut.tail]
  BY <1>1 DEF CopiedIn
<1>4. c.data = TxData(acked + 1, r.len) /\ NoWrite(c.tail)
  BY <1>1, <1>2, <1>3 DEF SentPart
<1>5. c \in [d : {smOut.d}, len : {smOut.len}, data : {c.data}, tail : {c.tail}]
  BY <1>2, <1>3
<1> HIDE DEF c
<1>6. smOut' = c \/ smOut' = [c EXCEPT !.d = "TX", !.len = r.len]
  BY DEF WriteBytes, r, c
<1>7. NoWrite(smOut'.tail)
  BY <1>4, <1>5, <1>6
<1>8. \A u \in Threads : cb'[u].pc = "wfile" => NoWrite(smOut') \/ OwnBytes(smOut')
  <2>1. CASE UsesPipe
    <3>1. smOut' = [c EXCEPT !.d = "TX", !.len = r.len]
      BY <2>1 DEF WriteBytes, r, c
    <3>2. smOut'.data = TxData(acked + 1, r.len) /\ smOut'.len = r.len
      BY <1>4, <1>5, <3>1
    <3> QED
      BY <3>2 DEF OwnBytes, TxData
  <2>2. CASE ~UsesPipe
    <3>1. Return(t)
      BY <2>2 DEF WriteBytes
    <3> QED
      BY <1>0, <3>1, ReturnFacts
  <2> QED
    BY <2>1, <2>2
<1>9. \A i \in Issuers : req'[i].len < MSG_SIZE /\ NoWrite(req'[i].tail)
  BY <1>0, RequestsFit DEF WriteBytes, Complete
<1>10. \A k \in 1..Len(toSvc') : NoWrite(toSvc'[k]) \/ OwnBytes(toSvc'[k])
  BY ChunksLeft DEF WriteBytes, pipeVars, DriverInv, DriverTypeOK
<1> QED
  BY <1>7, <1>8, <1>9, <1>10 DEF SentPart

\* WriteFile gets the message as OnWrite left it.
LEMMA SendIntact ==
  ASSUME DriverInv, SentPart, NEW t \in Threads, SendWrite(t)
  PROVE  SentPart'
<1>1. PipeTypeOK /\ cb[t].pc = "wfile"
  BY DEF DriverInv, DriverTypeOK, SendWrite
<1> DEFINE head == [d |-> smOut.d, len |-> smOut.len, data |-> smOut.data]
<1>2. /\ head \in Chunk /\ smOut.tail \in Chunk /\ NoWrite(smOut.tail)
      /\ NoWrite(head) \/ OwnBytes(head)
  BY <1>1 DEF DriverInv, DriverTypeOK, Chunk, SentPart, NoWrite, OwnBytes
<1>3. toSvc' = toSvc \/ ServerWriteOK(head, smOut.tail)
  BY DEF SendWrite, pipeVars
<1> HIDE DEF head
<1>4. \A k \in 1..Len(toSvc') : NoWrite(toSvc'[k]) \/ OwnBytes(toSvc'[k])
  BY <1>1, <1>2, <1>3, ChunksLeft, ChunksAdded
<1>5. \A u \in Threads : cb'[u].pc = "idle"
  BY <1>1, ReturnFacts DEF SendWrite
<1> QED
  BY <1>4, <1>5 DEF SentPart, SendWrite

\* A read request is no write.
LEMMA RequestIntact ==
  ASSUME DriverInv, SentPart, NEW t \in Threads, SendReadRequest(t)
  PROVE  SentPart'
<1>1. /\ PipeTypeOK /\ cb[t].pc = "rwrite" /\ cb[t].iss \in Issuers
      /\ req \in [Issuers -> Request]
  BY OthersIdle DEF DriverInv, DriverTypeOK, SendReadRequest
<1> DEFINE head == [d |-> "RX", len |-> req[cb[t].iss].len, data |-> Zero]
<1>2. head \in Chunk /\ ZeroChunk \in Chunk /\ NoWrite(head) /\ NoWrite(ZeroChunk)
  BY <1>1 DEF Chunk, Direction, Data, Zero, ZeroChunk, NoWrite, Request
<1>3. toSvc' = toSvc \/ ServerWriteOK(head, ZeroChunk)
  BY DEF SendReadRequest, ReadNothing, pipeVars
<1> HIDE DEF head
<1>4. \A k \in 1..Len(toSvc') : NoWrite(toSvc'[k]) \/ OwnBytes(toSvc'[k])
  BY <1>1, <1>2, <1>3, ChunksLeft, ChunksAdded
<1>5. \A u \in Threads : cb'[u].pc # "wfile"
  <2>1. CASE Goto(t, "rread")
    <3>1. cb \in [Threads -> Callback] /\ \A u \in Threads \ {t} : cb[u].pc = "idle"
      BY <1>1, OthersIdle DEF DriverInv, DriverTypeOK
    <3> QED
      BY <2>1, <3>1 DEF Goto, Callback
  <2>2. CASE Return(t)
    BY <1>1, <2>2, ReturnFacts
  <2> QED
    BY <2>1, <2>2 DEF SendReadRequest, ReadNothing
<1>6. \A i \in Issuers : req'[i].len < MSG_SIZE /\ NoWrite(req'[i].tail)
  BY <1>1, RequestsFit DEF SendReadRequest, ReadNothing, Complete
<1>7. smOut' = smOut
  BY DEF SendReadRequest, ReadNothing
<1> QED
  BY <1>4, <1>5, <1>6, <1>7 DEF SentPart

\* A new host has nothing to send.
LEMMA HostDiesIntact ==
  ASSUME DriverInv, SentPart, NEW t \in Threads, HostDies(t)
  PROVE  SentPart'
<1>1. /\ NoRequest.len < MSG_SIZE /\ NoWrite(NoRequest.tail) /\ NoWrite(NewMessage.tail)
      /\ Len(<<>>) = 0 /\ NoCallback.pc = "idle"
  BY PipeAssumption, DriverAssumption
  DEF NoRequest, NewMessage, ZeroChunk, NoWrite, NoCallback
<1> QED
  BY <1>1 DEF HostDies, ServerDestroy, SentPart

\* The other steps of a callback send nothing, and while one runs no write waits to
\* be sent.
LEMMA OtherStepsIntact ==
  ASSUME DriverInv, SentPart, NEW t \in Threads, Callbacks(t),
         ~WriteBytes(t), ~SendWrite(t), ~SendReadRequest(t), ~HostDies(t)
  PROVE  SentPart'
<1>0. cb \in [Threads -> Callback] /\ PipeTypeOK /\ req \in [Issuers -> Request]
      /\ smOut \in [d : Direction, len : Int, data : Data, tail : Chunk]
  BY DEF DriverInv, DriverTypeOK
<1>1. CASE \E i \in Issuers : Dispatch(t, i)
  <2>1. PICK i \in Issuers : Dispatch(t, i)
    BY <1>1
  <2>2. EntryPc(req[i].op) # "wfile" /\ \A u \in Threads : cb[u].pc = "idle"
    BY <2>1, DriverAssumption
    DEF Dispatch, LockFree, EntryPc, DriverInv, LockPart, DriverTypeOK, Request, AllOps
  <2>3. \A u \in Threads : cb'[u].pc # "wfile"
    BY <1>0, <2>1, <2>2 DEF Dispatch
  <2>4. \A j \in Issuers : req'[j].len < MSG_SIZE /\ NoWrite(req'[j].tail)
    BY <2>1, RequestsFit DEF Dispatch
  <2>5. UNCHANGED <<smOut, toSvc>>
    BY <2>1 DEF Dispatch, pipeVars
  <2> QED
    BY <2>3, <2>4, <2>5 DEF SentPart
<1>2. CASE ~\E i \in Issuers : Dispatch(t, i)
  <2>1. cb[t].pc \notin {"idle", "write", "wfile", "rwrite"} /\ cb[t].iss \in Issuers
    <3>1. cb[t].pc \notin {"idle", "write", "wfile", "rwrite"}
      BY <1>2 DEF Callbacks, CreatePipe, CreatePipeFails, WaitForClient, ClientConnected,
         ConnectFails, StartRead, ReadReply, ClosePipes, OtherIoctl
    <3> QED
      BY <3>1, OthersIdle
  <2>2. \A u \in Threads \ {t} : cb[u].pc = "idle" /\ cb'[u] = cb[u]
    <3>1. \A u \in Threads \ {t} : cb[u].pc = "idle"
      BY <2>1, OthersIdle
    <3>2. \A u \in Threads \ {t} : cb'[u] = cb[u]
      BY <1>0, <1>2 DEF Callbacks, CreatePipe, CreatePipeFails, WaitForClient,
         ClientConnected, ConnectFails, StartRead, ReadReply, ReadNothing, ClosePipes,
         OtherIoctl, Goto, Return
    <3> QED
      BY <3>1, <3>2
  <2>3. cb'[t].pc # "wfile"
    <3>1. /\ cb[t].pc \in {"create", "connect", "listen"} => req[cb[t].iss].op # "wfile"
          /\ cb[t].pc \in {"create", "connect", "listen", "read", "rread", "flush", "ioctl"}
      BY <1>0, <1>2, <2>1 DEF Request, AllOps, Callback, Pcs
    <3>2. \/ \E pc : pc # "wfile" /\ Goto(t, pc)
          \/ Return(t)
      <4>1. CASE cb[t].pc \in {"create", "connect", "listen"}
        BY <1>2, <3>1, <4>1 DEF Callbacks, CreatePipe, CreatePipeFails, WaitForClient,
           ClientConnected, ConnectFails, StartRead, ReadReply, ClosePipes, OtherIoctl
      <4>2. CASE cb[t].pc \in {"read", "rread", "flush", "ioctl"}
        BY <1>2, <4>2 DEF Callbacks, CreatePipe, CreatePipeFails, WaitForClient,
           ClientConnected, ConnectFails, StartRead, ReadReply, ReadNothing, ClosePipes,
           OtherIoctl
      <4> QED
        BY <3>1, <4>1, <4>2
    <3> QED
      BY <1>0, <3>2 DEF Goto, Return, NoCallback, Callback
  <2>4. \A u \in Threads : cb'[u].pc # "wfile"
    BY <2>2, <2>3
  <2>5. NoWrite(smOut'.tail)
    <3>1. smOut'.tail = smOut.tail
      BY <1>0, <1>2 DEF Callbacks, CreatePipe, CreatePipeFails, WaitForClient,
         ClientConnected, ConnectFails, StartRead, ReadReply, ReadNothing, ClosePipes,
         OtherIoctl
    <3> QED
      BY <3>1 DEF SentPart
  <2>6. toSvc' \in {toSvc, <<>>}
    BY <1>2 DEF Callbacks, CreatePipe, CreatePipeFails, WaitForClient, ClientConnected,
       ConnectFails, StartRead, ReadReply, ReadNothing, ClosePipes, OtherIoctl, pipeVars,
       ServerCreate, ServerDestroy, ServerReadOK
  <2>7. req' = req \/ req' = [req EXCEPT ![cb[t].iss] = NoRequest]
    BY <1>2 DEF Callbacks, CreatePipe, CreatePipeFails, WaitForClient, ClientConnected,
       ConnectFails, StartRead, ReadReply, ReadNothing, ClosePipes, OtherIoctl, Complete
  <2>8. \A j \in Issuers : req'[j].len < MSG_SIZE /\ NoWrite(req'[j].tail)
    BY <2>1, <2>7, RequestsFit
  <2>9. \A k \in 1..Len(toSvc') : NoWrite(toSvc'[k]) \/ OwnBytes(toSvc'[k])
    BY <1>0, <2>6, ChunksLeft
  <2> QED
    BY <2>4, <2>5, <2>8, <2>9 DEF SentPart
<1> QED
  BY <1>1, <1>2

LEMMA SentNext ==
  ASSUME WritesFit, DriverInv, SentPart, [DriverNext]_dvars PROVE SentPart'
<1>0. PipeTypeOK /\ req \in [Issuers -> Request]
  BY DEF DriverInv, DriverTypeOK
<1>1. CASE UNCHANGED dvars
  BY <1>1 DEF dvars, pipeVars, driverVars, SentPart
<1>2. CASE DriverStep
  BY <1>2, CopyIntact, SendIntact, RequestIntact, HostDiesIntact, OtherStepsIntact
  DEF DriverStep
<1>3. CASE RequestArrives
  <2>1. PICK i \in Issuers, op \in Ops, len \in Lengths, tail \in Tails :
          Issue(i, op, len, tail)
    BY <1>3 DEF RequestArrives
  <2>2. \A j \in Issuers : req'[j].len < MSG_SIZE /\ NoWrite(req'[j].tail)
    BY <1>0, <2>1 DEF Issue, WritesFit, SentPart
  <2> QED
    BY <2>1, <2>2 DEF Issue, pipeVars, SentPart
<1>4. CASE RequestCancelled
  <2>1. PICK i \in Issuers : /\ req[i].st = "queued" /\ CancelQueued(i)
                             /\ UNCHANGED <<pipeVars, smOut, cb>>
    BY <1>4 DEF RequestCancelled
  <2>2. \A j \in Issuers : req'[j].len < MSG_SIZE /\ NoWrite(req'[j].tail)
    <3>1. req' = [req EXCEPT ![i] = NoRequest]
      BY <1>0, <2>1 DEF CancelQueued
    <3> QED
      BY <3>1, RequestsFit
  <2> QED
    BY <2>1, <2>2 DEF pipeVars, SentPart
<1>5. CASE PipeClient
  <2>1. toSvc' \in {toSvc, <<>>} \/ ClientRead
    BY <1>5 DEF PipeClient, ClientOpen, ClientClose, ClientWrite
  <2>2. UNCHANGED <<req, smOut, cb>>
    BY <1>5 DEF PipeClient, driverVars
  <2> QED
    BY <1>0, <2>1, <2>2, ChunksLeft DEF SentPart
<1> QED
  BY <1>1, <1>2, <1>3, <1>4, <1>5 DEF DriverNext

\* Next to any client, a message in the pipe carries the bytes of the write it was made
\* for and their number, although the request is completed before OnWrite sends it and
\* OnRead uses the same buffer, as long as no write is as long as the driver's message.
THEOREM SentWritesAreIntact ==
  ASSUME WritesFit PROVE DriverSpec => []SentIntact
<1>1. SentPart => SentIntact
  BY DEF SentPart, SentIntact, NoWrite, OwnBytes
<1>2. DriverInv /\ SentPart /\ [DriverNext]_dvars => SentPart'
  BY SentNext
<1> QED
  BY <1>1, <1>2, SentInit, DriverInvariant, PTL DEF DriverSpec
=============================================================================
