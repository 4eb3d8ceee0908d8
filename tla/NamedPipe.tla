------------------------------ MODULE NamedPipe ------------------------------
(***************************************************************************)
(* The Win32 named pipe "virtualserialpipe2" between the driver (pipe      *)
(* server, queue.cpp) and SerialService (pipe client, SerialService.cpp),  *)
(* as the two programs use it: one instance, one client, message mode,     *)
(* synchronous calls.  The pipe itself is Windows code; this module is its *)
(* contract.                                                               *)
(*                                                                         *)
(* The service's SerialMessage (1032 bytes) is smaller than the driver's   *)
(* (2056 bytes), so the client reads one driver message as two chunks      *)
(* (ERROR_MORE_DATA, then the rest).  toSvc therefore holds chunks.        *)
(***************************************************************************)
EXTENDS Integers, Sequences

CONSTANTS
  PipeQuota,     \* driver messages the pipe buffers per direction (5 in the code)
  PACKET_SIZE    \* payload of one message of the service (1024)

ASSUME PipeAssumption == PipeQuota \in Nat \ {0} /\ PACKET_SIZE \in Nat \ {0}

VARIABLES
  pipe,     \* the server end: see PipeStates
  cli,      \* the client end: "none", "open", or "broken" by a disconnect
  toSvc,    \* chunks written by the driver, not yet read by the client
  toDrv     \* messages written by the client, not yet read by the driver

pipeVars == <<pipe, cli, toSvc, toDrv>>

PipeStates == {"none", "created", "listening", "connected", "clientGone"}
CliStates  == {"none", "open", "broken"}

(***************************************************************************)
(* SerialMessage.  A payload is a token that says where its bytes came     *)
(* from: the n-th acknowledged write of L bytes, the k-th block of n bytes *)
(* read from the real port, zeroed memory, or bytes of some other origin.  *)
(***************************************************************************)
Direction == {"TX", "RX", "NONE"}

Zero       == <<"zero", 0, 0>>
Junk       == <<"junk", 0, 0>>
TxData(n, L) == <<"tx", n, L>>
RxData(k, n) == <<"rx", k, n>>

Data  == {"zero", "junk", "tx", "rx"} \X Nat \X Nat
Chunk == [d : Direction, len : Int, data : Data]

ZeroChunk == [d |-> "TX", len |-> 0, data |-> Zero]

PipeTypeOK ==
  /\ pipe \in PipeStates
  /\ cli \in CliStates
  /\ toSvc \in Seq(Chunk)
  /\ toDrv \in Seq(Chunk)

PipeInit ==
  /\ pipe = "none"
  /\ cli = "none"
  /\ toSvc = <<>>
  /\ toDrv = <<>>

-----------------------------------------------------------------------------
(* Server calls.                                                           *)

\* CreateNamedPipe
ServerCreate ==
  /\ pipe' = "created"
  /\ toSvc' = <<>>
  /\ toDrv' = <<>>
  /\ UNCHANGED cli

\* FlushFileBuffers returns once the client has read everything, or fails at
\* once when there is no client.
Flushed == pipe = "connected" => toSvc = <<>>

\* DisconnectNamedPipe and CloseHandle on the live instance
ServerDestroy ==
  /\ pipe' = "none"
  /\ cli' = IF cli = "open" THEN "broken" ELSE cli
  /\ toSvc' = <<>>
  /\ toDrv' = <<>>

\* A WriteFile of the server: blocks without room, fails without a client.
ServerWriteOK(head, tail) ==
  /\ pipe = "connected"
  /\ Len(toSvc) + 2 <= 2 * PipeQuota
  /\ toSvc' = toSvc \o <<head, tail>>
  /\ UNCHANGED <<pipe, cli, toDrv>>

\* A ReadFile of the server; data of a client that has gone stays readable.
ServerReadOK ==
  /\ toDrv # <<>>
  /\ toDrv' = Tail(toDrv)
  /\ UNCHANGED <<pipe, cli, toSvc>>

ServerReadFails == toDrv = <<>> /\ pipe # "connected"

-----------------------------------------------------------------------------
(* Client calls.                                                           *)

\* CreateFile on the pipe name: only while an instance waits for a client
ClientOpen ==
  /\ cli = "none"
  /\ pipe \in {"created", "listening"}
  /\ pipe' = "connected"
  /\ cli' = "open"
  /\ UNCHANGED <<toSvc, toDrv>>

\* CloseHandle, by the client or by the end of its process
ClientClose ==
  /\ cli # "none"
  /\ cli' = "none"
  /\ pipe' = IF cli = "open" THEN "clientGone" ELSE pipe
  /\ toSvc' = IF cli = "open" THEN <<>> ELSE toSvc
  /\ UNCHANGED toDrv

\* ReadFile of one chunk
ClientRead ==
  /\ cli = "open"
  /\ toSvc # <<>>
  /\ toSvc' = Tail(toSvc)
  /\ UNCHANGED <<pipe, cli, toDrv>>

\* WriteFile of one message
ClientWrite(m) ==
  /\ cli = "open"
  /\ Len(toDrv) < 2 * PipeQuota
  /\ toDrv' = Append(toDrv, m)
  /\ UNCHANGED <<pipe, cli, toSvc>>
=============================================================================
