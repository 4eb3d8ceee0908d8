----------------------------- MODULE ClientRelay -----------------------------
(***************************************************************************)
(* waitForMsg in client mode (SerialService.cpp): requests of the driver   *)
(* are passed on with TCPClient::Write and TCPClient::Read.  A Read asks   *)
(* for READ_AHEAD bytes, of which the driver gets what it asked for; the   *)
(* rest is kept in xyz for the next requests.                              *)
(*                                                                         *)
(* The bytes a server sends over one connection are numbered from 1.  Every*)
(* reply of the driver has the length 1 (smOut.len = 1), so an application *)
(* gets one byte of what is copied for it, the first.  NamedPipe and       *)
(* DriverQueue model the pipe; here it delivers a request or ends.         *)
(*                                                                         *)
(* recv returns as many bytes as it likes, and requests have any length;   *)
(* the code is written for whole blocks that are handed out to their end.  *)
(* regular says that this is what has happened so far.                     *)
(***************************************************************************)
EXTENDS Integers, Sequences

CONSTANTS
  READ_AHEAD,   \* bytes asked for by each Read (32 in the code)
  AskLengths,   \* lengths the driver asks for
  Layouts       \* what may lie behind xyz in memory; see Behind

\* What the 896 bytes behind xyz hold that SecureZeroMemory clears as well
Behind == {"frame", "smRet", "smOut"}

ASSUME RelayAssumption ==
  /\ READ_AHEAD \in Nat /\ READ_AHEAD >= 2
  /\ AskLengths \subseteq Nat \ {0}
  /\ Layouts \subseteq Behind

VARIABLES
  rpc,         \* waitForMsg: "wait" for a request, in "read", or at its "end"
  ask,         \* len, the length of the request in Read
  bufferFill,  \* bytes of xyz not handed out yet, as the code counts them
  bufferIdx,   \* where the next of them is
  xyz,         \* the bytes of the block; 0 is none that the server sent
  layout,      \* what lies behind xyz in this build
  conn,        \* ClientConnectSocket: "up", "ended" by the peer, or "closed"
  came,        \* bytes the server has sent that a recv returned
  block,       \* how many the last recv returned
  passed,      \* bytes asked for in requests that were answered while regular
  out,         \* the byte an application got last, and which it should have been
  regular      \* see above

history == <<came, block, passed, out, regular>>
relayVars == <<rpc, ask, bufferFill, bufferIdx, xyz, layout, conn, history>>

NUL == 0
Nothing == [byte |-> NUL, due |-> 0]
Idx == 0..(READ_AHEAD - 1)

RelayInit ==
  /\ rpc = "end" /\ ask = 1
  /\ bufferFill = 0 /\ bufferIdx = 0
  /\ xyz = [i \in Idx |-> NUL]
  /\ layout \in Layouts
  /\ conn = "closed" /\ came = 0 /\ block = 0 /\ passed = 0
  /\ out = Nothing /\ regular = TRUE

\* A service is started: Connect succeeds, and waitForMsg opens the pipe.
RelayStart ==
  /\ rpc = "end"
  /\ rpc' = "wait" /\ conn' = "up"
  /\ UNCHANGED <<ask, bufferFill, bufferIdx, xyz, layout, history>>

\* waitForMsg returns or its process dies; the next service is another process.
Leave ==
  /\ rpc' = "end" /\ ask' = 1
  /\ bufferFill' = 0 /\ bufferIdx' = 0
  /\ xyz' = [i \in Idx |-> NUL]
  /\ conn' = "closed" /\ came' = 0 /\ block' = 0 /\ passed' = 0
  /\ out' = Nothing /\ regular' = TRUE
  /\ UNCHANGED layout

-----------------------------------------------------------------------------
(* Requests of the driver.                                                 *)

\* What lies behind the block is none of the server's bytes, unless it is smOut, which
\* may hold some that were copied from it.
BehindBlock == IF layout = "smOut" THEN {NUL} \cup {xyz'[j] : j \in Idx} ELSE {NUL}

\* A request of len bytes is answered with place i of xyz.
Reply(i, len) ==
  /\ passed' = passed + len
  /\ \E b \in IF i \in Idx THEN {xyz'[i]} ELSE BehindBlock :
       out' = [byte |-> b, due |-> passed + 1]

\* The same after SecureZeroMemory, which has cleared the length of the reply when
\* that is what lies behind xyz.
ReplyCleared(i, len) ==
  IF layout = "smOut" THEN passed' = passed + len /\ out' = out ELSE Reply(i, len)

\* A write of no bytes, as the rest of a longer message of the driver is, does
\* not reach the socket; one that is sent leaves the relay as it was.
RelayWrite == rpc = "wait" /\ conn # "closed" /\ UNCHANGED relayVars

\* A failed send closes the socket, and waitForMsg returns.
RelayWriteFails == rpc = "wait" /\ Leave

\* What is left in xyz is enough.
Cached(len) == bufferFill # 0 /\ bufferFill >= len

\* A bug: the index is not set back at the end of the buffer.
ServeCached_NoReset(len) ==
  /\ rpc = "wait" /\ Cached(len)
  /\ bufferFill' = bufferFill - len
  /\ bufferIdx' = bufferIdx + len
  /\ UNCHANGED <<rpc, ask, xyz, layout, conn, came, block, regular>>
  /\ Reply(bufferIdx, len)

ServeCached(len) ==
  /\ rpc = "wait" /\ Cached(len)
  /\ bufferFill' = bufferFill - len
  /\ bufferIdx' = IF bufferIdx + len >= READ_AHEAD THEN 0 ELSE bufferIdx + len
  /\ UNCHANGED <<rpc, ask, xyz, layout, conn, came, block, regular>>
  /\ Reply(bufferIdx, len)

\* Nothing is left, or too little, which is dropped.
StartRead(len) ==
  /\ rpc = "wait" /\ ~Cached(len)
  /\ rpc' = "read" /\ ask' = len
  /\ UNCHANGED <<bufferFill, bufferIdx, xyz, layout, conn, history>>

-----------------------------------------------------------------------------
(* The end of Read, with n bytes by its own account.                       *)

AfterRead(n) ==
  /\ rpc' = "wait" /\ bufferFill' = n - ask /\ bufferIdx' = bufferIdx + ask
  /\ UNCHANGED <<ask, layout>>

\* A bug: the buffer is not cleared, and keeps what a shorter block leaves of it.
NewBlock_NotCleared(n) ==
  [i \in Idx |-> IF i < n THEN came + 1 + i ELSE xyz[i]]

\* Read clears the buffer and receives n bytes into it.
NewBlock(n) == [i \in Idx |-> IF i < n THEN came + 1 + i ELSE NUL]

\* A block of n bytes.
ReadBlock(n) ==
  /\ rpc = "read" /\ conn = "up"
  /\ AfterRead(n)
  /\ came' = came + n /\ block' = n
  /\ xyz' = NewBlock(n)
  /\ regular' = (regular /\ n = READ_AHEAD /\ bufferFill = 0 /\ ask < READ_AHEAD)
  /\ UNCHANGED conn
  /\ ReplyCleared(0, ask)

\* recv returns 0, or fails: Read returns 0, and xyz has been cleared.
ReadEnded ==
  /\ rpc = "read"
  /\ AfterRead(0)
  /\ xyz' = [i \in Idx |-> NUL]
  /\ conn' = IF conn = "up" THEN "ended" ELSE conn
  /\ UNCHANGED <<came, block, regular>>
  /\ ReplyCleared(0, ask)

\* send fails: Read returns 1, before it clears the buffer.
ReadUnsent ==
  /\ rpc = "read"
  /\ AfterRead(1)
  /\ conn' = "closed" /\ UNCHANGED <<xyz, came, block, regular>>
  /\ Reply(0, ask)

\* SIGINT closes the socket, whatever waitForMsg is at.
RelaySignal ==
  /\ rpc # "end"
  /\ conn' = "closed"
  /\ UNCHANGED <<rpc, ask, bufferFill, bufferIdx, xyz, layout, history>>

\* The pipe ends, before a request or under a reply: waitForMsg returns.
RelayEnd == rpc = "wait" /\ Leave

\* The process is ended, from outside or by an index that has left the stack.
RelayDies == rpc # "end" /\ Leave

RelayRead(len) == ServeCached(len) \/ StartRead(len)

RelayNext ==
  \/ RelayStart \/ RelayWrite \/ RelayWriteFails
  \/ \E len \in AskLengths : RelayRead(len)
  \/ \E n \in 1..READ_AHEAD : ReadBlock(n)
  \/ ReadEnded \/ ReadUnsent
  \/ RelaySignal \/ RelayEnd \/ RelayDies

RelaySpec == RelayInit /\ [][RelayNext]_relayVars

-----------------------------------------------------------------------------
(* Properties.                                                             *)

RelayTypeOK ==
  /\ rpc \in {"wait", "read", "end"} /\ ask \in AskLengths \cup {1}
  /\ bufferFill \in Int /\ bufferIdx \in Nat
  /\ xyz \in [Idx -> Nat]
  /\ layout \in Layouts
  /\ conn \in {"up", "ended", "closed"}
  /\ came \in Nat /\ block \in 0..came /\ passed \in Nat
  /\ out \in [byte : Nat, due : Nat]
  /\ regular \in BOOLEAN

(* The byte an application gets is the first of those it asked for, as     *)
(* requests take the server's bytes one after another, whatever their      *)
(* lengths and however blocks and requests alternate - until the           *)
(* connection fails, a block comes in parts, or a request finds too little *)
(* left or wants a whole block.  From then on bytes are left out, repeated *)
(* and NULs (waitForMsg, bufferFill, bufferIdx).                           *)
RelayInOrder == regular /\ conn = "up" => out.byte = out.due

(* Also from then on, an application gets a byte of the block that came    *)
(* last or one that the server never sent, but no byte of an earlier       *)
(* block, although the index is not set back and the block may be short:   *)
(* Read clears the buffer (waitForMsg, TCPClient::Read).                   *)
NoStaleByte ==
  [][out' # out /\ out'.byte # NUL =>
       out'.byte \in came' - block' + 1..came']_relayVars

\* What xyz holds is of the last block; while all is regular, what is left of it
\* lies at its end and is what comes next.
RelayInv ==
  /\ RelayTypeOK
  /\ RelayInOrder
  /\ rpc = "end" => /\ bufferFill = 0 /\ bufferIdx = 0
                    /\ came = 0 /\ passed = 0 /\ out = Nothing
  /\ \A i \in Idx : xyz[i] # NUL => xyz[i] \in came - block + 1..came
  /\ regular /\ conn = "up" =>
       /\ bufferFill \in 0..READ_AHEAD - 1
       /\ bufferFill = 0 => bufferIdx = 0
       /\ bufferFill > 0 =>
            /\ bufferFill + bufferIdx = READ_AHEAD
            /\ \A i \in Idx : xyz[i] = came - READ_AHEAD + 1 + i
       /\ passed = came - bufferFill
=============================================================================
