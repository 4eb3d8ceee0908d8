------------------------------- MODULE TcpLink -------------------------------
(***************************************************************************)
(* TCPClient of a service in client mode and TCPServer of the service that *)
(* owns the real port.  The client puts each request of the driver into a  *)
(* frame of fixed length (Write: 1024 bytes, Read: 2048 bytes); the server *)
(* takes what one recv returns for one frame.                              *)
(*                                                                         *)
(* TCP keeps bytes in order and keeps no boundaries.  A stream to the      *)
(* server is a sequence of pieces of frames, and recv returns any number   *)
(* of them that fits its buffer.  The first piece of a frame is the        *)
(* beginning of its header, the second the rest of it and some of what     *)
(* follows: other cuts make no difference to what is parsed.  A stream to  *)
(* the client is a sequence of bytes, of which recv returns as many as it  *)
(* likes.  What the bytes of a payload or a reply are is left out: they    *)
(* carry the number of their request.                                      *)
(***************************************************************************)
EXTENDS Integers, Sequences

CONSTANTS
  MaxCalls,     \* bound on the calls of Write and Read
  MaxConnects,  \* bound on how often the client is started
  MaxServers,   \* bound on how often the server is started
  ReadLen,      \* bytes a Read asks for (32 in the code)
  Faults        \* "die": the client dies; "sigint": it is interrupted;
                \* "port": the port fails; "close": the server is closed;
                \* "exit": its process ends

ASSUME TcpAssumption ==
  /\ MaxCalls \in Nat /\ MaxConnects \in Nat
  /\ MaxServers \in Nat \ {0}   \* the first start is one of them
  /\ ReadLen \in Nat \ {0}
  /\ Faults \subseteq {"die", "sigint", "port", "close", "exit"}

VARIABLES
  cpc,        \* the client: "down", "idle", or "recv" inside Read
  starts,     \* connections made; the last one is the client's
  writes,     \* calls of Write
  reads,      \* calls of Read
  cut,        \* a Read of this connection has left some of a reply behind
  got,        \* the last Read that got bytes: its number, whose replies they
              \* are, and what cut was
  toServer,   \* the stream of each connection to the server
  toClient,   \* and back
  fate,       \* the client's end of each connection: "open", "fin" or "reset"
  sfate,      \* the server's end of it: "open" or "closed"
  spc,        \* where HandleClient is
  accepted,   \* connections accepted; the last one is the server's
  sm,         \* the message HandleClient works on
  run,        \* RUN_SERVER
  servers,    \* processes of the server that were started
  portLog     \* the writes to the real port

clientVars == <<cpc, starts, writes, reads, cut, got>>
serverVars == <<spc, accepted, sm, run, servers, portLog>>
netVars == <<toServer, toClient, fate, sfate>>
tvars == <<clientVars, serverVars, netVars>>

Conns == 1..MaxConnects
None == [d |-> "NONE", n |-> 0, len |-> 0]

-----------------------------------------------------------------------------
(* Frames.                                                                 *)

Frame(d, n) == [i \in 1..3 |-> [d |-> d, n |-> n, part |-> i]]

\* The bytes in each piece, and the room of a recv of HandleClient
PartBytes == [TX |-> <<22, 490, 512>>, RX |-> <<22, 490, 1536>>]
recvbuflen == 2048

SizeOf(stream, k) ==
  LET size[i \in 0..k] ==
        IF i = 0 THEN 0 ELSE size[i - 1] + PartBytes[stream[i].d][stream[i].part]
  IN size[k]

\* What a recv may return.
Received(stream) ==
  {SubSeq(stream, 1, k) :
     k \in {j \in 1..Len(stream) : SizeOf(stream, j) <= recvbuflen}}

Message(unit, len) == [d |-> unit.d, n |-> unit.n, len |-> len]

\* A bug to try the properties on: the rest of a frame is taken for the frame.
ParseMSG_AnyPart(units) == {Message(units[1], ReadLen)}

\* Only the first frame of the buffer is looked at, and only when the buffer
\* starts with its header.  Of a header that was cut sscanf_s may get too little,
\* or a length that has lost digits.
ParseMSG(units) ==
  IF units[1].part # 1 THEN {None}
  ELSE IF Len(units) > 1 THEN {Message(units[1], ReadLen)}
  ELSE {None} \cup {Message(units[1], len) : len \in 1..ReadLen}

-----------------------------------------------------------------------------
NoRead == [read |-> 0, cut |-> FALSE, replies |-> {}]

TcpInit ==
  /\ cpc = "down" /\ starts = 0 /\ writes = 0 /\ reads = 0 /\ cut = FALSE
  /\ got = NoRead
  /\ toServer = [c \in Conns |-> <<>>]
  /\ toClient = [c \in Conns |-> <<>>]
  /\ fate = [c \in Conns |-> "open"] /\ sfate = [c \in Conns |-> "open"]
  /\ spc = "accept" /\ accepted = 0 /\ sm = None /\ run = TRUE /\ servers = 1
  /\ portLog = <<>>

\* Nobody reads what is sent to a server that has gone.
Send(stream, units) ==
  IF sfate[starts] = "open" THEN [stream EXCEPT ![starts] = @ \o units] ELSE stream

\* The socket is open, and the first sends after the end of the peer succeed.
Sends == cpc = "idle" /\ fate[starts] = "open"
SendFails == cpc = "idle" /\ (fate[starts] # "open" \/ sfate[starts] # "open")

\* The end of HandleClient calls WSACleanup, which closes the listening socket.
Listening == run /\ spc # "stopped"

\* Connect succeeds while somebody listens, whether or not anyone accepts.
ClientConnect ==
  /\ cpc = "down" /\ starts < MaxConnects /\ Listening
  /\ cpc' = "idle" /\ starts' = starts + 1
  /\ UNCHANGED <<writes, reads, cut, got, netVars, serverVars>>

\* The client's end closes.  What it has not received is dropped.
EndSocket(end) ==
  /\ fate' = [fate EXCEPT ![starts] = IF @ = "open" THEN end ELSE @]
  /\ toClient' = [toClient EXCEPT ![starts] = <<>>]

\* What was sent arrives before the end of the stream; a reset tells the server
\* that something it has sent was left unread.
CloseSocket == EndSocket(IF toClient[starts] = <<>> THEN "fin" ELSE "reset")

ClientWrite ==
  /\ Sends /\ writes + reads < MaxCalls
  /\ writes' = writes + 1
  /\ toServer' = Send(toServer, Frame("TX", writes'))
  /\ UNCHANGED <<cpc, starts, reads, cut, got, toClient, fate, sfate, serverVars>>

\* The process ends.
Down == cpc' = "down" /\ cut' = FALSE /\ got' = NoRead

\* The socket is closed; waitForMsg and with it the process end.
ClientWriteFails ==
  /\ SendFails
  /\ Down /\ CloseSocket
  /\ UNCHANGED <<starts, writes, reads, toServer, sfate, serverVars>>

\* Read sends its request and waits in recv, with ghWriteMutex held.
ClientReadSend ==
  /\ Sends /\ writes + reads < MaxCalls
  /\ reads' = reads + 1
  /\ toServer' = Send(toServer, Frame("RX", reads'))
  /\ cpc' = "recv"
  /\ UNCHANGED <<starts, writes, cut, got, toClient, fate, sfate, serverVars>>

\* The socket is closed and Read returns 1.
ClientReadFails ==
  /\ SendFails /\ writes + reads < MaxCalls
  /\ reads' = reads + 1 /\ CloseSocket
  /\ UNCHANGED <<cpc, starts, writes, cut, got, toServer, sfate, serverVars>>

\* Read returns with the first k bytes of what has come; the rest stays for the
\* next one.
ClientReadBytes(k) ==
  /\ cpc = "recv" /\ fate[starts] = "open"
  /\ k \in 1..Len(toClient[starts]) /\ k <= ReadLen
  /\ got' = [read |-> reads, cut |-> cut,
             replies |-> {toClient[starts][i] : i \in 1..k}]
  /\ toClient' = [toClient EXCEPT ![starts] = SubSeq(@, k + 1, Len(@))]
  /\ cut' = (cut \/ k < Len(toClient[starts]))
  /\ cpc' = "idle"
  /\ UNCHANGED <<starts, writes, reads, toServer, fate, sfate, serverVars>>

ClientReadRecv == \E k \in 1..ReadLen : ClientReadBytes(k)

\* recv returns 0 or fails, and Read returns 0.
ClientReadEnd ==
  /\ cpc = "recv"
  /\ \/ fate[starts] # "open"
     \/ toClient[starts] = <<>> /\ sfate[starts] # "open"
  /\ cpc' = "idle"
  /\ UNCHANGED <<starts, writes, reads, cut, got, netVars, serverVars>>

\* Close at the end of main.
ClientClose ==
  /\ cpc = "idle"
  /\ Down /\ CloseSocket
  /\ UNCHANGED <<starts, writes, reads, toServer, sfate, serverVars>>

\* SIGINT: the handler's thread calls Close, whatever waitForMsg is at, which goes
\* on with a socket that fails.
ClientSignal ==
  /\ "sigint" \in Faults
  /\ cpc \in {"idle", "recv"} /\ fate[starts] = "open"
  /\ CloseSocket
  /\ UNCHANGED <<clientVars, toServer, sfate, serverVars>>

\* The process dies: the connection ends, or is reset.
ClientDies ==
  /\ "die" \in Faults
  /\ cpc \in {"idle", "recv"}
  /\ Down
  /\ \E end \in {"fin", "reset"} : EndSocket(end)
  /\ UNCHANGED <<starts, writes, reads, toServer, sfate, serverVars>>

ClientNext == \/ ClientConnect \/ ClientWrite \/ ClientWriteFails
              \/ ClientReadSend \/ ClientReadFails
              \/ ClientReadRecv \/ ClientReadEnd \/ ClientClose
              \/ ClientSignal \/ ClientDies

-----------------------------------------------------------------------------
(* HandleClient: one thread, one client at a time.                         *)

\* A bug: INVALID_SOCKET is taken for a client.
ServerAccept_Unchecked ==
  /\ spc = "accept"
  /\ IF run THEN accepted' = accepted + 1 /\ spc' = "recv"
            ELSE spc' = "stopped" /\ UNCHANGED accepted
  /\ UNCHANGED <<sm, run, servers, portLog, netVars, clientVars>>

ServerAccept ==
  /\ spc = "accept"
  /\ IF run THEN /\ accepted < starts
                 /\ accepted' = accepted + 1 /\ spc' = "recv"
            ELSE spc' = "stopped" /\ UNCHANGED accepted
  /\ UNCHANGED <<sm, run, servers, portLog, netVars, clientVars>>

ServerRecv ==
  /\ spc = "recv"
  /\ \E units \in Received(toServer[accepted]) :
       /\ toServer' = [toServer EXCEPT ![accepted] =
                         SubSeq(@, Len(units) + 1, Len(@))]
       /\ sm' \in ParseMSG(units)
       /\ spc' = CASE sm'.d = "RX" -> "read"
                   [] sm'.d = "TX" -> "write"
                   [] OTHER -> "recv"
  /\ UNCHANGED <<accepted, run, servers, portLog, toClient, fate, sfate, clientVars>>

\* recv returns 0 at the end of the stream; the outer loop looks at RUN_SERVER.
ServerRecvEnd ==
  /\ spc = "recv" /\ toServer[accepted] = <<>> /\ fate[accepted] = "fin"
  /\ spc' = IF run THEN "accept" ELSE "stopped"
  /\ UNCHANGED <<accepted, sm, run, servers, portLog, netVars, clientVars>>

\* Connections from c on are closed: those nobody has accepted end with the
\* listening socket.
DropFrom(first) ==
  /\ sfate' = [c \in Conns |-> IF c \in first..starts THEN "closed" ELSE sfate[c]]
  /\ toServer' = [c \in Conns |-> IF c \in first..starts THEN <<>> ELSE toServer[c]]

\* A reset connection: recv fails, and the thread returns, after WSACleanup.
ServerRecvError ==
  /\ spc = "recv" /\ fate[accepted] = "reset"
  /\ spc' = "stopped" /\ DropFrom(accepted)
  /\ UNCHANGED <<accepted, sm, run, servers, portLog, toClient, fate, clientVars>>

\* A bug: a write that timed out may have been done and is tried again.
ServerWritePort_Retry ==
  /\ spc = "write"
  /\ portLog' = Append(portLog, sm.n)
  /\ \/ spc' = "recv" /\ sm' = None
     \/ UNCHANGED <<spc, sm>>
  /\ Len(portLog) < MaxCalls
  /\ UNCHANGED <<accepted, run, servers, netVars, clientVars>>

\* The result of WriteRealCOM is not looked at.
ServerWritePort ==
  /\ spc = "write"
  /\ portLog' \in {Append(portLog, sm.n)}
                  \cup (IF "port" \in Faults THEN {portLog} ELSE {})
  /\ spc' = "recv" /\ sm' = None
  /\ UNCHANGED <<accepted, run, servers, netVars, clientVars>>

\* A bug: a read of the port that fails is not answered.
ServerReadPort_FailureSkips ==
  /\ spc = "read"
  /\ spc' \in {"send", "recv"}
  /\ UNCHANGED <<accepted, sm, run, servers, portLog, netVars, clientVars>>

\* Nor is the result of ReadRealCOM: its buffer was zeroed before.
ServerReadPort ==
  /\ spc = "read"
  /\ spc' = "send"
  /\ UNCHANGED <<accepted, sm, run, servers, portLog, netVars, clientVars>>

ReplyTo(m) == [i \in 1..m.len |-> m.n]

\* As many bytes as were asked for are sent, however many were read.  A send to
\* a client that has gone may fail, and the thread returns, after WSACleanup.
ServerSend ==
  /\ spc = "send"
  /\ sm' = None
  /\ \/ /\ spc' = "recv"
        /\ toClient' = IF fate[accepted] = "open"
                        THEN [toClient EXCEPT ![accepted] = @ \o ReplyTo(sm)]
                        ELSE toClient
        /\ UNCHANGED <<toServer, sfate>>
     \/ /\ fate[accepted] # "open"
        /\ spc' = "stopped" /\ DropFrom(accepted)
        /\ UNCHANGED toClient
  /\ UNCHANGED <<accepted, run, servers, portLog, fate, clientVars>>

\* TCPServer::Close, by the signal handler or at the end of main.
ServerClose ==
  /\ "close" \in Faults /\ run
  /\ run' = FALSE /\ DropFrom(accepted + 1)
  /\ UNCHANGED <<spc, accepted, sm, servers, portLog, toClient, fate, clientVars>>

\* The process ends, and the system ends its connections; a reset drops what the
\* client has not received.
ServerExit ==
  /\ "exit" \in Faults /\ spc # "gone"
  /\ spc' = "gone" /\ run' = FALSE /\ sm' = None
  /\ toServer' = [c \in Conns |-> <<>>]
  /\ sfate' = [c \in Conns |-> IF c <= starts THEN "closed" ELSE sfate[c]]
  /\ toClient' \in {toClient, [c \in Conns |-> <<>>]}
  /\ UNCHANGED <<accepted, servers, portLog, fate, clientVars>>

\* Somebody starts it again; what was connected before stays lost.
ServerStart ==
  /\ spc = "gone" /\ servers < MaxServers
  /\ servers' = servers + 1
  /\ spc' = "accept" /\ run' = TRUE /\ accepted' = starts
  /\ UNCHANGED <<sm, portLog, netVars, clientVars>>

ServerNext == \/ ServerAccept \/ ServerRecv \/ ServerRecvEnd \/ ServerRecvError
              \/ ServerWritePort \/ ServerReadPort \/ ServerSend

ServerEvents == ServerClose \/ ServerExit \/ ServerStart

TcpNext == ClientNext \/ ServerNext \/ ServerEvents
TcpSpec == TcpInit /\ [][TcpNext]_tvars

\* The server's thread runs, and a recv with bytes to return returns.
TcpFairSpec ==
  TcpSpec /\ WF_tvars(ServerNext) /\ WF_tvars(ClientReadRecv \/ ClientReadEnd)

-----------------------------------------------------------------------------
(* Properties.                                                             *)

TcpTypeOK ==
  /\ cpc \in {"down", "idle", "recv"}
  /\ starts \in 0..MaxConnects /\ accepted \in 0..starts
  /\ writes \in 0..MaxCalls /\ reads \in 0..MaxCalls
  /\ spc \in {"accept", "recv", "read", "write", "send", "stopped", "gone"}
  /\ (spc \notin {"accept", "stopped", "gone"}) => accepted \in Conns
  /\ cpc # "down" => starts \in Conns
  /\ servers \in 0..MaxServers /\ run \in BOOLEAN
  /\ sm \in [d : {"TX", "RX", "NONE"}, n : Nat, len : 0..ReadLen]
  /\ fate \in [Conns -> {"open", "fin", "reset"}]
  /\ sfate \in [Conns -> {"open", "closed"}]
  /\ cut \in BOOLEAN

-----------------------------------------------------------------------------
(* The inductive invariant, in parts.                                      *)

Unit == [d : {"TX", "RX"}, n : Nat, part : 1..3]
IsHead(unit, d) == unit.d = d /\ unit.part = 1

\* The server works on a read request of connection c.
Serving(c) == spc \in {"read", "send"} /\ accepted = c

StreamPart ==
  /\ toServer \in [Conns -> Seq(Unit)] /\ toClient \in [Conns -> Seq(Nat)]
  /\ portLog \in Seq(Nat)
  /\ got \in [read : Nat, cut : BOOLEAN, replies : SUBSET Nat]
  /\ \A c \in Conns : c > starts =>
       toServer[c] = <<>> /\ toClient[c] = <<>> /\ sfate[c] = "open"

\* A connection the server's process has left is never served again.
EndPart == \A c \in Conns : sfate[c] # "open" =>
  /\ c > accepted => ~Listening
  /\ c = accepted => spc \in {"accept", "stopped", "gone"}

\* The writes to come are in order, and later than all that were made.
Comes(c, i, e, j) == c < e \/ (c = e /\ i < j)
WritePart ==
  /\ spc = "write" => sm.n \in 1..writes /\ \A k \in DOMAIN portLog : portLog[k] < sm.n
  /\ \A c \in Conns : \A i \in DOMAIN toServer[c] : IsHead(toServer[c][i], "TX") =>
       /\ toServer[c][i].n \in 1..writes
       /\ c >= accepted =>
            /\ \A k \in DOMAIN portLog : portLog[k] < toServer[c][i].n
            /\ spc = "write" => sm.n < toServer[c][i].n
       /\ \A e \in Conns : \A j \in DOMAIN toServer[e] :
            IsHead(toServer[e][j], "TX") /\ Comes(c, i, e, j) =>
              toServer[c][i].n < toServer[e][j].n

\* The client and its connection are in step: the socket is open, and every Read
\* of it has got all of its reply.
InStep == cpc # "down" /\ fate[starts] = "open" /\ ~cut

\* The connection then carries one read at a time: its request, the server at work
\* on it, or its reply.
OneRead ==
  InStep =>
    /\ toClient[starts] # <<>> => ~Serving(starts)
    /\ sfate[starts] = "open" =>
         \A i \in DOMAIN toServer[starts] : IsHead(toServer[starts][i], "RX") =>
           /\ toClient[starts] = <<>> /\ ~Serving(starts)
           /\ \A j \in DOMAIN toServer[starts] : IsHead(toServer[starts][j], "RX") => i = j

\* It is the read that waits.
ReadPart ==
  InStep =>
    /\ toClient[starts] # <<>> => cpc = "recv"
    /\ \A i \in DOMAIN toClient[starts] : toClient[starts][i] = reads
    /\ Serving(starts) => cpc = "recv" /\ sm.n = reads
    /\ sfate[starts] = "open" => \A i \in DOMAIN toServer[starts] :
         IsHead(toServer[starts][i], "RX") => cpc = "recv" /\ toServer[starts][i].n = reads

(* What reaches the real port was written by the client, in the order it   *)
(* was written and no frame twice, however TCP cuts the stream and however *)
(* often the client is started again (HandleClient, ParseMSG).             *)
PortInOrder ==
  /\ \A i \in DOMAIN portLog : portLog[i] \in 1..writes
  /\ \A i, j \in DOMAIN portLog : i < j => portLog[i] < portLog[j]

(* What a Read receives is the reply to its own request, also when         *)
(* requests were lost before it, replies came short or the client died in  *)
(* an earlier Read - as long as each recv before it on its connection has  *)
(* taken all that was there.  One that has left something behind puts      *)
(* every later Read a reply behind (TCPClient::Read, HandleClient).        *)
RepliesMatch == ~got.cut => got.replies \subseteq {got.read}

(* The writes still to come are in order and later than those that were    *)
(* made, and a connection that is in step carries one read at a time,      *)
(* which is the one the client waits for (TCPClient, HandleClient).        *)
TcpInv ==
  /\ TcpTypeOK /\ StreamPart /\ EndPart /\ WritePart /\ OneRead /\ ReadPart
  /\ PortInOrder /\ RepliesMatch

\* The server has taken the beginning of the client's request without the rest.
HeaderCut == toServer[starts] # <<>> /\ toServer[starts][1] = Frame("RX", reads)[2]

(* A Read whose request has the stream to itself is answered, whatever the *)
(* port does and however TCP cuts it, unless the cut goes through the      *)
(* header: then nobody answers.  And a Read ends when the server's process *)
(* has ended, also after it was started again, and when SIGINT closes its  *)
(* socket (HandleClient, ParseMSG, TCPClient::Read, SignalHandler).        *)
LoneReadReturns ==
  (/\ cpc = "recv"
   /\ \/ spc = "recv" /\ accepted = starts /\ toServer[starts] = Frame("RX", reads)
      \/ sfate[starts] # "open"
      \/ fate[starts] # "open")
    ~> (cpc # "recv" \/ HeaderCut)

(* "Read requested number of bytes from real COM port", "Send back to      *)
(* client": a Read ends with a reply (HandleClient).                       *)
ReadsReturn == cpc = "recv" ~> cpc # "recv"
=============================================================================
