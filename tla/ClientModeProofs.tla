--------------------------- MODULE ClientModeProofs ---------------------------
(***************************************************************************)
(* Client mode.  First what a client and a server keep over a stream that  *)
(* TCP cuts as it likes, for any number of calls, connections and          *)
(* processes: what reaches the real port is in order and nothing twice,    *)
(* and on a connection where no recv has left anything behind, a Read gets *)
(* the reply to its own request.  Then what applications get through the   *)
(* service, for every length of blocks and requests: bytes in order while  *)
(* blocks come whole and are handed out to their end, and never a byte of  *)
(* an earlier block.  ClientMode implements ClientRelay and TcpLink, so    *)
(* what is proved of each holds of the service with its connection.        *)
(***************************************************************************)
EXTENDS ClientMode, TLAPS

-----------------------------------------------------------------------------
(* Streams.                                                                *)

LEMMA FrameUnits ==
  ASSUME NEW n \in Nat, NEW d \in {"TX", "RX"}
  PROVE  /\ Frame(d, n) \in Seq(Unit) /\ DOMAIN Frame(d, n) = 1..3
         /\ \A i \in 1..3 : Frame(d, n)[i].n = n /\ Frame(d, n)[i].d = d
         /\ \A i \in 1..3 : IsHead(Frame(d, n)[i], d) <=> i = 1
         /\ \A i \in 1..3 : \A e \in {"TX", "RX"} \ {d} : ~IsHead(Frame(d, n)[i], e)
  BY DEF Frame, Unit, IsHead

LEMMA JoinedUnits ==
  ASSUME NEW s \in Seq(Unit), NEW u \in Seq(Unit), NEW i \in DOMAIN (s \o u)
  PROVE  \/ i \in DOMAIN s /\ (s \o u)[i] = s[i]
         \/ i > Len(s) /\ i - Len(s) \in DOMAIN u /\ (s \o u)[i] = u[i - Len(s)]
  OBVIOUS

LEMMA CutUnits ==
  ASSUME NEW s \in Seq(Unit), NEW k \in 1..Len(s)
  PROVE  /\ Len(SubSeq(s, 1, k)) = k /\ SubSeq(s, 1, k)[1] = s[1]
         /\ SubSeq(s, k + 1, Len(s)) \in Seq(Unit)
         /\ \A i \in DOMAIN SubSeq(s, k + 1, Len(s)) :
              i + k \in DOMAIN s /\ SubSeq(s, k + 1, Len(s))[i] = s[i + k]
  OBVIOUS

\* What a send leaves in the streams
LEMMA SentUnits ==
  ASSUME StreamPart, starts \in Conns, NEW u \in Seq(Unit),
         toServer' = Send(toServer, u)
  PROVE  /\ toServer' \in [Conns -> Seq(Unit)]
         /\ \A c \in Conns : c # starts => toServer'[c] = toServer[c]
         /\ \A c \in Conns : \A i \in DOMAIN toServer'[c] :
              \/ i \in DOMAIN toServer[c] /\ toServer'[c][i] = toServer[c][i]
              \/ /\ c = starts /\ sfate[starts] = "open"
                 /\ i > Len(toServer[c]) /\ i - Len(toServer[c]) \in DOMAIN u
                 /\ toServer'[c][i] = u[i - Len(toServer[c])]
<1> USE DEF StreamPart, Send
<1>1. CASE sfate[starts] # "open"
  BY <1>1
<1>2. CASE sfate[starts] = "open"
  <2>1. toServer' = [toServer EXCEPT ![starts] = toServer[starts] \o u]
    BY <1>2
  <2>2. toServer[starts] \o u \in Seq(Unit)
    OBVIOUS
  <2>3. toServer' \in [Conns -> Seq(Unit)]
    BY <2>1, <2>2
  <2>4. \A c \in Conns : c # starts => toServer'[c] = toServer[c]
    BY <2>1
  <2>5. toServer'[starts] = toServer[starts] \o u
    BY <2>1
  <2> QED
    BY <1>2, <2>3, <2>4, <2>5, JoinedUnits
<1> QED
  BY <1>1, <1>2

\* What a recv takes and leaves
LEMMA ReceivedUnits ==
  ASSUME TcpTypeOK, StreamPart, ServerRecv
  PROVE  /\ accepted \in Conns
         /\ toServer' \in [Conns -> Seq(Unit)]
         /\ \A c \in Conns : c # accepted => toServer'[c] = toServer[c]
         /\ 1 \in DOMAIN toServer[accepted]
         /\ sm' # None =>
              /\ toServer[accepted][1].part = 1
              /\ \E len \in 1..ReadLen : sm' = Message(toServer[accepted][1], len)
         /\ \E k \in Nat \ {0} : \A i \in DOMAIN toServer'[accepted] :
              /\ i + k \in DOMAIN toServer[accepted]
              /\ toServer'[accepted][i] = toServer[accepted][i + k]
<1>1. accepted \in Conns
  BY DEF ServerRecv, TcpTypeOK
<1> DEFINE s == toServer[accepted]
<1>2. s \in Seq(Unit)
  BY <1>1 DEF StreamPart
<1>3. PICK units \in Received(s) :
        /\ toServer' = [toServer EXCEPT ![accepted] = SubSeq(s, Len(units) + 1, Len(s))]
        /\ sm' \in ParseMSG(units)
  BY DEF ServerRecv
<1>4. PICK k \in 1..Len(s) : units = SubSeq(s, 1, k)
  BY <1>3 DEF Received
<1>5. k \in 1..Len(s) /\ k \in Nat \ {0}
  BY <1>2, <1>4
<1>6. Len(units) = k /\ units[1] = s[1] /\ 1 \in DOMAIN s
  <2>1. Len(s) \in Nat /\ 1 \in DOMAIN s
    BY <1>2, <1>5
  <2> HIDE DEF s
  <2>2. Len(SubSeq(s, 1, k)) = k /\ SubSeq(s, 1, k)[1] = s[1]
    BY <1>2, <1>5
  <2> QED
    BY <1>4, <2>1, <2>2
<1> DEFINE rest == SubSeq(s, k + 1, Len(s))
<1>7. /\ rest \in Seq(Unit)
      /\ \A i \in DOMAIN rest : i + k \in DOMAIN s /\ rest[i] = s[i + k]
  BY <1>2, <1>5, CutUnits
<1>8. toServer' = [toServer EXCEPT ![accepted] = rest]
  BY <1>3, <1>6
<1>9. toServer'[accepted] = rest /\ toServer' \in [Conns -> Seq(Unit)]
  BY <1>1, <1>7, <1>8 DEF StreamPart
<1>10. sm' # None =>
         s[1].part = 1 /\ \E len \in 1..ReadLen : sm' = Message(s[1], len)
  BY <1>3, <1>6, TcpAssumption DEF ParseMSG
<1> HIDE DEF rest, s
<1>11. \E kk \in Nat \ {0} : \A i \in DOMAIN toServer'[accepted] :
              /\ i + kk \in DOMAIN s
              /\ toServer'[accepted][i] = s[i + kk]
  BY <1>5, <1>7, <1>9
<1> QED
  BY <1>1, <1>6, <1>8, <1>9, <1>10, <1>11 DEF s, StreamPart

-----------------------------------------------------------------------------
(* Each part of the invariant over each step.                              *)

\* What a server that leaves closes
LEMMA DroppedUnits ==
  ASSUME TcpTypeOK, StreamPart, NEW first \in Nat, DropFrom(first)
  PROVE  /\ toServer' \in [Conns -> Seq(Unit)]
         /\ sfate' \in [Conns -> {"open", "closed"}]
         /\ \A c \in Conns :
              /\ toServer'[c] \in {toServer[c], <<>>}
              /\ sfate'[c] = "open" => sfate[c] = "open"
              /\ c < first => sfate'[c] = sfate[c]
              /\ c > starts => sfate'[c] = sfate[c]
<1>1. \A c \in Conns : c \in Nat
  BY DEF Conns
<1>2. starts \in Nat /\ sfate \in [Conns -> {"open", "closed"}] /\ toServer \in [Conns -> Seq(Unit)]
  BY DEF TcpTypeOK, StreamPart
<1> QED
  BY <1>1, <1>2 DEF DropFrom

\* What the end of the client's socket leaves
LEMMA EndedStreams ==
  ASSUME TcpTypeOK, StreamPart, NEW end \in {"fin", "reset"}, EndSocket(end),
         starts \in Conns
  PROVE  /\ fate' \in [Conns -> {"open", "fin", "reset"}] /\ fate'[starts] # "open"
         /\ toClient' \in [Conns -> Seq(Nat)]
         /\ \A c \in Conns : toClient'[c] \in {toClient[c], <<>>}
  BY DEF TcpTypeOK, StreamPart, EndSocket

\* The steps of the client that close its socket
Closes == ClientWriteFails \/ ClientReadFails \/ ClientClose \/ ClientSignal \/ ClientDies

LEMMA ClosingSteps ==
  ASSUME TcpTypeOK, StreamPart, Closes
  PROVE  /\ starts \in Conns /\ \E end \in {"fin", "reset"} : EndSocket(end)
         /\ UNCHANGED <<starts, writes, toServer, sfate, serverVars>>
         /\ reads' = reads \/ (reads' = reads + 1 /\ writes + reads < MaxCalls)
         /\ cpc' \in {cpc, "down"} /\ cut' \in BOOLEAN
         /\ got' = got \/ got' = NoRead
<1>1. starts \in Conns
  BY DEF Closes, ClientWriteFails, ClientReadFails, ClientClose, ClientSignal,
         ClientDies, SendFails, TcpTypeOK
<1> cut \in BOOLEAN
  BY DEF TcpTypeOK
<1>2. CASE ClientWriteFails
  BY <1>1, <1>2 DEF ClientWriteFails, CloseSocket, Down
<1>3. CASE ClientReadFails
  BY <1>1, <1>3 DEF ClientReadFails, SendFails, CloseSocket
<1>4. CASE ClientClose
  BY <1>1, <1>4 DEF ClientClose, CloseSocket, Down
<1>5. CASE ClientSignal
  BY <1>1, <1>5 DEF ClientSignal, CloseSocket, clientVars
<1>6. CASE ClientDies
  BY <1>1, <1>6 DEF ClientDies, Down
<1> QED
  BY <1>2, <1>3, <1>4, <1>5, <1>6 DEF Closes

LEMMA TcpTypeStep ==
  ASSUME TcpTypeOK, StreamPart, [TcpNext]_tvars
  PROVE  TcpTypeOK'
<1> USE TcpAssumption DEF TcpTypeOK, clientVars, serverVars, netVars
<1>1. CASE ClientConnect
  BY <1>1 DEF ClientConnect, Conns
<1>2. CASE ClientWrite
  BY <1>2 DEF ClientWrite
<1>3. CASE ClientReadSend
  BY <1>3 DEF ClientReadSend, Sends
<1>4. CASE Closes
  <2>1. PICK end \in {"fin", "reset"} : EndSocket(end)
    BY <1>4, ClosingSteps
  <2>2. fate' \in [Conns -> {"open", "fin", "reset"}]
    BY <1>4, <2>1, ClosingSteps, EndedStreams
  <2>3. reads' \in 0..MaxCalls
    BY <1>4, ClosingSteps
  <2>4. UNCHANGED <<starts, writes, sfate, spc, accepted, sm, run, servers>>
    BY <1>4, ClosingSteps
  <2>5. cpc' \in {cpc, "down"} /\ cut' \in BOOLEAN /\ starts \in Conns
    BY <1>4, ClosingSteps
  <2> QED
    BY <2>2, <2>3, <2>4, <2>5
<1>5. CASE ClientReadRecv
  BY <1>5 DEF ClientReadRecv, ClientReadBytes
<1>6. CASE ClientReadEnd
  BY <1>6 DEF ClientReadEnd
<1>7. CASE ServerAccept
  BY <1>7 DEF ServerAccept, Conns
<1>8. CASE ServerRecv
  <2>1. sm' \in [d : {"TX", "RX", "NONE"}, n : Nat, len : 0..ReadLen]
    <3>1. accepted \in Conns /\ 1 \in DOMAIN toServer[accepted] /\ toServer[accepted] \in Seq(Unit)
      BY <1>8, ReceivedUnits DEF StreamPart
    <3>2. toServer[accepted][1] \in Unit
      BY <3>1
    <3>3. CASE sm' = None
      BY <3>3 DEF None
    <3>4. CASE sm' # None
      BY <1>8, <3>2, <3>4, ReceivedUnits DEF Message, Unit
    <3> QED
      BY <3>3, <3>4
  <2>2. spc' \in {"read", "write", "recv"}
    BY <1>8 DEF ServerRecv
  <2>3. accepted \in Conns
    BY <1>8, ReceivedUnits
  <2> QED
    BY <1>8, <2>1, <2>2, <2>3 DEF ServerRecv
<1>9. CASE ServerRecvEnd
  BY <1>9 DEF ServerRecvEnd
<1>10. CASE ServerRecvError
  BY <1>10, DroppedUnits DEF ServerRecvError
<1>11. CASE ServerWritePort
  BY <1>11 DEF ServerWritePort, None
<1>12. CASE ServerReadPort
  BY <1>12 DEF ServerReadPort
<1>13. CASE ServerSend
  <2>1. sfate' \in [Conns -> {"open", "closed"}]
    BY <1>13, DroppedUnits DEF ServerSend
  <2> QED
    BY <1>13, <2>1 DEF ServerSend, None
<1>14. CASE ServerClose
  <2>1. accepted + 1 \in Nat
    OBVIOUS
  <2>2. sfate' \in [Conns -> {"open", "closed"}]
    BY <1>14, <2>1, DroppedUnits DEF ServerClose
  <2> QED
    BY <1>14, <2>2 DEF ServerClose
<1>15. CASE ServerExit
  <2>1. sfate' \in [Conns -> {"open", "closed"}]
    BY <1>15 DEF ServerExit
  <2>2. sm' \in [d : {"TX", "RX", "NONE"}, n : Nat, len : 0..ReadLen]
    BY <1>15 DEF ServerExit, None
  <2>3. /\ UNCHANGED <<cpc, starts, writes, reads, cut, accepted, servers, fate>>
        /\ spc' = "gone" /\ run' = FALSE
    BY <1>15 DEF ServerExit
  <2>4. run' \in BOOLEAN /\ cut' \in BOOLEAN
    BY <2>3
  <2> QED
    BY <2>1, <2>2, <2>3, <2>4
<1>16. CASE ServerStart
  BY <1>16 DEF ServerStart
<1>17. CASE UNCHANGED tvars
  BY <1>17 DEF tvars
<1> QED
  BY <1>1, <1>2, <1>3, <1>4, <1>5, <1>6, <1>7, <1>8, <1>9, <1>10, <1>11, <1>12, <1>13,
     <1>14, <1>15, <1>16, <1>17
  DEF TcpNext, ClientNext, ServerNext, ServerEvents, Closes

LEMMA StreamStep ==
  ASSUME TcpTypeOK, StreamPart, [TcpNext]_tvars
  PROVE  StreamPart'
<1> USE TcpAssumption DEF StreamPart, clientVars, serverVars, netVars
<1> /\ starts \in Nat /\ accepted \in Nat /\ accepted <= starts
    /\ \A c \in Conns : c \in Int
  BY DEF TcpTypeOK, Conns
<1>1. CASE ClientConnect
  BY <1>1 DEF ClientConnect
<1>2. CASE ClientWrite
  <2>1. starts \in Conns /\ writes' \in Nat /\ Frame("TX", writes') \in Seq(Unit)
    BY <1>2, FrameUnits DEF ClientWrite, Sends, TcpTypeOK
  <2> QED
    BY <1>2, <2>1, SentUnits DEF ClientWrite
<1>3. CASE ClientReadSend
  <2>1. starts \in Conns /\ reads' \in Nat /\ Frame("RX", reads') \in Seq(Unit)
    BY <1>3, FrameUnits DEF ClientReadSend, Sends, TcpTypeOK
  <2> QED
    BY <1>3, <2>1, SentUnits DEF ClientReadSend
<1>4. CASE ClientReadRecv
  <2>1. PICK k \in 1..ReadLen : ClientReadBytes(k)
    BY <1>4 DEF ClientReadRecv
  <2>2. /\ starts \in Conns /\ toClient[starts] \in Seq(Nat) /\ k \in 1..Len(toClient[starts])
        /\ reads \in Nat /\ cut \in BOOLEAN
    BY <2>1 DEF ClientReadBytes, TcpTypeOK
  <2> DEFINE rest == SubSeq(toClient[starts], k + 1, Len(toClient[starts]))
  <2>3. rest \in Seq(Nat) /\ \A i \in 1..k : toClient[starts][i] \in Nat
    BY <2>2
  <2>4. toClient' = [toClient EXCEPT ![starts] = rest]
    BY <2>1 DEF ClientReadBytes
  <2>5. got' \in [read : Nat, cut : BOOLEAN, replies : SUBSET Nat]
    BY <2>1, <2>2, <2>3 DEF ClientReadBytes
  <2> HIDE DEF rest
  <2>6. toClient' \in [Conns -> Seq(Nat)] /\ \A c \in Conns : c # starts => toClient'[c] = toClient[c]
    BY <2>2, <2>3, <2>4
  <2> QED
    BY <2>1, <2>2, <2>5, <2>6 DEF ClientReadBytes
<1>5. CASE Closes
  <2>1. PICK end \in {"fin", "reset"} : EndSocket(end)
    BY <1>5, ClosingSteps
  <2>2. /\ toClient' \in [Conns -> Seq(Nat)]
        /\ \A c \in Conns : toClient'[c] \in {toClient[c], <<>>}
    BY <1>5, <2>1, ClosingSteps, EndedStreams
  <2>3. got' \in [read : Nat, cut : BOOLEAN, replies : SUBSET Nat]
    <3>1. NoRead \in [read : Nat, cut : BOOLEAN, replies : SUBSET Nat]
      BY DEF NoRead
    <3> QED
      BY <1>5, <3>1, ClosingSteps
  <2> QED
    BY <1>5, <2>2, <2>3, ClosingSteps
<1>6. CASE ServerRecv
  <2>1. /\ toServer' \in [Conns -> Seq(Unit)]
        /\ \A c \in Conns : c # accepted => toServer'[c] = toServer[c]
    BY <1>6, ReceivedUnits
  <2> QED
    BY <1>6, <2>1 DEF ServerRecv
<1>7. CASE ServerWritePort
  <2>1. sm.n \in Nat
    BY DEF TcpTypeOK
  <2>2. Append(portLog, sm.n) \in Seq(Nat)
    BY <2>1
  <2>3. portLog' \in {Append(portLog, sm.n), portLog}
    BY <1>7 DEF ServerWritePort
  <2> QED
    BY <1>7, <2>2, <2>3 DEF ServerWritePort
<1>8. CASE ServerSend
  <2>1. accepted \in Conns /\ sm.n \in Nat /\ sm.len \in Nat
    BY <1>8 DEF ServerSend, TcpTypeOK
  <2> DEFINE reply == toClient[accepted] \o ReplyTo(sm)
  <2>2. reply \in Seq(Nat)
    <3>1. ReplyTo(sm) \in Seq(Nat)
      BY <2>1 DEF ReplyTo
    <3> QED
      BY <2>1, <3>1
  <2>3. toClient' = toClient \/ toClient' = [toClient EXCEPT ![accepted] = reply]
    BY <1>8 DEF ServerSend
  <2> HIDE DEF reply
  <2>4. /\ toClient' \in [Conns -> Seq(Nat)]
        /\ \A c \in Conns : c # accepted => toClient'[c] = toClient[c]
    BY <2>2, <2>3
  <2>5. UNCHANGED <<toServer, sfate>> \/ DropFrom(accepted)
    BY <1>8 DEF ServerSend
  <2> QED
    BY <1>8, <2>4, <2>5, DroppedUnits DEF ServerSend
<1>9. CASE ServerRecvError
  BY <1>9, DroppedUnits DEF ServerRecvError
<1>10. CASE ServerClose
  <2>1. DropFrom(accepted + 1) /\ accepted + 1 \in Nat
    BY <1>10 DEF ServerClose
  <2> QED
    BY <1>10, <2>1, DroppedUnits DEF ServerClose
<1>11. CASE ServerExit
  <2>1. toServer' \in [Conns -> Seq(Unit)] /\ \A c \in Conns : toServer'[c] = <<>>
    BY <1>11 DEF ServerExit
  <2>2. toClient' \in [Conns -> Seq(Nat)] /\ \A c \in Conns : toClient'[c] \in {toClient[c], <<>>}
    <3> DEFINE none == [c \in Conns |-> <<>>]
    <3>1. none \in [Conns -> Seq(Nat)] /\ \A c \in Conns : none[c] = <<>>
      OBVIOUS
    <3>2. toClient' = toClient \/ toClient' = none
      BY <1>11 DEF ServerExit
    <3> HIDE DEF none
    <3> QED
      BY <3>1, <3>2
  <2>3. \A c \in Conns : c > starts => sfate'[c] = sfate[c]
    BY <1>11 DEF ServerExit
  <2> QED
    BY <1>11, <2>1, <2>2, <2>3 DEF ServerExit
<1>12. CASE \/ ClientReadEnd \/ ServerAccept \/ ServerRecvEnd \/ ServerReadPort
            \/ ServerStart \/ UNCHANGED tvars
  BY <1>12 DEF ClientReadEnd, ServerAccept, ServerRecvEnd, ServerReadPort, ServerStart, tvars
<1> QED
  BY <1>1, <1>2, <1>3, <1>4, <1>5, <1>6, <1>7, <1>8, <1>9, <1>10, <1>11, <1>12
  DEF TcpNext, ClientNext, ServerNext, ServerEvents, Closes

LEMMA EndStep ==
  ASSUME TcpTypeOK, StreamPart, EndPart, [TcpNext]_tvars
  PROVE  EndPart'
<1> USE TcpAssumption DEF EndPart, Conns, Listening, clientVars, serverVars, netVars
<1>1. CASE Closes
  BY <1>1, ClosingSteps
<1>2. CASE \/ ClientConnect \/ ClientWrite \/ ClientReadSend \/ ClientReadRecv
           \/ ClientReadEnd
  BY <1>2 DEF ClientConnect, ClientWrite, ClientReadSend, ClientReadRecv, ClientReadBytes,
       ClientReadEnd
<1>3. CASE ServerAccept
  BY <1>3 DEF ServerAccept, TcpTypeOK
<1>4. CASE ServerRecv \/ ServerRecvEnd
  BY <1>4 DEF ServerRecv, ServerRecvEnd, TcpTypeOK
<1>5. CASE ServerRecvError
  BY <1>5, DroppedUnits DEF ServerRecvError, TcpTypeOK
<1>6. CASE ServerWritePort \/ ServerReadPort
  BY <1>6 DEF ServerWritePort, ServerReadPort, TcpTypeOK
<1>7. CASE ServerSend
  <2>1. CASE spc' = "recv"
    BY <1>7, <2>1 DEF ServerSend, TcpTypeOK
  <2>2. CASE DropFrom(accepted) /\ spc' = "stopped"
    BY <1>7, <2>2, DroppedUnits DEF ServerSend, TcpTypeOK
  <2> QED
    BY <1>7, <2>1, <2>2 DEF ServerSend
<1>8. CASE ServerClose
  BY <1>8, DroppedUnits DEF ServerClose, TcpTypeOK
<1>9. CASE ServerExit
  BY <1>9 DEF ServerExit, TcpTypeOK
<1>10. CASE ServerStart
  <2>1. \A c \in Conns : sfate[c] # "open" => c <= starts
    BY DEF StreamPart, TcpTypeOK
  <2> QED
    BY <1>10, <2>1 DEF ServerStart, TcpTypeOK
<1>11. CASE UNCHANGED tvars
  BY <1>11 DEF tvars
<1> QED
  BY <1>1, <1>2, <1>3, <1>4, <1>5, <1>6, <1>7, <1>8, <1>9, <1>10, <1>11
  DEF TcpNext, ClientNext, ServerNext, ServerEvents, Closes

\* A step that adds no frame of a write and no write, and starts none.
LEMMA WritesKept ==
  ASSUME TcpTypeOK, StreamPart, WritePart, PortInOrder,
         UNCHANGED <<writes, portLog>>,
         \A c \in Conns : \A i \in DOMAIN toServer'[c] :
           IsHead(toServer'[c][i], "TX") =>
             i \in DOMAIN toServer[c] /\ toServer'[c][i] = toServer[c][i],
         accepted' \in Nat, accepted' >= accepted,
         spc' = "write" => spc = "write" /\ sm' = sm
  PROVE  WritePart' /\ PortInOrder'
<1>1. PortInOrder'
  BY DEF PortInOrder
<1>2. \A c \in Conns : c \in Nat /\ (c >= accepted' => c >= accepted)
  BY DEF Conns, TcpTypeOK
<1>3. (spc = "write" => sm.n \in 1..writes /\ \A k \in DOMAIN portLog : portLog[k] < sm.n)'
  BY DEF WritePart
<1> SUFFICES ASSUME NEW c \in Conns, NEW i \in DOMAIN toServer'[c],
                    IsHead(toServer'[c][i], "TX")
             PROVE  /\ toServer'[c][i].n \in 1..writes
                    /\ c >= accepted' =>
                         /\ \A k \in DOMAIN portLog : portLog[k] < toServer'[c][i].n
                         /\ spc' = "write" => sm'.n < toServer'[c][i].n
                    /\ \A e \in Conns : \A j \in DOMAIN toServer'[e] :
                         IsHead(toServer'[e][j], "TX") /\ Comes(c, i, e, j) =>
                           toServer'[c][i].n < toServer'[e][j].n
  BY <1>1, <1>3 DEF WritePart, IsHead, Comes
<1>4. /\ i \in DOMAIN toServer[c] /\ toServer'[c][i] = toServer[c][i]
      /\ IsHead(toServer[c][i], "TX")
  BY DEF IsHead
<1>5. /\ toServer[c][i].n \in 1..writes
      /\ c >= accepted' =>
           /\ \A k \in DOMAIN portLog : portLog[k] < toServer[c][i].n
           /\ spc' = "write" => sm'.n < toServer[c][i].n
  BY <1>2, <1>4 DEF WritePart
<1>6. ASSUME NEW e \in Conns, NEW j \in DOMAIN toServer'[e],
             IsHead(toServer'[e][j], "TX"), Comes(c, i, e, j)
      PROVE  toServer'[c][i].n < toServer'[e][j].n
  <2>1. /\ j \in DOMAIN toServer[e] /\ toServer'[e][j] = toServer[e][j]
        /\ IsHead(toServer[e][j], "TX")
    BY <1>6 DEF IsHead
  <2> QED
    BY <1>4, <1>6, <2>1 DEF WritePart
<1> QED
  BY <1>4, <1>5, <1>6

LEMMA WriteSent ==
  ASSUME TcpTypeOK, StreamPart, WritePart, PortInOrder, ClientWrite
  PROVE  WritePart' /\ PortInOrder'
<1>1. /\ starts \in Conns /\ writes \in Nat /\ writes' = writes + 1
      /\ UNCHANGED <<spc, sm, accepted, portLog, starts>>
      /\ toServer' = Send(toServer, Frame("TX", writes'))
  BY DEF ClientWrite, Sends, TcpTypeOK, serverVars
<1>2. portLog \in Seq(Nat) /\ \A c \in Conns : c \in Nat
  BY DEF StreamPart, Conns
<1>3. PortInOrder'
  BY <1>1 DEF PortInOrder
<1>4. (spc = "write" => sm.n \in 1..writes /\ \A k \in DOMAIN portLog : portLog[k] < sm.n)'
  BY <1>1 DEF WritePart
<1> DEFINE Old(c, i) == i \in DOMAIN toServer[c] /\ toServer'[c][i] = toServer[c][i]
           New(c, i) == /\ c = starts /\ i = Len(toServer[c]) + 1
                        /\ toServer'[c][i].n = writes + 1
<1>5. \A c \in Conns : \A i \in DOMAIN toServer'[c] :
        IsHead(toServer'[c][i], "TX") => Old(c, i) \/ New(c, i)
  <2>1. Frame("TX", writes') \in Seq(Unit) /\ DOMAIN Frame("TX", writes') = 1..3
    BY <1>1, FrameUnits
  <2> SUFFICES ASSUME NEW c \in Conns, NEW i \in DOMAIN toServer'[c],
                      IsHead(toServer'[c][i], "TX"), ~Old(c, i)
               PROVE  New(c, i)
    OBVIOUS
  <2>2. /\ c = starts
        /\ i > Len(toServer[c]) /\ i - Len(toServer[c]) \in 1..3
        /\ toServer'[c][i] = Frame("TX", writes')[i - Len(toServer[c])]
    BY <1>1, <2>1, SentUnits
  <2>3. i - Len(toServer[c]) = 1 /\ toServer'[c][i].n = writes'
    BY <1>1, <2>2, FrameUnits
  <2>4. i \in Nat /\ Len(toServer[c]) \in Nat
    BY <1>1, <2>1, SentUnits DEF StreamPart
  <2> QED
    BY <1>1, <2>2, <2>3, <2>4
<1>6. \A c \in Conns : \A i \in DOMAIN toServer[c] : i \in Nat /\ i <= Len(toServer[c]) /\ c <= starts
  BY <1>1, <1>2 DEF StreamPart, TcpTypeOK
<1>7. \A c \in Conns : Len(toServer[c]) \in Nat
  BY DEF StreamPart
<1> SUFFICES ASSUME NEW c \in Conns, NEW i \in DOMAIN toServer'[c],
                    IsHead(toServer'[c][i], "TX")
             PROVE  /\ toServer'[c][i].n \in 1..writes'
                    /\ c >= accepted =>
                         /\ \A k \in DOMAIN portLog : portLog[k] < toServer'[c][i].n
                         /\ spc = "write" => sm.n < toServer'[c][i].n
                    /\ \A e \in Conns : \A j \in DOMAIN toServer'[e] :
                         IsHead(toServer'[e][j], "TX") /\ Comes(c, i, e, j) =>
                           toServer'[c][i].n < toServer'[e][j].n
  BY <1>1, <1>3, <1>4 DEF WritePart, IsHead, Comes
<1>8. toServer'[c][i].n \in 1..writes'
  BY <1>1, <1>5 DEF WritePart, IsHead
<1>9. ASSUME c >= accepted
      PROVE  /\ \A k \in DOMAIN portLog : portLog[k] < toServer'[c][i].n
             /\ spc = "write" => sm.n < toServer'[c][i].n
  <2>1. CASE Old(c, i)
    BY <1>9, <2>1 DEF WritePart, IsHead
  <2>2. CASE New(c, i)
    BY <1>1, <2>2 DEF WritePart, PortInOrder
  <2> QED
    BY <1>5, <2>1, <2>2
<1>10. ASSUME NEW e \in Conns, NEW j \in DOMAIN toServer'[e],
              IsHead(toServer'[e][j], "TX"), Comes(c, i, e, j)
       PROVE  toServer'[c][i].n < toServer'[e][j].n
  <2>1. CASE Old(c, i) /\ Old(e, j)
    BY <1>10, <2>1 DEF WritePart, IsHead
  <2>2. CASE Old(c, i) /\ New(e, j)
    <3>1. toServer'[c][i].n \in 1..writes
      BY <2>2 DEF WritePart, IsHead
    <3> QED
      BY <1>1, <2>2, <3>1
  <2>3. CASE New(c, i) /\ Old(e, j)
    BY <1>1, <1>2, <1>6, <1>7, <1>10, <2>3 DEF Comes
  <2>4. CASE New(c, i) /\ New(e, j)
    BY <1>1, <1>2, <1>6, <1>7, <1>10, <2>4 DEF Comes
  <2> QED
    BY <1>5, <1>10, <2>1, <2>2, <2>3, <2>4
<1> QED
  BY <1>8, <1>9, <1>10

LEMMA WriteReceived ==
  ASSUME TcpTypeOK, StreamPart, WritePart, PortInOrder, ServerRecv
  PROVE  WritePart' /\ PortInOrder'
<1>1. UNCHANGED <<accepted, portLog, writes>> /\ accepted \in Conns /\ spc # "write"
  BY ReceivedUnits DEF ServerRecv, clientVars
<1>2. PortInOrder'
  BY <1>1 DEF PortInOrder
<1> DEFINE first == toServer[accepted][1]
<1>3. PICK k \in Nat \ {0} : \A i \in DOMAIN toServer'[accepted] :
        /\ i + k \in DOMAIN toServer[accepted]
        /\ toServer'[accepted][i] = toServer[accepted][i + k]
  BY ReceivedUnits
<1> DEFINE Was(c, i) == IF c = accepted THEN i + k ELSE i
<1>4. \A c \in Conns : \A i \in DOMAIN toServer'[c] :
        /\ Was(c, i) \in DOMAIN toServer[c]
        /\ toServer'[c][i] = toServer[c][Was(c, i)]
  BY <1>3, ReceivedUnits
<1>5. \A c \in Conns : DOMAIN toServer'[c] \subseteq Nat \ {0}
  BY ReceivedUnits
<1>6. \A c \in Conns : c \in Nat
  BY DEF Conns
<1>7. 1 \in DOMAIN toServer[accepted]
  BY ReceivedUnits
<1>8. spc' = "write" => IsHead(first, "TX") /\ sm'.n = first.n
  <2>1. spc' = "write" => sm'.d = "TX"
    <3>1. spc' = CASE sm'.d = "RX" -> "read" [] sm'.d = "TX" -> "write" [] OTHER -> "recv"
      BY DEF ServerRecv
    <3> QED
      BY <3>1
  <2>2. sm' # None => first.part = 1 /\ sm'.d = first.d /\ sm'.n = first.n
    BY ReceivedUnits DEF Message
  <2> QED
    BY <2>1, <2>2 DEF IsHead, None
<1>9. IsHead(first, "TX") =>
        /\ first.n \in 1..writes /\ \A m \in DOMAIN portLog : portLog[m] < first.n
        /\ \A e \in Conns : \A j \in DOMAIN toServer[e] :
             IsHead(toServer[e][j], "TX") /\ Comes(accepted, 1, e, j) =>
               first.n < toServer[e][j].n
  BY <1>1, <1>6, <1>7 DEF WritePart, IsHead
<1> HIDE DEF first
<1>10. (spc = "write" => sm.n \in 1..writes /\ \A m \in DOMAIN portLog : portLog[m] < sm.n)'
  BY <1>1, <1>8, <1>9
<1> SUFFICES ASSUME NEW c \in Conns, NEW i \in DOMAIN toServer'[c],
                    IsHead(toServer'[c][i], "TX")
             PROVE  /\ toServer'[c][i].n \in 1..writes
                    /\ c >= accepted =>
                         /\ \A m \in DOMAIN portLog : portLog[m] < toServer'[c][i].n
                         /\ spc' = "write" => sm'.n < toServer'[c][i].n
                    /\ \A e \in Conns : \A j \in DOMAIN toServer'[e] :
                         IsHead(toServer'[e][j], "TX") /\ Comes(c, i, e, j) =>
                           toServer'[c][i].n < toServer'[e][j].n
  BY <1>1, <1>2, <1>10 DEF WritePart, IsHead, Comes
<1>11. /\ Was(c, i) \in DOMAIN toServer[c] /\ IsHead(toServer[c][Was(c, i)], "TX")
       /\ toServer'[c][i] = toServer[c][Was(c, i)]
  BY <1>4 DEF IsHead
<1>12. /\ toServer'[c][i].n \in 1..writes
       /\ c >= accepted => \A m \in DOMAIN portLog : portLog[m] < toServer'[c][i].n
  BY <1>11 DEF WritePart
<1>13. c >= accepted /\ spc' = "write" => sm'.n < toServer'[c][i].n
  <2>1. c >= accepted => Comes(accepted, 1, c, Was(c, i))
    BY <1>1, <1>3, <1>5, <1>6 DEF Comes
  <2> QED
    BY <1>8, <1>9, <1>11, <2>1
<1>14. ASSUME NEW e \in Conns, NEW j \in DOMAIN toServer'[e],
              IsHead(toServer'[e][j], "TX"), Comes(c, i, e, j)
       PROVE  toServer'[c][i].n < toServer'[e][j].n
  <2>1. Comes(c, Was(c, i), e, Was(e, j))
    BY <1>3, <1>5, <1>14 DEF Comes
  <2>2. /\ Was(e, j) \in DOMAIN toServer[e] /\ IsHead(toServer[e][Was(e, j)], "TX")
        /\ toServer'[e][j] = toServer[e][Was(e, j)]
    BY <1>4, <1>14 DEF IsHead
  <2> QED
    BY <1>11, <2>1, <2>2 DEF WritePart
<1> QED
  BY <1>12, <1>13, <1>14

LEMMA WriteDone ==
  ASSUME TcpTypeOK, StreamPart, WritePart, PortInOrder, ServerWritePort
  PROVE  WritePart' /\ PortInOrder'
<1>1. /\ UNCHANGED <<toServer, accepted, writes>>
      /\ spc = "write" /\ spc' = "recv"
      /\ portLog' = portLog \/ portLog' = Append(portLog, sm.n)
  BY DEF ServerWritePort, clientVars, netVars
<1>2. /\ portLog \in Seq(Nat) /\ writes \in Nat
      /\ sm.n \in 1..writes /\ \A k \in DOMAIN portLog : portLog[k] < sm.n
  BY <1>1 DEF StreamPart, TcpTypeOK, WritePart
<1>3. \A k \in DOMAIN portLog' :
        \/ k \in DOMAIN portLog /\ portLog'[k] = portLog[k]
        \/ k = Len(portLog) + 1 /\ portLog'[k] = sm.n
  BY <1>1, <1>2
<1>4. \A k \in DOMAIN portLog : k \in Nat /\ k <= Len(portLog) /\ portLog[k] \in Nat
  BY <1>2
<1>5. Len(portLog) \in Nat
  BY <1>2
<1>6. PortInOrder'
  <2>1. \A k \in DOMAIN portLog' : portLog'[k] \in 1..writes'
    BY <1>1, <1>2, <1>3 DEF PortInOrder
  <2>2. ASSUME NEW k \in DOMAIN portLog', NEW m \in DOMAIN portLog', k < m
        PROVE  portLog'[k] < portLog'[m]
    BY <1>2, <1>3, <1>4, <1>5, <2>2 DEF PortInOrder
  <2> QED
    BY <2>1, <2>2 DEF PortInOrder
<1> SUFFICES ASSUME NEW c \in Conns, NEW i \in DOMAIN toServer[c],
                    IsHead(toServer[c][i], "TX")
             PROVE  /\ toServer[c][i].n \in 1..writes
                    /\ c >= accepted =>
                         \A k \in DOMAIN portLog' : portLog'[k] < toServer[c][i].n
                    /\ \A e \in Conns : \A j \in DOMAIN toServer[e] :
                         IsHead(toServer[e][j], "TX") /\ Comes(c, i, e, j) =>
                           toServer[c][i].n < toServer[e][j].n
  BY <1>1, <1>6 DEF WritePart, IsHead, Comes
<1>7. c >= accepted => \A k \in DOMAIN portLog' : portLog'[k] < toServer[c][i].n
  BY <1>1, <1>3 DEF WritePart
<1> QED
  BY <1>7 DEF WritePart

LEMMA WriteStep ==
  ASSUME TcpTypeOK, StreamPart, WritePart, PortInOrder, [TcpNext]_tvars
  PROVE  WritePart' /\ PortInOrder'
<1> USE DEF clientVars, serverVars, netVars
<1>0. accepted \in Nat /\ starts \in Nat /\ accepted <= starts
  BY DEF TcpTypeOK
<1>1. CASE ClientWrite
  BY <1>1, WriteSent
<1>2. CASE ServerRecv
  BY <1>2, WriteReceived
<1>3. CASE ServerWritePort
  BY <1>3, WriteDone
<1>4. CASE ClientReadSend
  <2>1. starts \in Conns /\ reads' \in Nat /\ toServer' = Send(toServer, Frame("RX", reads'))
    BY <1>4 DEF ClientReadSend, Sends, TcpTypeOK
  <2>2. /\ Frame("RX", reads') \in Seq(Unit) /\ DOMAIN Frame("RX", reads') = 1..3
        /\ \A i \in 1..3 : ~IsHead(Frame("RX", reads')[i], "TX")
    BY <2>1, FrameUnits
  <2>3. \A c \in Conns : \A i \in DOMAIN toServer'[c] :
          IsHead(toServer'[c][i], "TX") =>
            i \in DOMAIN toServer[c] /\ toServer'[c][i] = toServer[c][i]
    BY <2>1, <2>2, SentUnits
  <2> QED
    BY <1>0, <1>4, <2>3, WritesKept DEF ClientReadSend
<1>5. CASE ServerExit
  <2>1. \A c \in Conns : toServer'[c] = <<>>
    BY <1>5 DEF ServerExit
  <2> QED
    BY <1>0, <1>5, <2>1, WritesKept DEF ServerExit
<1>6. CASE Closes
  BY <1>0, <1>6, ClosingSteps, WritesKept
<1>7. CASE ClientConnect \/ ClientReadRecv \/ ClientReadEnd
  BY <1>0, <1>7, WritesKept DEF ClientConnect, ClientReadRecv, ClientReadBytes, ClientReadEnd
<1>8. CASE ServerAccept \/ ServerRecvEnd \/ ServerReadPort \/ ServerStart \/ UNCHANGED tvars
  BY <1>0, <1>8, WritesKept
  DEF ServerAccept, ServerRecvEnd, ServerReadPort, ServerStart, tvars
<1>9. CASE ServerRecvError \/ ServerSend \/ ServerClose
  <2>1. UNCHANGED toServer \/ \E first \in Nat : DropFrom(first)
    BY <1>0, <1>9 DEF ServerRecvError, ServerSend, ServerClose
  <2>2. \A c \in Conns : toServer'[c] \in {toServer[c], <<>>}
    BY <2>1, DroppedUnits
  <2> QED
    BY <1>0, <1>9, <2>2, WritesKept DEF ServerRecvError, ServerSend, ServerClose
<1> QED
  BY <1>1, <1>2, <1>3, <1>4, <1>5, <1>6, <1>7, <1>8, <1>9
  DEF TcpNext, ClientNext, ServerNext, ServerEvents, Closes

-----------------------------------------------------------------------------
(* Reads and replies.                                                      *)

\* A step that adds no request of a read, no reply and no work on a request to the
\* connection of the client.
ReadsKept ==
  /\ InStep /\ UNCHANGED <<cpc, starts, reads>>
  /\ \A i \in DOMAIN toServer'[starts] : IsHead(toServer'[starts][i], "RX") =>
       i \in DOMAIN toServer[starts] /\ toServer'[starts][i] = toServer[starts][i]
  /\ toClient'[starts] = toClient[starts] \/ toClient'[starts] = <<>>
  /\ sfate'[starts] = "open" => sfate[starts] = "open"
  /\ Serving(starts)' => Serving(starts) /\ sm' = sm

LEMMA InStepReads ==
  ASSUME OneRead, ReadPart, InStep' => ReadsKept
  PROVE  OneRead' /\ ReadPart'
<1> SUFFICES ASSUME InStep', ReadsKept
             PROVE  OneRead' /\ ReadPart'
  BY DEF OneRead, ReadPart
<1>1. InStep /\ UNCHANGED <<cpc, starts, reads>> /\ (Serving(starts)' => Serving(starts))
  BY DEF ReadsKept
<1>2. OneRead'
  <2>1. toClient'[starts] # <<>> => ~Serving(starts)'
    BY <1>1 DEF OneRead, ReadsKept
  <2>2. ASSUME sfate'[starts] = "open", NEW i \in DOMAIN toServer'[starts],
               IsHead(toServer'[starts][i], "RX")
        PROVE  /\ toClient'[starts] = <<>> /\ ~Serving(starts)'
               /\ \A j \in DOMAIN toServer'[starts] :
                    IsHead(toServer'[starts][j], "RX") => i = j
    BY <1>1, <2>2 DEF OneRead, ReadsKept, IsHead
  <2> QED
    BY <1>1, <2>1, <2>2 DEF OneRead, Serving, IsHead
<1>3. ReadPart'
  <2>1. /\ toClient'[starts] # <<>> => cpc = "recv"
        /\ \A i \in DOMAIN toClient'[starts] : toClient'[starts][i] = reads
    BY <1>1 DEF ReadPart, ReadsKept
  <2>2. Serving(starts)' => cpc = "recv" /\ sm'.n = reads
    BY <1>1 DEF ReadPart, ReadsKept
  <2>3. ASSUME sfate'[starts] = "open", NEW i \in DOMAIN toServer'[starts],
               IsHead(toServer'[starts][i], "RX")
        PROVE  cpc = "recv" /\ toServer'[starts][i].n = reads
    BY <1>1, <2>3 DEF ReadPart, ReadsKept, IsHead
  <2> QED
    BY <1>1, <2>1, <2>2, <2>3 DEF ReadPart, Serving, IsHead
<1> QED
  BY <1>2, <1>3

\* The client's read
LEMMA ReadSent ==
  ASSUME TcpTypeOK, StreamPart, OneRead, ReadPart, ClientReadSend
  PROVE  OneRead' /\ ReadPart'
<1>1. /\ starts \in Conns /\ cpc = "idle" /\ reads' \in Nat /\ cpc' = "recv"
      /\ UNCHANGED <<starts, accepted, spc, sm, toClient, sfate, fate, cut>>
      /\ toServer' = Send(toServer, Frame("RX", reads'))
  BY DEF ClientReadSend, Sends, TcpTypeOK, serverVars
<1> SUFFICES ASSUME InStep
             PROVE  OneRead' /\ ReadPart'
  BY <1>1 DEF OneRead, ReadPart, InStep
<1>2. toClient[starts] = <<>> /\ ~Serving(starts)
  BY <1>1 DEF ReadPart
<1>3. sfate[starts] = "open" =>
        \A i \in DOMAIN toServer[starts] : ~IsHead(toServer[starts][i], "RX")
  BY <1>1 DEF ReadPart
<1>4. ASSUME NEW i \in DOMAIN toServer'[starts], sfate[starts] = "open",
             IsHead(toServer'[starts][i], "RX")
      PROVE  i = Len(toServer[starts]) + 1 /\ toServer'[starts][i].n = reads'
  <2>1. Frame("RX", reads') \in Seq(Unit) /\ DOMAIN Frame("RX", reads') = 1..3
    BY <1>1, FrameUnits
  <2>2. /\ i > Len(toServer[starts]) /\ i - Len(toServer[starts]) \in 1..3
        /\ toServer'[starts][i] = Frame("RX", reads')[i - Len(toServer[starts])]
    BY <1>1, <1>3, <1>4, <2>1, SentUnits
  <2>3. i - Len(toServer[starts]) = 1 /\ toServer'[starts][i].n = reads'
    BY <1>1, <1>4, <2>2, FrameUnits
  <2>4. i \in Nat /\ Len(toServer[starts]) \in Nat
    BY <1>1, <2>1, SentUnits DEF StreamPart
  <2> QED
    BY <2>3, <2>4
<1>5. OneRead'
  BY <1>1, <1>2, <1>4 DEF OneRead, Serving, IsHead
<1>6. ReadPart'
  <2>1. \A i \in DOMAIN toClient[starts] : FALSE
    BY <1>2
  <2> QED
    BY <1>1, <1>2, <1>4, <2>1 DEF ReadPart, Serving, IsHead
<1> QED
  BY <1>5, <1>6

\* The reply to it, or some of it
LEMMA ReplyReceived ==
  ASSUME TcpTypeOK, StreamPart, OneRead, ReadPart, RepliesMatch, ClientReadRecv
  PROVE  OneRead' /\ ReadPart' /\ RepliesMatch'
<1>1. PICK k \in 1..ReadLen : ClientReadBytes(k)
  BY DEF ClientReadRecv
<1>2. /\ starts \in Conns /\ cpc = "recv" /\ cpc' = "idle" /\ fate[starts] = "open"
      /\ k \in 1..Len(toClient[starts]) /\ toClient[starts] \in Seq(Nat)
      /\ UNCHANGED <<starts, reads, toServer, sfate, fate, spc, accepted, sm>>
      /\ toClient' = [toClient EXCEPT ![starts] =
                        SubSeq(toClient[starts], k + 1, Len(toClient[starts]))]
      /\ cut' = (cut \/ k < Len(toClient[starts]))
      /\ got' = [read |-> reads, cut |-> cut,
                 replies |-> {toClient[starts][i] : i \in 1..k}]
  BY <1>1 DEF ClientReadBytes, TcpTypeOK, StreamPart, serverVars
<1>3. toClient[starts] # <<>>
  BY <1>2
<1>4. ASSUME InStep' PROVE OneRead' /\ ReadPart'
  <2>1. InStep /\ k = Len(toClient[starts])
    <3>1. ~cut' /\ fate[starts] = "open" /\ cpc # "down"
      BY <1>2, <1>4 DEF InStep
    <3>2. ~cut /\ ~(k < Len(toClient[starts]))
      BY <1>2, <3>1, Zenon
    <3>3. k = Len(toClient[starts])
      BY <1>2, <3>2
    <3> QED
      BY <3>1, <3>2, <3>3 DEF InStep
  <2>2. toClient'[starts] = <<>>
    BY <1>2, <2>1 DEF StreamPart
  <2>3. /\ ~Serving(starts)
        /\ sfate[starts] = "open" =>
             \A i \in DOMAIN toServer[starts] : ~IsHead(toServer[starts][i], "RX")
    BY <1>3, <2>1 DEF OneRead
  <2>4. \A i \in DOMAIN toClient'[starts] : FALSE
    BY <2>2
  <2> QED
    BY <1>2, <2>2, <2>3, <2>4 DEF OneRead, ReadPart, Serving, IsHead
<1>5. RepliesMatch'
  <2>1. ASSUME ~cut PROVE {toClient[starts][i] : i \in 1..k} \subseteq {reads}
    <3>1. InStep
      BY <1>2, <2>1 DEF InStep
    <3> QED
      BY <1>2, <3>1 DEF ReadPart
  <2>2. got'.cut = cut /\ got'.read = reads /\ got'.replies = {toClient[starts][i] : i \in 1..k}
    BY <1>2
  <2> QED
    BY <2>1, <2>2 DEF RepliesMatch
<1> QED
  BY <1>4, <1>5 DEF OneRead, ReadPart

\* The server takes a request.
LEMMA RequestReceived ==
  ASSUME TcpTypeOK, StreamPart, EndPart, OneRead, ReadPart, ServerRecv
  PROVE  OneRead' /\ ReadPart'
<1>1. /\ UNCHANGED <<accepted, cpc, starts, reads, toClient, sfate, fate, cut>>
      /\ accepted \in Conns /\ spc = "recv"
  BY ReceivedUnits DEF ServerRecv, clientVars
<1>2. sfate[accepted] = "open"
  BY <1>1 DEF EndPart
<1> SUFFICES ASSUME InStep, InStep'
             PROVE  OneRead' /\ ReadPart'
  BY <1>1 DEF OneRead, ReadPart, InStep
<1>3. starts \in Conns
  BY DEF InStep, TcpTypeOK
<1>4. CASE starts # accepted
  <2>1. ReadsKept
    BY <1>1, <1>3, <1>4, ReceivedUnits DEF ReadsKept, Serving
  <2> QED
    BY <2>1, InStepReads
<1>5. CASE starts = accepted
  <2> DEFINE first == toServer[starts][1]
  <2>1. PICK k \in Nat \ {0} : \A i \in DOMAIN toServer'[starts] :
          /\ i + k \in DOMAIN toServer[starts]
          /\ toServer'[starts][i] = toServer[starts][i + k]
    BY <1>5, ReceivedUnits
  <2>2. DOMAIN toServer'[starts] \subseteq Nat \ {0} /\ 1 \in DOMAIN toServer[starts]
    BY <1>1, <1>5, ReceivedUnits
  <2>3. spc' \in {"read", "send"} => IsHead(first, "RX") /\ sm'.n = first.n
    <3>1. spc' = CASE sm'.d = "RX" -> "read" [] sm'.d = "TX" -> "write" [] OTHER -> "recv"
      BY DEF ServerRecv
    <3>2. sm' # None => first.part = 1 /\ sm'.d = first.d /\ sm'.n = first.n
      BY <1>5, ReceivedUnits DEF Message
    <3> QED
      BY <3>1, <3>2 DEF IsHead, None
  <2> HIDE DEF first
  <2>4. IsHead(first, "RX") =>
          /\ toClient[starts] = <<>> /\ cpc = "recv" /\ first.n = reads
          /\ \A i \in DOMAIN toServer[starts] : IsHead(toServer[starts][i], "RX") => i = 1
    BY <1>2, <1>5, <2>2 DEF OneRead, ReadPart, first
  <2>5. \A i \in DOMAIN toServer'[starts] : i + k # 1
    BY <2>1, <2>2
  <2>6. spc' \in {"read", "send"} =>
          \A i \in DOMAIN toServer'[starts] : ~IsHead(toServer'[starts][i], "RX")
    BY <2>1, <2>3, <2>4, <2>5
  <2>7. OneRead'
    <3>1. toClient[starts] # <<>> => ~Serving(starts)'
      BY <2>3, <2>4 DEF Serving
    <3>2. ASSUME NEW i \in DOMAIN toServer'[starts], IsHead(toServer'[starts][i], "RX")
          PROVE  /\ toClient[starts] = <<>> /\ ~Serving(starts)'
                 /\ \A j \in DOMAIN toServer'[starts] :
                      IsHead(toServer'[starts][j], "RX") => i = j
      <4>1. i + k \in DOMAIN toServer[starts] /\ IsHead(toServer[starts][i + k], "RX")
        BY <2>1, <3>2
      <4>2. /\ toClient[starts] = <<>>
            /\ \A j \in DOMAIN toServer[starts] : IsHead(toServer[starts][j], "RX") => i + k = j
        BY <1>2, <1>5, <4>1 DEF OneRead
      <4>3. ~Serving(starts)'
        BY <2>6, <3>2 DEF Serving
      <4>4. ASSUME NEW j \in DOMAIN toServer'[starts], IsHead(toServer'[starts][j], "RX")
            PROVE  i = j
        <5>1. j + k \in DOMAIN toServer[starts] /\ IsHead(toServer[starts][j + k], "RX")
          BY <2>1, <4>4
        <5>2. i + k = j + k /\ i \in Nat /\ j \in Nat
          BY <2>2, <4>2, <5>1
        <5> QED
          BY <5>2
      <4> QED
        BY <4>2, <4>3, <4>4
    <3> QED
      BY <1>1, <3>1, <3>2 DEF OneRead, Serving, IsHead
  <2>8. ReadPart'
    <3>1. Serving(starts)' => cpc = "recv" /\ sm'.n = reads
      BY <2>3, <2>4 DEF Serving
    <3>2. ASSUME NEW i \in DOMAIN toServer'[starts], IsHead(toServer'[starts][i], "RX")
          PROVE  cpc = "recv" /\ toServer'[starts][i].n = reads
      BY <1>2, <1>5, <2>1, <3>2 DEF ReadPart
    <3>3. /\ toClient[starts] # <<>> => cpc = "recv"
          /\ \A i \in DOMAIN toClient[starts] : toClient[starts][i] = reads
      BY DEF ReadPart
    <3> QED
      BY <1>1, <3>1, <3>2, <3>3 DEF ReadPart, Serving, IsHead
  <2> QED
    BY <2>7, <2>8
<1> QED
  BY <1>4, <1>5

\* The server answers it.
LEMMA ReplySent ==
  ASSUME TcpTypeOK, StreamPart, EndPart, OneRead, ReadPart, ServerSend, spc' = "recv"
  PROVE  OneRead' /\ ReadPart'
<1>1. /\ UNCHANGED <<accepted, cpc, starts, reads, toServer, sfate, fate, cut>>
      /\ accepted \in Conns /\ spc = "send" /\ spc' = "recv" /\ sm.n \in Nat /\ sm.len \in Nat
      /\ toClient' = IF fate[accepted] = "open"
                     THEN [toClient EXCEPT ![accepted] = toClient[accepted] \o ReplyTo(sm)]
                     ELSE toClient
  BY DEF ServerSend, TcpTypeOK, clientVars
<1> SUFFICES ASSUME InStep, InStep'
             PROVE  OneRead' /\ ReadPart'
  BY <1>1 DEF OneRead, ReadPart, InStep
<1>2. starts \in Conns /\ fate[starts] = "open" /\ DOMAIN toClient = Conns
  BY DEF InStep, TcpTypeOK, StreamPart
<1>3. ~Serving(starts)'
  BY <1>1 DEF Serving
<1>4. CASE starts # accepted
  <2>1. ReadsKept
    BY <1>1, <1>2, <1>3, <1>4 DEF ReadsKept
  <2> QED
    BY <2>1, InStepReads
<1>5. CASE starts = accepted
  <2>1. sfate[starts] = "open" /\ Serving(starts) /\ cpc = "recv" /\ sm.n = reads
    BY <1>1, <1>5 DEF EndPart, Serving, ReadPart
  <2>2. /\ toClient[starts] = <<>>
        /\ \A i \in DOMAIN toServer[starts] : ~IsHead(toServer[starts][i], "RX")
    BY <2>1 DEF OneRead
  <2> DEFINE reply == <<>> \o ReplyTo(sm)
  <2>3. \A i \in DOMAIN reply : reply[i] = reads
    BY <1>1, <2>1 DEF ReplyTo
  <2> HIDE DEF reply
  <2>4. toClient'[starts] = reply
    BY <1>1, <1>2, <1>5, <2>2 DEF reply
  <2>5. OneRead'
    BY <1>1, <1>3, <2>2 DEF OneRead, Serving, IsHead
  <2>6. ReadPart'
    BY <1>1, <1>3, <2>1, <2>2, <2>3, <2>4 DEF ReadPart, Serving, IsHead
  <2> QED
    BY <2>5, <2>6
<1> QED
  BY <1>4, <1>5

\* The client connects: nothing is in its new connection.
LEMMA ConnectStarts ==
  ASSUME TcpTypeOK, StreamPart, ClientConnect
  PROVE  OneRead' /\ ReadPart'
<1>1. /\ starts' = starts + 1 /\ starts' \in Conns /\ starts' > starts
      /\ UNCHANGED <<toClient, toServer, spc, accepted>>
  BY TcpAssumption DEF ClientConnect, TcpTypeOK, Conns, netVars, serverVars
<1>2. toClient'[starts'] = <<>> /\ toServer'[starts'] = <<>>
  BY <1>1 DEF StreamPart
<1>3. ~Serving(starts)'
  BY <1>1 DEF TcpTypeOK, Serving
<1>4. /\ \A i \in DOMAIN toClient'[starts'] : FALSE
      /\ \A i \in DOMAIN toServer'[starts'] : FALSE
  BY <1>2
<1> QED
  BY <1>2, <1>3, <1>4 DEF OneRead, ReadPart

\* What the other steps do to a connection that is in step
LEMMA OtherStepsKeepReads ==
  ASSUME TcpTypeOK, StreamPart, EndPart, InStep', [TcpNext]_tvars,
         ~ClientConnect, ~ClientReadSend, ~ClientReadRecv, ~ClientReadEnd, ~ServerRecv,
         ~(ServerSend /\ spc' = "recv")
  PROVE  ReadsKept
<1> USE DEF clientVars, serverVars, netVars
<1>1. CASE ClientWrite
  <2>1. starts \in Conns /\ writes' \in Nat /\ toServer' = Send(toServer, Frame("TX", writes'))
    BY <1>1 DEF ClientWrite, Sends, TcpTypeOK
  <2>2. /\ Frame("TX", writes') \in Seq(Unit) /\ DOMAIN Frame("TX", writes') = 1..3
        /\ \A i \in 1..3 : ~IsHead(Frame("TX", writes')[i], "RX")
    BY <2>1, FrameUnits
  <2>3. \A i \in DOMAIN toServer'[starts] :
          IsHead(toServer'[starts][i], "RX") =>
            i \in DOMAIN toServer[starts] /\ toServer'[starts][i] = toServer[starts][i]
    BY <2>1, <2>2, SentUnits
  <2> QED
    BY <1>1, <2>3 DEF ClientWrite, ReadsKept, Serving, InStep
<1>2. CASE Closes
  <2>1. PICK end \in {"fin", "reset"} : EndSocket(end)
    BY <1>2, ClosingSteps
  <2>2. fate'[starts] # "open" /\ starts' = starts
    BY <1>2, <2>1, ClosingSteps, EndedStreams
  <2> QED
    BY <2>2 DEF InStep
<1>3. CASE ServerAccept \/ ServerRecvEnd \/ ServerWritePort \/ ServerReadPort
           \/ ServerStart \/ UNCHANGED tvars
  BY <1>3 DEF ServerAccept, ServerRecvEnd, ServerWritePort, ServerReadPort, ServerStart,
       tvars, ReadsKept, Serving, InStep
<1>4. CASE ServerRecvError \/ ServerSend \/ ServerClose
  <2>1. /\ starts \in Conns /\ accepted \in Nat
        /\ UNCHANGED <<cpc, starts, reads, cut, fate, accepted, toClient>>
        /\ DropFrom(accepted) \/ DropFrom(accepted + 1)
        /\ spc' = "stopped" \/ (spc' = spc /\ sm' = sm)
    BY <1>4 DEF ServerRecvError, ServerSend, ServerClose, InStep, TcpTypeOK
  <2>2. /\ toServer'[starts] \in {toServer[starts], <<>>}
        /\ sfate'[starts] = "open" => sfate[starts] = "open"
    BY <2>1, DroppedUnits
  <2> QED
    BY <2>1, <2>2 DEF ReadsKept, Serving, InStep
<1>5. CASE ServerExit
  <2>1. /\ starts \in Conns /\ UNCHANGED <<cpc, starts, reads, cut, fate>> /\ spc' = "gone"
    BY <1>5 DEF ServerExit, InStep, TcpTypeOK
  <2>2. toServer'[starts] = <<>> /\ sfate'[starts] # "open"
    BY <1>5, <2>1 DEF ServerExit, TcpTypeOK, Conns
  <2>3. toClient'[starts] \in {toClient[starts], <<>>}
    BY <1>5, <2>1 DEF ServerExit
  <2> QED
    BY <2>1, <2>2, <2>3 DEF ReadsKept, Serving, InStep
<1> QED
  BY <1>1, <1>2, <1>3, <1>4, <1>5
  DEF TcpNext, ClientNext, ServerNext, ServerEvents, Closes

\* Only the client changes what a Read got.
LEMMA MatchStep ==
  ASSUME TcpTypeOK, StreamPart, RepliesMatch, [TcpNext]_tvars, ~ClientReadRecv
  PROVE  RepliesMatch'
<1> USE DEF RepliesMatch, clientVars, serverVars, netVars
<1>1. CASE Closes
  BY <1>1, ClosingSteps DEF NoRead
<1>2. CASE ~Closes
  <2>1. UNCHANGED got
    BY <1>2 DEF TcpNext, ClientNext, ServerNext, ServerEvents, tvars, ClientConnect,
       ClientWrite, ClientReadSend, ClientReadEnd, ServerAccept, ServerRecv, ServerRecvEnd,
       ServerRecvError, ServerWritePort, ServerReadPort, ServerSend, ServerClose,
       ServerExit, ServerStart, Closes
  <2> QED
    BY <2>1
<1> QED
  BY <1>1, <1>2

LEMMA ReadStep ==
  ASSUME TcpTypeOK, StreamPart, EndPart, OneRead, ReadPart, RepliesMatch, [TcpNext]_tvars
  PROVE  OneRead' /\ ReadPart' /\ RepliesMatch'
<1>0. RepliesMatch'
  BY MatchStep, ReplyReceived
<1> SUFFICES OneRead' /\ ReadPart'
  BY <1>0
<1>1. CASE ClientConnect
  BY <1>1, ConnectStarts
<1>2. CASE ClientReadSend
  BY <1>2, ReadSent
<1>3. CASE ClientReadRecv
  BY <1>3, ReplyReceived
<1>4. CASE ClientReadEnd
  <2>1. /\ starts \in Conns /\ cpc = "recv"
        /\ fate[starts] = "open" => toClient[starts] = <<>> /\ sfate[starts] # "open"
        /\ UNCHANGED <<starts, cut, fate, sfate, toClient, toServer, spc, accepted>>
    BY <1>4 DEF ClientReadEnd, TcpTypeOK, netVars, serverVars
  <2>2. sfate[starts] # "open" => ~Serving(starts)
    BY <2>1 DEF EndPart, Serving
  <2>3. ASSUME InStep' PROVE InStep /\ toClient[starts] = <<>> /\ sfate[starts] # "open"
    BY <2>1, <2>3 DEF InStep
  <2>4. toClient[starts] = <<>> => \A i \in DOMAIN toClient[starts] : FALSE
    OBVIOUS
  <2> QED
    BY <2>1, <2>2, <2>3, <2>4 DEF OneRead, ReadPart, Serving
<1>5. CASE ServerRecv
  BY <1>5, RequestReceived
<1>6. CASE ServerSend /\ spc' = "recv"
  BY <1>6, ReplySent
<1>7. CASE /\ ~ClientConnect /\ ~ClientReadSend /\ ~ClientReadRecv /\ ~ClientReadEnd
           /\ ~ServerRecv /\ ~(ServerSend /\ spc' = "recv")
  <2>1. InStep' => ReadsKept
    BY <1>7, OtherStepsKeepReads
  <2> QED
    BY <2>1, InStepReads
<1> QED
  BY <1>1, <1>2, <1>3, <1>4, <1>5, <1>6, <1>7

-----------------------------------------------------------------------------
LEMMA TcpInitInv ==
  ASSUME TcpInit PROVE TcpInv
<1> USE TcpAssumption DEF TcpInit
<1>1. TcpTypeOK
  <2>1. sm \in [d : {"TX", "RX", "NONE"}, n : Nat, len : 0..ReadLen]
    BY DEF None
  <2>2. cut \in BOOLEAN /\ run \in BOOLEAN
    OBVIOUS
  <2>3. fate \in [Conns -> {"open", "fin", "reset"}] /\ sfate \in [Conns -> {"open", "closed"}]
    OBVIOUS
  <2>4. /\ cpc = "down" /\ starts = 0 /\ writes = 0 /\ reads = 0
        /\ spc = "accept" /\ accepted = 0 /\ servers = 1
    OBVIOUS
  <2> HIDE DEF TcpInit
  <2> QED
    BY <2>1, <2>2, <2>3, <2>4 DEF TcpTypeOK
<1>2. StreamPart /\ EndPart
  BY DEF StreamPart, EndPart, NoRead
<1>3. WritePart /\ PortInOrder
  BY DEF WritePart, PortInOrder
<1>4. OneRead /\ ReadPart /\ RepliesMatch
  BY DEF OneRead, ReadPart, RepliesMatch, InStep, NoRead
<1> QED
  BY <1>1, <1>2, <1>3, <1>4 DEF TcpInv

(* Whatever the number of calls, connections and processes, however TCP     *)
(* cuts a stream and whichever of the faults come: the writes still to come *)
(* are in order and later than all that were made, and a connection in step *)
(* carries one read at a time, which is the one the client waits for        *)
(* (TCPClient, HandleClient).                                               *)
THEOREM TcpInvariant == TcpSpec => []TcpInv
<1>1. TcpInv /\ [TcpNext]_tvars => TcpInv'
  BY TcpTypeStep, StreamStep, EndStep, WriteStep, ReadStep DEF TcpInv
<1> QED
  BY TcpInitInv, <1>1, PTL DEF TcpSpec

(* What reaches the real port was written by the client, in the order of    *)
(* its writes and none of it twice (TCPClient::Write, HandleClient).        *)
THEOREM PortIsInOrder == TcpSpec => []PortInOrder
<1>1. TcpInv => PortInOrder
  BY DEF TcpInv
<1> QED
  BY TcpInvariant, <1>1, PTL

(* A Read receives bytes of the reply to its own request only, as long as   *)
(* no recv before it on its connection has left something behind            *)
(* (TCPClient::Read, HandleClient).                                         *)
THEOREM RepliesAreMatched == TcpSpec => []RepliesMatch
<1>1. TcpInv => RepliesMatch
  BY DEF TcpInv
<1> QED
  BY TcpInvariant, <1>1, PTL

-----------------------------------------------------------------------------
(* The relay, and the two together.                                        *)

LEMMA RelayInitInv == ASSUME RelayInit PROVE RelayInv
<1>1. RelayTypeOK
  BY RelayAssumption DEF RelayInit, RelayTypeOK, NUL, Nothing
<1> QED
  BY <1>1, RelayAssumption DEF RelayInit, RelayInv, RelayInOrder, Nothing

\* A reply takes its byte from the buffer, at the place it is told if that is there.
LEMMA ReplyGives ==
  ASSUME NEW i, NEW len, Reply(i, len)
  PROVE  /\ \E b \in {NUL} \cup {xyz'[j] : j \in Idx} : out' = [byte |-> b, due |-> passed + 1]
         /\ i \in Idx => out' = [byte |-> xyz'[i], due |-> passed + 1]
<1>1. CASE i \in Idx
  BY <1>1 DEF Reply
<1>2. CASE i \notin Idx
  BY <1>2 DEF Reply, BehindBlock
<1> QED
  BY <1>1, <1>2

\* What is left is at the end of the block.
LEMMA ServeCachedInv ==
  ASSUME RelayInv, NEW len \in AskLengths, ServeCached(len) PROVE RelayInv'
<1> USE RelayAssumption
<1>1. /\ rpc = "wait" /\ len \in Nat \ {0} /\ bufferFill # 0 /\ bufferFill >= len
      /\ UNCHANGED <<rpc, ask, xyz, layout, conn, came, block, regular>>
      /\ bufferFill' = bufferFill - len
      /\ bufferIdx' = IF bufferIdx + len >= READ_AHEAD THEN 0 ELSE bufferIdx + len
      /\ passed' = passed + len
      /\ \E b \in {NUL} \cup {xyz[j] : j \in Idx} : out' = [byte |-> b, due |-> passed + 1]
      /\ bufferIdx \in Idx => out' = [byte |-> xyz[bufferIdx], due |-> passed + 1]
  <2>1. len \in Nat \ {0}
    OBVIOUS
  <2>2. UNCHANGED <<rpc, ask, xyz, layout, conn, came, block, regular>>
    BY DEF ServeCached
  <2>3. rpc = "wait" /\ bufferFill # 0 /\ bufferFill >= len
    BY DEF ServeCached, Cached
  <2>4. /\ bufferFill' = bufferFill - len
        /\ bufferIdx' = IF bufferIdx + len >= READ_AHEAD THEN 0 ELSE bufferIdx + len
        /\ Reply(bufferIdx, len)
    BY DEF ServeCached
  <2>5. xyz' = xyz
    BY <2>2
  <2>6. passed' = passed + len
    BY <2>4 DEF Reply
  <2>7. /\ \E b \in {NUL} \cup {xyz[j] : j \in Idx} : out' = [byte |-> b, due |-> passed + 1]
        /\ bufferIdx \in Idx => out' = [byte |-> xyz[bufferIdx], due |-> passed + 1]
    BY <2>4, <2>5, ReplyGives
  <2> QED
    BY <2>1, <2>2, <2>3, <2>4, <2>6, <2>7
<1>2. /\ RelayTypeOK /\ bufferFill \in Int /\ bufferIdx \in Nat /\ passed \in Nat
      /\ xyz \in [Idx -> Nat] /\ came \in Nat
  BY DEF RelayInv, RelayTypeOK
<1>3. RelayTypeOK'
  <2>1. out' \in [byte : Nat, due : Nat]
    <3>1. \A j \in Idx : xyz[j] \in Nat
      BY <1>2
    <3> QED
      BY <1>1, <1>2, <3>1 DEF NUL
  <2> QED
    BY <1>1, <1>2, <2>1 DEF RelayTypeOK
<1>4. \A i \in Idx : xyz'[i] # NUL => xyz'[i] \in came' - block' + 1..came'
  BY <1>1 DEF RelayInv
<1>5. ASSUME regular', conn' = "up"
      PROVE  /\ bufferFill' \in 0..READ_AHEAD - 1
             /\ bufferFill' = 0 => bufferIdx' = 0
             /\ bufferFill' > 0 =>
                  /\ bufferFill' + bufferIdx' = READ_AHEAD
                  /\ \A i \in Idx : xyz'[i] = came' - READ_AHEAD + 1 + i
             /\ passed' = came' - bufferFill'
             /\ out'.byte = out'.due
  <2>1. /\ bufferFill \in 1..READ_AHEAD - 1 /\ bufferFill + bufferIdx = READ_AHEAD
        /\ \A i \in Idx : xyz[i] = came - READ_AHEAD + 1 + i
        /\ passed = came - bufferFill
    BY <1>1, <1>2, <1>5 DEF RelayInv
  <2>2. bufferIdx \in Idx
    BY <1>2, <2>1 DEF Idx
  <2>3. out'.byte = out'.due
    <3>1. xyz[bufferIdx] = passed + 1
      BY <1>2, <2>1, <2>2
    <3> QED
      BY <1>1, <2>2, <3>1
  <2>4. /\ bufferFill' \in 0..READ_AHEAD - 1
        /\ bufferFill' = 0 => bufferIdx' = 0
        /\ bufferFill' > 0 => bufferFill' + bufferIdx' = READ_AHEAD
        /\ passed' = came' - bufferFill'
    BY <1>1, <1>2, <2>1
  <2>5. \A i \in Idx : xyz'[i] = came' - READ_AHEAD + 1 + i
    BY <1>1, <2>1
  <2> QED
    BY <2>3, <2>4, <2>5
<1> QED
  BY <1>1, <1>3, <1>4, <1>5 DEF RelayInv, RelayInOrder

\* A Read ends, in one way or another.
LEMMA AfterReadInv ==
  ASSUME RelayInv, (\E n \in 1..READ_AHEAD : ReadBlock(n)) \/ ReadEnded \/ ReadUnsent
  PROVE  RelayInv'
<1> USE RelayAssumption
<1>1. /\ RelayTypeOK /\ rpc = "read" /\ ask \in Nat \ {0} /\ 0 \in Idx
      /\ bufferFill \in Int /\ bufferIdx \in Nat /\ xyz \in [Idx -> Nat]
      /\ came \in Nat /\ block \in 0..came /\ passed \in Nat
  <2>1. rpc = "read"
    BY DEF ReadBlock, ReadEnded, ReadUnsent
  <2>2. ask \in Nat \ {0} /\ 0 \in Idx
    BY DEF RelayInv, RelayTypeOK, Idx
  <2> QED
    BY <2>1, <2>2 DEF RelayInv, RelayTypeOK
<1>2. /\ rpc' = "wait" /\ bufferIdx' = bufferIdx + ask /\ UNCHANGED <<ask, layout>>
      /\ passed' = passed + ask
      /\ out' = out \/ out' = [byte |-> xyz'[0], due |-> passed + 1]
  <2>1. rpc' = "wait" /\ bufferIdx' = bufferIdx + ask /\ UNCHANGED <<ask, layout>>
    <3>1. CASE \E n \in 1..READ_AHEAD : ReadBlock(n)
      BY <3>1 DEF ReadBlock, AfterRead
    <3>2. CASE ReadEnded \/ ReadUnsent
      BY <3>2 DEF ReadEnded, ReadUnsent, AfterRead
    <3> QED
      BY <3>1, <3>2
  <2>2. ReplyCleared(0, ask) \/ Reply(0, ask)
    BY DEF ReadBlock, ReadEnded, ReadUnsent
  <2>3. passed' = passed + ask
    BY <2>2 DEF Reply, ReplyCleared
  <2>4. out' = out \/ out' = [byte |-> xyz'[0], due |-> passed + 1]
    BY <1>1, <2>2 DEF Reply, ReplyCleared
  <2> QED
    BY <2>1, <2>3, <2>4
<1>3. ASSUME NEW n \in 1..READ_AHEAD, ReadBlock(n) PROVE RelayInv'
  <2>1. /\ conn = "up" /\ conn' = "up" /\ bufferFill' = n - ask
        /\ came' = came + n /\ block' = n
        /\ xyz' = [i \in Idx |-> IF i < n THEN came + 1 + i ELSE NUL]
        /\ regular' = (regular /\ n = READ_AHEAD /\ bufferFill = 0 /\ ask < READ_AHEAD)
    BY <1>3 DEF ReadBlock, AfterRead, NewBlock
  <2>2. /\ xyz' \in [Idx -> Nat] /\ xyz'[0] = came + 1
        /\ \A i \in Idx : xyz'[i] # NUL => xyz'[i] \in came' - block' + 1..came'
    BY <1>1, <2>1 DEF Idx, NUL
  <2>3. RelayTypeOK'
    <3>1. out' \in [byte : Nat, due : Nat]
      BY <1>1, <1>2, <2>2 DEF RelayTypeOK
    <3>2. regular' \in BOOLEAN
      BY <2>1
    <3> QED
      BY <1>1, <1>2, <2>1, <2>2, <3>1, <3>2 DEF RelayTypeOK
  <2>4. ASSUME regular'
        PROVE  /\ bufferFill' \in 1..READ_AHEAD - 1
               /\ bufferFill' + bufferIdx' = READ_AHEAD
               /\ \A i \in Idx : xyz'[i] = came' - READ_AHEAD + 1 + i
               /\ passed' = came' - bufferFill'
               /\ out'.byte = out'.due
    <3>1. regular /\ n = READ_AHEAD /\ bufferFill = 0 /\ ask < READ_AHEAD
      BY <2>1, <2>4
    <3>2. bufferIdx = 0 /\ passed = came /\ out.byte = out.due
      BY <1>1, <2>1, <3>1 DEF RelayInv, RelayInOrder
    <3>3. \A i \in Idx : xyz'[i] = came' - READ_AHEAD + 1 + i
      <4>1. came' = came + READ_AHEAD /\ \A i \in Idx : i < n /\ i \in Nat
        BY <2>1, <3>1 DEF Idx
      <4>2. \A i \in Idx : xyz'[i] = came + 1 + i
        BY <2>1, <4>1
      <4> QED
        BY <1>1, <4>1, <4>2
    <3>4. /\ bufferFill' \in 1..READ_AHEAD - 1 /\ bufferFill' + bufferIdx' = READ_AHEAD
          /\ passed' = came' - bufferFill'
      BY <1>1, <1>2, <2>1, <3>1, <3>2
    <3>5. out'.byte = out'.due
      BY <1>2, <2>2, <3>2
    <3> QED
      BY <3>3, <3>4, <3>5
  <2> QED
    BY <1>2, <2>2, <2>3, <2>4 DEF RelayInv, RelayInOrder
<1>4. CASE ReadEnded \/ ReadUnsent
  <2>1. /\ conn' \in {"ended", "closed"} /\ bufferFill' \in {0 - ask, 1 - ask}
        /\ xyz' = xyz \/ xyz' = [i \in Idx |-> NUL]
        /\ UNCHANGED <<came, block, regular>>
    BY <1>1, <1>4 DEF ReadEnded, ReadUnsent, AfterRead, RelayTypeOK
  <2>2. /\ xyz' \in [Idx -> Nat]
        /\ \A i \in Idx : xyz'[i] # NUL => xyz'[i] \in came' - block' + 1..came'
    BY <1>1, <2>1 DEF NUL, RelayInv
  <2>3. RelayTypeOK'
    <3>1. out' \in [byte : Nat, due : Nat]
      BY <1>1, <1>2, <2>2 DEF RelayTypeOK
    <3> QED
      BY <1>1, <1>2, <2>1, <2>2, <3>1 DEF RelayTypeOK
  <2> QED
    BY <1>2, <2>1, <2>2, <2>3 DEF RelayInv, RelayInOrder
<1> QED
  BY <1>3, <1>4

\* The other steps leave the buffer and what was handed out alone.
LEMMA RelayNextInv ==
  ASSUME RelayInv, [RelayNext]_relayVars PROVE RelayInv'
<1> USE RelayAssumption
<1>1. CASE RelayStart
  <2>1. /\ rpc' = "wait" /\ conn' = "up"
        /\ UNCHANGED <<ask, bufferFill, bufferIdx, xyz, layout, came, block, passed, out, regular>>
        /\ bufferFill = 0 /\ bufferIdx = 0 /\ came = 0 /\ passed = 0 /\ out = Nothing
    BY <1>1 DEF RelayStart, history, RelayInv
  <2>2. RelayTypeOK'
    <3>1. RelayTypeOK
      BY DEF RelayInv
    <3>2. regular' \in BOOLEAN
      BY <2>1, <3>1 DEF RelayTypeOK
    <3> QED
      BY <2>1, <3>1, <3>2 DEF RelayTypeOK
  <2>3. out'.byte = out'.due
    BY <2>1 DEF Nothing, NUL
  <2> QED
    BY <2>1, <2>2, <2>3 DEF RelayInv, RelayInOrder
<1>2. CASE RelayWriteFails \/ RelayEnd \/ RelayDies
  <2>1. Leave
    BY <1>2 DEF RelayWriteFails, RelayEnd, RelayDies
  <2>2. RelayTypeOK'
    BY <2>1 DEF Leave, RelayInv, RelayTypeOK, NUL, Nothing
  <2> QED
    BY <2>1, <2>2 DEF Leave, RelayInv, RelayInOrder, Nothing
<1>3. ASSUME NEW len \in AskLengths, RelayRead(len) PROVE RelayInv'
  <2>1. CASE ServeCached(len)
    BY <2>1, ServeCachedInv
  <2>2. CASE StartRead(len)
    BY <2>2 DEF StartRead, history, RelayInv, RelayInOrder, RelayTypeOK
  <2> QED
    BY <1>3, <2>1, <2>2 DEF RelayRead
<1>4. CASE (\E n \in 1..READ_AHEAD : ReadBlock(n)) \/ ReadEnded \/ ReadUnsent
  BY <1>4, AfterReadInv
<1>5. CASE RelaySignal
  BY <1>5 DEF RelaySignal, history, RelayInv, RelayInOrder, RelayTypeOK
<1>6. CASE UNCHANGED relayVars
  BY <1>6 DEF relayVars, history, RelayInv, RelayInOrder, RelayTypeOK
<1>7. CASE RelayWrite
  BY <1>6, <1>7 DEF RelayWrite
<1> QED
  BY <1>1, <1>2, <1>3, <1>4, <1>5, <1>6, <1>7 DEF RelayNext

(* What waitForMsg's buffer holds is of the last block, and while blocks    *)
(* come whole and are handed out to their end, what is left of it is what   *)
(* comes next, at every state (RelayInv is inductive).                      *)
THEOREM RelayInvariant == RelaySpec => []RelayInv
<1>1. RelayInit => RelayInv
  BY RelayInitInv
<1>2. RelayInv /\ [RelayNext]_relayVars => RelayInv'
  BY RelayNextInv
<1> QED
  BY <1>1, <1>2, PTL DEF RelaySpec

\* What a request gets is in the buffer after it, or is no byte of the server.
LEMMA AnswersAreInBlock ==
  ASSUME RelayInv', [RelayNext]_relayVars, out' # out, out'.byte # NUL
  PROVE  out'.byte \in came' - block' + 1..came'
<1>1. ASSUME NEW i, NEW len, Reply(i, len)
      PROVE  out'.byte \in came' - block' + 1..came'
  <2>1. \E b \in {NUL} \cup {xyz'[j] : j \in Idx} : out'.byte = b
    BY <1>1, ReplyGives
  <2> QED
    BY <2>1 DEF RelayInv
<1>2. ASSUME NEW len \in AskLengths, RelayRead(len)
      PROVE  out'.byte \in came' - block' + 1..came'
  <2>1. CASE ServeCached(len)
    BY <1>1, <2>1 DEF ServeCached
  <2>2. CASE StartRead(len)
    BY <2>2 DEF StartRead, history
  <2> QED
    BY <1>2, <2>1, <2>2 DEF RelayRead
<1>3. CASE (\E n \in 1..READ_AHEAD : ReadBlock(n)) \/ ReadEnded \/ ReadUnsent
  <2>1. Reply(0, ask)
    BY <1>3 DEF ReadBlock, ReadEnded, ReadUnsent, ReplyCleared
  <2> QED
    BY <1>1, <2>1
<1>4. CASE RelayWriteFails \/ RelayEnd \/ RelayDies
  <2>1. out'.byte = NUL
    BY <1>4 DEF RelayWriteFails, RelayEnd, RelayDies, Leave, Nothing
  <2> QED
    BY <2>1
<1>5. CASE RelayStart \/ RelayWrite \/ RelaySignal \/ UNCHANGED relayVars
  BY <1>5 DEF RelayStart, RelayWrite, RelaySignal, relayVars, history
<1> QED
  BY <1>2, <1>3, <1>4, <1>5 DEF RelayNext

-----------------------------------------------------------------------------
(* Each step of the service with its connection is one of waitForMsg's, or *)
(* leaves what is its own alone; and the same of the connection.           *)

LEMMA StepIsRelayStep ==
  ASSUME [CMNext]_cmvars PROVE [RelayNext]_relayVars
<1>1. CASE UNCHANGED cmvars
  BY <1>1 DEF cmvars
<1>2. CASE CMNext
  BY <1>2 DEF CMNext, CMConnect, CMWrite, CMWriteFails, CMServe, CMStartRead,
       CMReadSend, CMReadUnsent, CMReadBlock, CMReadEnded, CMSignal, CMEnd, CMDies,
       CMServerNext, CMServerEvents, RelayNext, RelayRead
<1> QED
  BY <1>1, <1>2

LEMMA StepIsTcpStep ==
  ASSUME [CMNext]_cmvars PROVE [TcpNext]_tvars
<1>1. CASE UNCHANGED cmvars
  BY <1>1 DEF cmvars
<1>2. CASE CMNext
  <2>1. CASE CMReadBlock
    BY <2>1, BlockAssumption DEF CMReadBlock, TcpNext, ClientNext, ClientReadRecv
  <2> QED
    BY <1>2, <2>1 DEF CMNext, CMConnect, CMWrite, CMWriteFails, CMServe, CMStartRead,
         CMReadSend, CMReadUnsent, CMReadEnded, CMSignal, CMEnd, CMDies,
         CMServerNext, CMServerEvents, TcpNext, ClientNext
<1> QED
  BY <1>1, <1>2

(* The service in client mode does what waitForMsg and TCPClient do on     *)
(* their own: ClientMode implements ClientRelay and TcpLink.               *)
THEOREM ClientModeImplements == CMSpec => RelaySpec /\ TcpSpec
<1>1. CMInit => RelayInit /\ TcpInit
  BY DEF CMInit
<1>2. [CMNext]_cmvars => [RelayNext]_relayVars /\ [TcpNext]_tvars
  BY StepIsRelayStep, StepIsTcpStep
<1> QED
  BY <1>1, <1>2, PTL DEF CMSpec, RelaySpec, TcpSpec

(* An application that reads through a service in client mode gets the      *)
(* first of the bytes each request asks for, for every length of the block  *)
(* and of the requests, while blocks come whole and are handed out to their *)
(* end and the connection lasts (waitForMsg).                               *)
THEOREM ClientModeInOrder == CMSpec => []RelayInOrder
<1>1. RelayInv => RelayInOrder
  BY DEF RelayInv
<1> QED
  BY <1>1, RelayInvariant, ClientModeImplements, PTL

(* Whatever the lengths of blocks and requests and however far the index    *)
(* has gone, an application gets a byte of the last block or none of the    *)
(* server's: never one of an earlier block (waitForMsg, TCPClient::Read).   *)
THEOREM ClientModeNoStaleByte == CMSpec => NoStaleByte
<1>1. RelayInv' /\ [RelayNext]_relayVars =>
        [out' # out /\ out'.byte # NUL =>
           out'.byte \in came' - block' + 1..came']_relayVars
  BY AnswersAreInBlock
<1> QED
  BY <1>1, RelayInvariant, ClientModeImplements, PTL DEF RelaySpec, NoStaleByte

(* What a service in client mode writes reaches the port in its order and   *)
(* nothing twice, and its Reads get the replies to their own requests while *)
(* no recv leaves something behind (waitForMsg over TCPClient and           *)
(* HandleClient).                                                           *)
THEOREM ClientModeLink == CMSpec => [](PortInOrder /\ RepliesMatch)
  BY ClientModeImplements, PortIsInOrder, RepliesAreMatched, PTL
=============================================================================
