------------------------------ MODULE ClientMode ------------------------------
(***************************************************************************)
(* The service in client mode and the server it is connected to: the steps *)
(* of waitForMsg (ClientRelay) and the calls of TCPClient they make        *)
(* (TcpLink) together, and HandleClient on its own.                        *)
(***************************************************************************)
EXTENDS ClientRelay, TcpLink

ASSUME BlockAssumption == ReadLen = READ_AHEAD

cmvars == <<relayVars, tvars>>

CMInit == RelayInit /\ TcpInit

CMConnect == RelayStart /\ ClientConnect

CMWrite == RelayWrite /\ ClientWrite
CMWriteFails == RelayWriteFails /\ ClientWriteFails

\* A read the buffer answers makes no call.
CMServe ==
  /\ cpc = "idle"
  /\ \E len \in AskLengths : ServeCached(len)
  /\ UNCHANGED tvars

\* The others call Read, which sends, waits for the reply and returns.
CMStartRead ==
  /\ cpc = "idle" /\ writes + reads < MaxCalls
  /\ \E len \in AskLengths : StartRead(len)
  /\ UNCHANGED tvars

CMReadSend == rpc = "read" /\ ClientReadSend /\ UNCHANGED relayVars
CMReadUnsent == ReadUnsent /\ cpc = "idle" /\ ClientReadFails
CMReadBlock == \E n \in 1..READ_AHEAD : ReadBlock(n) /\ ClientReadBytes(n)
CMReadEnded == ReadEnded /\ ClientReadEnd

CMEnd == RelayEnd /\ ClientClose
CMSignal == RelaySignal /\ ClientSignal
CMDies == RelayDies /\ ClientDies

CMServerNext == ServerNext /\ UNCHANGED relayVars
CMServerEvents == ServerEvents /\ UNCHANGED relayVars

CMNext == \/ CMConnect \/ CMWrite \/ CMWriteFails
          \/ CMServe \/ CMStartRead \/ CMReadSend \/ CMReadUnsent
          \/ CMReadBlock \/ CMReadEnded
          \/ CMSignal \/ CMEnd \/ CMDies
          \/ CMServerNext \/ CMServerEvents

CMSpec == CMInit /\ [][CMNext]_cmvars

\* The server's thread runs, and a recv that can return does.
CMFairSpec ==
  /\ CMSpec
  /\ WF_cmvars(CMServerNext)
  /\ WF_cmvars(CMReadBlock \/ CMReadEnded)
=============================================================================
