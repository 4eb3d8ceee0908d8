------------------------------ MODULE SerialLine ------------------------------
(***************************************************************************)
(* What the bridge promises the applications: a serial line.  Writes that  *)
(* were accepted leave on the real port in the order of acceptance, each   *)
(* at most once, with their own length; blocks that arrive on the real     *)
(* port are returned to readers in the order of arrival, each at most      *)
(* once; a read that finds none on its way gets nothing.  A lossy line may *)
(* lose the oldest of what is in flight and accept a write it never        *)
(* carries, and of a write only the beginning may leave; a lossless one    *)
(* may do neither.                                                         *)
(***************************************************************************)
EXTENDS Integers, Sequences

CONSTANTS
  WriteSizes   \* lengths of writes

VARIABLES
  faulty,     \* there has been a fault
  accepted,   \* how many writes have been accepted
  inFlight,   \* writes on their way to the port, oldest first
  onWire,     \* writes that left on the port, and how much of each
  taken,      \* how many blocks have been taken from the port
  answers,    \* blocks on their way to a reader, oldest first
  returned    \* what each answered read got: a block, or 0 for nothing

outbound == <<faulty, accepted, inFlight, onWire>>
inbound  == <<taken, answers, returned>>

LineInit ==
  /\ faulty = FALSE
  /\ accepted = 0 /\ inFlight = <<>> /\ onWire = <<>>
  /\ taken = 0 /\ answers = <<>> /\ returned = <<>>

\* What is left of s after losing its k oldest elements
WithoutOldest(s, k) == SubSeq(s, k + 1, Len(s))

Accept ==
  /\ accepted' = accepted + 1
  /\ \/ \E len \in WriteSizes :
          inFlight' = Append(inFlight, [id |-> accepted + 1, len |-> len])
     \/ faulty /\ UNCHANGED inFlight
  /\ UNCHANGED <<faulty, onWire, inbound>>

\* Write w of which n bytes have left on the port
Carried(w, n) == [id |-> w.id, len |-> w.len, sent |-> n]

Emit ==
  /\ inFlight # <<>>
  /\ onWire' = Append(onWire, Carried(Head(inFlight), Head(inFlight).len))
  /\ inFlight' = Tail(inFlight)
  /\ UNCHANGED <<faulty, accepted, inbound>>

\* A fault cuts a write short: its beginning leaves on the port, the rest never.
EmitPart ==
  /\ inFlight # <<>>
  /\ \E n \in 1..(Head(inFlight).len - 1) :
       onWire' = Append(onWire, Carried(Head(inFlight), n))
  /\ inFlight' = Tail(inFlight)
  /\ faulty' = TRUE
  /\ UNCHANGED <<accepted, inbound>>

Take ==
  /\ taken' = taken + 1
  /\ answers' = Append(answers, taken + 1)
  /\ UNCHANGED <<returned, outbound>>

GiveBack ==
  /\ answers # <<>>
  /\ returned' = Append(returned, Head(answers))
  /\ answers' = Tail(answers)
  /\ UNCHANGED <<taken, outbound>>

GiveNothing ==
  /\ answers = <<>>
  /\ returned' = Append(returned, 0)
  /\ UNCHANGED <<taken, answers, outbound>>

\* The fault itself, and every loss after it
Lose ==
  /\ faulty' = TRUE
  /\ \E k \in 0..Len(inFlight) : inFlight' = WithoutOldest(inFlight, k)
  /\ \E k \in 0..Len(answers) : answers' = WithoutOldest(answers, k)
  /\ UNCHANGED <<accepted, onWire, taken, returned>>

LineNext == Accept \/ Emit \/ EmitPart \/ Take \/ GiveBack \/ GiveNothing \/ Lose

LineSpec == LineInit /\ [][LineNext]_<<outbound, inbound>>

-----------------------------------------------------------------------------
(* What an application may rely on, as invariants of the line.             *)

LineTypeOK ==
  /\ faulty \in BOOLEAN
  /\ accepted \in Nat /\ taken \in Nat
  /\ inFlight \in Seq([id : Nat, len : WriteSizes])
  /\ onWire \in Seq([id : Nat, len : WriteSizes, sent : Nat])
  /\ answers \in Seq(Nat \ {0}) /\ returned \in Seq(Nat)

\* While there has been no fault, the writes on the port and after them those on
\* their way are all that were accepted, each once and in the order of acceptance,
\* and those on the port are there from the first byte to the last.
NothingLost ==
  ~faulty =>
    /\ accepted = Len(onWire) + Len(inFlight)
    /\ \A k \in 1..Len(onWire) : onWire[k].id = k /\ onWire[k].sent = onWire[k].len
    /\ \A k \in 1..Len(inFlight) : inFlight[k].id = Len(onWire) + k

\* Whatever has failed, a write leaves on the port only after those accepted before
\* it and never twice, and was accepted.
WritesInOrder ==
  /\ \A j, k \in 1..Len(onWire) : j < k => onWire[j].id < onWire[k].id
  /\ \A j, k \in 1..Len(inFlight) : j < k => inFlight[j].id < inFlight[k].id
  /\ \A j \in 1..Len(onWire), k \in 1..Len(inFlight) : onWire[j].id < inFlight[k].id
  /\ \A k \in 1..Len(onWire) : onWire[k].id \in 1..accepted
  /\ \A k \in 1..Len(inFlight) : inFlight[k].id \in 1..accepted

\* Readers get the blocks of the port in the order of arrival, none twice.
BlocksInOrder ==
  /\ \A j, k \in 1..Len(returned) :
       j < k /\ returned[k] # 0 => returned[j] < returned[k]
  /\ \A j, k \in 1..Len(answers) : j < k => answers[j] < answers[k]
  /\ \A j \in 1..Len(returned), k \in 1..Len(answers) : returned[j] < answers[k]
  /\ \A k \in 1..Len(returned) : returned[k] <= taken
  /\ \A k \in 1..Len(answers) : answers[k] <= taken
=============================================================================
