------------------------------- MODULE LossyFifo -------------------------------
(***************************************************************************)
(* What CRingBuffer promises its two callers: a first-in first-out queue   *)
(* of at most Capacity bytes.  Bytes are numbered as they are accepted; a  *)
(* byte for which there is no room is dropped by its writer and never gets *)
(* a number.                                                               *)
(***************************************************************************)
EXTENDS Integers, Sequences

CONSTANT Capacity

VARIABLES
  put,     \* how many bytes have been accepted
  out      \* the bytes taken out, in order

FifoInit == put = 0 /\ out = <<>>

\* Some bytes of one write, as many as there is room for
Put ==
  /\ \E k \in 1..(Capacity - (put - Len(out))) : put' = put + k
  /\ UNCHANGED out

\* One read: the oldest bytes
Get ==
  /\ \E k \in 1..(put - Len(out)) : out' = out \o [i \in 1..k |-> Len(out) + i]
  /\ UNCHANGED put

FifoSpec == FifoInit /\ [][Put \/ Get]_<<put, out>>
=============================================================================
