------------------------------- MODULE MCIoctl -------------------------------
(* A small instance of SerialIoctl for TLC.                                *)
EXTENDS SerialIoctl, TLC

CONSTANTS r1, r2, r3, r4

MCRequests == {r1, r2, r3, r4}
MCSymm == Permutations(MCRequests)

\* Every record with its fields at or next to a legal value.
MCAllLines == [word : 4..9, stop : 0..3, parity : 0..5]
=============================================================================
