-------------------------------- MODULE MCRing --------------------------------
(* CRingBuffer on small buffers: every position of the two pointers, every     *)
(* wrap, and every pair of lengths up to more than the buffer holds.           *)
EXTENDS CRingBuffer

MCSizes == 1..(Size + 1)
=============================================================================
