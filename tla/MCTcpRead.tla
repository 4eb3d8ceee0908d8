------------------------------ MODULE MCTcpRead ------------------------------
(* TcpLink alone, with the bounds its configuration gives it.              *)
EXTENDS TcpLink, TLC
=============================================================================
