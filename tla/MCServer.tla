------------------------------- MODULE MCServer -------------------------------
(* ServerProcess with the bounds its configuration gives it.               *)
EXTENDS ServerProcess, TLC
=============================================================================
