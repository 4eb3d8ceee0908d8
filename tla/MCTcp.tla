-------------------------------- MODULE MCTcp --------------------------------
(* ClientMode with the bounds its configuration gives it.                  *)
EXTENDS ClientMode, TLC
=============================================================================
