----------------------------- MODULE MCLifecycle -----------------------------
(* DeviceLifecycle with the bounds its configuration gives it.                *)
EXTENDS DeviceLifecycle, TLC
=============================================================================
