----------------------------- MODULE MCVmLogger -----------------------------
(* Model checking of VmLogger: a guest whose clock is off by up to 2 seconds.*)
EXTENDS VmLogger
=============================================================================
