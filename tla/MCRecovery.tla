----------------------------- MODULE MCRecovery ------------------------------
(* Instances of AcmRecovery: rules and entries, timeouts of several ticks.  *)
EXTENDS AcmRecovery

CONSTANTS r1, r2, b1
=============================================================================
