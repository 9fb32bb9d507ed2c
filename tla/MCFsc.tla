-------------------------------- MODULE MCFsc --------------------------------
(* Instances of AcmFsc for TLC, with words of a few values. *)
EXTENDS AcmFsc

CONSTANTS out1, in1

\* The instance is one of those the proofs about EntriesComplete are for.
ASSUME WholeCyclesAssumption == WholeCycles
=============================================================================
