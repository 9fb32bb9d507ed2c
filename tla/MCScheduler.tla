------------------------------ MODULE MCScheduler ------------------------------
(* Instances of AcmScheduler for TLC: two tables and start times before, in and *)
(* beyond the window of the hardware.                                          *)
EXTENDS AcmScheduler

TwoTables == 0 .. 1
=============================================================================
