------------------------------ MODULE MCFullRun ------------------------------
(* Two processes that start and stop two runs.                             *)
EXTENDS FullRun

CONSTANTS m1, m2, r1, r2
=============================================================================
