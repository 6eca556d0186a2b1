---------------------------- MODULE MCIngestLoop ----------------------------
(* One run, and jobs that also others drain.                               *)
EXTENDS IngestLoop

CONSTANTS j1, j2, j3
=============================================================================
