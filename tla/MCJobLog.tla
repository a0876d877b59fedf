------------------------------ MODULE MCJobLog ------------------------------
(* Two attempts, chunks of up to two lines, two faults of different kinds. *)
EXTENDS JobLog
=============================================================================
