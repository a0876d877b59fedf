----------------------------- MODULE MCWarmPool -----------------------------
(* An instance of WarmPool for TLC: two images, two jobs at a time.  The     *)
(* run checks liveness too, so no symmetry is declared.                      *)
EXTENDS WarmPool
=============================================================================
