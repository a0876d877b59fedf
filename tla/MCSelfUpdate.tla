---------------------------- MODULE MCSelfUpdate ----------------------------
(* Instances of SelfUpdate for TLC: two updaters, releases 1 to 4.  One     *)
(* updater is forced and has no key, the other has one; the third release   *)
(* is a dev build and the fourth unsigned.                                  *)
EXTENDS SelfUpdate
=============================================================================
