---------------------------- MODULE MCProvenance ----------------------------
(* An instance of Provenance for TLC: two requests and two texts of the     *)
(* script, each pair interchangeable.                                       *)
EXTENDS Provenance, TLC

CONSTANTS A, B, q1, q2

TwoRequests == {q1, q2}
TwoSources == {A, B}
Alike == {p @@ q : p \in Permutations(TwoSources), q \in Permutations(TwoRequests)}
=============================================================================
