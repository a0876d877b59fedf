---------------------------- MODULE MCFlowEngine ----------------------------
(* Instances of FlowEngine for TLC.  "Map" is a step, then a gated step      *)
(* beside a map of two children, then their join; "Row" is the same          *)
(* without the gated step, "Pair" two independent steps.                     *)
EXTENDS FlowEngine, TLC

CONSTANTS e1, e2

OneEngine  == {e1}
TwoEngines == {e1, e2}
EngineSymmetry == Permutations(TwoEngines)

MapStepIds == {"a", "b", "m", "m0", "m1", "z"}
MapDeps == ("a" :> {}) @@ ("b" :> {"a"}) @@ ("m" :> {"a"}) @@ ("m0" :> {"a"})
           @@ ("m1" :> {"a"}) @@ ("z" :> {"b", "m"})
MapKids == ("m" :> {"m0", "m1"})

RowIds  == MapStepIds \ {"b"}
RowDeps == [s \in RowIds |-> IF s = "z" THEN {"m"} ELSE MapDeps[s]]

PairIds  == {"a", "b"}
PairDeps == ("a" :> {}) @@ ("b" :> {})

NoKids == [p \in {} |-> {}]
NoRetries == [s \in Steps |-> 0]
FirstRetries == [s \in Steps |-> IF s = "a" THEN 1 ELSE 0]
=============================================================================
