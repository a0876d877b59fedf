----------------------------- MODULE MCRunQueue -----------------------------
(* Instances of RunQueue for TLC: one or two executors with a permit and a  *)
(* Docker host each.                                                        *)
EXTENDS RunQueue, TLC

CONSTANTS s1, s2, e1, e2, d1, d2, none

OneSlot  == {s1}
TwoSlots == {s1, s2}
OneExec  == {e1}
TwoExecs == {e1, e2}

OneSlotOf   == (s1 :> e1)
SplitSlots  == (s1 :> e1) @@ (s2 :> e2)

OneDocker   == (e1 :> d1)
TwoDockers  == (e1 :> d1) @@ (e2 :> d2)

\* Run 2's runtime is served by the second executor only.
SplitCaps == (e1 :> {1}) @@ (e2 :> {1, 2})
AllCaps   == [e \in Executors |-> Runs]
\* Nobody serves run 2.
FirstOnly == [e \in Executors |-> {1}]
=============================================================================
