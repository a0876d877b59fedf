------------------------------ MODULE MCIntake ------------------------------
(* Five workloads, one per behaviour: racing callers with a key, callers at   *)
(* the quota beside a trigger, redelivered webhooks, calls with a file, and a *)
(* schedule with an agent and a file on two daemons.                          *)
EXTENDS Intake

Call(via, agent, key, blob) == [via |-> via, agent |-> agent, key |-> key, blob |-> blob]
Both(x, y) == [p \in Procs |-> IF p = "p" THEN x ELSE IF p = "q" THEN y
                               ELSE Call("none", None, None, None)]

Keyed == Both(Call("run_script", "a", "k", None), Call("run_script", "a", "k", None))
AtQuota == [Both(Call("run_script", "a", None, None), Call("run_script", "a", None, None))
              EXCEPT !["s"] = Call("trigger", "a", None, None)]
Redelivered == Both(Call("webhook", "a", "w", None), Call("webhook", "a", "w", None))
WithFile == Both(Call("run_script", "a", "k", "b"), Call("run_script", "a", None, "b"))
Scheduled == Both(Call("tick", "a", None, "b"), Call("tick", "a", None, "b"))

MCPlans == {Keyed, AtQuota, Redelivered, WithFile, Scheduled}
=============================================================================
