---------------------------- MODULE RunLifecycle ----------------------------
(***************************************************************************)
(* What the run queue promises whoever submitted a run, and nothing of how *)
(* it keeps the promise: a run is open until it gets its one conclusion.   *)
(* A success stays one until retention deletes the run; an exit code may   *)
(* be canceled over, but the run is never tried again; a cancel that hit   *)
(* the run while it was queued or running is the end of it.                *)
(* RunQueue implements this with the refinement mapping Life.              *)
(***************************************************************************)
CONSTANT Runs
VARIABLE life

Init == life = [r \in Runs |-> "none"]

Move(r, was, is) == life[r] \in was /\ life' = [life EXCEPT ![r] = is]

Submit(r) == Move(r, {"none"}, "open")
Succeed(r) == Move(r, {"open"}, "ok")
Conclude(r) == Move(r, {"open"}, "verdict")
Cancel(r) == Move(r, {"open", "verdict"}, "canceled")
\* Retention deletes any number of runs at once.
Expunge ==
    /\ DOMAIN life' = Runs
    /\ \A r \in Runs : life'[r] = life[r] \/ (life[r] # "none" /\ life'[r] = "gone")

Next ==
    \/ Expunge
    \/ \E r \in Runs : Submit(r) \/ Succeed(r) \/ Conclude(r) \/ Cancel(r)

Spec == Init /\ [][Next]_life
=============================================================================
