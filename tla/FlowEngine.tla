----------------------------- MODULE FlowEngine -----------------------------
(***************************************************************************)
(* One flow_run under the flow engine of flow.rs: the flow_runs row and    *)
(* its flow_steps ledger (db.rs), the drivers that claim and drive it, the *)
(* run_step task each driver spawns per step, the saga rollback, and the   *)
(* run rows these create, which the worker's claim_run sees like any other *)
(* pending run.                                                            *)
(*                                                                         *)
(* One SQL statement is one atomic step, except that a read of a run's     *)
(* status is joined with the ledger write that follows it (no other        *)
(* process writes that ledger row, and a crash between the two leaves what *)
(* a crash before both leaves).  The value a `when` gate or a `map` ref    *)
(* resolves to, and a job's outcome, are nondeterministic.                 *)
(***************************************************************************)
EXTENDS Integers, FiniteSets, FiniteSetsExt

CONSTANTS
    Engines,        \* flow engines; one drives this flow_run at most once at a
                    \* time (a second driver is another member, same process or not)
    Steps,          \* step ids of the flow, map children included
    DependsOn,      \* step -> the steps it depends on (an acyclic graph)
    Kids,           \* map step -> its children <id>#<i>
    Gated,          \* steps with a `when` condition
    Compensable,    \* steps with a `compensate` script
    Cached,         \* steps that opted into the cache
    Retries,        \* step -> its retry budget (attempts = retries + 1)
    Served,         \* steps whose runtime some worker's caps include
    Runs,           \* bound: run rows this flow_run may create
    MAX_ATTEMPTS,   \* worker.rs: the worker's own tries of a run
    MaxCrashes, MaxLapses, MaxFaults    \* bounds on faults

MapSteps == DOMAIN Kids
Children == UNION {Kids[p] : p \in MapSteps}

ASSUME StepsAssumption ==
    /\ DependsOn \in [Steps -> SUBSET Steps]
    /\ MapSteps \subseteq Steps /\ \A p \in MapSteps : Kids[p] \subseteq Steps
    /\ \A p \in MapSteps : Kids[p] # {} /\ \A c \in Kids[p] : DependsOn[c] = DependsOn[p]
    /\ \A p, q \in MapSteps : p # q => Kids[p] \cap Kids[q] = {}
    /\ MapSteps \cap Children = {}  \* a child row carries no map and no gate
    /\ Gated \subseteq Steps \ Children /\ Cached \subseteq Steps /\ Served \subseteq Steps
    /\ Compensable \subseteq Steps \ Children
    /\ Retries \in [Steps -> Nat]
ASSUME RunsAssumption == Runs \subseteq Nat \ {0}
ASSUME BoundsAssumption ==
    /\ MAX_ATTEMPTS \in Nat
    /\ MaxCrashes \in Nat /\ MaxLapses \in Nat /\ MaxFaults \in Nat

VARIABLES
    flow, lease,    \* the flow_runs row: status, and started_at against the lease
    step_status, finished_at, compensated,  \* flow_steps
    clock,          \* the last finished_at stamped, for the database's now()
    run_status, run_step, worker, tries,    \* run rows and the worker on each
    up, dpc, todo, comp_failed, \* engines and their drivers
    tpc, run_id, attempt,       \* the task of each driver and step
    execs,      \* history: containers the engines started per step
    undone,     \* history: steps whose compensation a driver saw succeed
    budget

flowVars == <<flow, lease>>
ledger == <<step_status, finished_at, compensated, clock>>
rows == <<run_status, run_step, worker, tries>>
drivers == <<dpc, todo, comp_failed>>
tasks == <<tpc, run_id, attempt>>
history == <<execs, undone>>
vars == <<flowVars, ledger, rows, up, drivers, tasks, history, budget>>

NoRun == 0
NoWork == <<"none", "none">>
Done == {"succeeded", "skipped"}
Busy(e, s) == tpc[<<e, s>>] # "idle"

Spend(fault) == /\ budget[fault] > 0
                /\ budget' = [budget EXCEPT ![fault] = @ - 1]

Init ==
    /\ flow = "absent" /\ lease = "fresh"
    /\ step_status = [s \in Steps |-> "none"]
    /\ finished_at = [s \in Steps |-> 0]
    /\ compensated = {} /\ clock = 0
    /\ run_status = [r \in Runs |-> "absent"]
    /\ run_step = [r \in Runs |-> NoWork]
    /\ worker = [r \in Runs |-> "idle"]
    /\ tries = [r \in Runs |-> 0]
    /\ up = Engines
    /\ dpc = [e \in Engines |-> "idle"]
    /\ todo = [e \in Engines |-> {}]
    /\ comp_failed = [e \in Engines |-> FALSE]
    /\ tpc = [t \in Engines \X Steps |-> "idle"]
    /\ run_id = [t \in Engines \X Steps |-> NoRun]
    /\ attempt = [t \in Engines \X Steps |-> 0]
    /\ execs = [s \in Steps |-> 0] /\ undone = {}
    /\ budget = [f \in {"crash", "lapse", "fault"} |->
                   CASE f = "crash" -> MaxCrashes
                     [] f = "lapse" -> MaxLapses
                     [] f = "fault" -> MaxFaults]

\* One transaction: the flow_run and a pending ledger row per step of the spec.
insert_flow_run ==
    /\ flow = "absent"
    /\ flow' = "pending"
    /\ step_status' = [s \in Steps |-> IF s \in Children THEN "none" ELSE "pending"]
    /\ UNCHANGED <<lease, finished_at, compensated, clock, rows, up, drivers, tasks,
                   history, budget>>

-----------------------------------------------------------------------------
(* Ledger and queue statements the driver and its tasks use.               *)

\* finished_at is kept for the steps compensation will order by it; stamps of
\* different statements differ.
finish_step(s, st) ==
    /\ step_status' = [step_status EXCEPT ![s] = st]
    /\ IF s \in Compensable
       THEN clock' = clock + 1 /\ finished_at' = [finished_at EXCEPT ![s] = clock + 1]
       ELSE UNCHANGED <<clock, finished_at>>
    /\ UNCHANGED compensated

\* insert_run: the next row, pending; nothing marks it as being executed here.
\* `what` is the work the row stands for: <<"go", step>> or <<"undo", step>>.
insert_run(r, what) ==
    /\ run_status[r] = "absent" /\ \A q \in Runs : q < r => run_status[q] # "absent"
    /\ run_status' = [run_status EXCEPT ![r] = "pending"]
    /\ run_step' = [run_step EXCEPT ![r] = what]
    /\ UNCHANGED <<worker, tries>>

Outcomes == {"succeeded", "failed", "errored"}  \* exit 0, nonzero, NULL exit

-----------------------------------------------------------------------------
(* The driver.                                                             *)

\* Mutation of claim_flow_run: a running flow is claimed as well.
claim_flow_run_running(e) ==
    /\ e \in up /\ dpc[e] = "idle" /\ flow \in {"pending", "running"}
    /\ flow' = "running" /\ lease' = "fresh"
    /\ dpc' = [dpc EXCEPT ![e] = "read"]
    /\ comp_failed' = [comp_failed EXCEPT ![e] = FALSE]
    /\ UNCHANGED <<ledger, rows, up, todo, tasks, history, budget>>

claim_flow_run(e) ==
    /\ e \in up /\ dpc[e] = "idle" /\ flow = "pending"
    /\ flow' = "running" /\ lease' = "fresh"
    /\ dpc' = [dpc EXCEPT ![e] = "read"]
    /\ comp_failed' = [comp_failed EXCEPT ![e] = FALSE]
    /\ UNCHANGED <<ledger, rows, up, todo, tasks, history, budget>>

\* Mutations of Actionable: a started dependency is enough; a skipped one is
\* waited for.
Actionable_started(s) ==
    step_status[s] = "pending" /\ \A d \in DependsOn[s] : step_status[d] # "pending"
Actionable_no_skipped(s) ==
    step_status[s] = "pending" /\ \A d \in DependsOn[s] : step_status[d] = "succeeded"

Actionable(s) ==
    step_status[s] = "pending" /\ \A d \in DependsOn[s] : step_status[d] \in Done

DeadBranch(s) == \E d \in DependsOn[s] : step_status[d] = "skipped"

\* Mutation of Joinable: the parent joins when some child is done.
Joinable_any(p) == step_status[p] = "expanded" /\ \E c \in Kids[p] : step_status[c] \in Done

\* aggregate_children: every child finished.  A failed child is caught by the
\* driver's failure test on the same read, so the join itself always succeeds.
Joinable(p) == step_status[p] = "expanded" /\ \A c \in Kids[p] : step_status[c] \in Done

\* Mutation of Unfinished: a step a dead engine left running does not count.
Unfinished_no_running == {s \in Steps : step_status[s] \in {"pending", "expanded"}}

Unfinished == {s \in Steps : step_status[s] \in {"pending", "running", "expanded"}}

\* What a pass finds to do: roll back, end, join finished maps, or resolve the
\* pending steps whose dependencies are done (nothing of these: poll again).
Phase == IF \E s \in Steps : step_status[s] = "failed" THEN "compensate"
         ELSE IF Unfinished = {} THEN "finish" ELSE "resolve"
Undo == {<<"undo", s>> : s \in {t \in Compensable \ compensated : step_status[t] = "succeeded"}}
Joins == {<<"join", p>> : p \in {q \in MapSteps : Joinable(q)}}
Resolutions ==
    {<<IF DeadBranch(s) THEN "skip" ELSE "go", s>> : s \in {t \in Steps : Actionable(t)}}

\* One pass of drive_inner starts: beat, read the ledger, decide what to do.
drive_pass(e) ==
    /\ dpc[e] = "read"
    /\ lease' = "fresh"
    /\ dpc' = [dpc EXCEPT ![e] = Phase]
    /\ todo' = [todo EXCEPT ![e] = IF Phase = "compensate" THEN Undo
                                   ELSE IF Phase = "finish" THEN {}
                                   ELSE IF Joins # {} THEN Joins ELSE Resolutions]
    /\ UNCHANGED <<flow, ledger, rows, up, comp_failed, tasks, history, budget>>

\* expand: a fan-out into children (kept if they exist), an empty array, or no
\* array, or one past MAX_MAP_FANOUT.
expand(s) ==
    \/ /\ step_status' = [t \in Steps |->
             IF t = s THEN "expanded"
             ELSE IF t \in Kids[s] /\ step_status[t] = "none" THEN "pending"
             ELSE step_status[t]]
       /\ UNCHANGED <<finished_at, compensated, clock>>
    \/ finish_step(s, "succeeded")
    \/ finish_step(s, "failed")

\* The pass works through what it found: a join or a skip is written, a gate may
\* skip its step, a map expands, a plain step joins the batch.  A write that
\* fails is ignored and left to the next pass.
resolve(e) ==
    /\ dpc[e] = "resolve"
    /\ \E w \in todo[e] : LET s == w[2] IN
        /\ todo' = [todo EXCEPT ![e] = @ \ {w}]
        /\ \/ /\ \/ w[1] = "join" /\ finish_step(s, "succeeded")
                 \/ w[1] = "skip" /\ finish_step(s, "skipped")
                 \/ w[1] = "go" /\ s \in Gated /\ finish_step(s, "skipped")
                 \/ w[1] = "go" /\ s \in MapSteps /\ expand(s)
              /\ UNCHANGED <<tpc, budget>>
           \/ /\ w[1] = "go" /\ s \notin MapSteps
              /\ tpc' = [tpc EXCEPT ![<<e, s>>] = "queued"]
              /\ UNCHANGED <<ledger, budget>>
           \/ /\ w[1] # "go" \/ s \in Gated \cup MapSteps
              /\ Spend("fault")
              /\ UNCHANGED <<ledger, tpc>>
    /\ UNCHANGED <<flowVars, rows, up, dpc, comp_failed, run_id, attempt, history>>

\* The batch runs; the driver awaits every handle, then starts the next pass.
spawn_batch(e) ==
    /\ dpc[e] = "resolve" /\ todo[e] = {}
    /\ dpc' = [dpc EXCEPT ![e] = IF \E s \in Steps : Busy(e, s) THEN "wait" ELSE "read"]
    /\ UNCHANGED <<flowVars, ledger, rows, up, todo, comp_failed, tasks, history, budget>>

\* Mutation of batch_done: the first handle to return ends the wait.
batch_done_first(e) ==
    /\ dpc[e] = "wait" /\ \E s \in Steps : ~Busy(e, s) /\ step_status[s] \in {"succeeded", "failed"}
    /\ dpc' = [dpc EXCEPT ![e] = "read"]
    /\ UNCHANGED <<flowVars, ledger, rows, up, todo, comp_failed, tasks, history, budget>>

batch_done(e) ==
    /\ dpc[e] = "wait" /\ \A s \in Steps : ~Busy(e, s)
    /\ dpc' = [dpc EXCEPT ![e] = "read"]
    /\ UNCHANGED <<flowVars, ledger, rows, up, todo, comp_failed, tasks, history, budget>>

\* What finish_flow_run writes once nothing is left to do or to roll back.
Unwound(e) == dpc[e] = "compensate" /\ todo[e] = {} /\ \A s \in Steps : ~Busy(e, s)

finish_flow_run(e) ==
    /\ \/ dpc[e] = "finish" /\ flow' = "succeeded"
       \/ Unwound(e) /\ flow' = IF comp_failed[e] THEN "compensation_failed" ELSE "failed"
    /\ dpc' = [dpc EXCEPT ![e] = "idle"]
    /\ UNCHANGED <<lease, ledger, rows, up, todo, comp_failed, tasks, history, budget>>

\* A statement of drive_inner fails: start() tries to write `failed`, moves on.
drive_err(e) ==
    /\ dpc[e] \in {"read", "finish"} \/ Unwound(e)
    /\ Spend("fault")
    /\ flow' \in {"failed", flow}
    /\ dpc' = [dpc EXCEPT ![e] = "idle"]
    /\ UNCHANGED <<lease, ledger, rows, up, todo, comp_failed, tasks, history>>

-----------------------------------------------------------------------------
(* run_step: one task per step of the batch.                               *)

End(e, s) == /\ tpc' = [tpc EXCEPT ![<<e, s>>] = "idle"]
             /\ run_id' = [run_id EXCEPT ![<<e, s>>] = NoRun]
             /\ attempt' = [attempt EXCEPT ![<<e, s>>] = 0]

\* The script is gone or its runtime unknown, insert_run fails, or the cache
\* has the answer: the step ends without a run of this task.
run_step_short(e, s) ==
    /\ dpc[e] = "wait" /\ tpc[<<e, s>>] = "queued"
    /\ \/ Spend("fault") /\ finish_step(s, "failed")
       \/ s \in Cached /\ attempt[<<e, s>>] = 0 /\ finish_step(s, "succeeded") /\ UNCHANGED budget
    /\ End(e, s)
    /\ UNCHANGED <<flowVars, rows, up, drivers, history>>

\* Mutation of run_step_insert: the attempts are counted down.
run_step_insert_down(e, s) ==
    /\ dpc[e] = "wait" /\ tpc[<<e, s>>] = "queued"
    /\ \E r \in Runs : insert_run(r, <<"go", s>>) /\ run_id' = [run_id EXCEPT ![<<e, s>>] = r]
    /\ attempt' = [attempt EXCEPT ![<<e, s>>] = @ - 1]
    /\ tpc' = [tpc EXCEPT ![<<e, s>>] = "inserted"]
    /\ UNCHANGED <<flowVars, ledger, up, drivers, history, budget>>

run_step_insert(e, s) ==
    /\ dpc[e] = "wait" /\ tpc[<<e, s>>] = "queued"
    /\ \E r \in Runs : insert_run(r, <<"go", s>>) /\ run_id' = [run_id EXCEPT ![<<e, s>>] = r]
    /\ attempt' = [attempt EXCEPT ![<<e, s>>] = @ + 1]
    /\ tpc' = [tpc EXCEPT ![<<e, s>>] = "inserted"]
    /\ UNCHANGED <<flowVars, ledger, up, drivers, history, budget>>

\* set_step_running (a failing one is ignored), then the container starts.
set_step_running(e, s) ==
    /\ tpc[<<e, s>>] = "inserted"
    /\ \/ step_status' = [step_status EXCEPT ![s] = "running"] /\ UNCHANGED budget
       \/ Spend("fault") /\ UNCHANGED step_status
    /\ tpc' = [tpc EXCEPT ![<<e, s>>] = "exec"]
    /\ execs' = [execs EXCEPT ![s] = @ + 1]
    /\ UNCHANGED <<flowVars, finished_at, compensated, clock, rows, up, drivers, run_id, attempt,
                   undone>>

\* exec.run ends: finish_run on the row, whatever its status; when that keeps
\* failing the row stays as it is.
exec_run(e, s) ==
    /\ tpc[<<e, s>>] \in {"exec", "undo"}
    /\ \/ /\ \E v \in Outcomes : run_status' = [run_status EXCEPT ![run_id[<<e, s>>]] = v]
          /\ UNCHANGED budget
       \/ Spend("fault") /\ UNCHANGED run_status
    /\ tpc' = [tpc EXCEPT ![<<e, s>>] = IF @ = "exec" THEN "ran" ELSE "undone"]
    /\ UNCHANGED <<flowVars, ledger, run_step, worker, tries, up, drivers, run_id, attempt,
                   history>>

\* Mutation of Spent: one attempt too many.
Spent_one_more(e, s) == attempt[<<e, s>>] > Retries[s] + 1

Spent(e, s) == attempt[<<e, s>>] >= Retries[s] + 1

\* A statement may fail: the read of the run's status, or the ledger write.
Faulty(f) == IF f = "none" THEN UNCHANGED budget ELSE Spend("fault")

\* The row decides: succeeded, another attempt, or exhausted retries.  A status
\* that cannot be read counts as failed; a failing finish_step is ignored.
run_step_end(e, s) ==
    /\ tpc[<<e, s>>] = "ran"
    /\ \E f \in {"none", "read", "write"} :
        LET ok == f # "read" /\ run_status[run_id[<<e, s>>]] = "succeeded" IN
        /\ Faulty(f)
        /\ \/ /\ f # "write" /\ ~ok /\ ~Spent(e, s)
              /\ tpc' = [tpc EXCEPT ![<<e, s>>] = "queued"]
              /\ UNCHANGED <<ledger, run_id, attempt>>
           \/ /\ ok \/ Spent(e, s)
              /\ IF f = "write" THEN UNCHANGED ledger
                 ELSE finish_step(s, IF ok THEN "succeeded" ELSE "failed")
              /\ End(e, s)
    /\ UNCHANGED <<flowVars, rows, up, drivers, history>>

-----------------------------------------------------------------------------
(* compensate: the saga rollback, one step at a time, latest finished first. *)

\* Mutation of Latest: oldest first.
Latest_oldest(e, s) == \A w \in todo[e] : finished_at[s] <= finished_at[w[2]]

Latest(e, s) == \A w \in todo[e] : finished_at[w[2]] <= finished_at[s]

\* The compensation's run row; when the script is gone or the insert fails the
\* step is passed over.
compensate(e, s) ==
    /\ dpc[e] = "compensate" /\ <<"undo", s>> \in todo[e] /\ Latest(e, s)
    /\ \A t \in Steps : ~Busy(e, t)
    /\ todo' = [todo EXCEPT ![e] = @ \ {<<"undo", s>>}]
    /\ \/ /\ \E r \in Runs : insert_run(r, <<"undo", s>>) /\ run_id' = [run_id EXCEPT ![<<e, s>>] = r]
          /\ tpc' = [tpc EXCEPT ![<<e, s>>] = "undo"]
          /\ UNCHANGED budget
       \/ Spend("fault") /\ UNCHANGED <<rows, tpc, run_id>>
    /\ UNCHANGED <<flowVars, ledger, up, dpc, comp_failed, attempt, history>>

\* Mutation of Marked: a failed compensation is not recorded.
Marked_ok_only(s, ok) == IF ok THEN compensated \cup {s} ELSE compensated

Marked(s, ok) == compensated \cup {s}

\* Mutation of mark_step_compensated: a failed compensation is not counted.
mark_step_compensated_silent(e, s) ==
    /\ tpc[<<e, s>>] = "undone"
    /\ \E f \in {"none", "read", "write"} :
        LET ok == f # "read" /\ run_status[run_id[<<e, s>>]] = "succeeded" IN
        /\ Faulty(f)
        /\ compensated' = IF f = "write" THEN compensated ELSE Marked(s, ok)
        /\ undone' = IF ok THEN undone \cup {s} ELSE undone
    /\ End(e, s)
    /\ UNCHANGED <<flowVars, step_status, finished_at, clock, rows, up, drivers, execs>>

\* run_status tells whether the compensation worked; the step is marked
\* compensated either way, and only the driver remembers a failure.
mark_step_compensated(e, s) ==
    /\ tpc[<<e, s>>] = "undone"
    /\ \E f \in {"none", "read", "write"} :
        LET ok == f # "read" /\ run_status[run_id[<<e, s>>]] = "succeeded" IN
        /\ Faulty(f)
        /\ compensated' = IF f = "write" THEN compensated ELSE Marked(s, ok)
        /\ comp_failed' = [comp_failed EXCEPT ![e] = @ \/ ~ok]
        /\ undone' = IF ok THEN undone \cup {s} ELSE undone
    /\ End(e, s)
    /\ UNCHANGED <<flowVars, step_status, finished_at, clock, rows, up, dpc, todo, execs>>

-----------------------------------------------------------------------------
(* The worker, as far as these rows go (RunQueue has it in full).          *)

worker_claim(r) ==
    /\ run_status[r] = "pending" /\ worker[r] = "idle" /\ run_step[r][2] \in Served
    /\ run_status' = [run_status EXCEPT ![r] = "running"]
    /\ worker' = [worker EXCEPT ![r] = "exec"]
    /\ tries' = [tries EXCEPT ![r] = @ + 1]
    /\ UNCHANGED <<flowVars, ledger, run_step, up, drivers, tasks, history, budget>>

worker_run(r) ==
    /\ worker[r] = "exec"
    /\ \E v \in Outcomes : run_status' = [run_status EXCEPT ![r] = v]
    /\ worker' = [worker EXCEPT ![r] = "decide"]
    /\ UNCHANGED <<flowVars, ledger, run_step, tries, up, drivers, tasks, history, budget>>

worker_decide(r) ==
    /\ worker[r] = "decide"
    /\ worker' = [worker EXCEPT ![r] = "idle"]
    /\ run_status' = IF run_status[r] = "errored" /\ tries[r] < MAX_ATTEMPTS
                     THEN [run_status EXCEPT ![r] = "pending"] ELSE run_status
    /\ UNCHANGED <<flowVars, ledger, run_step, tries, up, drivers, tasks, history, budget>>

-----------------------------------------------------------------------------
(* Leases, crashes, restarts.                                              *)

\* FLOW_LEASE_SECS without a beat: nobody beats once the driver's process is
\* dead; a live driver's beats must fail for a whole lease.
lease_expires ==
    /\ flow = "running" /\ lease = "fresh"
    /\ lease' = "stale"
    /\ IF \E e \in Engines : dpc[e] # "idle" THEN Spend("lapse") ELSE UNCHANGED budget
    /\ UNCHANGED <<flow, ledger, rows, up, drivers, tasks, history>>

\* spawn_heartbeat: touch_flow_run on an interval, as long as drive() runs.
touch_flow_run(e) ==
    /\ dpc[e] # "idle" /\ lease = "stale"
    /\ lease' = "fresh"
    /\ UNCHANGED <<flow, ledger, rows, up, drivers, tasks, history, budget>>

reap_orphan_flow_runs ==
    /\ up # {} /\ flow = "running" /\ lease = "stale"
    /\ flow' = "pending"
    /\ UNCHANGED <<lease, ledger, rows, up, drivers, tasks, history, budget>>

crash(e) ==
    /\ e \in up /\ Spend("crash")
    /\ up' = up \ {e}
    /\ dpc' = [dpc EXCEPT ![e] = "idle"]
    /\ todo' = [todo EXCEPT ![e] = {}]
    /\ comp_failed' = [comp_failed EXCEPT ![e] = FALSE]
    /\ tpc' = [t \in Engines \X Steps |-> IF t[1] = e THEN "idle" ELSE tpc[t]]
    /\ run_id' = [t \in Engines \X Steps |-> IF t[1] = e THEN NoRun ELSE run_id[t]]
    /\ attempt' = [t \in Engines \X Steps |-> IF t[1] = e THEN 0 ELSE attempt[t]]
    /\ UNCHANGED <<flowVars, ledger, rows, history>>

restart(e) ==
    /\ e \in Engines \ up
    /\ up' = up \cup {e}
    /\ UNCHANGED <<flowVars, ledger, rows, drivers, tasks, history, budget>>

-----------------------------------------------------------------------------
Driver(e) == \/ claim_flow_run(e) \/ drive_pass(e) \/ resolve(e) \/ spawn_batch(e)
             \/ batch_done(e) \/ finish_flow_run(e) \/ drive_err(e)

Task(e, s) == \/ run_step_short(e, s) \/ run_step_insert(e, s) \/ set_step_running(e, s)
              \/ exec_run(e, s) \/ run_step_end(e, s)
              \/ compensate(e, s) \/ mark_step_compensated(e, s)

Worker(r) == worker_claim(r) \/ worker_run(r) \/ worker_decide(r)

Next ==
    \/ insert_flow_run
    \/ \E e \in Engines : Driver(e)
    \/ \E e \in Engines, s \in Steps : Task(e, s)
    \/ \E r \in Runs : Worker(r)
    \/ lease_expires \/ reap_orphan_flow_runs
    \/ \E e \in Engines : touch_flow_run(e) \/ crash(e) \/ restart(e)

Spec == Init /\ [][Next]_vars

\* tokio polls every live task, the reaper ticks for ever, a dead process is
\* started again and the clock advances; faults and enqueues are not fair.
Fairness ==
    /\ \A e \in Engines : WF_vars(Driver(e)) /\ WF_vars(restart(e))
    /\ \A e \in Engines, s \in Steps : WF_vars(Task(e, s))
    /\ \A r \in Runs : WF_vars(Worker(r))
    /\ WF_vars(reap_orphan_flow_runs)
    /\ WF_vars(lease_expires /\ \A e \in Engines : dpc[e] = "idle")

FairSpec == Spec /\ Fairness

-----------------------------------------------------------------------------
(* Properties.                                                             *)

StepStatuses == {"none", "pending", "running", "expanded", "succeeded", "failed", "skipped"}
Ended == {"succeeded", "failed", "compensation_failed"}
Work == ({"join", "skip", "go", "undo"} \X Steps)

FlowOK ==
    /\ flow \in {"absent", "pending", "running"} \cup Ended
    /\ lease \in {"fresh", "stale"}
    /\ up \subseteq Engines
    /\ budget \in [{"crash", "lapse", "fault"} -> Nat]

LedgerOK ==
    /\ step_status \in [Steps -> StepStatuses]
    /\ finished_at \in [Steps -> Nat] /\ clock \in Nat
    /\ compensated \subseteq Steps

RowsOK ==
    /\ run_status \in [Runs -> {"absent", "pending", "running"} \cup Outcomes]
    /\ run_step \in [Runs -> Work \cup {NoWork}]
    /\ worker \in [Runs -> {"idle", "exec", "decide"}]
    /\ tries \in [Runs -> Nat]
    /\ execs \in [Steps -> Nat] /\ undone \subseteq Steps

DriversOK ==
    /\ dpc \in [Engines -> {"idle", "read", "resolve", "wait", "compensate", "finish"}]
    /\ todo \in [Engines -> SUBSET Work]
    /\ comp_failed \in [Engines -> BOOLEAN]

TasksOK ==
    /\ tpc \in [Engines \X Steps ->
                  {"idle", "queued", "inserted", "exec", "ran", "undo", "undone"}]
    /\ run_id \in [Engines \X Steps -> Runs \cup {NoRun}]
    /\ attempt \in [Engines \X Steps -> Nat]

\* Every variable stays in its type.
TypeOK == FlowOK /\ LedgerOK /\ RowsOK /\ DriversOK /\ TasksOK

\* db.rs, reap_orphan_flow_runs: a healthy engine's flow is never reclaimed out
\* from under it, so a flow_run never has two drivers.
DriverExclusive == \A e, f \in Engines : dpc[e] # "idle" /\ dpc[f] # "idle" => e = f

\* flow.rs: a step starts only once all its dependencies succeeded, and these
\* stay succeeded: across parallel batches, map expansion, crashes and resumes.
DependenciesFirst ==
    \A s \in Steps : step_status[s] \in {"running", "expanded", "succeeded", "failed"} =>
        \A d \in DependsOn[s] : step_status[d] = "succeeded"

\* flow.rs, aggregate_children: a map step that fanned out succeeds only after
\* every child did, so no dependent sees a partial array.
JoinComplete ==
    \A p \in MapSteps : step_status[p] = "succeeded" =>
        \A c \in Kids[p] : step_status[c] \in {"none", "succeeded"}

\* A flow reported succeeded has every step of its spec succeeded or skipped.
SuccessComplete ==
    flow = "succeeded" => \A s \in Steps \ Children : step_status[s] \in Done

\* flow.rs, drive_inner: the driver awaits every handle of a batch before it acts
\* on a failure, and an ended flow_run is neither reaped nor claimed: the outcome
\* and the ledger of a flow that has ended, its rollback marks included, are never
\* written again.  (What is final is the record: a worker that claimed a step's
\* run row, see RetryBudget, may still be executing it.)
EndedIsFinal ==
    [][(flow \in Ended) => UNCHANGED <<flow, step_status, finished_at, compensated>>]_vars

\* Statements that failed so far; no driver has met a failing database.
FaultsMet == MaxFaults - budget["fault"]
LedgerReachable == FaultsMet = 0

\* flow.rs, compensate: rollback goes in reverse completion order: when a step
\* has been compensated, so has every compensable step that finished after it
\* (a rollback whose reads fail is cut short).
UnwoundInReverse ==
    LedgerReachable => \A s, t \in Compensable :
        /\ s \in compensated /\ step_status[t] = "succeeded"
        /\ finished_at[t] > finished_at[s]
        => t \in compensated

\* flow.rs, compensate: when a flow ends failed, the compensation of every
\* succeeded step that has one was run and marked, also when the driver died in
\* between and a second one finished the rollback.  Marked is not undone: a
\* compensation that failed is marked as well, and not run again.
RollbackAttempted ==
    flow \in {"failed", "compensation_failed"} /\ LedgerReachable =>
        \A s \in Compensable : step_status[s] = "succeeded" => s \in compensated

\* flow.rs, drive_inner: "If a rollback step itself failed, the saga didn't fully
\* unwind - surface it as a distinct terminal status rather than a plain failed":
\* a flow that ends plain `failed` has every succeeded step undone.  The code does
\* not keep this promise across a crash: TLC refutes it, see README.md, section 3.
RollbackSurfaced ==
    flow = "failed" => \A s \in Compensable : step_status[s] = "succeeded" => s \in undone

\* The same while the failure count, which only the driver's memory holds, is not
\* lost in a crash and the database answers.
RollbackHonest == LedgerReachable /\ budget["crash"] = MaxCrashes => RollbackSurfaced

\* migrations.sql: attempts = retries + 1, and a step with 0 retries must never
\* re-run: at most retries + 1 containers are ever started for a step, by an engine
\* or by a worker (each claim of the step's run rows starts one).
RetryBudget ==
    \A s \in Steps :
        LET claims == MapThenSumSet(LAMBDA r : tries[r], {r \in Runs : run_step[r] = <<"go", s>>})
        IN  execs[s] + claims <= Retries[s] + 1

\* flow.rs, run_step: the engines' own part of that promise.  However drivers die
\* between a step's container and its ledger row and others resume the flow, and
\* whatever workers do to its run rows, the engines start a step at most
\* retries + 1 times, plus once per statement that failed (a step whose
\* set_step_running failed is still pending while its container runs).
EngineBudget == \A s \in Steps : execs[s] <= Retries[s] + 1 + FaultsMet

\* Every flow_run enqueued ends.
EveryFlowSettles == flow = "pending" ~> flow \in Ended
=============================================================================
