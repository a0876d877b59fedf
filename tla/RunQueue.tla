------------------------------ MODULE RunQueue ------------------------------
(***************************************************************************)
(* The life of a run: the `runs` table as the Postgres queue of db.rs      *)
(* keeps it, the worker loop of worker.rs and the job executor of exec.rs  *)
(* that claim and execute runs, the operator's cancel (mcp.rs, http.rs)    *)
(* and the background sweeps of main.rs.                                   *)
(*                                                                         *)
(* One SQL statement is one atomic step; everything the code does between  *)
(* two statements can be interleaved with every other process.  Wall-clock *)
(* time is abstracted to the comparisons the statements make: a run's      *)
(* created_at, finished_at and heartbeat_at are "recent" or past the one   *)
(* threshold they are compared with.                                       *)
(***************************************************************************)
EXTENDS Integers, FiniteSets

CONSTANTS
    Runs,           \* run ids, allocated in increasing order (bigserial)
    Executors,      \* processes started with worker caps
    Slots,          \* concurrency permits; each belongs to one executor
    NoSlot,         \* "no entry" in an executor's active map
    ExecutorOf,     \* slot -> the executor whose semaphore it belongs to
    DockerOf,       \* executor -> the Docker host it drives
    Serves,         \* executor -> the runs whose runtime is in its caps
    Declared,       \* runs whose script declares its own timeout_secs
    Retention,      \* BOOLEAN: retention_days > 0, so that the retention sweep runs
    MAX_ATTEMPTS,   \* worker.rs: tries the worker grants a NULL-exit failure
    MaxCrashes,     \* bound: executor crashes in one behaviour
    MaxLapses,      \* bound: leases that run out under a live executor
    MaxDbFaults,    \* bound: SQL statements that fail in the worker's path
    MaxSweepFaults  \* bound: start-up sweeps with a failing Docker call

ASSUME RunsAssumption == Runs \subseteq Nat \ {0}
ASSUME SlotsAssumption ==
    /\ NoSlot \notin Slots
    /\ ExecutorOf \in [Slots -> Executors]
    /\ Serves \in [Executors -> SUBSET Runs]
    /\ DOMAIN DockerOf = Executors
ASSUME BoundsAssumption ==
    /\ MAX_ATTEMPTS \in Nat \ {0}
    /\ MaxCrashes \in Nat /\ MaxLapses \in Nat /\ MaxDbFaults \in Nat
    /\ MaxSweepFaults \in Nat /\ Retention \in BOOLEAN
    /\ Declared \subseteq Runs

VARIABLES
    \* the runs table, a column each
    status, attempts, exit_code, error, created_at, finished_at, heartbeat_at,
    \* the worker's tasks, one per permit: where it stands, the run it holds,
    \* the attempt it was told, whether its container was killed
    pc, job, attempt, killed,
    \* the processes: exec.rs `active` (per executor, run -> slot whose container
    \* runs it), the executors that are alive, the job processes that crashes left
    \* behind in containers: <<run, Docker host, slot, which crash>>
    active, up, orphan,
    cancelling, \* cancels between their container kill and their cancel_run
    liveCancel, \* history: runs whose cancel_run hit a pending or running row
    budget      \* faults that may still happen

times == <<created_at, finished_at, heartbeat_at>>
runVars == <<status, attempts, exit_code, error, times>>
taskVars == <<pc, job, attempt, killed>>
procVars == <<active, up, orphan>>
opVars == <<cancelling, liveCancel>>
vars == <<runVars, taskVars, procVars, opVars, budget>>

NoRun == 0
Terminal == {"succeeded", "failed", "canceled"}
Statuses == {"absent", "pending", "running", "gone"} \cup Terminal
Errors == {"null", "timeout", "infra", "unclaimed", "refused", "canceled"}

\* Where a spawned task stands: between claim_run and mark_attempt; before its
\* container; its job running; in run()'s Err branch; outcome recorded; about
\* to read run_outcome; about to read run_error; about to call requeue.
Steps == {"free", "claimed", "marked", "exec", "errpath", "recorded",
          "decide", "errcheck", "requeue"}

Holds(s, r) == job[s] = r
Held(r) == \E s \in Slots : Holds(s, r)
HasJob(s) == pc[s] = "exec" /\ ~killed[s]
Exists(r) == status[r] \notin {"absent", "gone"}

Faults == {"crash", "lapse", "db", "sweep"}
Spend(fault) == /\ budget[fault] > 0
                /\ budget' = [budget EXCEPT ![fault] = @ - 1]

Goto(s, step) == /\ pc' = [pc EXCEPT ![s] = step]
                 /\ UNCHANGED <<job, attempt, killed>>
Free(s) == /\ pc' = [pc EXCEPT ![s] = "free"]
           /\ job' = [job EXCEPT ![s] = NoRun]
           /\ attempt' = [attempt EXCEPT ![s] = 0]
           /\ killed' = [killed EXCEPT ![s] = FALSE]

Init ==
    /\ status = [r \in Runs |-> "absent"]
    /\ attempts = [r \in Runs |-> 0]
    /\ exit_code = [r \in Runs |-> "null"]
    /\ error = [r \in Runs |-> "null"]
    /\ created_at = [r \in Runs |-> "recent"]
    /\ finished_at = [r \in Runs |-> "null"]
    /\ heartbeat_at = [r \in Runs |-> "null"]
    /\ pc = [s \in Slots |-> "free"]
    /\ job = [s \in Slots |-> NoRun]
    /\ attempt = [s \in Slots |-> 0]
    /\ killed = [s \in Slots |-> FALSE]
    /\ active = [e \in Executors |-> [r \in Runs |-> NoSlot]]
    /\ up = Executors
    /\ orphan = {}
    /\ cancelling = {}
    /\ liveCancel = {}
    /\ budget = [f \in Faults |->
                   CASE f = "crash" -> MaxCrashes
                     [] f = "lapse" -> MaxLapses
                     [] f = "db" -> MaxDbFaults
                     [] f = "sweep" -> MaxSweepFaults]

-----------------------------------------------------------------------------
(* Enqueueing.                                                             *)

NextId(r) == /\ status[r] = "absent"
             /\ \A q \in Runs : q < r => status[q] # "absent"

insert_run(r) ==
    /\ NextId(r)
    /\ status' = [status EXCEPT ![r] = "pending"]
    /\ UNCHANGED <<attempts, exit_code, error, times, taskVars, procVars, opVars, budget>>

\* A cron tick refused by quota: a run born failed.
insert_refused_run(r) ==
    /\ NextId(r)
    /\ status' = [status EXCEPT ![r] = "failed"]
    /\ error' = [error EXCEPT ![r] = "refused"]
    /\ finished_at' = [finished_at EXCEPT ![r] = "recent"]
    /\ UNCHANGED <<attempts, exit_code, created_at, heartbeat_at,
                   taskVars, procVars, opVars, budget>>

-----------------------------------------------------------------------------
(* The worker: one task per permit.                                        *)

\* Mutation of Claimable: the claim forgets the status test.
Claimable_any_status(e, r) ==
    status[r] \in {"pending", "running"} /\ r \in Serves[e]

Claimable(e, r) == status[r] = "pending" /\ r \in Serves[e]

\* The oldest pending run whose runtime this executor serves; SKIP LOCKED
\* makes concurrent claims equivalent to some order of whole claims.
claim_run(s) ==
    LET e == ExecutorOf[s] IN
    /\ pc[s] = "free" /\ e \in up
    /\ \E r \in Runs :
        /\ Claimable(e, r)
        /\ \A q \in Runs : Claimable(e, q) => r <= q
        /\ status' = [status EXCEPT ![r] = "running"]
        /\ heartbeat_at' = [heartbeat_at EXCEPT ![r] = "fresh"]
        /\ job' = [job EXCEPT ![s] = r]
    /\ pc' = [pc EXCEPT ![s] = "claimed"]
    /\ UNCHANGED <<attempts, exit_code, error, created_at, finished_at,
                   attempt, killed, procVars, opVars, budget>>

\* Mutation of mark_attempt: the counter runs backwards.
mark_attempt_backwards(s) ==
    /\ pc[s] = "claimed"
    /\ attempts' = [attempts EXCEPT ![job[s]] = @ - 1]
    /\ attempt' = [attempt EXCEPT ![s] = 1]
    /\ pc' = [pc EXCEPT ![s] = "marked"]
    /\ UNCHANGED <<status, exit_code, error, times, job, killed, procVars, opVars, budget>>

\* mark_attempt(..).unwrap_or(1): a failed statement, or a deleted row, counts
\* as the first attempt.
mark_attempt(s) ==
    LET r == job[s] IN
    /\ pc[s] = "claimed"
    /\ pc' = [pc EXCEPT ![s] = "marked"]
    /\ \/ /\ Exists(r)
          /\ attempts' = [attempts EXCEPT ![r] = @ + 1]
          /\ attempt' = [attempt EXCEPT ![s] = attempts[r] + 1]
          /\ UNCHANGED budget
       \/ /\ IF Exists(r) THEN Spend("db") ELSE UNCHANGED budget
          /\ attempt' = [attempt EXCEPT ![s] = 1]
          /\ UNCHANGED attempts
    /\ UNCHANGED <<status, exit_code, error, times, job, killed, procVars, opVars>>

\* run_inner up to exec_job: artifacts, a container, the active entry; or one
\* of these fails and run() takes its Err branch.
start_job(s) ==
    /\ pc[s] = "marked"
    /\ \/ /\ Goto(s, "exec")
          /\ active' = [active EXCEPT ![ExecutorOf[s]] = [@ EXCEPT ![job[s]] = s]]
       \/ /\ Goto(s, "errpath")
          /\ UNCHANGED active
    /\ UNCHANGED <<runVars, up, orphan, opVars, budget>>

\* The four ways exec_job records an outcome itself.
Verdicts == {<<"succeeded", "zero", "null">>, <<"failed", "nonzero", "null">>,
             <<"failed", "null", "timeout">>, <<"failed", "null", "infra">>}

\* Mutation of finish_run: no `status <> 'canceled'` guard.
finish_run_unguarded(r, st, code, err) ==
    /\ status' = [status EXCEPT ![r] = st]
    /\ exit_code' = [exit_code EXCEPT ![r] = code]
    /\ error' = [error EXCEPT ![r] = err]
    /\ finished_at' = [finished_at EXCEPT ![r] = "recent"]
    /\ UNCHANGED <<attempts, created_at, heartbeat_at>>

\* Cancel is authoritative: a canceled (or deleted) row is left alone.
finish_run(r, st, code, err) ==
    IF status[r] \in {"canceled", "gone"} THEN UNCHANGED runVars
    ELSE /\ status' = [status EXCEPT ![r] = st]
         /\ exit_code' = [exit_code EXCEPT ![r] = code]
         /\ error' = [error EXCEPT ![r] = err]
         /\ finished_at' = [finished_at EXCEPT ![r] = "recent"]
         /\ UNCHANGED <<attempts, created_at, heartbeat_at>>

exec_job(s) ==
    /\ pc[s] = "exec"
    /\ \E v \in Verdicts : finish_run(job[s], v[1], v[2], v[3])
    /\ Goto(s, "recorded")
    /\ UNCHANGED <<procVars, opVars, budget>>

\* exec_job returns Err: a Docker or log-stream error before any outcome was
\* written, or the finish_run statement itself failing, with its update
\* applied (the answer was lost) or not.
exec_job_err(s) ==
    /\ pc[s] = "exec"
    /\ Goto(s, "errpath")
    /\ \/ UNCHANGED <<runVars, budget>>
       \/ Spend("db") /\ \E v \in Verdicts : finish_run(job[s], v[1], v[2], v[3])
    /\ UNCHANGED <<procVars, opVars>>

\* run()'s Err branch: record a NULL-exit failure, its own error ignored.
run_err(s) ==
    /\ pc[s] = "errpath"
    /\ Goto(s, "recorded")
    /\ \/ finish_run(job[s], "failed", "null", "infra") /\ UNCHANGED budget
       \/ Spend("db") /\ UNCHANGED runVars
    /\ UNCHANGED <<procVars, opVars>>

\* Mutation of end_run: the active entry is never removed.
end_run_keeping_active(s) ==
    /\ pc[s] = "recorded"
    /\ Goto(s, "decide")
    /\ UNCHANGED <<runVars, procVars, opVars, budget>>

\* The end of run(): active.remove(run_id), whoever put the entry there.
end_run(s) ==
    /\ pc[s] = "recorded"
    /\ active' = [active EXCEPT ![ExecutorOf[s]] = [@ EXCEPT ![job[s]] = NoSlot]]
    /\ Goto(s, "decide")
    /\ UNCHANGED <<runVars, up, orphan, opVars, budget>>

\* Mutations of Retriable: one try too many; one try too few.
Retriable_one_more(s) ==
    /\ status[job[s]] = "failed" /\ exit_code[job[s]] = "null"
    /\ attempt[s] <= MAX_ATTEMPTS
Retriable_one_less(s) ==
    /\ status[job[s]] = "failed" /\ exit_code[job[s]] = "null"
    /\ attempt[s] + 1 < MAX_ATTEMPTS

\* The retry decision reads run_outcome, then (for a declared timeout only)
\* run_error, and finally calls requeue: three statements.
Retriable(s) ==
    /\ status[job[s]] = "failed" /\ exit_code[job[s]] = "null"
    /\ attempt[s] < MAX_ATTEMPTS

run_outcome(s) ==
    /\ pc[s] = "decide"
    /\ \/ /\ Retriable(s)
          /\ Goto(s, IF job[s] \in Declared THEN "errcheck" ELSE "requeue")
          /\ UNCHANGED budget
       \/ ~Retriable(s) /\ Free(s) /\ UNCHANGED budget
       \/ Retriable(s) /\ Free(s) /\ Spend("db")
    /\ UNCHANGED <<runVars, procVars, opVars>>

\* Mutation of run_error: a declared timeout is retried like any other.
run_error_ignored(s) ==
    /\ pc[s] = "errcheck"
    /\ Goto(s, "requeue")
    /\ UNCHANGED <<runVars, procVars, opVars, budget>>

\* An unreadable error (`.ok().flatten()`) reads as "not a timeout".
run_error(s) ==
    /\ pc[s] = "errcheck"
    /\ \/ error[job[s]] = "timeout" /\ Free(s) /\ UNCHANGED budget
       \/ error[job[s]] # "timeout" /\ Goto(s, "requeue") /\ UNCHANGED budget
       \/ error[job[s]] = "timeout" /\ Goto(s, "requeue") /\ Spend("db")
    /\ UNCHANGED <<runVars, procVars, opVars>>

\* The requeue statement has no status guard; a failing one is ignored.
requeue(s) ==
    LET r == job[s] IN
    /\ pc[s] = "requeue"
    /\ \/ /\ Exists(r)
          /\ status' = [status EXCEPT ![r] = "pending"]
          /\ heartbeat_at' = [heartbeat_at EXCEPT ![r] = "null"]
          /\ UNCHANGED budget
       \/ ~Exists(r) /\ UNCHANGED <<status, heartbeat_at, budget>>
       \/ Exists(r) /\ Spend("db") /\ UNCHANGED <<status, heartbeat_at>>
    /\ Free(s)
    /\ UNCHANGED <<attempts, exit_code, error, created_at, finished_at, procVars, opVars>>

\* run()'s heartbeat task, beating from before the container until run() ends.
touch_run(s) ==
    LET r == job[s] IN
    /\ pc[s] \in {"marked", "exec", "errpath", "recorded"}
    /\ status[r] = "running" /\ heartbeat_at[r] # "fresh"
    /\ heartbeat_at' = [heartbeat_at EXCEPT ![r] = "fresh"]
    /\ UNCHANGED <<status, attempts, exit_code, error, created_at, finished_at,
                   taskVars, procVars, opVars, budget>>

-----------------------------------------------------------------------------
(* Cancel: kill the container if this process runs it, then write.         *)

\* The container an executor's active map names for a run dies; a daemon that
\* does not run the job kills nothing.
cancel(r) ==
    /\ Exists(r) /\ r \notin cancelling
    /\ cancelling' = cancelling \cup {r}
    /\ \/ \E e \in up : killed' = [s \in Slots |->
            killed[s] \/ (s = active[e][r] /\ pc[s] = "exec")]
       \/ UNCHANGED killed
    /\ UNCHANGED <<runVars, pc, job, attempt, procVars, liveCancel, budget>>

cancel_run(r) ==
    /\ r \in cancelling
    /\ cancelling' = cancelling \ {r}
    /\ IF status[r] \in {"succeeded", "gone"}
       THEN UNCHANGED <<status, error, finished_at>>
       ELSE /\ status' = [status EXCEPT ![r] = "canceled"]
            /\ error' = [error EXCEPT ![r] = "canceled"]
            /\ finished_at' = [finished_at EXCEPT ![r] = "recent"]
    /\ liveCancel' = IF status[r] \in {"pending", "running"}
                     THEN liveCancel \cup {r} ELSE liveCancel
    /\ UNCHANGED <<attempts, exit_code, created_at, heartbeat_at,
                   taskVars, procVars, budget>>

-----------------------------------------------------------------------------
(* The sweeps every executor runs.                                         *)

\* Mutation of Orphaned: the lease test only looks at rows without a heartbeat.
Orphaned_no_heartbeat(r) == status[r] = "running" /\ heartbeat_at[r] = "null"

Orphaned(r) == status[r] = "running" /\ heartbeat_at[r] = "stale"

reap_orphan_runs ==
    /\ up # {} /\ \E r \in Runs : Orphaned(r)
    /\ status' = [r \in Runs |-> IF Orphaned(r) THEN "pending" ELSE status[r]]
    /\ heartbeat_at' = [r \in Runs |-> IF Orphaned(r) THEN "null" ELSE heartbeat_at[r]]
    /\ UNCHANGED <<attempts, exit_code, error, created_at, finished_at,
                   taskVars, procVars, opVars, budget>>

Unclaimed(r) == status[r] = "pending" /\ created_at[r] = "old"

fail_stale_pending ==
    /\ up # {} /\ \E r \in Runs : Unclaimed(r)
    /\ status' = [r \in Runs |-> IF Unclaimed(r) THEN "failed" ELSE status[r]]
    /\ error' = [r \in Runs |-> IF Unclaimed(r) THEN "unclaimed" ELSE error[r]]
    /\ finished_at' = [r \in Runs |-> IF Unclaimed(r) THEN "recent" ELSE finished_at[r]]
    /\ UNCHANGED <<attempts, exit_code, created_at, heartbeat_at,
                   taskVars, procVars, opVars, budget>>

\* Looks at finished_at only.  A deleted row keeps nothing; its id is never used
\* again.
gc_old ==
    LET Expired(r) == finished_at[r] = "old" IN
    /\ Retention /\ up # {} /\ \E r \in Runs : Expired(r)
    /\ status' = [r \in Runs |-> IF Expired(r) THEN "gone" ELSE status[r]]
    /\ attempts' = [r \in Runs |-> IF Expired(r) THEN 0 ELSE attempts[r]]
    /\ exit_code' = [r \in Runs |-> IF Expired(r) THEN "null" ELSE exit_code[r]]
    /\ error' = [r \in Runs |-> IF Expired(r) THEN "null" ELSE error[r]]
    /\ finished_at' = [r \in Runs |-> IF Expired(r) THEN "null" ELSE finished_at[r]]
    /\ heartbeat_at' = [r \in Runs |-> IF Expired(r) THEN "null" ELSE heartbeat_at[r]]
    /\ UNCHANGED <<created_at, taskVars, procVars, opVars, budget>>

-----------------------------------------------------------------------------
(* Time, crashes and restarts.                                             *)

\* RUN_LEASE_SECS pass without a beat.  Nobody beats for a run no task holds;
\* a held run loses its lease only when beats fail for a whole lease.
lease_expires(r) ==
    /\ status[r] = "running" /\ heartbeat_at[r] = "fresh"
    /\ heartbeat_at' = [heartbeat_at EXCEPT ![r] = "stale"]
    /\ IF Held(r) THEN Spend("lapse") ELSE UNCHANGED budget
    /\ UNCHANGED <<status, attempts, exit_code, error, created_at, finished_at,
                   taskVars, procVars, opVars>>

\* pending_timeout_secs pass since created_at, whatever the run does meanwhile.
pending_timeout_elapses(r) ==
    /\ status[r] \in {"pending", "running"} /\ created_at[r] = "recent"
    /\ created_at' = [created_at EXCEPT ![r] = "old"]
    /\ UNCHANGED <<status, attempts, exit_code, error, finished_at, heartbeat_at,
                   taskVars, procVars, opVars, budget>>

\* retention_days, where there is a retention, pass since finished_at: far beyond every lease and timeout,
\* so no task holds the run, and a run still in the queue has met no executor.
retention_elapses(r) ==
    /\ Retention /\ Exists(r) /\ finished_at[r] = "recent" /\ ~Held(r)
    /\ status[r] \in Terminal \/ up = {}
    /\ finished_at' = [finished_at EXCEPT ![r] = "old"]
    /\ created_at' = [created_at EXCEPT ![r] = "old"]
    /\ heartbeat_at' = [heartbeat_at EXCEPT ![r] = IF @ = "fresh" THEN "stale" ELSE @]
    /\ UNCHANGED <<status, attempts, exit_code, error, taskVars, procVars, opVars, budget>>

\* The process dies; the jobs it had started go on in their containers.
crash(e) ==
    LET Mine(s) == ExecutorOf[s] = e IN
    /\ e \in up /\ Spend("crash")
    /\ up' = up \ {e}
    /\ orphan' = orphan \cup
          {<<job[s], DockerOf[e], s, budget["crash"]>> : s \in {t \in Slots : Mine(t) /\ HasJob(t)}}
    /\ pc' = [s \in Slots |-> IF Mine(s) THEN "free" ELSE pc[s]]
    /\ job' = [s \in Slots |-> IF Mine(s) THEN NoRun ELSE job[s]]
    /\ attempt' = [s \in Slots |-> IF Mine(s) THEN 0 ELSE attempt[s]]
    /\ killed' = [s \in Slots |-> ~Mine(s) /\ killed[s]]
    /\ active' = [active EXCEPT ![e] = [r \in Runs |-> NoSlot]]
    /\ UNCHANGED <<runVars, opVars>>

\* Mutation of restart: the worker starts without sweep_orphans.
restart_without_sweep(e) ==
    /\ e \in Executors \ up
    /\ up' = up \cup {e}
    /\ UNCHANGED <<runVars, taskVars, active, orphan, opVars, budget>>

\* Start-up of an executor: sweep_orphans removes the labelled containers of its
\* Docker host, those of another live executor included, before the worker starts.
\* A failing list_containers removes none of them and a failing removal leaves its
\* container; the worker starts all the same.
restart(e) ==
    LET Listed(o) == o[2] = DockerOf[e]
        Running(s) == pc[s] = "exec" /\ DockerOf[ExecutorOf[s]] = DockerOf[e] IN
    /\ e \in Executors \ up
    /\ up' = up \cup {e}
    /\ \/ /\ orphan' = {o \in orphan : ~Listed(o)}
          /\ killed' = [s \in Slots |-> killed[s] \/ Running(s)]
          /\ UNCHANGED budget
       \/ /\ Spend("sweep")
          /\ \E left \in SUBSET orphan, hit \in SUBSET Slots :
                /\ orphan' = {o \in orphan : Listed(o) => o \in left}
                /\ killed' = [s \in Slots |-> killed[s] \/ (s \in hit /\ Running(s))]
    /\ UNCHANGED <<runVars, pc, job, attempt, active, opVars>>

orphan_exits ==
    /\ \E o \in orphan : orphan' = orphan \ {o}
    /\ UNCHANGED <<runVars, taskVars, active, up, opVars, budget>>

-----------------------------------------------------------------------------
Task_step(s) ==
    \/ mark_attempt(s) \/ start_job(s) \/ exec_job(s) \/ exec_job_err(s)
    \/ run_err(s) \/ end_run(s) \/ run_outcome(s) \/ run_error(s) \/ requeue(s)

Next ==
    \/ \E r \in Runs : insert_run(r)
    \/ \E r \in Runs : insert_refused_run(r)
    \/ \E s \in Slots : claim_run(s)
    \/ \E s \in Slots : Task_step(s)
    \/ \E s \in Slots : touch_run(s)
    \/ \E r \in Runs : cancel(r)
    \/ \E r \in Runs : cancel_run(r)
    \/ reap_orphan_runs \/ fail_stale_pending \/ gc_old
    \/ \E r \in Runs : lease_expires(r)
    \/ \E r \in Runs : pending_timeout_elapses(r)
    \/ \E r \in Runs : retention_elapses(r)
    \/ \E e \in Executors : crash(e)
    \/ \E e \in Executors : restart(e)
    \/ orphan_exits

Spec == Init /\ [][Next]_vars

\* What the code's scheduling justifies: tokio keeps polling a live task, each
\* sweep ticks for ever, clocks advance, and an executor that died is started
\* again.  Enqueues, cancels and faults are not fair.
Fairness ==
    /\ \A s \in Slots : WF_vars(claim_run(s)) /\ WF_vars(Task_step(s))
    /\ WF_vars(reap_orphan_runs) /\ WF_vars(fail_stale_pending)
    /\ \A r \in Runs : /\ WF_vars(lease_expires(r) /\ ~Held(r))
                       /\ WF_vars(pending_timeout_elapses(r))
    /\ \A e \in Executors : WF_vars(restart(e))

FairSpec == Spec /\ Fairness

-----------------------------------------------------------------------------
(* Properties.                                                             *)

RunsOK ==
    /\ status \in [Runs -> Statuses]
    /\ attempts \in [Runs -> Nat]
    /\ exit_code \in [Runs -> {"null", "zero", "nonzero"}]
    /\ error \in [Runs -> Errors]
    /\ created_at \in [Runs -> {"recent", "old"}]
    /\ finished_at \in [Runs -> {"null", "recent", "old"}]
    /\ heartbeat_at \in [Runs -> {"null", "fresh", "stale"}]

TasksOK ==
    /\ pc \in [Slots -> Steps]
    /\ job \in [Slots -> Runs \cup {NoRun}]
    /\ attempt \in [Slots -> Nat]
    /\ killed \in [Slots -> BOOLEAN]
    /\ \A s \in Slots : pc[s] = "free" <=> job[s] = NoRun

RestOK ==
    /\ active \in [Executors -> [Runs -> Slots \cup {NoSlot}]]
    /\ up \subseteq Executors
    /\ orphan \subseteq Runs \X {DockerOf[e] : e \in Executors} \X Slots \X Nat
    /\ cancelling \subseteq Runs /\ liveCancel \subseteq Runs
    /\ budget \in [Faults -> Nat]

\* Every variable stays in its type; a task names a run exactly when it is busy.
TypeOK == RunsOK /\ TasksOK /\ RestOK

\* exec.rs and db.rs promise that the orphan reaper never hands a live job to a
\* second worker: no two tasks ever hold the same run.  It takes the claim, the
\* lease test, requeue being a task's last step and crashes taking their tasks
\* with them to keep it so.
ClaimExclusive ==
    \A r \in Runs : \A s, t \in Slots : Holds(s, r) /\ Holds(t, r) => s = t

\* exec.rs `active`: while a task's job runs, the executor's map leads from the
\* run to that very task, so a cancel in that process reaches the right
\* container, and no entry survives its job to misdirect a later kill.
ActiveTracksJob ==
    \A e \in Executors, r \in Runs, s \in Slots :
        /\ pc[s] = "exec" /\ Holds(s, r) => active[ExecutorOf[s]][r] = s
        /\ active[e][r] = s => ExecutorOf[s] = e /\ Holds(s, r)

\* A cancel that finds the run still queued or running is final: neither the
\* killed job's finish_run nor the retry decision nor a sweep revives the run.
LiveCancelFinal ==
    \A r \in liveCancel : status[r] \in {"canceled", "gone"}

\* worker.rs: a recorded exit code is a verdict, never retried: a run that has
\* one is never again in the queue nor claimed.
VerdictFinal ==
    \A r \in Runs : exit_code[r] # "null" => status[r] \in Terminal

\* worker.rs: hitting a script's own timeout_secs is final; the run is not
\* handed out again while it carries that outcome.
DeclaredTimeoutFinal ==
    \A r \in Declared : error[r] = "timeout" => status[r] \in Terminal

\* The promise to the submitter.  A run that failed without an exit code is open:
\* it may be tried again, also after a cancel that only found it failed.
Conclusion(r) ==
    CASE status[r] = "absent" -> "none"
      [] status[r] = "gone" -> "gone"
      [] status[r] = "succeeded" -> "ok"
      [] status[r] = "canceled" /\ (r \in liveCancel \/ exit_code[r] # "null") -> "canceled"
      [] status[r] = "failed" /\ exit_code[r] # "null" -> "verdict"
      [] OTHER -> "open"
Life == [r \in Runs |-> Conclusion(r)]
L == INSTANCE RunLifecycle WITH life <- Life

\* The queue implements RunLifecycle: through claims, retries, cancels, crashes
\* and sweeps, a success, an exit code or a cancel that hit a queued or running
\* run concludes it, and no late finish_run, requeue or reaper reopens it.
Lifecycle == L!Spec

\* A run reported succeeded stays succeeded until retention deletes it.
SucceededFinal ==
    [][\A r \in Runs : status[r] = "succeeded" =>
            status'[r] \in {"succeeded", "gone"}]_vars

\* worker.rs: a run that has ended goes back to the queue only with tries left.  The
\* worker compares the number that mark_attempt gave it, several statements before
\* its requeue, while other daemons reap, cancel and delete rows; the number must
\* still be the run's.
RetriesBounded ==
    [][\A r \in Runs : status[r] \in Terminal /\ status'[r] = "pending"
                          => attempts[r] < MAX_ATTEMPTS]_vars

\* worker.rs: a NULL-exit failure is transient and is retried until the attempts
\* are used up: no such run is left failed with tries to spare, except the
\* final timeout of a script that declared its limit.  (A crash between the
\* failure and the requeue loses the retry.)
NoLostRetry ==
    budget["crash"] = MaxCrashes => \A r \in Runs :
        /\ status[r] = "failed" /\ exit_code[r] = "null" /\ ~Held(r)
        /\ error[r] = "infra" \/ (error[r] = "timeout" /\ r \notin Declared)
        => attempts[r] >= MAX_ATTEMPTS

\* The job processes of a run, and the start-up sweeps that did not do their work.
Processes(r) == {s \in Slots : HasJob(s) /\ Holds(s, r)}
LeftBehind(r) == {o \in orphan : o[1] = r}
FailedSweeps == MaxSweepFaults - budget["sweep"]

\* main.rs, start-up: with one executor per installation (the model sweep_orphans is
\* written for), what a crash leaves behind is swept before anything can claim the
\* run again: a run has one job process, and one more at most for each start-up
\* whose sweep failed.
SoleContainer ==
    \A r \in Runs :
        Cardinality(Processes(r)) + Cardinality(LeftBehind(r)) <= 1 + FailedSweeps

\* Every queued or running run settles: served runs through retries, crashes and
\* the reaper, unserved ones through fail_stale_pending.
EveryRunSettles ==
    \A r \in Runs : status[r] \in {"pending", "running"} ~> status[r] \in Terminal

\* db.rs, finish_run and cancel_run: cancel is authoritative, so a canceled run
\* never becomes anything else.
CancelAuthoritative ==
    [][\A r \in Runs : status[r] = "canceled" =>
            status'[r] \in {"canceled", "gone"}]_vars

-----------------------------------------------------------------------------
(* Promises of the repository that the code does not keep: each fails in a  *)
(* behaviour of this model, see README.md, section 3.                       *)

\* db.rs:1282, on the reaper: `mark_attempt already counted the attempt, so the
\* worker's MAX_ATTEMPTS cap still bounds the requeue->fail loop`: no run is tried
\* more than MAX_ATTEMPTS times, whoever puts it back in the queue.
AttemptsBounded == \A r \in Runs : attempts[r] <= MAX_ATTEMPTS

\* db.rs:1008, gc_old `keeps recent history and all non-terminal runs`: retention
\* never deletes a run that is queued or running.
NonTerminalKept ==
    [][\A r \in Runs : status[r] \in {"pending", "running"} => status'[r] # "gone"]_vars

\* README, `a script's nonzero exit is ... not retried`: a recorded exit code is not
\* replaced by an infra failure, which the worker would retry.
VerdictStands ==
    [][\A r \in Runs : exit_code[r] = "nonzero" =>
            exit_code'[r] = "nonzero" \/ status'[r] = "gone"]_vars
=============================================================================
