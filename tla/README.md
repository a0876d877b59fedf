# A TLA+ model of Dokan

Dokan is an agent-operated script runner: agents register scripts over MCP, the
daemon queues *runs* in Postgres, executes each in a warm Docker container and
returns a receipt; *flows* chain scripts into DAGs with gates, maps, retries and
saga compensation.  Several daemons may share one database, each may die at any
moment, and Postgres is the only thing they share.  This project models what
has to be right in between: who executes a run, who drives a flow, what a crash
leaves behind, and what is final.

All paths below are relative to the repository's `src/` (Rust) directory.

## 1. The system

| Component | State | Operations | Hard part |
|---|---|---|---|
| Run queue (`db.rs`) | table `runs`: status, attempts, exit_code, error, created_at, finished_at, heartbeat_at | insert_run, insert_refused_run, claim_run, mark_attempt, finish_run, requeue, cancel_run, touch_run, reap_orphan_runs, fail_stale_pending, gc_old | each is one SQL statement; everything in between interleaves |
| Worker (`worker.rs`) | one task per concurrency permit | claim, mark, execute, decide, requeue | the retry decision is three statements |
| Executor (`exec.rs`, `pool.rs`) | `active`: run -> container; containers | run, run_inner, exec_job, cancel, heartbeat, sweep_orphans | outcome written on two paths; containers outlive the process |
| Flow engine (`flow.rs`, `db.rs`) | tables `flow_runs`, `flow_steps`; per-driver batch and failure flag | claim_flow_run, drive, resolve, expand, aggregate_children, run_step, compensate, reap_orphan_flow_runs | ledger read once per pass and written step by step; leases; resume |
| Warm pool (`pool.rs`) | idle containers per image, a target | acquire, create, discard, the filler, sweep_orphans | filler, jobs and autoscaler create and remove at once |
| Concurrency, autoscaler (`scale.rs`) | a resizable semaphore | acquire, set, spawn_autoscaler | shrinking while permits are out |
| Cron (`cron.rs`) | table `schedules`, tickers per daemon | schedule, unschedule, start, enqueue_tick | several daemons tick one schedule |
| Quota (`quota.rs`) | counts over `runs` | check, decide | two measurements and the insert are separate |
| Secrets (`db.rs`) | `secrets`, a generation, a cache per process | upsert_secret, all_secrets_for | cache against generation |
| Run-or-recall cache (`mcp.rs`, `db.rs`) | `runs.cache_key` | run_cache_key, find_cached_run | the key's inputs are read at different times |
| Webhooks, triggers, idempotency (`http.rs`, `db.rs`) | partial unique index | webhook_fire, fire_triggers, insert_run_idempotent | redeliveries racing, keys freed by retention |
| Receipts (`receipt.rs`, `exec.rs`, `mcp.rs`) | signed receipt per run | build_receipt, verify, reproduce_run | what is bound, and when it was read and written |
| Logs (`exec.rs`, `db.rs`, `mcp.rs`, `http.rs`) | table `logs` | pump_logs, append_logs_batch, append_log, read_logs, wait_for, run_stream, gc_logs | numbers given by clients; overlapping attempts |
| Blobs (`db.rs`) | table `blobs` | put_blob, resolve_files, get_blob, gc_blobs | a sweep against calls in flight |
| Self-update (`update.rs`) | the executable, a temp file per updater | gate, install, install_atomic, verify, restart | a kill anywhere, racing updaters |
| Registry, search, HTTP/MCP shaping, encryption | rows, files | | mostly I/O |

Interactions: MCP, HTTP, cron, webhooks and the flow engine insert rows into
`runs`; every worker with the right runtime in its caps claims them; the flow
engine inserts rows **and** executes them itself; `cancel` reaches a container
through the `active` map of the process that runs it and then writes the row;
the sweeps of every daemon rewrite rows of all daemons.  Nothing is exchanged
but rows, leases (heartbeat columns) and Docker containers.

`PROJECT.json` lists every component with its status and every hazard at its line.

## 2. Modules

| Module | What it is | TLC instance | Theorems |
|---|---|---|---|
| `RunLifecycle` | what the queue promises: one conclusion per run, and it is final | | |
| `RunQueue` | the life of a run: table, workers, executor, cancel, sweeps, time, crashes; implements `RunLifecycle` | `MCRunQueue` | `RunQueueProofs` |
| `FlowEngine` | one flow_run: ledger, drivers, step tasks, saga, leases, the worker's view of its rows | `MCFlowEngine` | `FlowEngineProofs` |
| `Intake` | how runs enter the queue: run_script, webhooks, triggers, tickers; idempotency keys, quota, input files, retention | `MCIntake` | `IntakeProofs` |
| `Provenance` | script text, secrets and their cache, the run-or-recall cache, receipts, reproduce_run | `MCProvenance` | `ProvenanceProofs` |
| `WarmPool` | containers, permits, filler and autoscaler of one host | `MCWarmPool` | `WarmPoolProofs` |
| `JobLog` | the log of a run: the attempts that write it, the readers, retention | `MCJobLog` | `JobLogProofs` |
| `SelfUpdate` | `dokan update` by several updaters | `MCSelfUpdate` | `SelfUpdateProofs` |

The modules meet at the row of a run.  `RunQueue` has its status in full; `JobLog`,
`Intake` and `Provenance` each carry the part of its life their question needs
(a run that is tried again, that ends, that is deleted) with the same guards.

Definitions carry the name of the function they model; `PROJECT.json` maps each
to its lines.  A definition `X_variant` preceded by "Mutation of X" or
"Mutant" is a plausible bug of `X` and is used only to show that a property can fail.
Each module ends with its properties; those the repository promises and the code does
not keep are marked so there and listed in section 3.

### RunQueue

*State.*  One function per column of `runs` (`absent` is an id not inserted yet,
`gone` a row retention deleted); per permit ("slot") the position of its spawned
task (`pc`), the run it holds (`job`), the attempt it was told and whether its
container was killed; per executor the `active` map; the live executors; the
job processes a dead executor left behind (`orphan`).

*Atomicity.*  One SQL statement is one action.  A task is therefore
`claim_run; mark_attempt; start_job; exec_job | exec_job_err [run_err]; end_run;
run_outcome [run_error] [requeue]`, exactly the awaits of `Worker::spawn` and
`Executor::run`.  Statements the code retries or ignores
(`let _ =`, `.unwrap_or(..)`, `.ok().flatten()`) have an alternative in which
they fail, against the budget `MaxDbFaults`.  `exec_job_err` also has the case
in which `finish_run` took effect and its answer was lost.

*Time.*  A timestamp is compared with exactly one threshold, so it is kept as
which side of it it lies on.  `lease_expires` is free for a run no task holds and
costs one of `MaxLapses` for a run a live task holds, whose heartbeat must fail
for `RUN_LEASE_SECS` for that.  `retention_elapses` needs days to pass, so no
task can still hold the run, and the run is terminal or no executor is up;
`Retention` says whether the deployment has a retention at all (`retention_days = 0`
turns it off).

*Restart.*  A started executor first sweeps the containers its predecessor left on its
Docker host.  When the list call or a removal fails (`MaxSweepFaults`), any part of
them is left behind, and the worker starts all the same.

*Cancel* is two steps, as in `mcp.rs` and `http.rs`: kill the container the
process's `active` map names, then `cancel_run`.  The HTTP endpoint refuses
terminal runs first, the MCP tool does not; the model has the weaker guard.
`fail_stale_pending` is disabled in a deployment that sets
`pending_timeout_secs` to 0; the model has it enabled.

*Abstracted.*  Log lines, results, artifacts, secrets and input are data no
property here tells apart; NOTIFY only shortens the poll of `claim_run`.

### FlowEngine

*State.*  The `flow_runs` row (status, lease), one ledger row per step, the run
rows the engine created and the worker on each, per driver its phase, what it
has left to do in this pass and `comp_failed`, per driver and step the task's
position, run and attempt.  History variables: `execs`, the containers the engines
started per step, and `undone`, the steps whose compensation succeeded (the ledger's
`compensated` marks the ones whose compensation ended, well or badly).

*A pass of `drive_inner`* is `drive_pass` (beat, read the ledger, decide the
phase), then `resolve` per ready step (join, skip by dead branch or gate, expand
a map, or queue a task), `spawn_batch`, the tasks, and `batch_done` when every
handle returned.  A step's task is `run_step_insert; set_step_running;
exec_run; run_step_end`, repeated while attempts are left; `run_step_short` is a
cache recall, or a script that is gone.  `compensate` and `mark_step_compensated`
are the rollback, one step at a time.

*Data.*  What a `when` gate or a `map` expression evaluates to is
nondeterministic, as is a job's outcome.  `finished_at` is a counter: stamps of
different statements differ and only their order matters; it is kept for
the steps that have a compensation, the only ones whose order is ever read.
`Agg::Failed` of `aggregate_children` is not modelled because it cannot
happen: the driver tests for failed steps first, on the same read of the ledger.

*An element of `Engines`* is one driver.  A process drives several flow_runs, but
the reaper may make the same process claim this one again; that second driver is
another element.

*Abstracted.*  An operator's cancel of a step's run, panicking tasks and the
permits the engine shares with the worker.

### RunLifecycle and its refinement

`RunLifecycle` has one variable, the conclusion of each run.  The mapping `Life` of
`RunQueue` computes it from a row: a succeeded run is `ok`; a failed one with an exit
code has its `verdict`; a canceled one is `canceled` if the cancel hit it queued or
running, or over a verdict; everything else (a failed run without an exit code
that may be tried again, and a cancel that came on top of one) is still `open`.
`Lifecycle` is the abstract specification under that mapping.

### Intake

A process is a client or a daemon's ticker; `plan` says what it calls.  A call is
`begin | fire; [resolve_files;] [agent_running_count; agent_compute_seconds;]
insert_run [; recall]`, one action per statement.  `made`, `swept`, `told` and
`retried` are history.  The `event` of a call is what the code takes it for: the caller's
key, the webhook delivery, the second of a tick, which a UTC ticker reads off the clock
when its job runs; `due` is the second the tick was scheduled for.  A blob is `fresh`
or `stale` by `last_used_at` against the retention, and may turn stale at any moment
(`age`), also under a call that has just resolved it: `blob_exists` does not stamp
it.  `sure` and `mounted` remember that the file was stored when the row was inserted.

### Provenance

A value of a secret is its version; a job's output is a function of the text it
executed and the secrets it saw, which is what makes a wrong recall or a wrong
verdict visible.  `all_secrets_for` is `secrets_generation; cache_lookup;
load_global; load_scoped; cache_store`.  `floor` is history: the secrets at claim.
A signature is perfect: `alter_receipt` makes a stored receipt claim another source
and output than the ones that were signed, and leaves what was signed alone.

### WarmPool

The pool keeps its target for each of several images; the filler visits them one after
the other and looks for each at the idle stack.  A critical section of the pool's
mutex, or one Docker call, is one step.  A Docker call may fail before or after it took
effect (`MaxFaults`), a crash leaves every container behind, and the start-up after it
lists them; when that call fails (`MaxLists`) nothing is swept.  The autoscaler's
estimate is an arbitrary member of `Loads`; what it does with it (`set`,
`set_warm_target`) is the code's.

### JobLog

A line is known by the attempt that wrote it and by its number.  An attempt is
`claim; pump_logs; (chunk; flush)*; end_of_stream | timeout; [note_seq;
append_log;] finish_run; requeue`.  `timeout` drops the pump wherever it waits;
an INSERT it had sent may still be carried out (`land`).  The reader's mode is
its call; after `wait_for` it goes on with `read_logs` from the cursor it got.

### SelfUpdate

An updater is `start; fetch_latest; download; check_sums; create_temp;
write_temp; rename; verify; restart_if_launchd`, and may be killed before each.
A file is the release it was meant to be and whether its bytes are all there.  Each
updater has the release-signing key or not (`Pinned`; the key comes from its
environment).  `current_exe` is resolved after the download: on Linux, when another
updater has replaced the updater's executable meanwhile, it names `<path> (deleted)`,
and the rename creates that file (`stray`) instead of replacing the live one.

## 3. What is checked

Each run asks one question.  All runs have `CHECK_DEADLOCK FALSE`: a
system whose work is finished and whose fault budgets are spent may stop.

| Run | Properties | Instance, and why it is enough |
|---|---|---|
| `rq_safety` | TypeOK, ClaimExclusive, ActiveTracksJob, DeclaredTimeoutFinal, RetriesBounded, NoLostRetry, Lifecycle | two runs (one declares its timeout), two executors with different caps, a permit and a Docker host each, 2 attempts, a crash, retention: two claimants, a stolen lease of a dead one, a retry, a cancel and a deletion at any point |
| `rq_live` | SoleContainer, EveryRunSettles | one executor without retention; a served and an unserved run; a crash, a lapsed lease, a failing statement and a start-up sweep that fails; a deleted run does not count as settled |
| `flow_dag` | TypeOK, DriverExclusive, DependenciesFirst, JoinComplete, SuccessComplete, UnwoundInReverse, RollbackAttempted, RollbackHonest, EngineBudget, EndedIsFinal | two engines; a step with a retry, a map of two children and a gated join in a row, the first two compensable; a worker that may claim the join's rows; a crash and a failing statement, so that a second driver resumes at every point, in the rollback too |
| `flow_live` | EveryFlowSettles | a step, a gated step beside the map, their join, on one engine; a step with a retry, a lapsed lease, no worker for these runtimes, no crash |
| `intake` | TypeOK, OneRunPerKey, QuotaBound, FilesKept | five workloads: two callers with one key, two callers at the quota beside a trigger, a redelivered webhook, two calls with a file, a schedule with an agent and a file on two daemons (with and without a timezone); retention at any point, two restarts, retries or failing statements |
| `provenance` | TypeOK, CacheCurrent, RotationEffective, ReceiptMatchesRow, WrongRecallExplained, VerdictTrue | two requests of one agent, two runs, an edit, a rotation (global or scoped) and a fault: every order of reads and writes of one rotation against two readers of a cache; recalls across agents are in the proof only |
| `warm_pool` | TypeOK, SoleOwner, PermitAccounting, HostBound, Converges | two images, two jobs, 1 to 2 permits, up to 1 warm container per image, two changes of load, and two of: a failing Docker call, a crash, a start-up whose list call fails (all three together are in the proof only); nine container ids, so that a leak past the bound can happen |
| `job_log` | TypeOK, CursorSound, TailComplete | two attempts, chunks, pages of up to two lines, a tail of one, two faults of different kinds (lapsed lease, abandoned INSERT, crash, failing statement, cancel), each kind of reader |
| `self_update` | TypeOK, LiveGenuine | two updaters, one with `--force` and without a key, the other with one, on Linux or macOS; four releases, one unsigned, one a debug build |
| `rq_cancel` | CancelAuthoritative (violated) | finding 1 |
| `flow_once` | RetryBudget (violated) | finding 2 |
| `flow_resume` | EveryFlowSettles (violated) | finding 3 |

*What the properties leave out, and why.*
- `ClaimExclusive`, `ActiveTracksJob`, `DriverExclusive` and what rests on them are
  stated for live processes whose heartbeats arrive (`MaxLapses = 0`), which is what
  the leases promise; after a lapse nothing fences the first holder.
- `DeclaredTimeoutFinal`, `RetriesBounded`, `NoLostRetry` and `Lifecycle` are stated for a
  database that answers the worker; `RetriesBounded` is the worker's own limit, the
  reaper's requeue has none (promise 1 below).
- `SoleContainer` allows one more job process for each start-up whose sweep failed.
- `UnwoundInReverse` and `RollbackAttempted` end with the first failing statement, whose
  errors the saga drops; `RollbackHonest` also with the first crash (promise 4).
- `EngineBudget` counts what the engines start, plus one for each failed statement; what
  a worker starts on top of it is finding 2.
- `QuotaBound` allows one run for each caller that may have passed the check at the
  same time and for each run queued again, and does not count what webhooks,
  triggers and `reproduce_run` enqueue, which are not metered.
- `OneRunPerKey` allows a second run after retention deleted the first.
- `WrongRecallExplained` lists the ways in which a recall goes wrong (promises 5 and 6), and
  says that there are no others.
- `VerdictTrue` is about the outputs `reproduce_run` compares.  A receipt may name a newer
  generation than the job saw, and an edit of the script between the check of its text
  (`mcp.rs:1582`) and the claim of the re-run gives a DIVERGED that the original run is
  not to blame for.
- `HostBound` allows a container for each failed Docker call and an executor's whole share
  for each start-up whose list call failed.
- `TailComplete` needs a run that ended by itself.

*Bounds.*  `MaxCrashes`, `MaxLapses`, `MaxDbFaults`, `MaxFaults`, `MaxSweepFaults` and
`MaxLists` bound the faults of one behaviour, one by one (`MaxTroubles` those of
`WarmPool` together), `Runs` and `MaxRuns` the ids (in `FlowEngine`: enough rows
for every attempt and compensation of the instance), `MAX_ATTEMPTS` is the code's
constant (3), set to 2 where the third try adds nothing but states; `LIMIT`,
`BUDGET`, `CHUNK`, `TAIL` and `BURST` are the code's constants scaled down to values
at which both sides of each comparison occur.

*Fairness.*  Weak fairness of each task's and driver's steps (tokio keeps
polling a live task), of the claim (the worker polls on an interval, a lost
NOTIFY included), of the sweeps (they tick for ever), of time passing for a run
or a flow nobody beats for, and of restarts (a supervisor starts a dead daemon
again).  In `WarmPool`: of each job's steps, the filler, the autoscaler and
start-up.  Enqueues, cancels, beats, changes of load and all faults are not fair.

### Findings

These three have a run of their own, which TLC ends with the counterexample.

1. `rq_cancel`: a cancel that lands between the worker's `run_outcome` read and
   `requeue` is undone, because `requeue` does not test the status.  `Lifecycle` and
   `LiveCancelHolds` say how far the promise does hold: a cancel that hits a pending
   or running row is final.
2. `flow_once`: the engine's own run row is `pending` while it executes it, so a
   worker executes the step as well.
3. `flow_resume`: a step left `running` by a dead engine is never run again and the
   flow is polled for ever.

### Promises of the repository that the code does not keep

Ten more are stated in the modules, under the name given here; TLC refutes each, and no
listed run is spent on them.  To see the behaviour, put the name in the place of the
properties of the named configuration (under `PROPERTIES` for an action property)
and change its constants as given.

| | Promise | What the code does | Property | To reproduce |
|---|---|---|---|---|
| 1 | `db.rs:1282`: "the worker's `MAX_ATTEMPTS` cap still bounds the requeue→fail loop" | `reap_orphan_runs` (`db.rs:1284`) does not read the attempts, the worker only after `exec.run` returned: a run whose executor dies each time is tried without bound | `RunQueue!AttemptsBounded` | `RunQueue_cancel.cfg`, `MAX_ATTEMPTS = 2`, `MaxCrashes = 1` |
| 2 | `db.rs:1008`: gc_old keeps "all non-terminal runs" | `gc_old` (`db.rs:1022`) goes by `finished_at`, which `requeue` keeps: after an outage of `retention_days`, a run waiting for its retry is deleted | `RunQueue!NonTerminalKept` (action) | the same with `Retention = TRUE` |
| 3 | `README.md:78`: a script's nonzero exit is not retried | when `finish_run` took effect and its answer was lost, `exec.run`'s error path (`exec.rs:353`) replaces the exit code by an infra failure, which the worker retries | `RunQueue!VerdictStands` (action) | `RunQueue_cancel.cfg`, `MAX_ATTEMPTS = 2`, `MaxDbFaults = 1` |
| 4 | `flow.rs:112`: a failed rollback step is surfaced "as a distinct terminal status" | the step is marked compensated all the same (`flow.rs:370`) and only the driver's memory knows of the failure: after a crash the flow ends as plain `failed` | `FlowEngine!RollbackSurfaced` | `FlowEngine_resume.cfg`, `SPECIFICATION Spec`, `Compensable = {"a"}` |
| 5 | `mcp.rs:889`: cache=true recalls "an identical prior run"; `mcp.rs:144`, `receipt.rs:2`: the same inputs, "not a stale or altered cache hit" | the key is computed at enqueue (`mcp.rs:913`), the text and the secrets are read when the run starts; an edit or a rotation in between, or a failed read of the secrets, files a result under a key it does not belong to; nor does the key name the agent, whose scoped secrets the job sees | `Provenance!RecallIdentical` | `Provenance.cfg` |
| 6 | `mcp.rs:889`: and "returns its result" | the status is written at `exec.rs:606`, the result by a later statement that may fail: a recall may answer none | `Provenance!RecallReturnsResult` | `Provenance.cfg` |
| 7 | `update.rs:47`: "refuse to downgrade (unless --force)" | the gate (`update.rs:161`) compares with the version compiled into the running updater, the swap comes a download later: a newer version installed meanwhile is replaced | `SelfUpdate!NoDowngrade` (action) | `SelfUpdate.cfg` |
| 8 | `update.rs:208`: "the old binary is intact on any failure here"; `update.rs:285` | `verify` runs after the rename (`update.rs:352`): a release that does not start is live when the update reports its failure | `SelfUpdate!OldBinaryIntact` | `SelfUpdate.cfg` |
| 9 | `cron.rs:73`: "same scheduled second → same key, so daemons sharing the database enqueue one run per tick"; also `cron.rs:221`, `README.md:100` | a UTC ticker takes the second the clock shows when its job runs (`cron.rs:222`): a daemon that is late makes a second run of the tick | `Intake!OneRunPerTick` | `Intake.cfg` |
| 10 | `CHANGELOG.md:26`: "unknown handle → no schedule" | `blob_exists` (`db.rs:813`) does not stamp the blob: a stale one may be swept before the schedule is inserted | `Intake!ScheduleFilesKnown` | `Intake.cfg` |

What does hold in their place is checked and proved: `RetriesBounded` (1), `Lifecycle`
for a database that answers (3), `RollbackAttempted` and `RollbackHonest` (4),
`WrongRecallExplained` (5, 6), `LiveGenuine` (7, 8), `OneRunPerKey` (9; the key of a
schedule with a timezone is the scheduled second), `FilesKept` (10).

### Further facts

What the models also do, without a line of the repository that says otherwise:

- A retried run's age is measured from its first enqueue, so `fail_stale_pending`
  may retire it as never claimed.
- With `MaxLapses = 1` and two executors `ClaimExclusive` fails: nothing fences the
  executor that lost its lease.
- A compensation script that is missing or of an unknown runtime is passed over, and the
  flow ends as plain `failed`.
- The secrets generation in a receipt is read after the job ran.
- A late UTC tick shares its key with the next one, and one of the two makes no run.
- A file that a call resolved may be swept before its run is inserted; the run then
  fails in `materialize_input`.
- `run_stream` reads a page and then the status, and closes at a terminal one: lines
  written in between are not sent.
- On Linux an updater whose executable was replaced meanwhile writes
  `<path> (deleted)`, and reports that it updated.
- When the write of an update fails, the temp file stays, though the comment at
  `update.rs:359` says it is cleaned up.

## 4. What is proved

The proof modules are checked by TLAPS for every value of the constants that
satisfies the `ASSUME`s of the component's module.  Those give the types of the
parameters and, where the code guarantees it, a little more: in `FlowEngine`, a
map's children have its dependencies, belong to that map alone and carry no map,
gate or compensation of their own (`expand_map_step` inserts them so); in `Intake`,
webhooks and triggers pass no file, triggers no key, and every daemon's ticker
works from the same schedule row; `None` is no id and no value.  The hypotheses of
a theorem beyond those are stated in it.  `MaxLapses = 0` says that no live task or
driver loses its lease: its heartbeat is never late by a whole lease.  Crashes,
and unless said otherwise failing statements, are unrestricted.

Every invariant and action property of a passing run is the statement of a theorem.

**RunQueue.**
- `TypeCorrect`: `TypeOK`, no assumption.
- `ClaimExclusiveHolds`, `LiveCancelHolds`, `ActiveTracksJobHolds`, for
  `MaxLapses = 0`.  Claim exclusiveness is not inductive: one has to know that a
  task's run is not up for grabs.  `HoldInv` ties a task's position to its run's
  row (before the outcome is recorded the run is running or already canceled,
  with no stale lease; a task about to requeue holds a run that is failed,
  canceled or gone), and `QueueInv` is that, exclusiveness and `LiveCancelFinal`
  together.  `ActiveInv` adds which positions have an `active` entry.
- `VerdictFinalHolds`, `DeclaredTimeoutHolds`, `SucceededHolds`, for
  `MaxLapses = 0` and `MaxDbFaults = 0`.  `OutcomeInv` records that a run a task
  is about to start, to fail or to requeue has no exit code and no declared timeout.
  Both assumptions are needed: `exec_job_err` after a lost answer overwrites an
  outcome, and an executor that lost its lease writes over the next one's.
- `RetriesBoundedHolds`, `NoLostRetryHolds`, for `MaxLapses = 0` and
  `MaxDbFaults = 0`.  A task decides on the attempts it read three statements earlier:
  `TaskTries` says that they still are those of its run, whatever other daemons did
  in between, and that it decides to requeue below the limit only.  It needs
  `TriesOK`: every attempt was counted when it started, so the count passes the limit
  only by the attempts that the reaper gave for a crash.  A failing `mark_attempt` or
  `requeue` voids both promises.
- `SoleContainerHolds`, for one executor with any number of permits and
  `MaxLapses = 0`, or for one permit and any number of lapses; any statement may fail.
  `ContainerInv`: what a crash left behind is swept before a permit is given out, or
  one of the failed sweeps accounts for it.

**FlowEngine.**
- `FlowTypeCorrect`: `TypeOK`, no assumption.
- `DriverExclusiveHolds`, for `MaxLapses = 0`: `DriverInv` says a driver at work
  implies `flow = "running"` and a lease that is fresh, so neither the reaper nor
  a claim can produce a second one.
- `QuietCorrect`, `EndedIsFinalHolds`: a driver outside a batch or a rollback has
  no busy task (`QuietInv`, unconditional); with `DriverInv`, nobody is left to write the
  record of a flow once it has ended, neither its status nor a step or a mark of its
  ledger.  (A worker may still execute a pending row of the flow, finding 2.)
- `DependenciesFirstHolds`, for `MaxLapses = 0`: `TodoInv` and `TaskInv` carry the
  decision of a pass to the moment it is acted on: what is in `todo` was
  decided on dependencies that are still done, and a queued or executing
  task's step has all dependencies succeeded.  `DepInv` is inductive with
  `DriverInv` and `QuietInv`.  A second driver would void the argument: its
  pass may have decided on an older ledger.
- `JoinCompleteHolds`, `SuccessCompleteHolds`, for `MaxLapses = 0`.  `KidInv` is what a
  join's decision rests on: a child exists only once its map was expanded, is
  never skipped, and what a driver has on its list to join was read with every
  child succeeded and stays so.  `EndInv` carries the last read of the ledger to the
  moment the flow is marked succeeded.
- `UnwoundInReverseHolds`, `RollbackAttemptedHolds`, for `MaxLapses = 0`.  The rollback is a
  list that was read once and is worked off over many steps, by several drivers if one
  dies.  `PhaseInv` says that no step is executed while one is undone; `UndoInv`, that
  in a rollback that met no failing statement every succeeded compensable step is
  marked, on the list or being undone, that at most one is being undone, and that
  nothing on the list finished after it.  A driver that resumes reads the list again,
  and the steps already marked are not on it, whether their compensation succeeded
  or not.
- `RollbackHonestHolds`, for `MaxLapses = 0`.  `HonestInv`: while nothing crashed and every
  statement was answered, a step marked and not undone is known to the driver at work,
  or to the flow's status.
- `RetryCorrect`, `EngineBudgetHolds`, for `MaxLapses = 0`; crashes, resumes, workers and
  failing statements are unrestricted.  `RetryInv` counts: a step that is not marked
  running yet has had no container but for failed statements (a failed
  `set_step_running` leaves the step pending in the ledger while its container runs,
  and a resuming driver starts it anew), and a task's containers are the attempts it
  made.

**JobLog.**
- `LogTypeCorrect`, `CursorSoundHolds`, no assumption: any number of attempts at
  once, chunk, page and tail sizes, faults.  That a cursor never skips a line
  needs that the table has no gaps, and that needs every writer: `Whole` says
  that the numbers are `1 .. m`, that no pending batch, note or abandoned INSERT
  begins beyond `m + 1`, and that the cursor is at most `m`, until retention empties
  the log, when (`Over`) nobody writes any more.  A new line then always lands after
  every cursor, and `ON CONFLICT DO NOTHING` keeps the ones before it.
- `TailCompleteHolds`, no assumption (the property itself speaks of runs that end by
  themselves).  `TailInv`: while no lease lapsed, no INSERT was abandoned and nobody
  canceled, only the attempt of the row writes and it has written everything when
  the run is queued or over (`Orderly`); so the status the reader was told is still true of
  the log (`ToldOver`), and a reader that stopped on it has the last line (`EndSeen`).

**SelfUpdate.**
- `UpdateTypeCorrect`, `LiveGenuineHolds`, no assumption.
  `UpdateInv` carries what an updater has established to the rename: what passed
  the checksum and, with a key, the signature is what is written, and the temp
  file is its own.

**Provenance.**  All without assumption: any number of daemons, requests and runs, edits,
rotations and faults.
- `ProvenanceTypeCorrect`.
- `CacheCurrentHolds`, `RotationEffectiveHolds`.  Both rest on the order of two reads, the
  generation before the values, and on a rotation changing both in one transaction.
  `SecretsInv` says that values read under the generation of now are those of now, and
  that whatever is, or is about to be, filed under the generation a job has read is
  at least what was in force when the job was claimed (`floor`).
- `ReceiptMatchesRowHolds`: `ReceiptInv` follows a job's output through the result, the
  artifacts and the receipt, none of which is written when an earlier one failed.
- `WrongRecallExplainedHolds`: `KeyInv` gives a request's key the meaning of the secrets its
  generation stands for; `RecallInv`, that a run's key is written once, by the
  request that inserted it, and that a recalled run has computed its output.
- `VerdictTrueHolds`: `VerdictInv`, what reproduce compares with passed the signature,
  and so is what the original computed.

**WarmPool.**  All without assumption: any number of jobs, load changes, failing Docker calls
and crashes.
- `WarmPoolTypeCorrect`.
- `SoleOwnerHolds`: `OwnInv`, idle stack, jobs and the containers the filler has
  popped are disjoint, and (`DownOK`) a dead process owns nothing.
- `PermitAccountingHolds`: free permits and permits held add up to `current`, which a
  shrink lowers only by the permits it found free; `PermitInv` adds that the holders
  are finitely many, without which their number would mean nothing.
- `HostBoundHolds`: `PoolInv` bounds the pool of each image by its maximum, the containers
  the filler has decided to create included; `HostInv` says that each container on the
  host is the pool's or a job's, or is owed to a failed Docker call or to a start-up that
  could not list, and that during start-up each is about to be swept or owed to
  one.  `UnionBound` adds the images up.

**Intake.**  All without assumption: any number of callers, keys, retries, restarts and faults.
- `IntakeTypeCorrect`.
- `OneRunPerKeyHolds`: `EventInv` is a count per event: runs made are at most one more than
  runs retention deleted, and no more than those when no row is left.  The index
  over the keys makes one row of an event at a time.
- `QuotaBoundHolds`: `QuotaInv` adds the callers between check and insert to the runs
  that count.  A check passes only below the limit, so a caller that passes makes the
  sum at most one more for each of them.
- `FilesKeptHolds`: `FilesKept` is inductive by itself, once a sweep's condition is read
  against every row that mounts the file.

**The refinement.**  `LifecycleHolds` (in `RunQueueProofs`), for `MaxLapses = 0` and
`MaxDbFaults = 0`: every initial state of `RunQueue` maps to one of `RunLifecycle` and
every step to a step or a stutter, from `VerdictInv`, `QueueInv` and `AbsentInv`
(an id not inserted yet has no traces).

**Only model-checked.**  Liveness (`EveryRunSettles`, `EveryFlowSettles`, `Converges`):
temporal properties under fairness, and `ENABLED`, are out of the prover's reach.

## 5. Not modelled

See the components with status `not_modelled` or `partly` in `PROJECT.json`.
- Cryptography (`crypto.rs`, the signatures of `receipt.rs` and `update.rs` are perfect),
  embeddings and search, the floating-point estimate of the autoscaler (only its
  result enters).
- `validate_spec` and `has_cycle`: sequential checks of a document, without state or
  interleaving; `FlowEngine` assumes what they establish.
- HTTP and MCP argument and response shaping, authentication, the webhook's rate
  limiter (a fixed window in memory over wall-clock time), the UI, argument parsing.
- What Docker answers: an exec whose exit code is not reported counts as 0
  (`exec.rs`), image pulls and container options.
- Artifacts collected from a run's output directory, and redaction of log lines.

## 6. Plan

1. *Weaker hypotheses*: what remains of `QueueInv` and `DriverInv` after a lapsed lease (a
   canceled run stays canceled, a rollback's marks are never undone), and of
   `RetriesBounded` when statements fail.
2. *Action properties*: what a step of one daemon may never do to a row another one
   holds.
3. *Composition*: an operator's cancel of a step's run, and the permits that flow
   engine and worker share, in `FlowEngine`.
