------------------------------- MODULE Intake -------------------------------
(***************************************************************************)
(* How runs enter the queue: run_script (mcp.rs), inbound webhooks         *)
(* (http.rs), result triggers (db.rs) and the cron tickers of several      *)
(* daemons (cron.rs), with the agent quota (quota.rs), the idempotency     *)
(* keys and the input files of the blob store, and the retention sweeps    *)
(* that delete runs and blobs under them (db.rs gc_old, gc_blobs).         *)
(*                                                                         *)
(* One SQL statement is one step.  What happens to a run once it is        *)
(* queued is RunQueue's subject: here it is pending, running or done.      *)
(* One schedule, which ticks every second of the clock, with idempotency   *)
(* keys (without them every daemon enqueues a run of its own); an enqueue  *)
(* that outlasts the period of a UTC ticker is left out.                   *)
(***************************************************************************)
EXTENDS Integers, FiniteSets

CONSTANTS
    Procs,          \* clients and daemons that enqueue
    Blobs,          \* contents of files
    Plans,          \* what each process calls, a set of functions on Procs
    LIMIT,          \* quota.rs AGENT_MAX_CONCURRENT
    BUDGET,         \* quota.rs AGENT_COMPUTE_BUDGET_SECS; a run costs 1
    MaxRuns,        \* bound: runs ever inserted
    MaxTime,        \* bound: the clock
    MaxCalls,       \* bound: calls of a process
    MaxFaults,      \* bound: restarts, retries and failing statements
    None

Vias == {"none", "run_script", "webhook", "trigger", "tick"}
Calls == [via : Vias, agent : {"a", None}, key : {"k", "w", None}, blob : Blobs \cup {None}]

ASSUME IntakeAssumption ==
    /\ Plans \subseteq [Procs -> Calls]
    /\ \A pl \in Plans, p \in Procs :
        /\ pl[p].via = "run_script" => pl[p].agent # None
        /\ pl[p].via \in {"webhook", "trigger"} => pl[p].blob = None
        /\ pl[p].via = "trigger" => pl[p].key = None
        \* the schedule's row, the same for every daemon
        /\ \A q \in Procs : pl[p].via = "tick" /\ pl[q].via = "tick" => pl[p] = pl[q]
    /\ LIMIT \in Nat \ {0} /\ BUDGET \in Nat \ {0}
    /\ MaxRuns \in Nat /\ MaxTime \in Nat /\ MaxCalls \in Nat /\ MaxFaults \in Nat
    /\ IsFiniteSet(Procs) /\ None \notin Blobs \cup {"a", "k", "w", "tick"}

VARIABLES
    plan,           \* the calls of this behaviour
    zoned,          \* whether the schedule has a timezone
    runs,           \* table runs: id -> row
    last,           \* the last id given
    stored,         \* table blobs: "none", "fresh" or "stale" (last_used_at)
    schedule,       \* the schedule's row: "none", "on" or "off"
    mounted,        \* history: its files were stored when the row was inserted
    ticker, next,   \* per daemon: whether its ticker lives, the second it waits for
    now,            \* the clock
    pc, call,       \* per process: where it stands; what its call is taken for (event),
                    \* its key, and the second it was due at (a tick)
    calls,          \* per process: calls left
    made, swept,    \* history: runs inserted and deleted, per event
    told,           \* history: ids given as answers, per event
    retried,        \* history: runs put back into the queue
    faults          \* faults left

schedVars == <<schedule, mounted, ticker, next>>
callVars == <<pc, call, calls>>
histVars == <<made, swept, told, retried>>
vars == <<plan, zoned, runs, last, stored, schedVars, now, callVars, histVars, faults>>

Ids == 1 .. MaxRuns
Seconds == 1 .. MaxTime + 1
\* What asks for one run: a caller's key, or a second of the clock.
Events == ({"k", "w"} \X {0}) \cup ({"tick"} \X Seconds)
NoCall == [event |-> <<None, 0>>, key |-> <<None, 0>>, due |-> 0]
Users(via) == {p \in Procs : plan[p].via = via}
Stored(p) == plan[p].blob # None => stored[plan[p].blob] # "none"

Fault == faults > 0 /\ faults' = faults - 1
Free == UNCHANGED faults

Init ==
    /\ plan \in Plans
    /\ zoned \in IF Users("tick") # {} THEN BOOLEAN ELSE {TRUE}
    /\ runs = [r \in {} |-> None] /\ last = 0
    /\ stored = [b \in Blobs |-> "none"]
    /\ schedule = "none" /\ mounted = FALSE
    /\ ticker = [p \in Procs |-> FALSE] /\ next = [p \in Procs |-> 0]
    /\ now = 0
    /\ pc = [p \in Procs |-> "idle"] /\ call = [p \in Procs |-> NoCall]
    /\ calls = [p \in Procs |-> MaxCalls]
    /\ made = [e \in Events |-> 0] /\ swept = [e \in Events |-> 0]
    /\ told = [e \in Events |-> {}] /\ retried = 0
    /\ faults = MaxFaults

-----------------------------------------------------------------------------
(* The tables. *)

WithKey(k) == {r \in DOMAIN runs : runs[r].key = k}
Conflict(p) == call[p].key # <<None, 0>> /\ WithKey(call[p].key) # {}
Live(r) == runs[r].st \in {"pending", "running"}

Count(f, event) == [e \in Events |-> f[e] + (IF e = event THEN 1 ELSE 0)]

\* INSERT INTO runs: the row of p's call, and that the process got its id.
Insert(p, st) ==
    /\ last < MaxRuns
    /\ last' = last + 1
    /\ runs' = [r \in DOMAIN runs \cup {last + 1} |->
                  IF r \in DOMAIN runs THEN runs[r]
                  ELSE [st |-> st, event |-> call[p].event, key |-> call[p].key,
                        due |-> call[p].due, agent |-> plan[p].agent, via |-> plan[p].via,
                        blob |-> IF st = "pending" THEN plan[p].blob ELSE None,
                        sure |-> Stored(p)]]
    /\ made' = Count(made, call[p].event)
    /\ UNCHANGED <<swept, retried>>

Tell(p, r) == told' = [e \in Events |-> told[e] \cup (IF e = call[p].event THEN {r} ELSE {})]
NoRun == UNCHANGED <<runs, last, histVars>>

Goto(p, where) == pc' = [pc EXCEPT ![p] = where]

\* Mutant: the ticker passes over a second.
Return_skipping(p) ==
    /\ Goto(p, "idle") /\ call' = [call EXCEPT ![p] = NoCall]
    /\ next' = IF plan[p].via = "tick" THEN [next EXCEPT ![p] = now + 2] ELSE next

\* The call is over; the zoned ticker looks for the next second after the later
\* of the one it served and the clock, the UTC ticker did when it fired.
Return(p) ==
    /\ Goto(p, "idle") /\ call' = [call EXCEPT ![p] = NoCall]
    /\ next' = IF plan[p].via = "tick" /\ zoned
               THEN [next EXCEPT ![p] = (IF now > @ THEN now ELSE @) + 1] ELSE next
Going(p, where) == Goto(p, where) /\ UNCHANGED <<next, call>>

-----------------------------------------------------------------------------
(* The calls. *)

\* Mutant: the key of a tick is its daemon's.
tick_key_local(p, second) == <<p, second>>

\* cron.rs tick_key
tick_key(p, second) == <<"tick", second>>

\* The caller's idempotency_key, or (http.rs) the delivery's id or a hash of its
\* body: the same for every redelivery.
webhook_idempotency_key(p) == <<plan[p].key, 0>>

begin(p) ==
    /\ pc[p] = "idle" /\ calls[p] > 0
    /\ plan[p].via \in {"run_script", "webhook", "trigger"}
    /\ calls' = [calls EXCEPT ![p] = @ - 1]
    /\ LET e == webhook_idempotency_key(p) IN
        call' = [call EXCEPT ![p] = [event |-> e, key |-> e, due |-> 0]]
    /\ Goto(p, CASE plan[p].via # "run_script" -> "insert"
                 [] plan[p].blob # None -> "resolve"
                 [] OTHER -> "count")
    /\ Free
    /\ UNCHANGED <<plan, zoned, runs, last, stored, schedVars, now, histVars>>

\* A ticker fires: enqueue_tick takes the tick for the second it was due at, or (UTC)
\* for the second the clock shows when the job runs.
fire(p) ==
    /\ pc[p] = "idle" /\ ticker[p] /\ now >= next[p]
    /\ LET second == IF zoned THEN next[p] ELSE now IN
        call' = [call EXCEPT ![p] = [event |-> <<"tick", second>>, key |-> tick_key(p, second),
                                     due |-> next[p]]]
    /\ next' = IF zoned THEN next ELSE [next EXCEPT ![p] = now + 1]
    /\ Goto(p, IF plan[p].agent # None THEN "count" ELSE "insert")
    /\ Free
    /\ UNCHANGED <<plan, zoned, runs, last, stored, schedule, mounted, ticker, now, calls, histVars>>

\* mcp.rs resolve_files, of run_script and of schedule: the handle must exist.
resolve_files(p) ==
    /\ pc[p] = "resolve"
    /\ IF Stored(p)
       THEN Goto(p, IF plan[p].via = "tick" THEN "schedule" ELSE "count") /\ UNCHANGED call
       ELSE Goto(p, "idle") /\ call' = [call EXCEPT ![p] = NoCall]
    /\ Free /\ NoRun
    /\ UNCHANGED <<plan, zoned, stored, schedVars, now, calls>>

\* Mutant: one run more.
Refused_above(in_flight, spent) == in_flight > LIMIT \/ spent > BUDGET

\* quota.rs decide
Refused(in_flight, spent) == in_flight >= LIMIT \/ spent >= BUDGET

InFlight(a) == Cardinality({r \in DOMAIN runs : runs[r].agent = a /\ Live(r)})
Spent(a) == Cardinality({r \in DOMAIN runs : runs[r].agent = a /\ runs[r].st = "done"})

\* quota.rs check: two reads.  A refused tick is recorded, a refused call returns.
Decide(p, refused, otherwise) ==
    IF ~refused THEN Going(p, otherwise)
    ELSE IF plan[p].via = "tick" THEN Going(p, "refuse") ELSE Return(p)

agent_running_count(p) ==
    /\ pc[p] = "count"
    /\ \/ Decide(p, Refused(InFlight(plan[p].agent), 0), "spent") /\ Free
       \/ Fault /\ Return(p)
    /\ NoRun
    /\ UNCHANGED <<plan, zoned, stored, schedule, mounted, ticker, now, calls>>

agent_compute_seconds(p) ==
    /\ pc[p] = "spent"
    /\ Decide(p, Refused(0, Spent(plan[p].agent)), "insert") /\ Free
    /\ NoRun
    /\ UNCHANGED <<plan, zoned, stored, schedule, mounted, ticker, now, calls>>

\* db.rs fire_triggers, after the source run's result was stored: unchecked by the
\* quota, without a key.  (http.rs trigger_run inserts like that, for no agent.)
fire_triggers(p) ==
    /\ pc[p] = "insert" /\ plan[p].via = "trigger"
    /\ \/ Insert(p, "pending") /\ Tell(p, last + 1) /\ Free
       \/ Fault /\ NoRun
    /\ Return(p)
    /\ UNCHANGED <<plan, zoned, stored, schedule, mounted, ticker, now, calls>>

\* db.rs insert_run_with_blobs (no key) and insert_run_idempotent:
\* INSERT ... ON CONFLICT DO NOTHING, and on a conflict ...
insert_run(p) ==
    /\ pc[p] = "insert" /\ plan[p].via # "trigger"
    /\ \/ /\ ~Conflict(p)
          /\ Insert(p, "pending") /\ Tell(p, last + 1) /\ Return(p) /\ Free
       \/ /\ Conflict(p)
          /\ Going(p, "recall") /\ NoRun /\ Free
       \/ Fault /\ Return(p) /\ NoRun
    /\ UNCHANGED <<plan, zoned, stored, schedule, mounted, ticker, now, calls>>

\* ... a second statement finds the run of the key; it may be gone by then.
recall(p) ==
    /\ pc[p] = "recall"
    /\ \/ \E r \in WithKey(call[p].key) : Tell(p, r)
       \/ WithKey(call[p].key) = {} /\ UNCHANGED told
    /\ Return(p) /\ Free
    /\ UNCHANGED <<plan, zoned, runs, last, stored, schedule, mounted, ticker, now, calls,
                   made, swept, retried>>

\* db.rs insert_refused_run: a failed row in the tick's name.
insert_refused_run(p) ==
    /\ pc[p] = "refuse"
    /\ IF ~Conflict(p)
       THEN Insert(p, "refused") /\ UNCHANGED told ELSE NoRun
    /\ Return(p) /\ Free
    /\ UNCHANGED <<plan, zoned, stored, schedule, mounted, ticker, now, calls>>

-----------------------------------------------------------------------------
(* The schedule: mcp.rs schedule and unschedule, cron.rs Cron. *)

schedule_begin(p) ==
    /\ plan[p].via = "tick" /\ pc[p] = "idle" /\ schedule = "none"
    /\ \A q \in Procs : pc[q] = "idle"
    /\ Goto(p, "resolve") /\ Free
    /\ UNCHANGED <<plan, zoned, runs, last, stored, schedVars, now, call, calls, histVars>>

\* insert_schedule and Cron::add; when add fails the row is disabled.
insert_schedule(p) ==
    /\ pc[p] = "schedule"
    /\ Goto(p, "idle") /\ call' = [call EXCEPT ![p] = NoCall]
    /\ \/ /\ schedule' = "on" /\ ticker' = [ticker EXCEPT ![p] = TRUE] /\ Free
       \/ /\ schedule' = "off" /\ UNCHANGED ticker /\ Fault
    /\ mounted' = Stored(p)
    /\ next' = [next EXCEPT ![p] = now + 1]
    /\ UNCHANGED <<plan, zoned, runs, last, stored, now, calls, histVars>>

\* Cron::remove stops this daemon's ticker (aborting a zoned one in its call)
\* and disables the row; other daemons tick until they restart.
remove(p) ==
    /\ plan[p].via = "tick" /\ schedule = "on" /\ (ticker[p] \/ pc[p] = "idle")
    /\ schedule' = "off" /\ ticker' = [ticker EXCEPT ![p] = FALSE]
    /\ IF zoned THEN Goto(p, "idle") /\ call' = [call EXCEPT ![p] = NoCall]
       ELSE UNCHANGED <<pc, call>>
    /\ Free
    /\ UNCHANGED <<plan, zoned, runs, last, stored, mounted, next, now, calls, histVars>>

\* Cron::start loads the enabled schedules.
start(p) ==
    /\ plan[p].via = "tick" /\ pc[p] = "idle" /\ schedule = "on" /\ ~ticker[p]
    /\ ticker' = [ticker EXCEPT ![p] = TRUE]
    /\ next' = [next EXCEPT ![p] = now + 1] /\ Free
    /\ UNCHANGED <<plan, zoned, runs, last, stored, schedule, mounted, now, callVars, histVars>>

crash(p) ==
    /\ ticker[p] \/ pc[p] # "idle"
    /\ Fault
    /\ Goto(p, "idle") /\ call' = [call EXCEPT ![p] = NoCall]
    /\ ticker' = [ticker EXCEPT ![p] = FALSE]
    /\ UNCHANGED <<plan, zoned, runs, last, stored, schedule, mounted, next, now, calls, histVars>>

clock ==
    /\ Users("tick") # {} /\ schedule # "none" /\ now < MaxTime
    /\ now' = now + 1 /\ Free
    /\ UNCHANGED <<plan, zoned, runs, last, stored, schedVars, callVars, histVars>>

-----------------------------------------------------------------------------
(* The queue, and the blob store. *)

Become(r, st) == runs' = [runs EXCEPT ![r].st = st]

\* exec.rs materialize_input: get_blob stamps the blob, or the run fails.
materialize_input(r) ==
    /\ r \in DOMAIN runs /\ runs[r].st = "pending"
    /\ LET b == runs[r].blob IN
        IF b = None THEN Become(r, "running") /\ UNCHANGED stored
        ELSE IF stored[b] = "none" THEN Become(r, "done") /\ UNCHANGED stored
        ELSE Become(r, "running") /\ stored' = [stored EXCEPT ![b] = "fresh"]
    /\ Free
    /\ UNCHANGED <<plan, zoned, last, schedVars, now, callVars, histVars>>

finish_run(r) ==
    /\ r \in DOMAIN runs /\ runs[r].st = "running" /\ Become(r, "done") /\ Free
    /\ UNCHANGED <<plan, zoned, last, stored, schedVars, now, callVars, histVars>>

\* A failed attempt counts as finished until its run is queued again.
requeue(r) ==
    /\ r \in DOMAIN runs /\ runs[r].st = "done" /\ Become(r, "pending") /\ Fault
    /\ retried' = retried + 1
    /\ UNCHANGED <<plan, zoned, last, stored, schedVars, now, callVars, made, swept, told>>

gc_old(r) ==
    /\ r \in DOMAIN runs /\ runs[r].st \in {"done", "refused"}
    /\ runs' = [q \in DOMAIN runs \ {r} |-> runs[q]]
    /\ swept' = Count(swept, runs[r].event) /\ Free
    /\ UNCHANGED <<plan, zoned, last, stored, schedVars, now, callVars, made, told, retried>>

put_blob(b) ==
    /\ stored[b] # "fresh" /\ \E p \in Procs : plan[p].blob = b
    /\ stored' = [stored EXCEPT ![b] = "fresh"] /\ Free
    /\ UNCHANGED <<plan, zoned, runs, last, schedVars, now, callVars, histVars>>

\* last_used_at falls behind the cutoff of the retention.
age(b) ==
    /\ stored[b] = "fresh"
    /\ stored' = [stored EXCEPT ![b] = "stale"] /\ Free
    /\ UNCHANGED <<plan, zoned, runs, last, schedVars, now, callVars, histVars>>

\* Mutant: the sweep forgets the schedules.
Referenced_by_runs(b) == \E r \in DOMAIN runs : runs[r].blob = b

Referenced(b) ==
    \/ \E r \in DOMAIN runs : runs[r].blob = b
    \/ schedule = "on" /\ \E p \in Users("tick") : plan[p].blob = b

gc_blobs ==
    /\ stored' = [b \in Blobs |->
                    IF stored[b] = "stale" /\ ~Referenced(b) THEN "none" ELSE stored[b]]
    /\ Free
    /\ UNCHANGED <<plan, zoned, runs, last, schedVars, now, callVars, histVars>>

-----------------------------------------------------------------------------
Call_step(p) ==
    \/ begin(p) \/ fire(p) \/ resolve_files(p)
    \/ agent_running_count(p) \/ agent_compute_seconds(p)
    \/ fire_triggers(p) \/ insert_run(p) \/ recall(p) \/ insert_refused_run(p)

Cron_step(p) ==
    schedule_begin(p) \/ insert_schedule(p) \/ remove(p) \/ start(p) \/ crash(p)

Queue_step(r) == materialize_input(r) \/ finish_run(r) \/ requeue(r) \/ gc_old(r)

Next ==
    \/ \E p \in Procs : Call_step(p) \/ Cron_step(p)
    \/ \E r \in Ids : Queue_step(r)
    \/ \E b \in Blobs : put_blob(b) \/ age(b)
    \/ gc_blobs \/ clock

Spec == Init /\ [][Next]_vars

-----------------------------------------------------------------------------
\* Types: rows carry a status and the call that made them; ids are given once.
TypeOK ==
    /\ plan \in Plans /\ zoned \in BOOLEAN /\ last \in 0 .. MaxRuns
    /\ DOMAIN runs \subseteq 1 .. last
    /\ \A r \in DOMAIN runs :
        /\ runs[r].st \in {"pending", "running", "done", "refused"}
        /\ runs[r].event \in Events \cup {<<None, 0>>} /\ runs[r].blob \in Blobs \cup {None}
    /\ stored \in [Blobs -> {"none", "fresh", "stale"}]
    /\ schedule \in {"none", "on", "off"} /\ mounted \in BOOLEAN
    /\ ticker \in [Procs -> BOOLEAN] /\ next \in [Procs -> 0 .. MaxTime + 1]
    /\ now \in 0 .. MaxTime
    /\ pc \in [Procs -> {"idle", "resolve", "count", "spent", "insert", "recall",
                         "refuse", "schedule"}]
    /\ calls \in [Procs -> 0 .. MaxCalls]
    /\ faults \in 0 .. MaxFaults

Once(e) == made[e] <= 1 + swept[e] /\ Cardinality(told[e]) <= 1 + swept[e]

\* A key (a caller's, a webhook delivery's, a tick's) makes one run, and every answer
\* names it, however processes race, fail, restart or are late; a second run comes only
\* after retention deleted the first.  Code: tick_key, enqueue_tick, zoned_ticker,
\* Cron::add, insert_run_idempotent, insert_refused_run.
OneRunPerKey == \A e \in Events : Once(e)

\* The quota is measured before, and not with, the insert: an agent has at most
\* LIMIT - 1 runs and one for each caller that may have passed the check at the
\* same time, not counting what webhooks and triggers enqueue unchecked, and
\* one for each run that was queued again; nor does it count reproduce_run's, which
\* are inserted unchecked as a trigger's are.  Code: quota.rs check, enqueue_tick,
\* run_script.
Checked == {"run_script", "tick"}
QuotaBound ==
    Cardinality({r \in DOMAIN runs : /\ runs[r].agent = "a" /\ Live(r)
                                     /\ runs[r].via \in Checked})
        <= LIMIT - 1 + retried
           + Cardinality({p \in Procs : plan[p].agent = "a" /\ plan[p].via \in Checked})

\* A file that was in the blob store when the row that mounts it was inserted is
\* there for as long as the row needs it, whatever the sweeps delete and however
\* often the run is queued again: a run's until the run itself is deleted, a
\* schedule's while it is enabled.  Code: gc_old, gc_blobs, get_blob, Cron::remove.
FilesKept ==
    /\ \A r \in DOMAIN runs :
        runs[r].sure /\ runs[r].blob # None => stored[runs[r].blob] # "none"
    /\ schedule = "on" /\ mounted =>
        \A p \in Users("tick") : plan[p].blob # None => stored[plan[p].blob] # "none"

-----------------------------------------------------------------------------
(* Promises of the repository that the code does not keep: TLC refutes them,  *)
(* see README.md, section 3.                                                  *)

\* cron.rs: "same schedule + same scheduled second -> same key, so daemons sharing
\* the database enqueue one run per tick".  But the key of a UTC tick is the second in
\* which the job runs, not the scheduled one: a daemon that is late makes a second
\* run of the tick.  Code: Cron::add, tick_key, insert_run_idempotent.
OneRunPerTick ==
    \A r, q \in DOMAIN runs :
        runs[r].via = "tick" /\ runs[q].via = "tick" /\ runs[r].due = runs[q].due => r = q

\* CHANGELOG: "Files are validated at creation (unknown handle -> no schedule)", so an
\* enabled schedule's files are in the blob store.  But the validation does not stamp
\* last_used_at, nor does a row mention the blob yet: the sweep may delete it before
\* the schedule is inserted.  Code: resolve_files, blob_exists, insert_schedule, gc_blobs.
ScheduleFilesKnown == schedule = "on" => \A p \in Users("tick") : Stored(p)
=============================================================================
