---------------------------- MODULE IntakeProofs ----------------------------
(***************************************************************************)
(* Proofs about Intake, for any number of callers and daemons, any calls,  *)
(* limits, files and faults: a key makes one run, the quota's bound with   *)
(* its race counted in, and the files of runs and schedules are kept.      *)
(***************************************************************************)
EXTENDS Intake, FiniteSetTheorems, TLAPS

-----------------------------------------------------------------------------
(* Types of rows and calls, which TypeOK leaves open.                      *)

Keys == Events \cup {<<None, 0>>}
Row == [st : {"pending", "running", "done", "refused"}, event : Keys, key : Keys,
        due : Nat, agent : {"a", None}, via : Vias, blob : Blobs \cup {None}, sure : BOOLEAN]
RowsOK == runs \in [DOMAIN runs -> Row]
CallRecord == [event : Keys, key : Keys, due : Nat]
CallsOK == call \in [Procs -> CallRecord]
HistOK ==
    /\ made \in [Events -> Nat] /\ swept \in [Events -> Nat]
    /\ told \in [Events -> SUBSET Ids] /\ retried \in Nat

\* Where a process stands tells what it is there for.
InCall(p) == pc[p] \in {"count", "spent", "insert", "recall", "refuse"}
PlaceOK ==
    \A p \in Procs :
        /\ ticker[p] => plan[p].via = "tick" /\ next[p] >= 1
        /\ pc[p] = "schedule" => plan[p].via = "tick"
        /\ pc[p] = "resolve" => plan[p].via \in {"tick", "run_script"}
        /\ plan[p].via = "tick" /\ zoned /\ InCall(p) => next[p] <= now

\* The key of a call is its event.
KeyOK ==
    \A p \in Procs :
        /\ plan[p].via # "tick" /\ pc[p] # "idle" =>
            call[p].event = <<plan[p].key, 0>> /\ call[p].key = call[p].event
        /\ plan[p].via = "tick" /\ InCall(p) =>
            call[p].event \in {"tick"} \X Seconds /\ call[p].key = call[p].event
Typed == TypeOK /\ RowsOK /\ CallsOK /\ HistOK /\ PlaceOK /\ KeyOK

-----------------------------------------------------------------------------
(* One run per key.                                                        *)

\* The rows of an event.
Rows(e) == {r \in DOMAIN runs : runs[r].event = e}

\* The key of a row is its event, and a key is given to one row only.
RowKeys ==
    /\ \A r \in DOMAIN runs : runs[r].key = runs[r].event
    /\ \A r, q \in DOMAIN runs :
        runs[r].key = runs[q].key /\ runs[r].key # <<None, 0>> => r = q

\* What was made of an event is in the table or was deleted from it, and so is what
\* callers were told of.
Kept(e) ==
    /\ made[e] <= 1 + swept[e]
    /\ Rows(e) = {} => made[e] <= swept[e]
    /\ Cardinality(told[e] \ Rows(e)) <= swept[e]
EventInv == RowKeys /\ \A e \in Events : Kept(e)

-----------------------------------------------------------------------------
(* The quota and the files.                                                *)

\* Runs that count, and callers that passed the check and have not inserted yet.
Counted == {r \in DOMAIN runs : runs[r].agent = "a" /\ Live(r) /\ runs[r].via \in Checked}
Callers == {p \in Procs : plan[p].agent = "a" /\ plan[p].via \in Checked}
Passed == {p \in Callers : pc[p] \in {"spent", "insert"}}
QuotaInv == Cardinality(Counted) + Cardinality(Passed) <= LIMIT - 1 + retried + Cardinality(Callers)

\* FilesKept, the files of runs and those of the schedule.
Mounted ==
    \A r \in DOMAIN runs : runs[r].sure /\ runs[r].blob # None => stored[runs[r].blob] # "none"
Scheduled ==
    schedule = "on" /\ mounted =>
        \A p \in Users("tick") : plan[p].blob # None => stored[plan[p].blob] # "none"

-----------------------------------------------------------------------------
(* Types.                                                                  *)

\* A plan is one of Plans, and its calls are well formed.
LEMMA PlanOK ==
  ASSUME Typed, NEW p \in Procs
  PROVE  /\ plan[p] \in Calls /\ plan[p].agent \in {"a", None} /\ plan[p].via \in Vias
         /\ plan[p].blob \in Blobs \cup {None} /\ plan[p].key \in {"k", "w", None}
         /\ <<plan[p].key, 0>> \in Keys
<1>1. plan[p] \in Calls
  BY IntakeAssumption DEF Typed, TypeOK
<1>2. QED
  BY <1>1 DEF Calls, Keys, Events

\* A new row takes the next id, and no other row changes.
LEMMA InsertRows ==
  ASSUME Typed, NEW p \in Procs, NEW st \in {"pending", "refused"}, Insert(p, st)
  PROVE  /\ last \in Nat /\ last' = last + 1 /\ last' \in Ids /\ last' \notin DOMAIN runs
         /\ DOMAIN runs' = DOMAIN runs \cup {last'}
         /\ \A r \in DOMAIN runs : runs'[r] = runs[r]
         /\ runs'[last'] \in Row /\ runs'[last'].st = st
         /\ runs'[last'].event = call[p].event /\ runs'[last'].key = call[p].key
         /\ runs'[last'].agent = plan[p].agent /\ runs'[last'].via = plan[p].via
         /\ runs'[last'].blob = (IF st = "pending" THEN plan[p].blob ELSE None)
         /\ runs'[last'].sure = Stored(p)
         /\ RowsOK' /\ made' = Count(made, call[p].event) /\ UNCHANGED <<swept, retried>>
<1>1. /\ last \in Nat /\ last < MaxRuns /\ last' = last + 1 /\ DOMAIN runs \subseteq 1 .. last
      /\ MaxRuns \in Nat
  BY IntakeAssumption DEF Typed, TypeOK, Insert
<1>2. last' \in Ids /\ last' \notin DOMAIN runs
  BY <1>1 DEF Ids
<1> DEFINE row == [st |-> st, event |-> call[p].event, key |-> call[p].key,
                   due |-> call[p].due, agent |-> plan[p].agent, via |-> plan[p].via,
                   blob |-> IF st = "pending" THEN plan[p].blob ELSE None,
                   sure |-> Stored(p)]
<1>3. runs' = [r \in DOMAIN runs \cup {last'} |-> IF r \in DOMAIN runs THEN runs[r] ELSE row]
  BY <1>1 DEF Insert
<1>4. row \in Row
  <2>1. call[p].event \in Keys /\ call[p].key \in Keys /\ call[p].due \in Nat /\ Stored(p) \in BOOLEAN
    BY DEF Typed, CallsOK, CallRecord, Stored
  <2>2. QED
    BY <2>1, PlanOK DEF Row
<1>5. runs'[last'] = row /\ DOMAIN runs' = DOMAIN runs \cup {last'} /\ \A r \in DOMAIN runs : runs'[r] = runs[r]
  BY <1>2, <1>3
<1>6. RowsOK'
  BY <1>3, <1>4, <1>5 DEF RowsOK, Typed
<1>7. QED
  BY <1>1, <1>2, <1>4, <1>5, <1>6 DEF Insert

\* A row that changes its status keeps the rest.
LEMMA BecomeRows ==
  ASSUME Typed, NEW r \in DOMAIN runs, NEW st \in {"pending", "running", "done"}, Become(r, st)
  PROVE  /\ DOMAIN runs' = DOMAIN runs /\ RowsOK'
         /\ \A q \in DOMAIN runs : q # r => runs'[q] = runs[q]
         /\ runs'[r].st = st /\ runs'[r].event = runs[r].event /\ runs'[r].key = runs[r].key
         /\ runs'[r].agent = runs[r].agent /\ runs'[r].via = runs[r].via
         /\ runs'[r].blob = runs[r].blob /\ runs'[r].sure = runs[r].sure
<1>1. runs \in [DOMAIN runs -> Row] /\ runs' = [runs EXCEPT ![r] = [runs[r] EXCEPT !.st = st]]
  BY DEF Typed, RowsOK, Become
<1>2. runs[r] \in Row
  BY <1>1
<1>3. [runs[r] EXCEPT !.st = st] \in Row
  BY <1>2 DEF Row
<1>4. DOMAIN runs' = DOMAIN runs /\ runs'[r] = [runs[r] EXCEPT !.st = st] /\ \A q \in DOMAIN runs : q # r => runs'[q] = runs[q]
  BY <1>1
<1>5. RowsOK'
  BY <1>1, <1>3, <1>4 DEF RowsOK
<1>6. QED
  BY <1>2, <1>4, <1>5 DEF Row

\* What a step can do to the table: nothing, insert a row, change a status, delete a row,
\* or tell of one.
TableSame == UNCHANGED <<runs, last, made, swept, retried, told>>
Inserts(p, st) ==
    /\ Insert(p, st)
    /\ \/ /\ pc[p] = "insert" /\ (plan[p].via = "trigger" \/ ~Conflict(p))
          /\ st = "pending" /\ Tell(p, last')
       \/ pc[p] = "refuse" /\ ~Conflict(p) /\ st = "refused" /\ UNCHANGED told
Changes(r, st) ==
    /\ Become(r, st) /\ UNCHANGED <<last, made, swept, told>>
    /\ st = "pending" => runs[r].st = "done" /\ retried' = retried + 1
    /\ st # "pending" => Live(r) /\ UNCHANGED retried

\* There is nothing else that it can do.
LEMMA TableStep ==
  ASSUME Typed, [Next]_vars
  PROVE  \/ TableSame
         \/ \E p \in Procs, st \in {"pending", "refused"} : Inserts(p, st)
         \/ \E r \in DOMAIN runs, st \in {"pending", "running", "done"} : Changes(r, st)
         \/ \E r \in Ids : gc_old(r)
         \/ \E p \in Procs : recall(p)
<1> DEFINE Goal ==
         \/ TableSame
         \/ \E p \in Procs, st \in {"pending", "refused"} : Inserts(p, st)
         \/ \E r \in DOMAIN runs, st \in {"pending", "running", "done"} : Changes(r, st)
         \/ \E r \in Ids : gc_old(r)
         \/ \E p \in Procs : recall(p)
<1> USE DEF schedVars, callVars, histVars, Free, Fault, NoRun, TableSame, Inserts, Changes
<1>1. ASSUME NEW p \in Procs, begin(p) PROVE Goal
  BY <1>1 DEF begin
<1>2. ASSUME NEW p \in Procs, fire(p) PROVE Goal
  BY <1>2 DEF fire
<1>3. ASSUME NEW p \in Procs, resolve_files(p) PROVE Goal
  BY <1>3 DEF resolve_files
<1>4. ASSUME NEW p \in Procs, agent_running_count(p) PROVE Goal
  BY <1>4 DEF agent_running_count
<1>5. ASSUME NEW p \in Procs, agent_compute_seconds(p) PROVE Goal
  BY <1>5 DEF agent_compute_seconds
<1>6. ASSUME NEW p \in Procs, fire_triggers(p) PROVE Goal
  BY <1>6 DEF fire_triggers, Insert, Tell
<1>7. ASSUME NEW p \in Procs, insert_run(p) PROVE Goal
  BY <1>7 DEF insert_run, Insert, Tell
<1>8. ASSUME NEW p \in Procs, recall(p) PROVE Goal
  BY <1>8
<1>9. ASSUME NEW p \in Procs, insert_refused_run(p) PROVE Goal
  BY <1>9 DEF insert_refused_run, Insert, Tell
<1>10. ASSUME NEW p \in Procs, schedule_begin(p) PROVE Goal
  BY <1>10 DEF schedule_begin
<1>11. ASSUME NEW p \in Procs, insert_schedule(p) PROVE Goal
  BY <1>11 DEF insert_schedule
<1>12. ASSUME NEW p \in Procs, remove(p) PROVE Goal
  BY <1>12 DEF remove
<1>13. ASSUME NEW p \in Procs, start(p) PROVE Goal
  BY <1>13 DEF start
<1>14. ASSUME NEW p \in Procs, crash(p) PROVE Goal
  BY <1>14 DEF crash
<1>15. ASSUME NEW r \in Ids, materialize_input(r) PROVE Goal
  BY <1>15 DEF materialize_input, Live
<1>16. ASSUME NEW r \in Ids, finish_run(r) PROVE Goal
  BY <1>16 DEF finish_run, Live
<1>17. ASSUME NEW r \in Ids, requeue(r) PROVE Goal
  BY <1>17 DEF requeue, Live
<1>18. ASSUME NEW r \in Ids, gc_old(r) PROVE Goal
  BY <1>18
<1>19. ASSUME NEW b \in Blobs, put_blob(b) PROVE Goal
  BY <1>19 DEF put_blob
<1>20. ASSUME NEW b \in Blobs, age(b) PROVE Goal
  BY <1>20 DEF age
<1>21. CASE gc_blobs
  BY <1>21 DEF gc_blobs
<1>22. CASE clock
  BY <1>22 DEF clock
<1>23. CASE UNCHANGED vars
  BY <1>23 DEF vars
<1>24. QED
  BY <1>1, <1>2, <1>3, <1>4, <1>5, <1>6, <1>7, <1>8, <1>9, <1>10, <1>11, <1>12, <1>13,
     <1>14, <1>15, <1>16, <1>17, <1>18, <1>19, <1>20, <1>21, <1>22, <1>23 DEF Next, Call_step,
     Cron_step, Queue_step

\* Rows stay rows and ids are given once.
TableOK ==
    /\ last \in 0 .. MaxRuns /\ DOMAIN runs \subseteq 1 .. last /\ RowsOK
    /\ made \in [Events -> Nat] /\ swept \in [Events -> Nat] /\ retried \in Nat

\* Every change of the table keeps it a table.
LEMMA TableTypeStep == Typed /\ [Next]_vars => TableOK'
<1> SUFFICES ASSUME Typed, [Next]_vars PROVE TableOK'
  OBVIOUS
<1>0. TableOK /\ MaxRuns \in Nat
  BY IntakeAssumption DEF Typed, TypeOK, HistOK, TableOK
<1>1. CASE TableSame
  BY <1>0, <1>1 DEF TableSame, TableOK, RowsOK
<1>2. ASSUME NEW p \in Procs, NEW st \in {"pending", "refused"}, Inserts(p, st) PROVE TableOK'
  <2>1. /\ last \in Nat /\ last' = last + 1 /\ last' \in Ids /\ RowsOK'
        /\ DOMAIN runs' = DOMAIN runs \cup {last'}
        /\ made' = Count(made, call[p].event) /\ UNCHANGED <<swept, retried>>
    BY <1>2, InsertRows DEF Inserts
  <2>2. made' \in [Events -> Nat]
    BY <1>0, <2>1 DEF Count, TableOK
  <2>3. QED
    BY <1>0, <2>1, <2>2 DEF TableOK, Ids
<1>3. ASSUME NEW r \in DOMAIN runs, NEW st \in {"pending", "running", "done"}, Changes(r, st)
      PROVE  TableOK'
  <2>1. DOMAIN runs' = DOMAIN runs /\ RowsOK'
    BY <1>3, BecomeRows DEF Changes
  <2>2. retried' \in Nat /\ UNCHANGED <<last, made, swept>>
    BY <1>0, <1>3 DEF Changes, TableOK
  <2>3. QED
    BY <1>0, <2>1, <2>2 DEF TableOK
<1>4. ASSUME NEW r \in Ids, gc_old(r) PROVE TableOK'
  <2>1. runs' = [q \in DOMAIN runs \ {r} |-> runs[q]] /\ UNCHANGED <<last, made, retried>>
    BY <1>4 DEF gc_old
  <2>2. swept' \in [Events -> Nat]
    BY <1>0, <1>4 DEF gc_old, Count, TableOK
  <2>3. RowsOK' /\ DOMAIN runs' \subseteq DOMAIN runs
    BY <1>0, <2>1 DEF RowsOK, TableOK
  <2>4. QED
    BY <1>0, <2>1, <2>2, <2>3 DEF TableOK
<1>5. ASSUME NEW p \in Procs, recall(p) PROVE TableOK'
  BY <1>0, <1>5 DEF recall, TableOK, RowsOK
<1>6. QED
  BY <1>1, <1>2, <1>3, <1>4, <1>5, TableStep

\* What the processes, the schedule and the store consist of.
ProcsOK ==
    /\ plan \in Plans /\ zoned \in BOOLEAN
    /\ stored \in [Blobs -> {"none", "fresh", "stale"}]
    /\ schedule \in {"none", "on", "off"} /\ mounted \in BOOLEAN
    /\ ticker \in [Procs -> BOOLEAN] /\ next \in [Procs -> 0 .. MaxTime + 1]
    /\ now \in 0 .. MaxTime
    /\ pc \in [Procs -> {"idle", "resolve", "count", "spent", "insert", "recall",
                         "refuse", "schedule"}]
    /\ calls \in [Procs -> 0 .. MaxCalls]
    /\ faults \in 0 .. MaxFaults

\* Next seconds stay within the clock's range: a call of a zoned ticker is never early.
LEMMA ProcsStep == Typed /\ [Next]_vars => ProcsOK'
<1> SUFFICES ASSUME Typed, [Next]_vars PROVE ProcsOK'
  OBVIOUS
<1>0. TypeOK /\ RowsOK /\ CallsOK /\ HistOK /\ PlaceOK /\ KeyOK
  BY DEF Typed
<1> USE <1>0
<1> USE IntakeAssumption DEF TypeOK, PlaceOK, ProcsOK
<1> USE DEF schedVars, callVars, histVars, Free, Fault, NoRun, Goto, Going, Return, Decide, Become
<1>1. ASSUME NEW p \in Procs, begin(p) PROVE ProcsOK'
  BY <1>1 DEF begin, webhook_idempotency_key
<1>2. ASSUME NEW p \in Procs, fire(p) PROVE ProcsOK'
  BY <1>2 DEF fire, tick_key
<1>3. ASSUME NEW p \in Procs, resolve_files(p) PROVE ProcsOK'
  BY <1>3 DEF resolve_files
<1>4. ASSUME NEW p \in Procs, agent_running_count(p) PROVE ProcsOK'
  <2>1. next' \in [Procs -> 0 .. MaxTime + 1]
    BY <1>4 DEF agent_running_count, InCall
  <2>2. pc' \in [Procs -> {"idle", "resolve", "count", "spent", "insert", "recall", "refuse", "schedule"}]
    BY <1>4 DEF agent_running_count
  <2>3. faults' \in 0 .. MaxFaults
    BY <1>4 DEF agent_running_count
  <2>4. QED
    BY <1>4, <2>1, <2>2, <2>3 DEF agent_running_count
<1>5. ASSUME NEW p \in Procs, agent_compute_seconds(p) PROVE ProcsOK'
  <2>1. next' \in [Procs -> 0 .. MaxTime + 1]
    BY <1>5 DEF agent_compute_seconds, InCall
  <2>2. pc' \in [Procs -> {"idle", "resolve", "count", "spent", "insert", "recall", "refuse", "schedule"}]
    BY <1>5 DEF agent_compute_seconds
  <2>3. faults' \in 0 .. MaxFaults
    BY <1>5 DEF agent_compute_seconds
  <2>4. QED
    BY <1>5, <2>1, <2>2, <2>3 DEF agent_compute_seconds
<1>6. ASSUME NEW p \in Procs, fire_triggers(p) PROVE ProcsOK'
  <2>1. next' \in [Procs -> 0 .. MaxTime + 1]
    BY <1>6 DEF fire_triggers, InCall
  <2>2. pc' \in [Procs -> {"idle", "resolve", "count", "spent", "insert", "recall", "refuse", "schedule"}]
    BY <1>6 DEF fire_triggers
  <2>3. faults' \in 0 .. MaxFaults
    BY <1>6 DEF fire_triggers
  <2>4. QED
    BY <1>6, <2>1, <2>2, <2>3 DEF fire_triggers
<1>7. ASSUME NEW p \in Procs, insert_run(p) PROVE ProcsOK'
  <2>1. next' \in [Procs -> 0 .. MaxTime + 1]
    BY <1>7 DEF insert_run, InCall
  <2>2. pc' \in [Procs -> {"idle", "resolve", "count", "spent", "insert", "recall", "refuse", "schedule"}]
    BY <1>7 DEF insert_run
  <2>3. faults' \in 0 .. MaxFaults
    BY <1>7 DEF insert_run
  <2>4. QED
    BY <1>7, <2>1, <2>2, <2>3 DEF insert_run
<1>8. ASSUME NEW p \in Procs, recall(p) PROVE ProcsOK'
  <2>1. next' \in [Procs -> 0 .. MaxTime + 1]
    BY <1>8 DEF recall, InCall
  <2>2. pc' \in [Procs -> {"idle", "resolve", "count", "spent", "insert", "recall", "refuse", "schedule"}]
    BY <1>8 DEF recall
  <2>3. faults' \in 0 .. MaxFaults
    BY <1>8 DEF recall
  <2>4. QED
    BY <1>8, <2>1, <2>2, <2>3 DEF recall
<1>9. ASSUME NEW p \in Procs, insert_refused_run(p) PROVE ProcsOK'
  <2>1. next' \in [Procs -> 0 .. MaxTime + 1]
    BY <1>9 DEF insert_refused_run, InCall
  <2>2. pc' \in [Procs -> {"idle", "resolve", "count", "spent", "insert", "recall", "refuse", "schedule"}]
    BY <1>9 DEF insert_refused_run
  <2>3. faults' \in 0 .. MaxFaults
    BY <1>9 DEF insert_refused_run
  <2>4. QED
    BY <1>9, <2>1, <2>2, <2>3 DEF insert_refused_run
<1>10. ASSUME NEW p \in Procs, schedule_begin(p) PROVE ProcsOK'
  BY <1>10 DEF schedule_begin
<1>11. ASSUME NEW p \in Procs, insert_schedule(p) PROVE ProcsOK'
  <2>1. mounted' \in BOOLEAN
    BY <1>11 DEF insert_schedule, Stored
  <2>2. schedule' \in {"on", "off"} /\ faults' \in 0 .. MaxFaults
    BY <1>11 DEF insert_schedule
  <2>3. ticker' \in [Procs -> BOOLEAN]
    BY <1>11 DEF insert_schedule
  <2>4. next' \in [Procs -> 0 .. MaxTime + 1]
    BY <1>11 DEF insert_schedule
  <2>5. QED
    BY <1>11, <2>1, <2>2, <2>3, <2>4 DEF insert_schedule
<1>12. ASSUME NEW p \in Procs, remove(p) PROVE ProcsOK'
  BY <1>12 DEF remove
<1>13. ASSUME NEW p \in Procs, start(p) PROVE ProcsOK'
  BY <1>13 DEF start
<1>14. ASSUME NEW p \in Procs, crash(p) PROVE ProcsOK'
  BY <1>14 DEF crash
<1>15. ASSUME NEW r \in Ids, materialize_input(r) PROVE ProcsOK'
  BY <1>15 DEF materialize_input
<1>16. ASSUME NEW r \in Ids, finish_run(r) PROVE ProcsOK'
  BY <1>16 DEF finish_run
<1>17. ASSUME NEW r \in Ids, requeue(r) PROVE ProcsOK'
  BY <1>17 DEF requeue
<1>18. ASSUME NEW r \in Ids, gc_old(r) PROVE ProcsOK'
  BY <1>18 DEF gc_old
<1>19. ASSUME NEW b \in Blobs, put_blob(b) PROVE ProcsOK'
  BY <1>19 DEF put_blob
<1>20. ASSUME NEW b \in Blobs, age(b) PROVE ProcsOK'
  BY <1>20 DEF age
<1>21. CASE gc_blobs
  BY <1>21 DEF gc_blobs
<1>22. CASE clock
  BY <1>22 DEF clock
<1>23. CASE UNCHANGED vars
  BY <1>23 DEF vars
<1>24. QED
  BY <1>1, <1>2, <1>3, <1>4, <1>5, <1>6, <1>7, <1>8, <1>9, <1>10, <1>11, <1>12, <1>13,
     <1>14, <1>15, <1>16, <1>17, <1>18, <1>19, <1>20, <1>21, <1>22, <1>23 DEF Next, Call_step,
     Cron_step, Queue_step

\* A call holds a key and its event.
LEMMA CallsStep == Typed /\ [Next]_vars => CallsOK'
<1> SUFFICES ASSUME Typed, [Next]_vars PROVE CallsOK'
  OBVIOUS
<1>0. TypeOK /\ RowsOK /\ CallsOK /\ HistOK /\ PlaceOK /\ KeyOK
  BY DEF Typed
<1> USE <1>0
<1> USE DEF schedVars, callVars, histVars, Free, Fault, NoRun, Goto, Going, Return, Decide, Become
<1>1. ASSUME NEW p \in Procs, begin(p) PROVE CallsOK'
  <2>1. <<plan[p].key, 0>> \in Keys
    BY PlanOK
  <2>2. QED
    BY <1>1, <2>1 DEF begin, webhook_idempotency_key, CallsOK, CallRecord, NoCall, Keys
<1>2. ASSUME NEW p \in Procs, fire(p) PROVE CallsOK'
  <2>1. next[p] \in Seconds /\ now \in Seconds
    BY <1>2, IntakeAssumption DEF fire, PlaceOK, TypeOK, Seconds
  <2>2. <<"tick", next[p]>> \in Keys /\ <<"tick", now>> \in Keys
    BY <2>1 DEF Keys, Events
  <2>3. next[p] \in Nat
    BY <2>1 DEF Seconds
  <2>4. QED
    BY <1>2, <2>2, <2>3 DEF fire, tick_key, CallsOK, CallRecord
<1>3. ASSUME NEW p \in Procs, resolve_files(p) PROVE CallsOK'
  <2>1. UNCHANGED call \/ call' = [call EXCEPT ![p] = NoCall]
    BY <1>3 DEF resolve_files
  <2>2. NoCall \in CallRecord
    BY DEF NoCall, Keys, CallRecord
  <2>3. CASE call' = call
    BY <2>3 DEF CallsOK
  <2>4. CASE call' = [call EXCEPT ![p] = NoCall]
    BY <2>2, <2>4 DEF CallsOK
  <2>5. QED
    BY <2>1, <2>3, <2>4
<1>4. ASSUME NEW p \in Procs, agent_running_count(p) PROVE CallsOK'
  <2>1. UNCHANGED call \/ call' = [call EXCEPT ![p] = NoCall]
    BY <1>4 DEF agent_running_count
  <2>2. NoCall \in CallRecord
    BY DEF NoCall, Keys, CallRecord
  <2>3. CASE call' = call
    BY <2>3 DEF CallsOK
  <2>4. CASE call' = [call EXCEPT ![p] = NoCall]
    BY <2>2, <2>4 DEF CallsOK
  <2>5. QED
    BY <2>1, <2>3, <2>4
<1>5. ASSUME NEW p \in Procs, agent_compute_seconds(p) PROVE CallsOK'
  <2>1. UNCHANGED call \/ call' = [call EXCEPT ![p] = NoCall]
    BY <1>5 DEF agent_compute_seconds
  <2>2. NoCall \in CallRecord
    BY DEF NoCall, Keys, CallRecord
  <2>3. CASE call' = call
    BY <2>3 DEF CallsOK
  <2>4. CASE call' = [call EXCEPT ![p] = NoCall]
    BY <2>2, <2>4 DEF CallsOK
  <2>5. QED
    BY <2>1, <2>3, <2>4
<1>6. ASSUME NEW p \in Procs, fire_triggers(p) PROVE CallsOK'
  BY <1>6 DEF fire_triggers, CallsOK, CallRecord, NoCall, Keys
<1>7. ASSUME NEW p \in Procs, insert_run(p) PROVE CallsOK'
  <2>1. UNCHANGED call \/ call' = [call EXCEPT ![p] = NoCall]
    BY <1>7 DEF insert_run
  <2>2. NoCall \in CallRecord
    BY DEF NoCall, Keys, CallRecord
  <2>3. CASE call' = call
    BY <2>3 DEF CallsOK
  <2>4. CASE call' = [call EXCEPT ![p] = NoCall]
    BY <2>2, <2>4 DEF CallsOK
  <2>5. QED
    BY <2>1, <2>3, <2>4
<1>8. ASSUME NEW p \in Procs, recall(p) PROVE CallsOK'
  BY <1>8 DEF recall, CallsOK, CallRecord, NoCall, Keys
<1>9. ASSUME NEW p \in Procs, insert_refused_run(p) PROVE CallsOK'
  BY <1>9 DEF insert_refused_run, CallsOK, CallRecord, NoCall, Keys
<1>10. ASSUME NEW p \in Procs, schedule_begin(p) PROVE CallsOK'
  BY <1>10 DEF schedule_begin, CallsOK, CallRecord, NoCall, Keys
<1>11. ASSUME NEW p \in Procs, insert_schedule(p) PROVE CallsOK'
  BY <1>11 DEF insert_schedule, CallsOK, CallRecord, NoCall, Keys
<1>12. ASSUME NEW p \in Procs, remove(p) PROVE CallsOK'
  <2>1. UNCHANGED call \/ call' = [call EXCEPT ![p] = NoCall]
    BY <1>12 DEF remove
  <2>2. NoCall \in CallRecord
    BY DEF NoCall, Keys, CallRecord
  <2>3. CASE call' = call
    BY <2>3 DEF CallsOK
  <2>4. CASE call' = [call EXCEPT ![p] = NoCall]
    BY <2>2, <2>4 DEF CallsOK
  <2>5. QED
    BY <2>1, <2>3, <2>4
<1>13. ASSUME NEW p \in Procs, start(p) PROVE CallsOK'
  BY <1>13 DEF start, CallsOK, CallRecord, NoCall, Keys
<1>14. ASSUME NEW p \in Procs, crash(p) PROVE CallsOK'
  BY <1>14 DEF crash, CallsOK, CallRecord, NoCall, Keys
<1>15. ASSUME NEW r \in Ids, materialize_input(r) PROVE CallsOK'
  BY <1>15 DEF materialize_input, CallsOK, CallRecord, NoCall, Keys
<1>16. ASSUME NEW r \in Ids, finish_run(r) PROVE CallsOK'
  BY <1>16 DEF finish_run, CallsOK, CallRecord, NoCall, Keys
<1>17. ASSUME NEW r \in Ids, requeue(r) PROVE CallsOK'
  BY <1>17 DEF requeue, CallsOK, CallRecord, NoCall, Keys
<1>18. ASSUME NEW r \in Ids, gc_old(r) PROVE CallsOK'
  BY <1>18 DEF gc_old, CallsOK, CallRecord, NoCall, Keys
<1>19. ASSUME NEW b \in Blobs, put_blob(b) PROVE CallsOK'
  BY <1>19 DEF put_blob, CallsOK, CallRecord, NoCall, Keys
<1>20. ASSUME NEW b \in Blobs, age(b) PROVE CallsOK'
  BY <1>20 DEF age, CallsOK, CallRecord, NoCall, Keys
<1>21. CASE gc_blobs
  BY <1>21 DEF gc_blobs, CallsOK, CallRecord, NoCall, Keys
<1>22. CASE clock
  BY <1>22 DEF clock, CallsOK, CallRecord, NoCall, Keys
<1>23. CASE UNCHANGED vars
  BY <1>23 DEF vars, CallsOK, CallRecord, NoCall, Keys
<1>24. QED
  BY <1>1, <1>2, <1>3, <1>4, <1>5, <1>6, <1>7, <1>8, <1>9, <1>10, <1>11, <1>12, <1>13,
     <1>14, <1>15, <1>16, <1>17, <1>18, <1>19, <1>20, <1>21, <1>22, <1>23 DEF Next, Call_step,
     Cron_step, Queue_step

\* Answers name ids that were given.
LEMMA ToldStep == Typed /\ [Next]_vars => told' \in [Events -> SUBSET Ids]
<1> SUFFICES ASSUME Typed, [Next]_vars PROVE told' \in [Events -> SUBSET Ids]
  OBVIOUS
<1>0. told \in [Events -> SUBSET Ids]
  BY DEF Typed, HistOK
<1>1. CASE UNCHANGED told
  BY <1>0, <1>1
<1>2. ASSUME NEW p \in Procs, NEW r \in Ids, Tell(p, r) PROVE told' \in [Events -> SUBSET Ids]
  BY <1>0, <1>2 DEF Tell
<1>3. ASSUME NEW p \in Procs, NEW st \in {"pending", "refused"}, Inserts(p, st), ~UNCHANGED told
      PROVE  last' \in Ids /\ Tell(p, last')
  BY <1>3, InsertRows DEF Inserts
<1>4. ASSUME NEW p \in Procs, recall(p), ~UNCHANGED told PROVE \E r \in Ids : Tell(p, r)
  <2>1. DOMAIN runs \subseteq Ids
    BY IntakeAssumption DEF Typed, TypeOK, Ids
  <2>2. QED
    BY <1>4, <2>1 DEF recall, WithKey
<1>5. QED
  BY <1>1, <1>2, <1>3, <1>4, TableStep DEF TableSame, Changes, gc_old

\* Where a process stands tells what it is there for.
LEMMA PlaceStep == Typed /\ [Next]_vars => PlaceOK'
<1> SUFFICES ASSUME Typed, [Next]_vars PROVE PlaceOK'
  OBVIOUS
<1>0. TypeOK /\ RowsOK /\ CallsOK /\ HistOK /\ PlaceOK /\ KeyOK
  BY DEF Typed
<1> USE <1>0
<1> USE IntakeAssumption DEF TypeOK, PlaceOK, InCall
<1> USE DEF schedVars, callVars, histVars, Free, Fault, NoRun, Goto, Going, Return, Decide, Become
<1>1. ASSUME NEW p \in Procs, begin(p) PROVE PlaceOK'
  BY <1>1 DEF begin
<1>2. ASSUME NEW p \in Procs, fire(p) PROVE PlaceOK'
  BY <1>2 DEF fire
<1>3. ASSUME NEW p \in Procs, resolve_files(p) PROVE PlaceOK'
  BY <1>3 DEF resolve_files
<1>4. ASSUME NEW p \in Procs, agent_running_count(p) PROVE PlaceOK'
  BY <1>4 DEF agent_running_count
<1>5. ASSUME NEW p \in Procs, agent_compute_seconds(p) PROVE PlaceOK'
  BY <1>5 DEF agent_compute_seconds
<1>6. ASSUME NEW p \in Procs, fire_triggers(p) PROVE PlaceOK'
  BY <1>6 DEF fire_triggers
<1>7. ASSUME NEW p \in Procs, insert_run(p) PROVE PlaceOK'
  BY <1>7 DEF insert_run
<1>8. ASSUME NEW p \in Procs, recall(p) PROVE PlaceOK'
  BY <1>8 DEF recall
<1>9. ASSUME NEW p \in Procs, insert_refused_run(p) PROVE PlaceOK'
  BY <1>9 DEF insert_refused_run
<1>10. ASSUME NEW p \in Procs, schedule_begin(p) PROVE PlaceOK'
  BY <1>10 DEF schedule_begin
<1>11. ASSUME NEW p \in Procs, insert_schedule(p) PROVE PlaceOK'
  BY <1>11 DEF insert_schedule
<1>12. ASSUME NEW p \in Procs, remove(p) PROVE PlaceOK'
  BY <1>12 DEF remove
<1>13. ASSUME NEW p \in Procs, start(p) PROVE PlaceOK'
  BY <1>13 DEF start
<1>14. ASSUME NEW p \in Procs, crash(p) PROVE PlaceOK'
  BY <1>14 DEF crash
<1>15. ASSUME NEW r \in Ids, materialize_input(r) PROVE PlaceOK'
  BY <1>15 DEF materialize_input
<1>16. ASSUME NEW r \in Ids, finish_run(r) PROVE PlaceOK'
  BY <1>16 DEF finish_run
<1>17. ASSUME NEW r \in Ids, requeue(r) PROVE PlaceOK'
  BY <1>17 DEF requeue
<1>18. ASSUME NEW r \in Ids, gc_old(r) PROVE PlaceOK'
  BY <1>18 DEF gc_old
<1>19. ASSUME NEW b \in Blobs, put_blob(b) PROVE PlaceOK'
  BY <1>19 DEF put_blob
<1>20. ASSUME NEW b \in Blobs, age(b) PROVE PlaceOK'
  BY <1>20 DEF age
<1>21. CASE gc_blobs
  BY <1>21 DEF gc_blobs
<1>22. CASE clock
  BY <1>22 DEF clock
<1>23. CASE UNCHANGED vars
  BY <1>23 DEF vars
<1>24. QED
  BY <1>1, <1>2, <1>3, <1>4, <1>5, <1>6, <1>7, <1>8, <1>9, <1>10, <1>11, <1>12, <1>13,
     <1>14, <1>15, <1>16, <1>17, <1>18, <1>19, <1>20, <1>21, <1>22, <1>23 DEF Next, Call_step,
     Cron_step, Queue_step

\* A call keeps its key until it returns.
LEMMA KeyStep == Typed /\ [Next]_vars => KeyOK'
<1> SUFFICES ASSUME Typed, [Next]_vars PROVE KeyOK'
  OBVIOUS
<1>0. TypeOK /\ RowsOK /\ CallsOK /\ HistOK /\ PlaceOK /\ KeyOK
  BY DEF Typed
<1> USE <1>0
<1> USE DEF TypeOK, CallsOK, KeyOK, InCall
<1> USE DEF schedVars, callVars, histVars, Free, Fault, NoRun, Goto, Going, Return, Decide, Become
<1>1. ASSUME NEW p \in Procs, begin(p) PROVE KeyOK'
  BY <1>1 DEF begin, webhook_idempotency_key
<1>2. ASSUME NEW p \in Procs, fire(p) PROVE KeyOK'
  <2>1. next[p] \in Seconds /\ now \in Seconds
    BY <1>2, IntakeAssumption DEF fire, PlaceOK, TypeOK, Seconds
  <2>2. QED
    BY <1>2, <2>1 DEF fire, tick_key, PlaceOK
<1>3. ASSUME NEW p \in Procs, resolve_files(p) PROVE KeyOK'
  <2>1. /\ UNCHANGED <<plan, zoned>>
        /\ \A q \in Procs : q # p => pc'[q] = pc[q] /\ call'[q] = call[q]
    BY <1>3 DEF resolve_files
  <2>2. /\ pc[p] = "resolve"
        /\ \/ pc'[p] = "idle"
           \/ /\ pc'[p] = IF plan[p].via = "tick" THEN "schedule" ELSE "count"
              /\ call'[p].event = call[p].event /\ call'[p].key = call[p].key
    BY <1>3 DEF resolve_files
  <2>3. QED
    BY <2>1, <2>2
<1>4. ASSUME NEW p \in Procs, agent_running_count(p) PROVE KeyOK'
  BY <1>4 DEF agent_running_count
<1>5. ASSUME NEW p \in Procs, agent_compute_seconds(p) PROVE KeyOK'
  BY <1>5 DEF agent_compute_seconds
<1>6. ASSUME NEW p \in Procs, fire_triggers(p) PROVE KeyOK'
  BY <1>6 DEF fire_triggers
<1>7. ASSUME NEW p \in Procs, insert_run(p) PROVE KeyOK'
  BY <1>7 DEF insert_run
<1>8. ASSUME NEW p \in Procs, recall(p) PROVE KeyOK'
  BY <1>8 DEF recall
<1>9. ASSUME NEW p \in Procs, insert_refused_run(p) PROVE KeyOK'
  BY <1>9 DEF insert_refused_run
<1>10. ASSUME NEW p \in Procs, schedule_begin(p) PROVE KeyOK'
  BY <1>10 DEF schedule_begin
<1>11. ASSUME NEW p \in Procs, insert_schedule(p) PROVE KeyOK'
  BY <1>11 DEF insert_schedule
<1>12. ASSUME NEW p \in Procs, remove(p) PROVE KeyOK'
  BY <1>12 DEF remove
<1>13. ASSUME NEW p \in Procs, start(p) PROVE KeyOK'
  BY <1>13 DEF start
<1>14. ASSUME NEW p \in Procs, crash(p) PROVE KeyOK'
  BY <1>14 DEF crash
<1>15. ASSUME NEW r \in Ids, materialize_input(r) PROVE KeyOK'
  BY <1>15 DEF materialize_input
<1>16. ASSUME NEW r \in Ids, finish_run(r) PROVE KeyOK'
  BY <1>16 DEF finish_run
<1>17. ASSUME NEW r \in Ids, requeue(r) PROVE KeyOK'
  BY <1>17 DEF requeue
<1>18. ASSUME NEW r \in Ids, gc_old(r) PROVE KeyOK'
  BY <1>18 DEF gc_old
<1>19. ASSUME NEW b \in Blobs, put_blob(b) PROVE KeyOK'
  BY <1>19 DEF put_blob
<1>20. ASSUME NEW b \in Blobs, age(b) PROVE KeyOK'
  BY <1>20 DEF age
<1>21. CASE gc_blobs
  BY <1>21 DEF gc_blobs
<1>22. CASE clock
  BY <1>22 DEF clock
<1>23. CASE UNCHANGED vars
  BY <1>23 DEF vars
<1>24. QED
  BY <1>1, <1>2, <1>3, <1>4, <1>5, <1>6, <1>7, <1>8, <1>9, <1>10, <1>11, <1>12, <1>13,
     <1>14, <1>15, <1>16, <1>17, <1>18, <1>19, <1>20, <1>21, <1>22, <1>23 DEF Next, Call_step,
     Cron_step, Queue_step

\* All of this is inductive.
LEMMA TypedHolds == Spec => []Typed
<1>1. Init => Typed
  <2> SUFFICES ASSUME Init PROVE Typed
    OBVIOUS
  <2>1. TypeOK
    <3>1. zoned \in BOOLEAN /\ DOMAIN runs = {}
      BY DEF Init
    <3>2. last \in 0 .. MaxRuns /\ now \in 0 .. MaxTime /\ faults \in 0 .. MaxFaults
      BY IntakeAssumption DEF Init
    <3>3. next \in [Procs -> 0 .. MaxTime + 1] /\ calls \in [Procs -> 0 .. MaxCalls]
      BY IntakeAssumption DEF Init
    <3>4. QED
      BY <3>1, <3>2, <3>3 DEF Init, TypeOK
  <2>2. RowsOK /\ CallsOK /\ HistOK /\ PlaceOK /\ KeyOK
    BY DEF Init, RowsOK, CallsOK, HistOK, PlaceOK, KeyOK, CallRecord, NoCall, Keys, InCall
  <2>3. QED
    BY <2>1, <2>2 DEF Typed
<1>2. Typed /\ [Next]_vars => Typed'
  <2> SUFFICES ASSUME Typed, [Next]_vars PROVE Typed'
    OBVIOUS
  <2>1. TableOK' /\ ProcsOK' /\ CallsOK' /\ PlaceOK' /\ KeyOK' /\ told' \in [Events -> SUBSET Ids]
    BY TableTypeStep, ProcsStep, CallsStep, PlaceStep, KeyStep, ToldStep
  <2>2. TypeOK'
    BY <2>1 DEF TypeOK, TableOK, ProcsOK, RowsOK, Row, Keys
  <2>3. QED
    BY <2>1, <2>2 DEF Typed, TableOK, HistOK
<1>3. QED
  BY <1>1, <1>2, PTL DEF Spec

\* Every reachable state of the tables, the tickers and the calls under way is well
\* typed, for any workload.
THEOREM IntakeTypeCorrect == Spec => []TypeOK
<1>1. Typed => TypeOK
  BY DEF Typed
<1>2. QED
  BY <1>1, TypedHolds, PTL

-----------------------------------------------------------------------------
(* One run per key.                                                        *)

\* The calls and the schedule's clock are those of the behaviour.
LEMMA PlanSame == [Next]_vars => UNCHANGED <<plan, zoned>>
<1>1. ASSUME NEW p \in Procs, Call_step(p) PROVE UNCHANGED <<plan, zoned>>
  <2>1. CASE begin(p) \/ fire(p) \/ resolve_files(p)
    BY <2>1 DEF begin, fire, resolve_files
  <2>2. CASE agent_running_count(p) \/ agent_compute_seconds(p)
    BY <2>2 DEF agent_running_count, agent_compute_seconds
  <2>3. CASE fire_triggers(p) \/ insert_run(p) \/ recall(p) \/ insert_refused_run(p)
    BY <2>3 DEF fire_triggers, insert_run, recall, insert_refused_run
  <2>4. QED
    BY <1>1, <2>1, <2>2, <2>3 DEF Call_step
<1>2. ASSUME NEW p \in Procs, Cron_step(p) PROVE UNCHANGED <<plan, zoned>>
  BY <1>2 DEF Cron_step, schedule_begin, insert_schedule, remove, start, crash
<1>3. ASSUME NEW r \in Ids, Queue_step(r) PROVE UNCHANGED <<plan, zoned>>
  BY <1>3 DEF Queue_step, materialize_input, finish_run, requeue, gc_old
<1>4. ASSUME NEW b \in Blobs, put_blob(b) \/ age(b) PROVE UNCHANGED <<plan, zoned>>
  BY <1>4 DEF put_blob, age
<1>5. CASE gc_blobs \/ clock \/ UNCHANGED vars
  BY <1>5 DEF gc_blobs, clock, vars
<1>6. QED
  BY <1>1, <1>2, <1>3, <1>4, <1>5 DEF Next

\* An event of the table is a key, none of them the missing one.
LEMMA EventFacts == \A e \in Events : e # <<None, 0>>
  BY IntakeAssumption DEF Events

\* A set grows by one at most.
LEMMA AddOne ==
  ASSUME NEW S, IsFiniteSet(S), NEW x
  PROVE  /\ IsFiniteSet(S \cup {x}) /\ Cardinality(S) \in Nat
         /\ Cardinality(S \cup {x}) \in Nat /\ Cardinality(S \cup {x}) <= Cardinality(S) + 1
<1>1. IsFiniteSet(S \cup {x}) /\ Cardinality(S) \in Nat
  BY FS_AddElement, FS_CardinalityType
<1>2. CASE x \in S
  <2>1. S \cup {x} = S
    BY <1>2
  <2>2. QED
    BY <1>1, <2>1
<1>3. CASE x \notin S
  BY <1>1, <1>3, FS_AddElement
<1>4. QED
  BY <1>2, <1>3

\* The key under which a process that is about to insert or to recall would file a run.
LEMMA CallKey ==
  ASSUME Typed, NEW p \in Procs, InCall(p)
  PROVE  /\ call[p].key = call[p].event
         /\ plan[p].via = "trigger" => call[p].key = <<None, 0>> /\ call[p].event = <<None, 0>>
<1>1. CASE plan[p].via # "tick"
  <2>1. call[p].event = <<plan[p].key, 0>> /\ call[p].key = call[p].event
    BY <1>1 DEF Typed, KeyOK, InCall
  <2>2. plan[p].via = "trigger" => plan[p].key = None
    BY IntakeAssumption DEF Typed, TypeOK
  <2>3. QED
    BY <1>1, <2>1, <2>2
<1>2. CASE plan[p].via = "tick"
  BY <1>2 DEF Typed, KeyOK
<1>3. QED
  BY <1>1, <1>2

\* No two rows have the same key: a conflicting insert does nothing.
LEMMA RowKeysStep == Typed /\ RowKeys /\ [Next]_vars => RowKeys'
<1> SUFFICES ASSUME Typed, RowKeys, [Next]_vars PROVE RowKeys'
  OBVIOUS
<1>1. CASE UNCHANGED runs
  BY <1>1 DEF RowKeys
<1>2. ASSUME NEW p \in Procs, NEW st \in {"pending", "refused"}, Inserts(p, st) PROVE RowKeys'
  <2>1. /\ DOMAIN runs' = DOMAIN runs \cup {last'} /\ last' \notin DOMAIN runs
        /\ \A r \in DOMAIN runs : runs'[r] = runs[r]
        /\ runs'[last'].event = call[p].event /\ runs'[last'].key = call[p].key
    BY <1>2, InsertRows DEF Inserts
  <2>2. InCall(p)
    BY <1>2 DEF Inserts, InCall
  <2>3. call[p].key # <<None, 0>> => \A r \in DOMAIN runs : runs[r].key # call[p].key
    BY <1>2, <2>2, CallKey DEF Inserts, Conflict, WithKey
  <2>4. \A r \in DOMAIN runs' : runs'[r].key = runs'[r].event
    BY <2>1, <2>2, CallKey DEF RowKeys
  <2>5. \A r, q \in DOMAIN runs' :
          runs'[r].key = runs'[q].key /\ runs'[r].key # <<None, 0>> => r = q
    BY <2>1, <2>3 DEF RowKeys
  <2>6. QED
    BY <2>4, <2>5 DEF RowKeys
<1>3. ASSUME NEW r \in DOMAIN runs, NEW st \in {"pending", "running", "done"}, Changes(r, st)
      PROVE  RowKeys'
  <2>1. DOMAIN runs' = DOMAIN runs /\ \A q \in DOMAIN runs : runs'[q].event = runs[q].event /\ runs'[q].key = runs[q].key
    BY <1>3, BecomeRows DEF Changes
  <2>2. QED
    BY <2>1 DEF RowKeys
<1>4. ASSUME NEW r \in Ids, gc_old(r) PROVE RowKeys'
  <2>1. DOMAIN runs' \subseteq DOMAIN runs /\ \A q \in DOMAIN runs' : runs'[q] = runs[q]
    BY <1>4 DEF gc_old
  <2>2. QED
    BY <2>1 DEF RowKeys
<1>5. QED
  BY <1>1, <1>2, <1>3, <1>4, TableStep DEF TableSame, recall

\* An event's row is inserted when there is none, and deleted once.
LEMMA KeptStep ==
  ASSUME Typed, RowKeys, [Next]_vars, NEW e \in Events, Kept(e)
  PROVE  Kept(e)'
<1>0. /\ made[e] \in Nat /\ swept[e] \in Nat /\ IsFiniteSet(told[e])
      /\ Cardinality(told[e] \ Rows(e)) \in Nat /\ e # <<None, 0>>
  <2>1. IsFiniteSet(Ids)
    BY IntakeAssumption, FS_Interval DEF Ids
  <2>2. IsFiniteSet(told[e])
    BY <2>1, FS_Subset DEF Typed, HistOK
  <2>3. IsFiniteSet(told[e] \ Rows(e))
    BY <2>2, FS_Subset
  <2>4. QED
    BY <2>2, <2>3, FS_CardinalityType, EventFacts DEF Typed, HistOK
<1>a. ASSUME Rows(e)' = Rows(e), UNCHANGED <<made[e], swept[e], told[e]>> PROVE Kept(e)'
  BY <1>a DEF Kept
<1>1. CASE TableSame
  BY <1>1, <1>a DEF TableSame, Rows
<1>2. ASSUME NEW p \in Procs, NEW st \in {"pending", "refused"}, Inserts(p, st) PROVE Kept(e)'
  <2>1. /\ DOMAIN runs' = DOMAIN runs \cup {last'} /\ last' \notin DOMAIN runs
        /\ \A r \in DOMAIN runs : runs'[r] = runs[r]
        /\ runs'[last'].event = call[p].event
        /\ made' = Count(made, call[p].event) /\ UNCHANGED swept
    BY <1>2, InsertRows DEF Inserts
  <2>2. InCall(p)
    BY <1>2 DEF Inserts, InCall
  <2>3. CASE e # call[p].event
    <3>1. Rows(e)' = Rows(e) /\ made'[e] = made[e]
      BY <1>0, <2>1, <2>3 DEF Rows, Count
    <3>2. told'[e] = told[e]
      <4>1. UNCHANGED told \/ Tell(p, last')
        BY <1>2 DEF Inserts
      <4>2. QED
        BY <2>3, <4>1 DEF Tell
    <3>3. QED
      BY <1>a, <2>1, <3>1, <3>2
  <2>4. CASE e = call[p].event
    <3>1. call[p].key = e /\ ~Conflict(p)
      BY <1>0, <1>2, <2>2, <2>4, CallKey DEF Inserts
    <3>2. Rows(e) = {}
      BY <1>0, <3>1 DEF Rows, RowKeys, Conflict, WithKey
    <3>3. Rows(e)' = {last'} /\ made'[e] = made[e] + 1
      BY <2>1, <2>4, <3>2 DEF Rows, Count
    <3>4. told'[e] \ {last'} \subseteq told[e] \ Rows(e)
      BY <1>2, <2>4, <3>2 DEF Inserts, Tell, Typed, HistOK
    <3>5. Cardinality(told'[e] \ {last'}) <= Cardinality(told[e] \ Rows(e))
      BY <1>0, <3>2, <3>4, FS_Subset
    <3>6. Cardinality(told'[e] \ {last'}) \in Nat
      BY <1>0, <3>4, FS_Subset, FS_CardinalityType
    <3>7. QED
      BY <1>0, <2>1, <3>2, <3>3, <3>5, <3>6 DEF Kept
  <2>5. QED
    BY <2>3, <2>4
<1>3. ASSUME NEW r \in DOMAIN runs, NEW st \in {"pending", "running", "done"}, Changes(r, st)
      PROVE  Kept(e)'
  <2>1. DOMAIN runs' = DOMAIN runs /\ \A q \in DOMAIN runs : runs'[q].event = runs[q].event
    BY <1>3, BecomeRows DEF Changes
  <2>2. QED
    BY <1>3, <1>a, <2>1 DEF Changes, Rows
<1>4. ASSUME NEW r \in Ids, gc_old(r) PROVE Kept(e)'
  <2>1. /\ r \in DOMAIN runs /\ DOMAIN runs' = DOMAIN runs \ {r}
        /\ \A q \in DOMAIN runs' : runs'[q] = runs[q]
        /\ swept' = Count(swept, runs[r].event) /\ UNCHANGED <<made, told>>
    BY <1>4 DEF gc_old
  <2>2. CASE e # runs[r].event
    <3>1. Rows(e)' = Rows(e) /\ swept'[e] = swept[e]
      BY <1>0, <2>1, <2>2 DEF Rows, Count
    <3>2. QED
      BY <1>a, <2>1, <3>1
  <2>3. CASE e = runs[r].event
    <3>1. Rows(e) = {r}
      BY <1>0, <2>1, <2>3 DEF Rows, RowKeys
    <3>2. Rows(e)' = {} /\ swept'[e] = swept[e] + 1
      BY <2>1, <2>3, <3>1 DEF Rows, Count
    <3>3. told[e] \subseteq (told[e] \ Rows(e)) \cup {r}
      BY <3>1
    <3>4. /\ IsFiniteSet((told[e] \ Rows(e)) \cup {r})
          /\ Cardinality((told[e] \ Rows(e)) \cup {r}) <= Cardinality(told[e] \ Rows(e)) + 1
      <4>1. IsFiniteSet(told[e] \ Rows(e))
        BY <1>0, FS_Subset
      <4>2. QED
        BY <4>1, AddOne
    <3>5. /\ Cardinality(told[e]) <= Cardinality((told[e] \ Rows(e)) \cup {r})
          /\ Cardinality(told[e]) \in Nat /\ Cardinality((told[e] \ Rows(e)) \cup {r}) \in Nat
      BY <1>0, <3>3, <3>4, FS_Subset, FS_CardinalityType
    <3>6. told'[e] \ Rows(e)' = told[e]
      BY <2>1, <3>2
    <3>7. QED
      BY <1>0, <2>1, <3>2, <3>4, <3>5, <3>6 DEF Kept
  <2>4. QED
    BY <2>2, <2>3
<1>5. ASSUME NEW p \in Procs, recall(p) PROVE Kept(e)'
  <2>1. UNCHANGED <<runs, made, swept>> /\ Rows(e)' = Rows(e) /\ InCall(p)
    BY <1>5 DEF recall, Rows, InCall
  <2>2. told'[e] \ Rows(e) = told[e] \ Rows(e)
    <3>1. CASE UNCHANGED told
      BY <3>1
    <3>2. ASSUME NEW r \in WithKey(call[p].key), Tell(p, r) PROVE told'[e] \ Rows(e) = told[e] \ Rows(e)
      <4>1. CASE e # call[p].event
        BY <3>2, <4>1 DEF Tell
      <4>2. CASE e = call[p].event
        <5>1. r \in DOMAIN runs /\ runs[r].key = e
          BY <2>1, <3>2, <4>2, CallKey DEF WithKey
        <5>2. runs[r].event = e
          BY <5>1 DEF RowKeys
        <5>3. told'[e] = told[e] \cup {r}
          BY <3>2, <4>2 DEF Tell
        <5>4. QED
          BY <5>1, <5>2, <5>3 DEF Rows
      <4>3. QED
        BY <4>1, <4>2
    <3>3. QED
      BY <1>5, <3>1, <3>2 DEF recall
  <2>3. QED
    BY <2>1, <2>2 DEF Kept
<1>6. QED
  BY <1>1, <1>2, <1>3, <1>4, <1>5, TableStep

\* EventInv is inductive given the types.
LEMMA EventHolds == Spec => []EventInv
<1>1. Init => EventInv
  <2> SUFFICES ASSUME Init PROVE EventInv
    OBVIOUS
  <2>1. DOMAIN runs = {}
    BY DEF Init
  <2>2. \A e \in Events : told[e] \ Rows(e) = {} /\ made[e] = 0 /\ swept[e] = 0
    BY DEF Init
  <2>3. \A e \in Events : Kept(e)
    BY <2>2, FS_EmptySet DEF Kept
  <2>4. QED
    BY <2>1, <2>3 DEF EventInv, RowKeys
<1>2. Typed /\ EventInv /\ [Next]_vars => EventInv'
  BY RowKeysStep, KeptStep DEF EventInv
<1>3. QED
  BY <1>1, <1>2, TypedHolds, PTL DEF Spec

\* insert_run_idempotent, tick_key, zoned_ticker, insert_refused_run: the key of a caller,
\* of a webhook delivery or of a tick makes one run however their callers race, fail or are
\* late, every answer names it, and a second one comes only when the first was deleted.
THEOREM OneRunPerKeyHolds == Spec => []OneRunPerKey
<1>1. Typed /\ EventInv => OneRunPerKey
  <2> SUFFICES ASSUME Typed, EventInv, NEW e \in Events
               PROVE  made[e] <= 1 + swept[e] /\ Cardinality(told[e]) <= 1 + swept[e]
    BY DEF OneRunPerKey, Once
  <2>1. Kept(e) /\ swept[e] \in Nat /\ e # <<None, 0>>
    BY EventFacts DEF EventInv, Typed, HistOK
  <2>2. \A r, q \in Rows(e) : r = q
    BY <2>1 DEF EventInv, RowKeys, Rows
  <2>3. PICK r : told[e] \subseteq (told[e] \ Rows(e)) \cup {r}
    BY <2>2
  <2>4. IsFiniteSet(told[e] \ Rows(e)) /\ Cardinality(told[e] \ Rows(e)) \in Nat
    <3>1. IsFiniteSet(Ids)
      BY IntakeAssumption, FS_Interval DEF Ids
    <3>2. told[e] \ Rows(e) \subseteq Ids
      BY DEF Typed, HistOK
    <3>3. QED
      BY <3>1, <3>2, FS_Subset, FS_CardinalityType
  <2>5. /\ IsFiniteSet((told[e] \ Rows(e)) \cup {r})
        /\ Cardinality((told[e] \ Rows(e)) \cup {r}) <= Cardinality(told[e] \ Rows(e)) + 1
    BY <2>4, AddOne
  <2>6. /\ Cardinality(told[e]) <= Cardinality((told[e] \ Rows(e)) \cup {r})
        /\ Cardinality(told[e]) \in Nat /\ Cardinality((told[e] \ Rows(e)) \cup {r}) \in Nat
    BY <2>3, <2>5, FS_Subset, FS_CardinalityType
  <2>7. QED
    BY <2>1, <2>4, <2>5, <2>6 DEF Kept
<1>2. QED
  BY <1>1, TypedHolds, EventHolds, PTL

-----------------------------------------------------------------------------
(* The quota.                                                              *)

\* The rows and the callers are finitely many.
LEMMA LiveFinite ==
  ASSUME Typed
  PROVE  /\ IsFiniteSet(Counted) /\ IsFiniteSet(Callers) /\ IsFiniteSet(Passed)
         /\ Cardinality(Counted) \in Nat /\ Cardinality(Callers) \in Nat
         /\ Cardinality(Passed) \in Nat /\ Cardinality(Passed) <= Cardinality(Callers)
         /\ InFlight("a") \in Nat /\ Cardinality(Counted) <= InFlight("a")
<1>1. IsFiniteSet(Ids) /\ IsFiniteSet(Procs)
  BY IntakeAssumption, FS_Interval DEF Ids
<1>2. DOMAIN runs \subseteq Ids
  BY IntakeAssumption DEF Typed, TypeOK, Ids
<1> DEFINE F == {r \in DOMAIN runs : runs[r].agent = "a" /\ Live(r)}
<1>3. /\ F \subseteq Ids /\ Counted \subseteq F /\ Callers \subseteq Procs /\ Passed \subseteq Callers
  BY <1>2 DEF Counted, Callers, Passed
<1>4. IsFiniteSet(F) /\ IsFiniteSet(Callers)
  BY <1>1, <1>3, FS_Subset
<1>5. /\ IsFiniteSet(Counted) /\ IsFiniteSet(Passed)
      /\ Cardinality(Counted) <= Cardinality(F) /\ Cardinality(Passed) <= Cardinality(Callers)
  BY <1>3, <1>4, FS_Subset
<1>6. /\ Cardinality(F) \in Nat /\ Cardinality(Counted) \in Nat /\ Cardinality(Callers) \in Nat
      /\ Cardinality(Passed) \in Nat
  BY <1>4, <1>5, FS_CardinalityType
<1>7. QED
  BY <1>4, <1>5, <1>6 DEF InFlight

\* A caller that inserts leaves those that passed; one passes only below the limit.
LEMMA QuotaMoves ==
  ASSUME Typed, [Next]_vars
  PROVE  \/ Counted' \subseteq Counted /\ Passed' \subseteq Passed /\ retried' = retried
         \/ Counted' \subseteq Counted /\ retried' = retried /\ InFlight("a") < LIMIT
         \/ \E p \in Passed, r \in Ids : /\ Counted' \subseteq Counted \cup {r} /\ retried' = retried
                                      /\ Passed' \subseteq Passed \ {p}
         \/ \E r \in Ids : /\ Counted' \subseteq Counted \cup {r} /\ retried' = retried + 1
                         /\ Passed' \subseteq Passed
<1> DEFINE Goal ==
         \/ Counted' \subseteq Counted /\ Passed' \subseteq Passed /\ retried' = retried
         \/ Counted' \subseteq Counted /\ retried' = retried /\ InFlight("a") < LIMIT
         \/ \E p \in Passed, r \in Ids : /\ Counted' \subseteq Counted \cup {r} /\ retried' = retried
                                      /\ Passed' \subseteq Passed \ {p}
         \/ \E r \in Ids : /\ Counted' \subseteq Counted \cup {r} /\ retried' = retried + 1
                         /\ Passed' \subseteq Passed
<1> HIDE DEF Goal
<1> USE DEF schedVars, callVars, histVars, Free, Fault, NoRun, Goto, Going, Return, Decide, Become
<1>0. pc \in [Procs -> {"idle", "resolve", "count", "spent", "insert", "recall",
                        "refuse", "schedule"}]
  BY DEF Typed, TypeOK
<1>s. ASSUME UNCHANGED runs PROVE Counted' \subseteq Counted
  BY <1>s DEF Counted, Live
<1>p. ASSUME UNCHANGED plan, \A p \in Procs : pc'[p] \in {"spent", "insert"} => pc'[p] = pc[p]
      PROVE  Passed' \subseteq Passed
  BY <1>p DEF Passed, Callers
<1>1. ASSUME NEW p \in Procs, begin(p) PROVE Goal
  <2>1. UNCHANGED <<runs, plan, retried>>
    BY <1>1 DEF begin, webhook_idempotency_key
  <2>2. Passed' \subseteq Passed
    BY <1>1, <1>0 DEF Passed, Callers, Checked, begin, webhook_idempotency_key
  <2>3. QED
    BY <1>s, <2>1, <2>2 DEF Goal
<1>2. ASSUME NEW p \in Procs, fire(p) PROVE Goal
  <2>1. UNCHANGED <<runs, plan, retried>>
    BY <1>2 DEF fire, tick_key
  <2>2. Passed' \subseteq Passed
    BY <1>2, <1>0, IntakeAssumption DEF Passed, Callers, Checked, fire, tick_key
  <2>3. QED
    BY <1>s, <2>1, <2>2 DEF Goal
<1>3. ASSUME NEW p \in Procs, resolve_files(p) PROVE Goal
  <2>1. UNCHANGED <<runs, plan, retried>>
    BY <1>3 DEF resolve_files
  <2>2. Passed' \subseteq Passed
    BY <1>3, <1>0 DEF Passed, Callers, Checked, resolve_files
  <2>3. QED
    BY <1>s, <2>1, <2>2 DEF Goal
<1>4. ASSUME NEW p \in Procs, agent_running_count(p) PROVE Goal
  <2>1. UNCHANGED <<runs, plan, retried>>
    BY <1>4 DEF agent_running_count
  <2>2. CASE Passed' \subseteq Passed
    BY <1>s, <2>1, <2>2 DEF Goal
  <2>3. CASE ~(Passed' \subseteq Passed)
    <3>1. pc'[p] = "spent" /\ p \in Callers
      <4>1. PICK w \in {"spent", "refuse", "idle"} : pc' = [pc EXCEPT ![p] = w]
        BY <1>4 DEF agent_running_count
      <4>2. QED
        BY <1>0, <2>1, <2>3, <4>1 DEF Passed, Callers
    <3>2. ~Refused(InFlight(plan[p].agent), 0)
      BY <1>0, <1>4, <3>1 DEF agent_running_count
    <3>3. plan[p].agent = "a"
      BY <3>1 DEF Callers
    <3>4. InFlight("a") \in Nat
      BY LiveFinite
    <3>5. InFlight("a") < LIMIT
      BY <3>2, <3>3, <3>4, IntakeAssumption DEF Refused
    <3>6. QED
      BY <1>s, <2>1, <3>5 DEF Goal
  <2>4. QED
    BY <2>2, <2>3
<1>5. ASSUME NEW p \in Procs, agent_compute_seconds(p) PROVE Goal
  <2>1. UNCHANGED <<runs, plan, retried>>
    BY <1>5 DEF agent_compute_seconds
  <2>2. Passed' \subseteq Passed
    BY <1>5, <1>0 DEF Passed, Callers, Checked, agent_compute_seconds
  <2>3. QED
    BY <1>s, <2>1, <2>2 DEF Goal
<1>6. ASSUME NEW p \in Procs, fire_triggers(p) PROVE Goal
  <2>1. Passed' \subseteq Passed
    BY <1>0, <1>6, <1>p DEF fire_triggers
  <2>2. CASE NoRun
    BY <1>6, <1>s, <2>1, <2>2 DEF Goal, fire_triggers
  <2>3. CASE Insert(p, "pending")
    <3>1. /\ DOMAIN runs' = DOMAIN runs \cup {last'} /\ last' \in Ids /\ last' \notin DOMAIN runs
          /\ \A r \in DOMAIN runs : runs'[r] = runs[r]
          /\ runs'[last'].st = "pending" /\ runs'[last'].via = plan[p].via
          /\ runs'[last'].agent = plan[p].agent /\ UNCHANGED retried
      BY <2>3, InsertRows
    <3>2. runs'[last'].via = "trigger"
      BY <1>6, <3>1 DEF fire_triggers
    <3>3. Counted' \subseteq Counted
      BY <3>1, <3>2 DEF Counted, Live, Checked
    <3>4. QED
      BY <2>1, <3>1, <3>3 DEF Goal
  <2>4. QED
    BY <1>6, <2>2, <2>3 DEF fire_triggers
<1>7. ASSUME NEW p \in Procs, insert_run(p) PROVE Goal
  <2>1. Passed' \subseteq Passed
    BY <1>0, <1>7, <1>p DEF insert_run
  <2>2. CASE NoRun
    BY <1>7, <1>s, <2>1, <2>2 DEF Goal, insert_run
  <2>3. CASE Insert(p, "pending")
    <3>1. /\ DOMAIN runs' = DOMAIN runs \cup {last'} /\ last' \in Ids /\ last' \notin DOMAIN runs
          /\ \A r \in DOMAIN runs : runs'[r] = runs[r]
          /\ runs'[last'].st = "pending" /\ runs'[last'].via = plan[p].via
          /\ runs'[last'].agent = plan[p].agent /\ UNCHANGED retried
      BY <2>3, InsertRows
    <3>2. PICK new \in Ids : new = last'
      BY <3>1
    <3>3. Counted' \subseteq Counted \cup {new}
      BY <3>1, <3>2 DEF Counted, Live
    <3>4. pc[p] = "insert" /\ pc' = [pc EXCEPT ![p] = "idle"]
      <4>1. pc[p] = "insert" /\ UNCHANGED plan
        BY <1>7 DEF insert_run
      <4>2. runs' # runs
        BY <3>1
      <4>3. QED
        BY <1>7, <4>1, <4>2 DEF insert_run
    <3>5. CASE p \in Callers
      <4>1. p \in Passed /\ p \notin Passed'
        BY <1>0, <3>4, <3>5 DEF Passed
      <4>2. QED
        BY <2>1, <3>1, <3>3, <4>1 DEF Goal
    <3>6. CASE p \notin Callers
      <4>1. last' \notin Counted'
        BY <3>1, <3>6, PlanOK DEF Callers, Counted
      <4>2. QED
        BY <2>1, <3>1, <3>2, <3>3, <4>1 DEF Goal
    <3>7. QED
      BY <3>5, <3>6
  <2>4. QED
    BY <1>7, <2>2, <2>3 DEF insert_run
<1>8. ASSUME NEW p \in Procs, recall(p) PROVE Goal
  <2>1. UNCHANGED <<runs, plan, retried>>
    BY <1>8 DEF recall
  <2>2. Passed' \subseteq Passed
    BY <1>8, <1>0 DEF Passed, Callers, Checked, recall
  <2>3. QED
    BY <1>s, <2>1, <2>2 DEF Goal
<1>9. ASSUME NEW p \in Procs, insert_refused_run(p) PROVE Goal
  <2>1. Passed' \subseteq Passed
    BY <1>0, <1>9, <1>p DEF insert_refused_run
  <2>2. CASE NoRun
    BY <1>9, <1>s, <2>1, <2>2 DEF Goal, insert_refused_run
  <2>3. CASE Insert(p, "refused")
    <3>1. /\ DOMAIN runs' = DOMAIN runs \cup {last'} /\ last' \in Ids /\ last' \notin DOMAIN runs
          /\ \A r \in DOMAIN runs : runs'[r] = runs[r]
          /\ runs'[last'].st = "refused" /\ runs'[last'].via = plan[p].via
          /\ runs'[last'].agent = plan[p].agent /\ UNCHANGED retried
      BY <2>3, InsertRows
    <3>2. runs'[last'].st = "refused"
      BY <1>9, <3>1 DEF insert_refused_run
    <3>3. Counted' \subseteq Counted
      BY <3>1, <3>2 DEF Counted, Live, Checked
    <3>4. QED
      BY <2>1, <3>1, <3>3 DEF Goal
  <2>4. QED
    BY <1>9, <2>2, <2>3 DEF insert_refused_run
<1>10. ASSUME NEW p \in Procs, schedule_begin(p) PROVE Goal
  <2>1. UNCHANGED <<runs, plan, retried>>
    BY <1>10 DEF schedule_begin
  <2>2. Passed' \subseteq Passed
    BY <1>10, <1>0 DEF Passed, Callers, Checked, schedule_begin
  <2>3. QED
    BY <1>s, <2>1, <2>2 DEF Goal
<1>11. ASSUME NEW p \in Procs, insert_schedule(p) PROVE Goal
  <2>1. UNCHANGED <<runs, plan, retried>>
    BY <1>11 DEF insert_schedule
  <2>2. Passed' \subseteq Passed
    BY <1>11, <1>0 DEF Passed, Callers, Checked, insert_schedule
  <2>3. QED
    BY <1>s, <2>1, <2>2 DEF Goal
<1>12. ASSUME NEW p \in Procs, remove(p) PROVE Goal
  <2>1. UNCHANGED <<runs, plan, retried>>
    BY <1>12 DEF remove
  <2>2. Passed' \subseteq Passed
    BY <1>12, <1>0 DEF Passed, Callers, Checked, remove
  <2>3. QED
    BY <1>s, <2>1, <2>2 DEF Goal
<1>13. ASSUME NEW p \in Procs, start(p) PROVE Goal
  <2>1. UNCHANGED <<runs, plan, retried>>
    BY <1>13 DEF start
  <2>2. Passed' \subseteq Passed
    BY <1>13 DEF Passed, Callers, start
  <2>3. QED
    BY <1>s, <2>1, <2>2 DEF Goal
<1>14. ASSUME NEW p \in Procs, crash(p) PROVE Goal
  <2>1. UNCHANGED <<runs, plan, retried>>
    BY <1>14 DEF crash
  <2>2. Passed' \subseteq Passed
    BY <1>14, <1>0 DEF Passed, Callers, Checked, crash
  <2>3. QED
    BY <1>s, <2>1, <2>2 DEF Goal
<1>15. ASSUME NEW r \in Ids, materialize_input(r) PROVE Goal
  <2>1. r \in DOMAIN runs /\ UNCHANGED <<pc, plan>> /\ retried' = retried
    BY <1>15 DEF materialize_input
  <2>2. Passed' = Passed
    BY <1>p, <2>1 DEF Passed, Callers
  <2>3. PICK st \in {"pending", "running", "done"} : Become(r, st) /\ Live(r)
    BY <1>15 DEF materialize_input, Live
  <2>4. /\ DOMAIN runs' = DOMAIN runs /\ \A q \in DOMAIN runs : q # r => runs'[q] = runs[q]
        /\ runs'[r].agent = runs[r].agent /\ runs'[r].via = runs[r].via
    BY <2>1, <2>3, BecomeRows
  <2>5. Counted' \subseteq Counted
    BY <1>15, <2>1, <2>3, <2>4 DEF Counted, Live, materialize_input
  <2>6. QED
    BY <2>1, <2>2, <2>5 DEF Goal
<1>16. ASSUME NEW r \in Ids, finish_run(r) PROVE Goal
  <2>1. r \in DOMAIN runs /\ UNCHANGED <<pc, plan>> /\ retried' = retried
    BY <1>16 DEF finish_run
  <2>2. Passed' = Passed
    BY <1>p, <2>1 DEF Passed, Callers
  <2>3. PICK st \in {"pending", "running", "done"} : Become(r, st) /\ Live(r)
    BY <1>16 DEF finish_run, Live
  <2>4. /\ DOMAIN runs' = DOMAIN runs /\ \A q \in DOMAIN runs : q # r => runs'[q] = runs[q]
        /\ runs'[r].agent = runs[r].agent /\ runs'[r].via = runs[r].via
    BY <2>1, <2>3, BecomeRows
  <2>5. Counted' \subseteq Counted
    BY <1>16, <2>1, <2>3, <2>4 DEF Counted, Live, finish_run
  <2>6. QED
    BY <2>1, <2>2, <2>5 DEF Goal
<1>17. ASSUME NEW r \in Ids, requeue(r) PROVE Goal
  <2>1. r \in DOMAIN runs /\ UNCHANGED <<pc, plan>> /\ retried' = retried + 1
    BY <1>17 DEF requeue
  <2>2. Passed' = Passed
    BY <1>p, <2>1 DEF Passed, Callers
  <2>3. PICK st \in {"pending", "running", "done"} : Become(r, st) /\ (Live(r) \/ st = "pending")
    BY <1>17 DEF requeue, Live
  <2>4. /\ DOMAIN runs' = DOMAIN runs /\ \A q \in DOMAIN runs : q # r => runs'[q] = runs[q]
        /\ runs'[r].agent = runs[r].agent /\ runs'[r].via = runs[r].via
    BY <2>1, <2>3, BecomeRows
  <2>5. Counted' \subseteq Counted \cup {r}
    BY <1>17, <2>1, <2>3, <2>4 DEF Counted, Live, requeue
  <2>6. QED
    BY <2>1, <2>2, <2>5 DEF Goal
<1>18. ASSUME NEW r \in Ids, gc_old(r) PROVE Goal
  <2>1. Counted' \subseteq Counted
    BY <1>18 DEF Counted, Live, gc_old
  <2>2. Passed' = Passed
    BY <1>18 DEF Passed, Callers, gc_old
  <2>3. QED
    BY <1>18, <2>1, <2>2 DEF Goal, gc_old
<1>19. ASSUME NEW b \in Blobs, put_blob(b) PROVE Goal
  <2>1. UNCHANGED <<runs, plan, retried>>
    BY <1>19 DEF put_blob
  <2>2. Passed' \subseteq Passed
    BY <1>19 DEF Passed, Callers, put_blob
  <2>3. QED
    BY <1>s, <2>1, <2>2 DEF Goal
<1>20. ASSUME NEW b \in Blobs, age(b) PROVE Goal
  <2>1. UNCHANGED <<runs, plan, retried>>
    BY <1>20 DEF age
  <2>2. Passed' \subseteq Passed
    BY <1>20 DEF Passed, Callers, age
  <2>3. QED
    BY <1>s, <2>1, <2>2 DEF Goal
<1>21. CASE gc_blobs
  <2>1. UNCHANGED <<runs, plan, retried>>
    BY <1>21 DEF gc_blobs
  <2>2. Passed' \subseteq Passed
    BY <1>21 DEF Passed, Callers, gc_blobs
  <2>3. QED
    BY <1>s, <2>1, <2>2 DEF Goal
<1>22. CASE clock
  <2>1. UNCHANGED <<runs, plan, retried>>
    BY <1>22 DEF clock
  <2>2. Passed' \subseteq Passed
    BY <1>22 DEF Passed, Callers, clock
  <2>3. QED
    BY <1>s, <2>1, <2>2 DEF Goal
<1>23. CASE UNCHANGED vars
  <2>1. UNCHANGED <<runs, plan, retried>>
    BY <1>23 DEF vars
  <2>2. Passed' \subseteq Passed
    BY <1>23 DEF Passed, Callers, vars
  <2>3. QED
    BY <1>s, <2>1, <2>2 DEF Goal
<1>24. QED
  BY <1>1, <1>2, <1>3, <1>4, <1>5, <1>6, <1>7, <1>8, <1>9, <1>10, <1>11, <1>12, <1>13,
     <1>14, <1>15, <1>16, <1>17, <1>18, <1>19, <1>20, <1>21, <1>22, <1>23 DEF Goal, Next,
     Call_step, Cron_step, Queue_step

\* QuotaInv is inductive given the types.
LEMMA QuotaStep == Typed /\ Typed' /\ QuotaInv /\ [Next]_vars => QuotaInv'
<1> SUFFICES ASSUME Typed, Typed', QuotaInv, [Next]_vars PROVE QuotaInv'
  OBVIOUS
<1>1. UNCHANGED Callers
  BY PlanSame DEF Callers
<1> DEFINE c == Cardinality(Counted)  n == Cardinality(Passed)  k == Cardinality(Callers)
<1>2. /\ c \in Nat /\ n \in Nat /\ k \in Nat /\ n <= k
      /\ c <= InFlight("a") /\ InFlight("a") \in Nat
      /\ IsFiniteSet(Counted) /\ IsFiniteSet(Passed)
  BY LiveFinite
<1>3. /\ Cardinality(Counted') \in Nat /\ Cardinality(Passed') \in Nat
      /\ Cardinality(Passed') <= Cardinality(Callers')
  <2>1. IsFiniteSet(Ids) /\ IsFiniteSet(Callers')
    BY <1>1, LiveFinite, IntakeAssumption, FS_Interval DEF Ids
  <2>2. DOMAIN runs' \subseteq Ids
    BY IntakeAssumption DEF Typed, TypeOK, Ids
  <2>3. Counted' \subseteq Ids /\ Passed' \subseteq Callers'
    BY <2>2 DEF Counted, Passed
  <2>4. IsFiniteSet(Counted') /\ IsFiniteSet(Passed') /\ Cardinality(Passed') <= Cardinality(Callers')
    BY <2>1, <2>3, FS_Subset
  <2>5. QED
    BY <2>4, FS_CardinalityType
<1>4. retried \in Nat /\ LIMIT \in Nat
  BY IntakeAssumption DEF Typed, HistOK
<1>5. c + n <= LIMIT - 1 + retried + k
  BY DEF QuotaInv
<1>6. ASSUME Cardinality(Counted') + Cardinality(Passed') <= LIMIT - 1 + retried' + k
      PROVE  QuotaInv'
  BY <1>1, <1>6 DEF QuotaInv
<1> HIDE DEF c, n, k
<1>7. ASSUME Counted' \subseteq Counted PROVE Cardinality(Counted') <= c
  BY <1>2, <1>7, FS_Subset DEF c
<1>8. ASSUME Passed' \subseteq Passed PROVE Cardinality(Passed') <= n
  BY <1>2, <1>8, FS_Subset DEF n
<1>9. ASSUME NEW r, Counted' \subseteq Counted \cup {r} PROVE Cardinality(Counted') <= c + 1
  <2>1. /\ IsFiniteSet(Counted \cup {r}) /\ Cardinality(Counted \cup {r}) <= c + 1
        /\ Cardinality(Counted \cup {r}) \in Nat
    BY <1>2, AddOne DEF c
  <2>2. Cardinality(Counted') <= Cardinality(Counted \cup {r})
    BY <1>9, <2>1, FS_Subset
  <2>3. QED
    BY <1>2, <1>3, <2>1, <2>2
<1>10. ASSUME NEW p \in Passed, Passed' \subseteq Passed \ {p} PROVE Cardinality(Passed') <= n - 1
  <2>1. IsFiniteSet(Passed \ {p}) /\ Cardinality(Passed \ {p}) = n - 1
    BY <1>2, <1>10, FS_RemoveElement DEF n
  <2>2. Cardinality(Passed') <= Cardinality(Passed \ {p})
    BY <1>10, <2>1, FS_Subset
  <2>3. QED
    BY <2>1, <2>2
<1>11. CASE Counted' \subseteq Counted /\ Passed' \subseteq Passed /\ retried' = retried
  BY <1>2, <1>3, <1>4, <1>5, <1>6, <1>7, <1>8, <1>11
<1>12. CASE Counted' \subseteq Counted /\ retried' = retried /\ InFlight("a") < LIMIT
  <2>1. Cardinality(Passed') <= k
    BY <1>1, <1>3 DEF k
  <2>2. QED
    BY <1>2, <1>3, <1>4, <1>6, <1>7, <1>12, <2>1
<1>13. ASSUME NEW p \in Passed, NEW r, Counted' \subseteq Counted \cup {r}, retried' = retried,
              Passed' \subseteq Passed \ {p}
       PROVE  QuotaInv'
  BY <1>2, <1>3, <1>4, <1>5, <1>6, <1>9, <1>10, <1>13
<1>14. ASSUME NEW r, Counted' \subseteq Counted \cup {r}, retried' = retried + 1, Passed' \subseteq Passed
       PROVE  QuotaInv'
  <2>1. Cardinality(Counted') <= c + 1 /\ Cardinality(Passed') <= n
    BY <1>8, <1>9, <1>14
  <2>2. Cardinality(Counted') + Cardinality(Passed') <= LIMIT - 1 + retried' + k
    BY <1>2, <1>3, <1>4, <1>5, <1>14, <2>1
  <2>3. QED
    BY <1>6, <2>2
<1>15. QED
  BY <1>11, <1>12, <1>13, <1>14, QuotaMoves

\* Hence it holds.
LEMMA QuotaHolds == Spec => [](Typed /\ QuotaInv)
<1>1. Init => QuotaInv
  <2> SUFFICES ASSUME Init PROVE QuotaInv
    OBVIOUS
  <2>1. Counted = {} /\ Passed = {} /\ retried = 0
    <3>1. DOMAIN runs = {} /\ \A p \in Procs : pc[p] = "idle"
      BY DEF Init
    <3>2. Counted = {}
      BY <3>1 DEF Counted
    <3>3. Passed = {}
      BY <3>1 DEF Passed, Callers
    <3>4. QED
      BY <3>2, <3>3 DEF Init
  <2>2. IsFiniteSet(Callers)
    <3>1. Callers \subseteq Procs
      BY DEF Callers
    <3>2. QED
      BY <3>1, IntakeAssumption, FS_Subset
  <2>3. Cardinality(Callers) \in Nat /\ Cardinality({}) = 0
    BY <2>2, FS_CardinalityType, FS_EmptySet
  <2>4. QED
    BY <2>1, <2>3, IntakeAssumption DEF QuotaInv
<1>2. QED
  BY <1>1, QuotaStep, TypedHolds, PTL DEF Spec

\* quota.rs check: the limit is exceeded by the callers that raced past it and the runs
\* that were queued again, never by more.
THEOREM QuotaBoundHolds == Spec => []QuotaBound
<1>1. Typed /\ QuotaInv => QuotaBound
  <2> SUFFICES ASSUME Typed, QuotaInv PROVE QuotaBound
    OBVIOUS
  <2>1. Cardinality(Counted) <= LIMIT - 1 + retried + Cardinality(Callers)
    <3>1. retried \in Nat /\ LIMIT \in Nat
      BY IntakeAssumption DEF Typed, HistOK
    <3>2. QED
      BY <3>1, LiveFinite DEF QuotaInv
  <2>2. QED
    BY <2>1 DEF QuotaBound, Counted, Callers
<1>2. QED
  BY <1>1, QuotaHolds, PTL

-----------------------------------------------------------------------------
(* The files.                                                              *)

\* No file gets lost.
Keeps == \A b \in Blobs : stored[b] # "none" => stored'[b] # "none"

\* A row that is inserted is sure of a file only if it is there.
LEMMA MountedInsert ==
  ASSUME Typed, Mounted, UNCHANGED stored,
         NEW p \in Procs, NEW st \in {"pending", "refused"}, Insert(p, st)
  PROVE  Mounted'
<1>1. /\ DOMAIN runs' = DOMAIN runs \cup {last'}
      /\ \A r \in DOMAIN runs : runs'[r] = runs[r]
      /\ runs'[last'].blob = (IF st = "pending" THEN plan[p].blob ELSE None)
      /\ runs'[last'].sure = Stored(p)
  BY InsertRows
<1>2. runs'[last'].sure /\ runs'[last'].blob # None => stored[runs'[last'].blob] # "none"
  BY <1>1 DEF Stored
<1>3. QED
  BY <1>1, <1>2 DEF Mounted

\* The sweeps take no file that a run or the schedule mounts, and nothing else takes one.
LEMMA FilesStep == Typed /\ FilesKept /\ [Next]_vars => FilesKept'
<1> SUFFICES ASSUME Typed, Mounted, Scheduled, [Next]_vars
             PROVE  Mounted' /\ Scheduled'
  BY DEF FilesKept, Mounted, Scheduled
<1> USE DEF schedVars, callVars, histVars, Free, Fault, NoRun, Goto, Going, Return, Decide, Become
<1>0. stored \in [Blobs -> {"none", "fresh", "stale"}]
  BY DEF Typed, TypeOK
<1>q. \A p \in Procs : plan[p].blob \in Blobs \cup {None}
  BY PlanOK
<1>r. \A r \in DOMAIN runs : runs[r].blob \in Blobs \cup {None}
  BY DEF Typed, TypeOK
<1>a. ASSUME UNCHANGED runs, UNCHANGED stored \/ Keeps PROVE Mounted'
  BY <1>a, <1>r DEF Mounted, Keeps
<1>b. ASSUME UNCHANGED <<plan, schedule, mounted>>, UNCHANGED stored \/ Keeps PROVE Scheduled'
  BY <1>b, <1>q DEF Scheduled, Users, Keeps
<1>1. ASSUME NEW p \in Procs, begin(p) PROVE Mounted' /\ Scheduled'
  BY <1>a, <1>b, <1>1 DEF begin
<1>2. ASSUME NEW p \in Procs, fire(p) PROVE Mounted' /\ Scheduled'
  BY <1>a, <1>b, <1>2 DEF fire
<1>3. ASSUME NEW p \in Procs, resolve_files(p) PROVE Mounted' /\ Scheduled'
  BY <1>a, <1>b, <1>3 DEF resolve_files
<1>4. ASSUME NEW p \in Procs, agent_running_count(p) PROVE Mounted' /\ Scheduled'
  BY <1>a, <1>b, <1>4 DEF agent_running_count
<1>5. ASSUME NEW p \in Procs, agent_compute_seconds(p) PROVE Mounted' /\ Scheduled'
  BY <1>a, <1>b, <1>5 DEF agent_compute_seconds
<1>6. ASSUME NEW p \in Procs, fire_triggers(p) PROVE Mounted' /\ Scheduled'
  <2>1. UNCHANGED <<plan, stored, schedule, mounted>>
    BY <1>6 DEF fire_triggers
  <2>2. NoRun \/ Insert(p, "pending")
    BY <1>6 DEF fire_triggers
  <2>3. QED
    BY <1>a, <1>b, <2>1, <2>2, MountedInsert
<1>7. ASSUME NEW p \in Procs, insert_run(p) PROVE Mounted' /\ Scheduled'
  <2>1. UNCHANGED <<plan, stored, schedule, mounted>>
    BY <1>7 DEF insert_run
  <2>2. NoRun \/ Insert(p, "pending")
    BY <1>7 DEF insert_run
  <2>3. QED
    BY <1>a, <1>b, <2>1, <2>2, MountedInsert
<1>8. ASSUME NEW p \in Procs, recall(p) PROVE Mounted' /\ Scheduled'
  BY <1>a, <1>b, <1>8 DEF recall
<1>9. ASSUME NEW p \in Procs, insert_refused_run(p) PROVE Mounted' /\ Scheduled'
  <2>1. UNCHANGED <<plan, stored, schedule, mounted>>
    BY <1>9 DEF insert_refused_run
  <2>2. NoRun \/ Insert(p, "refused")
    BY <1>9 DEF insert_refused_run
  <2>3. QED
    BY <1>a, <1>b, <2>1, <2>2, MountedInsert
<1>10. ASSUME NEW p \in Procs, schedule_begin(p) PROVE Mounted' /\ Scheduled'
  BY <1>a, <1>b, <1>10 DEF schedule_begin
<1>11. ASSUME NEW p \in Procs, insert_schedule(p) PROVE Mounted' /\ Scheduled'
  <2>1. UNCHANGED <<plan, runs, stored>> /\ mounted' = Stored(p)
    BY <1>11 DEF insert_schedule
  <2>2. \A q \in Users("tick") : plan[q] = plan[p]
    BY <1>11, IntakeAssumption DEF insert_schedule, Users, PlaceOK, Typed, TypeOK
  <2>3. Scheduled'
    BY <2>1, <2>2 DEF Scheduled, Stored, Users
  <2>4. QED
    BY <1>a, <2>1, <2>3
<1>12. ASSUME NEW p \in Procs, remove(p) PROVE Mounted' /\ Scheduled'
  <2>1. UNCHANGED <<runs, stored>> /\ schedule' = "off"
    BY <1>12 DEF remove
  <2>2. QED
    BY <1>a, <2>1 DEF Scheduled
<1>13. ASSUME NEW p \in Procs, start(p) PROVE Mounted' /\ Scheduled'
  BY <1>a, <1>b, <1>13 DEF start
<1>14. ASSUME NEW p \in Procs, crash(p) PROVE Mounted' /\ Scheduled'
  BY <1>a, <1>b, <1>14 DEF crash
<1>15. ASSUME NEW r \in Ids, materialize_input(r) PROVE Mounted' /\ Scheduled'
  <2>1. UNCHANGED <<plan, schedule, mounted>> /\ r \in DOMAIN runs
    BY <1>15 DEF materialize_input
  <2>2. Keeps
    BY <1>15, <1>0 DEF Keeps, materialize_input
  <2>3. PICK st \in {"pending", "running", "done"} : Become(r, st)
    BY <1>15 DEF materialize_input
  <2>4. /\ DOMAIN runs' = DOMAIN runs
        /\ \A q \in DOMAIN runs : runs'[q].blob = runs[q].blob /\ runs'[q].sure = runs[q].sure
    BY <2>1, <2>3, BecomeRows
  <2>5. Mounted'
    BY <1>r, <2>2, <2>4 DEF Mounted, Keeps
  <2>6. QED
    BY <1>b, <2>1, <2>2, <2>5
<1>16. ASSUME NEW r \in Ids, finish_run(r) PROVE Mounted' /\ Scheduled'
  <2>1. UNCHANGED <<plan, schedule, mounted>> /\ r \in DOMAIN runs
    BY <1>16 DEF finish_run
  <2>2. Keeps
    BY <1>16, <1>0 DEF Keeps, finish_run
  <2>3. PICK st \in {"pending", "running", "done"} : Become(r, st)
    BY <1>16 DEF finish_run
  <2>4. /\ DOMAIN runs' = DOMAIN runs
        /\ \A q \in DOMAIN runs : runs'[q].blob = runs[q].blob /\ runs'[q].sure = runs[q].sure
    BY <2>1, <2>3, BecomeRows
  <2>5. Mounted'
    BY <1>r, <2>2, <2>4 DEF Mounted, Keeps
  <2>6. QED
    BY <1>b, <2>1, <2>2, <2>5
<1>17. ASSUME NEW r \in Ids, requeue(r) PROVE Mounted' /\ Scheduled'
  <2>1. UNCHANGED <<plan, schedule, mounted>> /\ r \in DOMAIN runs
    BY <1>17 DEF requeue
  <2>2. Keeps
    BY <1>17, <1>0 DEF Keeps, requeue
  <2>3. PICK st \in {"pending", "running", "done"} : Become(r, st)
    BY <1>17 DEF requeue
  <2>4. /\ DOMAIN runs' = DOMAIN runs
        /\ \A q \in DOMAIN runs : runs'[q].blob = runs[q].blob /\ runs'[q].sure = runs[q].sure
    BY <2>1, <2>3, BecomeRows
  <2>5. Mounted'
    BY <1>r, <2>2, <2>4 DEF Mounted, Keeps
  <2>6. QED
    BY <1>b, <2>1, <2>2, <2>5
<1>18. ASSUME NEW r \in Ids, gc_old(r) PROVE Mounted' /\ Scheduled'
  <2>1. Mounted'
    BY <1>18 DEF gc_old, Mounted
  <2>2. Scheduled'
    BY <1>18, <1>b DEF gc_old
  <2>3. QED
    BY <2>1, <2>2
<1>19. ASSUME NEW b \in Blobs, put_blob(b) PROVE Mounted' /\ Scheduled'
  <2>1. UNCHANGED <<plan, runs, schedule, mounted>> /\ Keeps
    BY <1>19, <1>0 DEF put_blob, Keeps
  <2>2. QED
    BY <1>a, <1>b, <2>1
<1>20. ASSUME NEW b \in Blobs, age(b) PROVE Mounted' /\ Scheduled'
  <2>1. UNCHANGED <<plan, runs, schedule, mounted>> /\ Keeps
    BY <1>20, <1>0 DEF age, Keeps
  <2>2. QED
    BY <1>a, <1>b, <2>1
<1>21. CASE gc_blobs
  <2>1. UNCHANGED <<plan, runs, schedule, mounted>>
    BY <1>21 DEF gc_blobs
  <2>2. \A c \in Blobs : stored'[c] = stored[c] \/ (stored[c] = "stale" /\ ~Referenced(c))
    BY <1>21, <1>0 DEF gc_blobs
  <2>3. Mounted'
    BY <1>r, <2>1, <2>2 DEF Mounted, Referenced
  <2>4. Scheduled'
    BY <1>q, <2>1, <2>2 DEF Scheduled, Referenced, Users
  <2>5. QED
    BY <2>3, <2>4
<1>22. CASE clock
  BY <1>a, <1>b, <1>22 DEF clock
<1>23. CASE UNCHANGED vars
  BY <1>a, <1>b, <1>23 DEF vars
<1>24. QED
  BY <1>1, <1>2, <1>3, <1>4, <1>5, <1>6, <1>7, <1>8, <1>9, <1>10, <1>11, <1>12, <1>13,
     <1>14, <1>15, <1>16, <1>17, <1>18, <1>19, <1>20, <1>21, <1>22, <1>23 DEF Next, Call_step,
     Cron_step, Queue_step

\* gc_old, gc_blobs, get_blob, Cron::remove: no sweep deletes a file that a run or an
\* enabled schedule mounts, if it was stored when their row was inserted.
THEOREM FilesKeptHolds == Spec => []FilesKept
<1>1. Init => FilesKept
  BY DEF Init, FilesKept
<1>2. QED
  BY <1>1, FilesStep, TypedHolds, PTL DEF Spec

=============================================================================
