----------------------------- MODULE RunQueueProofs -------------------------
(***************************************************************************)
(* Theorems about RunQueue, for every set of runs, executors and permits   *)
(* and every MAX_ATTEMPTS.                                                 *)
(***************************************************************************)
EXTENDS RunQueue, FiniteSetTheorems, TLAPS

(* The strengthened invariants.                                            *)

\* What a task may rely on about the run it holds, as long as no lease lapses
\* under it: the row is not in the queue and not up for reaping; before the
\* outcome is written only a cancel or retention can have touched the row; and
\* once the retry decision has read `failed`, the run was not canceled live.
HoldInv ==
    \A s \in Slots : pc[s] # "free" =>
        /\ status[job[s]] \notin {"absent", "pending"}
        /\ ~Orphaned(job[s])
        /\ pc[s] \in {"claimed", "marked", "exec"} =>
              status[job[s]] \in {"running", "canceled", "gone"}
        /\ pc[s] \in {"errcheck", "requeue"} =>
              /\ status[job[s]] \in {"failed", "canceled", "gone"}
              /\ job[s] \notin liveCancel

QueueInv == budget["lapse"] = 0 /\ ClaimExclusive /\ HoldInv /\ LiveCancelFinal

\* An active entry exists from start_job to end_run of the task that made it.
ActiveInv ==
    /\ \A s \in Slots : pc[s] = "exec" => active[ExecutorOf[s]][job[s]] = s
    /\ \A e \in Executors, r \in Runs, s \in Slots : active[e][r] = s =>
          /\ ExecutorOf[s] = e /\ job[s] = r
          /\ pc[s] \in {"exec", "errpath", "recorded"}

\* The row a task works on carries no verdict until the task writes one, and
\* none when the task is about to requeue it.
OutcomeInv ==
    \A s \in Slots :
        /\ pc[s] \in {"claimed", "marked", "exec", "errpath"} =>
              status[job[s]] \in {"running", "canceled", "gone"}
        /\ pc[s] \in {"claimed", "marked", "exec", "errpath", "errcheck", "requeue"} =>
              exit_code[job[s]] = "null"
        /\ pc[s] = "requeue" /\ job[s] \in Declared => error[job[s]] # "timeout"

VerdictInv == budget["db"] = 0 /\ VerdictFinal /\ DeclaredTimeoutFinal /\ OutcomeInv

-----------------------------------------------------------------------------
(* Types.                                                                  *)

\* Every action keeps the columns of the runs table in their types.
LEMMA RunsStep == TypeOK /\ [Next]_vars => RunsOK'
<1> SUFFICES ASSUME TypeOK, [Next]_vars PROVE RunsOK'
  OBVIOUS
<1> USE DEF TypeOK, RunsOK, TasksOK, Statuses, Terminal, Errors, NoRun
<1>1. ASSUME NEW r \in Runs, insert_run(r) PROVE RunsOK'
  BY <1>1 DEF insert_run, times
<1>2. ASSUME NEW r \in Runs, insert_refused_run(r) PROVE RunsOK'
  BY <1>2 DEF insert_refused_run
<1>3. ASSUME NEW s \in Slots, claim_run(s) PROVE RunsOK'
  BY <1>3 DEF claim_run
<1>4. ASSUME NEW s \in Slots, mark_attempt(s) PROVE RunsOK'
  BY <1>4 DEF mark_attempt, times
<1>5. ASSUME NEW s \in Slots, start_job(s) PROVE RunsOK'
  BY <1>5 DEF start_job, Goto, runVars, times
<1>6. ASSUME NEW s \in Slots, exec_job(s) PROVE RunsOK'
  BY <1>6 DEF exec_job, finish_run, Verdicts, Goto, runVars, times
<1>7. ASSUME NEW s \in Slots, exec_job_err(s) PROVE RunsOK'
  BY <1>7 DEF exec_job_err, finish_run, Verdicts, Goto, runVars, times
<1>8. ASSUME NEW s \in Slots, run_err(s) PROVE RunsOK'
  BY <1>8 DEF run_err, finish_run, Goto, runVars, times
<1>9. ASSUME NEW s \in Slots, end_run(s) PROVE RunsOK'
  BY <1>9 DEF end_run, Goto, runVars, times
<1>10. ASSUME NEW s \in Slots, run_outcome(s) PROVE RunsOK'
  BY <1>10 DEF run_outcome, Goto, Free, runVars, times
<1>11. ASSUME NEW s \in Slots, run_error(s) PROVE RunsOK'
  BY <1>11 DEF run_error, Goto, Free, runVars, times
<1>12. ASSUME NEW s \in Slots, requeue(s) PROVE RunsOK'
  BY <1>12 DEF requeue, Exists, Free
<1>13. ASSUME NEW s \in Slots, touch_run(s) PROVE RunsOK'
  BY <1>13 DEF touch_run
<1>14. ASSUME NEW r \in Runs, cancel(r) PROVE RunsOK'
  BY <1>14 DEF cancel, runVars, times
<1>15. ASSUME NEW r \in Runs, cancel_run(r) PROVE RunsOK'
  BY <1>15 DEF cancel_run
<1>16. CASE reap_orphan_runs
  BY <1>16 DEF reap_orphan_runs
<1>17. CASE fail_stale_pending
  BY <1>17 DEF fail_stale_pending
<1>18. CASE gc_old
  BY <1>18 DEF gc_old
<1>19. ASSUME NEW r \in Runs, lease_expires(r) PROVE RunsOK'
  BY <1>19 DEF lease_expires
<1>20. ASSUME NEW r \in Runs, pending_timeout_elapses(r) PROVE RunsOK'
  BY <1>20 DEF pending_timeout_elapses
<1>21. ASSUME NEW r \in Runs, retention_elapses(r) PROVE RunsOK'
  BY <1>21 DEF retention_elapses
<1>22. ASSUME NEW e \in Executors, crash(e) PROVE RunsOK'
  BY <1>22 DEF crash, HasJob, runVars, times
<1>23. ASSUME NEW e \in Executors, restart(e) PROVE RunsOK'
  BY <1>23 DEF restart, runVars, times
<1>24. CASE orphan_exits
  BY <1>24 DEF orphan_exits, runVars, times
<1>25. CASE UNCHANGED vars
  BY <1>25 DEF vars, runVars, times, taskVars, procVars, opVars
<1>26. QED
  BY <1>1, <1>2, <1>3, <1>4, <1>5, <1>6, <1>7, <1>8, <1>9, <1>10, <1>11,
     <1>12, <1>13, <1>14, <1>15, <1>16, <1>17, <1>18, <1>19, <1>20, <1>21,
     <1>22, <1>23, <1>24, <1>25 DEF Next, Task_step

\* Every action keeps the tasks in their types, and a task busy exactly when it
\* names a run.
LEMMA TasksStep == TypeOK /\ [Next]_vars => TasksOK'
<1> SUFFICES ASSUME TypeOK, [Next]_vars PROVE TasksOK'
  OBVIOUS
<1> USE DEF TypeOK, TasksOK, Steps, NoRun
<1>1. ASSUME NEW r \in Runs, insert_run(r) PROVE TasksOK'
  BY <1>1 DEF insert_run, taskVars
<1>2. ASSUME NEW r \in Runs, insert_refused_run(r) PROVE TasksOK'
  BY <1>2 DEF insert_refused_run, taskVars
<1>3. ASSUME NEW s \in Slots, claim_run(s) PROVE TasksOK'
  BY <1>3, RunsAssumption DEF claim_run
<1>4. ASSUME NEW s \in Slots, mark_attempt(s) PROVE TasksOK'
  <2>1. job[s] \in Runs /\ attempts[job[s]] + 1 \in Nat
    BY <1>4 DEF mark_attempt, RunsOK
  <2>2. QED
    BY <1>4, <2>1 DEF mark_attempt
<1>5. ASSUME NEW s \in Slots, start_job(s) PROVE TasksOK'
  BY <1>5 DEF start_job, Goto
<1>6. ASSUME NEW s \in Slots, exec_job(s) PROVE TasksOK'
  BY <1>6 DEF exec_job, finish_run, Verdicts, Goto
<1>7. ASSUME NEW s \in Slots, exec_job_err(s) PROVE TasksOK'
  BY <1>7 DEF exec_job_err, finish_run, Verdicts, Goto
<1>8. ASSUME NEW s \in Slots, run_err(s) PROVE TasksOK'
  BY <1>8 DEF run_err, finish_run, Goto
<1>9. ASSUME NEW s \in Slots, end_run(s) PROVE TasksOK'
  BY <1>9 DEF end_run, Goto
<1>10. ASSUME NEW s \in Slots, run_outcome(s) PROVE TasksOK'
  <2>1. CASE Goto(s, "errcheck")
    BY <1>10, <2>1 DEF run_outcome, Goto
  <2>2. CASE Goto(s, "requeue")
    BY <1>10, <2>2 DEF run_outcome, Goto
  <2>3. CASE Free(s)
    BY <2>3 DEF Free
  <2>4. QED
    BY <1>10, <2>1, <2>2, <2>3 DEF run_outcome
<1>11. ASSUME NEW s \in Slots, run_error(s) PROVE TasksOK'
  <2>1. CASE Goto(s, "requeue")
    BY <1>11, <2>1 DEF run_error, Goto
  <2>2. CASE Free(s)
    BY <2>2 DEF Free
  <2>3. QED
    BY <1>11, <2>1, <2>2 DEF run_error
<1>12. ASSUME NEW s \in Slots, requeue(s) PROVE TasksOK'
  BY <1>12 DEF requeue, Exists, Free
<1>13. ASSUME NEW s \in Slots, touch_run(s) PROVE TasksOK'
  BY <1>13 DEF touch_run, taskVars
<1>14. ASSUME NEW r \in Runs, cancel(r) PROVE TasksOK'
  BY <1>14 DEF cancel
<1>15. ASSUME NEW r \in Runs, cancel_run(r) PROVE TasksOK'
  BY <1>15 DEF cancel_run, taskVars
<1>16. CASE reap_orphan_runs
  BY <1>16 DEF reap_orphan_runs, taskVars
<1>17. CASE fail_stale_pending
  BY <1>17 DEF fail_stale_pending, taskVars
<1>18. CASE gc_old
  BY <1>18 DEF gc_old, taskVars
<1>19. ASSUME NEW r \in Runs, lease_expires(r) PROVE TasksOK'
  BY <1>19 DEF lease_expires, taskVars
<1>20. ASSUME NEW r \in Runs, pending_timeout_elapses(r) PROVE TasksOK'
  BY <1>20 DEF pending_timeout_elapses, taskVars
<1>21. ASSUME NEW r \in Runs, retention_elapses(r) PROVE TasksOK'
  BY <1>21 DEF retention_elapses, taskVars
<1>22. ASSUME NEW e \in Executors, crash(e) PROVE TasksOK'
  BY <1>22 DEF crash, HasJob
<1>23. ASSUME NEW e \in Executors, restart(e) PROVE TasksOK'
  BY <1>23 DEF restart
<1>24. CASE orphan_exits
  BY <1>24 DEF orphan_exits, taskVars
<1>25. CASE UNCHANGED vars
  BY <1>25 DEF vars, runVars, times, taskVars, procVars, opVars
<1>26. QED
  BY <1>1, <1>2, <1>3, <1>4, <1>5, <1>6, <1>7, <1>8, <1>9, <1>10, <1>11,
     <1>12, <1>13, <1>14, <1>15, <1>16, <1>17, <1>18, <1>19, <1>20, <1>21,
     <1>22, <1>23, <1>24, <1>25 DEF Next, Task_step

\* Every action keeps the process state, the cancels and the budget in their types.
LEMMA RestStep == TypeOK /\ [Next]_vars => RestOK'
<1> SUFFICES ASSUME TypeOK, [Next]_vars PROVE RestOK'
  OBVIOUS
<1> USE DEF TypeOK, TasksOK, RestOK, Faults
<1>1. ASSUME NEW r \in Runs, insert_run(r) PROVE RestOK'
  BY <1>1 DEF insert_run, procVars, opVars
<1>2. ASSUME NEW r \in Runs, insert_refused_run(r) PROVE RestOK'
  BY <1>2 DEF insert_refused_run, procVars, opVars
<1>3. ASSUME NEW s \in Slots, claim_run(s) PROVE RestOK'
  BY <1>3 DEF claim_run, procVars, opVars
<1>4. ASSUME NEW s \in Slots, mark_attempt(s) PROVE RestOK'
  BY <1>4 DEF mark_attempt, Spend, procVars, opVars
<1>5. ASSUME NEW s \in Slots, start_job(s) PROVE RestOK'
  <2>1. job[s] \in Runs /\ ExecutorOf[s] \in Executors
    BY <1>5, SlotsAssumption DEF start_job
  <2> HIDE DEF TasksOK
  <2>2. QED
    BY <1>5, <2>1 DEF start_job, opVars
<1>6. ASSUME NEW s \in Slots, exec_job(s) PROVE RestOK'
  BY <1>6 DEF exec_job, finish_run, Verdicts, Goto, procVars, opVars
<1>7. ASSUME NEW s \in Slots, exec_job_err(s) PROVE RestOK'
  BY <1>7 DEF exec_job_err, finish_run, Verdicts, Goto, Spend, procVars, opVars
<1>8. ASSUME NEW s \in Slots, run_err(s) PROVE RestOK'
  BY <1>8 DEF run_err, finish_run, Goto, Spend, procVars, opVars
<1>9. ASSUME NEW s \in Slots, end_run(s) PROVE RestOK'
  BY <1>9 DEF end_run, Goto, opVars
<1>10. ASSUME NEW s \in Slots, run_outcome(s) PROVE RestOK'
  BY <1>10 DEF run_outcome, Goto, Free, Spend, procVars, opVars
<1>11. ASSUME NEW s \in Slots, run_error(s) PROVE RestOK'
  BY <1>11 DEF run_error, Goto, Free, Spend, procVars, opVars
<1>12. ASSUME NEW s \in Slots, requeue(s) PROVE RestOK'
  BY <1>12 DEF requeue, Exists, Free, Spend, procVars, opVars
<1>13. ASSUME NEW s \in Slots, touch_run(s) PROVE RestOK'
  BY <1>13 DEF touch_run, procVars, opVars
<1>14. ASSUME NEW r \in Runs, cancel(r) PROVE RestOK'
  BY <1>14 DEF cancel, procVars
<1>15. ASSUME NEW r \in Runs, cancel_run(r) PROVE RestOK'
  BY <1>15 DEF cancel_run, procVars
<1>16. CASE reap_orphan_runs
  BY <1>16 DEF reap_orphan_runs, procVars, opVars
<1>17. CASE fail_stale_pending
  BY <1>17 DEF fail_stale_pending, procVars, opVars
<1>18. CASE gc_old
  BY <1>18 DEF gc_old, procVars, opVars
<1>19. ASSUME NEW r \in Runs, lease_expires(r) PROVE RestOK'
  BY <1>19 DEF lease_expires, Spend, procVars, opVars
<1>20. ASSUME NEW r \in Runs, pending_timeout_elapses(r) PROVE RestOK'
  BY <1>20 DEF pending_timeout_elapses, procVars, opVars
<1>21. ASSUME NEW r \in Runs, retention_elapses(r) PROVE RestOK'
  BY <1>21 DEF retention_elapses, procVars, opVars
<1>22. ASSUME NEW e \in Executors, crash(e) PROVE RestOK'
  BY <1>22 DEF crash, HasJob, Spend, opVars
<1>23. ASSUME NEW e \in Executors, restart(e) PROVE RestOK'
  <2>1. budget' \in [Faults -> Nat]
    BY <1>23 DEF restart, Spend
  <2>2. orphan' \subseteq orphan /\ up' \subseteq Executors
    BY <1>23 DEF restart
  <2>3. QED
    BY <1>23, <2>1, <2>2 DEF restart, opVars
<1>24. CASE orphan_exits
  BY <1>24 DEF orphan_exits, opVars
<1>25. CASE UNCHANGED vars
  BY <1>25 DEF vars, runVars, times, taskVars, procVars, opVars
<1>26. QED
  BY <1>1, <1>2, <1>3, <1>4, <1>5, <1>6, <1>7, <1>8, <1>9, <1>10, <1>11,
     <1>12, <1>13, <1>14, <1>15, <1>16, <1>17, <1>18, <1>19, <1>20, <1>21,
     <1>22, <1>23, <1>24, <1>25 DEF Next, Task_step

\* Type correctness: every reachable state of the queue, the worker tasks and
\* the executors' active maps is well typed, and a task holds a run exactly
\* while it is between its claim and its return to the permit pool.
THEOREM TypeCorrect == Spec => []TypeOK
<1>1. Init => TypeOK
  BY RunsAssumption, SlotsAssumption, BoundsAssumption
  DEF Init, TypeOK, RunsOK, TasksOK, RestOK, Faults, Statuses, Terminal, Errors,
      Steps, NoRun
<1>2. TypeOK /\ [Next]_vars => TypeOK'
  BY RunsStep, TasksStep, RestStep DEF TypeOK
<1>3. QED
  BY <1>1, <1>2, PTL DEF Spec

-----------------------------------------------------------------------------
(* Claims and cancels.                                                     *)

\* Tasks that merely let go of their runs disturb nothing in QueueInv.
LEMMA DropKeepsQueue ==
  ASSUME TypeOK, QueueInv, UNCHANGED <<status, heartbeat_at, opVars>>,
         budget'["lapse"] = 0,
         \A s \in Slots : \/ pc'[s] = "free" /\ job'[s] = NoRun
                          \/ pc'[s] = pc[s] /\ job'[s] = job[s]
  PROVE  QueueInv'
<1> USE DEF TypeOK, RunsOK, TasksOK, QueueInv, Holds, Orphaned, NoRun, opVars
<1>1. ClaimExclusive'
  BY RunsAssumption DEF ClaimExclusive
<1>2. HoldInv'
  BY DEF HoldInv
<1>3. LiveCancelFinal'
  BY DEF LiveCancelFinal
<1>4. QED
  BY <1>1, <1>2, <1>3

\* The task whose permit is released lets go of its run; no other task moves.
LEMMA FreeDrops ==
  ASSUME TypeOK, NEW s \in Slots, Free(s)
  PROVE  \A t \in Slots : \/ pc'[t] = "free" /\ job'[t] = NoRun
                          \/ pc'[t] = pc[t] /\ job'[t] = job[t]
  BY DEF Free, TypeOK, TasksOK

\* Every action keeps the claim exclusive and the holds sound.
LEMMA QueueStep == TypeOK /\ QueueInv /\ [Next]_vars => QueueInv'
<1> SUFFICES ASSUME TypeOK, QueueInv, [Next]_vars PROVE QueueInv'
  OBVIOUS
<1>b. /\ Spend("db") \/ Spend("crash") \/ Spend("sweep") => budget'["lapse"] = 0
      /\ ~Spend("lapse")
  BY DEF Spend, TypeOK, RestOK, Faults, QueueInv
<1>c. liveCancel \subseteq Runs /\ cancelling \subseteq Runs
  BY DEF TypeOK, RestOK
<1> USE <1>b, <1>c DEF TypeOK, RunsOK, TasksOK, QueueInv, ClaimExclusive,
   HoldInv, LiveCancelFinal, Holds, Held, Orphaned, NoRun, Exists
<1>1. ASSUME NEW r \in Runs, insert_run(r) PROVE QueueInv'
  BY <1>1 DEF insert_run, NextId, times, taskVars, procVars, opVars
<1>2. ASSUME NEW r \in Runs, insert_refused_run(r) PROVE QueueInv'
  BY <1>2 DEF insert_refused_run, NextId, taskVars, procVars, opVars
<1>3. ASSUME NEW s \in Slots, claim_run(s) PROVE QueueInv'
  BY <1>3 DEF claim_run, Claimable, procVars, opVars
<1>4. ASSUME NEW s \in Slots, mark_attempt(s) PROVE QueueInv'
  BY <1>4 DEF mark_attempt, times, procVars, opVars
<1>5. ASSUME NEW s \in Slots, start_job(s) PROVE QueueInv'
  BY <1>5 DEF start_job, Goto, runVars, times, opVars
<1>6. ASSUME NEW s \in Slots, exec_job(s) PROVE QueueInv'
  <2>1. PICK v \in Verdicts : finish_run(job[s], v[1], v[2], v[3])
    BY <1>6 DEF exec_job
  <2>2. v[1] \in {"succeeded", "failed"}
    BY DEF Verdicts
  <2>3. CASE status[job[s]] \in {"canceled", "gone"}
    BY <1>6, <2>1, <2>3 DEF exec_job, finish_run, Goto, runVars, times, opVars
  <2>4. CASE status[job[s]] \notin {"canceled", "gone"}
    <3>1. ClaimExclusive'
      BY <1>6, <2>1, <2>4 DEF exec_job, finish_run, Goto
    <3>2. HoldInv'
      BY <1>6, <2>1, <2>2, <2>4 DEF exec_job, finish_run, Goto, opVars
    <3>3. budget' = budget /\ LiveCancelFinal'
      <4>1. /\ UNCHANGED <<liveCancel, budget>> /\ job[s] \notin liveCancel
            /\ status' = [status EXCEPT ![job[s]] = v[1]]
        BY <1>6, <2>1, <2>4 DEF exec_job, finish_run, opVars
      <4>2. \A r : r # job[s] /\ r \in Runs => status'[r] = status[r]
        BY <4>1
      <4>3. QED
        BY <4>1, <4>2
    <3>4. QED
      BY <3>1, <3>2, <3>3
  <2>5. QED
    BY <2>3, <2>4
<1>7. ASSUME NEW s \in Slots, exec_job_err(s) PROVE QueueInv'
  <2>1. /\ budget'["lapse"] = 0 /\ UNCHANGED opVars
        /\ pc[s] = "exec" /\ Goto(s, "errpath")
    BY <1>7 DEF exec_job_err
  <2>2. CASE UNCHANGED runVars
    BY <2>1, <2>2 DEF Goto, runVars, times, opVars
  <2>3. ASSUME NEW v \in Verdicts, finish_run(job[s], v[1], v[2], v[3])
        PROVE  QueueInv'
    BY <2>1, <2>3 DEF finish_run, Verdicts, Goto, runVars, times, opVars
  <2>4. QED
    BY <1>7, <2>2, <2>3 DEF exec_job_err
<1>8. ASSUME NEW s \in Slots, run_err(s) PROVE QueueInv'
  <2>1. /\ budget'["lapse"] = 0 /\ UNCHANGED opVars
        /\ pc[s] = "errpath" /\ Goto(s, "recorded")
    BY <1>8 DEF run_err
  <2>2. CASE UNCHANGED runVars
    BY <2>1, <2>2 DEF Goto, runVars, times, opVars
  <2>3. CASE finish_run(job[s], "failed", "null", "infra")
    <3>1. CASE status[job[s]] \in {"canceled", "gone"}
      BY <2>1, <2>3, <3>1 DEF finish_run, Goto, runVars, times, opVars
    <3>2. CASE status[job[s]] \notin {"canceled", "gone"}
      <4>1. ClaimExclusive'
        BY <2>1, <2>3, <3>2 DEF finish_run, Goto
      <4>2. HoldInv'
        BY <2>1, <2>3, <3>2 DEF finish_run, Goto, opVars
      <4>3. LiveCancelFinal'
        <5>1. /\ UNCHANGED liveCancel /\ job[s] \notin liveCancel
              /\ status' = [status EXCEPT ![job[s]] = "failed"]
          BY <2>1, <2>3, <3>2 DEF finish_run, opVars
        <5>2. \A r : r # job[s] /\ r \in Runs => status'[r] = status[r]
          BY <5>1
        <5>3. QED
          BY <5>1, <5>2
      <4>4. QED
        BY <2>1, <4>1, <4>2, <4>3
    <3>3. QED
      BY <3>1, <3>2
  <2>4. QED
    BY <1>8, <2>2, <2>3 DEF run_err
<1>9. ASSUME NEW s \in Slots, end_run(s) PROVE QueueInv'
  BY <1>9 DEF end_run, Goto, runVars, times, opVars
<1>10. ASSUME NEW s \in Slots, run_outcome(s) PROVE QueueInv'
  <2>1. budget'["lapse"] = 0
    BY <1>10 DEF run_outcome
  <2>2. CASE Free(s)
    BY <1>10, <2>1, <2>2, FreeDrops, DropKeepsQueue DEF run_outcome, runVars,
       times
  <2>3. ASSUME NEW p \in {"errcheck", "requeue"}, Goto(s, p), Retriable(s)
        PROVE QueueInv'
    <3>1. status[job[s]] = "failed" /\ job[s] \in Runs /\ job[s] \notin liveCancel
      BY <1>10, <2>3 DEF run_outcome, Retriable
    <3>2. pc' = [pc EXCEPT ![s] = p] /\ UNCHANGED <<job, status, heartbeat_at,
       opVars>>
      BY <1>10, <2>3 DEF run_outcome, Goto, runVars, times
    <3>3. ClaimExclusive'
      BY <3>2
    <3>4. HoldInv'
      BY <3>1, <3>2 DEF opVars
    <3>5. LiveCancelFinal'
      BY <3>2 DEF opVars
    <3>6. QED
      BY <2>1, <3>3, <3>4, <3>5
  <2>4. QED
    BY <1>10, <2>2, <2>3 DEF run_outcome
<1>11. ASSUME NEW s \in Slots, run_error(s) PROVE QueueInv'
  <2>1. budget'["lapse"] = 0
    BY <1>11 DEF run_error
  <2>2. CASE Free(s)
    BY <1>11, <2>1, <2>2, FreeDrops, DropKeepsQueue DEF run_error, runVars,
       times
  <2>3. CASE Goto(s, "requeue")
    BY <1>11, <2>1, <2>3 DEF run_error, Goto, runVars, times, opVars
  <2>4. QED
    BY <1>11, <2>2, <2>3 DEF run_error
<1>12. ASSUME NEW s \in Slots, requeue(s) PROVE QueueInv'
  <2>1. budget'["lapse"] = 0 /\ Free(s) /\ UNCHANGED opVars
    BY <1>12 DEF requeue
  <2>2. CASE UNCHANGED <<status, heartbeat_at>>
    BY <2>1, <2>2, FreeDrops, DropKeepsQueue
  <2>3. CASE ~ UNCHANGED <<status, heartbeat_at>>
    <3>1. /\ job[s] \in Runs /\ job[s] \notin liveCancel
          /\ \A t \in Slots : t # s => job[t] # job[s]
      BY <1>12 DEF requeue
    <3>2. /\ status' = [status EXCEPT ![job[s]] = "pending"]
          /\ heartbeat_at' = [heartbeat_at EXCEPT ![job[s]] = "null"]
      BY <1>12, <2>3 DEF requeue
    <3>3. ClaimExclusive'
      <4>1. \A t \in Slots : job'[t] \in {job[t], NoRun}
        BY <2>1 DEF Free
      <4>2. QED
        BY <4>1, RunsAssumption
    <3>4. HoldInv'
      BY <2>1, <3>1, <3>2 DEF Free, opVars
    <3>5. LiveCancelFinal'
      BY <2>1, <3>1, <3>2 DEF opVars
    <3>6. QED
      BY <2>1, <3>3, <3>4, <3>5
  <2>4. QED
    BY <2>2, <2>3
<1>13. ASSUME NEW s \in Slots, touch_run(s) PROVE QueueInv'
  BY <1>13 DEF touch_run, taskVars, procVars, opVars
<1>14. ASSUME NEW r \in Runs, cancel(r) PROVE QueueInv'
  BY <1>14 DEF cancel, runVars, times, procVars
<1>15. ASSUME NEW r \in Runs, cancel_run(r) PROVE QueueInv'
  BY <1>15 DEF cancel_run, taskVars, procVars
<1>16. CASE reap_orphan_runs
  BY <1>16 DEF reap_orphan_runs, taskVars, procVars, opVars
<1>17. CASE fail_stale_pending
  BY <1>17 DEF fail_stale_pending, taskVars, procVars, opVars, Unclaimed
<1>18. CASE gc_old
  BY <1>18 DEF gc_old, taskVars, procVars, opVars
<1>19. ASSUME NEW r \in Runs, lease_expires(r) PROVE QueueInv'
  BY <1>19 DEF lease_expires, taskVars, procVars, opVars
<1>20. ASSUME NEW r \in Runs, pending_timeout_elapses(r) PROVE QueueInv'
  BY <1>20 DEF pending_timeout_elapses, taskVars, procVars, opVars
<1>21. ASSUME NEW r \in Runs, retention_elapses(r) PROVE QueueInv'
  BY <1>21 DEF retention_elapses, taskVars, procVars, opVars, Terminal
<1>22. ASSUME NEW e \in Executors, crash(e) PROVE QueueInv'
  <2>1. budget'["lapse"] = 0
    BY <1>22 DEF crash
  <2>2. \A s \in Slots : \/ pc'[s] = "free" /\ job'[s] = NoRun
                         \/ pc'[s] = pc[s] /\ job'[s] = job[s]
    BY <1>22 DEF crash
  <2>3. QED
    BY <1>22, <2>1, <2>2, DropKeepsQueue DEF crash, runVars, times
<1>23. ASSUME NEW e \in Executors, restart(e) PROVE QueueInv'
  <2>1. budget'["lapse"] = 0
    BY <1>23 DEF restart
  <2>2. QED
    BY <1>23, <2>1 DEF restart, runVars, times, opVars
<1>24. CASE orphan_exits
  BY <1>24 DEF orphan_exits, runVars, times, taskVars, opVars
<1>25. CASE UNCHANGED vars
  BY <1>25 DEF vars, runVars, times, taskVars, procVars, opVars
<1>26. QED
  BY <1>1, <1>2, <1>3, <1>4, <1>5, <1>6, <1>7, <1>8, <1>9, <1>10, <1>11,
     <1>12, <1>13, <1>14, <1>15, <1>16, <1>17, <1>18, <1>19, <1>20, <1>21,
     <1>22, <1>23, <1>24, <1>25 DEF Next, Task_step

\* When no lease lapses under a live executor, the queue invariant holds
\* whatever crashes, restarts, cancels and failing statements happen.
THEOREM QueueCorrect == ASSUME MaxLapses = 0 PROVE Spec => []QueueInv
<1>1. Init => QueueInv
  BY RunsAssumption DEF Init, Faults, QueueInv, ClaimExclusive, HoldInv,
     LiveCancelFinal, Holds, NoRun
<1>2. TypeOK /\ QueueInv /\ [Next]_vars => QueueInv'
  BY QueueStep
<1>3. QED
  BY <1>1, <1>2, TypeCorrect, PTL DEF Spec

\* No two worker tasks ever hold the same run: the reaper never hands a live
\* job to a second worker while leases are renewed in time.
THEOREM ClaimExclusiveHolds == ASSUME MaxLapses = 0 PROVE Spec => []ClaimExclusive
<1>1. QueueInv => ClaimExclusive
  BY DEF QueueInv
<1>2. QED
  BY <1>1, QueueCorrect, PTL

\* A cancel that found the run queued or running is never undone, by the
\* teardown's finish_run, by the retry decision or by a sweep.
THEOREM LiveCancelHolds == ASSUME MaxLapses = 0 PROVE Spec => []LiveCancelFinal
<1>1. QueueInv => LiveCancelFinal
  BY DEF QueueInv
<1>2. QED
  BY <1>1, QueueCorrect, PTL

\* Every action keeps the active map and the running jobs in step.
LEMMA ActiveStep == TypeOK /\ ClaimExclusive /\ ActiveInv /\ [Next]_vars => ActiveInv'
<1> SUFFICES ASSUME TypeOK, ClaimExclusive, ActiveInv,
   [Next]_vars PROVE ActiveInv'
  OBVIOUS
<1>a. active \in [Executors -> [Runs -> Slots \cup {NoSlot}]] /\ up \subseteq Executors
  BY DEF TypeOK, RestOK
<1> USE <1>a, SlotsAssumption DEF TypeOK, TasksOK, ActiveInv,
   ClaimExclusive, Holds, NoRun
<1>1. ASSUME NEW r \in Runs, insert_run(r) PROVE ActiveInv'
  BY <1>1 DEF insert_run, taskVars, procVars, opVars
<1>2. ASSUME NEW r \in Runs, insert_refused_run(r) PROVE ActiveInv'
  BY <1>2 DEF insert_refused_run, taskVars, procVars, opVars
<1>3. ASSUME NEW s \in Slots, claim_run(s) PROVE ActiveInv'
  BY <1>3 DEF claim_run, Claimable, procVars, opVars
<1>4. ASSUME NEW s \in Slots, mark_attempt(s) PROVE ActiveInv'
  BY <1>4 DEF mark_attempt, procVars, opVars
<1>5. ASSUME NEW s \in Slots, start_job(s) PROVE ActiveInv'
  <2>1. job[s] \in Runs /\ ExecutorOf[s] \in Executors
    BY <1>5 DEF start_job
  <2>2. CASE Goto(s, "errpath") /\ UNCHANGED active
    BY <1>5, <2>2 DEF start_job, Goto
  <2>3. CASE Goto(s, "exec")
    <3>1. active' = [active EXCEPT ![ExecutorOf[s]] = [@ EXCEPT ![job[s]] = s]]
      BY <1>5, <2>3 DEF start_job, Goto
    <3>2. QED
      BY <1>5, <2>1, <2>3, <3>1 DEF start_job, Goto
  <2>4. QED
    BY <1>5, <2>2, <2>3 DEF start_job
<1>6. ASSUME NEW s \in Slots, exec_job(s) PROVE ActiveInv'
  BY <1>6 DEF exec_job, finish_run, Verdicts, Goto, procVars, opVars
<1>7. ASSUME NEW s \in Slots, exec_job_err(s) PROVE ActiveInv'
  BY <1>7 DEF exec_job_err, finish_run, Verdicts, Goto, procVars, opVars
<1>8. ASSUME NEW s \in Slots, run_err(s) PROVE ActiveInv'
  BY <1>8 DEF run_err, finish_run, Goto, procVars, opVars
<1>9. ASSUME NEW s \in Slots, end_run(s) PROVE ActiveInv'
  <2>1. job[s] \in Runs /\ ExecutorOf[s] \in Executors
    BY <1>9 DEF end_run
  <2>2. /\ pc' = [pc EXCEPT ![s] = "decide"] /\ job' = job
        /\ active' = [active EXCEPT ![ExecutorOf[s]] = [@ EXCEPT ![job[s]] = NoSlot]]
    BY <1>9 DEF end_run, Goto
  <2>3. ASSUME NEW t \in Slots, pc'[t] = "exec"
        PROVE  active'[ExecutorOf[t]][job'[t]] = t
    <3>1. t # s /\ job[t] # job[s] /\ job[t] \in Runs /\ active[ExecutorOf[t]][job[t]] = t
      BY <1>9, <2>1, <2>2, <2>3 DEF end_run
    <3>2. QED
      BY <2>1, <2>2, <3>1
  <2>4. ASSUME NEW e \in Executors, NEW r \in Runs, NEW t \in Slots,
     active'[e][r] = t
        PROVE  ExecutorOf[t] = e /\ job'[t] = r /\ pc'[t] \in {"exec",
           "errpath", "recorded"}
    <3>1. ~ (e = ExecutorOf[s] /\ r = job[s])
      BY <2>1, <2>2, <2>4
    <3>2. active[e][r] = t
      BY <2>1, <2>2, <2>4, <3>1
    <3>3. ExecutorOf[t] = e /\ job[t] = r /\ pc[t] \in {"exec", "errpath",
       "recorded"} /\ t # s
      BY <3>1, <3>2
    <3>4. QED
      BY <2>2, <3>3
  <2>5. QED
    BY <2>3, <2>4
<1>10. ASSUME NEW s \in Slots, run_outcome(s) PROVE ActiveInv'
  <2>1. CASE Free(s)
    BY <1>10, <2>1 DEF run_outcome, Free, procVars
  <2>2. ASSUME NEW p \in {"errcheck", "requeue"}, Goto(s, p)
        PROVE ActiveInv'
    BY <1>10, <2>2 DEF run_outcome, Goto, procVars
  <2>3. QED
    BY <1>10, <2>1, <2>2 DEF run_outcome
<1>11. ASSUME NEW s \in Slots, run_error(s) PROVE ActiveInv'
  <2>1. CASE Free(s)
    BY <1>11, <2>1 DEF run_error, Free, procVars
  <2>2. CASE Goto(s, "requeue")
    BY <1>11, <2>2 DEF run_error, Goto, procVars
  <2>3. QED
    BY <1>11, <2>1, <2>2 DEF run_error
<1>12. ASSUME NEW s \in Slots, requeue(s) PROVE ActiveInv'
  BY <1>12 DEF requeue, Exists, Free, procVars, opVars
<1>13. ASSUME NEW s \in Slots, touch_run(s) PROVE ActiveInv'
  BY <1>13 DEF touch_run, taskVars, procVars, opVars
<1>14. ASSUME NEW r \in Runs, cancel(r) PROVE ActiveInv'
  BY <1>14 DEF cancel, procVars
<1>15. ASSUME NEW r \in Runs, cancel_run(r) PROVE ActiveInv'
  BY <1>15 DEF cancel_run, taskVars, procVars
<1>16. CASE reap_orphan_runs
  BY <1>16 DEF reap_orphan_runs, taskVars, procVars, opVars
<1>17. CASE fail_stale_pending
  BY <1>17 DEF fail_stale_pending, taskVars, procVars, opVars
<1>18. CASE gc_old
  BY <1>18 DEF gc_old, taskVars, procVars, opVars
<1>19. ASSUME NEW r \in Runs, lease_expires(r) PROVE ActiveInv'
  BY <1>19 DEF lease_expires, taskVars, procVars, opVars
<1>20. ASSUME NEW r \in Runs, pending_timeout_elapses(r) PROVE ActiveInv'
  BY <1>20 DEF pending_timeout_elapses, taskVars, procVars, opVars
<1>21. ASSUME NEW r \in Runs, retention_elapses(r) PROVE ActiveInv'
  BY <1>21 DEF retention_elapses, taskVars, procVars, opVars
<1>22. ASSUME NEW e \in Executors, crash(e) PROVE ActiveInv'
  BY <1>22 DEF crash, HasJob, opVars
<1>23. ASSUME NEW e \in Executors, restart(e) PROVE ActiveInv'
  BY <1>23 DEF restart, opVars
<1>24. CASE orphan_exits
  BY <1>24 DEF orphan_exits, taskVars, opVars
<1>25. CASE UNCHANGED vars
  BY <1>25 DEF vars, runVars, times, taskVars, procVars, opVars
<1>26. QED
  BY <1>1, <1>2, <1>3, <1>4, <1>5, <1>6, <1>7, <1>8, <1>9, <1>10, <1>11,
     <1>12, <1>13, <1>14, <1>15, <1>16, <1>17, <1>18, <1>19, <1>20, <1>21,
     <1>22, <1>23, <1>24, <1>25 DEF Next, Task_step

\* A cancel through an executor's active map reaches the container of exactly
\* the task that holds the run: entries never outlive or precede their job.
THEOREM ActiveTracksJobHolds == ASSUME MaxLapses = 0 PROVE Spec => []ActiveTracksJob
<1>1. Init => ActiveInv
  BY SlotsAssumption DEF Init, ActiveInv
<1>2. TypeOK /\ ClaimExclusive /\ ActiveInv /\ [Next]_vars => ActiveInv'
  BY ActiveStep
<1>3. ActiveInv => ActiveTracksJob
  BY DEF ActiveInv, ActiveTracksJob, Holds
<1>4. QED
  BY <1>1, <1>2, <1>3, TypeCorrect, ClaimExclusiveHolds, PTL DEF Spec

-----------------------------------------------------------------------------
(* Outcomes.                                                               *)

\* Every action keeps verdicts and declared timeouts final.
LEMMA VerdictStep == TypeOK /\ QueueInv /\ VerdictInv /\ [Next]_vars => VerdictInv'
<1> SUFFICES ASSUME TypeOK, QueueInv, VerdictInv, [Next]_vars PROVE VerdictInv'
  OBVIOUS
<1> USE BoundsAssumption DEF TypeOK, RunsOK, TasksOK, RestOK, Faults, QueueInv,
   HoldInv, ClaimExclusive, VerdictInv, VerdictFinal, DeclaredTimeoutFinal,
   OutcomeInv, Holds, NoRun, Terminal, Exists, Orphaned
<1>1. ASSUME NEW r \in Runs, insert_run(r) PROVE VerdictInv'
  BY <1>1 DEF insert_run, NextId, times, taskVars, procVars, opVars
<1>2. ASSUME NEW r \in Runs, insert_refused_run(r) PROVE VerdictInv'
  BY <1>2 DEF insert_refused_run, NextId, taskVars, procVars, opVars
<1>3. ASSUME NEW s \in Slots, claim_run(s) PROVE VerdictInv'
  <2>1. PICK r \in Runs : /\ status[r] = "pending"
                          /\ status' = [status EXCEPT ![r] = "running"]
                          /\ job' = [job EXCEPT ![s] = r]
    BY <1>3 DEF claim_run, Claimable
  <2>2. /\ pc' = [pc EXCEPT ![s] = "claimed"]
        /\ UNCHANGED <<exit_code, error, budget>>
    BY <1>3 DEF claim_run
  <2>3. exit_code[r] = "null" /\ \A t \in Slots : pc[t] # "free" => job[t] # r
    <3>1. exit_code[r] = "null"
      BY <2>1
    <3>2. \A t \in Slots : pc[t] # "free" => job[t] # r
      BY <2>1
    <3>3. QED
      BY <3>1, <3>2
  <2>4. VerdictFinal'
    BY <2>1, <2>2, <2>3
  <2>5. DeclaredTimeoutFinal'
    BY <2>1, <2>2, <2>3
  <2>6. OutcomeInv'
    BY <2>1, <2>2, <2>3
  <2>7. QED
    BY <2>2, <2>4, <2>5, <2>6
<1>4. ASSUME NEW s \in Slots, mark_attempt(s) PROVE VerdictInv'
  BY <1>4 DEF mark_attempt, Spend, times, procVars, opVars
<1>5. ASSUME NEW s \in Slots, start_job(s) PROVE VerdictInv'
  BY <1>5 DEF start_job, Goto, runVars, times, opVars
<1>6. ASSUME NEW s \in Slots, exec_job(s) PROVE VerdictInv'
  <2>1. PICK v \in Verdicts : finish_run(job[s], v[1], v[2], v[3])
    BY <1>6 DEF exec_job
  <2>2. v[1] \in {"succeeded", "failed"}
    BY DEF Verdicts
  <2>3. CASE status[job[s]] \in {"canceled", "gone"}
    BY <1>6, <2>1, <2>3 DEF exec_job, finish_run, Goto, runVars, times
  <2>4. CASE status[job[s]] \notin {"canceled", "gone"}
    <3>1. job[s] \in Runs /\ \A t \in Slots : t # s => job[t] # job[s]
      BY <1>6 DEF exec_job
    <3>2. /\ status' = [status EXCEPT ![job[s]] = v[1]]
          /\ exit_code' = [exit_code EXCEPT ![job[s]] = v[2]]
          /\ error' = [error EXCEPT ![job[s]] = v[3]]
          /\ pc' = [pc EXCEPT ![s] = "recorded"]
          /\ UNCHANGED <<job, budget>>
      BY <1>6, <2>1, <2>4 DEF exec_job, finish_run, Goto
    <3>3. VerdictFinal'
      BY <2>2, <3>1, <3>2
    <3>4. DeclaredTimeoutFinal'
      BY <2>2, <3>1, <3>2
    <3>5. OutcomeInv'
      BY <2>2, <3>1, <3>2
    <3>6. QED
      BY <3>2, <3>3, <3>4, <3>5
  <2>5. QED
    BY <2>3, <2>4
<1>7. ASSUME NEW s \in Slots, exec_job_err(s) PROVE VerdictInv'
  BY <1>7 DEF exec_job_err, finish_run, Verdicts, Goto, Spend, runVars, times,
     procVars, opVars
<1>8. ASSUME NEW s \in Slots, run_err(s) PROVE VerdictInv'
  <2>1. finish_run(job[s], "failed", "null", "infra")
    BY <1>8 DEF run_err, Spend
  <2>2. CASE status[job[s]] \in {"canceled", "gone"}
    BY <1>8, <2>1, <2>2 DEF run_err, finish_run, Goto, Spend, runVars, times
  <2>3. CASE status[job[s]] \notin {"canceled", "gone"}
    <3>1. job[s] \in Runs /\ \A t \in Slots : t # s => job[t] # job[s]
      BY <1>8 DEF run_err
    <3>2. /\ status' = [status EXCEPT ![job[s]] = "failed"]
          /\ exit_code' = [exit_code EXCEPT ![job[s]] = "null"]
          /\ error' = [error EXCEPT ![job[s]] = "infra"]
          /\ pc' = [pc EXCEPT ![s] = "recorded"]
          /\ UNCHANGED <<job, budget>>
      BY <1>8, <2>1, <2>3 DEF run_err, finish_run, Goto, Spend
    <3>3. VerdictFinal'
      BY <3>1, <3>2
    <3>4. DeclaredTimeoutFinal'
      BY <3>1, <3>2
    <3>5. OutcomeInv'
      BY <3>1, <3>2
    <3>6. QED
      BY <3>2, <3>3, <3>4, <3>5
  <2>4. QED
    BY <2>2, <2>3
<1>9. ASSUME NEW s \in Slots, end_run(s) PROVE VerdictInv'
  BY <1>9 DEF end_run, Goto, runVars, times, opVars
<1>10. ASSUME NEW s \in Slots, run_outcome(s) PROVE VerdictInv'
  BY <1>10 DEF run_outcome, Goto, Free, Spend, runVars, times, procVars,
     opVars, Retriable
<1>11. ASSUME NEW s \in Slots, run_error(s) PROVE VerdictInv'
  BY <1>11 DEF run_error, Goto, Free, Spend, runVars, times, procVars, opVars
<1>12. ASSUME NEW s \in Slots, requeue(s) PROVE VerdictInv'
  <2>1. /\ job[s] \in Runs /\ pc[s] = "requeue"
        /\ \A t \in Slots : t # s => job[t] # job[s]
    BY <1>12 DEF requeue
  <2>2. /\ pc' = [pc EXCEPT ![s] = "free"] /\ job' = [job EXCEPT ![s] = NoRun]
        /\ UNCHANGED <<exit_code, error, budget>>
        /\ status' = status \/ status' = [status EXCEPT ![job[s]] = "pending"]
    BY <1>12 DEF requeue, Free, Spend
  <2>3. VerdictFinal'
    BY <2>1, <2>2
  <2>4. DeclaredTimeoutFinal'
    BY <2>1, <2>2
  <2>5. OutcomeInv'
    BY <2>1, <2>2
  <2>6. QED
    BY <2>2, <2>3, <2>4, <2>5
<1>13. ASSUME NEW s \in Slots, touch_run(s) PROVE VerdictInv'
  BY <1>13 DEF touch_run, taskVars, procVars, opVars
<1>14. ASSUME NEW r \in Runs, cancel(r) PROVE VerdictInv'
  BY <1>14 DEF cancel, runVars, times, procVars
<1>15. ASSUME NEW r \in Runs, cancel_run(r) PROVE VerdictInv'
  <2>1. /\ \/ UNCHANGED <<status, error>>
           \/ /\ status' = [status EXCEPT ![r] = "canceled"]
              /\ error' = [error EXCEPT ![r] = "canceled"]
        /\ UNCHANGED <<pc, job, exit_code, budget>>
    BY <1>15 DEF cancel_run, taskVars
  <2>2. VerdictFinal'
    BY <2>1
  <2>3. DeclaredTimeoutFinal'
    BY <2>1
  <2>4. OutcomeInv'
    BY <2>1
  <2>5. QED
    BY <2>1, <2>2, <2>3, <2>4
<1>16. CASE reap_orphan_runs
  BY <1>16 DEF reap_orphan_runs, taskVars, procVars, opVars
<1>17. CASE fail_stale_pending
  BY <1>17 DEF fail_stale_pending, taskVars, procVars, opVars, Unclaimed
<1>18. CASE gc_old
  BY <1>18 DEF gc_old, taskVars, procVars, opVars
<1>19. ASSUME NEW r \in Runs, lease_expires(r) PROVE VerdictInv'
  BY <1>19 DEF lease_expires, Spend, taskVars, procVars, opVars
<1>20. ASSUME NEW r \in Runs, pending_timeout_elapses(r) PROVE VerdictInv'
  BY <1>20 DEF pending_timeout_elapses, taskVars, procVars, opVars
<1>21. ASSUME NEW r \in Runs, retention_elapses(r) PROVE VerdictInv'
  BY <1>21 DEF retention_elapses, taskVars, procVars, opVars
<1>22. ASSUME NEW e \in Executors, crash(e) PROVE VerdictInv'
  BY <1>22 DEF crash, HasJob, Spend, runVars, times, opVars
<1>23. ASSUME NEW e \in Executors, restart(e) PROVE VerdictInv'
  <2>1. budget'["db"] = 0
    BY <1>23 DEF restart, Spend
  <2>2. QED
    BY <1>23, <2>1 DEF restart, runVars, times, opVars
<1>24. CASE orphan_exits
  BY <1>24 DEF orphan_exits, runVars, times, taskVars, opVars
<1>25. CASE UNCHANGED vars
  BY <1>25 DEF vars, runVars, times, taskVars, procVars, opVars
<1>26. QED
  BY <1>1, <1>2, <1>3, <1>4, <1>5, <1>6, <1>7, <1>8, <1>9, <1>10, <1>11,
     <1>12, <1>13, <1>14, <1>15, <1>16, <1>17, <1>18, <1>19, <1>20, <1>21,
     <1>22, <1>23, <1>24, <1>25 DEF Next, Task_step

\* Without lapsed leases and failing statements the verdict invariant holds,
\* whatever crashes, restarts and cancels happen.
THEOREM VerdictCorrect ==
  ASSUME MaxLapses = 0, MaxDbFaults = 0 PROVE Spec => []VerdictInv
<1>1. Init => VerdictInv
  BY RunsAssumption, BoundsAssumption DEF Init, Faults, VerdictInv, VerdictFinal,
     DeclaredTimeoutFinal, OutcomeInv, NoRun
<1>2. TypeOK /\ QueueInv /\ VerdictInv /\ [Next]_vars => VerdictInv'
  BY VerdictStep
<1>3. QED
  BY <1>1, <1>2, TypeCorrect, QueueCorrect, PTL DEF Spec

\* A run with a recorded exit code is never queued or claimed again.
THEOREM VerdictFinalHolds ==
  ASSUME MaxLapses = 0, MaxDbFaults = 0 PROVE Spec => []VerdictFinal
<1>1. VerdictInv => VerdictFinal
  BY DEF VerdictInv
<1>2. QED
  BY <1>1, VerdictCorrect, PTL

\* A run that hit the limit its own script declared is never retried.
THEOREM DeclaredTimeoutHolds ==
  ASSUME MaxLapses = 0, MaxDbFaults = 0 PROVE Spec => []DeclaredTimeoutFinal
<1>1. VerdictInv => DeclaredTimeoutFinal
  BY DEF VerdictInv
<1>2. QED
  BY <1>1, VerdictCorrect, PTL

\* No step takes a succeeded run anywhere but out of the table.
LEMMA SucceededStep ==
  ASSUME TypeOK, QueueInv, VerdictInv, [Next]_vars,
         NEW q \in Runs, status[q] = "succeeded"
  PROVE  status'[q] \in {"succeeded", "gone"}
<1> USE DEF TypeOK, RunsOK, TasksOK
<1>1. CASE UNCHANGED status
  BY <1>1
<1>2. ASSUME NEW r \in Runs, insert_run(r) \/ insert_refused_run(r)
      PROVE  status'[q] = "succeeded"
  BY <1>2 DEF insert_run, insert_refused_run, NextId
<1>3. ASSUME NEW s \in Slots, claim_run(s) PROVE status'[q] = "succeeded"
  BY <1>3 DEF claim_run, Claimable
<1>4. ASSUME NEW s \in Slots, pc[s] \in {"exec", "errpath", "requeue"}
      PROVE  job[s] # q
  BY <1>4 DEF QueueInv, HoldInv, VerdictInv, OutcomeInv
<1>5. ASSUME NEW s \in Slots, exec_job(s) \/ exec_job_err(s) \/ run_err(s)
      PROVE  status'[q] = "succeeded"
  BY <1>4, <1>5 DEF exec_job, exec_job_err, run_err, finish_run, runVars
<1>6. ASSUME NEW s \in Slots, requeue(s) PROVE status'[q] = "succeeded"
  BY <1>4, <1>6 DEF requeue
<1>7. ASSUME NEW r \in Runs, cancel_run(r) PROVE status'[q] = "succeeded"
  BY <1>7 DEF cancel_run
<1>8. CASE reap_orphan_runs
  BY <1>8 DEF reap_orphan_runs, Orphaned
<1>9. CASE fail_stale_pending
  BY <1>9 DEF fail_stale_pending, Unclaimed
<1>10. CASE gc_old
  BY <1>10 DEF gc_old
<1>11. QED
  <2>1. ASSUME NEW s \in Slots, Task_step(s)
        PROVE  status'[q] \in {"succeeded", "gone"}
    BY <1>5, <1>6, <2>1 DEF Task_step, mark_attempt, start_job, end_run,
       run_outcome, run_error, runVars
  <2>2. QED
    BY <1>1, <1>2, <1>3, <1>7, <1>8, <1>9, <1>10, <2>1
    DEF Next, touch_run, cancel, lease_expires, pending_timeout_elapses,
        retention_elapses, crash, restart, orphan_exits, vars, runVars

\* A run reported succeeded stays succeeded until retention deletes it: no
\* late cancel, duplicate execution or sweep overwrites the success.
THEOREM SucceededHolds ==
  ASSUME MaxLapses = 0, MaxDbFaults = 0 PROVE Spec => SucceededFinal
<1>1. TypeOK /\ QueueInv /\ VerdictInv /\ [Next]_vars =>
        [\A r \in Runs : status[r] = "succeeded" =>
            status'[r] \in {"succeeded", "gone"}]_vars
  BY SucceededStep
<1>2. QED
  BY <1>1, TypeCorrect, QueueCorrect, VerdictCorrect, PTL
  DEF Spec, SucceededFinal

-----------------------------------------------------------------------------
(* The queue implements RunLifecycle.                                      *)

\* Nothing has finished before it was inserted.
AbsentInv == \A r \in Runs : status[r] = "absent" => finished_at[r] = "null"

\* Every action that stamps finished_at does so on a row, and no row goes back
\* to not being there.
LEMMA AbsentStep == TypeOK /\ AbsentInv /\ [Next]_vars => AbsentInv'
<1> SUFFICES ASSUME TypeOK, AbsentInv, [Next]_vars PROVE AbsentInv'
  OBVIOUS
<1> USE DEF TypeOK, RunsOK, TasksOK, AbsentInv, Exists, NoRun
<1>1. CASE UNCHANGED <<status, finished_at>>
  BY <1>1
<1>2. ASSUME NEW r \in Runs, \/ insert_run(r) \/ insert_refused_run(r) \/ cancel_run(r)
                              \/ retention_elapses(r)
      PROVE  AbsentInv'
  BY <1>2 DEF insert_run, insert_refused_run, cancel_run, retention_elapses, times
<1>3. ASSUME NEW s \in Slots, NEW r, NEW st \in {"succeeded", "failed"}, NEW code, NEW err,
             finish_run(r, st, code, err)
      PROVE  AbsentInv'
  BY <1>3 DEF finish_run, runVars, times
<1>4. ASSUME NEW s \in Slots, exec_job(s) \/ exec_job_err(s) \/ run_err(s) PROVE AbsentInv'
  <2>1. CASE UNCHANGED runVars
    BY <1>1, <2>1 DEF runVars, times
  <2>2. CASE \E v \in Verdicts : finish_run(job[s], v[1], v[2], v[3])
    <3>1. PICK v \in Verdicts : finish_run(job[s], v[1], v[2], v[3])
      BY <2>2
    <3>2. v[1] \in {"succeeded", "failed"}
      BY DEF Verdicts
    <3> HIDE DEF finish_run
    <3>3. QED
      BY <1>3, <3>1, <3>2
  <2>3. CASE finish_run(job[s], "failed", "null", "infra")
    BY <1>3, <2>3
  <2>4. QED
    BY <1>4, <2>1, <2>2, <2>3 DEF exec_job, exec_job_err, run_err
<1>5. ASSUME NEW s \in Slots, claim_run(s) \/ requeue(s) PROVE AbsentInv'
  BY <1>5 DEF claim_run, requeue
<1>6. CASE reap_orphan_runs \/ fail_stale_pending \/ gc_old
  BY <1>6 DEF reap_orphan_runs, fail_stale_pending, gc_old
<1>7. ASSUME NEW s \in Slots, Task_step(s) PROVE AbsentInv'
  BY <1>1, <1>4, <1>5, <1>7 DEF Task_step, mark_attempt, start_job, end_run,
     run_outcome, run_error, runVars, times
<1>8. QED
  BY <1>1, <1>2, <1>5, <1>6, <1>7
  DEF Next, touch_run, cancel, lease_expires, pending_timeout_elapses,
      crash, restart, orphan_exits, vars, runVars, times

\* A step that leaves the columns of a run and its live cancel alone leaves its
\* conclusion alone.
LEMMA SameConclusion ==
  ASSUME NEW q \in Runs, status'[q] = status[q], exit_code'[q] = exit_code[q],
         q \in liveCancel' <=> q \in liveCancel
  PROVE  Life'[q] = Life[q]
BY DEF Life, Conclusion

\* The moves RunLifecycle allows one run.
Moves == {<<"none", "open">>, <<"open", "ok">>, <<"open", "verdict">>,
          <<"open", "canceled">>, <<"verdict", "canceled">>}

\* A step that moves the conclusion of at most one run, by one of these moves,
\* is a step of RunLifecycle.
LEMMA OneMoves ==
  ASSUME NEW r \in Runs,
         \A q \in Runs : q # r => Life'[q] = Life[q],
         Life'[r] = Life[r] \/ <<Life[r], Life'[r]>> \in Moves
  PROVE  [L!Next]_Life
<1>1. Life = [q \in Runs |-> Life[q]] /\ Life' = [q \in Runs |-> Life'[q]]
  BY DEF Life
<1>2. CASE Life'[r] = Life[r]
  BY <1>1, <1>2
<1>3. CASE <<Life[r], Life'[r]>> \in Moves
  <2>1. Life' = [Life EXCEPT ![r] = Life'[r]]
    BY <1>1
  <2>2. L!Submit(r) \/ L!Succeed(r) \/ L!Conclude(r) \/ L!Cancel(r)
    BY <1>3, <2>1 DEF Moves, L!Submit, L!Succeed, L!Conclude, L!Cancel, L!Move
  <2>3. QED
    BY <2>2 DEF L!Next
<1>4. QED
  BY <1>2, <1>3

\* Every step of the queue is a step of RunLifecycle or leaves it alone.
LEMMA LifecycleStep ==
  TypeOK /\ QueueInv /\ VerdictInv /\ AbsentInv /\ [Next]_vars => [L!Next]_Life
<1> SUFFICES ASSUME TypeOK, QueueInv, VerdictInv, AbsentInv, [Next]_vars
             PROVE  [L!Next]_Life
  OBVIOUS
<1>1. /\ status \in [Runs -> Statuses] /\ finished_at \in [Runs -> {"null", "recent", "old"}]
      /\ exit_code \in [Runs -> {"null", "zero", "nonzero"}]
      /\ job \in [Slots -> Runs \cup {NoRun}]
      /\ \A s \in Slots : pc[s] # "free" => job[s] \in Runs
  BY DEF TypeOK, RunsOK, TasksOK
<1>2. /\ \A r \in Runs : exit_code[r] # "null" => status[r] \in Terminal
      /\ \A r \in liveCancel : status[r] \in {"canceled", "gone"}
      /\ budget["db"] = 0
  BY DEF QueueInv, VerdictInv, VerdictFinal, LiveCancelFinal
<1>3. CASE UNCHANGED <<status, exit_code, liveCancel>>
  <2>1. Life' = Life
    BY <1>3 DEF Life, Conclusion
  <2>2. QED
    BY <2>1
<1>4. ASSUME NEW r \in Runs, insert_run(r) \/ insert_refused_run(r) PROVE [L!Next]_Life
  <2>1. /\ status[r] = "absent" /\ exit_code[r] = "null"
        /\ status' \in {[status EXCEPT ![r] = "pending"], [status EXCEPT ![r] = "failed"]}
        /\ UNCHANGED <<exit_code, liveCancel>>
    BY <1>2, <1>4 DEF insert_run, insert_refused_run, NextId, opVars, Terminal
  <2>2. \A q \in Runs : q # r => Life'[q] = Life[q]
    BY <1>1, <2>1, SameConclusion
  <2>3. Life[r] = "none" /\ Life'[r] = "open"
    BY <1>1, <2>1 DEF Life, Conclusion
  <2>4. QED
    BY <2>2, <2>3, OneMoves DEF Moves
<1>5. ASSUME NEW s \in Slots, claim_run(s) PROVE [L!Next]_Life
  <2>1. PICK r \in Runs : /\ status[r] = "pending"
                          /\ status' = [status EXCEPT ![r] = "running"]
                          /\ UNCHANGED <<exit_code, liveCancel>>
    BY <1>5 DEF claim_run, Claimable, opVars
  <2>2. \A q \in Runs : q # r => Life'[q] = Life[q]
    BY <1>1, <2>1, SameConclusion
  <2>3. Life'[r] = Life[r]
    BY <1>1, <2>1 DEF Life, Conclusion
  <2>4. QED
    BY <2>2, <2>3, OneMoves
\* An outcome is only written on a row that is running, canceled or gone.
<1>6. ASSUME NEW s \in Slots, pc[s] \in {"exec", "errpath"},
             NEW v \in Verdicts, finish_run(job[s], v[1], v[2], v[3]), UNCHANGED liveCancel
      PROVE  [L!Next]_Life
  <2>1. job[s] \in Runs /\ status[job[s]] \in {"running", "canceled", "gone"}
    BY <1>1, <1>6 DEF VerdictInv, OutcomeInv
  <2>2. CASE status[job[s]] # "running"
    BY <1>3, <1>6, <2>1, <2>2 DEF finish_run, runVars
  <2>3. CASE status[job[s]] = "running"
    <3>1. /\ status' = [status EXCEPT ![job[s]] = v[1]]
          /\ exit_code' = [exit_code EXCEPT ![job[s]] = v[2]]
      BY <1>6, <2>3 DEF finish_run
    <3>2. \A q \in Runs : q # job[s] => Life'[q] = Life[q]
      BY <1>1, <1>6, <3>1, SameConclusion
    <3>3. <<v[1], v[2]>> \in {<<"succeeded", "zero">>, <<"failed", "nonzero">>,
                             <<"failed", "null">>}
      BY <1>6 DEF Verdicts
    <3>4. Life[job[s]] = "open" /\ Life'[job[s]] \in {"ok", "verdict", "open"}
      BY <1>1, <2>1, <2>3, <3>1, <3>3 DEF Life, Conclusion
    <3>5. QED
      BY <2>1, <3>2, <3>4, OneMoves DEF Moves
  <2>4. QED
    BY <2>1, <2>2, <2>3
<1>7. ASSUME NEW s \in Slots, exec_job(s) \/ exec_job_err(s) \/ run_err(s)
      PROVE  [L!Next]_Life
  <2>1. CASE exec_job(s)
    BY <1>6, <2>1 DEF exec_job, opVars
  <2>2. CASE exec_job_err(s)
    <3>1. UNCHANGED <<status, exit_code, liveCancel>>
      BY <1>2, <2>2 DEF exec_job_err, Spend, runVars, opVars
    <3>2. QED
      BY <1>3, <3>1
  <2>3. CASE run_err(s)
    <3>1. /\ pc[s] = "errpath" /\ UNCHANGED liveCancel
          /\ finish_run(job[s], "failed", "null", "infra")
      BY <1>2, <2>3 DEF run_err, Spend, opVars
    <3>2. <<"failed", "null", "infra">> \in Verdicts
      BY DEF Verdicts
    <3>3. QED
      BY <1>6, <3>1, <3>2
  <2>4. QED
    BY <1>7, <2>1, <2>2, <2>3
\* requeue finds a failure without an exit code, or the late cancel of one.
<1>8. ASSUME NEW s \in Slots, requeue(s) PROVE [L!Next]_Life
  <2>1. /\ job[s] \in Runs /\ status[job[s]] \in {"failed", "canceled", "gone"}
        /\ job[s] \notin liveCancel /\ exit_code[job[s]] = "null"
    BY <1>1, <1>8 DEF requeue, QueueInv, HoldInv, VerdictInv, OutcomeInv
  <2>2. /\ UNCHANGED <<exit_code, liveCancel>>
        /\ \/ UNCHANGED status
           \/ /\ status[job[s]] # "gone"
              /\ status' = [status EXCEPT ![job[s]] = "pending"]
    BY <1>8 DEF requeue, Exists, opVars
  <2>3. CASE UNCHANGED status
    BY <1>3, <2>2, <2>3
  <2>4. CASE /\ status[job[s]] # "gone"
             /\ status' = [status EXCEPT ![job[s]] = "pending"]
    <3>1. \A q \in Runs : q # job[s] => Life'[q] = Life[q]
      BY <1>1, <2>2, <2>4, SameConclusion
    <3>2. Life'[job[s]] = Life[job[s]]
      BY <1>1, <2>1, <2>2, <2>4 DEF Life, Conclusion
    <3>3. QED
      BY <2>1, <3>1, <3>2, OneMoves
  <2>5. QED
    BY <2>2, <2>3, <2>4
<1>9. ASSUME NEW r \in Runs, cancel_run(r) PROVE [L!Next]_Life
  <2>1. /\ UNCHANGED exit_code
        /\ liveCancel' = IF status[r] \in {"pending", "running"}
                         THEN liveCancel \cup {r} ELSE liveCancel
        /\ status' = IF status[r] \in {"succeeded", "gone"} THEN status
                     ELSE [status EXCEPT ![r] = "canceled"]
    BY <1>9 DEF cancel_run
  <2>2. \A q \in Runs : q # r => Life'[q] = Life[q]
    BY <1>1, <2>1, SameConclusion
  <2>3. Life'[r] = Life[r] \/ <<Life[r], Life'[r]>> \in Moves
    <3>1. CASE status[r] \in {"succeeded", "gone"}
      BY <1>1, <2>1, <3>1 DEF Life, Conclusion
    <3>2. CASE status[r] \in {"pending", "running"}
      BY <1>1, <2>1, <3>2 DEF Life, Conclusion, Moves
    <3>3. CASE status[r] \in {"absent", "failed", "canceled"}
      <4>1. status'[r] = "canceled" /\ liveCancel' = liveCancel /\ exit_code' = exit_code
        BY <1>1, <2>1, <3>3
      <4>2. status[r] = "absent" => exit_code[r] = "null" /\ r \notin liveCancel
        BY <1>1, <1>2 DEF Terminal
      <4>3. status[r] = "failed" => r \notin liveCancel
        BY <1>2
      <4>4. QED
        BY <3>3, <4>1, <4>2, <4>3 DEF Life, Conclusion, Moves
    <3>4. QED
      BY <1>1, <3>1, <3>2, <3>3 DEF Statuses, Terminal
  <2>4. QED
    BY <2>2, <2>3, OneMoves
\* The sweeps move many rows at once, none of them to another conclusion ...
<1>10. CASE reap_orphan_runs \/ fail_stale_pending
  <2>1. /\ UNCHANGED <<exit_code, liveCancel>>
        /\ \A q \in Runs : \/ status'[q] = status[q]
                           \/ status[q] = "running" /\ status'[q] = "pending"
                           \/ status[q] = "pending" /\ status'[q] = "failed"
    <3>1. CASE reap_orphan_runs
      <4>1. /\ status' = [r \in Runs |-> IF Orphaned(r) THEN "pending" ELSE status[r]]
            /\ UNCHANGED <<exit_code, liveCancel>>
        BY <3>1 DEF reap_orphan_runs, opVars
      <4>2. QED
        BY <4>1 DEF Orphaned
    <3>2. CASE fail_stale_pending
      <4>1. /\ status' = [r \in Runs |-> IF Unclaimed(r) THEN "failed" ELSE status[r]]
            /\ UNCHANGED <<exit_code, liveCancel>>
        BY <3>2 DEF fail_stale_pending, opVars
      <4>2. QED
        BY <4>1 DEF Unclaimed
    <3>3. QED
      BY <1>10, <3>1, <3>2
  <2>2. \A q \in Runs : Conclusion(q)' = Conclusion(q)
    BY <1>2, <2>1 DEF Conclusion, Terminal
  <2>3. Life' = Life
    BY <2>2 DEF Life
  <2>4. QED
    BY <2>3
\* ... and retention deletes some.
<1>11. CASE gc_old
  <2>1. \A q \in Runs : \/ status'[q] = status[q] /\ exit_code'[q] = exit_code[q]
                        \/ finished_at[q] = "old" /\ status'[q] = "gone"
    <3>1. /\ status' = [r \in Runs |-> IF finished_at[r] = "old" THEN "gone" ELSE status[r]]
          /\ exit_code' = [r \in Runs |-> IF finished_at[r] = "old" THEN "null" ELSE exit_code[r]]
      BY <1>11 DEF gc_old
    <3>2. QED
      BY <3>1
  <2>2. liveCancel' = liveCancel
    BY <1>11 DEF gc_old, opVars
  <2>3. ASSUME NEW q \in Runs
        PROVE  Life'[q] = Life[q] \/ (Life[q] # "none" /\ Life'[q] = "gone")
    <3>1. CASE status'[q] = status[q] /\ exit_code'[q] = exit_code[q]
      BY <2>2, <3>1, SameConclusion
    <3>2. CASE finished_at[q] = "old" /\ status'[q] = "gone"
      <4>1. status[q] # "absent"
        BY <3>2 DEF AbsentInv
      <4>2. QED
        BY <3>2, <4>1 DEF Life, Conclusion
    <3>3. QED
      BY <2>1, <3>1, <3>2
  <2>4. DOMAIN Life' = Runs
    BY DEF Life
  <2>5. QED
    BY <2>3, <2>4 DEF L!Next, L!Expunge
<1>12. ASSUME NEW s \in Slots, Task_step(s) PROVE [L!Next]_Life
  BY <1>3, <1>7, <1>8, <1>12 DEF Task_step, mark_attempt, start_job, end_run,
     run_outcome, run_error, runVars, opVars
<1>13. QED
  BY <1>3, <1>4, <1>5, <1>9, <1>10, <1>11, <1>12
  DEF Next, touch_run, cancel, lease_expires, pending_timeout_elapses,
      retention_elapses, crash, restart, orphan_exits, vars, runVars, opVars

\* The queue of db.rs, the worker, cancels, crashes and sweeps implement the
\* promise of RunLifecycle: a success, an exit code or a cancel of a live run is
\* the one conclusion of a run.
THEOREM LifecycleHolds ==
  ASSUME MaxLapses = 0, MaxDbFaults = 0 PROVE Spec => Lifecycle
<1>1. Init => L!Init
  BY DEF Init, L!Init, Life, Conclusion
<1>2. Init => AbsentInv
  BY DEF Init, AbsentInv
<1>3. TypeOK /\ AbsentInv /\ [Next]_vars => AbsentInv'
  BY AbsentStep
<1>4. TypeOK /\ QueueInv /\ VerdictInv /\ AbsentInv /\ [Next]_vars => [L!Next]_Life
  BY LifecycleStep
<1>5. QED
  BY <1>1, <1>2, <1>3, <1>4, TypeCorrect, QueueCorrect, VerdictCorrect, PTL
  DEF Spec, Lifecycle, L!Spec

-----------------------------------------------------------------------------
(* Attempts and retries.                                                   *)

\* The attempts that crashes took with them.
Crashes == MaxCrashes - budget["crash"]
Tries == MAX_ATTEMPTS + Crashes

\* A run that may be claimed (again) has a try left, if need be one that a crash gave back:
\* it is in the queue, or running in nobody's hands, or claimed and not yet counted.
Open(r) == status[r] \in {"absent", "pending"} \/ (status[r] = "running" /\ ~Held(r))

TriesOK == \A r \in Runs : attempts[r] <= Tries /\ (Open(r) => attempts[r] < Tries)

\* A task knows how often its run was tried, and decides to requeue it below the limit only;
\* a run it lets go of is not running.
TaskTries ==
    \A s \in Slots :
        /\ pc[s] = "claimed" => attempts[job[s]] < Tries
        /\ pc[s] \notin {"free", "claimed"} /\ status[job[s]] # "gone" =>
              attempt[s] = attempts[job[s]]
        /\ pc[s] \in {"recorded", "decide"} => status[job[s]] \in Terminal \cup {"gone"}
        /\ pc[s] \in {"errcheck", "requeue"} => attempt[s] < MAX_ATTEMPTS
        /\ pc[s] = "errcheck" => job[s] \in Declared
TryInv == TriesOK /\ TaskTries

\* Crashes are not undone.
CrashesOK == budget["crash"] <= MaxCrashes

\* Every action keeps the count of the attempts below the limit.
LEMMA TryStep == TypeOK /\ QueueInv /\ VerdictInv /\ CrashesOK /\ TryInv /\ [Next]_vars => TryInv'
<1> SUFFICES ASSUME TypeOK, QueueInv, VerdictInv, CrashesOK, TriesOK, TaskTries, [Next]_vars
             PROVE  TryInv'
  BY DEF TryInv
<1> USE BoundsAssumption, RunsAssumption DEF TypeOK, RunsOK, TasksOK, RestOK, Faults, QueueInv,
   HoldInv, ClaimExclusive, VerdictInv, OutcomeInv, Holds, Held, NoRun, Terminal, Exists,
   Orphaned
<1>1. ASSUME NEW r \in Runs, insert_run(r) PROVE TryInv'
  BY <1>1 DEF insert_run, NextId, times, taskVars, procVars, opVars, TryInv, TriesOK,
     TaskTries, Open, Tries, Crashes
<1>2. ASSUME NEW r \in Runs, insert_refused_run(r) PROVE TryInv'
  BY <1>2 DEF insert_refused_run, NextId, taskVars, procVars, opVars, TryInv, TriesOK,
     TaskTries, Open, Tries, Crashes
<1>3. ASSUME NEW s \in Slots, claim_run(s) PROVE TryInv'
  BY <1>3 DEF claim_run, Claimable, procVars, opVars, TryInv, TriesOK, TaskTries, Open, Tries,
     Crashes
<1>4. ASSUME NEW s \in Slots, mark_attempt(s) PROVE TryInv'
  <2>1. /\ job[s] \in Runs /\ pc[s] = "claimed" /\ attempts[job[s]] < Tries /\ ~Open(job[s])
        /\ \A t \in Slots : t # s => job[t] # job[s]
    BY <1>4 DEF mark_attempt, TaskTries, Open
  <2>2. /\ pc' = [pc EXCEPT ![s] = "marked"] /\ UNCHANGED <<status, job, budget>>
        /\ \/ /\ attempts' = [attempts EXCEPT ![job[s]] = @ + 1]
              /\ attempt' = [attempt EXCEPT ![s] = attempts[job[s]] + 1]
           \/ /\ status[job[s]] = "gone" /\ attempt' = [attempt EXCEPT ![s] = 1]
              /\ UNCHANGED attempts
    BY <1>4, <2>1 DEF mark_attempt, Spend
  <2>3. attempts \in [Runs -> Nat] /\ Tries' = Tries /\ Tries \in Int
    BY <2>2 DEF Tries, Crashes
  <2>4. \A r \in Runs : Open(r)' <=> Open(r)
    BY <2>2 DEF Open
  <2>5. TriesOK'
    <3> SUFFICES ASSUME NEW r \in Runs PROVE (attempts[r] <= Tries /\ (Open(r) => attempts[r] < Tries))'
      BY DEF TriesOK
    <3>1. CASE r = job[s]
      BY <2>1, <2>2, <2>3, <2>4, <3>1
    <3>2. CASE r # job[s]
      BY <2>2, <2>3, <2>4, <3>2 DEF TriesOK
    <3>3. QED
      BY <3>1, <3>2
  <2>6. TaskTries'
    BY <2>1, <2>2, <2>3 DEF TaskTries
  <2>7. QED
    BY <2>5, <2>6 DEF TryInv
<1>5. ASSUME NEW s \in Slots, start_job(s) PROVE TryInv'
  BY <1>5 DEF start_job, Goto, runVars, times, opVars, TryInv, TriesOK, TaskTries, Open,
     Tries, Crashes
<1>6. ASSUME NEW s \in Slots, exec_job(s) PROVE TryInv'
  <2>1. PICK v \in Verdicts : finish_run(job[s], v[1], v[2], v[3])
    BY <1>6 DEF exec_job
  <2>2. v[1] \in {"succeeded", "failed"}
    BY DEF Verdicts
  <2>3. /\ pc' = [pc EXCEPT ![s] = "recorded"] /\ job[s] \in Runs
        /\ UNCHANGED <<job, attempt, budget>>
        /\ \A t \in Slots : t # s => job[t] # job[s]
        /\ pc[s] \notin {"free", "claimed"}
    BY <1>6 DEF exec_job, Goto, Spend
  <2>4. /\ UNCHANGED attempts
        /\ \/ status[job[s]] \in {"canceled", "gone"} /\ UNCHANGED status
           \/ status[job[s]] \notin {"canceled", "gone"} /\ status' = [status EXCEPT ![job[s]] = v[1]]
    BY <2>1 DEF finish_run, runVars
  <2>5. Tries' = Tries
    BY <2>3 DEF Tries, Crashes
  <2>6. \A r \in Runs : Open(r)' => Open(r)
    BY <2>2, <2>3, <2>4 DEF Open
  <2>7. TriesOK'
    BY <2>4, <2>5, <2>6 DEF TriesOK
  <2>8. TaskTries'
    <3>1. status'[job[s]] \in Terminal \cup {"gone"}
      BY <2>2, <2>3, <2>4
    <3>0. /\ \A t \in Slots : pc[t] # "free" => job[t] \in Runs
          /\ DOMAIN status = Runs /\ DOMAIN pc = Slots
      OBVIOUS
    <3>2. \A t \in Slots : t # s => /\ pc'[t] = pc[t]
                                    /\ pc[t] # "free" => status'[job[t]] = status[job[t]]
      <4> HIDE DEF TypeOK, RunsOK, TasksOK, RestOK, Faults, QueueInv, HoldInv, ClaimExclusive,
               VerdictInv, OutcomeInv
      <4>1. QED
        BY <2>3, <2>4, <3>0
    <3>3. pc'[s] = "recorded" /\ (status[job[s]] # "gone" => attempt[s] = attempts[job[s]])
      BY <2>3 DEF TaskTries
    <3>4. status'[job[s]] # "gone" => status[job[s]] # "gone"
      BY <2>3, <2>4
    <3> HIDE DEF TypeOK, RunsOK, TasksOK, RestOK, Faults, QueueInv, HoldInv, ClaimExclusive,
             VerdictInv, OutcomeInv
    <3>5. QED
      BY <2>3, <2>4, <2>5, <3>1, <3>2, <3>3, <3>4 DEF TaskTries
  <2>9. QED
    BY <2>7, <2>8 DEF TryInv
<1>7. ASSUME NEW s \in Slots, exec_job_err(s) PROVE TryInv'
  BY <1>7 DEF exec_job_err, finish_run, Verdicts, Goto, Spend, runVars, times, procVars,
     opVars, TryInv, TriesOK, TaskTries, Open, Tries, Crashes
<1>8. ASSUME NEW s \in Slots, run_err(s) PROVE TryInv'
  <2>1. finish_run(job[s], "failed", "null", "infra")
    BY <1>8 DEF run_err, Spend
  <2>2. /\ pc' = [pc EXCEPT ![s] = "recorded"] /\ job[s] \in Runs
        /\ UNCHANGED <<job, attempt, budget>>
        /\ \A t \in Slots : t # s => job[t] # job[s]
        /\ pc[s] \notin {"free", "claimed"}
    BY <1>8 DEF run_err, Goto, Spend
  <2>3. /\ UNCHANGED attempts
        /\ \/ status[job[s]] \in {"canceled", "gone"} /\ UNCHANGED status
           \/ status[job[s]] \notin {"canceled", "gone"} /\ status' = [status EXCEPT ![job[s]] = "failed"]
    BY <2>1 DEF finish_run, runVars
  <2>4. Tries' = Tries
    BY <2>2 DEF Tries, Crashes
  <2>5. \A r \in Runs : Open(r)' => Open(r)
    BY <2>2, <2>3 DEF Open
  <2>6. TriesOK'
    BY <2>3, <2>4, <2>5 DEF TriesOK
  <2>7. TaskTries'
    <3>1. status'[job[s]] \in Terminal \cup {"gone"}
      BY <2>2, <2>3
    <3>0. /\ \A t \in Slots : pc[t] # "free" => job[t] \in Runs
          /\ DOMAIN status = Runs /\ DOMAIN pc = Slots
      OBVIOUS
    <3>2. \A t \in Slots : t # s => /\ pc'[t] = pc[t]
                                    /\ pc[t] # "free" => status'[job[t]] = status[job[t]]
      <4> HIDE DEF TypeOK, RunsOK, TasksOK, RestOK, Faults, QueueInv, HoldInv, ClaimExclusive,
               VerdictInv, OutcomeInv
      <4>1. QED
        BY <2>2, <2>3, <3>0
    <3>3. pc'[s] = "recorded" /\ (status[job[s]] # "gone" => attempt[s] = attempts[job[s]])
      BY <2>2 DEF TaskTries
    <3>4. status'[job[s]] # "gone" => status[job[s]] # "gone"
      BY <2>2, <2>3
    <3> HIDE DEF TypeOK, RunsOK, TasksOK, RestOK, Faults, QueueInv, HoldInv, ClaimExclusive,
             VerdictInv, OutcomeInv
    <3>5. QED
      BY <2>2, <2>3, <2>4, <3>1, <3>2, <3>3, <3>4 DEF TaskTries
  <2>8. QED
    BY <2>6, <2>7 DEF TryInv
<1>9. ASSUME NEW s \in Slots, end_run(s) PROVE TryInv'
  BY <1>9 DEF end_run, Goto, runVars, times, opVars, TryInv, TriesOK, TaskTries, Open, Tries,
     Crashes
<1>10. ASSUME NEW s \in Slots, run_outcome(s) PROVE TryInv'
  BY <1>10 DEF run_outcome, Goto, Free, Spend, runVars, times, procVars, opVars, Retriable,
     TryInv, TriesOK, TaskTries, Open, Tries, Crashes
<1>11. ASSUME NEW s \in Slots, run_error(s) PROVE TryInv'
  <2>1. /\ pc[s] = "errcheck" /\ UNCHANGED <<status, attempts>>
        /\ budget'["crash"] = budget["crash"]
    BY <1>11 DEF run_error, Spend, runVars
  <2>2. \A t \in Slots : t # s => pc'[t] = pc[t] /\ job'[t] = job[t] /\ attempt'[t] = attempt[t]
    BY <1>11 DEF run_error, Goto, Free
  <2>3. pc'[s] = "free" \/ (pc'[s] = "requeue" /\ job'[s] = job[s] /\ attempt'[s] = attempt[s])
    BY <1>11 DEF run_error, Goto, Free
  <2>4. Tries' = Tries
    BY <2>1 DEF Tries, Crashes
  <2>5. \A r \in Runs : Open(r)' => Open(r)
    <3>1. status[job[s]] # "running"
      BY <2>1
    <3>2. \A r \in Runs : r # job[s] /\ Held(r) => Held(r)'
      BY <2>2
    <3> HIDE DEF Held
    <3>3. QED
      BY <2>1, <3>1, <3>2 DEF Open
  <2>6. TriesOK' /\ TaskTries'
    BY <2>1, <2>2, <2>3, <2>4, <2>5 DEF TryInv, TriesOK, TaskTries
  <2>7. QED
    BY <2>6 DEF TryInv
<1>12. ASSUME NEW s \in Slots, requeue(s) PROVE TryInv'
  <2>1. /\ job[s] \in Runs /\ pc[s] = "requeue" /\ attempt[s] < MAX_ATTEMPTS
        /\ status[job[s]] # "gone" => attempts[job[s]] = attempt[s]
        /\ \A t \in Slots : t # s => job[t] # job[s]
    <3>1. pc[s] = "requeue" /\ job[s] \in Runs
      BY <1>12 DEF requeue
    <3>2. attempt[s] < MAX_ATTEMPTS /\ (status[job[s]] # "gone" => attempts[job[s]] = attempt[s])
      BY <3>1 DEF TaskTries
    <3>3. \A t \in Slots : t # s => job[t] # job[s]
      <4> HIDE DEF TypeOK, RunsOK, TasksOK, RestOK, Faults, HoldInv, VerdictInv, OutcomeInv
      <4>1. QED
        BY <3>1
    <3>4. QED
      BY <3>1, <3>2, <3>3
  <2>2. /\ pc' = [pc EXCEPT ![s] = "free"] /\ job' = [job EXCEPT ![s] = NoRun]
        /\ attempt' = [attempt EXCEPT ![s] = 0] /\ UNCHANGED <<attempts, budget>>
        /\ \/ UNCHANGED status
           \/ status[job[s]] # "gone" /\ status' = [status EXCEPT ![job[s]] = "pending"]
    BY <1>12 DEF requeue, Free, Spend
  <2>3. Tries' = Tries /\ Tries \in Int /\ MAX_ATTEMPTS <= Tries
    BY <2>2 DEF Tries, Crashes, CrashesOK
  <2>4. \A r \in Runs : r # job[s] => (Open(r)' => Open(r))
    BY <2>1, <2>2 DEF Open
  <2>5. PICK r \in Runs : r = job[s]
    BY <2>1
  <2>6. TriesOK'
    <3>1. Open(r)' => attempts[r] < Tries
      <4>1. CASE status[r] = "gone"
        BY <2>2, <2>5, <4>1 DEF Open
      <4>2. CASE status[r] # "gone"
        BY <2>1, <2>3, <2>5, <4>2
      <4>3. QED
        BY <4>1, <4>2
    <3>2. QED
      BY <2>2, <2>3, <2>4, <2>5, <3>1 DEF TriesOK
  <2>7. TaskTries'
    BY <2>1, <2>2, <2>3 DEF TaskTries
  <2>8. QED
    BY <2>6, <2>7 DEF TryInv
<1>13. ASSUME NEW s \in Slots, touch_run(s) PROVE TryInv'
  BY <1>13 DEF touch_run, taskVars, procVars, opVars, TryInv, TriesOK, TaskTries, Open, Tries,
     Crashes
<1>14. ASSUME NEW r \in Runs, cancel(r) PROVE TryInv'
  BY <1>14 DEF cancel, runVars, times, procVars, TryInv, TriesOK, TaskTries, Open, Tries, Crashes
<1>15. ASSUME NEW r \in Runs, cancel_run(r) PROVE TryInv'
  <2>1. /\ UNCHANGED <<pc, job, attempt, attempts, budget>>
        /\ \/ UNCHANGED status
           \/ status[r] # "gone" /\ status' = [status EXCEPT ![r] = "canceled"]
    BY <1>15 DEF cancel_run, taskVars
  <2>2. Tries' = Tries
    BY <2>1 DEF Tries, Crashes
  <2>3. \A q \in Runs : Open(q)' => Open(q)
    BY <2>1 DEF Open
  <2>4. TriesOK'
    BY <2>1, <2>2, <2>3 DEF TriesOK
  <2>5. TaskTries'
    BY <2>1, <2>2 DEF TaskTries
  <2>6. QED
    BY <2>4, <2>5 DEF TryInv
<1>16. CASE reap_orphan_runs
  BY <1>16 DEF reap_orphan_runs, taskVars, procVars, opVars, TryInv, TriesOK, TaskTries, Open,
     Tries, Crashes
<1>17. CASE fail_stale_pending
  BY <1>17 DEF fail_stale_pending, taskVars, procVars, opVars, Unclaimed, TryInv, TriesOK,
     TaskTries, Open, Tries, Crashes
<1>18. CASE gc_old
  <2>1. /\ UNCHANGED <<pc, job, attempt, budget>>
        /\ \A r \in Runs : \/ status'[r] = status[r] /\ attempts'[r] = attempts[r]
                           \/ status'[r] = "gone" /\ attempts'[r] = 0
    BY <1>18 DEF gc_old, taskVars
  <2>2. Tries' = Tries /\ Tries \in Int /\ 0 < Tries
    BY <2>1 DEF Tries, Crashes, CrashesOK
  <2>3. \A q \in Runs : Open(q)' => Open(q) /\ attempts'[q] = attempts[q]
    BY <2>1 DEF Open
  <2>4. TriesOK'
    BY <2>1, <2>2, <2>3 DEF TriesOK
  <2>5. TaskTries'
    <3>1. \A s \in Slots : pc[s] # "free" => job[s] \in Runs
      OBVIOUS
    <3> HIDE DEF TypeOK, RunsOK, TasksOK, RestOK, Faults, QueueInv, HoldInv, ClaimExclusive,
             VerdictInv, OutcomeInv
    <3>2. QED
      BY <2>1, <2>2, <3>1 DEF TaskTries
  <2>6. QED
    BY <2>4, <2>5 DEF TryInv
<1>19. ASSUME NEW r \in Runs, lease_expires(r) PROVE TryInv'
  BY <1>19 DEF lease_expires, Spend, taskVars, procVars, opVars, TryInv, TriesOK, TaskTries,
     Open, Tries, Crashes
<1>20. ASSUME NEW r \in Runs, pending_timeout_elapses(r) PROVE TryInv'
  BY <1>20 DEF pending_timeout_elapses, taskVars, procVars, opVars, TryInv, TriesOK,
     TaskTries, Open, Tries, Crashes
<1>21. ASSUME NEW r \in Runs, retention_elapses(r) PROVE TryInv'
  BY <1>21 DEF retention_elapses, taskVars, procVars, opVars, TryInv, TriesOK, TaskTries,
     Open, Tries, Crashes
<1>22. ASSUME NEW e \in Executors, crash(e) PROVE TryInv'
  <2>1. /\ UNCHANGED <<status, attempts>> /\ budget'["crash"] = budget["crash"] - 1
        /\ \A s \in Slots : \/ pc'[s] = "free" /\ job'[s] = NoRun
                            \/ pc'[s] = pc[s] /\ job'[s] = job[s] /\ attempt'[s] = attempt[s]
    BY <1>22 DEF crash, Spend, runVars
  <2>2. Tries' = Tries + 1 /\ Tries \in Int
    BY <2>1 DEF Tries, Crashes
  <2>3. TriesOK'
    BY <2>1, <2>2 DEF TriesOK
  <2>4. TaskTries'
    <3>1. (\A s \in Slots : pc[s] # "free" => job[s] \in Runs) /\ attempts \in [Runs -> Nat]
      OBVIOUS
    <3> HIDE DEF TypeOK, RunsOK, TasksOK, RestOK, Faults, QueueInv, HoldInv, ClaimExclusive,
             VerdictInv, OutcomeInv
    <3>2. \A s \in Slots : pc[s] # "free" => attempts[job[s]] \in Nat
      BY <3>1
    <3>3. QED
      BY <2>1, <2>2, <3>2 DEF TaskTries
  <2>5. QED
    BY <2>3, <2>4 DEF TryInv
<1>23. ASSUME NEW e \in Executors, restart(e) PROVE TryInv'
  BY <1>23 DEF restart, Spend, runVars, times, opVars, TryInv, TriesOK, TaskTries, Open, Tries, Crashes
<1>24. CASE orphan_exits
  BY <1>24 DEF orphan_exits, runVars, times, taskVars, opVars, TryInv, TriesOK, TaskTries,
     Open, Tries, Crashes
<1>25. CASE UNCHANGED vars
  BY <1>25 DEF vars, runVars, times, taskVars, procVars, opVars, TryInv, TriesOK, TaskTries,
     Open, Tries, Crashes
<1>26. QED
  BY <1>1, <1>2, <1>3, <1>4, <1>5, <1>6, <1>7, <1>8, <1>9, <1>10, <1>11, <1>12, <1>13, <1>14,
     <1>15, <1>16, <1>17, <1>18, <1>19, <1>20, <1>21, <1>22, <1>23, <1>24, <1>25 DEF Next,
     Task_step

\* Every attempt is counted before it starts, so the count passes the limit only by the
\* attempts that crashes gave back, and a task knows the count.
THEOREM TryCorrect == ASSUME MaxLapses = 0, MaxDbFaults = 0 PROVE Spec => [](CrashesOK /\ TryInv)
<1>1. Init => CrashesOK /\ TryInv
  <2> SUFFICES ASSUME Init PROVE CrashesOK /\ TryInv
    OBVIOUS
  <2>1. budget["crash"] = MaxCrashes /\ Tries = MAX_ATTEMPTS
    BY BoundsAssumption DEF Init, Faults, Tries, Crashes
  <2>2. (\A r \in Runs : attempts[r] = 0) /\ \A s \in Slots : pc[s] = "free"
    BY DEF Init
  <2>3. QED
    BY <2>1, <2>2, BoundsAssumption DEF CrashesOK, TryInv, TriesOK, TaskTries
<1>2. TypeOK /\ CrashesOK /\ [Next]_vars => CrashesOK'
  <2> SUFFICES ASSUME TypeOK, CrashesOK, [Next]_vars PROVE CrashesOK'
    OBVIOUS
  <2>1. budget'["crash"] <= budget["crash"] /\ budget["crash"] \in Nat /\ budget'["crash"] \in Nat
    <3>1. budget \in [Faults -> Nat] /\ budget'["crash"] \in Nat
      BY RestStep DEF TypeOK, RestOK, Faults
    <3>2. budget' = budget \/ \E f \in Faults : budget' = [budget EXCEPT ![f] = @ - 1]
      BY DEF Next, Task_step, insert_run, insert_refused_run, claim_run, mark_attempt, start_job,
         exec_job, exec_job_err, run_err, end_run, run_outcome, run_error, requeue, touch_run,
         cancel, cancel_run, reap_orphan_runs, fail_stale_pending, gc_old, lease_expires,
         pending_timeout_elapses, retention_elapses, crash, restart, orphan_exits, Spend, Faults, vars
    <3>3. QED
      BY <3>1, <3>2 DEF Faults
  <2>2. QED
    BY <2>1, BoundsAssumption DEF CrashesOK
<1>3. TypeOK /\ QueueInv /\ VerdictInv /\ CrashesOK /\ TryInv /\ [Next]_vars => TryInv'
  BY TryStep
<1>4. QED
  BY <1>1, <1>2, <1>3, TypeCorrect, QueueCorrect, VerdictCorrect, PTL DEF Spec

\* worker.rs: the worker requeues an ended run only while it has tries left.
THEOREM RetriesBoundedHolds ==
  ASSUME MaxLapses = 0, MaxDbFaults = 0 PROVE Spec => RetriesBounded
<1>1. TypeOK /\ TryInv /\ [Next]_vars
        => \A r \in Runs : status[r] \in Terminal /\ status'[r] = "pending"
                              => attempts[r] < MAX_ATTEMPTS
  <2> SUFFICES ASSUME TypeOK, TryInv, [Next]_vars, NEW r \in Runs,
                      status[r] \in Terminal, status'[r] = "pending"
               PROVE  attempts[r] < MAX_ATTEMPTS
    OBVIOUS
  <2>1. PICK s \in Slots : requeue(s) /\ job[s] = r
    <3>0. \A s \in Slots : pc[s] # "free" => job[s] \in Runs
      BY DEF TypeOK, TasksOK
    <3>1. DOMAIN status = Runs /\ status'[r] # status[r] /\ status[r] \notin {"absent", "pending", "running"}
      BY DEF TypeOK, RunsOK, Terminal
    <3>2. ASSUME UNCHANGED status PROVE FALSE
      BY <3>1, <3>2
    <3>3. ASSUME NEW q \in Runs, insert_run(q) \/ insert_refused_run(q) PROVE FALSE
      <4>1. status[q] = "absent"
        BY <3>3 DEF insert_run, insert_refused_run, NextId
      <4>2. \E st \in Statuses : status' = [status EXCEPT ![q] = st]
        BY <3>3 DEF insert_run, insert_refused_run, Statuses, Terminal
      <4>3. QED
        BY <3>1, <4>1, <4>2
    <3>4. ASSUME NEW s \in Slots, claim_run(s) PROVE FALSE
      <4>1. PICK q \in Runs : status' = [status EXCEPT ![q] = "running"]
        BY <3>4 DEF claim_run
      <4>2. QED
        BY <3>1, <4>1
    <3>5. ASSUME NEW s \in Slots, exec_job(s) \/ exec_job_err(s) \/ run_err(s) PROVE FALSE
      <4>1. UNCHANGED status \/ \E st \in Terminal : status' = [status EXCEPT ![job[s]] = st]
        BY <3>5 DEF exec_job, exec_job_err, run_err, finish_run, runVars, Verdicts, Terminal
      <4>2. QED
        BY <3>1, <4>1 DEF Terminal
    <3>6. ASSUME NEW s \in Slots, requeue(s) PROVE job[s] = r
      BY <3>0, <3>1, <3>6 DEF requeue
    <3>7. ASSUME NEW q \in Runs, cancel_run(q) PROVE FALSE
      BY <3>1, <3>7 DEF cancel_run
    <3>8. ASSUME reap_orphan_runs \/ fail_stale_pending \/ gc_old PROVE FALSE
      BY <3>1, <3>8 DEF reap_orphan_runs, fail_stale_pending, gc_old, Orphaned, Unclaimed
    <3>9. ASSUME NEW s \in Slots,
                 mark_attempt(s) \/ start_job(s) \/ end_run(s) \/ run_outcome(s)
                   \/ run_error(s) \/ touch_run(s)
          PROVE  FALSE
      BY <3>2, <3>9 DEF mark_attempt, start_job, end_run, run_outcome, run_error, touch_run,
         runVars
    <3>10. ASSUME NEW q \in Runs,
                  cancel(q) \/ lease_expires(q) \/ pending_timeout_elapses(q)
                    \/ retention_elapses(q)
           PROVE  FALSE
      BY <3>2, <3>10 DEF cancel, lease_expires, pending_timeout_elapses, retention_elapses,
         runVars
    <3>11. ASSUME NEW e \in Executors, crash(e) \/ restart(e) PROVE FALSE
      BY <3>2, <3>11 DEF crash, restart, runVars
    <3>12. CASE orphan_exits \/ UNCHANGED vars
      BY <3>2, <3>12 DEF orphan_exits, vars, runVars
    <3>13. QED
      BY <3>3, <3>4, <3>5, <3>6, <3>7, <3>8, <3>9, <3>10, <3>11, <3>12 DEF Next, Task_step
  <2>2. pc[s] = "requeue" /\ status[r] # "gone"
    BY <2>1 DEF requeue, Terminal
  <2>3. attempt[s] < MAX_ATTEMPTS /\ attempts[r] = attempt[s]
    BY <2>1, <2>2 DEF TryInv, TaskTries
  <2>4. QED
    BY <2>3
<1>2. QED
  BY <1>1, TryCorrect, TypeCorrect, PTL DEF Spec, RetriesBounded

\* A run that failed without a verdict and that no task will requeue.
Lost(r) ==
    /\ status[r] = "failed" /\ exit_code[r] = "null" /\ ~Held(r)
    /\ error[r] = "infra" \/ (error[r] = "timeout" /\ r \notin Declared)

\* A run is only given up when its tries are used up.
LEMMA RetryStep ==
  TypeOK /\ QueueInv /\ VerdictInv /\ CrashesOK /\ TryInv /\ NoLostRetry /\ [Next]_vars => NoLostRetry'
<1> SUFFICES ASSUME TypeOK, QueueInv, VerdictInv, CrashesOK, TryInv, NoLostRetry, [Next]_vars
             PROVE  NoLostRetry'
  OBVIOUS
<1> DEFINE Kept ==
       budget'["crash"] = MaxCrashes =>
          /\ budget["crash"] = MaxCrashes
          /\ \A r \in Runs : Lost(r)' => \/ Lost(r) /\ attempts'[r] >= attempts[r]
                                         \/ attempts'[r] >= MAX_ATTEMPTS
<1> HIDE DEF Kept
<1>a. Kept => NoLostRetry'
  <2> SUFFICES ASSUME Kept, budget'["crash"] = MaxCrashes, NEW r \in Runs, Lost(r)'
               PROVE  attempts'[r] >= MAX_ATTEMPTS
    BY DEF NoLostRetry, Lost
  <2>1. attempts[r] \in Nat /\ attempts'[r] \in Nat /\ MAX_ATTEMPTS \in Nat
    BY RunsStep, BoundsAssumption DEF TypeOK, RunsOK
  <2>2. Lost(r) => attempts[r] >= MAX_ATTEMPTS
    BY DEF Kept, NoLostRetry, Lost
  <2>3. QED
    BY <2>1, <2>2 DEF Kept
<1>b. Kept
  <2>0. /\ status \in [Runs -> Statuses] /\ exit_code \in [Runs -> {"null", "zero", "nonzero"}]
        /\ error \in [Runs -> Errors] /\ job \in [Slots -> Runs \cup {NoRun}]
        /\ pc \in [Slots -> Steps] /\ budget \in [Faults -> Nat]
        /\ \A r \in Runs : attempts[r] \in Nat /\ attempts[r] >= attempts[r]
        /\ \A s \in Slots : pc[s] = "free" <=> job[s] = NoRun
        /\ \A r \in Runs, s, t \in Slots : job[s] = r /\ job[t] = r => s = t
        /\ budget["db"] = 0 /\ MAX_ATTEMPTS \in Nat /\ MaxCrashes \in Nat /\ 0 \notin Runs
    BY BoundsAssumption, RunsAssumption DEF TypeOK, RunsOK, TasksOK, RestOK, Faults, QueueInv,
       ClaimExclusive,
       VerdictInv, Holds
  <2>s. ASSUME UNCHANGED <<status, exit_code, error, attempts, job>>,
               budget'["crash"] = budget["crash"]
        PROVE  Kept
    <3>1. \A r \in Runs : Lost(r)' <=> Lost(r)
      BY <2>s DEF Lost, Held, Holds
    <3>2. QED
      BY <2>0, <2>s, <3>1 DEF Kept
  <2>1. ASSUME NEW r \in Runs, insert_run(r) PROVE Kept
    <3>1. /\ UNCHANGED <<exit_code, error, attempts, job, budget>>
          /\ status' = [status EXCEPT ![r] = "pending"]
      BY <2>1 DEF insert_run, taskVars
    <3>2. \A q \in Runs : Lost(q)' => Lost(q)
      BY <2>0, <3>1 DEF Lost, Held, Holds
    <3>3. QED
      BY <2>0, <3>1, <3>2 DEF Kept
  <2>2. ASSUME NEW r \in Runs, insert_refused_run(r) PROVE Kept
    BY <2>2, <2>0 DEF insert_refused_run, NextId, taskVars, procVars, opVars, Kept, Lost,
       Held, Holds, Exists
  <2>3. ASSUME NEW s \in Slots, claim_run(s) PROVE Kept
    <3>1. /\ UNCHANGED <<exit_code, error, attempts, budget>> /\ pc[s] = "free"
          /\ \E r \in Runs : status' = [status EXCEPT ![r] = "running"] /\ job' = [job EXCEPT ![s] = r]
      BY <2>3 DEF claim_run
    <3>2. \A q \in Runs : Lost(q)' => Lost(q)
      BY <2>0, <3>1 DEF Lost, Held, Holds, NoRun
    <3>3. QED
      BY <2>0, <3>1, <3>2 DEF Kept
  <2>4. ASSUME NEW s \in Slots, mark_attempt(s) PROVE Kept
    <3>1. /\ UNCHANGED <<status, exit_code, error, job, budget>>
          /\ attempts' = attempts \/ attempts' = [attempts EXCEPT ![job[s]] = @ + 1]
      BY <2>4, <2>0 DEF mark_attempt, Spend
    <3>2. \A q \in Runs : Lost(q)' => Lost(q)
      BY <3>1 DEF Lost, Held, Holds
    <3>3. attempts \in [Runs -> Nat]
      BY DEF TypeOK, RunsOK
    <3>4. \A q \in Runs : attempts'[q] >= attempts[q]
      BY <2>0, <3>1, <3>3
    <3>5. QED
      BY <3>1, <3>2, <3>4 DEF Kept
  <2>5. ASSUME NEW s \in Slots, start_job(s) PROVE Kept
    BY <2>5, <2>s DEF start_job, Goto, runVars
  <2>6. ASSUME NEW s \in Slots, exec_job(s) PROVE Kept
    <3>1. PICK v \in Verdicts : finish_run(job[s], v[1], v[2], v[3])
      BY <2>6 DEF exec_job
    <3>2. UNCHANGED <<job, budget, attempts>> /\ job[s] \in Runs
      BY <2>6, <2>0, <3>1 DEF exec_job, Goto, Spend, finish_run, runVars
    <3>3. \A r \in Runs : r # job[s] => /\ status'[r] = status[r] /\ exit_code'[r] = exit_code[r]
                                       /\ error'[r] = error[r]
      BY <2>0, <3>1, <3>2 DEF finish_run, runVars
    <3>4. \A r \in Runs : Lost(r)' => r # job[s]
      BY <3>2 DEF Lost, Held, Holds
    <3>5. \A r \in Runs : Lost(r)' => Lost(r)
      BY <3>2, <3>3, <3>4 DEF Lost, Held, Holds
    <3>6. QED
      BY <2>0, <3>2, <3>5 DEF Kept
  <2>7. ASSUME NEW s \in Slots, exec_job_err(s) PROVE Kept
    BY <2>7, <2>0 DEF exec_job_err, finish_run, Verdicts, Goto, Spend, runVars, times,
       procVars, opVars, Kept, Lost, Held, Holds, Exists
  <2>8. ASSUME NEW s \in Slots, run_err(s) PROVE Kept
    <3>1. finish_run(job[s], "failed", "null", "infra")
      BY <2>8, <2>0 DEF run_err, Spend
    <3>2. UNCHANGED <<job, budget, attempts>> /\ job[s] \in Runs
      BY <2>8, <2>0, <3>1 DEF run_err, Goto, Spend, finish_run, runVars
    <3>3. \A r \in Runs : r # job[s] => /\ status'[r] = status[r] /\ exit_code'[r] = exit_code[r]
                                       /\ error'[r] = error[r]
      BY <2>0, <3>1, <3>2 DEF finish_run, runVars
    <3>4. \A r \in Runs : Lost(r)' => r # job[s]
      BY <3>2 DEF Lost, Held, Holds
    <3>5. \A r \in Runs : Lost(r)' => Lost(r)
      BY <3>2, <3>3, <3>4 DEF Lost, Held, Holds
    <3>6. QED
      BY <2>0, <3>2, <3>5 DEF Kept
  <2>9. ASSUME NEW s \in Slots, end_run(s) PROVE Kept
    BY <2>9, <2>s DEF end_run, Goto, runVars
  <2>10. ASSUME NEW s \in Slots, run_outcome(s) PROVE Kept
    <3>1. /\ UNCHANGED <<status, exit_code, error, attempts, budget>> /\ job[s] \in Runs
          /\ status[job[s]] # "gone" => attempt[s] = attempts[job[s]]
          /\ \/ UNCHANGED job
             \/ ~Retriable(s) /\ job' = [job EXCEPT ![s] = NoRun]
      BY <2>10, <2>0 DEF run_outcome, Goto, Free, Spend, TryInv, TaskTries, runVars
    <3>2. CASE UNCHANGED job
      BY <2>s, <3>1, <3>2
    <3>3. CASE ~Retriable(s) /\ job' = [job EXCEPT ![s] = NoRun]
      <4>1. attempt[s] \in Nat
        BY DEF TypeOK, TasksOK
      <4>2. status[job[s]] # "failed" \/ exit_code[job[s]] # "null" \/ attempts[job[s]] >= MAX_ATTEMPTS
        BY <2>0, <3>1, <3>3, <4>1 DEF Retriable
      <4>3. \A r \in Runs : r # job[s] => (Lost(r)' => Lost(r))
        BY <2>0, <3>1, <3>3 DEF Lost, Held, Holds
      <4>4. \A r \in Runs : Lost(r)' => status[r] = "failed" /\ exit_code[r] = "null"
        BY <3>1 DEF Lost
      <4>5. QED
        BY <2>0, <3>1, <4>2, <4>3, <4>4 DEF Kept
    <3>4. QED
      BY <3>1, <3>2, <3>3
  <2>11. ASSUME NEW s \in Slots, run_error(s) PROVE Kept
    BY <2>11, <2>0 DEF run_error, Goto, Free, Spend, runVars, times, procVars, opVars, Kept,
       Lost, Held, Holds, Exists, TryInv, TaskTries
  <2>12. ASSUME NEW s \in Slots, requeue(s) PROVE Kept
    BY <2>12, <2>0 DEF requeue, Free, Spend, procVars, opVars, Kept, Lost, Held, Holds, Exists
  <2>13. ASSUME NEW s \in Slots, touch_run(s) PROVE Kept
    BY <2>13, <2>s DEF touch_run, taskVars
  <2>14. ASSUME NEW r \in Runs, cancel(r) PROVE Kept
    BY <2>14, <2>s DEF cancel, runVars
  <2>15. ASSUME NEW r \in Runs, cancel_run(r) PROVE Kept
    BY <2>15, <2>0 DEF cancel_run, taskVars, procVars, Kept, Lost, Held, Holds, Exists
  <2>16. CASE reap_orphan_runs
    BY <2>16, <2>0 DEF reap_orphan_runs, taskVars, procVars, opVars, Kept, Lost, Held, Holds,
       Exists
  <2>17. CASE fail_stale_pending
    BY <2>17, <2>0 DEF fail_stale_pending, taskVars, procVars, opVars, Unclaimed, Kept, Lost,
       Held, Holds, Exists
  <2>18. CASE gc_old
    BY <2>18, <2>0 DEF gc_old, taskVars, procVars, opVars, Kept, Lost, Held, Holds, Exists
  <2>19. ASSUME NEW r \in Runs, lease_expires(r) PROVE Kept
    BY <2>19, <2>s, <2>0 DEF lease_expires, Spend, Faults, taskVars
  <2>20. ASSUME NEW r \in Runs, pending_timeout_elapses(r) PROVE Kept
    BY <2>20, <2>s DEF pending_timeout_elapses, taskVars
  <2>21. ASSUME NEW r \in Runs, retention_elapses(r) PROVE Kept
    BY <2>21, <2>s DEF retention_elapses, taskVars
  <2>22. ASSUME NEW e \in Executors, crash(e) PROVE Kept
    <3>1. budget'["crash"] = budget["crash"] - 1
      BY <2>22, <2>0 DEF crash, Spend, Faults
    <3>2. QED
      BY <2>0, <3>1 DEF Kept, CrashesOK, Faults
  <2>23. ASSUME NEW e \in Executors, restart(e) PROVE Kept
    BY <2>23, <2>s, <2>0 DEF restart, Spend, Faults, runVars
  <2>24. CASE orphan_exits
    BY <2>24, <2>s DEF orphan_exits, runVars, taskVars
  <2>25. CASE UNCHANGED vars
    BY <2>25, <2>s DEF vars, runVars, taskVars
  <2>26. QED
    BY <2>1, <2>2, <2>3, <2>4, <2>5, <2>6, <2>7, <2>8, <2>9, <2>10, <2>11, <2>12, <2>13,
       <2>14, <2>15, <2>16, <2>17, <2>18, <2>19, <2>20, <2>21, <2>22, <2>23, <2>24, <2>25 DEF
       Next, Task_step
<1>c. QED
  BY <1>a, <1>b

\* worker.rs: a transient failure is retried until the attempts are used up.
THEOREM NoLostRetryHolds ==
  ASSUME MaxLapses = 0, MaxDbFaults = 0 PROVE Spec => []NoLostRetry
<1>1. Init => NoLostRetry
  BY DEF Init, NoLostRetry
<1>2. QED
  BY <1>1, RetryStep, TypeCorrect, QueueCorrect, VerdictCorrect, TryCorrect, PTL DEF Spec

-----------------------------------------------------------------------------
(* Job processes of a run.                                                 *)

\* No two permits hold the same run.
Exclusive == ClaimExclusive \/ \A s, t \in Slots : s = t

\* With one executor, its jobs run while it is up; what its crashes left behind of a run
\* is paid for by failed sweeps, but for the last crash while it is still down.
Unpaid == IF up = {} THEN 1 ELSE 0
ContainerInv ==
    /\ \A s \in Slots : pc[s] # "free" => ExecutorOf[s] \in up
    /\ budget["sweep"] <= MaxSweepFaults
    /\ \A r \in Runs : /\ IsFiniteSet(LeftBehind(r))
                       /\ Cardinality(LeftBehind(r)) <= FailedSweeps + Unpaid

\* A step that neither starts nor stops an executor, and leaves nothing behind.
LEMMA ContainerFrame ==
  ASSUME TypeOK, TypeOK', ContainerInv, orphan' \subseteq orphan, up' = up,
         budget'["sweep"] = budget["sweep"],
         \A s \in Slots : pc'[s] # "free" => pc[s] # "free" \/ ExecutorOf[s] \in up
  PROVE  ContainerInv'
<1>1. FailedSweeps' = FailedSweeps /\ Unpaid' = Unpaid
  BY DEF FailedSweeps, Unpaid
<1>2. FailedSweeps + Unpaid \in Int
  BY BoundsAssumption DEF FailedSweeps, Unpaid, TypeOK, RestOK, Faults
<1>3. ASSUME NEW r \in Runs
      PROVE  IsFiniteSet(LeftBehind(r))' /\ Cardinality(LeftBehind(r))' <= (FailedSweeps + Unpaid)'
  <2>1. LeftBehind(r)' \subseteq LeftBehind(r)
    BY DEF LeftBehind
  <2>2. IsFiniteSet(LeftBehind(r)) /\ Cardinality(LeftBehind(r)) <= FailedSweeps + Unpaid
    BY DEF ContainerInv
  <2>3. /\ IsFiniteSet(LeftBehind(r)') /\ Cardinality(LeftBehind(r)') <= Cardinality(LeftBehind(r))
        /\ Cardinality(LeftBehind(r)') \in Nat /\ Cardinality(LeftBehind(r)) \in Nat
    BY <2>1, <2>2, FS_Subset, FS_CardinalityType
  <2>4. QED
    BY <1>1, <1>2, <2>2, <2>3
<1>4. QED
  BY <1>3 DEF ContainerInv

\* No step starts a job of an executor that is down; a crash leaves at most one process of
\* a run behind, which the next start removes or pays for.
LEMMA ContainerStep ==
  ASSUME \A e, f \in Executors : e = f, TypeOK, TypeOK', ContainerInv, Exclusive, [Next]_vars
  PROVE  ContainerInv'
<1> DEFINE Frame ==
      /\ orphan' \subseteq orphan /\ up' = up /\ budget'["sweep"] = budget["sweep"]
      /\ \A s \in Slots : pc'[s] # "free" => pc[s] # "free" \/ ExecutorOf[s] \in up
<1>0. Frame => ContainerInv'
  BY ContainerFrame
<1>t. /\ pc \in [Slots -> Steps] /\ job \in [Slots -> Runs \cup {NoRun}]
      /\ \A s \in Slots : pc[s] = "free" <=> job[s] = NoRun
      /\ budget \in [Faults -> Nat] /\ up \subseteq Executors
  BY DEF TypeOK, TasksOK, RestOK
<1>1. ASSUME NEW s \in Slots, claim_run(s) PROVE Frame
  BY <1>1, <1>t DEF claim_run, procVars
<1>2. ASSUME NEW s \in Slots, Task_step(s) PROVE Frame
  <2>1. orphan' = orphan /\ up' = up
    BY <1>2 DEF Task_step, mark_attempt, start_job, exec_job, exec_job_err, run_err, end_run,
       run_outcome, run_error, requeue, procVars
  <2>2. budget' = budget \/ budget' = [budget EXCEPT !["db"] = @ - 1]
    BY <1>2 DEF Task_step, mark_attempt, start_job, exec_job, exec_job_err, run_err, end_run,
       run_outcome, run_error, requeue, Spend
  <2>3. pc[s] # "free" /\ \E step \in Steps : pc' = [pc EXCEPT ![s] = step]
    BY <1>2 DEF Task_step, mark_attempt, start_job, exec_job, exec_job_err, run_err, end_run,
       run_outcome, run_error, requeue, Goto, Free, Steps
  <2>4. \A t \in Slots : pc'[t] # "free" => pc[t] # "free"
    BY <2>3, <1>t
  <2>5. QED
    BY <2>1, <2>2, <2>4, <1>t DEF Faults
<1>3. ASSUME NEW r \in Runs, insert_run(r) \/ insert_refused_run(r) \/ cancel(r) \/ cancel_run(r)
      PROVE  Frame
  BY <1>3 DEF insert_run, insert_refused_run, cancel, cancel_run, procVars, taskVars
<1>4. ASSUME NEW r \in Runs, \/ lease_expires(r) \/ pending_timeout_elapses(r)
                             \/ retention_elapses(r)
      PROVE  Frame
  BY <1>4, <1>t DEF lease_expires, pending_timeout_elapses, retention_elapses, Spend, Faults,
     procVars, taskVars
<1>5. ASSUME NEW s \in Slots, touch_run(s) PROVE Frame
  BY <1>5 DEF touch_run, procVars, taskVars
<1>6. CASE reap_orphan_runs \/ fail_stale_pending \/ gc_old \/ orphan_exits \/ UNCHANGED vars
  <2>1. Frame
    BY <1>6 DEF reap_orphan_runs, fail_stale_pending, gc_old, orphan_exits, vars, procVars, taskVars
  <2>2. QED
    BY <2>1, <1>0
<1>7. ASSUME NEW e \in Executors, crash(e) PROVE ContainerInv'
  <2>1. /\ up = {e} /\ up' = {} /\ \A s \in Slots : ExecutorOf[s] = e
        /\ \A s \in Slots : pc'[s] = "free"
    BY <1>7, <1>t, SlotsAssumption DEF crash
  <2>2. /\ budget'["sweep"] = budget["sweep"] /\ FailedSweeps' = FailedSweeps
        /\ FailedSweeps \in Int /\ Unpaid = 0 /\ Unpaid' = 1
    BY <1>7, <1>t, <2>1, BoundsAssumption DEF crash, Spend, Faults, FailedSweeps, Unpaid
  <2>3. ASSUME NEW r \in Runs
        PROVE  IsFiniteSet(LeftBehind(r))' /\ Cardinality(LeftBehind(r))' <= (FailedSweeps + Unpaid)'
    <3>0. /\ IsFiniteSet(LeftBehind(r)) /\ Cardinality(LeftBehind(r)) <= FailedSweeps
          /\ Cardinality(LeftBehind(r)) \in Nat
      BY <2>2, FS_CardinalityType DEF ContainerInv
    <3>1. \A o : o \in orphan' <=> \/ o \in orphan
                                  \/ \E s \in Slots : /\ HasJob(s)
                                                      /\ o = <<job[s], DockerOf[e], s, budget["crash"]>>
      BY <1>7, <2>1 DEF crash
    <3>2. CASE \A s \in Slots : ~(HasJob(s) /\ job[s] = r)
      <4>1. LeftBehind(r)' = LeftBehind(r)
        BY <3>1, <3>2 DEF LeftBehind
      <4>2. QED
        BY <3>0, <4>1, <2>2
    <3>3. ASSUME NEW s \in Slots, HasJob(s), job[s] = r
          PROVE  IsFiniteSet(LeftBehind(r))' /\ Cardinality(LeftBehind(r))' <= (FailedSweeps + Unpaid)'
      <4> DEFINE new == <<job[s], DockerOf[e], s, budget["crash"]>>
      <4>1. \A t \in Slots : HasJob(t) /\ job[t] = r => t = s
        BY <3>3 DEF Exclusive, ClaimExclusive, Holds
      <4>2. new[1] = r
        BY <3>3
      <4>3. LeftBehind(r)' = LeftBehind(r) \cup {new}
        <5>1. \A o : o \in LeftBehind(r)' <=> o \in LeftBehind(r) \/ o = new
          BY <3>1, <3>3, <4>1, <4>2 DEF LeftBehind
        <5>2. QED
          BY <5>1
      <4> HIDE DEF new
      <4>4. /\ IsFiniteSet(LeftBehind(r) \cup {new})
            /\ Cardinality(LeftBehind(r) \cup {new}) \in {Cardinality(LeftBehind(r)),
                                                            Cardinality(LeftBehind(r)) + 1}
        BY <3>0, FS_AddElement
      <4>5. QED
        BY <3>0, <4>3, <4>4, <2>2
    <3>4. QED
      BY <3>2, <3>3
  <2>4. QED
    BY <2>1, <2>2, <2>3 DEF ContainerInv
<1>8. ASSUME NEW e \in Executors, restart(e) PROVE ContainerInv'
  <2>1. /\ up = {} /\ up' = {e} /\ pc' = pc
        /\ \A s \in Slots : pc[s] = "free"
    BY <1>8, <1>t, SlotsAssumption DEF restart, ContainerInv
  <2>2. Unpaid = 1 /\ Unpaid' = 0 /\ FailedSweeps \in Nat
    BY <2>1, <1>t, BoundsAssumption DEF Unpaid, FailedSweeps, ContainerInv, Faults
  <2>3. CASE orphan' = {o \in orphan : o[2] # DockerOf[e]} /\ UNCHANGED budget
    <3>1. \A o \in orphan : o[2] = DockerOf[e]
      BY DEF TypeOK, RestOK
    <3>2. \A r \in Runs : LeftBehind(r)' = {}
      BY <2>3, <3>1 DEF LeftBehind
    <3>3. IsFiniteSet({}) /\ Cardinality({}) = 0
      BY FS_EmptySet
    <3>4. FailedSweeps' = FailedSweeps /\ budget' = budget
      BY <2>3 DEF FailedSweeps
    <3>5. \A r \in Runs : IsFiniteSet(LeftBehind(r))' /\ Cardinality(LeftBehind(r))' <= (FailedSweeps + Unpaid)'
      BY <2>2, <3>2, <3>3, <3>4
    <3>6. QED
      BY <2>1, <3>4, <3>5 DEF ContainerInv
  <2>4. CASE Spend("sweep") /\ orphan' \subseteq orphan
    <3>1. /\ budget["sweep"] \in Nat /\ budget'["sweep"] = budget["sweep"] - 1
      BY <2>4, <1>t DEF Spend, Faults
    <3>2. FailedSweeps' = FailedSweeps + 1
      BY <3>1, BoundsAssumption DEF FailedSweeps
    <3>3. ASSUME NEW r \in Runs
          PROVE  IsFiniteSet(LeftBehind(r))' /\ Cardinality(LeftBehind(r))' <= (FailedSweeps + Unpaid)'
      <4>1. LeftBehind(r)' \subseteq LeftBehind(r)
        BY <2>4 DEF LeftBehind
      <4>2. IsFiniteSet(LeftBehind(r)) /\ Cardinality(LeftBehind(r)) <= FailedSweeps + 1
        BY <2>2 DEF ContainerInv
      <4>3. /\ IsFiniteSet(LeftBehind(r)') /\ Cardinality(LeftBehind(r)') <= Cardinality(LeftBehind(r))
            /\ Cardinality(LeftBehind(r)') \in Nat /\ Cardinality(LeftBehind(r)) \in Nat
        BY <4>1, <4>2, FS_Subset, FS_CardinalityType
      <4>4. QED
        BY <2>2, <3>2, <4>2, <4>3
    <3>4. budget'["sweep"] <= MaxSweepFaults
      BY <3>1, BoundsAssumption DEF ContainerInv
    <3>5. QED
      BY <2>1, <3>3, <3>4 DEF ContainerInv
  <2>5. QED
    BY <1>8, <2>3, <2>4 DEF restart
<1>9. QED
  BY <1>0, <1>1, <1>2, <1>3, <1>4, <1>5, <1>6, <1>7, <1>8 DEF Next

\* main.rs, start-up: with one executor per installation, across crashes and restarts, a run
\* has one job process and one more at most per start-up sweep that failed, as long as no
\* two permits of the executor hold the same run.
THEOREM SoleContainerHolds ==
  ASSUME \A e, f \in Executors : e = f,
         MaxLapses = 0 \/ \A s, t \in Slots : s = t
  PROVE  Spec => []SoleContainer
<1>1. Init => ContainerInv
  <2> SUFFICES ASSUME Init PROVE ContainerInv
    OBVIOUS
  <2>1. /\ \A s \in Slots : pc[s] = "free"
        /\ \A r \in Runs : LeftBehind(r) = {}
        /\ budget["sweep"] = MaxSweepFaults
    BY DEF Init, LeftBehind, Faults
  <2>2. IsFiniteSet({}) /\ Cardinality({}) = 0
    BY FS_EmptySet
  <2>3. FailedSweeps = 0 /\ Unpaid \in {0, 1}
    BY <2>1, BoundsAssumption DEF FailedSweeps, Unpaid
  <2>4. QED
    BY <2>1, <2>2, <2>3, BoundsAssumption DEF ContainerInv
<1>2. Spec => []Exclusive
  <2>1. CASE MaxLapses = 0
    <3>1. ClaimExclusive => Exclusive
      BY DEF Exclusive
    <3>2. QED
      BY <2>1, <3>1, ClaimExclusiveHolds, PTL
  <2>2. CASE \A s, t \in Slots : s = t
    <3>1. Exclusive
      BY <2>2 DEF Exclusive
    <3>2. QED
      BY <3>1, PTL
  <2>3. QED
    BY <2>1, <2>2
<1>3. TypeOK /\ TypeOK' /\ Exclusive /\ ContainerInv /\ [Next]_vars => ContainerInv'
  BY ContainerStep
<1>4. TypeOK /\ ContainerInv /\ Exclusive => SoleContainer
  <2> SUFFICES ASSUME TypeOK, ContainerInv, Exclusive, NEW r \in Runs
               PROVE  Cardinality(Processes(r)) + Cardinality(LeftBehind(r)) <= 1 + FailedSweeps
    BY DEF SoleContainer
  <2>1. /\ Cardinality(LeftBehind(r)) \in Nat /\ FailedSweeps \in Int
        /\ Cardinality(LeftBehind(r)) <= FailedSweeps + Unpaid
    BY FS_CardinalityType, BoundsAssumption DEF ContainerInv, FailedSweeps, TypeOK, RestOK, Faults
  <2>2. CASE Processes(r) = {}
    BY <2>1, <2>2, FS_EmptySet DEF Unpaid
  <2>3. ASSUME NEW s \in Processes(r)
        PROVE  Cardinality(Processes(r)) = 1 /\ up # {}
    <3>1. s \in Slots /\ HasJob(s) /\ job[s] = r
      BY <2>3 DEF Processes, Holds
    <3>2. Processes(r) = {s}
      BY <3>1 DEF Processes, Exclusive, ClaimExclusive, Holds
    <3>3. QED
      BY <3>1, <3>2, FS_Singleton DEF ContainerInv, HasJob
  <2>4. QED
    BY <2>1, <2>2, <2>3 DEF Unpaid
<1>5. QED
  BY <1>1, <1>2, <1>3, <1>4, TypeCorrect, PTL DEF Spec
=============================================================================
