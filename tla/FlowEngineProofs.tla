--------------------------- MODULE FlowEngineProofs -------------------------
(***************************************************************************)
(* Theorems about FlowEngine, for every set of engines, every DAG of steps *)
(* with its gates, maps, compensations and retries, and every bound.       *)
(***************************************************************************)
EXTENDS FlowEngine, TLAPS

(* The strengthened invariants.                                            *)

\* While no lease lapses under it, a driver's flow is running and its lease is
\* fresh, so neither the reaper nor claim_flow_run can touch the flow.
DriverInv ==
    /\ budget["lapse"] = 0
    /\ DriverExclusive
    /\ \A e \in Engines : dpc[e] # "idle" => flow = "running" /\ lease = "fresh"

\* A task exists only while its driver resolves, awaits the batch or compensates.
QuietInv ==
    \A e \in Engines, s \in Steps :
        Busy(e, s) => dpc[e] \in {"resolve", "wait", "compensate"}

Tags == {"go", "skip", "join"}
Live == {"queued", "inserted", "exec", "ran"}
DepsMet(s) == \A d \in DependsOn[s] : step_status[d] = "succeeded"

\* What a pass has decided and not yet written is still true: nobody moved the
\* step since the ledger was read.
TodoInv ==
    \A e \in Engines, s \in Steps :
        /\ \A k \in Tags : <<k, s>> \in todo[e] => dpc[e] = "resolve" /\ ~Busy(e, s)
        /\ \A k \in {"go", "skip"} : <<k, s>> \in todo[e] => step_status[s] = "pending"
        /\ <<"go", s>> \in todo[e] => DepsMet(s) /\ <<"skip", s>> \notin todo[e]
        /\ <<"join", s>> \in todo[e] => step_status[s] = "expanded"

\* A step with a task of the batch is unfinished and its dependencies succeeded.
TaskInv ==
    \A e \in Engines, s \in Steps :
        tpc[<<e, s>>] \in Live => step_status[s] \in {"pending", "running"} /\ DepsMet(s)

DepInv == DependenciesFirst /\ TodoInv /\ TaskInv

-----------------------------------------------------------------------------
(* Types.                                                                  *)

\* finish_step writes a status and a stamp of the right types.
LEMMA FinishTyped ==
    ASSUME TypeOK, NEW s \in Steps, NEW st \in StepStatuses, finish_step(s, st)
    PROVE  /\ step_status' \in [Steps -> StepStatuses]
           /\ finished_at' \in [Steps -> Nat] /\ clock' \in Nat
           /\ compensated' = compensated
<1>1. CASE s \in Compensable
  BY <1>1 DEF TypeOK, LedgerOK, finish_step
<1>2. CASE s \notin Compensable
  BY <1>2 DEF TypeOK, LedgerOK, finish_step
<1>3. QED
  BY <1>1, <1>2

\* A fault leaves the budget a function into the naturals.
LEMMA SpendTyped ==
    ASSUME TypeOK, NEW f \in {"crash", "lapse", "fault"}, Spend(f)
    PROVE  budget' \in [{"crash", "lapse", "fault"} -> Nat]
  BY DEF TypeOK, FlowOK, Spend

\* Every action keeps the flow row, the processes and the budget in their types.
LEMMA FlowStep == TypeOK /\ [Next]_vars => FlowOK'
<1> SUFFICES ASSUME TypeOK, [Next]_vars PROVE FlowOK'
  OBVIOUS
<1> USE DEF TypeOK, FlowOK, Ended
<1>1. CASE insert_flow_run
  BY <1>1 DEF insert_flow_run, rows, drivers, tasks, history
<1>2. ASSUME NEW e \in Engines, claim_flow_run(e) PROVE FlowOK'
  BY <1>2 DEF claim_flow_run, ledger, rows, tasks, history
<1>3. ASSUME NEW e \in Engines, drive_pass(e) PROVE FlowOK'
  BY <1>3 DEF drive_pass, ledger, rows, tasks, history
<1>4. ASSUME NEW e \in Engines, resolve(e) PROVE FlowOK'
  BY <1>4 DEF resolve, Spend, flowVars, ledger, rows, history
<1>5. ASSUME NEW e \in Engines, spawn_batch(e) PROVE FlowOK'
  BY <1>5 DEF spawn_batch, flowVars, ledger, rows, tasks, history
<1>6. ASSUME NEW e \in Engines, batch_done(e) PROVE FlowOK'
  BY <1>6 DEF batch_done, flowVars, ledger, rows, tasks, history
<1>7. ASSUME NEW e \in Engines, finish_flow_run(e) PROVE FlowOK'
  BY <1>7 DEF finish_flow_run, ledger, rows, tasks, history
<1>8. ASSUME NEW e \in Engines, drive_err(e) PROVE FlowOK'
  BY <1>8 DEF drive_err, Spend, ledger, rows, tasks, history
<1>9. ASSUME NEW e \in Engines, NEW s \in Steps, run_step_short(e, s) PROVE FlowOK'
  <2>1. CASE Spend("fault")
    BY <1>9, <2>1, SpendTyped DEF run_step_short, flowVars, rows, drivers, history
  <2>2. CASE UNCHANGED budget
    BY <1>9, <2>2 DEF run_step_short, flowVars, rows, drivers, history
  <2>3. QED
    BY <1>9, <2>1, <2>2 DEF run_step_short
<1>10. ASSUME NEW e \in Engines, NEW s \in Steps, run_step_insert(e, s) PROVE FlowOK'
  BY <1>10 DEF run_step_insert, flowVars, ledger, drivers, history
<1>11. ASSUME NEW e \in Engines, NEW s \in Steps, set_step_running(e, s) PROVE FlowOK'
  <2>1. CASE Spend("fault")
    BY <1>11, <2>1, SpendTyped DEF set_step_running, flowVars, rows, drivers
  <2>2. CASE UNCHANGED budget
    BY <1>11, <2>2 DEF set_step_running, flowVars, rows, drivers
  <2>3. QED
    BY <1>11, <2>1, <2>2 DEF set_step_running
<1>12. ASSUME NEW e \in Engines, NEW s \in Steps, exec_run(e, s) PROVE FlowOK'
  <2>1. CASE Spend("fault")
    BY <1>12, <2>1, SpendTyped DEF exec_run, flowVars, drivers, history
  <2>2. CASE UNCHANGED budget
    BY <1>12, <2>2 DEF exec_run, flowVars, drivers, history
  <2>3. QED
    BY <1>12, <2>1, <2>2 DEF exec_run
<1>13. ASSUME NEW e \in Engines, NEW s \in Steps, run_step_end(e, s) PROVE FlowOK'
  <2>1. CASE Spend("fault")
    BY <1>13, <2>1, SpendTyped DEF run_step_end, flowVars, rows, drivers, history
  <2>2. CASE UNCHANGED budget
    BY <1>13, <2>2 DEF run_step_end, flowVars, rows, drivers, history
  <2>3. QED
    BY <1>13, <2>1, <2>2 DEF run_step_end, Faulty
<1>14. ASSUME NEW e \in Engines, NEW s \in Steps, compensate(e, s) PROVE FlowOK'
  BY <1>14 DEF compensate, Spend, flowVars, ledger, rows, history
<1>15. ASSUME NEW e \in Engines, NEW s \in Steps, mark_step_compensated(e, s) PROVE FlowOK'
  <2>1. CASE Spend("fault")
    BY <1>15, <2>1, SpendTyped DEF mark_step_compensated, flowVars, rows
  <2>2. CASE UNCHANGED budget
    BY <1>15, <2>2 DEF mark_step_compensated, flowVars, rows
  <2>3. QED
    BY <1>15, <2>1, <2>2 DEF mark_step_compensated, Faulty
<1>16. ASSUME NEW r \in Runs, worker_claim(r) PROVE FlowOK'
  BY <1>16 DEF worker_claim, flowVars, ledger, drivers, tasks
<1>17. ASSUME NEW r \in Runs, worker_run(r) PROVE FlowOK'
  BY <1>17 DEF worker_run, flowVars, ledger, drivers, tasks, history
<1>18. ASSUME NEW r \in Runs, worker_decide(r) PROVE FlowOK'
  BY <1>18 DEF worker_decide, flowVars, ledger, drivers, tasks, history
<1>19. CASE lease_expires
  BY <1>19 DEF lease_expires, Spend, ledger, rows, drivers, tasks, history
<1>20. CASE reap_orphan_flow_runs
  BY <1>20 DEF reap_orphan_flow_runs, ledger, rows, drivers, tasks, history
<1>21. ASSUME NEW e \in Engines, touch_flow_run(e) PROVE FlowOK'
  BY <1>21 DEF touch_flow_run, ledger, rows, drivers, tasks, history
<1>22. ASSUME NEW e \in Engines, crash(e) PROVE FlowOK'
  BY <1>22 DEF crash, Spend, flowVars, ledger, rows, history
<1>23. ASSUME NEW e \in Engines, restart(e) PROVE FlowOK'
  BY <1>23 DEF restart, flowVars, ledger, rows, drivers, tasks, history
<1>24. CASE UNCHANGED vars
  BY <1>24 DEF vars, flowVars, ledger, rows, drivers, tasks, history
<1>25. QED
  BY <1>1, <1>2, <1>3, <1>4, <1>5, <1>6, <1>7, <1>8, <1>9, <1>10, <1>11,
     <1>12, <1>13, <1>14, <1>15, <1>16, <1>17, <1>18, <1>19, <1>20, <1>21,
     <1>22, <1>23, <1>24 DEF Next, Driver, Task, Worker

\* Every action keeps the step ledger in its type.
LEMMA LedgerStep == TypeOK /\ [Next]_vars => LedgerOK'
<1> SUFFICES ASSUME TypeOK, [Next]_vars PROVE LedgerOK'
  OBVIOUS
<1> USE DEF TypeOK, LedgerOK, StepStatuses
<1>1. CASE insert_flow_run
  BY <1>1 DEF insert_flow_run, rows, drivers, tasks, history
<1>2. ASSUME NEW e \in Engines, claim_flow_run(e) PROVE LedgerOK'
  BY <1>2 DEF claim_flow_run, ledger, rows, tasks, history
<1>3. ASSUME NEW e \in Engines, drive_pass(e) PROVE LedgerOK'
  BY <1>3 DEF drive_pass, ledger, rows, tasks, history
<1>4. ASSUME NEW e \in Engines, resolve(e) PROVE LedgerOK'
  <2>1. PICK w \in todo[e] :
          \/ UNCHANGED ledger
          \/ \E st \in StepStatuses : finish_step(w[2], st)
          \/ w[2] \in MapSteps /\ expand(w[2])
    BY <1>4 DEF resolve, ledger
  <2>2. w[2] \in Steps
    BY <2>1 DEF DriversOK, Work
  <2>3. UNCHANGED history
    BY <1>4 DEF resolve
  <2>4. CASE UNCHANGED ledger
    BY <2>3, <2>4 DEF ledger, history
  <2>5. ASSUME NEW st \in StepStatuses, finish_step(w[2], st) PROVE LedgerOK'
    BY <2>2, <2>3, <2>5, FinishTyped DEF history
  <2>6. CASE w[2] \in MapSteps /\ expand(w[2])
    <3>1. ASSUME NEW st \in {"succeeded", "failed"}, finish_step(w[2], st) PROVE LedgerOK'
      BY <2>5, <3>1
    <3>2. CASE /\ step_status' = [t \in Steps |->
                   IF t = w[2] THEN "expanded"
                   ELSE IF t \in Kids[w[2]] /\ step_status[t] = "none" THEN "pending"
                   ELSE step_status[t]]
               /\ UNCHANGED <<finished_at, compensated, clock>>
      BY <2>3, <3>2 DEF history
    <3>3. QED
      BY <2>6, <3>1, <3>2 DEF expand
  <2>7. QED
    BY <2>1, <2>4, <2>5, <2>6
<1>5. ASSUME NEW e \in Engines, spawn_batch(e) PROVE LedgerOK'
  BY <1>5 DEF spawn_batch, flowVars, ledger, rows, tasks, history
<1>6. ASSUME NEW e \in Engines, batch_done(e) PROVE LedgerOK'
  BY <1>6 DEF batch_done, flowVars, ledger, rows, tasks, history
<1>7. ASSUME NEW e \in Engines, finish_flow_run(e) PROVE LedgerOK'
  BY <1>7 DEF finish_flow_run, ledger, rows, tasks, history
<1>8. ASSUME NEW e \in Engines, drive_err(e) PROVE LedgerOK'
  BY <1>8 DEF drive_err, ledger, rows, tasks, history
<1>9. ASSUME NEW e \in Engines, NEW s \in Steps, run_step_short(e, s) PROVE LedgerOK'
  <2>1. \E st \in StepStatuses : finish_step(s, st)
    BY <1>9 DEF run_step_short
  <2>2. UNCHANGED history
    BY <1>9 DEF run_step_short
  <2>3. QED
    BY <2>1, <2>2, FinishTyped DEF history
<1>10. ASSUME NEW e \in Engines, NEW s \in Steps, run_step_insert(e, s) PROVE LedgerOK'
  BY <1>10 DEF run_step_insert, flowVars, ledger, drivers, history
<1>11. ASSUME NEW e \in Engines, NEW s \in Steps, set_step_running(e, s) PROVE LedgerOK'
  BY <1>11 DEF set_step_running, flowVars, rows, drivers
<1>12. ASSUME NEW e \in Engines, NEW s \in Steps, exec_run(e, s) PROVE LedgerOK'
  BY <1>12 DEF exec_run, flowVars, ledger, drivers, history
<1>13. ASSUME NEW e \in Engines, NEW s \in Steps, run_step_end(e, s) PROVE LedgerOK'
  <2>1. UNCHANGED ledger \/ \E st \in StepStatuses : finish_step(s, st)
    BY <1>13 DEF run_step_end
  <2>2. UNCHANGED history
    BY <1>13 DEF run_step_end
  <2>3. QED
    BY <2>1, <2>2, FinishTyped DEF history, ledger
<1>14. ASSUME NEW e \in Engines, NEW s \in Steps, compensate(e, s) PROVE LedgerOK'
  BY <1>14 DEF compensate, flowVars, ledger, rows, history
<1>15. ASSUME NEW e \in Engines, NEW s \in Steps, mark_step_compensated(e, s) PROVE LedgerOK'
  BY <1>15 DEF mark_step_compensated, Marked, flowVars, rows
<1>16. ASSUME NEW r \in Runs, worker_claim(r) PROVE LedgerOK'
  BY <1>16 DEF worker_claim, flowVars, ledger, drivers, tasks
<1>17. ASSUME NEW r \in Runs, worker_run(r) PROVE LedgerOK'
  BY <1>17 DEF worker_run, flowVars, ledger, drivers, tasks, history
<1>18. ASSUME NEW r \in Runs, worker_decide(r) PROVE LedgerOK'
  BY <1>18 DEF worker_decide, flowVars, ledger, drivers, tasks, history
<1>19. CASE lease_expires
  BY <1>19 DEF lease_expires, ledger, rows, drivers, tasks, history
<1>20. CASE reap_orphan_flow_runs
  BY <1>20 DEF reap_orphan_flow_runs, ledger, rows, drivers, tasks, history
<1>21. ASSUME NEW e \in Engines, touch_flow_run(e) PROVE LedgerOK'
  BY <1>21 DEF touch_flow_run, ledger, rows, drivers, tasks, history
<1>22. ASSUME NEW e \in Engines, crash(e) PROVE LedgerOK'
  BY <1>22 DEF crash, flowVars, ledger, rows, history
<1>23. ASSUME NEW e \in Engines, restart(e) PROVE LedgerOK'
  BY <1>23 DEF restart, flowVars, ledger, rows, drivers, tasks, history
<1>24. CASE UNCHANGED vars
  BY <1>24 DEF vars, flowVars, ledger, rows, drivers, tasks, history
<1>25. QED
  BY <1>1, <1>2, <1>3, <1>4, <1>5, <1>6, <1>7, <1>8, <1>9, <1>10, <1>11,
     <1>12, <1>13, <1>14, <1>15, <1>16, <1>17, <1>18, <1>19, <1>20, <1>21,
     <1>22, <1>23, <1>24 DEF Next, Driver, Task, Worker

\* Every action keeps the run rows and the workers in their types.
LEMMA RowsStep == TypeOK /\ [Next]_vars => RowsOK'
<1> SUFFICES ASSUME TypeOK, [Next]_vars PROVE RowsOK'
  OBVIOUS
<1> USE DEF TypeOK, RowsOK, Outcomes, Work, NoWork
<1>1. CASE insert_flow_run
  BY <1>1 DEF insert_flow_run, rows, drivers, tasks, history
<1>2. ASSUME NEW e \in Engines, claim_flow_run(e) PROVE RowsOK'
  BY <1>2 DEF claim_flow_run, ledger, rows, tasks, history
<1>3. ASSUME NEW e \in Engines, drive_pass(e) PROVE RowsOK'
  BY <1>3 DEF drive_pass, ledger, rows, tasks, history
<1>4. ASSUME NEW e \in Engines, resolve(e) PROVE RowsOK'
  BY <1>4 DEF resolve, flowVars, ledger, rows, history
<1>5. ASSUME NEW e \in Engines, spawn_batch(e) PROVE RowsOK'
  BY <1>5 DEF spawn_batch, flowVars, ledger, rows, tasks, history
<1>6. ASSUME NEW e \in Engines, batch_done(e) PROVE RowsOK'
  BY <1>6 DEF batch_done, flowVars, ledger, rows, tasks, history
<1>7. ASSUME NEW e \in Engines, finish_flow_run(e) PROVE RowsOK'
  BY <1>7 DEF finish_flow_run, ledger, rows, tasks, history
<1>8. ASSUME NEW e \in Engines, drive_err(e) PROVE RowsOK'
  BY <1>8 DEF drive_err, ledger, rows, tasks, history
<1>9. ASSUME NEW e \in Engines, NEW s \in Steps, run_step_short(e, s) PROVE RowsOK'
  BY <1>9 DEF run_step_short, flowVars, rows, drivers, history
<1>10. ASSUME NEW e \in Engines, NEW s \in Steps, run_step_insert(e, s) PROVE RowsOK'
  <2>1. PICK r \in Runs : insert_run(r, <<"go", s>>)
    BY <1>10 DEF run_step_insert
  <2>2. <<"go", s>> \in {"join", "skip", "go", "undo"} \X Steps
    OBVIOUS
  <2>3. execs' = execs /\ undone' = undone
    BY <1>10 DEF run_step_insert, history
  <2>4. QED
    BY <2>1, <2>2, <2>3 DEF insert_run
<1>11. ASSUME NEW e \in Engines, NEW s \in Steps, set_step_running(e, s) PROVE RowsOK'
  <2>1. execs' = [execs EXCEPT ![s] = execs[s] + 1]
    BY <1>11 DEF set_step_running
  <2>2. execs[s] + 1 \in Nat
    OBVIOUS
  <2>3. UNCHANGED <<rows, undone>>
    BY <1>11 DEF set_step_running
  <2>4. QED
    BY <2>1, <2>2, <2>3 DEF rows
<1>12. ASSUME NEW e \in Engines, NEW s \in Steps, exec_run(e, s) PROVE RowsOK'
  BY <1>12 DEF exec_run, flowVars, ledger, drivers, history
<1>13. ASSUME NEW e \in Engines, NEW s \in Steps, run_step_end(e, s) PROVE RowsOK'
  BY <1>13 DEF run_step_end, flowVars, ledger, rows, drivers, history
<1>14. ASSUME NEW e \in Engines, NEW s \in Steps, compensate(e, s) PROVE RowsOK'
  BY <1>14 DEF compensate, insert_run, flowVars, ledger, rows, history
<1>15. ASSUME NEW e \in Engines, NEW s \in Steps, mark_step_compensated(e, s) PROVE RowsOK'
  BY <1>15 DEF mark_step_compensated, flowVars, rows
<1>16. ASSUME NEW r \in Runs, worker_claim(r) PROVE RowsOK'
  BY <1>16 DEF worker_claim, flowVars, ledger, drivers, tasks, history
<1>17. ASSUME NEW r \in Runs, worker_run(r) PROVE RowsOK'
  BY <1>17 DEF worker_run, flowVars, ledger, drivers, tasks, history
<1>18. ASSUME NEW r \in Runs, worker_decide(r) PROVE RowsOK'
  BY <1>18 DEF worker_decide, flowVars, ledger, drivers, tasks, history
<1>19. CASE lease_expires
  BY <1>19 DEF lease_expires, ledger, rows, drivers, tasks, history
<1>20. CASE reap_orphan_flow_runs
  BY <1>20 DEF reap_orphan_flow_runs, ledger, rows, drivers, tasks, history
<1>21. ASSUME NEW e \in Engines, touch_flow_run(e) PROVE RowsOK'
  BY <1>21 DEF touch_flow_run, ledger, rows, drivers, tasks, history
<1>22. ASSUME NEW e \in Engines, crash(e) PROVE RowsOK'
  BY <1>22 DEF crash, flowVars, ledger, rows, history
<1>23. ASSUME NEW e \in Engines, restart(e) PROVE RowsOK'
  BY <1>23 DEF restart, flowVars, ledger, rows, drivers, tasks, history
<1>24. CASE UNCHANGED vars
  BY <1>24 DEF vars, flowVars, ledger, rows, drivers, tasks, history
<1>25. QED
  BY <1>1, <1>2, <1>3, <1>4, <1>5, <1>6, <1>7, <1>8, <1>9, <1>10, <1>11,
     <1>12, <1>13, <1>14, <1>15, <1>16, <1>17, <1>18, <1>19, <1>20, <1>21,
     <1>22, <1>23, <1>24 DEF Next, Driver, Task, Worker

\* Every action keeps the drivers in their types.
LEMMA DriversStep == TypeOK /\ [Next]_vars => DriversOK'
<1> SUFFICES ASSUME TypeOK, [Next]_vars PROVE DriversOK'
  OBVIOUS
<1> USE DEF TypeOK, DriversOK, Work
<1>1. CASE insert_flow_run
  BY <1>1 DEF insert_flow_run, MapSteps, rows, drivers, tasks, history
<1>2. ASSUME NEW e \in Engines, claim_flow_run(e) PROVE DriversOK'
  BY <1>2 DEF claim_flow_run, ledger, rows, tasks, history
<1>3. ASSUME NEW e \in Engines, drive_pass(e) PROVE DriversOK'
  <2>1. Undo \subseteq Work
    BY StepsAssumption DEF Undo, Children
  <2>2. Joins \subseteq Work
    BY StepsAssumption DEF Joins
  <2>3. Resolutions \subseteq Work
    <3>1. ASSUME NEW s \in Steps PROVE <<IF DeadBranch(s) THEN "skip" ELSE "go", s>> \in Work
      OBVIOUS
    <3>2. QED
      BY <3>1 DEF Resolutions
  <2>4. Phase \in {"compensate", "finish", "resolve"}
    BY DEF Phase
  <2>5. QED
    BY <1>3, <2>1, <2>2, <2>3, <2>4 DEF drive_pass
<1>4. ASSUME NEW e \in Engines, resolve(e) PROVE DriversOK'
  BY <1>4 DEF resolve, MapSteps, flowVars, ledger, rows, history
<1>5. ASSUME NEW e \in Engines, spawn_batch(e) PROVE DriversOK'
  BY <1>5 DEF spawn_batch, flowVars, ledger, rows, tasks, history
<1>6. ASSUME NEW e \in Engines, batch_done(e) PROVE DriversOK'
  BY <1>6 DEF batch_done, flowVars, ledger, rows, tasks, history
<1>7. ASSUME NEW e \in Engines, finish_flow_run(e) PROVE DriversOK'
  BY <1>7 DEF finish_flow_run, ledger, rows, tasks, history
<1>8. ASSUME NEW e \in Engines, drive_err(e) PROVE DriversOK'
  BY <1>8 DEF drive_err, ledger, rows, tasks, history
<1>9. ASSUME NEW e \in Engines, NEW s \in Steps, run_step_short(e, s) PROVE DriversOK'
  BY <1>9 DEF run_step_short, flowVars, rows, drivers, history
<1>10. ASSUME NEW e \in Engines, NEW s \in Steps, run_step_insert(e, s) PROVE DriversOK'
  BY <1>10 DEF run_step_insert, flowVars, ledger, drivers, history
<1>11. ASSUME NEW e \in Engines, NEW s \in Steps, set_step_running(e, s) PROVE DriversOK'
  BY <1>11 DEF set_step_running, flowVars, rows, drivers
<1>12. ASSUME NEW e \in Engines, NEW s \in Steps, exec_run(e, s) PROVE DriversOK'
  BY <1>12 DEF exec_run, flowVars, ledger, drivers, history
<1>13. ASSUME NEW e \in Engines, NEW s \in Steps, run_step_end(e, s) PROVE DriversOK'
  BY <1>13 DEF run_step_end, flowVars, ledger, rows, drivers, history
<1>14. ASSUME NEW e \in Engines, NEW s \in Steps, compensate(e, s) PROVE DriversOK'
  BY <1>14 DEF compensate, flowVars, ledger, rows, history
<1>15. ASSUME NEW e \in Engines, NEW s \in Steps, mark_step_compensated(e, s) PROVE DriversOK'
  BY <1>15 DEF mark_step_compensated, flowVars, rows
<1>16. ASSUME NEW r \in Runs, worker_claim(r) PROVE DriversOK'
  BY <1>16 DEF worker_claim, flowVars, ledger, drivers, tasks
<1>17. ASSUME NEW r \in Runs, worker_run(r) PROVE DriversOK'
  BY <1>17 DEF worker_run, flowVars, ledger, drivers, tasks, history
<1>18. ASSUME NEW r \in Runs, worker_decide(r) PROVE DriversOK'
  BY <1>18 DEF worker_decide, flowVars, ledger, drivers, tasks, history
<1>19. CASE lease_expires
  BY <1>19 DEF lease_expires, ledger, rows, drivers, tasks, history
<1>20. CASE reap_orphan_flow_runs
  BY <1>20 DEF reap_orphan_flow_runs, ledger, rows, drivers, tasks, history
<1>21. ASSUME NEW e \in Engines, touch_flow_run(e) PROVE DriversOK'
  BY <1>21 DEF touch_flow_run, ledger, rows, drivers, tasks, history
<1>22. ASSUME NEW e \in Engines, crash(e) PROVE DriversOK'
  BY <1>22 DEF crash, flowVars, ledger, rows, history
<1>23. ASSUME NEW e \in Engines, restart(e) PROVE DriversOK'
  BY <1>23 DEF restart, flowVars, ledger, rows, drivers, tasks, history
<1>24. CASE UNCHANGED vars
  BY <1>24 DEF vars, flowVars, ledger, rows, drivers, tasks, history
<1>25. QED
  BY <1>1, <1>2, <1>3, <1>4, <1>5, <1>6, <1>7, <1>8, <1>9, <1>10, <1>11,
     <1>12, <1>13, <1>14, <1>15, <1>16, <1>17, <1>18, <1>19, <1>20, <1>21,
     <1>22, <1>23, <1>24 DEF Next, Driver, Task, Worker

\* Every action keeps the tasks of the batches in their types.
LEMMA TasksStep == TypeOK /\ [Next]_vars => TasksOK'
<1> SUFFICES ASSUME TypeOK, [Next]_vars PROVE TasksOK'
  OBVIOUS
<1> USE DEF TypeOK, TasksOK, NoRun
<1>1. CASE insert_flow_run
  BY <1>1 DEF insert_flow_run, rows, drivers, tasks, history
<1>2. ASSUME NEW e \in Engines, claim_flow_run(e) PROVE TasksOK'
  BY <1>2 DEF claim_flow_run, ledger, rows, tasks, history
<1>3. ASSUME NEW e \in Engines, drive_pass(e) PROVE TasksOK'
  BY <1>3 DEF drive_pass, ledger, rows, tasks, history
<1>4. ASSUME NEW e \in Engines, resolve(e) PROVE TasksOK'
  BY <1>4 DEF resolve, flowVars, ledger, rows, history
<1>5. ASSUME NEW e \in Engines, spawn_batch(e) PROVE TasksOK'
  BY <1>5 DEF spawn_batch, flowVars, ledger, rows, tasks, history
<1>6. ASSUME NEW e \in Engines, batch_done(e) PROVE TasksOK'
  BY <1>6 DEF batch_done, flowVars, ledger, rows, tasks, history
<1>7. ASSUME NEW e \in Engines, finish_flow_run(e) PROVE TasksOK'
  BY <1>7 DEF finish_flow_run, ledger, rows, tasks, history
<1>8. ASSUME NEW e \in Engines, drive_err(e) PROVE TasksOK'
  BY <1>8 DEF drive_err, ledger, rows, tasks, history
<1>9. ASSUME NEW e \in Engines, NEW s \in Steps, run_step_short(e, s) PROVE TasksOK'
  BY <1>9 DEF run_step_short, End, flowVars, rows, drivers, history
<1>10. ASSUME NEW e \in Engines, NEW s \in Steps, run_step_insert(e, s) PROVE TasksOK'
  <2>1. <<e, s>> \in Engines \X Steps
    OBVIOUS
  <2>2. tpc' = [tpc EXCEPT ![<<e, s>>] = "inserted"]
    BY <1>10 DEF run_step_insert
  <2>3. attempt' = [attempt EXCEPT ![<<e, s>>] = attempt[<<e, s>>] + 1]
    BY <1>10 DEF run_step_insert
  <2>4. PICK r \in Runs : run_id' = [run_id EXCEPT ![<<e, s>>] = r]
    BY <1>10 DEF run_step_insert
  <2>5. attempt' \in [Engines \X Steps -> Nat]
    BY <2>1, <2>3
  <2>6. QED
    BY <2>1, <2>2, <2>4, <2>5
<1>11. ASSUME NEW e \in Engines, NEW s \in Steps, set_step_running(e, s) PROVE TasksOK'
  BY <1>11 DEF set_step_running, flowVars, rows, drivers
<1>12. ASSUME NEW e \in Engines, NEW s \in Steps, exec_run(e, s) PROVE TasksOK'
  BY <1>12 DEF exec_run, flowVars, ledger, drivers, history
<1>13. ASSUME NEW e \in Engines, NEW s \in Steps, run_step_end(e, s) PROVE TasksOK'
  <2>1. CASE End(e, s)
    BY <2>1 DEF End
  <2>2. CASE tpc' = [tpc EXCEPT ![<<e, s>>] = "queued"] /\ UNCHANGED <<run_id, attempt>>
    BY <2>2
  <2>3. QED
    BY <1>13, <2>1, <2>2 DEF run_step_end
<1>14. ASSUME NEW e \in Engines, NEW s \in Steps, compensate(e, s) PROVE TasksOK'
  BY <1>14 DEF compensate, flowVars, ledger, rows, history
<1>15. ASSUME NEW e \in Engines, NEW s \in Steps, mark_step_compensated(e, s) PROVE TasksOK'
  BY <1>15 DEF mark_step_compensated, End, flowVars, rows
<1>16. ASSUME NEW r \in Runs, worker_claim(r) PROVE TasksOK'
  BY <1>16 DEF worker_claim, flowVars, ledger, drivers, tasks
<1>17. ASSUME NEW r \in Runs, worker_run(r) PROVE TasksOK'
  BY <1>17 DEF worker_run, flowVars, ledger, drivers, tasks, history
<1>18. ASSUME NEW r \in Runs, worker_decide(r) PROVE TasksOK'
  BY <1>18 DEF worker_decide, flowVars, ledger, drivers, tasks, history
<1>19. CASE lease_expires
  BY <1>19 DEF lease_expires, ledger, rows, drivers, tasks, history
<1>20. CASE reap_orphan_flow_runs
  BY <1>20 DEF reap_orphan_flow_runs, ledger, rows, drivers, tasks, history
<1>21. ASSUME NEW e \in Engines, touch_flow_run(e) PROVE TasksOK'
  BY <1>21 DEF touch_flow_run, ledger, rows, drivers, tasks, history
<1>22. ASSUME NEW e \in Engines, crash(e) PROVE TasksOK'
  BY <1>22 DEF crash, flowVars, ledger, rows, history
<1>23. ASSUME NEW e \in Engines, restart(e) PROVE TasksOK'
  BY <1>23 DEF restart, flowVars, ledger, rows, drivers, tasks, history
<1>24. CASE UNCHANGED vars
  BY <1>24 DEF vars, flowVars, ledger, rows, drivers, tasks, history
<1>25. QED
  BY <1>1, <1>2, <1>3, <1>4, <1>5, <1>6, <1>7, <1>8, <1>9, <1>10, <1>11,
     <1>12, <1>13, <1>14, <1>15, <1>16, <1>17, <1>18, <1>19, <1>20, <1>21,
     <1>22, <1>23, <1>24 DEF Next, Driver, Task, Worker

\* Type correctness: every reachable state of the flow row, the step ledger, the
\* run rows, the drivers and their tasks is well typed.
THEOREM FlowTypeCorrect == Spec => []TypeOK
<1>1. Init => FlowOK /\ LedgerOK /\ RowsOK
  BY BoundsAssumption DEF Init, FlowOK, LedgerOK, RowsOK, StepStatuses, NoWork
<1>2. Init => DriversOK /\ TasksOK
  BY DEF Init, DriversOK, TasksOK, NoRun
<1>3. TypeOK /\ [Next]_vars => TypeOK'
  BY FlowStep, LedgerStep, RowsStep, DriversStep, TasksStep DEF TypeOK
<1>4. QED
  BY <1>1, <1>2, <1>3, PTL DEF Spec, TypeOK

-----------------------------------------------------------------------------
(* Drivers and their batches.                                              *)

\* Every action keeps the driver alone and its lease fresh.
LEMMA DriverStep == TypeOK /\ DriverInv /\ [Next]_vars => DriverInv'
<1> SUFFICES ASSUME TypeOK, DriverInv, [Next]_vars PROVE DriverInv'
  OBVIOUS
<1> USE DEF TypeOK, FlowOK, DriversOK, DriverInv, DriverExclusive
<1>1. CASE insert_flow_run
  BY <1>1 DEF insert_flow_run, rows, drivers, tasks, history
<1>2. ASSUME NEW e \in Engines, claim_flow_run(e) PROVE DriverInv'
  BY <1>2 DEF claim_flow_run, ledger, rows, tasks, history
<1>3. ASSUME NEW e \in Engines, drive_pass(e) PROVE DriverInv'
  BY <1>3 DEF drive_pass, Phase, ledger, rows, tasks, history
<1>4. ASSUME NEW e \in Engines, resolve(e) PROVE DriverInv'
  BY <1>4 DEF resolve, Spend, flowVars, ledger, rows, history
<1>5. ASSUME NEW e \in Engines, spawn_batch(e) PROVE DriverInv'
  BY <1>5 DEF spawn_batch, flowVars, ledger, rows, tasks, history
<1>6. ASSUME NEW e \in Engines, batch_done(e) PROVE DriverInv'
  BY <1>6 DEF batch_done, flowVars, ledger, rows, tasks, history
<1>7. ASSUME NEW e \in Engines, finish_flow_run(e) PROVE DriverInv'
  BY <1>7 DEF finish_flow_run, Unwound, ledger, rows, tasks, history
<1>8. ASSUME NEW e \in Engines, drive_err(e) PROVE DriverInv'
  BY <1>8 DEF drive_err, Spend, Unwound, ledger, rows, tasks, history
<1>9. ASSUME NEW e \in Engines, NEW s \in Steps, run_step_short(e, s) PROVE DriverInv'
  BY <1>9 DEF run_step_short, Spend, flowVars, rows, drivers, history
<1>10. ASSUME NEW e \in Engines, NEW s \in Steps, run_step_insert(e, s) PROVE DriverInv'
  BY <1>10 DEF run_step_insert, flowVars, ledger, drivers, history
<1>11. ASSUME NEW e \in Engines, NEW s \in Steps, set_step_running(e, s) PROVE DriverInv'
  BY <1>11 DEF set_step_running, Spend, flowVars, rows, drivers
<1>12. ASSUME NEW e \in Engines, NEW s \in Steps, exec_run(e, s) PROVE DriverInv'
  BY <1>12 DEF exec_run, Spend, flowVars, ledger, drivers, history
<1>13. ASSUME NEW e \in Engines, NEW s \in Steps, run_step_end(e, s) PROVE DriverInv'
  BY <1>13 DEF run_step_end, Spend, Faulty, flowVars, ledger, rows, drivers,
     history
<1>14. ASSUME NEW e \in Engines, NEW s \in Steps, compensate(e, s) PROVE DriverInv'
  BY <1>14 DEF compensate, Spend, flowVars, ledger, rows, history
<1>15. ASSUME NEW e \in Engines, NEW s \in Steps, mark_step_compensated(e, s) PROVE DriverInv'
  BY <1>15 DEF mark_step_compensated, Spend, Faulty, flowVars, rows
<1>16. ASSUME NEW r \in Runs, worker_claim(r) PROVE DriverInv'
  BY <1>16 DEF worker_claim, flowVars, ledger, drivers, tasks
<1>17. ASSUME NEW r \in Runs, worker_run(r) PROVE DriverInv'
  BY <1>17 DEF worker_run, flowVars, ledger, drivers, tasks, history
<1>18. ASSUME NEW r \in Runs, worker_decide(r) PROVE DriverInv'
  BY <1>18 DEF worker_decide, flowVars, ledger, drivers, tasks, history
<1>19. CASE lease_expires
  BY <1>19 DEF lease_expires, Spend, ledger, rows, drivers, tasks, history
<1>20. CASE reap_orphan_flow_runs
  BY <1>20 DEF reap_orphan_flow_runs, ledger, rows, drivers, tasks, history
<1>21. ASSUME NEW e \in Engines, touch_flow_run(e) PROVE DriverInv'
  BY <1>21 DEF touch_flow_run, ledger, rows, drivers, tasks, history
<1>22. ASSUME NEW e \in Engines, crash(e) PROVE DriverInv'
  BY <1>22 DEF crash, Spend, flowVars, ledger, rows, history
<1>23. ASSUME NEW e \in Engines, restart(e) PROVE DriverInv'
  BY <1>23 DEF restart, flowVars, ledger, rows, drivers, tasks, history
<1>24. CASE UNCHANGED vars
  BY <1>24 DEF vars, flowVars, ledger, rows, drivers, tasks, history
<1>25. QED
  BY <1>1, <1>2, <1>3, <1>4, <1>5, <1>6, <1>7, <1>8, <1>9, <1>10, <1>11,
     <1>12, <1>13, <1>14, <1>15, <1>16, <1>17, <1>18, <1>19, <1>20, <1>21,
     <1>22, <1>23, <1>24 DEF Next, Driver, Task, Worker

\* Every action keeps tasks under a driver that awaits them.
LEMMA QuietStep == TypeOK /\ QuietInv /\ [Next]_vars => QuietInv'
<1> SUFFICES ASSUME TypeOK, QuietInv, [Next]_vars PROVE QuietInv'
  OBVIOUS
<1> USE DEF TypeOK, DriversOK, TasksOK, QuietInv, Busy
<1>1. CASE insert_flow_run
  BY <1>1 DEF insert_flow_run, rows, drivers, tasks, history
<1>2. ASSUME NEW e \in Engines, claim_flow_run(e) PROVE QuietInv'
  BY <1>2 DEF claim_flow_run, ledger, rows, tasks, history
<1>3. ASSUME NEW e \in Engines, drive_pass(e) PROVE QuietInv'
  BY <1>3 DEF drive_pass, Phase, ledger, rows, tasks, history
<1>4. ASSUME NEW e \in Engines, resolve(e) PROVE QuietInv'
  <2>1. dpc[e] = "resolve" /\ UNCHANGED dpc
    BY <1>4 DEF resolve
  <2>2. PICK w \in todo[e] : UNCHANGED tpc \/ tpc' = [tpc EXCEPT ![<<e, w[2]>>] = "queued"]
    BY <1>4 DEF resolve
  <2>3. ASSUME NEW f \in Engines, NEW s \in Steps, f # e PROVE tpc'[<<f, s>>] = tpc[<<f, s>>]
    BY <2>2, <2>3
  <2>4. QED
    BY <2>1, <2>3
<1>5. ASSUME NEW e \in Engines, spawn_batch(e) PROVE QuietInv'
  BY <1>5 DEF spawn_batch, flowVars, ledger, rows, tasks, history
<1>6. ASSUME NEW e \in Engines, batch_done(e) PROVE QuietInv'
  BY <1>6 DEF batch_done, flowVars, ledger, rows, tasks, history
<1>7. ASSUME NEW e \in Engines, finish_flow_run(e) PROVE QuietInv'
  BY <1>7 DEF finish_flow_run, Unwound, ledger, rows, tasks, history
<1>8. ASSUME NEW e \in Engines, drive_err(e) PROVE QuietInv'
  BY <1>8 DEF drive_err, Unwound, ledger, rows, tasks, history
<1>9. ASSUME NEW e \in Engines, NEW s \in Steps, run_step_short(e, s) PROVE QuietInv'
  BY <1>9 DEF run_step_short, End, flowVars, rows, drivers, history
<1>10. ASSUME NEW e \in Engines, NEW s \in Steps, run_step_insert(e, s) PROVE QuietInv'
  BY <1>10 DEF run_step_insert, flowVars, ledger, drivers, history
<1>11. ASSUME NEW e \in Engines, NEW s \in Steps, set_step_running(e, s) PROVE QuietInv'
  BY <1>11 DEF set_step_running, flowVars, rows, drivers
<1>12. ASSUME NEW e \in Engines, NEW s \in Steps, exec_run(e, s) PROVE QuietInv'
  BY <1>12 DEF exec_run, flowVars, ledger, drivers, history
<1>13. ASSUME NEW e \in Engines, NEW s \in Steps, run_step_end(e, s) PROVE QuietInv'
  BY <1>13 DEF run_step_end, End, flowVars, ledger, rows, drivers, history
<1>14. ASSUME NEW e \in Engines, NEW s \in Steps, compensate(e, s) PROVE QuietInv'
  BY <1>14 DEF compensate, flowVars, ledger, rows, history
<1>15. ASSUME NEW e \in Engines, NEW s \in Steps, mark_step_compensated(e, s) PROVE QuietInv'
  BY <1>15 DEF mark_step_compensated, End, flowVars, rows
<1>16. ASSUME NEW r \in Runs, worker_claim(r) PROVE QuietInv'
  BY <1>16 DEF worker_claim, flowVars, ledger, drivers, tasks
<1>17. ASSUME NEW r \in Runs, worker_run(r) PROVE QuietInv'
  BY <1>17 DEF worker_run, flowVars, ledger, drivers, tasks, history
<1>18. ASSUME NEW r \in Runs, worker_decide(r) PROVE QuietInv'
  BY <1>18 DEF worker_decide, flowVars, ledger, drivers, tasks, history
<1>19. CASE lease_expires
  BY <1>19 DEF lease_expires, ledger, rows, drivers, tasks, history
<1>20. CASE reap_orphan_flow_runs
  BY <1>20 DEF reap_orphan_flow_runs, ledger, rows, drivers, tasks, history
<1>21. ASSUME NEW e \in Engines, touch_flow_run(e) PROVE QuietInv'
  BY <1>21 DEF touch_flow_run, ledger, rows, drivers, tasks, history
<1>22. ASSUME NEW e \in Engines, crash(e) PROVE QuietInv'
  BY <1>22 DEF crash, flowVars, ledger, rows, history
<1>23. ASSUME NEW e \in Engines, restart(e) PROVE QuietInv'
  BY <1>23 DEF restart, flowVars, ledger, rows, drivers, tasks, history
<1>24. CASE UNCHANGED vars
  BY <1>24 DEF vars, flowVars, ledger, rows, drivers, tasks, history
<1>25. QED
  BY <1>1, <1>2, <1>3, <1>4, <1>5, <1>6, <1>7, <1>8, <1>9, <1>10, <1>11,
     <1>12, <1>13, <1>14, <1>15, <1>16, <1>17, <1>18, <1>19, <1>20, <1>21,
     <1>22, <1>23, <1>24 DEF Next, Driver, Task, Worker

\* The driver invariant, as long as live drivers renew their leases in time.
THEOREM DriverCorrect == ASSUME MaxLapses = 0 PROVE Spec => []DriverInv
<1>1. Init => DriverInv
  BY DEF Init, DriverInv, DriverExclusive
<1>2. TypeOK /\ DriverInv /\ [Next]_vars => DriverInv'
  BY DriverStep
<1>3. QED
  BY <1>1, <1>2, FlowTypeCorrect, PTL DEF Spec

\* A flow_run never has two drivers: reap_orphan_flow_runs never reclaims a flow
\* whose engine is alive, whatever crashes, restarts and statements fail.
THEOREM DriverExclusiveHolds == ASSUME MaxLapses = 0 PROVE Spec => []DriverExclusive
<1>1. DriverInv => DriverExclusive
  BY DEF DriverInv
<1>2. QED
  BY <1>1, DriverCorrect, PTL

\* Tasks live only under a driver that awaits them.
THEOREM QuietCorrect == Spec => []QuietInv
<1>1. Init => QuietInv
  BY DEF Init, QuietInv, Busy
<1>2. TypeOK /\ QuietInv /\ [Next]_vars => QuietInv'
  BY QuietStep
<1>3. QED
  BY <1>1, <1>2, FlowTypeCorrect, PTL DEF Spec

\* Nothing of the record of an ended flow_run is written again, for every DAG, every
\* number of engines and whatever crashes and statements fail: all handles of a batch
\* are awaited before the end is written, and no other driver gets the flow.
THEOREM EndedIsFinalHolds == ASSUME MaxLapses = 0 PROVE Spec => EndedIsFinal
<1>1. TypeOK /\ DriverInv /\ QuietInv /\ [Next]_vars =>
        (flow \in Ended => UNCHANGED <<flow, step_status, finished_at, compensated>>)
  <2> SUFFICES ASSUME TypeOK, DriverInv, QuietInv, [Next]_vars, flow \in Ended
               PROVE  UNCHANGED <<flow, step_status, finished_at, compensated>>
    OBVIOUS
  <2>1. /\ flow \notin {"absent", "pending", "running"}
        /\ \A e \in Engines : dpc[e] = "idle"
        /\ \A e \in Engines, s \in Steps : tpc[<<e, s>>] = "idle"
    BY DEF DriverInv, QuietInv, Ended, Busy
  <2>2. ASSUME NEW e \in Engines PROVE ~Driver(e)
    BY <2>1, <2>2 DEF Driver, claim_flow_run, drive_pass, resolve, spawn_batch, batch_done,
       finish_flow_run, drive_err, Unwound
  <2>3. ASSUME NEW e \in Engines, NEW s \in Steps PROVE ~Task(e, s)
    BY <2>1, <2>3 DEF Task, run_step_short, run_step_insert, set_step_running, exec_run,
       run_step_end, compensate, mark_step_compensated
  <2>4. ASSUME NEW r \in Runs, Worker(r)
        PROVE  UNCHANGED <<flow, step_status, finished_at, compensated>>
    BY <2>4 DEF Worker, worker_claim, worker_run, worker_decide, flowVars, ledger
  <2>5. ASSUME NEW e \in Engines, touch_flow_run(e) \/ crash(e) \/ restart(e)
        PROVE  UNCHANGED <<flow, step_status, finished_at, compensated>>
    BY <2>5 DEF touch_flow_run, crash, restart, flowVars, ledger
  <2>6. CASE UNCHANGED vars
    BY <2>6 DEF vars, flowVars, ledger
  <2>7. ~insert_flow_run /\ ~lease_expires /\ ~reap_orphan_flow_runs
    BY <2>1 DEF insert_flow_run, lease_expires, reap_orphan_flow_runs
  <2>8. QED
    BY <2>2, <2>3, <2>4, <2>5, <2>6, <2>7 DEF Next
<1>2. QED
  BY <1>1, FlowTypeCorrect, DriverCorrect, QuietCorrect, PTL DEF Spec, EndedIsFinal

-----------------------------------------------------------------------------
(* The order of the DAG.                                                   *)

\* Moving an unfinished step, started only with its dependencies met, undoes
\* nothing that another step depends on.
LEMMA MoveKeeps ==
    ASSUME TypeOK, DependenciesFirst,
           NEW s \in Steps, NEW st \in StepStatuses,
           step_status[s] # "succeeded",
           st \in {"running", "succeeded", "failed"} => DepsMet(s), st # "expanded",
           step_status' = [step_status EXCEPT ![s] = st]
    PROVE  /\ DependenciesFirst'
           /\ \A t \in Steps : DepsMet(t) => DepsMet(t)'
           /\ \A t \in Steps : t # s => step_status'[t] = step_status[t]
           /\ step_status'[s] = st
<1>1. /\ \A t \in Steps : t # s => step_status'[t] = step_status[t]
      /\ step_status'[s] = st
  BY DEF TypeOK, LedgerOK
<1>2. ASSUME NEW t \in Steps, DepsMet(t) PROVE DepsMet(t)'
  BY <1>1, <1>2, StepsAssumption DEF DepsMet
<1>3. ASSUME NEW t \in Steps,
             step_status'[t] \in {"running", "expanded", "succeeded", "failed"}
      PROVE  DepsMet(t)'
  <2>1. DepsMet(t)
    BY <1>1, <1>3 DEF DependenciesFirst, DepsMet
  <2>2. QED
    BY <1>2, <2>1
<1>4. DependenciesFirst'
  BY <1>3 DEF DependenciesFirst, DepsMet
<1>5. QED
  BY <1>1, <1>2, <1>4

\* Nor does a fan-out, which also turns absent children into pending ones.
LEMMA FanoutKeeps ==
    ASSUME TypeOK, DependenciesFirst,
           NEW s \in Steps, step_status[s] # "succeeded", DepsMet(s),
           step_status' = [t \in Steps |->
             IF t = s THEN "expanded"
             ELSE IF t \in Kids[s] /\ step_status[t] = "none" THEN "pending"
             ELSE step_status[t]]
    PROVE  /\ DependenciesFirst'
           /\ \A t \in Steps : DepsMet(t) => DepsMet(t)'
           /\ \A t \in Steps : t # s /\ step_status[t] # "none" => step_status'[t] = step_status[t]
<1>1. /\ \A t \in Steps : t # s /\ step_status[t] # "none" => step_status'[t] = step_status[t]
      /\ \A t \in Steps : t # s /\ step_status[t] = "none" => step_status'[t] \in {"none", "pending"}
      /\ step_status'[s] = "expanded"
  OBVIOUS
<1>2. ASSUME NEW t \in Steps, DepsMet(t) PROVE DepsMet(t)'
  BY <1>1, <1>2, StepsAssumption DEF DepsMet
<1>3. ASSUME NEW t \in Steps,
             step_status'[t] \in {"running", "expanded", "succeeded", "failed"}
      PROVE  DepsMet(t)'
  <2>1. DepsMet(t)
    BY <1>1, <1>3 DEF DependenciesFirst, DepsMet
  <2>2. QED
    BY <1>2, <2>1
<1>4. DependenciesFirst'
  BY <1>3 DEF DependenciesFirst, DepsMet
<1>5. QED
  BY <1>1, <1>2, <1>4

\* A step that leaves the ledger alone keeps DepInv if what is still to be done
\* is part of what was, and every task in the batch has its dependencies met.
LEMMA StillKeeps ==
    ASSUME DepInv, step_status' = step_status,
           \A f \in Engines, t \in Steps, k \in Tags : <<k, t>> \in todo'[f] =>
               <<k, t>> \in todo[f] /\ dpc'[f] = "resolve" /\ ~Busy(f, t)',
           \A f \in Engines, t \in Steps : tpc'[<<f, t>>] \in Live =>
               step_status[t] \in {"pending", "running"} /\ DepsMet(t)
    PROVE  DepInv'
<1>1. DependenciesFirst'
  BY DEF DepInv, DependenciesFirst
<1>2. \A t \in Steps : DepsMet(t)' = DepsMet(t)
  BY DEF DepsMet
<1>3. TodoInv'
  BY <1>2 DEF DepInv, TodoInv, Tags
<1>4. TaskInv'
  BY <1>2 DEF TaskInv
<1>5. QED
  BY <1>1, <1>3, <1>4 DEF DepInv

\* A driver at work is alone: nobody else has decisions or tasks.
LEMMA SoleDriver ==
    ASSUME DriverInv, QuietInv, DepInv, NEW e \in Engines, dpc[e] # "idle",
           NEW f \in Engines, f # e, NEW t \in Steps
    PROVE  ~Busy(f, t) /\ \A k \in Tags : <<k, t>> \notin todo[f]
  BY DEF DriverInv, DriverExclusive, QuietInv, DepInv, TodoInv

\* A step of the ledger moves and its driver forgets its own decisions on it.
LEMMA ChangeKeeps ==
    ASSUME DriverInv, QuietInv, DepInv, DependenciesFirst',
           NEW e \in Engines, NEW s \in Steps, dpc[e] # "idle", UNCHANGED dpc,
           \A t \in Steps : DepsMet(t) => DepsMet(t)',
           \A t \in Steps : t # s /\ step_status[t] # "none"
                              => step_status'[t] = step_status[t],
           \A f \in Engines, t \in Steps, k \in Tags : <<k, t>> \in todo'[f] =>
               <<k, t>> \in todo[f] /\ (f = e => t # s),
           \A f \in Engines, t \in Steps : tpc'[<<f, t>>] \in Live =>
               tpc[<<f, t>>] \in Live /\ (f = e /\ t = s => step_status'[s] = "running"),
           \A f \in Engines, t \in Steps : Busy(f, t)' => Busy(f, t)
    PROVE  DepInv'
<1>1. TodoInv'
  <2> SUFFICES ASSUME NEW f \in Engines, NEW t \in Steps, NEW k \in Tags, <<k, t>> \in todo'[f]
               PROVE  /\ dpc'[f] = "resolve" /\ ~Busy(f, t)'
                      /\ k \in {"go", "skip"} => step_status'[t] = "pending"
                      /\ k = "go" => DepsMet(t)' /\ <<"skip", t>> \notin todo'[f]
                      /\ k = "join" => step_status'[t] = "expanded"
    BY DEF TodoInv, Tags
  <2>1. f = e /\ t # s /\ <<k, t>> \in todo[f]
    BY SoleDriver
  <2>2. /\ dpc[f] = "resolve" /\ ~Busy(f, t)
        /\ k \in {"go", "skip"} => step_status[t] = "pending"
        /\ k = "go" => DepsMet(t) /\ <<"skip", t>> \notin todo[f]
        /\ k = "join" => step_status[t] = "expanded"
    BY <2>1 DEF DepInv, TodoInv, Tags
  <2>3. "skip" \in Tags /\ k \in {"go", "skip", "join"}
    BY DEF Tags
  <2>4. step_status'[t] = step_status[t]
    BY <2>1, <2>2, <2>3
  <2>5. QED
    BY <2>2, <2>3, <2>4
<1>2. TaskInv'
  <2> SUFFICES ASSUME NEW f \in Engines, NEW t \in Steps, tpc'[<<f, t>>] \in Live
               PROVE  step_status'[t] \in {"pending", "running"} /\ DepsMet(t)'
    BY DEF TaskInv
  <2>1. tpc[<<f, t>>] \in Live
    OBVIOUS
  <2>2. step_status[t] \in {"pending", "running"} /\ DepsMet(t) /\ Busy(f, t)
    BY <2>1 DEF DepInv, TaskInv, Busy, Live
  <2>3. f = e
    BY <2>2, SoleDriver
  <2>4. QED
    BY <2>2, <2>3
<1>3. QED
  BY <1>1, <1>2 DEF DepInv

\* What DepInv says of one engine and one step.
LEMMA DepFacts ==
    ASSUME DepInv, NEW f \in Engines, NEW t \in Steps
    PROVE  /\ \A k \in Tags : <<k, t>> \in todo[f] => dpc[f] = "resolve" /\ ~Busy(f, t)
           /\ tpc[<<f, t>>] \in Live =>
                 step_status[t] \in {"pending", "running"} /\ DepsMet(t)
  BY DEF DepInv, TodoInv, TaskInv

\* What touches neither ledger, drivers nor tasks keeps DepInv.
LEMMA FrameKeeps ==
    ASSUME DepInv, UNCHANGED <<step_status, dpc, todo, tpc>>
    PROVE  DepInv'
  BY DEF DepInv, TodoInv, TaskInv, DepsMet, DependenciesFirst, Busy

\* Every action keeps DepInv.
LEMMA DepStep == TypeOK /\ DriverInv /\ QuietInv /\ DepInv /\ [Next]_vars => DepInv'
<1> SUFFICES ASSUME TypeOK, DriverInv, QuietInv, DepInv, [Next]_vars PROVE DepInv'
  OBVIOUS
<1> USE DEF TypeOK, DriversOK, TasksOK
<1>1. CASE insert_flow_run
  <2>1. \A f \in Engines : dpc[f] = "idle"
    BY <1>1 DEF insert_flow_run, DriverInv
  <2>2. UNCHANGED <<dpc, todo, tpc>>
    BY <1>1 DEF insert_flow_run, drivers, tasks
  <2>3. \A t \in Steps : step_status'[t] \in {"none", "pending"}
    BY <1>1 DEF insert_flow_run
  <2>4. DependenciesFirst'
    BY <2>3 DEF DependenciesFirst
  <2>5. TodoInv'
    BY <2>1, <2>2, DepFacts DEF TodoInv, Tags
  <2>6. TaskInv'
    BY <2>1, <2>2 DEF TaskInv, QuietInv, Busy, Live
  <2>7. QED
    BY <2>4, <2>5, <2>6 DEF DepInv
<1>2. ASSUME NEW e \in Engines, claim_flow_run(e) PROVE DepInv'
  <2>1. step_status' = step_status
    BY <1>2 DEF claim_flow_run, ledger
  <2>2. ASSUME NEW f \in Engines, NEW t \in Steps, NEW k \in Tags, <<k, t>> \in todo'[f]
        PROVE  <<k, t>> \in todo[f] /\ dpc'[f] = "resolve" /\ ~Busy(f, t)'
    BY <1>2, <2>2, DepFacts DEF claim_flow_run, tasks, Busy
  <2>3. ASSUME NEW f \in Engines, NEW t \in Steps, tpc'[<<f, t>>] \in Live
        PROVE  step_status[t] \in {"pending", "running"} /\ DepsMet(t)
    BY <1>2, <2>3, DepFacts DEF claim_flow_run, tasks
  <2>4. QED
    BY <2>1, <2>2, <2>3, StillKeeps
<1>3. ASSUME NEW e \in Engines, drive_pass(e) PROVE DepInv'
  <2>1. dpc[e] = "read" /\ step_status' = step_status /\ tpc' = tpc
    BY <1>3 DEF drive_pass, ledger, tasks
  <2>2. \A f \in Engines : f # e => dpc'[f] = dpc[f] /\ todo'[f] = todo[f]
    BY <1>3 DEF drive_pass
  <2>3. DependenciesFirst' /\ \A t \in Steps : DepsMet(t)' = DepsMet(t)
    BY <2>1 DEF DepInv, DependenciesFirst, DepsMet
  <2>4. TaskInv'
    BY <2>1, <2>3 DEF DepInv, TaskInv
  <2>5. ASSUME NEW t \in Steps, NEW k \in Tags, <<k, t>> \in todo'[e]
        PROVE  /\ dpc'[e] = "resolve"
               /\ k \in {"go", "skip"} => Actionable(t) /\ k = IF DeadBranch(t) THEN "skip" ELSE "go"
               /\ k = "join" => step_status[t] = "expanded"
    <3>1. <<k, t>> \notin Undo
      BY DEF Undo, Tags
    <3>2. <<k, t>> \in Joins => k = "join" /\ step_status[t] = "expanded"
      BY DEF Joins, Joinable
    <3>3. <<k, t>> \in Resolutions =>
             Actionable(t) /\ k = IF DeadBranch(t) THEN "skip" ELSE "go"
      BY DEF Resolutions
    <3>4. /\ Phase = "resolve" /\ dpc'[e] = Phase
          /\ <<k, t>> \in Joins \/ <<k, t>> \in Resolutions
      BY <1>3, <2>5, <3>1 DEF drive_pass, Phase
    <3>5. QED
      BY <3>2, <3>3, <3>4
  <2>6. ASSUME NEW t \in Steps PROVE /\ ~Busy(e, t)'
                                     /\ Actionable(t) => step_status[t] = "pending"
                                     /\ Actionable(t) /\ ~DeadBranch(t) => DepsMet(t)
    BY <2>1 DEF QuietInv, Busy, Actionable, DeadBranch, DepsMet, Done
  <2>7. TodoInv'
    <3>1. ASSUME NEW f \in Engines, f # e, NEW t \in Steps, NEW k \in Tags
          PROVE <<k, t>> \notin todo'[f]
      BY <2>1, <2>2, <3>1, SoleDriver
    <3>2. ASSUME NEW t \in Steps
          PROVE  /\ \A k \in Tags : <<k, t>> \in todo'[e] => dpc'[e] = "resolve" /\ ~Busy(e, t)'
                 /\ \A k \in {"go", "skip"} : <<k, t>> \in todo'[e] => step_status'[t] = "pending"
                 /\ <<"go", t>> \in todo'[e] => DepsMet(t)' /\ <<"skip", t>> \notin todo'[e]
                 /\ <<"join", t>> \in todo'[e] => step_status'[t] = "expanded"
      BY <2>1, <2>3, <2>5, <2>6 DEF Tags
    <3>3. QED
      BY <3>1, <3>2 DEF TodoInv, Tags
  <2>8. QED
    BY <2>3, <2>4, <2>7 DEF DepInv
<1>4. ASSUME NEW e \in Engines, resolve(e) PROVE DepInv'
  <2>1. dpc[e] = "resolve" /\ UNCHANGED dpc
    BY <1>4 DEF resolve
  <2>2. PICK w \in todo[e] :
          /\ todo' = [todo EXCEPT ![e] = @ \ {w}]
          /\ \/ /\ \/ w[1] = "join" /\ finish_step(w[2], "succeeded")
                   \/ w[1] = "skip" /\ finish_step(w[2], "skipped")
                   \/ w[1] = "go" /\ finish_step(w[2], "skipped")
                   \/ w[1] = "go" /\ w[2] \in MapSteps /\ expand(w[2])
                /\ UNCHANGED tpc
             \/ w[1] = "go" /\ tpc' = [tpc EXCEPT ![<<e, w[2]>>] = "queued"] /\ UNCHANGED ledger
             \/ UNCHANGED <<ledger, tpc>>
    BY <1>4 DEF resolve
  <2>3. PICK kind \in {"join", "skip", "go", "undo"}, s \in Steps : w = <<kind, s>>
    BY DEF Work
  <2>4. \A f \in Engines, t \in Steps, k \in Tags : <<k, t>> \in todo'[f] =>
           <<k, t>> \in todo[f] /\ (f = e => <<k, t>> # w)
    BY <2>2
  <2>5. CASE UNCHANGED <<ledger, tpc>>
    <3>1. step_status' = step_status /\ UNCHANGED tpc
      BY <2>5 DEF ledger
    <3>2. QED
      BY <2>1, <2>4, <3>1, DepFacts, StillKeeps DEF Busy
  <2>6. ASSUME kind \in Tags, NEW t \in Steps, NEW k \in Tags, <<k, t>> \in todo'[e]
        PROVE  t # s
    BY <2>2, <2>3, <2>4, <2>6 DEF DepInv, TodoInv, Tags
  <2>7. CASE kind = "go" /\ tpc' = [tpc EXCEPT ![<<e, s>>] = "queued"] /\ UNCHANGED ledger
    <3>1. step_status' = step_status
      BY <2>7 DEF ledger
    <3>2. step_status[s] = "pending" /\ DepsMet(s)
      BY <2>2, <2>3, <2>7 DEF DepInv, TodoInv
    <3>3. ASSUME NEW f \in Engines, NEW t \in Steps, NEW k \in Tags, <<k, t>> \in todo'[f]
          PROVE  <<k, t>> \in todo[f] /\ dpc'[f] = "resolve" /\ ~Busy(f, t)'
      <4>1. <<f, t>> # <<e, s>>
        BY <2>6, <2>7, <3>3 DEF Tags
      <4>2. tpc'[<<f, t>>] = tpc[<<f, t>>]
        BY <2>7, <4>1
      <4>3. QED
        BY <2>1, <2>4, <3>3, <4>2, DepFacts DEF Busy
    <3>4. ASSUME NEW f \in Engines, NEW t \in Steps, tpc'[<<f, t>>] \in Live
          PROVE  step_status[t] \in {"pending", "running"} /\ DepsMet(t)
      BY <2>7, <3>2, <3>4, DepFacts
    <3>5. QED
      BY <3>1, <3>3, <3>4, StillKeeps
  <2>8. ASSUME kind \in Tags, UNCHANGED tpc, DependenciesFirst',
               \A t \in Steps : DepsMet(t) => DepsMet(t)',
               \A t \in Steps : t # s /\ step_status[t] # "none"
                                  => step_status'[t] = step_status[t]
        PROVE  DepInv'
    <3>1. \A f \in Engines, t \in Steps, k \in Tags : <<k, t>> \in todo'[f] =>
               <<k, t>> \in todo[f] /\ (f = e => t # s)
      BY <2>4, <2>6, <2>8
    <3>2. ~Busy(e, s)
      BY <2>2, <2>3, <2>8, DepFacts
    <3>3. \A f \in Engines, t \in Steps : Busy(f, t)' => Busy(f, t)
      BY <2>8 DEF Busy
    <3>4. \A f \in Engines, t \in Steps : tpc'[<<f, t>>] \in Live =>
              tpc[<<f, t>>] \in Live /\ (f = e /\ t = s => step_status'[s] = "running")
      BY <2>8, <3>2 DEF Busy, Live
    <3>5. QED
      BY <2>1, <2>8, <3>1, <3>3, <3>4, ChangeKeeps
  <2>9. kind \in Tags => /\ step_status[s] # "succeeded"
                         /\ kind \in {"join", "go"} => DepsMet(s)
    BY <2>2, <2>3 DEF DepInv, TodoInv, DependenciesFirst, DepsMet, Tags
  <2>10. ASSUME kind \in Tags, UNCHANGED tpc, NEW st \in {"succeeded", "failed", "skipped"},
                st # "skipped" => kind \in {"join", "go"}, finish_step(s, st)
         PROVE  DepInv'
    <3>1. step_status' = [step_status EXCEPT ![s] = st]
      BY <2>10 DEF finish_step
    <3>2. /\ DependenciesFirst'
          /\ \A t \in Steps : DepsMet(t) => DepsMet(t)'
          /\ \A t \in Steps : t # s => step_status'[t] = step_status[t]
      BY <2>9, <2>10, <3>1, MoveKeeps DEF StepStatuses, DepInv
    <3>3. QED
      BY <2>8, <2>10, <3>2
  <2>11. CASE kind = "go" /\ UNCHANGED tpc /\ expand(s)
    <3>1. CASE step_status' = [t \in Steps |->
                   IF t = s THEN "expanded"
                   ELSE IF t \in Kids[s] /\ step_status[t] = "none" THEN "pending"
                   ELSE step_status[t]]
      <4>1. kind \in Tags
        BY <2>11 DEF Tags
      <4>2. /\ DependenciesFirst'
            /\ \A t \in Steps : DepsMet(t) => DepsMet(t)'
            /\ \A t \in Steps : t # s /\ step_status[t] # "none"
                                  => step_status'[t] = step_status[t]
        BY <2>9, <2>11, <3>1, <4>1, FanoutKeeps DEF DepInv
      <4>3. QED
        BY <2>8, <2>11, <4>1, <4>2
    <3>2. QED
      BY <2>10, <2>11, <3>1 DEF expand, Tags
  <2>12. QED
    BY <2>2, <2>3, <2>5, <2>7, <2>10, <2>11 DEF Tags
<1>5. ASSUME NEW e \in Engines, spawn_batch(e) PROVE DepInv'
  <2>1. step_status' = step_status
    BY <1>5 DEF spawn_batch, ledger
  <2>2. ASSUME NEW f \in Engines, NEW t \in Steps, NEW k \in Tags, <<k, t>> \in todo'[f]
        PROVE  <<k, t>> \in todo[f] /\ dpc'[f] = "resolve" /\ ~Busy(f, t)'
    BY <1>5, <2>2, DepFacts DEF spawn_batch, tasks, Busy
  <2>3. ASSUME NEW f \in Engines, NEW t \in Steps, tpc'[<<f, t>>] \in Live
        PROVE  step_status[t] \in {"pending", "running"} /\ DepsMet(t)
    BY <1>5, <2>3, DepFacts DEF spawn_batch, tasks
  <2>4. QED
    BY <2>1, <2>2, <2>3, StillKeeps
<1>6. ASSUME NEW e \in Engines, batch_done(e) PROVE DepInv'
  <2>1. step_status' = step_status
    BY <1>6 DEF batch_done, ledger
  <2>2. ASSUME NEW f \in Engines, NEW t \in Steps, NEW k \in Tags, <<k, t>> \in todo'[f]
        PROVE  <<k, t>> \in todo[f] /\ dpc'[f] = "resolve" /\ ~Busy(f, t)'
    BY <1>6, <2>2, DepFacts DEF batch_done, tasks, Busy
  <2>3. ASSUME NEW f \in Engines, NEW t \in Steps, tpc'[<<f, t>>] \in Live
        PROVE  step_status[t] \in {"pending", "running"} /\ DepsMet(t)
    BY <1>6, <2>3, DepFacts DEF batch_done, tasks
  <2>4. QED
    BY <2>1, <2>2, <2>3, StillKeeps
<1>7. ASSUME NEW e \in Engines, finish_flow_run(e) PROVE DepInv'
  <2>1. step_status' = step_status
    BY <1>7 DEF finish_flow_run, ledger
  <2>2. ASSUME NEW f \in Engines, NEW t \in Steps, NEW k \in Tags, <<k, t>> \in todo'[f]
        PROVE  <<k, t>> \in todo[f] /\ dpc'[f] = "resolve" /\ ~Busy(f, t)'
    BY <1>7, <2>2, DepFacts DEF finish_flow_run, Unwound, tasks, Busy
  <2>3. ASSUME NEW f \in Engines, NEW t \in Steps, tpc'[<<f, t>>] \in Live
        PROVE  step_status[t] \in {"pending", "running"} /\ DepsMet(t)
    BY <1>7, <2>3, DepFacts DEF finish_flow_run, tasks
  <2>4. QED
    BY <2>1, <2>2, <2>3, StillKeeps
<1>8. ASSUME NEW e \in Engines, drive_err(e) PROVE DepInv'
  <2>1. step_status' = step_status
    BY <1>8 DEF drive_err, ledger
  <2>2. ASSUME NEW f \in Engines, NEW t \in Steps, NEW k \in Tags, <<k, t>> \in todo'[f]
        PROVE  <<k, t>> \in todo[f] /\ dpc'[f] = "resolve" /\ ~Busy(f, t)'
    BY <1>8, <2>2, DepFacts DEF drive_err, Unwound, tasks, Busy
  <2>3. ASSUME NEW f \in Engines, NEW t \in Steps, tpc'[<<f, t>>] \in Live
        PROVE  step_status[t] \in {"pending", "running"} /\ DepsMet(t)
    BY <1>8, <2>3, DepFacts DEF drive_err, tasks
  <2>4. QED
    BY <2>1, <2>2, <2>3, StillKeeps
<1>9. ASSUME NEW e \in Engines, NEW s \in Steps, run_step_short(e, s) PROVE DepInv'
  <2>1. step_status[s] \in {"pending", "running"} /\ DepsMet(s) /\ Busy(e, s) /\ dpc[e] # "idle"
    BY <1>9, DepFacts DEF run_step_short, QuietInv, Busy, Live

  <2>2. PICK st \in {"succeeded", "failed"} : finish_step(s, st)
    BY <1>9 DEF run_step_short
  <2>3. DepInv'
    <3>1. step_status' = [step_status EXCEPT ![s] = st]
      BY <2>2 DEF finish_step
    <3>2. /\ DependenciesFirst'
          /\ \A t \in Steps : DepsMet(t) => DepsMet(t)'
          /\ \A t \in Steps : t # s => step_status'[t] = step_status[t]
          /\ step_status'[s] = st
      BY <2>1, <3>1, MoveKeeps DEF StepStatuses, DepInv
    <3>3. ASSUME NEW f \in Engines, NEW t \in Steps, NEW k \in Tags, <<k, t>> \in todo'[f]
          PROVE  <<k, t>> \in todo[f] /\ (f = e => t # s)
      BY <1>9, <2>1, <3>3, DepFacts DEF run_step_short, drivers
    <3>4. ASSUME NEW f \in Engines, NEW t \in Steps
          PROVE  /\ tpc'[<<f, t>>] \in Live =>
                      tpc[<<f, t>>] \in Live /\ (f = e /\ t = s => step_status'[s] = "running")
                 /\ Busy(f, t)' => Busy(f, t)
      BY <1>9, <2>1, <2>2, <3>2 DEF run_step_short, End, Live, Busy
    <3>5. UNCHANGED dpc
      BY <1>9 DEF run_step_short, drivers
    <3>6. QED
      BY <2>1, <3>2, <3>3, <3>4, <3>5, ChangeKeeps
  <2>4. QED
    BY <2>3
<1>10. ASSUME NEW e \in Engines, NEW s \in Steps, run_step_insert(e, s) PROVE DepInv'
  <2>1. step_status' = step_status
    BY <1>10 DEF run_step_insert, ledger
  <2>2. ASSUME NEW f \in Engines, NEW t \in Steps, NEW k \in Tags, <<k, t>> \in todo'[f]
        PROVE  <<k, t>> \in todo[f] /\ dpc'[f] = "resolve" /\ ~Busy(f, t)'
    BY <1>10, <2>2, DepFacts DEF run_step_insert, drivers, Busy
  <2>3. ASSUME NEW f \in Engines, NEW t \in Steps, tpc'[<<f, t>>] \in Live
        PROVE  step_status[t] \in {"pending", "running"} /\ DepsMet(t)
    BY <1>10, <2>3, DepFacts DEF run_step_insert, Live
  <2>4. QED
    BY <2>1, <2>2, <2>3, StillKeeps
<1>11. ASSUME NEW e \in Engines, NEW s \in Steps, set_step_running(e, s) PROVE DepInv'
  <2>1. step_status[s] \in {"pending", "running"} /\ DepsMet(s) /\ Busy(e, s) /\ dpc[e] # "idle"
    BY <1>11, DepFacts DEF set_step_running, QuietInv, Busy, Live

  <2>2. CASE step_status' = [step_status EXCEPT ![s] = "running"]
    <3>2. /\ DependenciesFirst'
          /\ \A t \in Steps : DepsMet(t) => DepsMet(t)'
          /\ \A t \in Steps : t # s => step_status'[t] = step_status[t]
          /\ step_status'[s] = "running"
      BY <2>1, <2>2, MoveKeeps DEF StepStatuses, DepInv
    <3>3. ASSUME NEW f \in Engines, NEW t \in Steps, NEW k \in Tags, <<k, t>> \in todo'[f]
          PROVE  <<k, t>> \in todo[f] /\ (f = e => t # s)
      BY <1>11, <2>1, <3>3, DepFacts DEF set_step_running, drivers
    <3>4. ASSUME NEW f \in Engines, NEW t \in Steps
          PROVE  /\ tpc'[<<f, t>>] \in Live =>
                      tpc[<<f, t>>] \in Live /\ (f = e /\ t = s => step_status'[s] = "running")
                 /\ Busy(f, t)' => Busy(f, t)
      BY <1>11, <2>1, <2>2, <3>2 DEF set_step_running, Live, Busy
    <3>5. UNCHANGED dpc
      BY <1>11 DEF set_step_running, drivers
    <3>6. QED
      BY <2>1, <3>2, <3>3, <3>4, <3>5, ChangeKeeps
  <2>3. CASE step_status' = step_status
    <3>1. ASSUME NEW f \in Engines, NEW t \in Steps, NEW k \in Tags, <<k, t>> \in todo'[f]
          PROVE  <<k, t>> \in todo[f] /\ dpc'[f] = "resolve" /\ ~Busy(f, t)'
      BY <1>11, <2>1, <3>1, DepFacts DEF set_step_running, drivers, Busy
    <3>2. ASSUME NEW f \in Engines, NEW t \in Steps, tpc'[<<f, t>>] \in Live
          PROVE  step_status[t] \in {"pending", "running"} /\ DepsMet(t)
      BY <1>11, <2>1, <3>2, DepFacts DEF set_step_running, Live
    <3>3. QED
      BY <2>3, <3>1, <3>2, StillKeeps
  <2>4. QED
    BY <1>11, <2>2, <2>3 DEF set_step_running
<1>12. ASSUME NEW e \in Engines, NEW s \in Steps, exec_run(e, s) PROVE DepInv'
  <2>1. step_status' = step_status
    BY <1>12 DEF exec_run, ledger
  <2>2. ASSUME NEW f \in Engines, NEW t \in Steps, NEW k \in Tags, <<k, t>> \in todo'[f]
        PROVE  <<k, t>> \in todo[f] /\ dpc'[f] = "resolve" /\ ~Busy(f, t)'
    BY <1>12, <2>2, DepFacts DEF exec_run, drivers, Busy
  <2>3. ASSUME NEW f \in Engines, NEW t \in Steps, tpc'[<<f, t>>] \in Live
        PROVE  step_status[t] \in {"pending", "running"} /\ DepsMet(t)
    BY <1>12, <2>3, DepFacts DEF exec_run, Live
  <2>4. QED
    BY <2>1, <2>2, <2>3, StillKeeps
<1>13. ASSUME NEW e \in Engines, NEW s \in Steps, run_step_end(e, s) PROVE DepInv'
  <2>1. step_status[s] \in {"pending", "running"} /\ DepsMet(s) /\ Busy(e, s) /\ dpc[e] # "idle"
    BY <1>13, DepFacts DEF run_step_end, QuietInv, Busy, Live

  <2>2. ASSUME NEW st \in {"succeeded", "failed"}, finish_step(s, st), End(e, s) PROVE DepInv'
    <3>1. step_status' = [step_status EXCEPT ![s] = st]
      BY <2>2 DEF finish_step
    <3>2. /\ DependenciesFirst'
          /\ \A t \in Steps : DepsMet(t) => DepsMet(t)'
          /\ \A t \in Steps : t # s => step_status'[t] = step_status[t]
          /\ step_status'[s] = st
      BY <2>1, <3>1, MoveKeeps DEF StepStatuses, DepInv
    <3>3. ASSUME NEW f \in Engines, NEW t \in Steps, NEW k \in Tags, <<k, t>> \in todo'[f]
          PROVE  <<k, t>> \in todo[f] /\ (f = e => t # s)
      BY <1>13, <2>1, <3>3, DepFacts DEF run_step_end, drivers
    <3>4. ASSUME NEW f \in Engines, NEW t \in Steps
          PROVE  /\ tpc'[<<f, t>>] \in Live =>
                      tpc[<<f, t>>] \in Live /\ (f = e /\ t = s => step_status'[s] = "running")
                 /\ Busy(f, t)' => Busy(f, t)
      BY <1>13, <2>1, <2>2, <3>2 DEF run_step_end, End, Live, Busy
    <3>5. UNCHANGED dpc
      BY <1>13 DEF run_step_end, drivers
    <3>6. QED
      BY <2>1, <3>2, <3>3, <3>4, <3>5, ChangeKeeps
  <2>3. CASE step_status' = step_status
    <3>1. ASSUME NEW f \in Engines, NEW t \in Steps, NEW k \in Tags, <<k, t>> \in todo'[f]
          PROVE  <<k, t>> \in todo[f] /\ dpc'[f] = "resolve" /\ ~Busy(f, t)'
      BY <1>13, <2>1, <3>1, DepFacts DEF run_step_end, End, drivers, Busy
    <3>2. ASSUME NEW f \in Engines, NEW t \in Steps, tpc'[<<f, t>>] \in Live
          PROVE  step_status[t] \in {"pending", "running"} /\ DepsMet(t)
      BY <1>13, <2>1, <3>2, DepFacts DEF run_step_end, End, Live
    <3>3. QED
      BY <2>3, <3>1, <3>2, StillKeeps
  <2>4. QED
    BY <1>13, <2>2, <2>3 DEF run_step_end, ledger
<1>14. ASSUME NEW e \in Engines, NEW s \in Steps, compensate(e, s) PROVE DepInv'
  <2>1. step_status' = step_status
    BY <1>14 DEF compensate, ledger
  <2>2. ASSUME NEW f \in Engines, NEW t \in Steps, NEW k \in Tags, <<k, t>> \in todo'[f]
        PROVE  <<k, t>> \in todo[f] /\ dpc'[f] = "resolve" /\ ~Busy(f, t)'
    <3>1. <<k, t>> \in todo[f] /\ dpc[e] = "compensate" /\ UNCHANGED dpc
      BY <1>14, <2>2 DEF compensate
    <3>2. f # e
      BY <3>1, DepFacts
    <3>3. tpc'[<<f, t>>] = tpc[<<f, t>>]
      BY <1>14, <3>2 DEF compensate
    <3>4. QED
      BY <3>1, <3>3, DepFacts DEF Busy
  <2>3. ASSUME NEW f \in Engines, NEW t \in Steps, tpc'[<<f, t>>] \in Live
        PROVE  step_status[t] \in {"pending", "running"} /\ DepsMet(t)
    <3>1. tpc[<<f, t>>] \in Live
      BY <1>14, <2>3 DEF compensate, Live
    <3>2. QED
      BY <3>1, DepFacts
  <2>4. QED
    BY <2>1, <2>2, <2>3, StillKeeps
<1>15. ASSUME NEW e \in Engines, NEW s \in Steps, mark_step_compensated(e, s) PROVE DepInv'
  <2>1. step_status' = step_status
    BY <1>15 DEF mark_step_compensated
  <2>2. ASSUME NEW f \in Engines, NEW t \in Steps, NEW k \in Tags, <<k, t>> \in todo'[f]
        PROVE  <<k, t>> \in todo[f] /\ dpc'[f] = "resolve" /\ ~Busy(f, t)'
    BY <1>15, <2>2, DepFacts DEF mark_step_compensated, End, Busy
  <2>3. ASSUME NEW f \in Engines, NEW t \in Steps, tpc'[<<f, t>>] \in Live
        PROVE  step_status[t] \in {"pending", "running"} /\ DepsMet(t)
    BY <1>15, <2>3, DepFacts DEF mark_step_compensated, End, Live
  <2>4. QED
    BY <2>1, <2>2, <2>3, StillKeeps
<1>16. ASSUME NEW r \in Runs, worker_claim(r) PROVE DepInv'
  BY <1>16, FrameKeeps DEF worker_claim, ledger, drivers, tasks
<1>17. ASSUME NEW r \in Runs, worker_run(r) PROVE DepInv'
  BY <1>17, FrameKeeps DEF worker_run, ledger, drivers, tasks
<1>18. ASSUME NEW r \in Runs, worker_decide(r) PROVE DepInv'
  BY <1>18, FrameKeeps DEF worker_decide, ledger, drivers, tasks
<1>19. CASE lease_expires
  BY <1>19, FrameKeeps DEF lease_expires, ledger, drivers, tasks
<1>20. CASE reap_orphan_flow_runs
  BY <1>20, FrameKeeps DEF reap_orphan_flow_runs, ledger, drivers, tasks
<1>21. ASSUME NEW e \in Engines, touch_flow_run(e) PROVE DepInv'
  BY <1>21, FrameKeeps DEF touch_flow_run, ledger, drivers, tasks
<1>22. ASSUME NEW e \in Engines, crash(e) PROVE DepInv'
  <2>1. step_status' = step_status
    BY <1>22 DEF crash, ledger
  <2>2. ASSUME NEW f \in Engines, NEW t \in Steps, NEW k \in Tags, <<k, t>> \in todo'[f]
        PROVE  <<k, t>> \in todo[f] /\ dpc'[f] = "resolve" /\ ~Busy(f, t)'
    BY <1>22, <2>2, DepFacts DEF crash, Busy
  <2>3. ASSUME NEW f \in Engines, NEW t \in Steps, tpc'[<<f, t>>] \in Live
        PROVE  step_status[t] \in {"pending", "running"} /\ DepsMet(t)
    BY <1>22, <2>3, DepFacts DEF crash, Live
  <2>4. QED
    BY <2>1, <2>2, <2>3, StillKeeps
<1>23. ASSUME NEW e \in Engines, restart(e) PROVE DepInv'
  BY <1>23, FrameKeeps DEF restart, ledger, drivers, tasks
<1>24. CASE UNCHANGED vars
  BY <1>24, FrameKeeps DEF vars, ledger, drivers, tasks
<1>25. QED
  BY <1>1, <1>2, <1>3, <1>4, <1>5, <1>6, <1>7, <1>8, <1>9, <1>10, <1>11,
     <1>12, <1>13, <1>14, <1>15, <1>16, <1>17, <1>18, <1>19, <1>20, <1>21,
     <1>22, <1>23, <1>24 DEF Next, Driver, Task, Worker

\* A step starts only once all its dependencies succeeded, and they stay so: for
\* every DAG, batch order, map expansion, crash and resume.
THEOREM DependenciesFirstHolds == ASSUME MaxLapses = 0 PROVE Spec => []DependenciesFirst
<1>1. Init => DepInv
  BY DEF Init, DepInv, DependenciesFirst, TodoInv, TaskInv, Live
<1>2. TypeOK /\ DriverInv /\ QuietInv /\ DepInv /\ [Next]_vars => DepInv'
  BY DepStep
<1>3. DepInv => DependenciesFirst
  BY DEF DepInv
<1>4. QED
  BY <1>1, <1>2, <1>3, FlowTypeCorrect, DriverCorrect, QuietCorrect, PTL DEF Spec

-----------------------------------------------------------------------------
(* Maps: fan-out and join.                                                 *)

\* A child exists only once its map was expanded and is never skipped; a join is
\* decided only over children that all succeeded; a map step has no task.
KidInv ==
    /\ \A p \in MapSteps : \A c \in Kids[p] :
        /\ step_status[c] # "none" => step_status[p] \in {"expanded", "succeeded"}
        /\ step_status[c] # "skipped"
        /\ step_status[p] = "succeeded" => step_status[c] \in {"none", "succeeded"}
    /\ \A e \in Engines, s \in Steps :
        /\ tpc[<<e, s>>] \in Live => s \notin MapSteps
        /\ <<"join", s>> \in todo[e] =>
              s \in MapSteps /\ \A c \in Kids[s] : step_status[c] = "succeeded"
        /\ <<"skip", s>> \in todo[e] => s \notin Children

\* Children are steps, of one map each, and no maps themselves.
LEMMA KidFacts ==
    ASSUME NEW p \in MapSteps, NEW c \in Kids[p]
    PROVE  /\ p \in Steps /\ c \in Steps /\ c \in Children
           /\ c \notin MapSteps /\ p \notin Children /\ c # p
           /\ DependsOn[c] = DependsOn[p]
           /\ \A q \in MapSteps : c \in Kids[q] => q = p
  BY StepsAssumption DEF Children

\* A step that leaves the ledger alone and decides and spawns nothing.
LEMMA KidFrame ==
    ASSUME KidInv, step_status' = step_status,
           \A f \in Engines, t \in Steps, k \in Tags :
               <<k, t>> \in todo'[f] => <<k, t>> \in todo[f],
           \A f \in Engines, t \in Steps : tpc'[<<f, t>>] \in Live => tpc[<<f, t>>] \in Live
    PROVE  KidInv'
  BY DEF KidInv, Tags

\* An unfinished step moves on.
LEMMA KidMove ==
    ASSUME TypeOK, KidInv, NEW s \in Steps, NEW st \in StepStatuses,
           step_status' = [step_status EXCEPT ![s] = st],
           step_status[s] \in {"pending", "running", "expanded"},
           s \in MapSteps =>
               \/ st = "succeeded" /\ \A c \in Kids[s] : step_status[c] \in {"none", "succeeded"}
               \/ step_status[s] = "pending",
           st # "none", s \in Children => st # "skipped",
           \A f \in Engines, t \in Steps, k \in Tags :
               <<k, t>> \in todo'[f] => <<k, t>> \in todo[f],
           \A f \in Engines, t \in Steps : tpc'[<<f, t>>] \in Live => tpc[<<f, t>>] \in Live
    PROVE  KidInv'
<1>1. /\ \A t \in Steps : t # s => step_status'[t] = step_status[t]
      /\ step_status'[s] = st
  BY DEF TypeOK, LedgerOK
<1>2. ASSUME NEW p \in MapSteps, NEW c \in Kids[p]
      PROVE  /\ step_status'[c] # "none" => step_status'[p] \in {"expanded", "succeeded"}
             /\ step_status'[c] # "skipped"
             /\ step_status'[p] = "succeeded" => step_status'[c] \in {"none", "succeeded"}
  <2>1. /\ p \in Steps /\ c \in Steps /\ c \in Children /\ c # p
        /\ step_status[c] # "none" => step_status[p] \in {"expanded", "succeeded"}
        /\ step_status[c] # "skipped"
        /\ step_status[p] = "succeeded" => step_status[c] \in {"none", "succeeded"}
    BY KidFacts DEF KidInv
  <2>2. CASE s = p
    BY <1>1, <2>1, <2>2
  <2>3. CASE s = c
    BY <1>1, <2>1, <2>3
  <2>4. CASE s # p /\ s # c
    BY <1>1, <2>1, <2>4
  <2>5. QED
    BY <2>2, <2>3, <2>4
<1>3. ASSUME NEW f \in Engines, NEW t \in Steps
      PROVE  /\ tpc'[<<f, t>>] \in Live => t \notin MapSteps
             /\ <<"join", t>> \in todo'[f] =>
                   t \in MapSteps /\ \A c \in Kids[t] : step_status'[c] = "succeeded"
             /\ <<"skip", t>> \in todo'[f] => t \notin Children
  <2>1. ASSUME <<"join", t>> \in todo'[f], NEW c \in Kids[t]
        PROVE  t \in MapSteps /\ step_status'[c] = "succeeded"
    <3>1. t \in MapSteps /\ step_status[c] = "succeeded"
      BY <2>1 DEF KidInv, Tags
    <3>2. c \in Steps /\ c # s
      BY <3>1, KidFacts
    <3>3. QED
      BY <1>1, <3>1, <3>2
  <2>2. QED
    BY <2>1 DEF KidInv, Tags
<1>4. QED
  BY <1>2, <1>3 DEF KidInv

\* A map fans out.
LEMMA KidFanout ==
    ASSUME TypeOK, KidInv, NEW s \in MapSteps, step_status[s] = "pending",
           step_status' = [t \in Steps |->
             IF t = s THEN "expanded"
             ELSE IF t \in Kids[s] /\ step_status[t] = "none" THEN "pending"
             ELSE step_status[t]],
           \A f \in Engines, t \in Steps, k \in Tags :
               <<k, t>> \in todo'[f] => <<k, t>> \in todo[f],
           \A f \in Engines, t \in Steps : tpc'[<<f, t>>] \in Live => tpc[<<f, t>>] \in Live
    PROVE  KidInv'
<1>0. s \in Steps
  BY StepsAssumption
<1>1. /\ \A t \in Steps : t # s /\ t \notin Kids[s] => step_status'[t] = step_status[t]
      /\ \A t \in Kids[s] : step_status'[t] = "pending"
      /\ step_status'[s] = "expanded"
  BY <1>0, KidFacts DEF KidInv
<1>2. ASSUME NEW p \in MapSteps, NEW c \in Kids[p]
      PROVE  /\ step_status'[c] # "none" => step_status'[p] \in {"expanded", "succeeded"}
             /\ step_status'[c] # "skipped"
             /\ step_status'[p] = "succeeded" => step_status'[c] \in {"none", "succeeded"}
  <2>1. /\ p \in Steps /\ c \in Steps /\ c \notin MapSteps /\ c # p /\ p \notin Children
        /\ c \in Kids[s] => p = s
        /\ step_status[c] # "none" => step_status[p] \in {"expanded", "succeeded"}
        /\ step_status[c] # "skipped"
        /\ step_status[p] = "succeeded" => step_status[c] \in {"none", "succeeded"}
    BY KidFacts DEF KidInv
  <2>2. p \notin Kids[s]
    BY <2>1 DEF Children
  <2>3. CASE p = s
    BY <1>1, <2>1, <2>3
  <2>4. CASE p # s
    BY <1>1, <2>1, <2>2, <2>4
  <2>5. QED
    BY <2>3, <2>4
<1>3. ASSUME NEW f \in Engines, NEW t \in Steps
      PROVE  /\ tpc'[<<f, t>>] \in Live => t \notin MapSteps
             /\ <<"join", t>> \in todo'[f] =>
                   t \in MapSteps /\ \A c \in Kids[t] : step_status'[c] = "succeeded"
             /\ <<"skip", t>> \in todo'[f] => t \notin Children
  <2>1. ASSUME <<"join", t>> \in todo'[f], NEW c \in Kids[t]
        PROVE  t \in MapSteps /\ step_status'[c] = "succeeded"
    <3>1. t \in MapSteps /\ step_status[c] = "succeeded"
      BY <2>1 DEF KidInv, Tags
    <3>2. c \in Steps /\ c \notin MapSteps
      BY <3>1, KidFacts
    <3>3. c \notin Kids[s]
      BY <3>1 DEF KidInv
    <3>4. QED
      BY <1>1, <3>1, <3>2, <3>3
  <2>2. QED
    BY <2>1 DEF KidInv, Tags
<1>4. QED
  BY <1>2, <1>3 DEF KidInv

\* A step with a task of the batch is a plain unfinished step.
LEMMA TaskFacts ==
    ASSUME DepInv, KidInv, NEW e \in Engines, NEW s \in Steps, tpc[<<e, s>>] \in Live
    PROVE  s \notin MapSteps /\ step_status[s] \in {"pending", "running"}
  BY DEF DepInv, TaskInv, KidInv

\* Every action keeps KidInv.
LEMMA KidStep == TypeOK /\ DriverInv /\ QuietInv /\ DepInv /\ KidInv /\ [Next]_vars => KidInv'
<1> SUFFICES ASSUME TypeOK, DriverInv, QuietInv, DepInv, KidInv, [Next]_vars PROVE KidInv'
  OBVIOUS
<1> USE DEF TypeOK, DriversOK, TasksOK
<1>1. CASE insert_flow_run
  <2>1. \A f \in Engines : dpc[f] = "idle"
    BY <1>1 DEF insert_flow_run, DriverInv
  <2>2. UNCHANGED <<todo, tpc>>
    BY <1>1 DEF insert_flow_run, drivers, tasks
  <2>3. \A t \in Steps : step_status'[t] = IF t \in Children THEN "none" ELSE "pending"
    BY <1>1 DEF insert_flow_run
  <2>4. \A f \in Engines, t \in Steps, k \in Tags : <<k, t>> \notin todo[f]
    BY <2>1, DepFacts
  <2>5. \A p \in MapSteps : \A c \in Kids[p] :
           step_status'[c] = "none" /\ step_status'[p] = "pending"
    BY <2>3, KidFacts
  <2>6. QED
    BY <2>2, <2>4, <2>5 DEF KidInv, Tags
<1>2. ASSUME NEW e \in Engines, claim_flow_run(e) PROVE KidInv'
  BY <1>2, KidFrame DEF claim_flow_run, ledger, tasks
<1>3. ASSUME NEW e \in Engines, drive_pass(e) PROVE KidInv'
  <2>1. dpc[e] = "read" /\ step_status' = step_status /\ tpc' = tpc
    BY <1>3 DEF drive_pass, ledger, tasks
  <2>2. \A f \in Engines : f # e => todo'[f] = todo[f]
    BY <1>3 DEF drive_pass
  <2>3. ASSUME NEW t \in Steps, NEW k \in Tags, <<k, t>> \in todo'[e]
        PROVE  /\ k = "join" =>
                     t \in MapSteps /\ \A c \in Kids[t] : step_status[c] \in Done
               /\ k = "skip" => step_status[t] = "pending" /\ DeadBranch(t)
    <3>1. <<k, t>> \notin Undo
      BY DEF Undo, Tags
    <3>2. <<k, t>> \in Joins => k = "join" /\ t \in MapSteps
                                /\ \A c \in Kids[t] : step_status[c] \in Done
      BY DEF Joins, Joinable
    <3>3. <<k, t>> \in Resolutions =>
             k # "join" /\ (k = "skip" => step_status[t] = "pending" /\ DeadBranch(t))
      BY DEF Resolutions, Actionable
    <3>4. <<k, t>> \in Joins \/ <<k, t>> \in Resolutions
      BY <1>3, <2>3, <3>1 DEF drive_pass
    <3>5. QED
      BY <3>2, <3>3, <3>4
  <2>4. ASSUME NEW t \in Steps, <<"skip", t>> \in todo'[e] PROVE t \notin Children
    <3>1. step_status[t] = "pending" /\ DeadBranch(t)
      BY <2>3, <2>4 DEF Tags
    <3>2. SUFFICES ASSUME NEW p \in MapSteps, t \in Kids[p] PROVE FALSE
      BY DEF Children
    <3>3. step_status[p] \in {"expanded", "succeeded"} /\ p \in Steps /\ DependsOn[t] = DependsOn[p]
      BY <3>1, <3>2, KidFacts DEF KidInv
    <3>4. \A d \in DependsOn[t] : step_status[d] = "succeeded"
      BY <3>3 DEF DepInv, DependenciesFirst
    <3>5. QED
      BY <3>1, <3>4 DEF DeadBranch
  <2>5. ASSUME NEW t \in Steps, <<"join", t>> \in todo'[e]
        PROVE  t \in MapSteps /\ \A c \in Kids[t] : step_status[c] = "succeeded"
    <3>1. t \in MapSteps /\ \A c \in Kids[t] : step_status[c] \in Done
      BY <2>3, <2>5 DEF Tags
    <3>2. \A c \in Kids[t] : step_status[c] # "skipped"
      BY <3>1 DEF KidInv
    <3>3. QED
      BY <3>1, <3>2 DEF Done
  <2>6. ASSUME NEW f \in Engines, NEW t \in Steps
        PROVE  /\ <<"join", t>> \in todo'[f] =>
                     t \in MapSteps /\ \A c \in Kids[t] : step_status[c] = "succeeded"
               /\ <<"skip", t>> \in todo'[f] => t \notin Children
    BY <2>2, <2>4, <2>5 DEF KidInv
  <2>7. QED
    BY <2>1, <2>6 DEF KidInv
<1>4. ASSUME NEW e \in Engines, resolve(e) PROVE KidInv'
  <2>1. PICK w \in todo[e] :
          /\ todo' = [todo EXCEPT ![e] = @ \ {w}]
          /\ \/ /\ \/ w[1] = "join" /\ finish_step(w[2], "succeeded")
                   \/ w[1] = "skip" /\ finish_step(w[2], "skipped")
                   \/ w[1] = "go" /\ w[2] \in Gated /\ finish_step(w[2], "skipped")
                   \/ w[1] = "go" /\ w[2] \in MapSteps /\ expand(w[2])
                /\ UNCHANGED tpc
             \/ /\ w[1] = "go" /\ w[2] \notin MapSteps
                /\ tpc' = [tpc EXCEPT ![<<e, w[2]>>] = "queued"] /\ UNCHANGED ledger
             \/ UNCHANGED <<ledger, tpc>>
    BY <1>4 DEF resolve
  <2>2. PICK kind \in {"join", "skip", "go", "undo"}, s \in Steps : w = <<kind, s>>
    BY DEF Work
  <2>3. \A f \in Engines, t \in Steps, k \in Tags : <<k, t>> \in todo'[f] => <<k, t>> \in todo[f]
    BY <2>1
  <2>4. CASE UNCHANGED <<ledger, tpc>>
    BY <2>3, <2>4, KidFrame DEF ledger
  <2>5. CASE /\ kind = "go" /\ s \notin MapSteps
             /\ tpc' = [tpc EXCEPT ![<<e, s>>] = "queued"] /\ UNCHANGED ledger
    <3>1. \A f \in Engines, t \in Steps : tpc'[<<f, t>>] \in Live => t \notin MapSteps
      BY <2>5 DEF KidInv
    <3>2. step_status' = step_status
      BY <2>5 DEF ledger
    <3>3. QED
      BY <2>3, <3>1, <3>2 DEF KidInv, Tags
  <2>6. /\ kind \in {"go", "skip"} => step_status[s] = "pending"
        /\ kind = "join" => /\ step_status[s] = "expanded" /\ s \in MapSteps /\ s \notin Children
                            /\ \A c \in Kids[s] : step_status[c] = "succeeded"
        /\ kind = "skip" => s \notin Children
        /\ s \in Gated => s \notin Children
    BY <2>1, <2>2, KidFacts, StepsAssumption DEF DepInv, TodoInv, KidInv
  <2>7. CASE UNCHANGED tpc /\ kind = "join" /\ finish_step(s, "succeeded")
    <3>1. step_status' = [step_status EXCEPT ![s] = "succeeded"]
      BY <2>7 DEF finish_step
    <3>2. QED
      BY <2>3, <2>6, <2>7, <3>1, KidMove DEF StepStatuses
  <2>8. CASE UNCHANGED tpc /\ (kind = "skip" \/ (kind = "go" /\ s \in Gated))
             /\ finish_step(s, "skipped")
    <3>1. step_status' = [step_status EXCEPT ![s] = "skipped"]
      BY <2>8 DEF finish_step
    <3>2. QED
      BY <2>3, <2>6, <2>8, <3>1, KidMove DEF StepStatuses
  <2>9. CASE UNCHANGED tpc /\ kind = "go" /\ s \in MapSteps /\ expand(s)
    <3>1. ASSUME NEW st \in {"succeeded", "failed"}, finish_step(s, st) PROVE KidInv'
      <4>1. step_status' = [step_status EXCEPT ![s] = st]
        BY <3>1 DEF finish_step
      <4>2. QED
        BY <2>3, <2>6, <2>9, <4>1, KidMove DEF StepStatuses
    <3>2. CASE step_status' = [t \in Steps |->
                   IF t = s THEN "expanded"
                   ELSE IF t \in Kids[s] /\ step_status[t] = "none" THEN "pending"
                   ELSE step_status[t]]
      BY <2>3, <2>6, <2>9, <3>2, KidFanout
    <3>3. QED
      BY <2>9, <3>1, <3>2 DEF expand
  <2>10. QED
    BY <2>1, <2>2, <2>4, <2>5, <2>7, <2>8, <2>9
<1>5. ASSUME NEW e \in Engines, spawn_batch(e) PROVE KidInv'
  BY <1>5, KidFrame DEF spawn_batch, ledger, tasks
<1>6. ASSUME NEW e \in Engines, batch_done(e) PROVE KidInv'
  BY <1>6, KidFrame DEF batch_done, ledger, tasks
<1>7. ASSUME NEW e \in Engines, finish_flow_run(e) PROVE KidInv'
  BY <1>7, KidFrame DEF finish_flow_run, ledger, tasks
<1>8. ASSUME NEW e \in Engines, drive_err(e) PROVE KidInv'
  BY <1>8, KidFrame DEF drive_err, ledger, tasks
<1>9. ASSUME NEW e \in Engines, NEW s \in Steps, run_step_short(e, s) PROVE KidInv'
  <2>1. s \notin MapSteps /\ step_status[s] \in {"pending", "running"}
    BY <1>9, TaskFacts DEF run_step_short, Live
  <2>2. PICK st \in {"succeeded", "failed"} : finish_step(s, st)
    BY <1>9 DEF run_step_short
  <2>3. step_status' = [step_status EXCEPT ![s] = st]
    BY <2>2 DEF finish_step
  <2>4. \A f \in Engines, t \in Steps : tpc'[<<f, t>>] \in Live => tpc[<<f, t>>] \in Live
    BY <1>9 DEF run_step_short, End, Live
  <2>5. todo' = todo
    BY <1>9 DEF run_step_short, drivers
  <2>6. QED
    BY <2>1, <2>3, <2>4, <2>5, KidMove DEF StepStatuses
<1>10. ASSUME NEW e \in Engines, NEW s \in Steps, run_step_insert(e, s) PROVE KidInv'
  <2>1. \A f \in Engines, t \in Steps : tpc'[<<f, t>>] \in Live => tpc[<<f, t>>] \in Live
    BY <1>10 DEF run_step_insert, Live
  <2>2. QED
    BY <1>10, <2>1, KidFrame DEF run_step_insert, ledger, drivers
<1>11. ASSUME NEW e \in Engines, NEW s \in Steps, set_step_running(e, s) PROVE KidInv'
  <2>1. s \notin MapSteps /\ step_status[s] \in {"pending", "running"}
    BY <1>11, TaskFacts DEF set_step_running, Live
  <2>2. todo' = todo /\ \A f \in Engines, t \in Steps : tpc'[<<f, t>>] \in Live => tpc[<<f, t>>] \in Live
    BY <1>11 DEF set_step_running, Live, drivers
  <2>3. CASE step_status' = [step_status EXCEPT ![s] = "running"]
    BY <2>1, <2>2, <2>3, KidMove DEF StepStatuses
  <2>4. CASE step_status' = step_status
    BY <2>2, <2>4, KidFrame
  <2>5. QED
    BY <1>11, <2>3, <2>4 DEF set_step_running
<1>12. ASSUME NEW e \in Engines, NEW s \in Steps, exec_run(e, s) PROVE KidInv'
  <2>1. \A f \in Engines, t \in Steps : tpc'[<<f, t>>] \in Live => tpc[<<f, t>>] \in Live
    BY <1>12 DEF exec_run, Live
  <2>2. QED
    BY <1>12, <2>1, KidFrame DEF exec_run, ledger, drivers
<1>13. ASSUME NEW e \in Engines, NEW s \in Steps, run_step_end(e, s) PROVE KidInv'
  <2>1. s \notin MapSteps /\ step_status[s] \in {"pending", "running"}
    BY <1>13, TaskFacts DEF run_step_end, Live
  <2>2. todo' = todo /\ \A f \in Engines, t \in Steps : tpc'[<<f, t>>] \in Live => tpc[<<f, t>>] \in Live
    BY <1>13 DEF run_step_end, End, Live, drivers
  <2>3. ASSUME NEW st \in {"succeeded", "failed"}, finish_step(s, st) PROVE KidInv'
    <3>1. step_status' = [step_status EXCEPT ![s] = st]
      BY <2>3 DEF finish_step
    <3>2. QED
      BY <2>1, <2>2, <3>1, KidMove DEF StepStatuses
  <2>4. CASE step_status' = step_status
    BY <2>2, <2>4, KidFrame
  <2>5. QED
    BY <1>13, <2>3, <2>4 DEF run_step_end, ledger
<1>14. ASSUME NEW e \in Engines, NEW s \in Steps, compensate(e, s) PROVE KidInv'
  <2>1. \A f \in Engines, t \in Steps : tpc'[<<f, t>>] \in Live => tpc[<<f, t>>] \in Live
    BY <1>14 DEF compensate, Live
  <2>2. \A f \in Engines, t \in Steps, k \in Tags : <<k, t>> \in todo'[f] => <<k, t>> \in todo[f]
    BY <1>14 DEF compensate
  <2>3. step_status' = step_status
    BY <1>14 DEF compensate, ledger
  <2>4. QED
    BY <2>1, <2>2, <2>3, KidFrame
<1>15. ASSUME NEW e \in Engines, NEW s \in Steps, mark_step_compensated(e, s) PROVE KidInv'
  <2>1. \A f \in Engines, t \in Steps : tpc'[<<f, t>>] \in Live => tpc[<<f, t>>] \in Live
    BY <1>15 DEF mark_step_compensated, End, Live
  <2>2. QED
    BY <1>15, <2>1, KidFrame DEF mark_step_compensated
<1>16. ASSUME NEW r \in Runs, worker_claim(r) PROVE KidInv'
  BY <1>16, KidFrame DEF worker_claim, ledger, drivers, tasks
<1>17. ASSUME NEW r \in Runs, worker_run(r) PROVE KidInv'
  BY <1>17, KidFrame DEF worker_run, ledger, drivers, tasks
<1>18. ASSUME NEW r \in Runs, worker_decide(r) PROVE KidInv'
  BY <1>18, KidFrame DEF worker_decide, ledger, drivers, tasks
<1>19. CASE lease_expires
  BY <1>19, KidFrame DEF lease_expires, ledger, drivers, tasks
<1>20. CASE reap_orphan_flow_runs
  BY <1>20, KidFrame DEF reap_orphan_flow_runs, ledger, drivers, tasks
<1>21. ASSUME NEW e \in Engines, touch_flow_run(e) PROVE KidInv'
  BY <1>21, KidFrame DEF touch_flow_run, ledger, drivers, tasks
<1>22. ASSUME NEW e \in Engines, crash(e) PROVE KidInv'
  <2>1. \A f \in Engines, t \in Steps : tpc'[<<f, t>>] \in Live => tpc[<<f, t>>] \in Live
    BY <1>22 DEF crash, Live
  <2>2. \A f \in Engines, t \in Steps, k \in Tags : <<k, t>> \in todo'[f] => <<k, t>> \in todo[f]
    BY <1>22 DEF crash
  <2>3. QED
    BY <1>22, <2>1, <2>2, KidFrame DEF crash, ledger
<1>23. ASSUME NEW e \in Engines, restart(e) PROVE KidInv'
  BY <1>23, KidFrame DEF restart, ledger, drivers, tasks
<1>24. CASE UNCHANGED vars
  BY <1>24, KidFrame DEF vars, ledger, drivers, tasks
<1>25. QED
  BY <1>1, <1>2, <1>3, <1>4, <1>5, <1>6, <1>7, <1>8, <1>9, <1>10, <1>11,
     <1>12, <1>13, <1>14, <1>15, <1>16, <1>17, <1>18, <1>19, <1>20, <1>21,
     <1>22, <1>23, <1>24 DEF Next, Driver, Task, Worker

-----------------------------------------------------------------------------
(* The end of a flow.                                                      *)

\* The ledger starts with every step of the spec, and a driver about to report
\* success read every one of them done.
EndInv ==
    /\ flow = "absent" => \A s \in Steps : step_status[s] = "none"
    /\ flow # "absent" => \A s \in Steps \ Children : step_status[s] # "none"
    /\ \A e \in Engines : dpc[e] = "finish" =>
           \A s \in Steps \ Children : step_status[s] \in Done
    /\ SuccessComplete

Final == {"succeeded", "failed", "skipped"}

\* A step of the ledger that changes is an unfinished one, or its map expands.
LEMMA FinalStays ==
    TypeOK /\ DriverInv /\ QuietInv /\ DepInv /\ KidInv /\ EndInv /\ [Next]_vars
        => \A t \in Steps : /\ step_status[t] \in Final => step_status'[t] = step_status[t]
                            /\ step_status[t] # "none" => step_status'[t] # "none"
<1> SUFFICES ASSUME TypeOK, DriverInv, QuietInv, DepInv, KidInv, EndInv, [Next]_vars,
                    NEW t \in Steps
             PROVE  /\ step_status[t] \in Final => step_status'[t] = step_status[t]
                    /\ step_status[t] # "none" => step_status'[t] # "none"
  OBVIOUS
<1> DEFINE Kept == /\ step_status[t] \in Final => step_status'[t] = step_status[t]
                   /\ step_status[t] # "none" => step_status'[t] # "none"
<1>0. step_status \in [Steps -> StepStatuses]
  BY DEF TypeOK, LedgerOK
<1>00. ASSUME NEW s \in Steps, NEW st \in StepStatuses, st # "none",
              step_status[s] \notin Final, step_status' = [step_status EXCEPT ![s] = st]
       PROVE  Kept
  <2>1. CASE t = s
    BY <1>0, <1>00, <2>1
  <2>2. CASE t # s
    BY <1>0, <1>00, <2>2
  <2>3. QED
    BY <2>1, <2>2
<1>01. CASE step_status' = step_status
  BY <1>01
<1>1. CASE insert_flow_run
  BY <1>1 DEF insert_flow_run, EndInv, Final
<1>4. ASSUME NEW e \in Engines, resolve(e) PROVE Kept
  <2>1. PICK w \in todo[e] :
          \/ UNCHANGED ledger
          \/ w[1] \in Tags /\ \E st \in StepStatuses : st # "none" /\ finish_step(w[2], st)
          \/ w[1] = "go" /\ w[2] \in MapSteps /\ expand(w[2])
    BY <1>4 DEF resolve, Tags, StepStatuses
  <2>2. PICK kind \in {"join", "skip", "go", "undo"}, s \in Steps : w = <<kind, s>>
    BY DEF TypeOK, DriversOK, Work
  <2>3. kind \in Tags => step_status[s] \notin Final
    BY <2>1, <2>2 DEF DepInv, TodoInv, Tags, Final
  <2>4. CASE UNCHANGED ledger
    BY <1>01, <2>4 DEF ledger
  <2>5. ASSUME kind \in Tags, NEW st \in StepStatuses, st # "none", finish_step(s, st) PROVE Kept
    <3>1. step_status' = [step_status EXCEPT ![s] = st]
      BY <2>5 DEF finish_step
    <3>2. QED
      BY <1>00, <2>3, <2>5, <3>1
  <2>6. CASE kind = "go" /\ expand(s)
    <3>1. CASE step_status' = [u \in Steps |->
                   IF u = s THEN "expanded"
                   ELSE IF u \in Kids[s] /\ step_status[u] = "none" THEN "pending"
                   ELSE step_status[u]]
      <4>1. step_status[s] \notin Final
        BY <2>3, <2>6 DEF Tags
      <4>2. QED
        BY <3>1, <4>1 DEF Final
    <3>2. QED
      BY <2>5, <2>6, <3>1 DEF expand, Tags, StepStatuses
  <2>7. QED
    BY <2>1, <2>2, <2>4, <2>5, <2>6
<1>9. ASSUME NEW e \in Engines, NEW s \in Steps, run_step_short(e, s) PROVE Kept
  <2>1. step_status[s] \notin Final
    BY <1>9, TaskFacts DEF run_step_short, Live, Final
  <2>2. PICK st \in {"succeeded", "failed"} : finish_step(s, st)
    BY <1>9 DEF run_step_short
  <2>3. step_status' = [step_status EXCEPT ![s] = st]
    BY <2>2 DEF finish_step
  <2>4. QED
    BY <1>00, <2>1, <2>3 DEF StepStatuses
<1>11. ASSUME NEW e \in Engines, NEW s \in Steps, set_step_running(e, s) PROVE Kept
  <2>1. step_status[s] \notin Final
    BY <1>11, TaskFacts DEF set_step_running, Live, Final
  <2>2. CASE step_status' = [step_status EXCEPT ![s] = "running"]
    BY <1>00, <2>1, <2>2 DEF StepStatuses
  <2>3. QED
    BY <1>01, <1>11, <2>2 DEF set_step_running
<1>13. ASSUME NEW e \in Engines, NEW s \in Steps, run_step_end(e, s) PROVE Kept
  <2>1. step_status[s] \notin Final
    BY <1>13, TaskFacts DEF run_step_end, Live, Final
  <2>2. ASSUME NEW st \in {"succeeded", "failed"}, finish_step(s, st) PROVE Kept
    <3>1. step_status' = [step_status EXCEPT ![s] = st]
      BY <2>2 DEF finish_step
    <3>2. QED
      BY <1>00, <2>1, <3>1 DEF StepStatuses
  <2>3. QED
    BY <1>01, <1>13, <2>2 DEF run_step_end, ledger
<1>14. ASSUME NEW e \in Engines,
              \/ claim_flow_run(e) \/ drive_pass(e) \/ spawn_batch(e) \/ batch_done(e)
              \/ finish_flow_run(e) \/ drive_err(e)
              \/ touch_flow_run(e) \/ crash(e) \/ restart(e)
       PROVE  Kept
  BY <1>01, <1>14 DEF claim_flow_run, drive_pass, spawn_batch, batch_done, finish_flow_run,
     drive_err, touch_flow_run, crash, restart, ledger
<1>15. ASSUME NEW e \in Engines, NEW s \in Steps,
              \/ run_step_insert(e, s) \/ exec_run(e, s) \/ compensate(e, s)
              \/ mark_step_compensated(e, s)
       PROVE  Kept
  BY <1>01, <1>15 DEF run_step_insert, exec_run, compensate, mark_step_compensated, ledger
<1>16. ASSUME NEW r \in Runs, Worker(r) PROVE Kept
  BY <1>01, <1>16 DEF Worker, worker_claim, worker_run, worker_decide, ledger
<1>17. CASE lease_expires \/ reap_orphan_flow_runs \/ UNCHANGED vars
  BY <1>01, <1>17 DEF lease_expires, reap_orphan_flow_runs, vars, ledger
<1>18. Kept
  BY <1>1, <1>4, <1>9, <1>11, <1>13, <1>14, <1>15, <1>16, <1>17 DEF Next, Driver, Task
<1>19. QED
  BY <1>18

\* A driver at work on a batch or a rollback: the flow is running, nobody ends it.
LEMMA EndWork ==
    ASSUME DriverInv, EndInv, NEW e \in Engines, dpc[e] \in {"resolve", "wait", "compensate"},
           UNCHANGED <<flow, dpc>>,
           \A t \in Steps : step_status[t] # "none" => step_status'[t] # "none"
    PROVE  EndInv'
<1>1. flow = "running" /\ \A f \in Engines : dpc[f] # "finish"
  BY DEF DriverInv, DriverExclusive
<1>2. QED
  BY <1>1 DEF EndInv, SuccessComplete

\* What leaves the ledger alone and neither starts nor decides to end the flow.
LEMMA EndFrame ==
    ASSUME EndInv, step_status' = step_status, flow' = "absent" <=> flow = "absent",
           flow' = "succeeded" => flow = "succeeded",
           \A f \in Engines : dpc'[f] = "finish" => dpc[f] = "finish"
    PROVE  EndInv'
  BY DEF EndInv, SuccessComplete

\* Every action keeps EndInv.
LEMMA EndStep ==
    TypeOK /\ DriverInv /\ QuietInv /\ DepInv /\ KidInv /\ EndInv /\ [Next]_vars => EndInv'
<1> SUFFICES ASSUME TypeOK, DriverInv, QuietInv, DepInv, KidInv, EndInv, [Next]_vars
             PROVE  EndInv'
  OBVIOUS
<1> USE DEF TypeOK, DriversOK
<1>0. \A t \in Steps : step_status[t] # "none" => step_status'[t] # "none"
  BY FinalStays
<1>1. CASE insert_flow_run
  <2>1. \A f \in Engines : dpc[f] = "idle"
    BY <1>1 DEF insert_flow_run, DriverInv
  <2>2. flow' = "pending" /\ dpc' = dpc
    BY <1>1 DEF insert_flow_run, drivers
  <2>3. \A s \in Steps \ Children : step_status'[s] = "pending"
    BY <1>1 DEF insert_flow_run
  <2>4. QED
    BY <2>1, <2>2, <2>3 DEF EndInv, SuccessComplete
<1>2. ASSUME NEW e \in Engines, claim_flow_run(e) PROVE EndInv'
  BY <1>2, EndFrame DEF claim_flow_run, ledger
<1>3. ASSUME NEW e \in Engines, drive_pass(e) PROVE EndInv'
  <2>1. step_status' = step_status /\ flow' = flow /\ flow = "running"
    BY <1>3 DEF drive_pass, ledger, DriverInv
  <2>2. \A f \in Engines : dpc'[f] = IF f = e THEN Phase ELSE dpc[f]
    BY <1>3 DEF drive_pass
  <2>3. ASSUME Phase = "finish", NEW s \in Steps \ Children PROVE step_status[s] \in Done
    <3>1. step_status[s] \notin {"none", "pending", "running", "expanded", "failed"}
      BY <2>1, <2>3 DEF EndInv, Phase, Unfinished
    <3>2. step_status[s] \in StepStatuses
      BY DEF LedgerOK
    <3>3. QED
      BY <3>1, <3>2 DEF StepStatuses, Done
  <2>4. QED
    BY <2>1, <2>2, <2>3 DEF EndInv, SuccessComplete
<1>4. ASSUME NEW e \in Engines, resolve(e) PROVE EndInv'
  BY <1>0, <1>4, EndWork DEF resolve, flowVars
<1>5. ASSUME NEW e \in Engines, spawn_batch(e) PROVE EndInv'
  BY <1>5, EndFrame DEF spawn_batch, ledger, flowVars
<1>6. ASSUME NEW e \in Engines, batch_done(e) PROVE EndInv'
  BY <1>6, EndFrame DEF batch_done, ledger, flowVars
<1>7. ASSUME NEW e \in Engines, finish_flow_run(e) PROVE EndInv'
  <2>1. step_status' = step_status /\ dpc' = [dpc EXCEPT ![e] = "idle"]
    BY <1>7 DEF finish_flow_run, ledger
  <2>2. flow = "running" /\ flow' # "absent"
    BY <1>7 DEF finish_flow_run, Unwound, DriverInv
  <2>3. flow' = "succeeded" => dpc[e] = "finish"
    BY <1>7 DEF finish_flow_run
  <2>4. QED
    BY <2>1, <2>2, <2>3 DEF EndInv, SuccessComplete
<1>8. ASSUME NEW e \in Engines, drive_err(e) PROVE EndInv'
  <2>1. flow = "running"
    BY <1>8 DEF drive_err, Unwound, DriverInv
  <2>2. QED
    BY <1>8, <2>1, EndFrame DEF drive_err, ledger
<1>9. ASSUME NEW e \in Engines, NEW s \in Steps, Task(e, s) PROVE EndInv'
  <2>1. Busy(e, s) \/ compensate(e, s)
    BY <1>9 DEF Task, run_step_short, run_step_insert, set_step_running, exec_run,
       run_step_end, mark_step_compensated, Busy
  <2>2. dpc[e] \in {"resolve", "wait", "compensate"}
    BY <2>1 DEF QuietInv, compensate
  <2>3. UNCHANGED <<flow, dpc>>
    BY <1>9 DEF Task, run_step_short, run_step_insert, set_step_running, exec_run,
       run_step_end, compensate, mark_step_compensated, flowVars, drivers
  <2>4. QED
    BY <1>0, <2>2, <2>3, EndWork
<1>16. ASSUME NEW r \in Runs, Worker(r) PROVE EndInv'
  BY <1>16, EndFrame DEF Worker, worker_claim, worker_run, worker_decide, ledger, drivers, flowVars
<1>19. CASE lease_expires
  BY <1>19, EndFrame DEF lease_expires, ledger, drivers
<1>20. CASE reap_orphan_flow_runs
  BY <1>20, EndFrame DEF reap_orphan_flow_runs, ledger, drivers
<1>21. ASSUME NEW e \in Engines, touch_flow_run(e) \/ restart(e) PROVE EndInv'
  BY <1>21, EndFrame DEF touch_flow_run, restart, ledger, drivers, flowVars
<1>22. ASSUME NEW e \in Engines, crash(e) PROVE EndInv'
  BY <1>22, EndFrame DEF crash, ledger, flowVars
<1>24. CASE UNCHANGED vars
  BY <1>24, EndFrame DEF vars, ledger, drivers, flowVars
<1>25. QED
  BY <1>1, <1>2, <1>3, <1>4, <1>5, <1>6, <1>7, <1>8, <1>9, <1>16, <1>19, <1>20,
     <1>21, <1>22, <1>24 DEF Next, Driver

\* All that is known of the ledger while no lease lapses under a driver.
LedgerInv == TypeOK /\ DriverInv /\ QuietInv /\ DepInv /\ KidInv /\ EndInv

\* The ledger invariants hold together.
THEOREM LedgerCorrect == ASSUME MaxLapses = 0 PROVE Spec => []LedgerInv
<1>1. Init => DepInv /\ KidInv /\ EndInv
  BY KidFacts
     DEF Init, DepInv, DependenciesFirst, TodoInv, TaskInv, Live, KidInv, EndInv,
         SuccessComplete
<1>2. TypeOK /\ DriverInv /\ QuietInv /\ DepInv /\ [Next]_vars => DepInv'
  BY DepStep
<1>3. TypeOK /\ DriverInv /\ QuietInv /\ DepInv /\ KidInv /\ [Next]_vars => KidInv'
  BY KidStep
<1>4. TypeOK /\ DriverInv /\ QuietInv /\ DepInv /\ KidInv /\ EndInv /\ [Next]_vars => EndInv'
  BY EndStep
<1>5. QED
  BY <1>1, <1>2, <1>3, <1>4, FlowTypeCorrect, DriverCorrect, QuietCorrect, PTL
     DEF Spec, LedgerInv

\* A map step that fanned out succeeds only after every child did: for every
\* map, fan-out, crash and resume.
THEOREM JoinCompleteHolds == ASSUME MaxLapses = 0 PROVE Spec => []JoinComplete
<1>1. LedgerInv => JoinComplete
  BY DEF LedgerInv, KidInv, JoinComplete
<1>2. QED
  BY <1>1, LedgerCorrect, PTL

\* A flow reported succeeded has every step of its spec succeeded or skipped.
THEOREM SuccessCompleteHolds == ASSUME MaxLapses = 0 PROVE Spec => []SuccessComplete
<1>1. LedgerInv => SuccessComplete
  BY DEF LedgerInv, EndInv
<1>2. QED
  BY <1>1, LedgerCorrect, PTL

-----------------------------------------------------------------------------
(* The rollback.                                                           *)

Undoing == {"undo", "undone"}
Failing == \E s \in Steps : step_status[s] = "failed"

\* Batches and rollbacks never overlap: a rollback is under way, or has left a
\* mark, only when a step has failed, and from then on no pass builds a batch.
PhaseInv ==
    /\ compensated # {} => Failing
    /\ \A e \in Engines :
        /\ dpc[e] = "compensate" => Failing
        /\ dpc[e] \in {"resolve", "wait"} => compensated = {}
    /\ \A e \in Engines, s \in Steps :
        /\ tpc[<<e, s>>] \in Live => dpc[e] \in {"resolve", "wait"}
        /\ tpc[<<e, s>>] \in Undoing => dpc[e] = "compensate"
        /\ <<"undo", s>> \in todo[e] => dpc[e] = "compensate"

\* A step already failed stays so.
LEMMA FailingStays == LedgerInv /\ [Next]_vars => (Failing => Failing')
<1> SUFFICES ASSUME LedgerInv, [Next]_vars, NEW s \in Steps, step_status[s] = "failed"
             PROVE  Failing'
  BY DEF Failing
<1>1. step_status'[s] = "failed"
  BY FinalStays DEF LedgerInv, Final
<1>2. QED
  BY <1>1 DEF Failing

\* What leaves every driver where it is and marks nothing.
LEMMA PhaseFrame ==
    ASSUME PhaseInv, Failing => Failing', UNCHANGED <<compensated, dpc>>,
           \A f \in Engines, t \in Steps :
               /\ tpc'[<<f, t>>] \in Live => dpc[f] \in {"resolve", "wait"}
               /\ tpc'[<<f, t>>] \in Undoing => dpc[f] = "compensate"
               /\ <<"undo", t>> \in todo'[f] => <<"undo", t>> \in todo[f]
    PROVE  PhaseInv'
  BY DEF PhaseInv

\* A driver that comes to rest, with nothing spawned and nothing to roll back.
LEMMA PhaseRest ==
    ASSUME PhaseInv, Failing => Failing', UNCHANGED compensated,
           NEW e \in Engines, dpc'[e] \in {"idle", "read"},
           \A t \in Steps : tpc'[<<e, t>>] = "idle" /\ <<"undo", t>> \notin todo'[e],
           \A f \in Engines : f # e =>
               /\ dpc'[f] = dpc[f] /\ todo'[f] = todo[f]
               /\ \A t \in Steps : tpc'[<<f, t>>] = tpc[<<f, t>>]
    PROVE  PhaseInv'
<1>1. ASSUME NEW f \in Engines
      PROVE  /\ dpc'[f] = "compensate" => Failing'
             /\ dpc'[f] \in {"resolve", "wait"} => compensated = {}
             /\ \A t \in Steps :
                   /\ tpc'[<<f, t>>] \in Live => dpc'[f] \in {"resolve", "wait"}
                   /\ tpc'[<<f, t>>] \in Undoing => dpc'[f] = "compensate"
                   /\ <<"undo", t>> \in todo'[f] => dpc'[f] = "compensate"
  <2>1. CASE f = e
    BY <2>1 DEF Live, Undoing
  <2>2. CASE f # e
    BY <2>2 DEF PhaseInv
  <2>3. QED
    BY <2>1, <2>2
<1>2. QED
  BY <1>1 DEF PhaseInv

\* Every action keeps PhaseInv.
LEMMA PhaseStep == LedgerInv /\ PhaseInv /\ [Next]_vars => PhaseInv'
<1> SUFFICES ASSUME LedgerInv, PhaseInv, [Next]_vars PROVE PhaseInv'
  OBVIOUS
<1> USE DEF LedgerInv, TypeOK, DriversOK, TasksOK
<1>0. Failing => Failing'
  BY FailingStays
<1>00. ASSUME NEW f \in Engines, NEW t \in Steps
       PROVE  /\ tpc[<<f, t>>] \in Live => dpc[f] \in {"resolve", "wait"}
              /\ tpc[<<f, t>>] \in Undoing => dpc[f] = "compensate"
              /\ <<"undo", t>> \in todo[f] => dpc[f] = "compensate"
              /\ tpc[<<f, t>>] # "idle" => dpc[f] \in {"resolve", "wait", "compensate"}
  BY DEF PhaseInv, QuietInv, Busy
<1>1. CASE insert_flow_run
  BY <1>0, <1>00, <1>1, PhaseFrame DEF insert_flow_run, drivers, tasks
<1>2. ASSUME NEW e \in Engines, claim_flow_run(e) PROVE PhaseInv'
  BY <1>0, <1>00, <1>2, PhaseRest DEF claim_flow_run, ledger, tasks
<1>3. ASSUME NEW e \in Engines, drive_pass(e) PROVE PhaseInv'
  <2>1. dpc[e] = "read" /\ step_status' = step_status /\ tpc' = tpc /\ compensated' = compensated
    BY <1>3 DEF drive_pass, ledger, tasks
  <2>2. \A f \in Engines : f # e => dpc'[f] = dpc[f] /\ todo'[f] = todo[f]
    BY <1>3 DEF drive_pass
  <2>3. dpc'[e] = Phase /\ (Phase = "compensate" => Failing)
        /\ (Phase \in {"resolve", "wait"} => ~Failing)
    BY <1>3 DEF drive_pass, Phase, Failing
  <2>4. Failing' <=> Failing
    BY <2>1 DEF Failing
  <2>5. ASSUME NEW t \in Steps, <<"undo", t>> \in todo'[e] PROVE Phase = "compensate"
    BY <1>3, <2>5 DEF drive_pass, Joins, Resolutions
  <2>6. \A t \in Steps : tpc'[<<e, t>>] = "idle"
    BY <1>00, <2>1
  <2>7. ASSUME NEW f \in Engines
        PROVE  /\ dpc'[f] = "compensate" => Failing'
               /\ dpc'[f] \in {"resolve", "wait"} => compensated = {}
               /\ \A t \in Steps :
                     /\ tpc'[<<f, t>>] \in Live => dpc'[f] \in {"resolve", "wait"}
                     /\ tpc'[<<f, t>>] \in Undoing => dpc'[f] = "compensate"
                     /\ <<"undo", t>> \in todo'[f] => dpc'[f] = "compensate"
    <3>1. CASE f = e
      BY <2>3, <2>4, <2>5, <2>6, <3>1 DEF Live, Undoing, PhaseInv
    <3>2. CASE f # e
      BY <1>00, <2>1, <2>2, <2>4, <3>2 DEF PhaseInv
    <3>3. QED
      BY <3>1, <3>2
  <2>8. QED
    BY <2>1, <2>4, <2>7 DEF PhaseInv
<1>4. ASSUME NEW e \in Engines, resolve(e) PROVE PhaseInv'
  <2>1. dpc[e] = "resolve" /\ UNCHANGED dpc
    BY <1>4 DEF resolve
  <2>2. PICK w \in todo[e] :
          /\ todo' = [todo EXCEPT ![e] = @ \ {w}]
          /\ \/ \E st \in StepStatuses : finish_step(w[2], st) /\ UNCHANGED tpc
             \/ expand(w[2]) /\ UNCHANGED tpc
             \/ tpc' = [tpc EXCEPT ![<<e, w[2]>>] = "queued"] /\ UNCHANGED ledger
             \/ UNCHANGED <<ledger, tpc>>
    BY <1>4 DEF resolve, StepStatuses
  <2>3. compensated' = compensated
    BY <2>2 DEF finish_step, expand, ledger
  <2>4. ASSUME NEW f \in Engines, NEW t \in Steps
        PROVE  tpc'[<<f, t>>] = tpc[<<f, t>>] \/ (f = e /\ tpc'[<<f, t>>] = "queued")
    BY <2>2
  <2>5. ASSUME NEW f \in Engines, NEW t \in Steps
        PROVE  /\ tpc'[<<f, t>>] \in Live => dpc[f] \in {"resolve", "wait"}
               /\ tpc'[<<f, t>>] \in Undoing => dpc[f] = "compensate"
    BY <1>00, <2>1, <2>4 DEF Live, Undoing
  <2>6. \A f \in Engines, t \in Steps : <<"undo", t>> \in todo'[f] => <<"undo", t>> \in todo[f]
    BY <2>2
  <2>7. QED
    BY <1>0, <2>1, <2>3, <2>5, <2>6, PhaseFrame
<1>5. ASSUME NEW e \in Engines, spawn_batch(e) PROVE PhaseInv'
  <2>1. UNCHANGED <<step_status, compensated, todo, tpc>> /\ dpc[e] = "resolve"
    BY <1>5 DEF spawn_batch, ledger, tasks
  <2>2. CASE \E s \in Steps : Busy(e, s)
    <3>1. \A f \in Engines : dpc'[f] = IF f = e THEN "wait" ELSE dpc[f]
      BY <1>5, <2>2 DEF spawn_batch
    <3>2. Failing' <=> Failing
      BY <2>1 DEF Failing
    <3>3. QED
      BY <1>00, <2>1, <3>1, <3>2 DEF PhaseInv
  <2>3. CASE ~\E s \in Steps : Busy(e, s)
    <3>1. dpc' = [dpc EXCEPT ![e] = "read"]
      BY <1>5, <2>3 DEF spawn_batch
    <3>2. \A t \in Steps : tpc[<<e, t>>] = "idle" /\ <<"undo", t>> \notin todo[e]
      BY <1>00, <2>1, <2>3 DEF Busy
    <3>3. QED
      BY <1>0, <2>1, <3>1, <3>2, PhaseRest
  <2>4. QED
    BY <2>2, <2>3
<1>6. ASSUME NEW e \in Engines, batch_done(e) PROVE PhaseInv'
  BY <1>0, <1>00, <1>6, PhaseRest DEF batch_done, ledger, tasks, Busy
<1>7. ASSUME NEW e \in Engines, finish_flow_run(e) PROVE PhaseInv'
  <2>1. \A t \in Steps : tpc[<<e, t>>] = "idle" /\ <<"undo", t>> \notin todo[e]
    BY <1>00, <1>7 DEF finish_flow_run, Unwound, Busy
  <2>2. QED
    BY <1>0, <1>7, <2>1, PhaseRest DEF finish_flow_run, ledger, tasks
<1>8. ASSUME NEW e \in Engines, drive_err(e) PROVE PhaseInv'
  <2>1. \A t \in Steps : tpc[<<e, t>>] = "idle" /\ <<"undo", t>> \notin todo[e]
    BY <1>00, <1>8 DEF drive_err, Unwound, Busy
  <2>2. QED
    BY <1>0, <1>8, <2>1, PhaseRest DEF drive_err, ledger, tasks
<1>9. ASSUME NEW e \in Engines, NEW s \in Steps,
             \/ run_step_short(e, s) \/ run_step_insert(e, s) \/ set_step_running(e, s)
             \/ exec_run(e, s) \/ run_step_end(e, s)
      PROVE  PhaseInv'
  <2>1. UNCHANGED <<compensated, dpc, todo>>
    BY <1>9 DEF run_step_short, run_step_insert, set_step_running, exec_run, run_step_end,
       finish_step, drivers, ledger
  <2>2. PICK pc \in {"idle", "queued", "inserted", "exec", "ran", "undo", "undone"} :
          /\ tpc' = [tpc EXCEPT ![<<e, s>>] = pc]
          /\ pc \in Live => tpc[<<e, s>>] \in Live
          /\ pc \in Undoing => tpc[<<e, s>>] \in Undoing
    BY <1>9 DEF run_step_short, run_step_insert, set_step_running, exec_run, run_step_end,
       End, Live, Undoing
  <2>3. ASSUME NEW f \in Engines, NEW t \in Steps
        PROVE  /\ tpc'[<<f, t>>] \in Live => dpc[f] \in {"resolve", "wait"}
               /\ tpc'[<<f, t>>] \in Undoing => dpc[f] = "compensate"
    BY <1>00, <2>2
  <2>4. QED
    BY <1>0, <2>1, <2>3, PhaseFrame
<1>14. ASSUME NEW e \in Engines, NEW s \in Steps, compensate(e, s) PROVE PhaseInv'
  <2>1. UNCHANGED <<compensated, dpc>> /\ dpc[e] = "compensate"
    BY <1>14 DEF compensate, ledger
  <2>2. ASSUME NEW f \in Engines, NEW t \in Steps
        PROVE  tpc'[<<f, t>>] = tpc[<<f, t>>] \/ (f = e /\ tpc'[<<f, t>>] = "undo")
    BY <1>14 DEF compensate
  <2>3. ASSUME NEW f \in Engines, NEW t \in Steps
        PROVE  /\ tpc'[<<f, t>>] \in Live => dpc[f] \in {"resolve", "wait"}
               /\ tpc'[<<f, t>>] \in Undoing => dpc[f] = "compensate"
    BY <1>00, <2>1, <2>2 DEF Live, Undoing
  <2>4. \A f \in Engines, t \in Steps : <<"undo", t>> \in todo'[f] => <<"undo", t>> \in todo[f]
    BY <1>14 DEF compensate
  <2>5. QED
    BY <1>0, <2>1, <2>3, <2>4, PhaseFrame
<1>15. ASSUME NEW e \in Engines, NEW s \in Steps, mark_step_compensated(e, s) PROVE PhaseInv'
  <2>1. UNCHANGED <<dpc, todo, step_status>> /\ tpc' = [tpc EXCEPT ![<<e, s>>] = "idle"]
        /\ tpc[<<e, s>>] = "undone"
    BY <1>15 DEF mark_step_compensated, End
  <2>2. dpc[e] = "compensate" /\ Failing
    BY <1>00, <2>1 DEF PhaseInv, Undoing
  <2>3. \A f \in Engines : dpc[f] \notin {"resolve", "wait"}
    BY <2>2 DEF DriverInv, DriverExclusive
  <2>4. ASSUME NEW f \in Engines, NEW t \in Steps
        PROVE  /\ tpc'[<<f, t>>] \in Live => dpc[f] \in {"resolve", "wait"}
               /\ tpc'[<<f, t>>] \in Undoing => dpc[f] = "compensate"
    BY <1>00, <2>1 DEF Live, Undoing
  <2>5. QED
    BY <1>0, <1>00, <2>1, <2>2, <2>3, <2>4 DEF PhaseInv
<1>16. ASSUME NEW r \in Runs, Worker(r) PROVE PhaseInv'
  BY <1>0, <1>00, <1>16, PhaseFrame
     DEF Worker, worker_claim, worker_run, worker_decide, ledger, drivers, tasks
<1>19. CASE lease_expires \/ reap_orphan_flow_runs
  BY <1>0, <1>00, <1>19, PhaseFrame
     DEF lease_expires, reap_orphan_flow_runs, ledger, drivers, tasks
<1>21. ASSUME NEW e \in Engines, touch_flow_run(e) \/ restart(e) PROVE PhaseInv'
  BY <1>0, <1>00, <1>21, PhaseFrame DEF touch_flow_run, restart, ledger, drivers, tasks
<1>22. ASSUME NEW e \in Engines, crash(e) PROVE PhaseInv'
  BY <1>0, <1>22, PhaseRest DEF crash, ledger
<1>24. CASE UNCHANGED vars
  BY <1>0, <1>00, <1>24, PhaseFrame DEF vars, ledger, drivers, tasks
<1>25. QED
  BY <1>1, <1>2, <1>3, <1>4, <1>5, <1>6, <1>7, <1>8, <1>9, <1>14, <1>15, <1>16, <1>19,
     <1>21, <1>22, <1>24 DEF Next, Driver, Task

\* While no statement failed: a rollback under way has every succeeded compensable
\* step marked, still to do or being undone, undoes one step at a time, and what is
\* still to do finished no later.
UndoInv ==
    /\ budget["fault"] <= MaxFaults
    /\ LedgerReachable =>
        /\ \A e \in Engines, t \in Compensable :
            dpc[e] = "compensate" /\ step_status[t] = "succeeded" =>
                t \in compensated \/ <<"undo", t>> \in todo[e] \/ tpc[<<e, t>>] \in Undoing
        /\ \A e \in Engines, s, t \in Steps :
            tpc[<<e, s>>] \in Undoing =>
                /\ <<"undo", t>> \in todo[e] => finished_at[t] <= finished_at[s]
                /\ tpc[<<e, t>>] \in Undoing => t = s
    /\ UnwoundInReverse /\ RollbackAttempted

\* A spent fault is a fault met: from then on nothing is claimed.
LEMMA UndoFault ==
    ASSUME TypeOK, UndoInv, Spend("fault")
    PROVE  UndoInv'
<1>1. budget["fault"] \in Nat /\ budget'["fault"] = budget["fault"] - 1
  BY DEF TypeOK, FlowOK, Spend
<1>2. budget'["fault"] <= MaxFaults /\ budget'["fault"] # MaxFaults
  BY <1>1, BoundsAssumption DEF UndoInv
<1>3. ~LedgerReachable'
  BY <1>1, <1>2, BoundsAssumption DEF LedgerReachable, FaultsMet
<1>4. QED
  BY <1>2, <1>3 DEF UndoInv, UnwoundInReverse, RollbackAttempted

\* While a driver works on a batch there is no rollback to speak of.
LEMMA UndoBatch ==
    ASSUME UndoInv, budget'["fault"] = budget["fault"], DriverInv', PhaseInv',
           NEW e \in Engines, dpc'[e] \in {"resolve", "wait"}
    PROVE  UndoInv'
<1>1. \A f \in Engines : dpc'[f] # "compensate"
  BY DEF DriverInv, DriverExclusive
<1>2. compensated' = {} /\ \A f \in Engines, t \in Steps : tpc'[<<f, t>>] \notin Undoing
  BY <1>1 DEF PhaseInv
<1>3. flow' = "running"
  BY DEF DriverInv
<1>4. QED
  BY <1>1, <1>2, <1>3 DEF UndoInv, UnwoundInReverse, RollbackAttempted

\* What leaves the ledger and every rollback under way alone.
LEMMA UndoFrame ==
    ASSUME UndoInv, budget'["fault"] = budget["fault"], PhaseInv',
           UNCHANGED <<step_status, finished_at, compensated>>,
           flow' \in {"failed", "compensation_failed"} => flow' = flow,
           \A f \in Engines : dpc'[f] = "compensate" =>
               /\ dpc[f] = "compensate" /\ todo'[f] = todo[f]
               /\ \A t \in Steps : tpc'[<<f, t>>] \in Undoing <=> tpc[<<f, t>>] \in Undoing
    PROVE  UndoInv'
<1>1. budget'["fault"] <= MaxFaults /\ LedgerReachable' = LedgerReachable
  BY DEF UndoInv, LedgerReachable, FaultsMet
<1>2. UnwoundInReverse' /\ RollbackAttempted'
  BY <1>1 DEF UndoInv, UnwoundInReverse, RollbackAttempted
<1>3. ASSUME LedgerReachable, NEW f \in Engines, NEW t \in Compensable,
             dpc'[f] = "compensate", step_status'[t] = "succeeded"
      PROVE  t \in compensated' \/ <<"undo", t>> \in todo'[f] \/ tpc'[<<f, t>>] \in Undoing
  BY <1>3, StepsAssumption DEF UndoInv
<1>4. ASSUME LedgerReachable, NEW f \in Engines, NEW s \in Steps, NEW t \in Steps,
             tpc'[<<f, s>>] \in Undoing
      PROVE  /\ <<"undo", t>> \in todo'[f] => finished_at'[t] <= finished_at'[s]
             /\ tpc'[<<f, t>>] \in Undoing => t = s
  <2>1. dpc'[f] = "compensate"
    BY <1>4 DEF PhaseInv
  <2>2. QED
    BY <1>4, <2>1 DEF UndoInv
<1>5. QED
  BY <1>1, <1>2, <1>3, <1>4 DEF UndoInv

\* Every action keeps UndoInv.
LEMMA UndoStep ==
    LedgerInv /\ PhaseInv /\ UndoInv /\ [Next]_vars /\ LedgerInv' /\ PhaseInv' => UndoInv'
<1> SUFFICES ASSUME LedgerInv, PhaseInv, UndoInv, [Next]_vars, LedgerInv', PhaseInv'
             PROVE  UndoInv'
  OBVIOUS
<1> USE DEF LedgerInv, TypeOK, DriversOK, TasksOK
<1>0. DriverInv /\ DriverInv' /\ (Spend("fault") => UndoInv')
  BY UndoFault
<1>1. CASE insert_flow_run
  <2>1. UNCHANGED <<finished_at, compensated, dpc, todo, tpc, budget>> /\ flow' = "pending"
    BY <1>1 DEF insert_flow_run, drivers, tasks
  <2>2. \A f \in Engines : dpc[f] = "idle"
    BY <1>1 DEF insert_flow_run, DriverInv
  <2>3. \A f \in Engines, t \in Steps : tpc[<<f, t>>] \notin Undoing
    BY <2>2 DEF PhaseInv
  <2>4. compensated = {}
    <3>1. \A s \in Steps : step_status[s] = "none"
      BY <1>1 DEF insert_flow_run, EndInv
    <3>2. QED
      BY <3>1 DEF PhaseInv, Failing
  <2>5. QED
    BY <2>1, <2>2, <2>3, <2>4 DEF UndoInv, UnwoundInReverse, RollbackAttempted, LedgerReachable, FaultsMet
<1>2. ASSUME NEW e \in Engines, claim_flow_run(e) PROVE UndoInv'
  <2>1. UNCHANGED <<step_status, finished_at, compensated, todo, tpc, budget>>
        /\ flow' = "running" /\ dpc' = [dpc EXCEPT ![e] = "read"]
    BY <1>2 DEF claim_flow_run, ledger, tasks
  <2>2. QED
    BY <2>1, UndoFrame
<1>3. ASSUME NEW e \in Engines, drive_pass(e) PROVE UndoInv'
  <2>1. UNCHANGED <<step_status, finished_at, compensated, tpc, budget, flow>>
        /\ dpc[e] = "read" /\ dpc' = [dpc EXCEPT ![e] = Phase]
    BY <1>3 DEF drive_pass, ledger, tasks
  <2>2. \A f \in Engines : f # e => dpc'[f] = dpc[f] /\ todo'[f] = todo[f]
    BY <1>3 DEF drive_pass
  <2>3. CASE Phase # "compensate"
    BY <2>1, <2>2, <2>3, UndoFrame
  <2>4. CASE Phase = "compensate"
    <3>1. todo'[e] = Undo /\ flow = "running"
      BY <1>3, <2>4 DEF drive_pass, DriverInv
    <3>2. \A f \in Engines, t \in Steps : tpc'[<<f, t>>] \notin Undoing
      BY <2>1 DEF PhaseInv, DriverInv, DriverExclusive
    <3>3. \A f \in Engines : dpc'[f] = "compensate" => f = e
      BY <2>1 DEF DriverInv, DriverExclusive
    <3>4. ASSUME NEW t \in Compensable, step_status[t] = "succeeded", t \notin compensated
          PROVE  <<"undo", t>> \in Undo
      BY <3>4 DEF Undo
    <3>5. LedgerReachable' = LedgerReachable
      BY <2>1 DEF LedgerReachable, FaultsMet
    <3>6. UnwoundInReverse' /\ RollbackAttempted' /\ budget'["fault"] <= MaxFaults
      BY <2>1, <3>1, <3>5 DEF UndoInv, UnwoundInReverse, RollbackAttempted
    <3>7. QED
      BY <2>1, <3>1, <3>2, <3>3, <3>4, <3>6 DEF UndoInv
  <2>5. QED
    BY <2>3, <2>4
<1>4. ASSUME NEW e \in Engines, resolve(e) PROVE UndoInv'
  <2>1. dpc'[e] = "resolve"
    BY <1>4 DEF resolve
  <2>2. Spend("fault") \/ UNCHANGED budget
    BY <1>4 DEF resolve
  <2>3. QED
    BY <1>0, <2>1, <2>2, UndoBatch
<1>5. ASSUME NEW e \in Engines, spawn_batch(e) PROVE UndoInv'
  <2>1. UNCHANGED <<step_status, finished_at, compensated, todo, tpc, budget, flow>>
    BY <1>5 DEF spawn_batch, ledger, tasks, flowVars
  <2>2. \A f \in Engines : dpc'[f] = "compensate" => dpc[f] = "compensate"
    BY <1>5 DEF spawn_batch
  <2>3. QED
    BY <2>1, <2>2, UndoFrame
<1>6. ASSUME NEW e \in Engines, batch_done(e) PROVE UndoInv'
  <2>1. UNCHANGED <<step_status, finished_at, compensated, todo, tpc, budget, flow>>
    BY <1>6 DEF batch_done, ledger, tasks, flowVars
  <2>2. \A f \in Engines : dpc'[f] = "compensate" => dpc[f] = "compensate"
    BY <1>6 DEF batch_done
  <2>3. QED
    BY <2>1, <2>2, UndoFrame
<1>7. ASSUME NEW e \in Engines, finish_flow_run(e) PROVE UndoInv'
  <2>1. UNCHANGED <<step_status, finished_at, compensated, todo, tpc, budget>>
        /\ dpc' = [dpc EXCEPT ![e] = "idle"]
    BY <1>7 DEF finish_flow_run, ledger, tasks
  <2>2. CASE flow' = "succeeded"
    BY <2>1, <2>2, UndoFrame
  <2>3. CASE Unwound(e)
    <3>1. ASSUME LedgerReachable, NEW t \in Compensable, step_status[t] = "succeeded"
          PROVE  t \in compensated
      <4>1. dpc[e] = "compensate" /\ <<"undo", t>> \notin todo[e]
        BY <2>3 DEF Unwound
      <4>2. t \in Steps
        BY StepsAssumption
      <4>3. tpc[<<e, t>>] \notin Undoing
        BY <2>3, <4>2 DEF Unwound, Busy, Undoing
      <4>4. QED
        BY <3>1, <4>1, <4>3 DEF UndoInv
    <3>2. LedgerReachable' = LedgerReachable
      BY <2>1 DEF LedgerReachable, FaultsMet
    <3>3. \A f \in Engines : dpc'[f] # "compensate"
      BY <2>1, <2>3 DEF Unwound, DriverInv, DriverExclusive
    <3>4. \A f \in Engines, t \in Steps : tpc'[<<f, t>>] \notin Undoing
      BY <3>3 DEF PhaseInv
    <3>5. UnwoundInReverse' /\ RollbackAttempted'
      BY <2>1, <3>1, <3>2 DEF UndoInv, UnwoundInReverse, RollbackAttempted
    <3>6. QED
      BY <2>1, <3>3, <3>4, <3>5 DEF UndoInv
  <2>4. QED
    BY <1>7, <2>2, <2>3 DEF finish_flow_run
<1>8. ASSUME NEW e \in Engines, drive_err(e) PROVE UndoInv'
  BY <1>0, <1>8 DEF drive_err
<1>9. ASSUME NEW e \in Engines, NEW s \in Steps, run_step_short(e, s) PROVE UndoInv'
  <2>1. dpc'[e] = "wait" /\ (Spend("fault") \/ UNCHANGED budget)
    BY <1>9 DEF run_step_short, drivers
  <2>2. QED
    BY <1>0, <2>1, UndoBatch
<1>10. ASSUME NEW e \in Engines, NEW s \in Steps, run_step_insert(e, s) PROVE UndoInv'
  <2>1. dpc'[e] = "wait" /\ UNCHANGED budget
    BY <1>10 DEF run_step_insert, drivers
  <2>2. QED
    BY <1>0, <2>1, UndoBatch
<1>11. ASSUME NEW e \in Engines, NEW s \in Steps, set_step_running(e, s) PROVE UndoInv'
  <2>1. dpc'[e] \in {"resolve", "wait"} /\ (Spend("fault") \/ UNCHANGED budget)
    BY <1>11 DEF set_step_running, drivers, PhaseInv, Live
  <2>2. QED
    BY <1>0, <2>1, UndoBatch
<1>12. ASSUME NEW e \in Engines, NEW s \in Steps, exec_run(e, s) PROVE UndoInv'
  <2>1. UNCHANGED <<step_status, finished_at, compensated, todo, flow, dpc>>
        /\ (Spend("fault") \/ UNCHANGED budget)
    BY <1>12 DEF exec_run, ledger, drivers, flowVars
  <2>2. \A f \in Engines, t \in Steps : tpc'[<<f, t>>] \in Undoing <=> tpc[<<f, t>>] \in Undoing
    BY <1>12 DEF exec_run, Undoing
  <2>3. QED
    BY <1>0, <2>1, <2>2, UndoFrame
<1>13. ASSUME NEW e \in Engines, NEW s \in Steps, run_step_end(e, s) PROVE UndoInv'
  <2>1. dpc'[e] \in {"resolve", "wait"} /\ (Spend("fault") \/ UNCHANGED budget)
    BY <1>13 DEF run_step_end, Faulty, drivers, PhaseInv, Live
  <2>2. QED
    BY <1>0, <2>1, UndoBatch
<1>14. ASSUME NEW e \in Engines, NEW s \in Steps, compensate(e, s) PROVE UndoInv'
  <2>1. CASE Spend("fault")
    BY <1>0, <2>1
  <2>2. CASE tpc' = [tpc EXCEPT ![<<e, s>>] = "undo"] /\ UNCHANGED budget
    <3>1. UNCHANGED <<step_status, finished_at, compensated, flow, dpc>> /\ dpc[e] = "compensate"
          /\ todo' = [todo EXCEPT ![e] = @ \ {<<"undo", s>>}] /\ Latest(e, s)
          /\ \A t \in Steps : tpc[<<e, t>>] = "idle"
      BY <1>14 DEF compensate, ledger, flowVars, Busy
    <3>2. LedgerReachable' = LedgerReachable
      BY <2>2 DEF LedgerReachable, FaultsMet
    <3>3. UnwoundInReverse' /\ RollbackAttempted' /\ budget'["fault"] <= MaxFaults
      BY <2>2, <3>1, <3>2 DEF UndoInv, UnwoundInReverse, RollbackAttempted
    <3>4. \A f \in Engines : f # e => dpc[f] = "idle"
      BY <3>1 DEF DriverInv, DriverExclusive
    <3>5. ASSUME LedgerReachable, NEW f \in Engines, NEW t \in Compensable,
                 dpc'[f] = "compensate", step_status'[t] = "succeeded"
          PROVE  t \in compensated' \/ <<"undo", t>> \in todo'[f] \/ tpc'[<<f, t>>] \in Undoing
      <4>1. f = e /\ t \in Steps
        BY <3>1, <3>4, <3>5, StepsAssumption
      <4>2. t \in compensated \/ <<"undo", t>> \in todo[e]
        BY <3>1, <3>5, <4>1 DEF UndoInv, Undoing
      <4>3. CASE t = s
        BY <2>2, <4>1, <4>3 DEF Undoing
      <4>4. CASE t # s
        BY <3>1, <4>1, <4>2, <4>4
      <4>5. QED
        BY <4>3, <4>4
    <3>6. ASSUME NEW f \in Engines, NEW u \in Steps, NEW t \in Steps, tpc'[<<f, u>>] \in Undoing
          PROVE  /\ <<"undo", t>> \in todo'[f] => finished_at'[t] <= finished_at'[u]
                 /\ tpc'[<<f, t>>] \in Undoing => t = u
      <4>1. f = e
        BY <3>1, <3>4, <3>6 DEF PhaseInv
      <4>2. u = s /\ (tpc'[<<f, t>>] \in Undoing => t = s)
        BY <2>2, <3>1, <3>6, <4>1 DEF Undoing
      <4>3. <<"undo", t>> \in todo[e] => finished_at[t] <= finished_at[s]
        BY <3>1 DEF Latest
      <4>4. QED
        BY <3>1, <4>1, <4>2, <4>3
    <3>7. QED
      BY <3>2, <3>3, <3>5, <3>6 DEF UndoInv
  <2>3. QED
    BY <1>14, <2>1, <2>2 DEF compensate
<1>15. ASSUME NEW e \in Engines, NEW s \in Steps, mark_step_compensated(e, s) PROVE UndoInv'
  <2>1. UNCHANGED <<step_status, finished_at, flow, dpc, todo>> /\ tpc[<<e, s>>] = "undone"
        /\ tpc' = [tpc EXCEPT ![<<e, s>>] = "idle"]
        /\ (Spend("fault") \/ (UNCHANGED budget /\ compensated' = compensated \cup {s}))
    BY <1>15 DEF mark_step_compensated, End, Faulty, Marked, flowVars
  <2>2. CASE UNCHANGED budget /\ compensated' = compensated \cup {s}
    <3>1. dpc[e] = "compensate" /\ \A f \in Engines : f # e => dpc[f] = "idle"
      <4>1. dpc[e] = "compensate"
        BY <2>1 DEF PhaseInv, Undoing
      <4>2. \A f \in Engines : f # e => dpc[f] = "idle"
        BY <1>0, <4>1 DEF DriverInv, DriverExclusive
      <4>3. QED
        BY <4>1, <4>2
    <3>2. LedgerReachable' = LedgerReachable
      BY <2>2 DEF LedgerReachable, FaultsMet
    <3>3. ASSUME LedgerReachable, NEW f \in Engines, NEW t \in Compensable,
                 dpc'[f] = "compensate", step_status'[t] = "succeeded"
          PROVE  t \in compensated' \/ <<"undo", t>> \in todo'[f] \/ tpc'[<<f, t>>] \in Undoing
      <4>1. f = e /\ t \in Steps
        BY <2>1, <3>1, <3>3, StepsAssumption
      <4>2. t \in compensated \/ <<"undo", t>> \in todo[e] \/ tpc[<<e, t>>] \in Undoing
        BY <2>1, <3>1, <3>3, <4>1 DEF UndoInv
      <4>3. CASE t = s
        BY <2>2, <4>3
      <4>4. CASE t # s
        BY <2>1, <2>2, <4>1, <4>2, <4>4
      <4>5. QED
        BY <4>3, <4>4
    <3>4. ASSUME LedgerReachable, NEW f \in Engines, NEW u \in Steps, NEW t \in Steps,
                 tpc'[<<f, u>>] \in Undoing
          PROVE  /\ <<"undo", t>> \in todo'[f] => finished_at'[t] <= finished_at'[u]
                 /\ tpc'[<<f, t>>] \in Undoing => t = u
      <4>1. \A v \in Steps : tpc'[<<f, v>>] \in Undoing => tpc[<<f, v>>] \in Undoing
        BY <2>1 DEF Undoing
      <4>2. QED
        BY <2>1, <3>4, <4>1 DEF UndoInv
    <3>5. ASSUME LedgerReachable, NEW t \in Compensable, step_status[t] = "succeeded",
                 finished_at[t] > finished_at[s], t \notin compensated
          PROVE  FALSE
      <4>1. t \in Steps /\ finished_at[t] \in Nat /\ finished_at[s] \in Nat
        BY StepsAssumption DEF LedgerOK
      <4>2. <<"undo", t>> \in todo[e] \/ tpc[<<e, t>>] \in Undoing
        BY <3>1, <3>5 DEF UndoInv
      <4>3. /\ <<"undo", t>> \in todo[e] => finished_at[t] <= finished_at[s]
            /\ tpc[<<e, t>>] \in Undoing => t = s
        BY <2>1, <3>5, <4>1 DEF UndoInv, Undoing
      <4>4. QED
        BY <3>5, <4>1, <4>2, <4>3
    <3>6. UnwoundInReverse'
      <4> SUFFICES ASSUME LedgerReachable, NEW u \in Compensable, NEW t \in Compensable,
                          u \in compensated', step_status[t] = "succeeded",
                          finished_at[t] > finished_at[u]
                   PROVE  t \in compensated'
        BY <2>1, <3>2 DEF UnwoundInReverse
      <4>1. CASE u \in compensated
        BY <2>2, <4>1 DEF UndoInv, UnwoundInReverse
      <4>2. CASE u = s
        BY <2>2, <3>5, <4>2
      <4>3. QED
        BY <2>2, <4>1, <4>2
    <3>7. RollbackAttempted'
      BY <2>1, <2>2, <3>2 DEF UndoInv, RollbackAttempted
    <3>8. QED
      BY <2>2, <3>2, <3>3, <3>4, <3>6, <3>7 DEF UndoInv
  <2>3. QED
    BY <1>0, <2>1, <2>2
<1>16. ASSUME NEW r \in Runs, Worker(r) PROVE UndoInv'
  <2>1. UNCHANGED <<step_status, finished_at, compensated, flow, dpc, todo, tpc, budget>>
    BY <1>16 DEF Worker, worker_claim, worker_run, worker_decide, ledger, drivers, tasks, flowVars
  <2>2. QED
    BY <2>1, UndoFrame
<1>19. CASE lease_expires
  <2>1. UNCHANGED <<step_status, finished_at, compensated, flow, dpc, todo, tpc>>
    BY <1>19 DEF lease_expires, ledger, drivers, tasks
  <2>2. budget'["fault"] = budget["fault"]
    BY <1>19 DEF lease_expires, Spend, FlowOK
  <2>3. QED
    BY <2>1, <2>2, UndoFrame
<1>20. CASE reap_orphan_flow_runs
  <2>1. UNCHANGED <<step_status, finished_at, compensated, dpc, todo, tpc, budget>>
        /\ flow' = "pending"
    BY <1>20 DEF reap_orphan_flow_runs, ledger, drivers, tasks
  <2>2. QED
    BY <2>1, UndoFrame
<1>21. ASSUME NEW e \in Engines, touch_flow_run(e) \/ restart(e) PROVE UndoInv'
  <2>1. UNCHANGED <<step_status, finished_at, compensated, flow, dpc, todo, tpc, budget>>
    BY <1>21 DEF touch_flow_run, restart, ledger, drivers, tasks, flowVars
  <2>2. QED
    BY <2>1, UndoFrame
<1>22. ASSUME NEW e \in Engines, crash(e) PROVE UndoInv'
  <2>1. UNCHANGED <<step_status, finished_at, compensated, flow>>
    BY <1>22 DEF crash, ledger, flowVars
  <2>2. budget'["fault"] = budget["fault"]
    BY <1>22 DEF crash, Spend, FlowOK
  <2>3. ASSUME NEW f \in Engines, dpc'[f] = "compensate"
        PROVE  /\ dpc[f] = "compensate" /\ todo'[f] = todo[f]
               /\ \A t \in Steps : tpc'[<<f, t>>] \in Undoing <=> tpc[<<f, t>>] \in Undoing
    BY <1>22, <2>3 DEF crash
  <2>4. QED
    BY <2>1, <2>2, <2>3, UndoFrame
<1>24. CASE UNCHANGED vars
  <2>1. UNCHANGED <<step_status, finished_at, compensated, flow, dpc, todo, tpc, budget>>
    BY <1>24 DEF vars, ledger, drivers, tasks, flowVars
  <2>2. QED
    BY <2>1, UndoFrame
<1>25. QED
  BY <1>1, <1>2, <1>3, <1>4, <1>5, <1>6, <1>7, <1>8, <1>9, <1>10, <1>11, <1>12, <1>13,
     <1>14, <1>15, <1>16, <1>19, <1>20, <1>21, <1>22, <1>24 DEF Next, Driver, Task

\* The rollback invariants hold while no lease lapses under a driver.
THEOREM UndoCorrect == ASSUME MaxLapses = 0 PROVE Spec => []UndoInv
<1>1. Init => PhaseInv /\ UndoInv
  BY BoundsAssumption
     DEF Init, PhaseInv, UndoInv, UnwoundInReverse, RollbackAttempted, Live, Undoing
<1>2. LedgerInv /\ PhaseInv /\ [Next]_vars => PhaseInv'
  BY PhaseStep
<1>3. LedgerInv /\ PhaseInv /\ UndoInv /\ [Next]_vars /\ LedgerInv' /\ PhaseInv' => UndoInv'
  BY UndoStep
<1>4. QED
  BY <1>1, <1>2, <1>3, LedgerCorrect, PTL DEF Spec

\* The saga unwinds in reverse completion order: for every set of compensable
\* steps, every batch order, crash and resume.
THEOREM UnwoundInReverseHolds == ASSUME MaxLapses = 0 PROVE Spec => []UnwoundInReverse
<1>1. UndoInv => UnwoundInReverse
  BY DEF UndoInv
<1>2. QED
  BY <1>1, UndoCorrect, PTL

\* A flow ends failed only once the compensation of every succeeded step that has
\* one was run and marked (a failed one is marked too), also when drivers died in
\* between.
THEOREM RollbackAttemptedHolds == ASSUME MaxLapses = 0 PROVE Spec => []RollbackAttempted
<1>1. UndoInv => RollbackAttempted
  BY DEF UndoInv
<1>2. QED
  BY <1>1, UndoCorrect, PTL

\* A step leaves the budget alone or spends one fault of it.
LEMMA OnlySpent ==
    ASSUME [Next]_vars
    PROVE  UNCHANGED budget \/ \E f \in {"crash", "lapse", "fault"} : Spend(f)
<1>1. ASSUME NEW e \in Engines, Driver(e)
      PROVE  UNCHANGED budget \/ \E f \in {"crash", "lapse", "fault"} : Spend(f)
  BY <1>1 DEF Driver, claim_flow_run, drive_pass, resolve, spawn_batch, batch_done,
     finish_flow_run, drive_err
<1>2. ASSUME NEW e \in Engines, NEW s \in Steps, Task(e, s)
      PROVE  UNCHANGED budget \/ \E f \in {"crash", "lapse", "fault"} : Spend(f)
  BY <1>2 DEF Task, run_step_short, run_step_insert, set_step_running, exec_run,
     run_step_end, compensate, mark_step_compensated, Faulty
<1>3. ASSUME NEW r \in Runs, Worker(r) PROVE UNCHANGED budget
  BY <1>3 DEF Worker, worker_claim, worker_run, worker_decide
<1>4. ASSUME NEW e \in Engines, touch_flow_run(e) \/ crash(e) \/ restart(e)
      PROVE  UNCHANGED budget \/ \E f \in {"crash", "lapse", "fault"} : Spend(f)
  BY <1>4 DEF touch_flow_run, crash, restart
<1>5. CASE insert_flow_run \/ lease_expires \/ reap_orphan_flow_runs
  BY <1>5 DEF insert_flow_run, lease_expires, reap_orphan_flow_runs
<1>6. CASE UNCHANGED vars
  BY <1>6 DEF vars
<1>7. QED
  BY <1>1, <1>2, <1>3, <1>4, <1>5, <1>6 DEF Next

\* While nothing failed or crashed, a step marked and not undone is known to the
\* driver at work, or the flow says so.
Known ==
    LedgerReachable /\ budget["crash"] = MaxCrashes /\ ~(compensated \subseteq undone) =>
        \/ flow = "compensation_failed"
        \/ \E e \in Engines : dpc[e] = "compensate" /\ comp_failed[e]

HonestInv == budget["crash"] <= MaxCrashes /\ Known

\* Every action keeps HonestInv.
LEMMA HonestStep ==
    LedgerInv /\ PhaseInv /\ UndoInv /\ HonestInv /\ [Next]_vars => HonestInv'
<1> SUFFICES ASSUME LedgerInv, PhaseInv, UndoInv, HonestInv, [Next]_vars PROVE HonestInv'
  OBVIOUS
<1>t. /\ budget \in [{"crash", "lapse", "fault"} -> Nat] /\ compensated \subseteq Steps
      /\ dpc \in [Engines -> {"idle", "read", "resolve", "wait", "compensate", "finish"}]
      /\ comp_failed \in [Engines -> BOOLEAN] /\ undone \subseteq Steps
  BY DEF LedgerInv, TypeOK, FlowOK, LedgerOK, RowsOK, DriversOK
<1>n. budget["fault"] <= MaxFaults /\ MaxFaults \in Nat /\ budget["fault"] \in Nat
  BY <1>t, BoundsAssumption DEF UndoInv
<1>s. ASSUME Spend("fault") PROVE Known'
  <2>1. budget'["fault"] = budget["fault"] - 1
    BY <1>s, <1>t DEF Spend
  <2>2. ~LedgerReachable'
    BY <1>n, <2>1 DEF LedgerReachable, FaultsMet
  <2>3. QED
    BY <2>2 DEF HonestInv, Known
<1>k. budget'["crash"] <= MaxCrashes
  <2>1. budget["crash"] <= MaxCrashes /\ MaxCrashes \in Nat /\ budget["crash"] \in Nat
    BY <1>t, BoundsAssumption DEF HonestInv
  <2>2. UNCHANGED budget \/ \E f \in {"crash", "lapse", "fault"} : Spend(f)
    BY OnlySpent
  <2>3. QED
    BY <1>t, <2>1, <2>2 DEF Spend
<1>d. DriverInv
  BY DEF LedgerInv
<1>f. ASSUME UNCHANGED budget, UNCHANGED <<compensated, undone>>,
             flow = "compensation_failed" => flow' = flow,
             \A e \in Engines : dpc[e] = "compensate" =>
                 dpc'[e] = dpc[e] /\ comp_failed'[e] = comp_failed[e]
      PROVE  Known'
  BY <1>f DEF HonestInv, Known, LedgerReachable, FaultsMet
<1>1. ASSUME insert_flow_run PROVE Known'
  <2>1. UNCHANGED <<budget, compensated, undone, dpc, comp_failed>> /\ flow = "absent"
    BY <1>1 DEF insert_flow_run, drivers, history
  <2>2. QED
    BY <1>f, <2>1
<1>2. ASSUME NEW e \in Engines, claim_flow_run(e) PROVE Known'
  <2>1. dpc[e] = "idle" /\ UNCHANGED <<budget, compensated, undone>>
        /\ flow # "compensation_failed"
        /\ dpc' = [dpc EXCEPT ![e] = "read"]
        /\ comp_failed' = [comp_failed EXCEPT ![e] = FALSE]
    BY <1>2 DEF claim_flow_run, ledger, history
  <2>2. \A f \in Engines : dpc[f] = "compensate" =>
            dpc'[f] = dpc[f] /\ comp_failed'[f] = comp_failed[f]
    BY <1>t, <2>1
  <2>3. QED
    BY <1>f, <2>1, <2>2
<1>3. ASSUME NEW e \in Engines, drive_pass(e) \/ spawn_batch(e) \/ batch_done(e)
      PROVE  Known'
  <2>1. dpc[e] # "compensate" /\ UNCHANGED <<budget, compensated, undone, flow, comp_failed>>
        /\ \E p : dpc' = [dpc EXCEPT ![e] = p]
    <3>1. CASE drive_pass(e)
      BY <3>1 DEF drive_pass, ledger, history
    <3>2. CASE spawn_batch(e)
      BY <3>2 DEF spawn_batch, flowVars, ledger, history
    <3>3. CASE batch_done(e)
      BY <3>3 DEF batch_done, flowVars, ledger, history
    <3>4. QED
      BY <1>3, <3>1, <3>2, <3>3
  <2>2. \A f \in Engines : dpc[f] = "compensate" => dpc'[f] = dpc[f]
    BY <1>t, <2>1
  <2>3. QED
    BY <1>f, <2>1, <2>2
<1>4. ASSUME NEW e \in Engines, resolve(e) PROVE Known'
  <2>1. UNCHANGED <<undone, flow, comp_failed, dpc>>
    BY <1>4 DEF resolve, flowVars, history
  <2>2. Spend("fault") \/ UNCHANGED <<budget, compensated>>
    BY <1>4 DEF resolve, expand, finish_step, ledger
  <2>3. QED
    BY <1>f, <1>s, <2>1, <2>2
<1>5. ASSUME NEW e \in Engines, finish_flow_run(e) PROVE Known'
  <2>1. UNCHANGED <<budget, compensated, undone, comp_failed>>
        /\ dpc[e] \in {"finish", "compensate"}
        /\ (dpc[e] = "compensate" /\ comp_failed[e] => flow' = "compensation_failed")
    BY <1>5 DEF finish_flow_run, Unwound, ledger, history
  <2>2. flow = "running" /\ \A f \in Engines : dpc[f] = "compensate" => f = e
    BY <1>d, <2>1 DEF DriverInv, DriverExclusive
  <2>3. LedgerReachable' = LedgerReachable
    BY <2>1 DEF LedgerReachable, FaultsMet
  <2>4. QED
    BY <2>1, <2>2, <2>3 DEF HonestInv, Known
<1>6. ASSUME NEW e \in Engines, drive_err(e) PROVE Known'
  BY <1>6, <1>s DEF drive_err
<1>7. ASSUME NEW e \in Engines, NEW s \in Steps,
             \/ run_step_short(e, s) \/ run_step_insert(e, s) \/ set_step_running(e, s)
             \/ exec_run(e, s) \/ run_step_end(e, s) \/ compensate(e, s)
      PROVE  Known'
  <2>1. UNCHANGED <<undone, flow, comp_failed, dpc>>
    BY <1>7 DEF run_step_short, run_step_insert, set_step_running, exec_run, run_step_end,
       compensate, flowVars, drivers, history
  <2>2. Spend("fault") \/ UNCHANGED <<budget, compensated>>
    BY <1>7 DEF run_step_short, run_step_insert, set_step_running, exec_run, run_step_end,
       compensate, finish_step, Faulty, ledger
  <2>3. QED
    BY <1>f, <1>s, <2>1, <2>2
<1>8. ASSUME NEW e \in Engines, NEW s \in Steps, mark_step_compensated(e, s) PROVE Known'
  <2>1. dpc[e] = "compensate" /\ UNCHANGED <<flow, dpc>>
    BY <1>8 DEF mark_step_compensated, flowVars, PhaseInv, Undoing
  <2>2. PICK ok \in BOOLEAN :
          \/ Spend("fault")
          \/ /\ UNCHANGED budget /\ compensated' = compensated \cup {s}
             /\ undone' = IF ok THEN undone \cup {s} ELSE undone
             /\ comp_failed' = [comp_failed EXCEPT ![e] = @ \/ ~ok]
    BY <1>8 DEF mark_step_compensated, Faulty, Marked
  <2>3. CASE /\ UNCHANGED budget /\ compensated' = compensated \cup {s}
             /\ undone' = IF ok THEN undone \cup {s} ELSE undone
             /\ comp_failed' = [comp_failed EXCEPT ![e] = @ \/ ~ok]
    <3>1. CASE ok
      <4>1. compensated \subseteq undone => compensated' \subseteq undone'
        BY <2>3, <3>1
      <4>2. \A f \in Engines : dpc[f] = "compensate" /\ comp_failed[f] =>
                dpc'[f] = "compensate" /\ comp_failed'[f]
        BY <1>t, <2>1, <2>3, <3>1
      <4>3. QED
        BY <2>1, <2>3, <4>1, <4>2 DEF HonestInv, Known, LedgerReachable, FaultsMet
    <3>2. CASE ~ok
      <4>1. dpc'[e] = "compensate" /\ comp_failed'[e]
        BY <1>t, <2>1, <2>3, <3>2
      <4>2. QED
        BY <4>1 DEF HonestInv, Known
    <3>3. QED
      BY <3>1, <3>2
  <2>4. QED
    BY <1>s, <2>2, <2>3
<1>9. ASSUME NEW r \in Runs, Worker(r) PROVE Known'
  BY <1>9, <1>f DEF Worker, worker_claim, worker_run, worker_decide, flowVars, ledger, drivers,
     history
<1>10. ASSUME lease_expires PROVE Known'
  <2>1. ~Spend("lapse")
    BY <1>d DEF DriverInv, Spend
  <2>2. UNCHANGED <<budget, compensated, undone, dpc, comp_failed, flow>>
    BY <1>10, <2>1 DEF lease_expires, ledger, drivers, history
  <2>3. QED
    BY <1>f, <2>2
<1>11. ASSUME reap_orphan_flow_runs PROVE Known'
  <2>1. UNCHANGED <<budget, compensated, undone, dpc, comp_failed>> /\ flow = "running"
    BY <1>11 DEF reap_orphan_flow_runs, ledger, drivers, history
  <2>2. QED
    BY <1>f, <2>1
<1>12. ASSUME NEW e \in Engines, touch_flow_run(e) \/ restart(e) PROVE Known'
  BY <1>12, <1>f DEF touch_flow_run, restart, flowVars, ledger, drivers, history
<1>13. ASSUME NEW e \in Engines, crash(e) PROVE Known'
  <2>1. budget'["crash"] = budget["crash"] - 1 /\ budget["crash"] > 0
        /\ budget'["fault"] = budget["fault"]
    BY <1>13, <1>t DEF crash, Spend
  <2>2. budget["crash"] \in Nat /\ budget["crash"] <= MaxCrashes /\ MaxCrashes \in Nat
    BY <1>t, BoundsAssumption DEF HonestInv
  <2>3. budget'["crash"] # MaxCrashes
    BY <2>1, <2>2
  <2>4. QED
    BY <2>3 DEF Known
<1>14. ASSUME UNCHANGED vars PROVE Known'
  <2>1. UNCHANGED <<budget, compensated, undone, dpc, comp_failed, flow>>
    BY <1>14 DEF vars, flowVars, ledger, drivers, history
  <2>2. QED
    BY <1>f, <2>1
<1>15. Known'
  BY <1>1, <1>2, <1>3, <1>4, <1>5, <1>6, <1>7, <1>8, <1>9, <1>10, <1>11, <1>12, <1>13, <1>14
     DEF Next, Driver, Task
<1>16. QED
  BY <1>15, <1>k DEF HonestInv

\* Without crashes and failed statements a flow reported plain `failed` has every
\* succeeded compensable step undone: a failed rollback step shows in the status.
THEOREM RollbackHonestHolds == ASSUME MaxLapses = 0 PROVE Spec => []RollbackHonest
<1>1. Init => HonestInv
  BY BoundsAssumption DEF Init, HonestInv, Known
<1>2. LedgerInv /\ PhaseInv /\ UndoInv /\ HonestInv /\ [Next]_vars => HonestInv'
  BY HonestStep
<1>3. Init => PhaseInv
  BY DEF Init, PhaseInv, Live, Undoing
<1>4. LedgerInv /\ PhaseInv /\ [Next]_vars => PhaseInv'
  BY PhaseStep
<1>5. LedgerInv /\ UndoInv /\ HonestInv => RollbackHonest
  <2> SUFFICES ASSUME LedgerInv, UndoInv, HonestInv, LedgerReachable,
                      budget["crash"] = MaxCrashes, flow = "failed",
                      NEW s \in Compensable, step_status[s] = "succeeded"
               PROVE  s \in undone
    BY DEF RollbackHonest, RollbackSurfaced
  <2>1. \A e \in Engines : dpc[e] # "compensate"
    BY DEF LedgerInv, DriverInv
  <2>2. compensated \subseteq undone
    BY <2>1 DEF HonestInv, Known
  <2>3. QED
    BY <2>2 DEF UndoInv, RollbackAttempted
<1>6. QED
  BY <1>1, <1>2, <1>3, <1>4, <1>5, LedgerCorrect, UndoCorrect, PTL DEF Spec

-----------------------------------------------------------------------------
(* Retries.                                                                *)

\* A task at work on a step has started no more containers than it counts attempts,
\* within the retries, but for those paid for by a failed statement.
TaskCount(e, s) ==
    /\ tpc[<<e, s>>] \notin Live => attempt[<<e, s>>] = 0
    /\ tpc[<<e, s>>] \in Live =>
          execs[s] <= FaultsMet + IF tpc[<<e, s>>] = "inserted" THEN attempt[<<e, s>>] - 1
                                                                ELSE attempt[<<e, s>>]
    /\ tpc[<<e, s>>] = "queued" => attempt[<<e, s>>] <= Retries[s]
    /\ tpc[<<e, s>>] \in {"inserted", "exec", "ran"} => attempt[<<e, s>>] <= Retries[s] + 1

\* Until a step is marked running only failed statements left containers behind it:
\* that is all a second driver, which starts from the ledger, may repeat.
RetryInv ==
    /\ budget["fault"] <= MaxFaults
    /\ \A s \in Steps :
        /\ step_status[s] \in {"none", "pending"} => execs[s] <= FaultsMet
        /\ execs[s] <= Retries[s] + 1 + FaultsMet
    /\ \A e \in Engines, s \in Steps : TaskCount(e, s)

\* Failed statements are only ever added up.
LEMMA FaultsGrow ==
    ASSUME TypeOK, [Next]_vars, budget["fault"] <= MaxFaults
    PROVE  /\ budget'["fault"] <= MaxFaults
           /\ FaultsMet \in Nat /\ FaultsMet' \in Nat /\ FaultsMet <= FaultsMet'
<1>1. UNCHANGED budget \/ \E f \in {"crash", "lapse", "fault"} : Spend(f)
  BY OnlySpent
<1>2. budget["fault"] \in Nat /\ budget'["fault"] \in Nat /\ budget'["fault"] <= budget["fault"]
  BY <1>1 DEF TypeOK, FlowOK, Spend
<1>3. QED
  BY <1>2, BoundsAssumption DEF FaultsMet

\* A step that starts no container and moves no step back.
LEMMA RetryKeeps ==
    ASSUME TypeOK, RetryInv, [Next]_vars, UNCHANGED execs,
           \A t \in Steps : step_status'[t] \in {"none", "pending"} =>
               step_status[t] \in {"none", "pending"},
           \A f \in Engines, t \in Steps : TaskCount(f, t)'
    PROVE  RetryInv'
<1>1. /\ budget'["fault"] <= MaxFaults
      /\ FaultsMet \in Nat /\ FaultsMet' \in Nat /\ FaultsMet <= FaultsMet'
  BY FaultsGrow DEF RetryInv
<1>2. ASSUME NEW t \in Steps
      PROVE  /\ step_status'[t] \in {"none", "pending"} => execs'[t] <= FaultsMet'
             /\ execs'[t] <= Retries[t] + 1 + FaultsMet'
  <2>1. execs'[t] = execs[t] /\ execs[t] \in Nat /\ Retries[t] \in Nat
    BY StepsAssumption DEF TypeOK, RowsOK
  <2>2. QED
    BY <1>1, <2>1 DEF RetryInv
<1>3. QED
  BY <1>1, <1>2 DEF RetryInv

\* The task of another step, or of another engine, is left alone.
LEMMA CountKeeps ==
    ASSUME TypeOK, RetryInv, [Next]_vars, NEW f \in Engines, NEW t \in Steps,
           execs'[t] = execs[t],
           tpc'[<<f, t>>] = tpc[<<f, t>>], attempt'[<<f, t>>] = attempt[<<f, t>>]
    PROVE  TaskCount(f, t)'
<1>1. FaultsMet \in Nat /\ FaultsMet' \in Nat /\ FaultsMet <= FaultsMet'
  BY FaultsGrow DEF RetryInv
<1>2. execs[t] \in Nat /\ attempt[<<f, t>>] \in Nat /\ Retries[t] \in Nat
  BY StepsAssumption DEF TypeOK, RowsOK, TasksOK
<1>3. TaskCount(f, t)
  BY DEF RetryInv
<1>4. QED
  BY <1>1, <1>2, <1>3 DEF TaskCount

\* A task that ends.
LEMMA CountEnd ==
    ASSUME NEW f \in Engines, NEW t \in Steps,
           tpc'[<<f, t>>] = "idle", attempt'[<<f, t>>] = 0
    PROVE  TaskCount(f, t)'
  BY DEF TaskCount, Live

\* Every action keeps RetryInv.
LEMMA RetryStep == LedgerInv /\ PhaseInv /\ RetryInv /\ [Next]_vars => RetryInv'
<1> SUFFICES ASSUME LedgerInv, PhaseInv, RetryInv, [Next]_vars PROVE RetryInv'
  OBVIOUS
<1>t. /\ budget \in [{"crash", "lapse", "fault"} -> Nat]
      /\ step_status \in [Steps -> StepStatuses] /\ execs \in [Steps -> Nat]
      /\ dpc \in [Engines -> {"idle", "read", "resolve", "wait", "compensate", "finish"}]
      /\ todo \in [Engines -> SUBSET Work]
      /\ tpc \in [Engines \X Steps ->
                    {"idle", "queued", "inserted", "exec", "ran", "undo", "undone"}]
      /\ attempt \in [Engines \X Steps -> Nat] /\ Retries \in [Steps -> Nat]
  BY StepsAssumption DEF LedgerInv, TypeOK, FlowOK, LedgerOK, RowsOK, DriversOK, TasksOK
<1>n. /\ TypeOK /\ budget'["fault"] <= MaxFaults
      /\ FaultsMet \in Nat /\ FaultsMet' \in Nat /\ FaultsMet <= FaultsMet'
  BY FaultsGrow DEF LedgerInv, RetryInv
<1>c. ASSUME NEW f \in Engines, NEW t \in Steps PROVE TaskCount(f, t)
  BY DEF RetryInv
<1>f. ASSUME UNCHANGED <<step_status, tpc, attempt, execs>> PROVE RetryInv'
  <2>1. \A f \in Engines, t \in Steps : TaskCount(f, t)'
    BY <1>f, <1>n, CountKeeps
  <2>2. QED
    BY <1>f, <1>n, <2>1, RetryKeeps
<1>1. CASE insert_flow_run
  <2>1. UNCHANGED <<tpc, attempt, execs>>
    BY <1>1 DEF insert_flow_run, tasks, history
  <2>2. \A t \in Steps : step_status[t] = "none"
    BY <1>1 DEF insert_flow_run, LedgerInv, EndInv
  <2>3. \A f \in Engines, t \in Steps : TaskCount(f, t)'
    BY <2>1, CountKeeps, <1>n
  <2>4. QED
    BY <1>n, <2>1, <2>2, <2>3, RetryKeeps
<1>2. ASSUME NEW e \in Engines,
             \/ claim_flow_run(e) \/ drive_pass(e) \/ spawn_batch(e) \/ batch_done(e)
             \/ finish_flow_run(e) \/ touch_flow_run(e) \/ restart(e)
      PROVE  RetryInv'
  <2>1. UNCHANGED <<step_status, tpc, attempt, execs>>
    BY <1>2 DEF claim_flow_run, drive_pass, spawn_batch, batch_done, finish_flow_run,
       touch_flow_run, restart, ledger, tasks, history
  <2>2. QED
    BY <1>f, <1>n, <2>1
<1>4. ASSUME NEW e \in Engines, resolve(e) PROVE RetryInv'
  <2>1. UNCHANGED <<attempt, execs, dpc>> /\ dpc[e] = "resolve"
    BY <1>4 DEF resolve, history
  <2>2. PICK w \in todo[e] :
          \/ /\ \/ w[1] \in Tags /\ \E st \in StepStatuses : st \in Final /\ finish_step(w[2], st)
                \/ w[1] = "go" /\ w[2] \in MapSteps /\ expand(w[2])
             /\ UNCHANGED tpc
          \/ /\ w[1] = "go" /\ tpc' = [tpc EXCEPT ![<<e, w[2]>>] = "queued"]
             /\ UNCHANGED ledger
          \/ UNCHANGED <<ledger, tpc>>
    BY <1>4 DEF resolve, Tags, StepStatuses, Final
  <2>3. PICK kind \in {"join", "skip", "go", "undo"}, s \in Steps : w = <<kind, s>>
    BY <1>t DEF Work
  <2>4. CASE kind = "go" /\ tpc' = [tpc EXCEPT ![<<e, s>>] = "queued"] /\ UNCHANGED ledger
    <3>1. step_status' = step_status
      BY <2>4 DEF ledger
    <3>2. step_status[s] = "pending" /\ ~Busy(e, s)
      BY <2>2, <2>3, <2>4 DEF LedgerInv, DepInv, TodoInv, Tags
    <3>3. attempt[<<e, s>>] = 0 /\ execs[s] <= FaultsMet /\ execs[s] \in Nat
      BY <1>c, <1>t, <3>2 DEF TaskCount, Busy, Live, RetryInv
    <3>4. TaskCount(e, s)'
      <4>1. tpc'[<<e, s>>] = "queued" /\ attempt'[<<e, s>>] = 0
        BY <1>t, <2>1, <2>4, <3>3
      <4>2. Retries[s] \in Nat
        BY <1>t
      <4>3. QED
        BY <1>n, <2>1, <3>3, <4>1, <4>2 DEF TaskCount, Live
    <3>5. ASSUME NEW f \in Engines, NEW t \in Steps PROVE TaskCount(f, t)'
      <4>1. CASE <<f, t>> = <<e, s>>
        BY <3>4, <4>1
      <4>2. CASE <<f, t>> # <<e, s>>
        <5>1. tpc'[<<f, t>>] = tpc[<<f, t>>]
          BY <1>t, <2>4, <4>2
        <5>2. QED
          BY <2>1, <5>1, CountKeeps, <1>n
      <4>3. QED
        BY <4>1, <4>2
    <3>6. QED
      BY <1>n, <2>1, <2>4, <3>1, <3>5, RetryKeeps
  <2>5. ASSUME UNCHANGED tpc,
               \A t \in Steps : step_status'[t] \in {"none", "pending"} =>
                   step_status[t] \in {"none", "pending"}
        PROVE  RetryInv'
    <3>1. \A f \in Engines, t \in Steps : TaskCount(f, t)'
      BY <2>1, <2>5, CountKeeps, <1>n
    <3>2. QED
      BY <1>n, <2>1, <2>5, <3>1, RetryKeeps
  <2>6. ASSUME NEW st \in StepStatuses, st \in Final, finish_step(s, st), UNCHANGED tpc
        PROVE  RetryInv'
    <3>1. step_status' = [step_status EXCEPT ![s] = st]
      BY <2>6 DEF finish_step
    <3>2. \A t \in Steps : step_status'[t] \in {"none", "pending"} =>
              step_status[t] \in {"none", "pending"}
      BY <1>t, <2>6, <3>1 DEF Final
    <3>3. QED
      BY <2>5, <2>6, <3>2
  <2>7. CASE expand(s) /\ UNCHANGED tpc
    <3>1. CASE step_status' = [u \in Steps |->
                   IF u = s THEN "expanded"
                   ELSE IF u \in Kids[s] /\ step_status[u] = "none" THEN "pending"
                   ELSE step_status[u]]
      <4>1. \A t \in Steps : step_status'[t] \in {"none", "pending"} =>
                step_status[t] \in {"none", "pending"}
        BY <3>1
      <4>2. QED
        BY <2>5, <2>7, <4>1
    <3>2. QED
      BY <2>6, <2>7, <3>1 DEF expand, Final, StepStatuses
  <2>8. CASE UNCHANGED <<ledger, tpc>>
    BY <1>f, <2>1, <2>8 DEF ledger
  <2>9. QED
    BY <2>2, <2>3, <2>4, <2>6, <2>7, <2>8
<1>8. ASSUME NEW e \in Engines, drive_err(e) PROVE RetryInv'
  BY <1>8, <1>f DEF drive_err, ledger, tasks, history
<1>9. ASSUME NEW e \in Engines, NEW s \in Steps,
             \/ run_step_short(e, s)
             \/ run_step_end(e, s) /\ tpc'[<<e, s>>] # "queued"
      PROVE  RetryInv'
  <2>1. UNCHANGED execs /\ End(e, s)
    <3>1. CASE run_step_short(e, s)
      BY <1>n, <3>1 DEF run_step_short, history
    <3>2. CASE run_step_end(e, s) /\ tpc'[<<e, s>>] # "queued"
      <4>1. tpc' # [tpc EXCEPT ![<<e, s>>] = "queued"]
        BY <1>t, <3>2
      <4>2. QED
        BY <1>n, <3>2, <4>1 DEF run_step_end, Faulty, history
    <3>3. QED
      BY <1>9, <3>1, <3>2
  <2>2. UNCHANGED step_status \/ \E st \in Final : step_status' = [step_status EXCEPT ![s] = st]
    BY <1>9 DEF run_step_short, run_step_end, finish_step, Final, ledger
  <2>3. \A t \in Steps : step_status'[t] \in {"none", "pending"} =>
            step_status[t] \in {"none", "pending"}
    BY <1>t, <2>2 DEF Final
  <2>4. ASSUME NEW f \in Engines, NEW t \in Steps PROVE TaskCount(f, t)'
    <3>1. CASE <<f, t>> = <<e, s>>
      <4>1. tpc'[<<e, s>>] = "idle" /\ attempt'[<<e, s>>] = 0
        BY <1>t, <2>1 DEF End
      <4>2. QED
        BY <3>1, <4>1, CountEnd
    <3>2. CASE <<f, t>> # <<e, s>>
      <4>1. tpc'[<<f, t>>] = tpc[<<f, t>>] /\ attempt'[<<f, t>>] = attempt[<<f, t>>]
        BY <1>t, <2>1, <3>2 DEF End
      <4>2. QED
        BY <2>1, <4>1, CountKeeps, <1>n
    <3>3. QED
      BY <3>1, <3>2
  <2>5. QED
    BY <1>n, <2>1, <2>3, <2>4, RetryKeeps
<1>10. ASSUME NEW e \in Engines, NEW s \in Steps,
              NEW a \in Nat, NEW pc \in {"queued", "inserted", "exec", "ran", "undo", "undone"},
              tpc' = [tpc EXCEPT ![<<e, s>>] = pc],
              attempt' = [attempt EXCEPT ![<<e, s>>] = a],
              tpc'[<<e, s>>] = pc /\ attempt'[<<e, s>>] = a => TaskCount(e, s)',
              UNCHANGED <<execs, step_status>>
       PROVE  RetryInv'
  <2>1. TaskCount(e, s)'
    BY <1>t, <1>10
  <2>2. ASSUME NEW f \in Engines, NEW t \in Steps PROVE TaskCount(f, t)'
    <3>1. CASE <<f, t>> = <<e, s>>
      BY <2>1, <3>1
    <3>2. CASE <<f, t>> # <<e, s>>
      <4>1. tpc'[<<f, t>>] = tpc[<<f, t>>] /\ attempt'[<<f, t>>] = attempt[<<f, t>>]
        BY <1>t, <1>10, <3>2
      <4>2. QED
        BY <1>10, <4>1, CountKeeps, <1>n
    <3>3. QED
      BY <3>1, <3>2
  <2>3. QED
    BY <1>n, <1>10, <2>2, RetryKeeps
<1>a. ASSUME NEW e \in Engines, NEW s \in Steps
      PROVE  attempt = [attempt EXCEPT ![<<e, s>>] = attempt[<<e, s>>]]
  BY <1>t
<1>b. ASSUME NEW e \in Engines, NEW s \in Steps
      PROVE  attempt[<<e, s>>] \in Nat /\ Retries[s] \in Nat /\ execs[s] \in Nat
  BY <1>t
<1>11. ASSUME NEW e \in Engines, NEW s \in Steps, run_step_insert(e, s) PROVE RetryInv'
  <2>1. UNCHANGED <<execs, step_status>> /\ tpc[<<e, s>>] = "queued"
        /\ tpc' = [tpc EXCEPT ![<<e, s>>] = "inserted"]
        /\ attempt' = [attempt EXCEPT ![<<e, s>>] = attempt[<<e, s>>] + 1]
    BY <1>11 DEF run_step_insert, ledger, history
  <2>2. tpc'[<<e, s>>] = "inserted" /\ attempt'[<<e, s>>] = attempt[<<e, s>>] + 1
          => TaskCount(e, s)'
    BY <1>b, <1>c, <1>n, <2>1 DEF TaskCount, Live
  <2>3. attempt[<<e, s>>] + 1 \in Nat
    BY <1>b
  <2>4. QED
    BY <1>10, <2>1, <2>2, <2>3
<1>12. ASSUME NEW e \in Engines, NEW s \in Steps, exec_run(e, s) PROVE RetryInv'
  <2>1. UNCHANGED <<execs, step_status, attempt>>
    BY <1>12, <1>n DEF exec_run, ledger, history
  <2>2. CASE tpc[<<e, s>>] = "exec"
    <3>1. tpc' = [tpc EXCEPT ![<<e, s>>] = "ran"]
      BY <1>12, <2>2 DEF exec_run
    <3>2. tpc'[<<e, s>>] = "ran" /\ attempt'[<<e, s>>] = attempt[<<e, s>>] => TaskCount(e, s)'
      BY <1>b, <1>c, <1>n, <2>1, <2>2 DEF TaskCount, Live
    <3>3. attempt' = [attempt EXCEPT ![<<e, s>>] = attempt[<<e, s>>]]
      BY <1>a, <2>1
    <3>4. QED
      BY <1>10, <1>b, <2>1, <3>1, <3>2, <3>3
  <2>3. CASE tpc[<<e, s>>] = "undo"
    <3>1. tpc' = [tpc EXCEPT ![<<e, s>>] = "undone"]
      BY <1>12, <2>3 DEF exec_run
    <3>2. tpc'[<<e, s>>] = "undone" /\ attempt'[<<e, s>>] = attempt[<<e, s>>] => TaskCount(e, s)'
      BY <1>b, <1>c, <2>1, <2>3 DEF TaskCount, Live
    <3>3. attempt' = [attempt EXCEPT ![<<e, s>>] = attempt[<<e, s>>]]
      BY <1>a, <2>1
    <3>4. QED
      BY <1>10, <1>b, <2>1, <3>1, <3>2, <3>3
  <2>4. QED
    BY <1>12, <2>2, <2>3 DEF exec_run
<1>13. ASSUME NEW e \in Engines, NEW s \in Steps, run_step_end(e, s), tpc'[<<e, s>>] = "queued"
       PROVE  RetryInv'
  <2>1. ~End(e, s)
    BY <1>t, <1>13 DEF End
  <2>2. UNCHANGED <<execs, step_status, attempt>> /\ tpc[<<e, s>>] = "ran"
        /\ tpc' = [tpc EXCEPT ![<<e, s>>] = "queued"] /\ ~Spent(e, s)
    BY <1>13, <1>n, <2>1 DEF run_step_end, Faulty, ledger, history
  <2>3. tpc'[<<e, s>>] = "queued" /\ attempt'[<<e, s>>] = attempt[<<e, s>>] => TaskCount(e, s)'
    BY <1>b, <1>c, <1>n, <2>2 DEF TaskCount, Live, Spent
  <2>4. attempt' = [attempt EXCEPT ![<<e, s>>] = attempt[<<e, s>>]]
    BY <1>a, <2>2
  <2>5. QED
    BY <1>10, <1>b, <2>2, <2>3, <2>4
<1>14. ASSUME NEW e \in Engines, NEW s \in Steps, compensate(e, s) PROVE RetryInv'
  <2>1. UNCHANGED <<execs, step_status, attempt>> /\ tpc[<<e, s>>] = "idle"
    BY <1>14 DEF compensate, ledger, history, Busy
  <2>2. CASE tpc' = [tpc EXCEPT ![<<e, s>>] = "undo"]
    <3>1. tpc'[<<e, s>>] = "undo" /\ attempt'[<<e, s>>] = attempt[<<e, s>>] => TaskCount(e, s)'
      BY <1>b, <1>c, <2>1 DEF TaskCount, Live
    <3>2. attempt' = [attempt EXCEPT ![<<e, s>>] = attempt[<<e, s>>]]
      BY <1>a, <2>1
    <3>3. QED
      BY <1>10, <1>b, <2>1, <2>2, <3>1, <3>2
  <2>3. CASE UNCHANGED tpc
    BY <1>f, <2>1, <2>3
  <2>4. QED
    BY <1>14, <2>2, <2>3 DEF compensate
<1>15. ASSUME NEW e \in Engines, NEW s \in Steps, mark_step_compensated(e, s) PROVE RetryInv'
  <2>1. UNCHANGED <<execs, step_status>> /\ End(e, s)
    BY <1>15, <1>n DEF mark_step_compensated, Faulty
  <2>2. ASSUME NEW f \in Engines, NEW t \in Steps PROVE TaskCount(f, t)'
    <3>1. CASE <<f, t>> = <<e, s>>
      <4>1. tpc'[<<e, s>>] = "idle" /\ attempt'[<<e, s>>] = 0
        BY <1>t, <2>1 DEF End
      <4>2. QED
        BY <3>1, <4>1, CountEnd
    <3>2. CASE <<f, t>> # <<e, s>>
      <4>1. tpc'[<<f, t>>] = tpc[<<f, t>>] /\ attempt'[<<f, t>>] = attempt[<<f, t>>]
        BY <1>t, <2>1, <3>2 DEF End
      <4>2. QED
        BY <2>1, <4>1, CountKeeps, <1>n
    <3>3. QED
      BY <3>1, <3>2
  <2>3. QED
    BY <1>n, <2>1, <2>2, RetryKeeps
<1>16. ASSUME NEW e \in Engines, NEW s \in Steps, set_step_running(e, s) PROVE RetryInv'
  <2>1. UNCHANGED attempt /\ tpc[<<e, s>>] = "inserted"
        /\ tpc' = [tpc EXCEPT ![<<e, s>>] = "exec"]
        /\ execs' = [execs EXCEPT ![s] = execs[s] + 1]
    BY <1>16 DEF set_step_running
  <2>2. /\ tpc'[<<e, s>>] = "exec" /\ execs'[s] = execs[s] + 1
        /\ execs[s] \in Nat /\ attempt[<<e, s>>] \in Nat /\ Retries[s] \in Nat
        /\ \A t \in Steps : t # s => execs'[t] = execs[t]
        /\ \A f \in Engines, t \in Steps : <<f, t>> # <<e, s>> => tpc'[<<f, t>>] = tpc[<<f, t>>]
    BY <1>t, <2>1
  <2>3. \/ step_status' = [step_status EXCEPT ![s] = "running"]
        \/ step_status' = step_status /\ FaultsMet' = FaultsMet + 1
    <3>1. CASE Spend("fault") /\ UNCHANGED step_status
      BY <1>t, <3>1, BoundsAssumption DEF Spend, FaultsMet
    <3>2. QED
      BY <1>16, <3>1 DEF set_step_running
  <2>4. execs[s] <= FaultsMet + attempt[<<e, s>>] - 1 /\ attempt[<<e, s>>] <= Retries[s] + 1
    BY <1>c, <1>n, <2>1, <2>2 DEF TaskCount, Live
  <2>5. TaskCount(e, s)'
    BY <1>n, <2>1, <2>2, <2>4 DEF TaskCount, Live
  <2>6. ASSUME NEW f \in Engines, f # e PROVE TaskCount(f, s)'
    <3>1. dpc[e] \in {"resolve", "wait"}
      BY <2>1 DEF PhaseInv, Live
    <3>2. ~Busy(f, s)
      BY <2>6, <3>1, SoleDriver DEF LedgerInv
    <3>3. tpc'[<<f, s>>] = "idle" /\ attempt'[<<f, s>>] = 0
      BY <1>c, <2>1, <2>2, <2>6, <3>2 DEF Busy, TaskCount, Live
    <3>4. QED
      BY <3>3, CountEnd
  <2>7. ASSUME NEW f \in Engines, NEW t \in Steps PROVE TaskCount(f, t)'
    <3>1. CASE t = s
      BY <2>5, <2>6, <3>1
    <3>2. CASE t # s
      <4>1. <<f, t>> # <<e, s>>
        BY <3>2
      <4>2. tpc'[<<f, t>>] = tpc[<<f, t>>] /\ attempt'[<<f, t>>] = attempt[<<f, t>>]
            /\ execs'[t] = execs[t]
        BY <2>1, <2>2, <3>2, <4>1
      <4>3. QED
        BY <4>2, CountKeeps, <1>n
    <3>3. QED
      BY <3>1, <3>2
  <2>8. ASSUME NEW t \in Steps
        PROVE  /\ step_status'[t] \in {"none", "pending"} => execs'[t] <= FaultsMet'
               /\ execs'[t] <= Retries[t] + 1 + FaultsMet'
    <3>1. CASE t = s
      <4>1. execs'[s] <= Retries[s] + 1 + FaultsMet'
        BY <1>n, <2>2, <2>4
      <4>2. CASE step_status' = [step_status EXCEPT ![s] = "running"]
        BY <1>t, <3>1, <4>1, <4>2
      <4>3. CASE step_status' = step_status /\ FaultsMet' = FaultsMet + 1
        <5>1. step_status'[s] \in {"none", "pending"} => execs[s] <= FaultsMet
          BY <4>3 DEF RetryInv
        <5>2. QED
          BY <1>n, <2>2, <3>1, <4>1, <4>3, <5>1
      <4>4. QED
        BY <2>3, <4>2, <4>3
    <3>2. CASE t # s
      <4>1. step_status'[t] = step_status[t] /\ execs'[t] = execs[t]
        BY <1>t, <2>2, <2>3, <3>2
      <4>2. execs[t] \in Nat /\ Retries[t] \in Nat
        BY <1>t
      <4>3. QED
        BY <1>n, <4>1, <4>2 DEF RetryInv
    <3>3. QED
      BY <3>1, <3>2
  <2>9. QED
    BY <1>n, <2>7, <2>8 DEF RetryInv
<1>17. ASSUME NEW r \in Runs, worker_claim(r) PROVE RetryInv'
  BY <1>17, <1>f DEF worker_claim, ledger, tasks, history
<1>18. ASSUME NEW r \in Runs, worker_run(r) \/ worker_decide(r) PROVE RetryInv'
  <2>1. UNCHANGED <<step_status, tpc, attempt, execs>>
    BY <1>18 DEF worker_run, worker_decide, ledger, tasks, history
  <2>2. QED
    BY <1>f, <1>n, <2>1
<1>19. CASE lease_expires \/ reap_orphan_flow_runs
  <2>1. UNCHANGED <<step_status, tpc, attempt, execs>>
    BY <1>19 DEF lease_expires, reap_orphan_flow_runs, ledger, tasks, history
  <2>2. QED
    BY <1>f, <2>1
<1>22. ASSUME NEW e \in Engines, crash(e) PROVE RetryInv'
  <2>1. UNCHANGED <<step_status, execs>>
    BY <1>22 DEF crash, ledger, history
  <2>2. ASSUME NEW f \in Engines, NEW t \in Steps PROVE TaskCount(f, t)'
    <3>1. CASE f = e
      <4>1. tpc'[<<f, t>>] = "idle" /\ attempt'[<<f, t>>] = 0
        BY <1>22, <3>1 DEF crash
      <4>2. QED
        BY <4>1, CountEnd
    <3>2. CASE f # e
      <4>1. tpc'[<<f, t>>] = tpc[<<f, t>>] /\ attempt'[<<f, t>>] = attempt[<<f, t>>]
        BY <1>22, <3>2 DEF crash
      <4>2. QED
        BY <2>1, <4>1, CountKeeps, <1>n
    <3>3. QED
      BY <3>1, <3>2
  <2>3. QED
    BY <1>n, <2>1, <2>2, RetryKeeps
<1>24. CASE UNCHANGED vars
  <2>1. UNCHANGED <<step_status, tpc, attempt, execs>>
    BY <1>24 DEF vars, ledger, tasks, history
  <2>2. QED
    BY <1>f, <1>n, <2>1
<1>25. QED
  BY <1>1, <1>2, <1>4, <1>8, <1>9, <1>11, <1>12, <1>13, <1>14, <1>15, <1>16,
     <1>17, <1>18, <1>19, <1>22, <1>24 DEF Next, Driver, Task, Worker

\* The engines keep every step within its retries, however they crash and resume.
THEOREM RetryCorrect == ASSUME MaxLapses = 0 PROVE Spec => []RetryInv
<1>1. Init => PhaseInv /\ RetryInv
  <2> SUFFICES ASSUME Init PROVE PhaseInv /\ RetryInv
    OBVIOUS
  <2>1. PhaseInv
    BY DEF Init, PhaseInv, Live, Undoing
  <2>2. budget["fault"] = MaxFaults /\ FaultsMet = 0
    BY BoundsAssumption DEF Init, FaultsMet
  <2>3. \A s \in Steps : execs[s] = 0 /\ Retries[s] \in Nat
    BY StepsAssumption DEF Init
  <2>4. \A e \in Engines, s \in Steps : tpc[<<e, s>>] = "idle" /\ attempt[<<e, s>>] = 0
    BY DEF Init
  <2>5. QED
    BY <2>1, <2>2, <2>3, <2>4, BoundsAssumption DEF RetryInv, TaskCount, Live
<1>2. LedgerInv /\ PhaseInv /\ [Next]_vars => PhaseInv'
  BY PhaseStep
<1>3. LedgerInv /\ PhaseInv /\ RetryInv /\ [Next]_vars => RetryInv'
  BY RetryStep
<1>4. QED
  BY <1>1, <1>2, <1>3, LedgerCorrect, PTL DEF Spec

\* The engines start a step at most retries + 1 times plus once per statement that
\* failed, for every DAG, every number of engines, crashes and resumes, and with any
\* workers claiming the step's run rows.
THEOREM EngineBudgetHolds == ASSUME MaxLapses = 0 PROVE Spec => []EngineBudget
<1>1. RetryInv => EngineBudget
  BY DEF RetryInv, EngineBudget
<1>2. QED
  BY <1>1, RetryCorrect, PTL
=============================================================================
