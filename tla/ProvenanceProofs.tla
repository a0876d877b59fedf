-------------------------- MODULE ProvenanceProofs --------------------------
(***************************************************************************)
(* Proofs about Provenance, for any number of runs, agents, daemons,       *)
(* requests, edits, rotations and faults: what the secrets cache serves,   *)
(* what a receipt attests, what a recall answers and what reproduce says.  *)
(*                                                                         *)
(* One idea carries the first half: secrets only grow, and everybody reads *)
(* the generation before the values.  So what was read under generation g  *)
(* is at least what was in force at g, and exactly that while g is current. *)
(***************************************************************************)
EXTENDS Provenance, TLAPS

\* The pair of secrets x is at least as new as y.
Newer(x, y) == x[1] >= y[1] /\ x[2] >= y[2]

-----------------------------------------------------------------------------
(* Types of the columns and of the requests, which TypeOK leaves open.     *)

Outputs == Sources \X (Envs \cup {None})
Claims == [source : Sources, gen : Nat, output : Outputs, blobs : Outputs]
Receipts == [claims : Claims, signed : Claims]

Idle == [op : {"new", "enqueued", "INCONCLUSIVE", "TAMPERED"}]
Keying == [op : {"gen"}, agent : Agents, src : Sources]
Finding == [op : {"find", "insert"}, agent : Agents, src : Sources, gen : Nat, want : Envs]
Recalled == [op : {"recalled"}, agent : Agents, src : Sources, want : Envs, run : Runs,
             out : Outputs \cup {None}]
Filing == [op : {"key"}, src : Sources, gen : Nat, run : Runs]
Rerun == [op : {"rerun"}, orig : Runs, agent : Agents, claims : Claims]
Polling == [op : {"poll", "REPRODUCED", "DIVERGED"}, orig : Runs, agent : Agents,
            claims : Claims, run : Runs]

ReqOK ==
    req \in [Requests -> Idle \cup Keying \cup Finding \cup Recalled \cup Filing \cup Rerun \cup Polling]

RowOK ==
    /\ source \in Sources
    /\ src \in [Runs -> Sources \cup {None}]
    /\ result \in [Runs -> Outputs \cup {None}]
    /\ receipt \in [Runs -> Receipts \cup {None}]
    /\ kept \in [Runs -> BOOLEAN]
    /\ cacheKey \in [Runs -> (Sources \X Nat) \cup {None}]
    /\ blobs \in [Runs -> Outputs \cup {None}]
    /\ \A r \in Runs : pc[r] # "none" => src[r] \in Sources

Typed == TypeOK /\ RowOK /\ ReqOK

-----------------------------------------------------------------------------
(* What a job and a cache entry hold.                                      *)

\* A job that has read its generation, and may use what is filed under it.
Reading(r) == pc[r] \in {"lookup", "global", "scoped", "store"}
Knows(r) == Reading(r) \/ env[r] # None

\* Values read under the generation of now are those of now.
JobCurrent(r) ==
    /\ pc[r] # "none" => Newer(Visible(agent[r]), floor[r])
    /\ rgen[r] <= gen
    /\ pc[r] \in {"none", "generation", "lookup", "global", "scoped"} => env[r] = None
    /\ pc[r] = "store" => env[r] # None
    /\ rgen[r] = gen /\ pc[r] = "scoped" => rglob[r] = glob
    /\ rgen[r] = gen /\ env[r] # None => env[r] = Visible(agent[r])
CacheOK == CacheCurrent /\ \A d \in Daemons : cgen[d] <= gen

\* What is read or filed under generation g is at least low, the secrets of agent a
\* at g or before.
Holds(g, a, low) ==
    /\ \A q \in Runs : rgen[q] = g =>
        /\ pc[q] = "scoped" => rglob[q] >= low[1]
        /\ agent[q] = a /\ env[q] # None => Newer(env[q], low)
    /\ \A d \in Daemons : cgen[d] = g /\ cenv[d][a] # None => Newer(cenv[d][a], low)

\* For a job about to look into the cache, low is what it was promised at claim.
LookupOK(r) == Knows(r) => Holds(rgen[r], agent[r], floor[r])
SecretsInv == (\A r \in Runs : JobCurrent(r) /\ LookupOK(r)) /\ CacheOK

\* For a request with its key in hand, low is what its own run would have seen.
KeyOK(c) ==
    At(c, "find") =>
        /\ req[c].gen <= gen /\ Newer(Visible(req[c].agent), req[c].want)
        /\ req[c].gen = gen => req[c].want = Visible(req[c].agent)
        /\ Holds(req[c].gen, req[c].agent, req[c].want)
        /\ \A r \in Runs : Knows(r) /\ agent[r] = req[c].agent /\ rgen[r] = req[c].gen
               => Newer(req[c].want, floor[r])
KeyInv == \A c \in Requests : KeyOK(c)

-----------------------------------------------------------------------------
(* What a row says about its job.                                          *)

\* A job's output is fixed once it ran, and its columns are this output.
OutputOK(r) ==
    /\ result[r] # None => result[r] = Output(r) /\ pc[r] \in {"receipt", "done"}
    /\ status[r] = "succeeded" => pc[r] \in {"output", "receipt", "done"}
    /\ pc[r] = "receipt" /\ kept[r] => result[r] = Output(r) /\ blobs[r] = Output(r)
    /\ receipt[r] # None =>
        /\ pc[r] = "done" /\ result[r] = Output(r) /\ blobs[r] = Output(r)
        /\ receipt[r].signed.output = Output(r) /\ receipt[r].signed.blobs = Output(r)
ReceiptInv == \A r \in Runs : OutputOK(r)

\* A run's key is written once, by the request that inserted it.
FilingOK(c) ==
    At(c, "key") => /\ cacheKey[req[c].run] = None /\ status[req[c].run] # "absent"
                    /\ \A b \in Requests : At(b, "key") /\ req[b].run = req[c].run => b = c
RecallInv ==
    /\ \A r \in Runs : status[r] = "absent" => cacheKey[r] = None
    /\ \A c \in Requests : FilingOK(c)
    /\ \A c \in Requests : At(c, "recalled") =>
        cacheKey[req[c].run] # None /\ pc[req[c].run] \in {"output", "receipt", "done"}

\* What reproduce compares with is what the original run computed.
RerunOK(c) ==
    /\ req[c].op \in {"rerun", "poll", "REPRODUCED", "DIVERGED"} =>
        /\ pc[req[c].orig] = "done"
        /\ req[c].claims.output = Output(req[c].orig)
        /\ req[c].claims.blobs = Output(req[c].orig)
    /\ req[c].op \in {"REPRODUCED", "DIVERGED"} => pc[req[c].run] = "done"
VerdictInv == VerdictTrue /\ \A c \in Requests : RerunOK(c)

-----------------------------------------------------------------------------
(* Types.                                                                  *)

\* Every step keeps TypeOK; the agent of an inserted run is its request's.
LEMMA TypeStep == Typed /\ [Next]_vars => TypeOK'
<1> SUFFICES ASSUME TypeOK, RowOK, ReqOK, [Next]_vars PROVE TypeOK'
  BY DEF Typed
<1> USE ProvenanceAssumption DEF Envs
<1> USE DEF secretVars, cacheVars, rowVars, jobVars, Step, Set, Fails, Works, JobOnly, ClientOnly, At, Answer
<1>1. CASE update_script
  BY <1>1 DEF update_script, TypeOK
<1>2. ASSUME NEW scope \in Agents \cup {None}, upsert_secret(scope) PROVE TypeOK'
  BY <1>2 DEF upsert_secret, TypeOK
<1>3. ASSUME NEW d \in Daemons, NEW r \in Runs, claim_run(d, r) PROVE TypeOK'
  BY <1>3 DEF claim_run, Visible, TypeOK
<1>4. ASSUME NEW r \in Runs, secrets_generation(r) PROVE TypeOK'
  <2>1. CASE Step(r, "generation", "lookup") /\ Set(rgen, r, gen) /\ Works
    BY <1>4, <2>1 DEF secrets_generation, TypeOK
  <2>2. CASE Step(r, "generation", "job") /\ Fails /\ UNCHANGED rgen
    BY <1>4, <2>2 DEF secrets_generation, TypeOK
  <2>3. QED
    BY <1>4, <2>1, <2>2 DEF secrets_generation
<1>5. ASSUME NEW r \in Runs, cache_lookup(r) PROVE TypeOK'
  <2>1. CASE Step(r, "lookup", "job") /\ Hit(r) /\ Set(env, r, cenv[daemon[r]][agent[r]])
    <3>1. cenv[daemon[r]][agent[r]] \in Envs \cup {None}
      BY <2>1 DEF TypeOK
    <3>2. QED
      BY <1>5, <2>1, <3>1 DEF cache_lookup, TypeOK
  <2>2. CASE Step(r, "lookup", "global") /\ ~Hit(r) /\ UNCHANGED env
    BY <1>5, <2>2 DEF cache_lookup, Hit, TypeOK
  <2>3. QED
    BY <1>5, <2>1, <2>2 DEF cache_lookup
<1>6. ASSUME NEW r \in Runs, load_global(r) PROVE TypeOK'
  BY <1>6 DEF load_global, TypeOK
<1>7. ASSUME NEW r \in Runs, load_scoped(r) PROVE TypeOK'
  BY <1>7 DEF load_scoped, TypeOK
<1>8. ASSUME NEW r \in Runs, cache_store(r) PROVE TypeOK'
  BY <1>8 DEF cache_store, TypeOK
<1>9. ASSUME NEW r \in Runs, finish_run(r) PROVE TypeOK'
  <2>1. CASE Step(r, "job", "output") /\ \E st \in {"succeeded", "failed"} : Set(status, r, st)
    BY <1>9, <2>1 DEF finish_run, TypeOK
  <2>2. CASE Step(r, "job", "done") /\ Set(status, r, "failed")
    BY <1>9, <2>2 DEF finish_run, TypeOK
  <2>3. QED
    BY <1>9, <2>1, <2>2 DEF finish_run
<1>10. ASSUME NEW r \in Runs, set_run_outputs(r) PROVE TypeOK'
  BY <1>10 DEF set_run_outputs, Output, TypeOK
<1>11. ASSUME NEW r \in Runs, set_run_receipt(r) PROVE TypeOK'
  BY <1>11 DEF set_run_receipt, Output, build_receipt, TypeOK
<1>12. ASSUME NEW r \in Runs, alter_receipt(r) PROVE TypeOK'
  BY <1>12 DEF alter_receipt, TypeOK
<1>13. ASSUME NEW c \in Requests, NEW a \in Agents, get_script(c, a) PROVE TypeOK'
  BY <1>13 DEF get_script, InsertRun, TypeOK
<1>14. ASSUME NEW c \in Requests, NEW r \in Runs, NEW a \in Agents, reproduce_run(c, r, a) PROVE TypeOK'
  BY <1>14 DEF reproduce_run, InsertRun, TypeOK
<1>15. ASSUME NEW c \in Requests, key_generation(c) PROVE TypeOK'
  BY <1>15 DEF key_generation, InsertRun, Visible, TypeOK
<1>16. ASSUME NEW c \in Requests, find_cached_run(c) PROVE TypeOK'
  BY <1>16 DEF find_cached_run, InsertRun, Recallable, run_cache_key, TypeOK
<1>17. ASSUME NEW c \in Requests, insert_run(c) PROVE TypeOK'
  <2>1. req[c].agent \in Agents
    BY <1>17 DEF insert_run, ReqOK, Idle, Keying, Finding, Recalled, Filing, Rerun, Polling
  <2>2. QED
    BY <1>17, <2>1 DEF insert_run, InsertRun, TypeOK
<1>18. ASSUME NEW c \in Requests, set_run_cache_key(c) PROVE TypeOK'
  BY <1>18 DEF set_run_cache_key, InsertRun, run_cache_key, TypeOK
<1>19. ASSUME NEW c \in Requests, insert_rerun(c) PROVE TypeOK'
  <2>1. req[c].agent \in Agents
    BY <1>19 DEF insert_rerun, ReqOK, Idle, Keying, Finding, Recalled, Filing, Rerun, Polling
  <2>2. QED
    BY <1>19, <2>1 DEF insert_rerun, InsertRun, TypeOK
<1>20. ASSUME NEW c \in Requests, compare_receipts(c) PROVE TypeOK'
  BY <1>20 DEF compare_receipts, InsertRun, TypeOK
<1>21. CASE UNCHANGED vars
  BY <1>21 DEF vars, TypeOK
<1>22. QED
  BY <1>1, <1>2, <1>3, <1>4, <1>5, <1>6, <1>7, <1>8, <1>9, <1>10, <1>11, <1>12, <1>13,
     <1>14, <1>15, <1>16, <1>17, <1>18, <1>19, <1>20, <1>21 DEF Next, Job_step, Client_step

\* The columns of a run and the locals of its job.
LEMMA RowStep == Typed /\ [Next]_vars => RowOK'
<1> SUFFICES ASSUME TypeOK, RowOK, ReqOK, [Next]_vars PROVE RowOK'
  BY DEF Typed
<1> USE ProvenanceAssumption
<1> USE DEF secretVars, cacheVars, rowVars, jobVars, Step, Set, Fails, Works, JobOnly, ClientOnly, At, Answer
<1>1. CASE update_script
  BY <1>1 DEF update_script, TypeOK, RowOK
<1>2. ASSUME NEW scope \in Agents \cup {None}, upsert_secret(scope) PROVE RowOK'
  BY <1>2 DEF upsert_secret, TypeOK, RowOK
<1>3. ASSUME NEW d \in Daemons, NEW r \in Runs, claim_run(d, r) PROVE RowOK'
  BY <1>3 DEF claim_run, Visible, TypeOK, RowOK
<1>4. ASSUME NEW r \in Runs, secrets_generation(r) PROVE RowOK'
  BY <1>4 DEF secrets_generation, TypeOK, RowOK
<1>5. ASSUME NEW r \in Runs, cache_lookup(r) PROVE RowOK'
  BY <1>5 DEF cache_lookup, Hit, TypeOK, RowOK
<1>6. ASSUME NEW r \in Runs, load_global(r) PROVE RowOK'
  BY <1>6 DEF load_global, TypeOK, RowOK
<1>7. ASSUME NEW r \in Runs, load_scoped(r) PROVE RowOK'
  BY <1>7 DEF load_scoped, TypeOK, RowOK
<1>8. ASSUME NEW r \in Runs, cache_store(r) PROVE RowOK'
  BY <1>8 DEF cache_store, TypeOK, RowOK
<1>9. ASSUME NEW r \in Runs, finish_run(r) PROVE RowOK'
  BY <1>9 DEF finish_run, TypeOK, RowOK
<1>10. ASSUME NEW r \in Runs, set_run_outputs(r) PROVE RowOK'
  <2>1. Output(r) \in Outputs
    BY <1>10 DEF set_run_outputs, Output, Outputs, TypeOK, RowOK
  <2>2. result' \in [Runs -> Outputs \cup {None}]
    BY <1>10, <2>1 DEF set_run_outputs, RowOK
  <2>3. blobs' \in [Runs -> Outputs \cup {None}]
    BY <1>10, <2>1 DEF set_run_outputs, RowOK
  <2>4. kept' \in [Runs -> BOOLEAN]
    BY <1>10 DEF set_run_outputs, RowOK
  <2>5. QED
    BY <1>10, <2>2, <2>3, <2>4 DEF set_run_outputs, TypeOK, RowOK
<1>11. ASSUME NEW r \in Runs, set_run_receipt(r) PROVE RowOK'
  <2>1. Output(r) \in Outputs /\ src[r] \in Sources
    BY <1>11 DEF set_run_receipt, Output, Outputs, TypeOK, RowOK
  <2>2. build_receipt(r, gen) \in Receipts /\ build_receipt(r, 0) \in Receipts
    BY <2>1 DEF build_receipt, Receipts, Claims, TypeOK
  <2>3. QED
    BY <1>11, <2>2 DEF set_run_receipt, TypeOK, RowOK
<1>12. ASSUME NEW r \in Runs, alter_receipt(r) PROVE RowOK'
  <2>1. receipt[r] \in Receipts
    BY <1>12 DEF alter_receipt, RowOK
  <2>2. ASSUME NEW s \in Sources
        PROVE  [receipt[r].claims EXCEPT !.source = s, !.output = <<s, @[2]>>, !.blobs = <<s, @[2]>>] \in Claims
    BY <2>1 DEF Receipts, Claims, Outputs
  <2>3. receipt' \in [Runs -> Receipts \cup {None}]
    <3>1. PICK s \in Sources : receipt' = [receipt EXCEPT ![r] =
              [claims |-> [receipt[r].claims EXCEPT !.source = s, !.output = <<s, @[2]>>, !.blobs = <<s, @[2]>>],
               signed |-> receipt[r].signed]]
      BY <1>12 DEF alter_receipt
    <3>2. receipt'[r] \in Receipts
      BY <2>1, <2>2, <3>1 DEF Receipts, RowOK
    <3>3. QED
      BY <3>1, <3>2 DEF RowOK
  <2>4. QED
    BY <1>12, <2>3 DEF alter_receipt, RowOK
<1>13. ASSUME NEW c \in Requests, NEW a \in Agents, get_script(c, a) PROVE RowOK'
  BY <1>13 DEF get_script, TypeOK, RowOK
<1>14. ASSUME NEW c \in Requests, NEW r \in Runs, NEW a \in Agents, reproduce_run(c, r, a) PROVE RowOK'
  BY <1>14 DEF reproduce_run, TypeOK, RowOK
<1>15. ASSUME NEW c \in Requests, key_generation(c) PROVE RowOK'
  BY <1>15 DEF key_generation, Visible, TypeOK, RowOK
<1>16. ASSUME NEW c \in Requests, find_cached_run(c) PROVE RowOK'
  BY <1>16 DEF find_cached_run, Recallable, run_cache_key, TypeOK, RowOK
<1>17. ASSUME NEW c \in Requests, insert_run(c) PROVE RowOK'
  BY <1>17 DEF insert_run, InsertRun, TypeOK, RowOK
<1>18. ASSUME NEW c \in Requests, set_run_cache_key(c) PROVE RowOK'
  <2>1. req[c].src \in Sources /\ req[c].gen \in Nat
    BY <1>18 DEF set_run_cache_key, ReqOK, Idle, Keying, Finding, Recalled, Filing, Rerun, Polling
  <2>2. cacheKey' \in [Runs -> (Sources \X Nat) \cup {None}]
    <3>1. run_cache_key(req[c].src, req[c].gen) \in Sources \X Nat
      BY <2>1 DEF run_cache_key
    <3>2. QED
      BY <1>18, <3>1 DEF set_run_cache_key, RowOK
  <2>3. QED
    BY <1>18, <2>2 DEF set_run_cache_key, RowOK
<1>19. ASSUME NEW c \in Requests, insert_rerun(c) PROVE RowOK'
  BY <1>19 DEF insert_rerun, InsertRun, TypeOK, RowOK
<1>20. ASSUME NEW c \in Requests, compare_receipts(c) PROVE RowOK'
  BY <1>20 DEF compare_receipts, TypeOK, RowOK
<1>21. CASE UNCHANGED vars
  BY <1>21 DEF vars, TypeOK, RowOK
<1>22. QED
  BY <1>1, <1>2, <1>3, <1>4, <1>5, <1>6, <1>7, <1>8, <1>9, <1>10, <1>11, <1>12, <1>13,
     <1>14, <1>15, <1>16, <1>17, <1>18, <1>19, <1>20, <1>21 DEF Next, Job_step, Client_step

\* What a request holds, by where it stands.
LEMMA ReqStep == Typed /\ [Next]_vars => ReqOK'
<1> SUFFICES ASSUME TypeOK, RowOK, ReqOK, [Next]_vars PROVE ReqOK'
  BY DEF Typed
<1> USE ProvenanceAssumption
<1> USE DEF secretVars, cacheVars, rowVars, jobVars, Step, Set, Fails, Works, JobOnly, ClientOnly, At, Answer
<1>1. CASE update_script
  BY <1>1 DEF update_script, ReqOK
<1>2. ASSUME NEW scope \in Agents \cup {None}, upsert_secret(scope) PROVE ReqOK'
  BY <1>2 DEF upsert_secret, ReqOK
<1>3. ASSUME NEW d \in Daemons, NEW r \in Runs, claim_run(d, r) PROVE ReqOK'
  BY <1>3 DEF claim_run, ReqOK
<1>4. ASSUME NEW r \in Runs, secrets_generation(r) PROVE ReqOK'
  BY <1>4 DEF secrets_generation, ReqOK
<1>5. ASSUME NEW r \in Runs, cache_lookup(r) PROVE ReqOK'
  BY <1>5 DEF cache_lookup, ReqOK
<1>6. ASSUME NEW r \in Runs, load_global(r) PROVE ReqOK'
  BY <1>6 DEF load_global, ReqOK
<1>7. ASSUME NEW r \in Runs, load_scoped(r) PROVE ReqOK'
  BY <1>7 DEF load_scoped, ReqOK
<1>8. ASSUME NEW r \in Runs, cache_store(r) PROVE ReqOK'
  BY <1>8 DEF cache_store, ReqOK
<1>9. ASSUME NEW r \in Runs, finish_run(r) PROVE ReqOK'
  BY <1>9 DEF finish_run, ReqOK
<1>10. ASSUME NEW r \in Runs, set_run_outputs(r) PROVE ReqOK'
  BY <1>10 DEF set_run_outputs, ReqOK
<1>11. ASSUME NEW r \in Runs, set_run_receipt(r) PROVE ReqOK'
  BY <1>11 DEF set_run_receipt, ReqOK
<1>12. ASSUME NEW r \in Runs, alter_receipt(r) PROVE ReqOK'
  BY <1>12 DEF alter_receipt, ReqOK
<1>13. ASSUME NEW c \in Requests, NEW a \in Agents, get_script(c, a) PROVE ReqOK'
  BY <1>13 DEF get_script, ReqOK, RowOK, Keying
<1>14. ASSUME NEW c \in Requests, NEW r \in Runs, NEW a \in Agents, reproduce_run(c, r, a) PROVE ReqOK'
  <2>1. receipt[r] # None => receipt[r].claims \in Claims
    BY DEF RowOK, Receipts
  <2>2. req'[c] \in Idle \cup Rerun
    BY <1>14, <2>1 DEF reproduce_run, ReqOK, Idle, Rerun
  <2>3. QED
    BY <1>14, <2>2 DEF reproduce_run, ReqOK
<1>15. ASSUME NEW c \in Requests, key_generation(c) PROVE ReqOK'
  <2>1. req[c] \in Keying
    BY <1>15 DEF key_generation, ReqOK, Idle, Keying, Finding, Recalled, Filing, Rerun, Polling
  <2>2. req'[c] \in Finding
    BY <1>15, <2>1 DEF key_generation, Visible, TypeOK, RowOK, ReqOK, Keying, Finding, Envs
  <2>3. QED
    BY <1>15, <2>2 DEF key_generation, ReqOK
<1>16. ASSUME NEW c \in Requests, find_cached_run(c) PROVE ReqOK'
  <2>1. req[c] \in Finding
    BY <1>16 DEF find_cached_run, ReqOK, Idle, Keying, Finding, Recalled, Filing, Rerun, Polling
  <2>2. CASE req' = [req EXCEPT ![c] = [req[c] EXCEPT !.op = "insert"]]
    <3>1. [req[c] EXCEPT !.op = "insert"] \in Finding
      BY <2>1 DEF Finding
    <3>2. QED
      BY <2>2, <3>1 DEF ReqOK
  <2>3. ASSUME NEW r \in Runs,
               req' = [req EXCEPT ![c] = [op |-> "recalled", agent |-> req[c].agent, src |-> req[c].src,
                                          want |-> req[c].want, run |-> r, out |-> result[r]]]
        PROVE  ReqOK'
    <3>1. req'[c] \in Recalled
      BY <2>1, <2>3 DEF ReqOK, RowOK, Finding, Recalled
    <3>2. QED
      BY <2>3, <3>1 DEF ReqOK
  <2>4. QED
    BY <1>16, <2>2, <2>3 DEF find_cached_run, Recallable
<1>17. ASSUME NEW c \in Requests, insert_run(c) PROVE ReqOK'
  <2>1. req[c] \in Finding
    BY <1>17 DEF insert_run, ReqOK, Idle, Keying, Finding, Recalled, Filing, Rerun, Polling
  <2>2. req'[c] \in Filing
    BY <1>17, <2>1 DEF insert_run, InsertRun, TypeOK, RowOK, ReqOK, Finding, Filing
  <2>3. QED
    BY <1>17, <2>2 DEF insert_run, ReqOK
<1>18. ASSUME NEW c \in Requests, set_run_cache_key(c) PROVE ReqOK'
  <2>1. req[c] \in Filing
    BY <1>18 DEF set_run_cache_key, ReqOK, Idle, Keying, Finding, Recalled, Filing, Rerun, Polling
  <2>2. req'[c] \in Idle
    BY <1>18, <2>1 DEF set_run_cache_key, run_cache_key, TypeOK, RowOK, ReqOK, Filing, Idle
  <2>3. QED
    BY <1>18, <2>2 DEF set_run_cache_key, ReqOK
<1>19. ASSUME NEW c \in Requests, insert_rerun(c) PROVE ReqOK'
  <2>1. req[c] \in Rerun
    BY <1>19 DEF insert_rerun, ReqOK, Idle, Keying, Finding, Recalled, Filing, Rerun, Polling
  <2>2. req'[c] \in Polling
    BY <1>19, <2>1 DEF insert_rerun, InsertRun, TypeOK, RowOK, ReqOK, Rerun, Polling
  <2>3. QED
    BY <1>19, <2>2 DEF insert_rerun, ReqOK
<1>20. ASSUME NEW c \in Requests, compare_receipts(c) PROVE ReqOK'
  <2>1. req[c] \in Polling
    BY <1>20 DEF compare_receipts, ReqOK, Idle, Keying, Finding, Recalled, Filing, Rerun, Polling
  <2>2. ASSUME NEW op \in {"REPRODUCED", "DIVERGED"} PROVE [req[c] EXCEPT !.op = op] \in Polling
    BY <2>1 DEF Polling
  <2>3. CASE req' = [req EXCEPT ![c] = [op |-> "INCONCLUSIVE"]]
    BY <2>3 DEF ReqOK, Idle
  <2>4. ASSUME NEW op \in {"REPRODUCED", "DIVERGED"}, req' = [req EXCEPT ![c] = [req[c] EXCEPT !.op = op]]
        PROVE  ReqOK'
    BY <2>2, <2>4 DEF ReqOK
  <2>5. QED
    BY <1>20, <2>3, <2>4 DEF compare_receipts
<1>21. CASE UNCHANGED vars
  BY <1>21 DEF vars, ReqOK
<1>22. QED
  BY <1>1, <1>2, <1>3, <1>4, <1>5, <1>6, <1>7, <1>8, <1>9, <1>10, <1>11, <1>12, <1>13,
     <1>14, <1>15, <1>16, <1>17, <1>18, <1>19, <1>20, <1>21 DEF Next, Job_step, Client_step

\* The types, of all variables together, are inductive.
LEMMA TypedStep == Typed /\ [Next]_vars => Typed'
BY TypeStep, RowStep, ReqStep DEF Typed

-----------------------------------------------------------------------------
(* Secrets: jobs and caches.                                               *)

\* Values read under the generation of now stay current; any rotation ends it.
LEMMA JobCurrentStep ==
  ASSUME Typed, SecretsInv, [Next]_vars
  PROVE  \A q \in Runs : JobCurrent(q)'
<1> SUFFICES ASSUME NEW q \in Runs PROVE JobCurrent(q)'
  OBVIOUS
<1>0. TypeOK /\ JobCurrent(q) /\ CacheCurrent
  BY DEF Typed, SecretsInv, CacheOK
<1> USE <1>0, ProvenanceAssumption DEF Visible, Newer, Envs
<1> USE DEF secretVars, cacheVars, rowVars, jobVars, Step, Set, Fails, Works, JobOnly, ClientOnly, At, Answer
<1>1. CASE update_script
  BY <1>1 DEF update_script, TypeOK, JobCurrent
<1>2. ASSUME NEW scope \in Agents \cup {None}, upsert_secret(scope) PROVE JobCurrent(q)'
  BY <1>2 DEF upsert_secret, TypeOK, JobCurrent
<1>3. ASSUME NEW d \in Daemons, NEW r \in Runs, claim_run(d, r) PROVE JobCurrent(q)'
  BY <1>3 DEF claim_run, Visible, TypeOK, JobCurrent
<1>4. ASSUME NEW r \in Runs, secrets_generation(r) PROVE JobCurrent(q)'
  BY <1>4 DEF secrets_generation, TypeOK, JobCurrent
<1>5. ASSUME NEW r \in Runs, cache_lookup(r) PROVE JobCurrent(q)'
  BY <1>5 DEF cache_lookup, Hit, TypeOK, JobCurrent, CacheCurrent
<1>6. ASSUME NEW r \in Runs, load_global(r) PROVE JobCurrent(q)'
  BY <1>6 DEF load_global, TypeOK, JobCurrent
<1>7. ASSUME NEW r \in Runs, load_scoped(r) PROVE JobCurrent(q)'
  BY <1>7 DEF load_scoped, TypeOK, JobCurrent
<1>8. ASSUME NEW r \in Runs, cache_store(r) PROVE JobCurrent(q)'
  BY <1>8 DEF cache_store, TypeOK, JobCurrent
<1>9. ASSUME NEW r \in Runs, finish_run(r) PROVE JobCurrent(q)'
  BY <1>9 DEF finish_run, TypeOK, JobCurrent
<1>10. ASSUME NEW r \in Runs, set_run_outputs(r) PROVE JobCurrent(q)'
  BY <1>10 DEF set_run_outputs, Output, TypeOK, JobCurrent
<1>11. ASSUME NEW r \in Runs, set_run_receipt(r) PROVE JobCurrent(q)'
  BY <1>11 DEF set_run_receipt, Output, build_receipt, TypeOK, JobCurrent
<1>12. ASSUME NEW r \in Runs, alter_receipt(r) PROVE JobCurrent(q)'
  BY <1>12 DEF alter_receipt, TypeOK, JobCurrent
<1>13. ASSUME NEW c \in Requests, NEW a \in Agents, get_script(c, a) PROVE JobCurrent(q)'
  BY <1>13 DEF get_script, TypeOK, JobCurrent
<1>14. ASSUME NEW c \in Requests, NEW r \in Runs, NEW a \in Agents, reproduce_run(c, r, a) PROVE JobCurrent(q)'
  BY <1>14 DEF reproduce_run, TypeOK, JobCurrent
<1>15. ASSUME NEW c \in Requests, key_generation(c) PROVE JobCurrent(q)'
  BY <1>15 DEF key_generation, Visible, TypeOK, JobCurrent
<1>16. ASSUME NEW c \in Requests, find_cached_run(c) PROVE JobCurrent(q)'
  BY <1>16 DEF find_cached_run, Recallable, run_cache_key, TypeOK, JobCurrent
<1>17. ASSUME NEW c \in Requests, insert_run(c) PROVE JobCurrent(q)'
  BY <1>17 DEF insert_run, InsertRun, TypeOK, JobCurrent
<1>18. ASSUME NEW c \in Requests, set_run_cache_key(c) PROVE JobCurrent(q)'
  BY <1>18 DEF set_run_cache_key, run_cache_key, TypeOK, JobCurrent
<1>19. ASSUME NEW c \in Requests, insert_rerun(c) PROVE JobCurrent(q)'
  BY <1>19 DEF insert_rerun, InsertRun, TypeOK, JobCurrent
<1>20. ASSUME NEW c \in Requests, compare_receipts(c) PROVE JobCurrent(q)'
  BY <1>20 DEF compare_receipts, TypeOK, JobCurrent
<1>21. CASE UNCHANGED vars
  BY <1>21 DEF vars, TypeOK, JobCurrent
<1>22. QED
  BY <1>1, <1>2, <1>3, <1>4, <1>5, <1>6, <1>7, <1>8, <1>9, <1>10, <1>11, <1>12, <1>13,
     <1>14, <1>15, <1>16, <1>17, <1>18, <1>19, <1>20, <1>21 DEF Next, Job_step, Client_step

\* The caches: cache_store files under the generation its values were read in.
LEMMA CacheStep == Typed /\ SecretsInv /\ [Next]_vars => CacheOK'
<1> SUFFICES ASSUME Typed, SecretsInv, [Next]_vars PROVE CacheOK'
  OBVIOUS
<1>0. TypeOK /\ CacheOK /\ \A q \in Runs : JobCurrent(q)
  BY DEF Typed, SecretsInv
<1> USE <1>0, ProvenanceAssumption DEF Visible, Envs
<1> USE DEF secretVars, cacheVars, rowVars, jobVars, Step, Set, Fails, Works, JobOnly, ClientOnly, At, Answer
<1>1. CASE update_script
  BY <1>1 DEF update_script, CacheOK, CacheCurrent
<1>2. ASSUME NEW scope \in Agents \cup {None}, upsert_secret(scope) PROVE CacheOK'
  <2>1. gen' = gen + 1 /\ UNCHANGED <<cgen, cenv>>
    BY <1>2 DEF upsert_secret
  <2>2. \A d \in Daemons : cgen[d] \in Nat /\ cgen[d] <= gen
    BY DEF TypeOK, CacheOK
  <2>3. QED
    BY <2>1, <2>2 DEF TypeOK, CacheOK, CacheCurrent
<1>3. ASSUME NEW d \in Daemons, NEW r \in Runs, claim_run(d, r) PROVE CacheOK'
  BY <1>3 DEF claim_run, CacheOK, CacheCurrent
<1>4. ASSUME NEW r \in Runs, secrets_generation(r) PROVE CacheOK'
  BY <1>4 DEF secrets_generation, CacheOK, CacheCurrent
<1>5. ASSUME NEW r \in Runs, cache_lookup(r) PROVE CacheOK'
  BY <1>5 DEF cache_lookup, CacheOK, CacheCurrent
<1>6. ASSUME NEW r \in Runs, load_global(r) PROVE CacheOK'
  BY <1>6 DEF load_global, CacheOK, CacheCurrent
<1>7. ASSUME NEW r \in Runs, load_scoped(r) PROVE CacheOK'
  BY <1>7 DEF load_scoped, CacheOK, CacheCurrent
<1>8. ASSUME NEW r \in Runs, cache_store(r) PROVE CacheOK'
  <2>1. daemon[r] \in Daemons /\ agent[r] \in Agents /\ rgen[r] \in Nat /\ gen \in Nat
    BY <1>8 DEF cache_store, TypeOK
  <2>2. rgen[r] <= gen /\ (rgen[r] = gen => env[r] = Visible(agent[r]))
    BY <1>8 DEF cache_store, JobCurrent
  <2>3. UNCHANGED <<gen, glob, scoped>>
    BY <1>8 DEF cache_store
  <2>4. ASSUME NEW d \in Daemons
        PROVE  cgen'[d] <= gen' /\ \A a \in Agents : cgen'[d] = gen' /\ cenv'[d][a] # None => cenv'[d][a] = Visible(a)'
    <3>1. CASE d # daemon[r]
      BY <1>8, <2>1, <2>3, <3>1 DEF cache_store, TypeOK, CacheOK, CacheCurrent
    <3>2. CASE d = daemon[r]
      <4>1. /\ cgen'[d] = rgen[r]
            /\ cenv'[d] = [a \in Agents |-> IF a = agent[r] THEN env[r]
                                          ELSE IF cgen[d] = rgen[r] THEN cenv[d][a] ELSE None]
        BY <1>8, <2>1, <3>2 DEF cache_store, TypeOK
      <4>2. QED
        BY <2>1, <2>2, <2>3, <4>1 DEF CacheOK, CacheCurrent
    <3>3. QED
      BY <3>1, <3>2
  <2>5. QED
    BY <2>4 DEF CacheOK, CacheCurrent
<1>9. ASSUME NEW r \in Runs, finish_run(r) PROVE CacheOK'
  BY <1>9 DEF finish_run, CacheOK, CacheCurrent
<1>10. ASSUME NEW r \in Runs, set_run_outputs(r) PROVE CacheOK'
  BY <1>10 DEF set_run_outputs, CacheOK, CacheCurrent
<1>11. ASSUME NEW r \in Runs, set_run_receipt(r) PROVE CacheOK'
  BY <1>11 DEF set_run_receipt, CacheOK, CacheCurrent
<1>12. ASSUME NEW r \in Runs, alter_receipt(r) PROVE CacheOK'
  BY <1>12 DEF alter_receipt, CacheOK, CacheCurrent
<1>13. ASSUME NEW c \in Requests, NEW a \in Agents, get_script(c, a) PROVE CacheOK'
  BY <1>13 DEF get_script, CacheOK, CacheCurrent
<1>14. ASSUME NEW c \in Requests, NEW r \in Runs, NEW a \in Agents, reproduce_run(c, r, a) PROVE CacheOK'
  BY <1>14 DEF reproduce_run, CacheOK, CacheCurrent
<1>15. ASSUME NEW c \in Requests, key_generation(c) PROVE CacheOK'
  BY <1>15 DEF key_generation, CacheOK, CacheCurrent
<1>16. ASSUME NEW c \in Requests, find_cached_run(c) PROVE CacheOK'
  BY <1>16 DEF find_cached_run, CacheOK, CacheCurrent
<1>17. ASSUME NEW c \in Requests, insert_run(c) PROVE CacheOK'
  BY <1>17 DEF insert_run, InsertRun, CacheOK, CacheCurrent
<1>18. ASSUME NEW c \in Requests, set_run_cache_key(c) PROVE CacheOK'
  BY <1>18 DEF set_run_cache_key, CacheOK, CacheCurrent
<1>19. ASSUME NEW c \in Requests, insert_rerun(c) PROVE CacheOK'
  BY <1>19 DEF insert_rerun, InsertRun, CacheOK, CacheCurrent
<1>20. ASSUME NEW c \in Requests, compare_receipts(c) PROVE CacheOK'
  BY <1>20 DEF compare_receipts, CacheOK, CacheCurrent
<1>21. CASE UNCHANGED vars
  BY <1>21 DEF vars, CacheOK, CacheCurrent
<1>22. QED
  BY <1>1, <1>2, <1>3, <1>4, <1>5, <1>6, <1>7, <1>8, <1>9, <1>10, <1>11, <1>12, <1>13,
     <1>14, <1>15, <1>16, <1>17, <1>18, <1>19, <1>20, <1>21 DEF Next, Job_step, Client_step

\* What is held under the generation of now is current.
LEMMA HoldsNow ==
  ASSUME Typed, SecretsInv, NEW a \in Agents, NEW low \in Envs, Newer(Visible(a), low)
  PROVE  Holds(gen, a, low)
<1>1. \A q \in Runs : rgen[q] = gen /\ pc[q] = "scoped" => rglob[q] >= low[1]
  BY DEF Typed, TypeOK, SecretsInv, JobCurrent, Visible, Newer
<1>2. \A q \in Runs : rgen[q] = gen /\ agent[q] = a /\ env[q] # None => Newer(env[q], low)
  BY DEF Typed, TypeOK, SecretsInv, JobCurrent
<1>3. \A d \in Daemons : cgen[d] = gen /\ cenv[d][a] # None => Newer(cenv[d][a], low)
  BY DEF Typed, TypeOK, SecretsInv, CacheOK, CacheCurrent
<1>4. QED
  BY <1>1, <1>2, <1>3 DEF Holds

\* Whatever is read or filed later under an old generation is newer still.
LEMMA HoldsStep ==
  ASSUME Typed, SecretsInv, [Next]_vars,
         NEW g \in Nat, NEW a \in Agents, NEW low \in Envs,
         Newer(Visible(a), low), Holds(g, a, low)
  PROVE  Holds(g, a, low)'
<1>0. TypeOK /\ \A q \in Runs : JobCurrent(q)
  BY DEF Typed, SecretsInv
<1> USE <1>0, ProvenanceAssumption DEF Visible, Newer, Envs
<1> USE DEF secretVars, cacheVars, rowVars, jobVars, Step, Set, Fails, Works, JobOnly, ClientOnly, At, Answer
<1>1. CASE update_script
  BY <1>1 DEF update_script, TypeOK, JobCurrent, Holds
<1>2. ASSUME NEW scope \in Agents \cup {None}, upsert_secret(scope) PROVE Holds(g, a, low)'
  BY <1>2 DEF upsert_secret, TypeOK, JobCurrent, Holds
<1>3. ASSUME NEW d \in Daemons, NEW r \in Runs, claim_run(d, r) PROVE Holds(g, a, low)'
  BY <1>3 DEF claim_run, Visible, TypeOK, JobCurrent, Holds
<1>4. ASSUME NEW r \in Runs, secrets_generation(r) PROVE Holds(g, a, low)'
  BY <1>4 DEF secrets_generation, TypeOK, JobCurrent, Holds
<1>5. ASSUME NEW r \in Runs, cache_lookup(r) PROVE Holds(g, a, low)'
  BY <1>5 DEF cache_lookup, Hit, TypeOK, JobCurrent, Holds
<1>6. ASSUME NEW r \in Runs, load_global(r) PROVE Holds(g, a, low)'
  BY <1>6 DEF load_global, TypeOK, JobCurrent, Holds
<1>7. ASSUME NEW r \in Runs, load_scoped(r) PROVE Holds(g, a, low)'
  BY <1>7 DEF load_scoped, TypeOK, JobCurrent, Holds
<1>8. ASSUME NEW r \in Runs, cache_store(r) PROVE Holds(g, a, low)'
  BY <1>8 DEF cache_store, TypeOK, JobCurrent, Holds
<1>9. ASSUME NEW r \in Runs, finish_run(r) PROVE Holds(g, a, low)'
  BY <1>9 DEF finish_run, TypeOK, JobCurrent, Holds
<1>10. ASSUME NEW r \in Runs, set_run_outputs(r) PROVE Holds(g, a, low)'
  BY <1>10 DEF set_run_outputs, Output, TypeOK, JobCurrent, Holds
<1>11. ASSUME NEW r \in Runs, set_run_receipt(r) PROVE Holds(g, a, low)'
  BY <1>11 DEF set_run_receipt, Output, build_receipt, TypeOK, JobCurrent, Holds
<1>12. ASSUME NEW r \in Runs, alter_receipt(r) PROVE Holds(g, a, low)'
  BY <1>12 DEF alter_receipt, TypeOK, JobCurrent, Holds
<1>13. ASSUME NEW c \in Requests, NEW b \in Agents, get_script(c, b) PROVE Holds(g, a, low)'
  BY <1>13 DEF get_script, TypeOK, JobCurrent, Holds
<1>14. ASSUME NEW c \in Requests, NEW r \in Runs, NEW b \in Agents, reproduce_run(c, r, b) PROVE Holds(g, a, low)'
  BY <1>14 DEF reproduce_run, TypeOK, JobCurrent, Holds
<1>15. ASSUME NEW c \in Requests, key_generation(c) PROVE Holds(g, a, low)'
  BY <1>15 DEF key_generation, Visible, TypeOK, JobCurrent, Holds
<1>16. ASSUME NEW c \in Requests, find_cached_run(c) PROVE Holds(g, a, low)'
  BY <1>16 DEF find_cached_run, Recallable, run_cache_key, TypeOK, JobCurrent, Holds
<1>17. ASSUME NEW c \in Requests, insert_run(c) PROVE Holds(g, a, low)'
  BY <1>17 DEF insert_run, InsertRun, TypeOK, JobCurrent, Holds
<1>18. ASSUME NEW c \in Requests, set_run_cache_key(c) PROVE Holds(g, a, low)'
  BY <1>18 DEF set_run_cache_key, run_cache_key, TypeOK, JobCurrent, Holds
<1>19. ASSUME NEW c \in Requests, insert_rerun(c) PROVE Holds(g, a, low)'
  BY <1>19 DEF insert_rerun, InsertRun, TypeOK, JobCurrent, Holds
<1>20. ASSUME NEW c \in Requests, compare_receipts(c) PROVE Holds(g, a, low)'
  BY <1>20 DEF compare_receipts, TypeOK, JobCurrent, Holds
<1>21. CASE UNCHANGED vars
  BY <1>21 DEF vars, TypeOK, JobCurrent, Holds
<1>22. QED
  BY <1>1, <1>2, <1>3, <1>4, <1>5, <1>6, <1>7, <1>8, <1>9, <1>10, <1>11, <1>12, <1>13,
     <1>14, <1>15, <1>16, <1>17, <1>18, <1>19, <1>20, <1>21 DEF Next, Job_step, Client_step

\* Secrets only grow, and not without the generation.
LEMMA SecretsGrow ==
  ASSUME Typed, [Next]_vars, NEW a \in Agents
  PROVE  /\ gen' >= gen /\ Newer(Visible(a)', Visible(a))
         /\ gen' = gen => Visible(a)' = Visible(a)
<1> DEFINE Goal == /\ gen' >= gen /\ Newer(Visible(a)', Visible(a))
                   /\ gen' = gen => Visible(a)' = Visible(a)
<1>0. gen \in Nat /\ glob \in Nat /\ scoped \in [Agents -> Nat]
  BY DEF Typed, TypeOK
<1> USE <1>0 DEF Visible, Newer
<1>1. CASE UNCHANGED secretVars
  BY <1>1 DEF secretVars
<1>2. ASSUME NEW scope \in Agents \cup {None}, upsert_secret(scope) PROVE Goal
  BY <1>2, ProvenanceAssumption DEF upsert_secret, Set
<1>3. QED
  <2>1. UNCHANGED secretVars \/ \E scope \in Agents \cup {None} : upsert_secret(scope)
    BY DEF Next, Job_step, Client_step, vars, update_script, claim_run, secrets_generation,
           cache_lookup, load_global, load_scoped, cache_store, finish_run, set_run_outputs,
           set_run_receipt, alter_receipt, get_script, reproduce_run, key_generation,
           find_cached_run, insert_run, set_run_cache_key, insert_rerun, compare_receipts,
           JobOnly, ClientOnly
  <2>2. QED
    BY <1>1, <1>2, <2>1

\* A job that knows its generation keeps it; one that learns it reads the current one.
LEMMA KnowsStep ==
  ASSUME Typed, SecretsInv, [Next]_vars, NEW q \in Runs, Knows(q)'
  PROVE  /\ pc[q] # "none" /\ agent'[q] = agent[q] /\ floor'[q] = floor[q]
         /\ \/ Knows(q) /\ rgen'[q] = rgen[q]
            \/ ~Knows(q) /\ rgen'[q] = gen /\ UNCHANGED <<secretVars, req>>
<1> DEFINE Goal ==
       /\ pc[q] # "none" /\ agent'[q] = agent[q] /\ floor'[q] = floor[q]
       /\ \/ Knows(q) /\ rgen'[q] = rgen[q]
          \/ ~Knows(q) /\ rgen'[q] = gen /\ UNCHANGED <<secretVars, req>>
<1>0. TypeOK /\ JobCurrent(q)
  BY DEF Typed, SecretsInv
<1> USE <1>0, ProvenanceAssumption DEF Knows, Reading
<1> USE DEF secretVars, cacheVars, rowVars, jobVars, Step, Set, Fails, Works, JobOnly, ClientOnly, At, Answer
<1>1. CASE update_script
  BY <1>1 DEF update_script, TypeOK, JobCurrent
<1>2. ASSUME NEW scope \in Agents \cup {None}, upsert_secret(scope) PROVE Goal
  BY <1>2 DEF upsert_secret, TypeOK, JobCurrent
<1>3. ASSUME NEW d \in Daemons, NEW r \in Runs, claim_run(d, r) PROVE Goal
  BY <1>3 DEF claim_run, Visible, TypeOK, JobCurrent
<1>4. ASSUME NEW r \in Runs, secrets_generation(r) PROVE Goal
  BY <1>4 DEF secrets_generation, TypeOK, JobCurrent
<1>5. ASSUME NEW r \in Runs, cache_lookup(r) PROVE Goal
  BY <1>5 DEF cache_lookup, Hit, TypeOK, JobCurrent
<1>6. ASSUME NEW r \in Runs, load_global(r) PROVE Goal
  BY <1>6 DEF load_global, TypeOK, JobCurrent
<1>7. ASSUME NEW r \in Runs, load_scoped(r) PROVE Goal
  BY <1>7 DEF load_scoped, TypeOK, JobCurrent
<1>8. ASSUME NEW r \in Runs, cache_store(r) PROVE Goal
  BY <1>8 DEF cache_store, TypeOK, JobCurrent
<1>9. ASSUME NEW r \in Runs, finish_run(r) PROVE Goal
  BY <1>9 DEF finish_run, TypeOK, JobCurrent
<1>10. ASSUME NEW r \in Runs, set_run_outputs(r) PROVE Goal
  BY <1>10 DEF set_run_outputs, Output, TypeOK, JobCurrent
<1>11. ASSUME NEW r \in Runs, set_run_receipt(r) PROVE Goal
  BY <1>11 DEF set_run_receipt, Output, build_receipt, TypeOK, JobCurrent
<1>12. ASSUME NEW r \in Runs, alter_receipt(r) PROVE Goal
  BY <1>12 DEF alter_receipt, TypeOK, JobCurrent
<1>13. ASSUME NEW c \in Requests, NEW a \in Agents, get_script(c, a) PROVE Goal
  BY <1>13 DEF get_script, TypeOK, JobCurrent
<1>14. ASSUME NEW c \in Requests, NEW r \in Runs, NEW a \in Agents, reproduce_run(c, r, a) PROVE Goal
  BY <1>14 DEF reproduce_run, TypeOK, JobCurrent
<1>15. ASSUME NEW c \in Requests, key_generation(c) PROVE Goal
  BY <1>15 DEF key_generation, Visible, TypeOK, JobCurrent
<1>16. ASSUME NEW c \in Requests, find_cached_run(c) PROVE Goal
  BY <1>16 DEF find_cached_run, Recallable, run_cache_key, TypeOK, JobCurrent
<1>17. ASSUME NEW c \in Requests, insert_run(c) PROVE Goal
  BY <1>17 DEF insert_run, InsertRun, TypeOK, JobCurrent
<1>18. ASSUME NEW c \in Requests, set_run_cache_key(c) PROVE Goal
  BY <1>18 DEF set_run_cache_key, run_cache_key, TypeOK, JobCurrent
<1>19. ASSUME NEW c \in Requests, insert_rerun(c) PROVE Goal
  BY <1>19 DEF insert_rerun, InsertRun, TypeOK, JobCurrent
<1>20. ASSUME NEW c \in Requests, compare_receipts(c) PROVE Goal
  BY <1>20 DEF compare_receipts, TypeOK, JobCurrent
<1>21. CASE UNCHANGED vars
  BY <1>21 DEF vars, TypeOK, JobCurrent
<1>22. QED
  BY <1>1, <1>2, <1>3, <1>4, <1>5, <1>6, <1>7, <1>8, <1>9, <1>10, <1>11, <1>12, <1>13,
     <1>14, <1>15, <1>16, <1>17, <1>18, <1>19, <1>20, <1>21 DEF Next, Job_step, Client_step

\* What a job may find in the cache is never older than it was promised.
LEMMA LookupStep == Typed /\ SecretsInv /\ [Next]_vars => \A r \in Runs : LookupOK(r)'
<1> SUFFICES ASSUME Typed, SecretsInv, [Next]_vars, NEW r \in Runs, Knows(r)'
             PROVE  LookupOK(r)'
  BY DEF LookupOK
<1>1. /\ pc[r] # "none" /\ agent'[r] = agent[r] /\ floor'[r] = floor[r]
      /\ \/ Knows(r) /\ rgen'[r] = rgen[r]
         \/ ~Knows(r) /\ rgen'[r] = gen /\ UNCHANGED <<secretVars, req>>
  BY KnowsStep
<1>2. agent[r] \in Agents /\ floor[r] \in Envs /\ rgen[r] \in Nat /\ gen \in Nat
  BY <1>1 DEF Typed, TypeOK
<1>3. Newer(Visible(agent[r]), floor[r])
  BY <1>1 DEF SecretsInv, JobCurrent
<1>4. rgen'[r] \in Nat /\ Holds(rgen'[r], agent[r], floor[r])
  <2>1. CASE Knows(r) /\ rgen'[r] = rgen[r]
    BY <1>2, <2>1 DEF SecretsInv, LookupOK
  <2>2. CASE rgen'[r] = gen
    BY <1>2, <1>3, <2>2, HoldsNow
  <2>3. QED
    BY <1>1, <2>1, <2>2
<1>5. PICK g \in Nat, a \in Agents, low \in Envs : g = rgen'[r] /\ a = agent[r] /\ low = floor[r]
  BY <1>2, <1>4
<1>6. Holds(g, a, low)'
  BY <1>3, <1>4, <1>5, HoldsStep
<1>7. QED
  BY <1>1, <1>5, <1>6 DEF LookupOK

\* Nothing has happened yet, so every column is empty and every request is new.
LEMMA TypedInit == Init => Typed
  BY ProvenanceAssumption
     DEF Init, Typed, TypeOK, RowOK, ReqOK, Idle, Keying, Finding, Recalled, Filing, Rerun,
         Polling, Envs

\* All that follows rests on this: every variable stays in its type, the columns and
\* the requests included.
LEMMA TypedHolds == Spec => []Typed
  BY TypedInit, TypedStep, PTL DEF Spec

\* Every reachable state of the secrets, the caches, the jobs that read them and the
\* generations they carry is well typed, for any constants.
THEOREM ProvenanceTypeCorrect == Spec => []TypeOK
<1>1. Typed => TypeOK
  BY DEF Typed
<1>2. QED
  BY <1>1, TypedHolds, PTL

\* No job has read a generation and every cache is empty.
LEMMA SecretsInit == Init => SecretsInv
  BY DEF Init, SecretsInv, JobCurrent, LookupOK, Knows, Reading, CacheOK, CacheCurrent

\* SecretsInv is inductive given the types.
LEMMA SecretsHold == Spec => []SecretsInv
<1>1. Typed /\ SecretsInv /\ [Next]_vars => SecretsInv'
  BY JobCurrentStep, LookupStep, CacheStep DEF SecretsInv
<1>2. QED
  BY <1>1, SecretsInit, TypedHolds, PTL DEF Spec

\* db.rs all_secrets_for: an entry filed under the generation of now holds the
\* secrets of now, however reads and rotations interleave.
THEOREM CacheCurrentHolds == Spec => []CacheCurrent
<1>1. SecretsInv => CacheCurrent
  BY DEF SecretsInv, CacheOK
<1>2. QED
  BY <1>1, SecretsHold, PTL

\* Rotating a secret takes effect for every run claimed afterwards: what the job was
\* given was read or filed under its generation, and so is not older than its claim.
THEOREM RotationEffectiveHolds == Spec => []RotationEffective
<1>1. ASSUME Typed, SecretsInv, NEW r \in Runs, env[r] # None
      PROVE  Newer(env[r], floor[r])
  BY <1>1 DEF SecretsInv, LookupOK, Knows, Holds
<1>2. Typed /\ SecretsInv => RotationEffective
  BY <1>1 DEF RotationEffective, Newer
<1>3. QED
  BY <1>2, TypedHolds, SecretsHold, PTL

-----------------------------------------------------------------------------
(* What a row says about its job.                                          *)

\* The job of r ran.
Settled(r) == pc[r] \in {"output", "receipt", "done"}

\* Once a job ran, what its output is a function of no longer changes.
LEMMA SettledStep ==
  ASSUME Typed, [Next]_vars, NEW q \in Runs, Settled(q)
  PROVE  /\ Settled(q)' /\ Output(q)' = Output(q) /\ status'[q] = status[q]
         /\ agent'[q] = agent[q] /\ rgen'[q] = rgen[q] /\ floor'[q] = floor[q]
<1> DEFINE Goal ==
       /\ Settled(q)' /\ src'[q] = src[q] /\ env'[q] = env[q] /\ status'[q] = status[q]
       /\ agent'[q] = agent[q] /\ rgen'[q] = rgen[q] /\ floor'[q] = floor[q]
<1>0. TypeOK /\ RowOK
  BY DEF Typed
<1> USE <1>0, ProvenanceAssumption DEF Settled, TypeOK, RowOK
<1> SUFFICES Goal
  BY DEF Output
<1> USE DEF secretVars, cacheVars, rowVars, jobVars, Step, Set, Fails, Works, JobOnly, ClientOnly, At, Answer
<1>1. CASE update_script
  BY <1>1 DEF update_script
<1>2. ASSUME NEW scope \in Agents \cup {None}, upsert_secret(scope) PROVE Goal
  BY <1>2 DEF upsert_secret
<1>3. ASSUME NEW d \in Daemons, NEW r \in Runs, claim_run(d, r) PROVE Goal
  BY <1>3 DEF claim_run
<1>4. ASSUME NEW r \in Runs, secrets_generation(r) PROVE Goal
  BY <1>4 DEF secrets_generation
<1>5. ASSUME NEW r \in Runs, cache_lookup(r) PROVE Goal
  BY <1>5 DEF cache_lookup
<1>6. ASSUME NEW r \in Runs, load_global(r) PROVE Goal
  BY <1>6 DEF load_global
<1>7. ASSUME NEW r \in Runs, load_scoped(r) PROVE Goal
  BY <1>7 DEF load_scoped
<1>8. ASSUME NEW r \in Runs, cache_store(r) PROVE Goal
  BY <1>8 DEF cache_store
<1>9. ASSUME NEW r \in Runs, finish_run(r) PROVE Goal
  BY <1>9 DEF finish_run
<1>10. ASSUME NEW r \in Runs, set_run_outputs(r) PROVE Goal
  BY <1>10 DEF set_run_outputs
<1>11. ASSUME NEW r \in Runs, set_run_receipt(r) PROVE Goal
  BY <1>11 DEF set_run_receipt
<1>12. ASSUME NEW r \in Runs, alter_receipt(r) PROVE Goal
  BY <1>12 DEF alter_receipt
<1>13. ASSUME NEW c \in Requests, NEW a \in Agents, get_script(c, a) PROVE Goal
  BY <1>13 DEF get_script
<1>14. ASSUME NEW c \in Requests, NEW r \in Runs, NEW a \in Agents, reproduce_run(c, r, a) PROVE Goal
  BY <1>14 DEF reproduce_run
<1>15. ASSUME NEW c \in Requests, key_generation(c) PROVE Goal
  BY <1>15 DEF key_generation
<1>16. ASSUME NEW c \in Requests, find_cached_run(c) PROVE Goal
  BY <1>16 DEF find_cached_run
<1>17. ASSUME NEW c \in Requests, insert_run(c) PROVE Goal
  BY <1>17 DEF insert_run, InsertRun
<1>18. ASSUME NEW c \in Requests, set_run_cache_key(c) PROVE Goal
  BY <1>18 DEF set_run_cache_key
<1>19. ASSUME NEW c \in Requests, insert_rerun(c) PROVE Goal
  BY <1>19 DEF insert_rerun, InsertRun
<1>20. ASSUME NEW c \in Requests, compare_receipts(c) PROVE Goal
  BY <1>20 DEF compare_receipts
<1>21. CASE UNCHANGED vars
  BY <1>21 DEF vars
<1>22. QED
  BY <1>1, <1>2, <1>3, <1>4, <1>5, <1>6, <1>7, <1>8, <1>9, <1>10, <1>11, <1>12, <1>13,
     <1>14, <1>15, <1>16, <1>17, <1>18, <1>19, <1>20, <1>21 DEF Next, Job_step, Client_step

\* A job writes its columns in the order result and blobs, then receipt.
LEMMA ReceiptStep == Typed /\ ReceiptInv /\ [Next]_vars => ReceiptInv'
<1> SUFFICES ASSUME Typed, ReceiptInv, [Next]_vars, NEW q \in Runs PROVE OutputOK(q)'
  BY DEF ReceiptInv
<1>0. TypeOK /\ RowOK /\ OutputOK(q)
  BY DEF Typed, ReceiptInv
<1> USE <1>0, ProvenanceAssumption DEF TypeOK, RowOK, OutputOK, Output
<1> USE DEF secretVars, cacheVars, rowVars, jobVars, Step, Set, Fails, Works, JobOnly, ClientOnly, At, Answer
<1>1. CASE update_script
  BY <1>1 DEF update_script
<1>2. ASSUME NEW scope \in Agents \cup {None}, upsert_secret(scope) PROVE OutputOK(q)'
  BY <1>2 DEF upsert_secret
<1>3. ASSUME NEW d \in Daemons, NEW r \in Runs, claim_run(d, r) PROVE OutputOK(q)'
  BY <1>3 DEF claim_run
<1>4. ASSUME NEW r \in Runs, secrets_generation(r) PROVE OutputOK(q)'
  BY <1>4 DEF secrets_generation
<1>5. ASSUME NEW r \in Runs, cache_lookup(r) PROVE OutputOK(q)'
  BY <1>5 DEF cache_lookup
<1>6. ASSUME NEW r \in Runs, load_global(r) PROVE OutputOK(q)'
  BY <1>6 DEF load_global
<1>7. ASSUME NEW r \in Runs, load_scoped(r) PROVE OutputOK(q)'
  BY <1>7 DEF load_scoped
<1>8. ASSUME NEW r \in Runs, cache_store(r) PROVE OutputOK(q)'
  BY <1>8 DEF cache_store
<1>9. ASSUME NEW r \in Runs, finish_run(r) PROVE OutputOK(q)'
  BY <1>9 DEF finish_run
<1>10. ASSUME NEW r \in Runs, set_run_outputs(r) PROVE OutputOK(q)'
  <2>1. CASE q # r
    BY <1>10, <2>1 DEF set_run_outputs
  <2>2. CASE q = r
    <3>1. UNCHANGED <<receipt, src, env, status>> /\ pc'[r] = "receipt" /\ pc[r] = "output"
      BY <1>10 DEF set_run_outputs
    <3>2. receipt[r] = None /\ result[r] = None
      BY <2>2, <3>1
    <3>3. /\ result'[r] \in {Output(r), None}
          /\ kept'[r] => result'[r] = Output(r) /\ blobs'[r] = Output(r)
      BY <1>10, <3>2 DEF set_run_outputs
    <3>4. QED
      BY <2>2, <3>1, <3>2, <3>3
  <2>3. QED
    BY <2>1, <2>2
<1>11. ASSUME NEW r \in Runs, set_run_receipt(r) PROVE OutputOK(q)'
  <2>1. CASE q # r
    BY <1>11, <2>1 DEF set_run_receipt
  <2>2. CASE q = r
    <3>1. UNCHANGED <<result, blobs, src, env, status>> /\ pc'[r] = "done" /\ pc[r] = "receipt"
      BY <1>11 DEF set_run_receipt
    <3>2. receipt[r] = None
      BY <2>2, <3>1
    <3>3. \/ UNCHANGED receipt
          \/ kept[r] /\ \E g \in {gen, 0} : receipt'[r] = build_receipt(r, g)
      BY <1>11 DEF set_run_receipt
    <3>4. QED
      BY <2>2, <3>1, <3>2, <3>3 DEF build_receipt
  <2>3. QED
    BY <2>1, <2>2
<1>12. ASSUME NEW r \in Runs, alter_receipt(r) PROVE OutputOK(q)'
  <2>1. PICK cl : receipt' = [receipt EXCEPT ![r] = [claims |-> cl, signed |-> receipt[r].signed]]
    BY <1>12 DEF alter_receipt
  <2>2. UNCHANGED <<result, blobs, src, env, status, pc, kept>> /\ receipt[r] # None
    BY <1>12 DEF alter_receipt
  <2>3. QED
    BY <2>1, <2>2
<1>13. ASSUME NEW c \in Requests, NEW a \in Agents, get_script(c, a) PROVE OutputOK(q)'
  BY <1>13 DEF get_script
<1>14. ASSUME NEW c \in Requests, NEW r \in Runs, NEW a \in Agents, reproduce_run(c, r, a) PROVE OutputOK(q)'
  BY <1>14 DEF reproduce_run
<1>15. ASSUME NEW c \in Requests, key_generation(c) PROVE OutputOK(q)'
  BY <1>15 DEF key_generation
<1>16. ASSUME NEW c \in Requests, find_cached_run(c) PROVE OutputOK(q)'
  BY <1>16 DEF find_cached_run
<1>17. ASSUME NEW c \in Requests, insert_run(c) PROVE OutputOK(q)'
  BY <1>17 DEF insert_run, InsertRun
<1>18. ASSUME NEW c \in Requests, set_run_cache_key(c) PROVE OutputOK(q)'
  BY <1>18 DEF set_run_cache_key
<1>19. ASSUME NEW c \in Requests, insert_rerun(c) PROVE OutputOK(q)'
  BY <1>19 DEF insert_rerun, InsertRun
<1>20. ASSUME NEW c \in Requests, compare_receipts(c) PROVE OutputOK(q)'
  BY <1>20 DEF compare_receipts
<1>21. CASE UNCHANGED vars
  BY <1>21 DEF vars
<1>22. QED
  BY <1>1, <1>2, <1>3, <1>4, <1>5, <1>6, <1>7, <1>8, <1>9, <1>10, <1>11, <1>12, <1>13,
     <1>14, <1>15, <1>16, <1>17, <1>18, <1>19, <1>20, <1>21 DEF Next, Job_step, Client_step

\* ReceiptInv is inductive given the types.
LEMMA ReceiptHolds == Spec => []ReceiptInv
<1>1. Init => ReceiptInv
  BY DEF Init, ReceiptInv, OutputOK
<1>2. QED
  BY <1>1, ReceiptStep, TypedHolds, PTL DEF Spec

\* exec.rs: a receipt attests only outputs that the run's row shows.
THEOREM ReceiptMatchesRowHolds == Spec => []ReceiptMatchesRow
<1>1. ReceiptInv => ReceiptMatchesRow
  BY DEF ReceiptInv, OutputOK, ReceiptMatchesRow
<1>2. QED
  BY <1>1, ReceiptHolds, PTL

-----------------------------------------------------------------------------
(* Run-or-recall.                                                          *)

\* A request with its key in hand is as it was, or has just read the generation.
LEMMA FindStep ==
  ASSUME Typed, [Next]_vars, NEW b \in Requests, At(b, "find")'
  PROVE  \/ At(b, "find") /\ req'[b] = req[b]
         \/ /\ req[b].agent \in Agents /\ UNCHANGED <<secretVars, jobVars, rowVars, floor>>
            /\ req'[b].agent = req[b].agent /\ req'[b].gen = gen
            /\ req'[b].want = Visible(req[b].agent)
<1> DEFINE Goal ==
       \/ At(b, "find") /\ req'[b] = req[b]
       \/ /\ req[b].agent \in Agents /\ UNCHANGED <<secretVars, jobVars, rowVars, floor>>
          /\ req'[b].agent = req[b].agent /\ req'[b].gen = gen
          /\ req'[b].want = Visible(req[b].agent)
<1>0. ReqOK
  BY DEF Typed
<1> USE <1>0
<1> USE DEF secretVars, cacheVars, rowVars, jobVars, Step, Set, Fails, Works, JobOnly, ClientOnly, At, Answer
<1>1. CASE update_script
  BY <1>1 DEF update_script
<1>2. ASSUME NEW scope \in Agents \cup {None}, upsert_secret(scope) PROVE Goal
  BY <1>2 DEF upsert_secret
<1>3. ASSUME NEW d \in Daemons, NEW r \in Runs, claim_run(d, r) PROVE Goal
  BY <1>3 DEF claim_run
<1>4. ASSUME NEW r \in Runs, secrets_generation(r) PROVE Goal
  BY <1>4 DEF secrets_generation
<1>5. ASSUME NEW r \in Runs, cache_lookup(r) PROVE Goal
  BY <1>5 DEF cache_lookup
<1>6. ASSUME NEW r \in Runs, load_global(r) PROVE Goal
  BY <1>6 DEF load_global
<1>7. ASSUME NEW r \in Runs, load_scoped(r) PROVE Goal
  BY <1>7 DEF load_scoped
<1>8. ASSUME NEW r \in Runs, cache_store(r) PROVE Goal
  BY <1>8 DEF cache_store
<1>9. ASSUME NEW r \in Runs, finish_run(r) PROVE Goal
  BY <1>9 DEF finish_run
<1>10. ASSUME NEW r \in Runs, set_run_outputs(r) PROVE Goal
  BY <1>10 DEF set_run_outputs
<1>11. ASSUME NEW r \in Runs, set_run_receipt(r) PROVE Goal
  BY <1>11 DEF set_run_receipt
<1>12. ASSUME NEW r \in Runs, alter_receipt(r) PROVE Goal
  BY <1>12 DEF alter_receipt
<1>13. ASSUME NEW c \in Requests, NEW a \in Agents, get_script(c, a) PROVE Goal
  BY <1>13 DEF get_script, ReqOK, Idle, Keying, Finding, Recalled, Filing, Rerun, Polling
<1>14. ASSUME NEW c \in Requests, NEW r \in Runs, NEW a \in Agents, reproduce_run(c, r, a) PROVE Goal
  BY <1>14 DEF reproduce_run, ReqOK, Idle, Keying, Finding, Recalled, Filing, Rerun, Polling
<1>15. ASSUME NEW c \in Requests, key_generation(c) PROVE Goal
  BY <1>15 DEF key_generation, ReqOK, Idle, Keying, Finding, Recalled, Filing, Rerun, Polling
<1>16. ASSUME NEW c \in Requests, find_cached_run(c) PROVE Goal
  BY <1>16 DEF find_cached_run, ReqOK, Idle, Keying, Finding, Recalled, Filing, Rerun, Polling
<1>17. ASSUME NEW c \in Requests, insert_run(c) PROVE Goal
  BY <1>17 DEF insert_run, InsertRun, ReqOK, Idle, Keying, Finding, Recalled, Filing, Rerun, Polling
<1>18. ASSUME NEW c \in Requests, set_run_cache_key(c) PROVE Goal
  BY <1>18 DEF set_run_cache_key, ReqOK, Idle, Keying, Finding, Recalled, Filing, Rerun, Polling
<1>19. ASSUME NEW c \in Requests, insert_rerun(c) PROVE Goal
  BY <1>19 DEF insert_rerun, InsertRun, ReqOK, Idle, Keying, Finding, Recalled, Filing, Rerun, Polling
<1>20. ASSUME NEW c \in Requests, compare_receipts(c) PROVE Goal
  BY <1>20 DEF compare_receipts, ReqOK, Idle, Keying, Finding, Recalled, Filing, Rerun, Polling
<1>21. CASE UNCHANGED vars
  BY <1>21 DEF vars
<1>22. QED
  BY <1>1, <1>2, <1>3, <1>4, <1>5, <1>6, <1>7, <1>8, <1>9, <1>10, <1>11, <1>12, <1>13,
     <1>14, <1>15, <1>16, <1>17, <1>18, <1>19, <1>20, <1>21 DEF Next, Job_step, Client_step

\* What a request would be told under its key is at least what its own run would see.
LEMMA KeyStep ==
  Typed /\ SecretsInv /\ KeyInv /\ [Next]_vars => KeyInv'
<1> SUFFICES ASSUME Typed, SecretsInv, [Next]_vars, NEW c \in Requests, KeyOK(c), At(c, "find")'
             PROVE  KeyOK(c)'
  BY DEF KeyInv, KeyOK
<1>1. ReqOK /\ gen \in Nat /\ glob \in Nat /\ scoped \in [Agents -> Nat]
  BY DEF Typed, TypeOK
<1>2. \A r \in Runs : Knows(r)' => agent[r] \in Agents /\ floor[r] \in Envs /\ Newer(Visible(agent[r]), floor[r])
  BY KnowsStep DEF Typed, TypeOK, SecretsInv, JobCurrent
<1>3. CASE At(c, "find") /\ req'[c] = req[c]
  <2>1. req[c].gen \in Nat /\ req[c].agent \in Agents /\ req[c].want \in Envs
    BY <1>1, <1>3 DEF ReqOK, At, Idle, Keying, Finding, Recalled, Filing, Rerun, Polling
  <2>2. PICK g \in Nat, a \in Agents, low \in Envs :
            g = req[c].gen /\ a = req[c].agent /\ low = req[c].want
    BY <2>1
  <2>3. g <= gen /\ Newer(Visible(a), low) /\ (g = gen => low = Visible(a)) /\ Holds(g, a, low)
    BY <1>3, <2>2 DEF KeyOK
  <2>4. Holds(g, a, low)'
    BY <2>3, HoldsStep
  <2>5. g <= gen' /\ Newer(Visible(a)', low) /\ (g = gen' => low = Visible(a)')
    <3>1. gen' >= gen /\ Newer(Visible(a)', Visible(a)) /\ (gen' = gen => Visible(a)' = Visible(a))
      BY SecretsGrow
    <3>2. gen' \in Nat /\ Visible(a)' \in Envs /\ Visible(a) \in Envs
      BY TypedStep, <1>1 DEF Typed, TypeOK, Visible, Envs
    <3>3. QED
      BY <1>1, <2>3, <3>1, <3>2 DEF Newer, Envs
  <2>6. ASSUME NEW r \in Runs, Knows(r)', agent'[r] = a, rgen'[r] = g
        PROVE  Newer(low, floor'[r])
    <3>1. /\ agent'[r] = agent[r] /\ floor'[r] = floor[r]
          /\ \/ Knows(r) /\ rgen'[r] = rgen[r]
             \/ rgen'[r] = gen
      BY <2>6, KnowsStep
    <3>2. QED
      BY <1>2, <1>3, <2>2, <2>3, <2>6, <3>1 DEF KeyOK
  <2>7. QED
    BY <1>3, <2>2, <2>4, <2>5, <2>6 DEF KeyOK
<1>4. CASE /\ req[c].agent \in Agents /\ UNCHANGED <<secretVars, jobVars, rowVars, floor>>
           /\ req'[c].agent = req[c].agent /\ req'[c].gen = gen
           /\ req'[c].want = Visible(req[c].agent)
  <2>1. Visible(req[c].agent) \in Envs
    BY <1>1, <1>4 DEF Visible, Envs
  <2>2. PICK g \in Nat, a \in Agents, low \in Envs :
            g = gen /\ a = req[c].agent /\ low = Visible(req[c].agent)
    BY <1>1, <1>4, <2>1
  <2>3. low = Visible(a) /\ Newer(Visible(a), low)
    BY <2>2 DEF Newer, Envs
  <2>4. Holds(g, a, low)'
    <3>1. Holds(g, a, low)
      BY <2>2, <2>3, HoldsNow
    <3>2. QED
      BY <2>3, <3>1, HoldsStep
  <2>5. g = gen' /\ low = Visible(a)' /\ Newer(Visible(a)', low)
    BY <1>4, <2>2, <2>3 DEF Visible, secretVars
  <2>6. ASSUME NEW r \in Runs, Knows(r)', agent'[r] = a PROVE Newer(low, floor'[r])
    BY <1>2, <1>4, <2>3, <2>6 DEF rowVars
  <2>7. QED
    BY <1>1, <1>4, <2>2, <2>4, <2>5, <2>6 DEF KeyOK
<1>5. QED
  BY <1>3, <1>4, FindStep

\* An answer changes where the request stands, and no other request.
LEMMA AnswerOp ==
  ASSUME ReqOK, NEW c \in Requests, NEW op, Answer(c, op)
  PROVE  req'[c].op = op /\ \A b \in Requests \ {c} : req'[b] = req[b]
<1> DEFINE new == IF op \in {"INCONCLUSIVE", "TAMPERED"} THEN [op |-> op]
                  ELSE [req[c] EXCEPT !.op = op]
<1>1. req' = [req EXCEPT ![c] = new]
  BY Zenon DEF Answer, Set
<1>2. new.op = op
  BY DEF ReqOK, Idle, Keying, Finding, Recalled, Filing, Rerun, Polling
<1> HIDE DEF new
<1>3. QED
  BY <1>1, <1>2 DEF ReqOK

\* A request that is not, or no longer, about to write a key disturbs no other.
LEMMA FilingKeeps ==
  ASSUME RecallInv, UNCHANGED <<cacheKey, status>>, NEW c \in Requests, req'[c].op # "key",
         \A b \in Requests \ {c} : req'[b] = req[b]
  PROVE  /\ \A r \in Runs : status'[r] = "absent" => cacheKey'[r] = None
         /\ \A b \in Requests : FilingOK(b)'
<1>1. ASSUME NEW b \in Requests, At(b, "key")'
      PROVE  b # c /\ req'[b] = req[b] /\ At(b, "key")
  BY <1>1 DEF At
<1>2. ASSUME NEW b \in Requests PROVE FilingOK(b)'
  <2>1. SUFFICES ASSUME At(b, "key")' PROVE FilingOK(b)'
    BY DEF FilingOK
  <2>2. FilingOK(b) /\ At(b, "key") /\ req'[b] = req[b]
    BY <1>1, <2>1 DEF RecallInv
  <2>3. QED
    BY <1>1, <2>2 DEF FilingOK
<1>3. QED
  BY <1>2 DEF RecallInv

\* A run's key is written once, by the request that inserted the run.
LEMMA FilingStep ==
  ASSUME Typed, RecallInv, [Next]_vars
  PROVE  /\ \A r \in Runs : status'[r] = "absent" => cacheKey'[r] = None
         /\ \A c \in Requests : FilingOK(c)'
<1> DEFINE Goal == /\ \A r \in Runs : status'[r] = "absent" => cacheKey'[r] = None
                   /\ \A c \in Requests : FilingOK(c)'
<1>0. TypeOK /\ RowOK /\ ReqOK
  BY DEF Typed
<1> USE <1>0, ProvenanceAssumption DEF RecallInv, FilingOK, TypeOK, RowOK
<1> USE DEF secretVars, cacheVars, rowVars, jobVars, Step, Set, Fails, Works, JobOnly, ClientOnly, At, Answer
<1>1. CASE update_script
  BY <1>1 DEF update_script
<1>2. ASSUME NEW scope \in Agents \cup {None}, upsert_secret(scope) PROVE Goal
  BY <1>2 DEF upsert_secret
<1>3. ASSUME NEW d \in Daemons, NEW r \in Runs, claim_run(d, r) PROVE Goal
  BY <1>3 DEF claim_run
<1>4. ASSUME NEW r \in Runs, secrets_generation(r) PROVE Goal
  BY <1>4 DEF secrets_generation
<1>5. ASSUME NEW r \in Runs, cache_lookup(r) PROVE Goal
  BY <1>5 DEF cache_lookup
<1>6. ASSUME NEW r \in Runs, load_global(r) PROVE Goal
  BY <1>6 DEF load_global
<1>7. ASSUME NEW r \in Runs, load_scoped(r) PROVE Goal
  BY <1>7 DEF load_scoped
<1>8. ASSUME NEW r \in Runs, cache_store(r) PROVE Goal
  BY <1>8 DEF cache_store
<1>9. ASSUME NEW r \in Runs, finish_run(r) PROVE Goal
  <2>1. UNCHANGED <<cacheKey, req>> /\ \A q \in Runs : status'[q] = "absent" <=> status[q] = "absent"
    BY <1>9 DEF finish_run
  <2>2. \A c \in Requests : At(c, "key") => req[c].run \in Runs
    BY DEF ReqOK, Idle, Keying, Finding, Recalled, Filing, Rerun, Polling
  <2>3. ASSUME NEW c \in Requests PROVE FilingOK(c)'
    BY <2>1, <2>2
  <2>4. QED
    BY <2>1, <2>3
<1>10. ASSUME NEW r \in Runs, set_run_outputs(r) PROVE Goal
  BY <1>10 DEF set_run_outputs
<1>11. ASSUME NEW r \in Runs, set_run_receipt(r) PROVE Goal
  BY <1>11 DEF set_run_receipt
<1>12. ASSUME NEW r \in Runs, alter_receipt(r) PROVE Goal
  BY <1>12 DEF alter_receipt
<1>13. ASSUME NEW c \in Requests, NEW a \in Agents, get_script(c, a) PROVE Goal
  BY <1>13 DEF get_script, ReqOK, Idle, Keying, Finding, Recalled, Filing, Rerun, Polling
<1>14. ASSUME NEW c \in Requests, NEW r \in Runs, NEW a \in Agents, reproduce_run(c, r, a) PROVE Goal
  <2>1. UNCHANGED <<cacheKey, status>>
    BY <1>14 DEF reproduce_run
  <2>2. /\ req'[c].op # "key"
        /\ \A b \in Requests \ {c} : req'[b] = req[b]
    BY <1>14 DEF reproduce_run, ReqOK, Idle, Keying, Finding, Recalled, Filing, Rerun, Polling
  <2>3. QED
    BY <2>1, <2>2, FilingKeeps
<1>15. ASSUME NEW c \in Requests, key_generation(c) PROVE Goal
  BY <1>15 DEF key_generation, ReqOK, Idle, Keying, Finding, Recalled, Filing, Rerun, Polling
<1>16. ASSUME NEW c \in Requests, find_cached_run(c) PROVE Goal
  <2>1. UNCHANGED <<cacheKey, status>>
    BY <1>16 DEF find_cached_run
  <2>2. /\ req'[c].op # "key"
        /\ \A b \in Requests \ {c} : req'[b] = req[b]
    BY <1>16 DEF find_cached_run, ReqOK, Idle, Keying, Finding, Recalled, Filing, Rerun, Polling
  <2>3. QED
    BY <2>1, <2>2, FilingKeeps
<1>17. ASSUME NEW c \in Requests, insert_run(c) PROVE Goal
  BY <1>17 DEF insert_run, InsertRun, ReqOK, Idle, Keying, Finding, Recalled, Filing, Rerun, Polling
<1>18. ASSUME NEW c \in Requests, set_run_cache_key(c) PROVE Goal
  <2>1. /\ status' = status /\ req'[c].op # "key" /\ req[c].op = "key"
        /\ \A b \in Requests \ {c} : req'[b] = req[b]
    BY <1>18 DEF set_run_cache_key, ReqOK
  <2>2. /\ \A b \in Requests : At(b, "key") => req[b].run \in Runs
        /\ \A q \in Runs : q # req[c].run => cacheKey'[q] = cacheKey[q]
    BY <1>18 DEF set_run_cache_key, ReqOK, Idle, Keying, Finding, Recalled, Filing, Rerun, Polling
  <2>3. ASSUME NEW b \in Requests, At(b, "key")'
        PROVE  b # c /\ req'[b] = req[b] /\ At(b, "key")
    BY <2>1, <2>3
  <2>4. ASSUME NEW b \in Requests, At(b, "key")' PROVE FilingOK(b)'
    <3>1. b # c /\ req'[b] = req[b] /\ At(b, "key") /\ FilingOK(b)
      BY <2>3, <2>4
    <3>2. req[b].run \in Runs /\ req[b].run # req[c].run
      BY <2>1, <2>2, <3>1
    <3>3. cacheKey'[req'[b].run] = None /\ status'[req'[b].run] # "absent"
      BY <2>1, <2>2, <3>1, <3>2
    <3>4. \A d \in Requests : At(d, "key")' /\ req'[d].run = req'[b].run => d = b
      BY <2>3, <3>1
    <3>5. QED
      BY <3>3, <3>4
  <2>5. QED
    BY <2>1, <2>2, <2>4
<1>19. ASSUME NEW c \in Requests, insert_rerun(c) PROVE Goal
  BY <1>19 DEF insert_rerun, InsertRun, ReqOK, Idle, Keying, Finding, Recalled, Filing, Rerun, Polling
<1>20. ASSUME NEW c \in Requests, compare_receipts(c) PROVE Goal
  <2>1. UNCHANGED <<cacheKey, status>>
    BY <1>20 DEF compare_receipts
  <2>2. \E op \in {"INCONCLUSIVE", "REPRODUCED", "DIVERGED"} : Answer(c, op)
    <3> HIDE DEF Answer
    <3>1. QED
      BY <1>20, Zenon DEF compare_receipts
  <2> HIDE DEF Answer
  <2>3. /\ req'[c].op # "key"
        /\ \A b \in Requests \ {c} : req'[b] = req[b]
    BY <2>2, AnswerOp
  <2>4. QED
    BY <2>1, <2>3, FilingKeeps
<1>21. CASE UNCHANGED vars
  BY <1>21 DEF vars
<1>22. QED
  BY <1>1, <1>2, <1>3, <1>4, <1>5, <1>6, <1>7, <1>8, <1>9, <1>10, <1>11, <1>12, <1>13,
     <1>14, <1>15, <1>16, <1>17, <1>18, <1>19, <1>20, <1>21 DEF Next, Job_step, Client_step

\* A key, once written, stays.
LEMMA KeyKept ==
  ASSUME Typed, RecallInv, [Next]_vars, NEW q \in Runs, cacheKey[q] # None
  PROVE  cacheKey'[q] = cacheKey[q]
<1>1. CASE UNCHANGED cacheKey
  BY <1>1
<1>2. ASSUME NEW c \in Requests, set_run_cache_key(c) PROVE cacheKey'[q] = cacheKey[q]
  <2>1. At(c, "key") /\ cacheKey[req[c].run] = None
    BY <1>2 DEF set_run_cache_key, RecallInv, FilingOK
  <2>2. QED
    BY <1>2, <2>1 DEF set_run_cache_key, Set, Typed, RowOK
<1>3. QED
  <2>1. UNCHANGED cacheKey \/ \E c \in Requests : set_run_cache_key(c)
    BY DEF Next, Job_step, Client_step, vars, update_script, upsert_secret, claim_run,
           secrets_generation, cache_lookup, load_global, load_scoped, cache_store, finish_run,
           set_run_outputs, set_run_receipt, alter_receipt, get_script, reproduce_run,
           key_generation, find_cached_run, insert_run, insert_rerun, compare_receipts, rowVars
  <2>2. QED
    BY <1>1, <1>2, <2>1

\* A request that was told a result was told so before, or has just found the run.
LEMMA RecalledStep ==
  ASSUME Typed, [Next]_vars, NEW b \in Requests, At(b, "recalled")'
  PROVE  \/ At(b, "recalled") /\ req'[b] = req[b] /\ req[b].run \in Runs
         \/ At(b, "find") /\ find_cached_run(b)
<1> DEFINE Goal == \/ At(b, "recalled") /\ req'[b] = req[b] /\ req[b].run \in Runs
                   \/ At(b, "find") /\ find_cached_run(b)
<1>0. ReqOK
  BY DEF Typed
<1>00. At(b, "recalled") /\ req'[b] = req[b] => Goal
  BY <1>0 DEF At, ReqOK, Idle, Keying, Finding, Recalled, Filing, Rerun, Polling
<1> USE <1>0, <1>00
<1> USE DEF secretVars, cacheVars, rowVars, jobVars, Step, Set, Fails, Works, JobOnly, ClientOnly, At, Answer
<1>1. CASE update_script
  BY <1>1 DEF update_script
<1>2. ASSUME NEW scope \in Agents \cup {None}, upsert_secret(scope) PROVE Goal
  BY <1>2 DEF upsert_secret
<1>3. ASSUME NEW d \in Daemons, NEW r \in Runs, claim_run(d, r) PROVE Goal
  BY <1>3 DEF claim_run
<1>4. ASSUME NEW r \in Runs, secrets_generation(r) PROVE Goal
  BY <1>4 DEF secrets_generation
<1>5. ASSUME NEW r \in Runs, cache_lookup(r) PROVE Goal
  BY <1>5 DEF cache_lookup
<1>6. ASSUME NEW r \in Runs, load_global(r) PROVE Goal
  BY <1>6 DEF load_global
<1>7. ASSUME NEW r \in Runs, load_scoped(r) PROVE Goal
  BY <1>7 DEF load_scoped
<1>8. ASSUME NEW r \in Runs, cache_store(r) PROVE Goal
  BY <1>8 DEF cache_store
<1>9. ASSUME NEW r \in Runs, finish_run(r) PROVE Goal
  BY <1>9 DEF finish_run
<1>10. ASSUME NEW r \in Runs, set_run_outputs(r) PROVE Goal
  BY <1>10 DEF set_run_outputs
<1>11. ASSUME NEW r \in Runs, set_run_receipt(r) PROVE Goal
  BY <1>11 DEF set_run_receipt
<1>12. ASSUME NEW r \in Runs, alter_receipt(r) PROVE Goal
  BY <1>12 DEF alter_receipt
<1>13. ASSUME NEW c \in Requests, NEW a \in Agents, get_script(c, a) PROVE Goal
  BY <1>13 DEF get_script, ReqOK, Idle, Keying, Finding, Recalled, Filing, Rerun, Polling
<1>14. ASSUME NEW c \in Requests, NEW r \in Runs, NEW a \in Agents, reproduce_run(c, r, a) PROVE Goal
  BY <1>14 DEF reproduce_run, ReqOK, Idle, Keying, Finding, Recalled, Filing, Rerun, Polling
<1>15. ASSUME NEW c \in Requests, key_generation(c) PROVE Goal
  BY <1>15 DEF key_generation, ReqOK, Idle, Keying, Finding, Recalled, Filing, Rerun, Polling
<1>16. ASSUME NEW c \in Requests, find_cached_run(c) PROVE Goal
  BY <1>16 DEF find_cached_run, ReqOK, Idle, Keying, Finding, Recalled, Filing, Rerun, Polling
<1>17. ASSUME NEW c \in Requests, insert_run(c) PROVE Goal
  BY <1>17 DEF insert_run, InsertRun, ReqOK, Idle, Keying, Finding, Recalled, Filing, Rerun, Polling
<1>18. ASSUME NEW c \in Requests, set_run_cache_key(c) PROVE Goal
  BY <1>18 DEF set_run_cache_key, ReqOK, Idle, Keying, Finding, Recalled, Filing, Rerun, Polling
<1>19. ASSUME NEW c \in Requests, insert_rerun(c) PROVE Goal
  BY <1>19 DEF insert_rerun, InsertRun, ReqOK, Idle, Keying, Finding, Recalled, Filing, Rerun, Polling
<1>20. ASSUME NEW c \in Requests, compare_receipts(c) PROVE Goal
  BY <1>20 DEF compare_receipts, ReqOK, Idle, Keying, Finding, Recalled, Filing, Rerun, Polling
<1>21. CASE UNCHANGED vars
  BY <1>21 DEF vars
<1>22. QED
  BY <1>1, <1>2, <1>3, <1>4, <1>5, <1>6, <1>7, <1>8, <1>9, <1>10, <1>11, <1>12, <1>13,
     <1>14, <1>15, <1>16, <1>17, <1>18, <1>19, <1>20, <1>21 DEF Next, Job_step, Client_step

\* A recalled run has its key and has run, now and later.
LEMMA RecallStep ==
  Typed /\ ReceiptInv /\ RecallInv /\ [Next]_vars => RecallInv'
<1> SUFFICES ASSUME Typed, ReceiptInv, RecallInv, [Next]_vars, NEW c \in Requests, At(c, "recalled")'
             PROVE  /\ cacheKey'[req'[c].run] # None
                    /\ pc'[req'[c].run] \in {"output", "receipt", "done"}
  BY FilingStep DEF RecallInv
<1>1. CASE At(c, "recalled") /\ req'[c] = req[c] /\ req[c].run \in Runs
  <2>1. PICK q \in Runs : q = req[c].run
    BY <1>1
  <2>2. cacheKey[q] # None /\ Settled(q)
    BY <1>1, <2>1 DEF RecallInv, Settled
  <2>3. QED
    BY <1>1, <2>1, <2>2, KeyKept, SettledStep DEF Settled
<1>2. CASE At(c, "find") /\ find_cached_run(c)
  <2>1. req[c].src \in Sources /\ req[c].gen \in Nat
    BY <1>2 DEF Typed, ReqOK, At, Idle, Keying, Finding, Recalled, Filing, Rerun, Polling
  <2>2. PICK r \in Runs : /\ cacheKey[r] = <<req[c].src, req[c].gen>> /\ status[r] = "succeeded"
                          /\ req'[c].run = r
    BY <1>2 DEF Typed, ReqOK, find_cached_run, At, Answer, Set, Recallable, run_cache_key,
                Idle, Keying, Finding, Recalled, Filing, Rerun, Polling
  <2>3. cacheKey[r] # None
    BY <2>1, <2>2, ProvenanceAssumption
  <2>4. Settled(r)
    BY <2>2 DEF ReceiptInv, OutputOK, Settled
  <2>5. UNCHANGED <<cacheKey, pc>>
    BY <1>2 DEF find_cached_run, ClientOnly, rowVars, jobVars
  <2>6. QED
    BY <2>2, <2>3, <2>4, <2>5 DEF Settled
<1>3. QED
  BY <1>1, <1>2, RecalledStep

\* The answer of a recall is fixed when the run is found: KeyOK then bounds what the
\* recalled run was given from both sides.
LEMMA SoundStep ==
  /\ Typed /\ SecretsInv /\ KeyInv
  /\ ReceiptInv /\ RecallInv /\ WrongRecallExplained /\ [Next]_vars
  => WrongRecallExplained'
<1> SUFFICES ASSUME Typed, SecretsInv, KeyInv, ReceiptInv, RecallInv,
                    WrongRecallExplained, [Next]_vars, NEW c \in Requests, At(c, "recalled")'
             PROVE  /\ status'[req'[c].run] = "succeeded"
                    /\ /\ req'[c].agent = agent'[req'[c].run] /\ req'[c].out # None
                       /\ env'[req'[c].run] # None /\ env'[req'[c].run] = floor'[req'[c].run]
                       /\ cacheKey'[req'[c].run] = <<src'[req'[c].run], rgen'[req'[c].run]>>
                       => req'[c].out = <<req'[c].src, req'[c].want>>
  BY DEF WrongRecallExplained, Drifted, run_cache_key
<1>1. CASE At(c, "recalled") /\ req'[c] = req[c] /\ req[c].run \in Runs
  <2>1. PICK q \in Runs : q = req[c].run
    BY <1>1
  <2>2. cacheKey[q] # None /\ Settled(q)
    BY <1>1, <2>1 DEF RecallInv, Settled
  <2>3. UNCHANGED <<cacheKey[q], src[q], env[q], status[q], agent[q], rgen[q], floor[q]>>
    BY <2>2, KeyKept, SettledStep DEF Output
  <2>4. QED
    BY <1>1, <2>1, <2>3 DEF WrongRecallExplained, Drifted, run_cache_key
<1>2. CASE At(c, "find") /\ find_cached_run(c)
  <2>1. /\ req[c].src \in Sources /\ req[c].gen \in Nat /\ req[c].want \in Envs
        /\ req[c].agent \in Agents
    BY <1>2 DEF Typed, ReqOK, At, Idle, Keying, Finding, Recalled, Filing, Rerun, Polling
  <2>2. PICK r \in Runs : /\ cacheKey[r] = <<req[c].src, req[c].gen>> /\ status[r] = "succeeded"
                          /\ req'[c].run = r /\ req'[c].out = result[r]
                          /\ UNCHANGED <<req[c].agent, req[c].src, req[c].want>>
    BY <1>2 DEF Typed, ReqOK, find_cached_run, At, Answer, Set, Recallable, run_cache_key,
                Idle, Keying, Finding, Recalled, Filing, Rerun, Polling
  <2>3. UNCHANGED <<cacheKey, src, env, status, agent, rgen, floor>>
    BY <1>2 DEF find_cached_run, ClientOnly, rowVars, jobVars
  <2>4. SUFFICES ASSUME req[c].agent = agent[r], result[r] # None, env[r] # None,
                        env[r] = floor[r], cacheKey[r] = <<src[r], rgen[r]>>
                 PROVE  result[r] = <<req[c].src, req[c].want>>
    BY <2>2, <2>3
  <2>5. result[r] = <<src[r], env[r]>>
    BY <2>4 DEF ReceiptInv, OutputOK, Output
  <2>6. src[r] = req[c].src /\ rgen[r] = req[c].gen
    BY <2>2, <2>4
  <2>7. Newer(req[c].want, env[r]) /\ Newer(env[r], req[c].want)
    BY <1>2, <2>4, <2>6 DEF KeyInv, KeyOK, Knows, Holds
  <2>8. env[r] \in Envs
    BY <2>4 DEF Typed, TypeOK
  <2>9. env[r] = req[c].want
    BY <2>1, <2>7, <2>8 DEF Newer, Envs
  <2>10. QED
    BY <2>5, <2>6, <2>9
<1>3. QED
  BY <1>1, <1>2, RecalledStep

\* mcp.rs run_cache_key, db.rs find_cached_run: a recalled result is what the caller's own
\* run would have computed, or one of five things happened: the recalled run is another
\* agent's, its result is missing, its read of the secrets failed, a rotation fell between
\* its claim and that read, or it had drifted from the key it is filed under.
THEOREM WrongRecallExplainedHolds == Spec => []WrongRecallExplained
<1>1. Init => KeyInv /\ RecallInv /\ WrongRecallExplained
  BY DEF Init, KeyInv, KeyOK, RecallInv, WrongRecallExplained, FilingOK, At
<1>2. QED
  BY <1>1, KeyStep, RecallStep, SoundStep, TypedHolds, SecretsHold, ReceiptHolds, PTL DEF Spec

-----------------------------------------------------------------------------
(* reproduce_run.                                                          *)

\* Once a job is done its receipt stays, unless it is altered and no longer verifies.
LEMMA ReceiptKept ==
  ASSUME Typed, [Next]_vars, NEW q \in Runs, pc[q] = "done"
  PROVE  /\ Output(q)' = Output(q) /\ pc'[q] = "done"
         /\ receipt'[q] = receipt[q] \/ ~verify_receipt(receipt[q])'
<1> DEFINE Goal == /\ pc'[q] = "done"
                   /\ receipt'[q] = receipt[q] \/ ~verify_receipt(receipt[q])'
<1>0. Output(q)' = Output(q)
  BY SettledStep DEF Settled
<1> SUFFICES Goal
  BY <1>0
<1> USE DEF Typed, TypeOK, RowOK
<1> USE DEF secretVars, cacheVars, rowVars, jobVars, Step, Set, Fails, Works, JobOnly, ClientOnly, At, Answer
<1>1. CASE update_script
  BY <1>1 DEF update_script
<1>2. ASSUME NEW scope \in Agents \cup {None}, upsert_secret(scope) PROVE Goal
  BY <1>2 DEF upsert_secret
<1>3. ASSUME NEW d \in Daemons, NEW r \in Runs, claim_run(d, r) PROVE Goal
  BY <1>3 DEF claim_run
<1>4. ASSUME NEW r \in Runs, secrets_generation(r) PROVE Goal
  BY <1>4 DEF secrets_generation
<1>5. ASSUME NEW r \in Runs, cache_lookup(r) PROVE Goal
  BY <1>5 DEF cache_lookup
<1>6. ASSUME NEW r \in Runs, load_global(r) PROVE Goal
  BY <1>6 DEF load_global
<1>7. ASSUME NEW r \in Runs, load_scoped(r) PROVE Goal
  BY <1>7 DEF load_scoped
<1>8. ASSUME NEW r \in Runs, cache_store(r) PROVE Goal
  BY <1>8 DEF cache_store
<1>9. ASSUME NEW r \in Runs, finish_run(r) PROVE Goal
  BY <1>9 DEF finish_run
<1>10. ASSUME NEW r \in Runs, set_run_outputs(r) PROVE Goal
  BY <1>10 DEF set_run_outputs
<1>11. ASSUME NEW r \in Runs, set_run_receipt(r) PROVE Goal
  BY <1>11 DEF set_run_receipt
<1>12. ASSUME NEW r \in Runs, alter_receipt(r) PROVE Goal
  <2>1. pc' = pc
    BY <1>12 DEF alter_receipt
  <2>2. CASE r # q
    BY <1>12, <2>1, <2>2 DEF alter_receipt
  <2>3. CASE r = q
    <3>1. receipt[q] \in Receipts
      BY <1>12, <2>3 DEF alter_receipt
    <3> DEFINE Altered(s) ==
                 [claims |-> [receipt[q].claims EXCEPT !.source = s, !.output = <<s, @[2]>>,
                                                       !.blobs = <<s, @[2]>>],
                  signed |-> receipt[q].signed]
    <3>a. \E s \in Sources : s # receipt[q].signed.source /\ receipt' = [receipt EXCEPT ![q] = Altered(s)]
      BY <1>12, <2>3, Zenon DEF alter_receipt
    <3>b. PICK s \in Sources : s # receipt[q].signed.source /\ receipt' = [receipt EXCEPT ![q] = Altered(s)]
      BY <3>a, Zenon
    <3> HIDE DEF Altered
    <3>2. s # receipt[q].signed.source /\ receipt'[q] = Altered(s)
      BY <3>b
    <3> USE DEF Altered
    <3>3. receipt'[q].claims.source = s
      <4>1. receipt[q].claims \in Claims
        BY <3>1 DEF Receipts
      <4>2. receipt'[q].claims = [receipt[q].claims EXCEPT !.source = s, !.output = <<s, @[2]>>, !.blobs = <<s, @[2]>>]
        BY <3>2
      <4>3. QED
        BY <4>1, <4>2 DEF Claims
    <3>4. receipt'[q].signed.source # s
      BY <3>2
    <3>5. QED
      BY <2>1, <3>3, <3>4 DEF verify_receipt
  <2>4. QED
    BY <2>2, <2>3
<1>13. ASSUME NEW c \in Requests, NEW a \in Agents, get_script(c, a) PROVE Goal
  BY <1>13 DEF get_script
<1>14. ASSUME NEW c \in Requests, NEW r \in Runs, NEW a \in Agents, reproduce_run(c, r, a) PROVE Goal
  BY <1>14 DEF reproduce_run
<1>15. ASSUME NEW c \in Requests, key_generation(c) PROVE Goal
  BY <1>15 DEF key_generation
<1>16. ASSUME NEW c \in Requests, find_cached_run(c) PROVE Goal
  BY <1>16 DEF find_cached_run
<1>17. ASSUME NEW c \in Requests, insert_run(c) PROVE Goal
  BY <1>17 DEF insert_run, InsertRun
<1>18. ASSUME NEW c \in Requests, set_run_cache_key(c) PROVE Goal
  BY <1>18 DEF set_run_cache_key
<1>19. ASSUME NEW c \in Requests, insert_rerun(c) PROVE Goal
  BY <1>19 DEF insert_rerun, InsertRun
<1>20. ASSUME NEW c \in Requests, compare_receipts(c) PROVE Goal
  BY <1>20 DEF compare_receipts
<1>21. CASE UNCHANGED vars
  BY <1>21 DEF vars
<1>22. QED
  BY <1>1, <1>2, <1>3, <1>4, <1>5, <1>6, <1>7, <1>8, <1>9, <1>10, <1>11, <1>12, <1>13,
     <1>14, <1>15, <1>16, <1>17, <1>18, <1>19, <1>20, <1>21 DEF Next, Job_step, Client_step

\* The request is past the check of the original's receipt.
Reproducing(c) == req[c].op \in {"rerun", "poll", "REPRODUCED", "DIVERGED"}

\* It is as it was, or has just passed it, inserted the re-run, or compared the two.
LEMMA ReproduceStep ==
  ASSUME Typed, [Next]_vars, NEW b \in Requests, Reproducing(b)'
  PROVE  \/ req'[b] = req[b]
         \/ \E r \in Runs, a \in Agents : reproduce_run(b, r, a)
         \/ At(b, "rerun") /\ insert_rerun(b)
         \/ At(b, "poll") /\ compare_receipts(b)
<1> DEFINE Goal == \/ req'[b] = req[b]
                   \/ \E r \in Runs, a \in Agents : reproduce_run(b, r, a)
                   \/ At(b, "rerun") /\ insert_rerun(b)
                   \/ At(b, "poll") /\ compare_receipts(b)
<1>0. ReqOK
  BY DEF Typed
<1> USE <1>0 DEF Reproducing
<1> USE DEF secretVars, cacheVars, rowVars, jobVars, Step, Set, Fails, Works, JobOnly, ClientOnly, At, Answer
<1>1. CASE update_script
  BY <1>1 DEF update_script
<1>2. ASSUME NEW scope \in Agents \cup {None}, upsert_secret(scope) PROVE Goal
  BY <1>2 DEF upsert_secret
<1>3. ASSUME NEW d \in Daemons, NEW r \in Runs, claim_run(d, r) PROVE Goal
  BY <1>3 DEF claim_run
<1>4. ASSUME NEW r \in Runs, secrets_generation(r) PROVE Goal
  BY <1>4 DEF secrets_generation
<1>5. ASSUME NEW r \in Runs, cache_lookup(r) PROVE Goal
  BY <1>5 DEF cache_lookup
<1>6. ASSUME NEW r \in Runs, load_global(r) PROVE Goal
  BY <1>6 DEF load_global
<1>7. ASSUME NEW r \in Runs, load_scoped(r) PROVE Goal
  BY <1>7 DEF load_scoped
<1>8. ASSUME NEW r \in Runs, cache_store(r) PROVE Goal
  BY <1>8 DEF cache_store
<1>9. ASSUME NEW r \in Runs, finish_run(r) PROVE Goal
  BY <1>9 DEF finish_run
<1>10. ASSUME NEW r \in Runs, set_run_outputs(r) PROVE Goal
  BY <1>10 DEF set_run_outputs
<1>11. ASSUME NEW r \in Runs, set_run_receipt(r) PROVE Goal
  BY <1>11 DEF set_run_receipt
<1>12. ASSUME NEW r \in Runs, alter_receipt(r) PROVE Goal
  BY <1>12 DEF alter_receipt
<1>13. ASSUME NEW c \in Requests, NEW a \in Agents, get_script(c, a) PROVE Goal
  BY <1>13 DEF get_script, ReqOK, Idle, Keying, Finding, Recalled, Filing, Rerun, Polling
<1>14. ASSUME NEW c \in Requests, NEW r \in Runs, NEW a \in Agents, reproduce_run(c, r, a) PROVE Goal
  BY <1>14 DEF reproduce_run, ReqOK, Idle, Keying, Finding, Recalled, Filing, Rerun, Polling
<1>15. ASSUME NEW c \in Requests, key_generation(c) PROVE Goal
  BY <1>15 DEF key_generation, ReqOK, Idle, Keying, Finding, Recalled, Filing, Rerun, Polling
<1>16. ASSUME NEW c \in Requests, find_cached_run(c) PROVE Goal
  BY <1>16 DEF find_cached_run, ReqOK, Idle, Keying, Finding, Recalled, Filing, Rerun, Polling
<1>17. ASSUME NEW c \in Requests, insert_run(c) PROVE Goal
  BY <1>17 DEF insert_run, InsertRun, ReqOK, Idle, Keying, Finding, Recalled, Filing, Rerun, Polling
<1>18. ASSUME NEW c \in Requests, set_run_cache_key(c) PROVE Goal
  BY <1>18 DEF set_run_cache_key, ReqOK, Idle, Keying, Finding, Recalled, Filing, Rerun, Polling
<1>19. ASSUME NEW c \in Requests, insert_rerun(c) PROVE Goal
  BY <1>19 DEF insert_rerun, InsertRun, ReqOK, Idle, Keying, Finding, Recalled, Filing, Rerun, Polling
<1>20. ASSUME NEW c \in Requests, compare_receipts(c) PROVE Goal
  BY <1>20 DEF compare_receipts, ReqOK, Idle, Keying, Finding, Recalled, Filing, Rerun, Polling
<1>21. CASE UNCHANGED vars
  BY <1>21 DEF vars
<1>22. QED
  BY <1>1, <1>2, <1>3, <1>4, <1>5, <1>6, <1>7, <1>8, <1>9, <1>10, <1>11, <1>12, <1>13,
     <1>14, <1>15, <1>16, <1>17, <1>18, <1>19, <1>20, <1>21 DEF Next, Job_step, Client_step

\* The verdict about one request.
Verdict(c) ==
    /\ At(c, "REPRODUCED") /\ verify_receipt(receipt[req[c].run]) => Output(req[c].run) = Output(req[c].orig)
    /\ At(c, "DIVERGED") /\ verify_receipt(receipt[req[c].run]) => Output(req[c].run) # Output(req[c].orig)

\* The three steps of reproduce keep what it compares with true of the original.
LEMMA VerdictStep ==
  Typed /\ ReceiptInv /\ VerdictInv /\ [Next]_vars => VerdictInv'
<1> SUFFICES ASSUME Typed, ReceiptInv, VerdictInv, [Next]_vars, NEW b \in Requests, Reproducing(b)'
             PROVE  RerunOK(b)' /\ Verdict(b)'
  BY DEF VerdictInv, VerdictTrue, RerunOK, Verdict, Reproducing, At
<1>0. RerunOK(b) /\ Verdict(b) /\ ReqOK /\ \A r \in Runs : OutputOK(r)
  BY DEF VerdictInv, VerdictTrue, Verdict, ReceiptInv, Typed
<1>1. CASE req'[b] = req[b]
  <2>1. Reproducing(b) /\ req[b].orig \in Runs
    BY <1>0, <1>1 DEF Reproducing, ReqOK, Idle, Keying, Finding, Recalled, Filing, Rerun, Polling
  <2>2. PICK o \in Runs : o = req[b].orig
    BY <2>1
  <2>3. pc[o] = "done"
    BY <1>0, <2>1, <2>2 DEF RerunOK, Reproducing
  <2>4. Output(o)' = Output(o) /\ pc'[o] = "done"
    BY <2>3, ReceiptKept
  <2>5. CASE req[b].op \notin {"REPRODUCED", "DIVERGED"}
    BY <1>0, <1>1, <2>1, <2>2, <2>4, <2>5 DEF RerunOK, Verdict, Reproducing, At, Output
  <2>6. CASE req[b].op \in {"REPRODUCED", "DIVERGED"}
    <3>1. PICK q \in Runs : q = req[b].run
      BY <1>0, <2>6 DEF ReqOK, Idle, Keying, Finding, Recalled, Filing, Rerun, Polling
    <3>2. pc[q] = "done"
      BY <1>0, <2>6, <3>1 DEF RerunOK
    <3>3. /\ Output(q)' = Output(q) /\ pc'[q] = "done"
          /\ receipt'[q] = receipt[q] \/ ~verify_receipt(receipt[q])'
      BY <3>2, ReceiptKept
    <3>4. RerunOK(b)'
      BY <1>0, <1>1, <2>1, <2>2, <2>4, <3>1, <3>3 DEF RerunOK, Reproducing, Output
    <3>5. Verdict(b)'
      BY <1>0, <1>1, <2>2, <2>4, <3>1, <3>3 DEF Verdict, Output, At, verify_receipt
    <3>6. QED
      BY <3>4, <3>5
  <2>7. QED
    BY <2>5, <2>6
<1>2. ASSUME NEW r \in Runs, NEW a \in Agents, reproduce_run(b, r, a)
      PROVE  RerunOK(b)' /\ Verdict(b)'
  <2>1. /\ receipt[r] # None /\ verify_receipt(receipt[r])
        /\ req'[b] = [op |-> "rerun", orig |-> r, agent |-> a, claims |-> receipt[r].claims]
        /\ UNCHANGED <<pc, src, env>>
    BY <1>0, <1>2 DEF reproduce_run, Reproducing, At, Answer, Set, ClientOnly, jobVars,
                ReqOK, Idle, Keying, Finding, Recalled, Filing, Rerun, Polling
  <2>2. pc[r] = "done" /\ receipt[r].claims.output = Output(r) /\ receipt[r].claims.blobs = Output(r)
    BY <1>0, <2>1 DEF OutputOK, verify_receipt
  <2>3. QED
    BY <2>1, <2>2 DEF RerunOK, Verdict, At, Output
<1>3. CASE At(b, "rerun") /\ insert_rerun(b)
  <2>1. /\ req'[b].op = "poll" /\ req'[b].orig = req[b].orig /\ req'[b].claims = req[b].claims
        /\ UNCHANGED <<pc, src, env>>
    BY <1>0, <1>3 DEF insert_rerun, Set, ClientOnly, jobVars, ReqOK
  <2>2. QED
    BY <1>0, <1>3, <2>1 DEF RerunOK, Verdict, At, Output
<1>4. CASE At(b, "poll") /\ compare_receipts(b)
  <2>1. req[b] \in Polling
    BY <1>0, <1>4 DEF At, ReqOK, Idle, Keying, Finding, Recalled, Filing, Rerun, Polling
  <2>2. PICK q \in Runs : q = req[b].run
    BY <2>1 DEF Polling
  <2>3. UNCHANGED <<pc, src, env, receipt>>
    BY <1>4 DEF compare_receipts, ClientOnly, jobVars, rowVars
  <2>4. /\ receipt[q] # None
        /\ req'[b].op \in {"REPRODUCED", "DIVERGED"}
        /\ req'[b].orig = req[b].orig /\ req'[b].claims = req[b].claims /\ req'[b].run = q
        /\ (req'[b].op = "REPRODUCED") <=> /\ receipt[q].claims.output = req[b].claims.output
                                           /\ receipt[q].claims.blobs = req[b].claims.blobs
    BY <1>0, <1>4, <2>1, <2>2 DEF compare_receipts, Reproducing, At, Answer, Set, ReqOK, Polling
  <2>5. pc[q] = "done" /\ receipt[q].signed.output = Output(q) /\ receipt[q].signed.blobs = Output(q)
    BY <1>0, <2>4 DEF OutputOK
  <2>6. QED
    BY <1>0, <1>4, <2>3, <2>4, <2>5 DEF RerunOK, Verdict, At, Output, verify_receipt
<1>5. QED
  BY <1>1, <1>2, <1>3, <1>4, ReproduceStep

\* mcp.rs reproduce_run: REPRODUCED and DIVERGED are true of what the two jobs computed.
THEOREM VerdictTrueHolds == Spec => []VerdictTrue
<1>1. Init => VerdictInv
  BY DEF Init, VerdictInv, VerdictTrue, RerunOK, At
<1>2. VerdictInv => VerdictTrue
  BY DEF VerdictInv
<1>3. QED
  BY <1>1, <1>2, VerdictStep, TypedHolds, ReceiptHolds, PTL DEF Spec

=============================================================================
