----------------------------- MODULE Provenance -----------------------------
(***************************************************************************)
(* What a run's result is a function of, and what Dokan says about it: the *)
(* script's live source, the secrets and their generation (db.rs), the     *)
(* per-process secrets cache, run-or-recall (mcp.rs run_script), the       *)
(* receipt (exec.rs, receipt.rs) and reproduce (mcp.rs reproduce_run).     *)
(*                                                                         *)
(* One script, hermetic (network = false) and deterministic: a job's       *)
(* output is the pair of the source and the secrets it was given.  One SQL *)
(* statement, or one critical section of the cache's mutex, is one step.   *)
(* A secret's value is the number of times it was set; an agent sees one   *)
(* global secret and one scoped to it.                                     *)
(***************************************************************************)
EXTENDS Integers, FiniteSets

CONSTANTS
    Runs,       \* run ids, allocated in increasing order
    Agents,     \* agent ids, the key of the scoped secrets
    Daemons,    \* processes, each with its own secrets cache
    Requests,   \* calls of run_script and reproduce
    Sources,    \* texts the script may have
    MaxEdits,   \* bound: upserts of the script
    MaxUpserts, \* bound: set_secret calls
    MaxFaults,  \* bound: failing statements, and receipts altered
                \* in the table from outside
    None        \* NULL: no value in a column, no entry in a map

ASSUME ProvenanceAssumption ==
    /\ Runs \subseteq Nat \ {0}
    /\ Sources # {}
    /\ MaxEdits \in Nat /\ MaxUpserts \in Nat /\ MaxFaults \in Nat
    /\ None \notin Agents \cup Daemons \cup (Nat \X Nat) \cup (Sources \X Nat)

VARIABLES
    source, edits,          \* scripts.source, and how often it was changed
    gen, glob, scoped,      \* meta.secrets_generation, secrets, agent_secrets
    cgen, cenv,             \* a daemon's secrets_cache: generation, by_agent
    status, agent, cacheKey, result, blobs, receipt,    \* runs, a column each
    pc, daemon, src, rgen, rglob, env, kept,    \* exec_job's local variables
    req,                    \* where each request stands, and what it was told
    floor,                  \* history: the secrets in force when a run was claimed
    faults                  \* faults that may still happen

secretVars == <<gen, glob, scoped>>
cacheVars == <<cgen, cenv>>
rowVars == <<status, agent, cacheKey, result, blobs, receipt>>
jobVars == <<pc, daemon, src, rgen, rglob, env, kept>>
vars == <<source, edits, secretVars, cacheVars, rowVars, jobVars, req, floor, faults>>

Visible(a) == <<glob, scoped[a]>>
Output(r) == <<src[r], env[r]>>

Set(f, r, v) == f' = [f EXCEPT ![r] = v]

Init ==
    /\ source \in Sources /\ edits = 0
    /\ gen = 0 /\ glob = 0 /\ scoped = [a \in Agents |-> 0]
    /\ cgen = [d \in Daemons |-> 0]
    /\ cenv = [d \in Daemons |-> [a \in Agents |-> None]]
    /\ status = [r \in Runs |-> "absent"]
    /\ agent = [r \in Runs |-> None]
    /\ cacheKey = [r \in Runs |-> None]
    /\ result = [r \in Runs |-> None]
    /\ blobs = [r \in Runs |-> None]
    /\ receipt = [r \in Runs |-> None]
    /\ pc = [r \in Runs |-> "none"]
    /\ daemon = [r \in Runs |-> None]
    /\ src = [r \in Runs |-> None]
    /\ rgen = [r \in Runs |-> 0]
    /\ rglob = [r \in Runs |-> 0]
    /\ env = [r \in Runs |-> None]
    /\ kept = [r \in Runs |-> TRUE]
    /\ req = [c \in Requests |-> [op |-> "new"]]
    /\ floor = [r \in Runs |-> None]
    /\ faults = MaxFaults

Fails == faults > 0 /\ faults' = faults - 1
Works == UNCHANGED faults

-----------------------------------------------------------------------------
(* Operators of the script and its secrets.                                *)

\* upload_script with upsert: a changed source replaces the old one in place.
update_script ==
    /\ edits < MaxEdits
    /\ \E s \in Sources \ {source} : source' = s
    /\ edits' = edits + 1
    /\ UNCHANGED <<secretVars, cacheVars, rowVars, jobVars, req, floor, faults>>

\* Value and generation change in one transaction.
upsert_secret(scope) ==
    /\ gen < MaxUpserts
    /\ IF scope = None THEN glob' = glob + 1 /\ UNCHANGED scoped
       ELSE Set(scoped, scope, scoped[scope] + 1) /\ UNCHANGED glob
    /\ gen' = gen + 1
    /\ UNCHANGED <<source, edits, cacheVars, rowVars, jobVars, req, floor, faults>>

-----------------------------------------------------------------------------
(* A worker of daemon d executes run r.                                    *)

Step(r, from, to) == pc[r] = from /\ Set(pc, r, to)
JobOnly == UNCHANGED <<source, edits, secretVars, req>>

\* claim_run reads the source live.
claim_run(d, r) ==
    /\ status[r] = "pending" /\ Set(status, r, "running")
    /\ Step(r, "none", "generation")
    /\ Set(daemon, r, d) /\ Set(src, r, source)
    /\ Set(floor, r, Visible(agent[r]))
    /\ UNCHANGED <<agent, cacheKey, result, blobs, receipt, rgen, rglob, env, kept,
                   cacheVars, faults>>
    /\ JobOnly

\* all_secrets_for reads the generation; if any of its statements fails, exec_job
\* goes on without secrets.
secrets_generation(r) ==
    /\ \/ Step(r, "generation", "lookup") /\ Set(rgen, r, gen) /\ Works
       \/ Step(r, "generation", "job") /\ Fails /\ UNCHANGED rgen
    /\ UNCHANGED <<rowVars, daemon, src, rglob, env, kept, floor, cacheVars>>
    /\ JobOnly

\* Mutation of Hit: an entry is used whatever generation it was filed under.
Hit_any_generation(r) == cenv[daemon[r]][agent[r]] # None

Hit(r) == cgen[daemon[r]] = rgen[r] /\ cenv[daemon[r]][agent[r]] # None

cache_lookup(r) ==
    /\ \/ Step(r, "lookup", "job") /\ Hit(r) /\ Set(env, r, cenv[daemon[r]][agent[r]])
       \/ Step(r, "lookup", "global") /\ ~Hit(r) /\ UNCHANGED env
    /\ UNCHANGED <<rowVars, daemon, src, rgen, rglob, kept, floor, cacheVars, faults>>
    /\ JobOnly

load_global(r) ==
    /\ \/ Step(r, "global", "scoped") /\ Set(rglob, r, glob) /\ Works
       \/ Step(r, "global", "job") /\ Fails /\ UNCHANGED rglob
    /\ UNCHANGED <<rowVars, daemon, src, rgen, env, kept, floor, cacheVars>>
    /\ JobOnly

load_scoped(r) ==
    /\ \/ Step(r, "scoped", "store") /\ Set(env, r, <<rglob[r], scoped[agent[r]]>>) /\ Works
       \/ Step(r, "scoped", "job") /\ Fails /\ UNCHANGED env
    /\ Set(rglob, r, 0)
    /\ UNCHANGED <<rowVars, daemon, src, rgen, kept, floor, cacheVars>>
    /\ JobOnly

\* Mutation of cache_store: filed under the generation of now, not the one read
\* before the values.
cache_store_now(r) ==
    LET d == daemon[r] IN
    /\ Step(r, "store", "job")
    /\ Set(cgen, d, gen)
    /\ Set(cenv, d, [a \in Agents |-> IF a = agent[r] THEN env[r]
                                      ELSE IF cgen[d] = gen THEN cenv[d][a] ELSE None])
    /\ UNCHANGED <<rowVars, daemon, src, rgen, rglob, env, kept, floor, faults>>
    /\ JobOnly

\* Filed under the generation read first; another generation's entries go.
cache_store(r) ==
    LET d == daemon[r] IN
    /\ Step(r, "store", "job")
    /\ Set(cgen, d, rgen[r])
    /\ Set(cenv, d, [a \in Agents |-> IF a = agent[r] THEN env[r]
                                      ELSE IF cgen[d] = rgen[r] THEN cenv[d][a] ELSE None])
    /\ UNCHANGED <<rowVars, daemon, src, rgen, rglob, env, kept, floor, faults>>
    /\ JobOnly

\* The job ran: an exit code, zero or not, is recorded before its outputs; a
\* timeout or a vanished container ends the run with no outputs at all.
finish_run(r) ==
    /\ \/ /\ Step(r, "job", "output")
          /\ \E st \in {"succeeded", "failed"} : Set(status, r, st)
       \/ Step(r, "job", "done") /\ Set(status, r, "failed")
    /\ UNCHANGED <<agent, cacheKey, result, blobs, receipt, daemon, src, rgen, rglob, env, kept,
                   floor, cacheVars, faults>>
    /\ JobOnly

\* set_run_output_blobs, then set_run_result, either of which may fail; `kept` is
\* exec_job's provenance_ok.  One step: nobody reads the blobs column meanwhile.
set_run_outputs(r) ==
    /\ Step(r, "output", "receipt")
    /\ \/ Set(blobs, r, Output(r)) /\ Set(result, r, Output(r)) /\ Works /\ UNCHANGED kept
       \/ Set(result, r, Output(r)) /\ Fails /\ Set(kept, r, FALSE) /\ UNCHANGED blobs
       \/ Set(blobs, r, Output(r)) /\ Fails /\ Set(kept, r, FALSE) /\ UNCHANGED result
    /\ UNCHANGED <<status, agent, cacheKey, receipt, daemon, src, rgen, rglob, env,
                   floor, cacheVars>>
    /\ JobOnly

\* The claims of a receipt, and the copy of them under the signatures.
build_receipt(r, g) ==
    LET claims == [source |-> src[r], gen |-> g, output |-> Output(r), blobs |-> Output(r)]
    IN  [claims |-> claims, signed |-> claims]

\* Mutation of set_run_receipt: recorded whatever became of the outputs.
set_run_receipt_always(r) ==
    /\ Step(r, "receipt", "done")
    /\ Set(receipt, r, build_receipt(r, gen))
    /\ UNCHANGED <<status, agent, cacheKey, result, blobs, daemon, src, rgen, rglob, env, kept,
                   floor, cacheVars, faults>>
    /\ JobOnly

\* The generation is read now, after the job (0 if that fails), and the receipt
\* written unless an output write failed.  The two statements are one step: only
\* this task writes the row's receipt, and nothing in between concerns it.
set_run_receipt(r) ==
    /\ Step(r, "receipt", "done")
    /\ \/ kept[r] /\ Works /\ Set(receipt, r, build_receipt(r, gen))
       \/ kept[r] /\ Fails /\ Set(receipt, r, build_receipt(r, 0))
       \/ kept[r] /\ Fails /\ UNCHANGED receipt
       \/ ~kept[r] /\ Works /\ UNCHANGED receipt
    /\ UNCHANGED <<status, agent, cacheKey, result, blobs, daemon, src, rgen, rglob, env, kept,
                   floor, cacheVars>>
    /\ JobOnly

\* The stored receipt is changed outside Dokan: it claims what was not signed.
alter_receipt(r) ==
    /\ receipt[r] # None /\ Fails
    /\ \E s \in Sources \ {receipt[r].signed.source} :
        Set(receipt, r, [claims |-> [receipt[r].claims EXCEPT !.source = s,
                                         !.output = <<s, @[2]>>, !.blobs = <<s, @[2]>>],
                         signed |-> receipt[r].signed])
    /\ UNCHANGED <<source, edits, secretVars, cacheVars, status, agent, cacheKey, result, blobs,
                   jobVars, req, floor>>

-----------------------------------------------------------------------------
(* run_script with cache = true.                                           *)

ClientOnly == UNCHANGED <<source, edits, secretVars, cacheVars, jobVars, faults>>
At(c, op) == req[c].op = op
Answer(c, op) == Set(req, c, IF op \in {"INCONCLUSIVE", "TAMPERED"} THEN [op |-> op]
                             ELSE [req[c] EXCEPT !.op = op])

get_script(c, a) ==
    /\ At(c, "new")
    /\ Set(req, c, [op |-> "gen", agent |-> a, src |-> source])
    /\ UNCHANGED <<rowVars, floor>> /\ ClientOnly

\* `want` remembers the secrets that go with this generation.
key_generation(c) ==
    /\ At(c, "gen")
    /\ Set(req, c, [op |-> "find", agent |-> req[c].agent, src |-> req[c].src,
                    gen |-> gen, want |-> Visible(req[c].agent)])
    /\ UNCHANGED <<rowVars, floor>> /\ ClientOnly

\* Mutation of run_cache_key: without the secrets generation.
run_cache_key_bare(s, g) == <<s, 0>>

\* The agent, whose scoped secrets the job sees, is not part of the key.
run_cache_key(s, g) == <<s, g>>

Recallable(k) == {r \in Runs : cacheKey[r] = k /\ status[r] = "succeeded"}

find_cached_run(c) ==
    LET hits == Recallable(run_cache_key(req[c].src, req[c].gen)) IN
    /\ At(c, "find")
    /\ \/ hits = {} /\ Answer(c, "insert")
       \/ \E r \in hits :
            /\ \A q \in hits : q <= r
            /\ Set(req, c, [op |-> "recalled", agent |-> req[c].agent, src |-> req[c].src,
                            want |-> req[c].want, run |-> r, out |-> result[r]])
    /\ UNCHANGED <<rowVars, floor>> /\ ClientOnly

\* Mutation of InsertRun: the agent id is not stored.
InsertRun_anonymous(r, a) ==
    /\ status[r] = "absent" /\ \A q \in Runs : q < r => status[q] # "absent"
    /\ Set(status, r, "pending") /\ Set(agent, r, None)

InsertRun(r, a) ==
    /\ status[r] = "absent" /\ \A q \in Runs : q < r => status[q] # "absent"
    /\ Set(status, r, "pending") /\ Set(agent, r, a)

insert_run(c) ==
    /\ At(c, "insert")
    /\ \E r \in Runs :
        /\ InsertRun(r, req[c].agent)
        /\ Set(req, c, [op |-> "key", src |-> req[c].src, gen |-> req[c].gen, run |-> r])
    /\ UNCHANGED <<cacheKey, result, blobs, receipt, floor>> /\ ClientOnly

\* A statement of its own, its error ignored: the run then just has no key.
set_run_cache_key(c) ==
    /\ At(c, "key")
    /\ Set(req, c, [op |-> "enqueued"])
    /\ \/ Set(cacheKey, req[c].run, run_cache_key(req[c].src, req[c].gen)) /\ Works
       \/ Fails /\ UNCHANGED cacheKey
    /\ UNCHANGED <<source, edits, secretVars, cacheVars, status, agent, result, blobs, receipt,
                   jobVars, floor>>

-----------------------------------------------------------------------------
(* reproduce_run.                                                          *)

\* Mutation of verify_receipt: the signature is checked, its agreement with the
\* claims is not.
verify_receipt_signature_only(rc) == rc.signed.source \in Sources

\* The HMAC is over all claims; the public path compares output and blobs.
verify_receipt(rc) ==
    /\ rc.claims = rc.signed
    /\ rc.claims.output = rc.signed.output /\ rc.claims.blobs = rc.signed.blobs

\* The re-run would execute the live source, so it must still be the recorded one.
\* Reading the receipt and the script is one step: the receipt does not change.
reproduce_run(c, r, a) ==
    LET rc == receipt[r] IN
    /\ At(c, "new") /\ status[r] # "absent"
    /\ \/ rc = None /\ Answer(c, "INCONCLUSIVE")
       \/ rc # None /\ ~verify_receipt(rc) /\ Answer(c, "TAMPERED")
       \/ /\ rc # None /\ verify_receipt(rc) /\ source # rc.claims.source
          /\ Answer(c, "INCONCLUSIVE")
       \/ /\ rc # None /\ verify_receipt(rc) /\ source = rc.claims.source
          /\ Set(req, c, [op |-> "rerun", orig |-> r, agent |-> a, claims |-> rc.claims])
    /\ UNCHANGED <<rowVars, floor>> /\ ClientOnly

insert_rerun(c) ==
    /\ At(c, "rerun")
    /\ \E r \in Runs :
        /\ InsertRun(r, req[c].agent)
        /\ Set(req, c, [op |-> "poll", orig |-> req[c].orig, agent |-> req[c].agent,
                        claims |-> req[c].claims, run |-> r])
    /\ UNCHANGED <<cacheKey, result, blobs, receipt, floor>> /\ ClientOnly

\* Polls until the run is terminal or the caller's timeout is over, then reads its
\* receipt, which exec_job may not have written yet.
compare_receipts(c) ==
    LET st == status[req[c].run]
        rc == receipt[req[c].run]
        same == /\ rc.claims.output = req[c].claims.output
                /\ rc.claims.blobs = req[c].claims.blobs
    IN
    /\ At(c, "poll")
    /\ \/ st \in {"pending", "running"} /\ Answer(c, "INCONCLUSIVE")
       \/ st \in {"succeeded", "failed"} /\ rc = None /\ Answer(c, "INCONCLUSIVE")
       \/ st \in {"succeeded", "failed"} /\ rc # None /\ same /\ Answer(c, "REPRODUCED")
       \/ st \in {"succeeded", "failed"} /\ rc # None /\ ~same /\ Answer(c, "DIVERGED")
    /\ UNCHANGED <<rowVars, floor>> /\ ClientOnly

-----------------------------------------------------------------------------
Job_step(r) ==
    \/ secrets_generation(r) \/ cache_lookup(r) \/ load_global(r) \/ load_scoped(r)
    \/ cache_store(r) \/ finish_run(r) \/ set_run_outputs(r) \/ set_run_receipt(r)

Client_step(c) ==
    \/ key_generation(c) \/ find_cached_run(c) \/ insert_run(c) \/ set_run_cache_key(c)
    \/ insert_rerun(c) \/ compare_receipts(c)

Next ==
    \/ update_script
    \/ \E scope \in Agents \cup {None} : upsert_secret(scope)
    \/ \E d \in Daemons, r \in Runs : claim_run(d, r)
    \/ \E r \in Runs : Job_step(r)
    \/ \E r \in Runs : alter_receipt(r)
    \/ \E c \in Requests, a \in Agents : get_script(c, a)
    \/ \E c \in Requests, r \in Runs, a \in Agents : reproduce_run(c, r, a)
    \/ \E c \in Requests : Client_step(c)

Spec == Init /\ [][Next]_vars

-----------------------------------------------------------------------------
(* Properties.                                                             *)

Envs == Nat \X Nat

\* Every variable of the secrets and of the jobs that read them stays in its type.
TypeOK ==
    /\ edits \in Nat /\ gen \in Nat /\ glob \in Nat
    /\ scoped \in [Agents -> Nat]
    /\ cgen \in [Daemons -> Nat]
    /\ cenv \in [Daemons -> [Agents -> Envs \cup {None}]]
    /\ status \in [Runs -> {"absent", "pending", "running", "succeeded", "failed"}]
    /\ agent \in [Runs -> Agents \cup {None}]
    /\ pc \in [Runs -> {"none", "generation", "lookup", "global", "scoped", "store",
                        "job", "output", "receipt", "done"}]
    /\ daemon \in [Runs -> Daemons \cup {None}]
    /\ rgen \in [Runs -> Nat] /\ rglob \in [Runs -> Nat]
    /\ env \in [Runs -> Envs \cup {None}]
    /\ floor \in [Runs -> Envs \cup {None}]
    /\ faults \in 0 .. MaxFaults
    /\ \A r \in Runs : /\ status[r] # "absent" => agent[r] \in Agents
                       /\ pc[r] # "none" => daemon[r] \in Daemons /\ floor[r] \in Envs
                                            /\ status[r] # "absent"

\* db.rs all_secrets_for: an entry filed under the generation of now holds the
\* secrets of now, whatever readers and writers did while it was being filled.
CacheCurrent ==
    \A d \in Daemons, a \in Agents :
        cgen[d] = gen /\ cenv[d][a] # None => cenv[d][a] = Visible(a)

\* Rotating a secret takes effect: a run claimed after set_secret returned is never
\* given an older value, on no daemon and through no cache.
RotationEffective ==
    \A r \in Runs : env[r] # None =>
        env[r][1] >= floor[r][1] /\ env[r][2] >= floor[r][2]

\* exec.rs: a receipt never attests outputs that the run's row does not show, even
\* when one of the writes before it failed.
ReceiptMatchesRow ==
    \A r \in Runs : receipt[r] # None =>
        receipt[r].signed.output = result[r] /\ receipt[r].signed.blobs = blobs[r]

\* The key of what the run executed is not the key it is filed under: the source
\* or the secrets changed while it waited in the queue.
Drifted(r) == cacheKey[r] # run_cache_key(src[r], rgen[r])

\* mcp.rs run_cache_key, db.rs find_cached_run: a recall comes from a succeeded run, and
\* differs from what the caller's own run would give in these ways and in no other.  The key
\* leaves out the agent, whose scoped secrets the job sees; the result is not
\* written yet, or its write failed; the job's read of its secrets failed, or a
\* rotation fell between its claim and that read; the run had drifted.
WrongRecallExplained ==
    \A c \in Requests : At(c, "recalled") =>
        LET q == req[c] IN
        /\ status[q.run] = "succeeded"
        /\ \/ q.out = <<q.src, q.want>>
           \/ q.agent # agent[q.run]
           \/ q.out = None
           \/ env[q.run] = None \/ env[q.run] # floor[q.run]
           \/ Drifted(q.run)

\* mcp.rs reproduce_run: the verdicts are about what the two jobs really computed,
\* not about what a stored receipt claims: REPRODUCED means the same outputs,
\* DIVERGED different ones (unless the re-run's own receipt was altered since).
VerdictTrue ==
    \A c \in Requests :
        /\ At(c, "REPRODUCED") /\ verify_receipt(receipt[req[c].run]) => Output(req[c].run) = Output(req[c].orig)
        /\ At(c, "DIVERGED") /\ verify_receipt(receipt[req[c].run]) => Output(req[c].run) # Output(req[c].orig)

-----------------------------------------------------------------------------
(* Promises of the repository that the code does not keep: TLC refutes them,  *)
(* see README.md, section 3.                                                  *)

\* mcp.rs run_script: cache = true recalls "an identical prior run (same
\* source+input+secrets-gen)": the run recalled executed the source, with the
\* secrets, that the caller's own run would.
RecallIdentical ==
    \A c \in Requests : At(c, "recalled") => Output(req[c].run) = <<req[c].src, req[c].want>>

\* mcp.rs run_script: and it "returns its result", the one that run computed.
RecallReturnsResult ==
    \A c \in Requests : At(c, "recalled") => req[c].out = Output(req[c].run)
=============================================================================
