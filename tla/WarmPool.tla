------------------------------ MODULE WarmPool ------------------------------
(***************************************************************************)
(* The containers of one executor's Docker host: the warm pool and its     *)
(* background filler (pool.rs), the resizable semaphore that bounds the    *)
(* jobs and the autoscaler that retunes both (scale.rs), and the jobs that *)
(* take a permit, a container, and discard it (worker.rs, exec.rs).        *)
(*                                                                         *)
(* The pool keeps its target for each of the prewarmed images.  A critical *)
(* section of a mutex, or one Docker call, is one step.  The load the      *)
(* autoscaler measures is an arbitrary number.                             *)
(***************************************************************************)
EXTENDS Integers, FiniteSets, Sequences

CONSTANTS
    Containers,     \* container ids, an interval 1 .. n; removed ids are used again
    Images,         \* Executor::prewarm: WarmPool::known, one per runtime
    Jobs,           \* the tasks that may hold a permit
    ConcFloor, ConcMax, WarmFloor, WarmMax,     \* ScaleCfg
    Loads,          \* values of ceil(L * headroom)
    BURST,          \* spawn_filler: creations or removals per tick
    MaxRuns,        \* bound: runs that are claimed
    MaxRetunes,     \* bound: changes of the load
    MaxFaults,      \* bound: Docker calls that fail after they took effect, or don't
    MaxCrashes,     \* bound: crashes of the executor
    MaxLists,       \* bound: start-ups whose list_containers fails
    MaxTroubles,    \* bound: failing calls, crashes and such start-ups together
    None

ASSUME WarmPoolAssumption ==
    /\ Containers \subseteq Nat /\ Loads \subseteq Nat
    /\ ConcFloor \in Nat /\ ConcMax \in Nat /\ ConcFloor <= ConcMax /\ ConcMax >= 1
    /\ WarmFloor \in Nat /\ WarmMax \in Nat /\ WarmFloor <= WarmMax
    /\ BURST \in Nat \ {0}
    /\ MaxRuns \in Nat /\ MaxRetunes \in Nat /\ MaxFaults \in Nat /\ MaxCrashes \in Nat
    /\ MaxLists \in Nat /\ MaxTroubles \in Nat /\ IsFiniteSet(Images)
    /\ None \notin Containers /\ None \notin Images

VARIABLES
    exists,         \* the labelled containers on the host
    idle,           \* WarmPool::idle, per image a stack
    target,         \* WarmPool::target_idle
    avail, current, \* Concurrency: free permits of the semaphore, current
    load,           \* what the autoscaler measures
    pc, cont,       \* per job where it stands, and its container
    filler, todo,   \* the filler: where it stands, how many containers to go,
    goal, rest,     \* the target it read this tick, the images it has yet to visit,
    image,          \* and the one it is at
    doomed,         \* containers being discarded: by the filler, or by sweep_orphans
    up,             \* the executor: "down", "sweep", "up"
    used,           \* history: containers on the host that ran a job
    left            \* what is left of the bounds

dockerVars == <<exists, used>>
permitVars == <<avail, current>>
jobVars == <<pc, cont>>
tickVars == <<goal, rest, image>>
fillVars == <<filler, todo, doomed, tickVars>>
vars == <<dockerVars, idle, target, permitVars, load, jobVars, fillVars, up, left>>

Smaller(a, b) == IF a < b THEN a ELSE b
Clamp(n, lo, hi) == IF n < lo THEN lo ELSE IF n > hi THEN hi ELSE n
Elems(s) == {s[i] : i \in 1 .. Len(s)}
Top(s) == s[Len(s)]
Pop(s) == SubSeq(s, 1, Len(s) - 1)
Troubles == (MaxFaults - left["faults"]) + (MaxCrashes - left["crashes"]) + (MaxLists - left["lists"])
Spend(what) ==
    /\ left[what] > 0 /\ left' = [left EXCEPT ![what] = @ - 1]
    /\ what \in {"faults", "crashes", "lists"} => Troubles < MaxTroubles
Free == UNCHANGED left

Init ==
    /\ exists = {} /\ used = {} /\ idle = [i \in Images |-> <<>>]
    /\ target = WarmFloor
    /\ current = Clamp(ConcFloor, 1, ConcMax) /\ avail = current
    /\ load = 0
    /\ pc = [j \in Jobs |-> "none"] /\ cont = [j \in Jobs |-> None]
    /\ filler = "sleep" /\ todo = 0 /\ doomed = {}
    /\ goal = 0 /\ rest = {} /\ image = None
    /\ up = "up"
    /\ left = [runs |-> MaxRuns, retunes |-> MaxRetunes, faults |-> MaxFaults,
               crashes |-> MaxCrashes, lists |-> MaxLists]

-----------------------------------------------------------------------------
(* Docker.  A created container that does not start stays on the host.     *)

NewId(c) == c \in Containers \ exists /\ \A d \in Containers \ exists : c <= d

\* create_one succeeds with container c.
Created(c) == NewId(c) /\ exists' = exists \cup {c} /\ used' = used \ {c}

\* create_one fails: at create_container, or at start_container.
CreateFails ==
    /\ Spend("faults")
    /\ \/ UNCHANGED dockerVars
       \/ \E c \in Containers : Created(c)

\* discard: remove_container, its error ignored.
Removed(c) ==
    \/ exists' = exists \ {c} /\ used' = used \ {c} /\ Free
    \/ Spend("faults") /\ UNCHANGED dockerVars

-----------------------------------------------------------------------------
(* Jobs.                                                                   *)

\* The worker loop takes one permit before it looks for work; the flow engine
\* takes one per container.
acquire_permit(j) ==
    /\ up = "up" /\ pc[j] = "none" /\ avail > 0
    /\ \A k \in Jobs : pc[k] # "permit"
    /\ pc' = [pc EXCEPT ![j] = "permit"]
    /\ avail' = avail - 1
    /\ UNCHANGED <<dockerVars, idle, target, current, load, cont, fillVars, up, left>>

\* Nothing to claim: the permit is dropped.
no_work(j) ==
    /\ pc[j] = "permit"
    /\ pc' = [pc EXCEPT ![j] = "none"]
    /\ avail' = avail + 1
    /\ UNCHANGED <<dockerVars, idle, target, current, load, cont, fillVars, up, left>>

\* run_inner picks the pool, or a one-off container (no network, own caps, files).
start_run(j) ==
    /\ pc[j] = "permit" /\ Spend("runs")
    /\ \E how \in {"acquire", "create"} : pc' = [pc EXCEPT ![j] = how]
    /\ UNCHANGED <<dockerVars, idle, target, permitVars, load, cont, fillVars, up>>

\* Mutation of acquire: the container stays in the pool.
acquire_peek(j) ==
    /\ pc[j] = "acquire"
    /\ \E i \in Images :
        /\ idle[i] # <<>> /\ UNCHANGED idle
        /\ pc' = [pc EXCEPT ![j] = "run"] /\ cont' = [cont EXCEPT ![j] = Top(idle[i])]
    /\ UNCHANGED <<dockerVars, target, permitVars, load, fillVars, up, left>>

\* i is the image of the script's runtime.
acquire(j) ==
    /\ pc[j] = "acquire"
    /\ \E i \in Images :
        \/ /\ idle[i] # <<>> /\ idle' = [idle EXCEPT ![i] = Pop(@)]
           /\ pc' = [pc EXCEPT ![j] = "run"] /\ cont' = [cont EXCEPT ![j] = Top(idle[i])]
        \/ /\ idle[i] = <<>> /\ UNCHANGED <<idle, cont>>
           /\ pc' = [pc EXCEPT ![j] = "create"]
    /\ UNCHANGED <<dockerVars, target, permitVars, load, fillVars, up, left>>

\* create_idle on a cold miss, acquire_isolated or acquire_with_caps; an error ends
\* the task, which drops its permit.
create_one(j) ==
    /\ pc[j] = "create"
    /\ \/ \E c \in Containers :
            /\ Created(c) /\ Free
            /\ pc' = [pc EXCEPT ![j] = "run"] /\ cont' = [cont EXCEPT ![j] = c]
            /\ UNCHANGED avail
       \/ /\ CreateFails
          /\ pc' = [pc EXCEPT ![j] = "none"] /\ avail' = avail + 1
          /\ UNCHANGED cont
    /\ UNCHANGED <<idle, target, current, load, fillVars, up>>

exec_job(j) ==
    /\ pc[j] = "run"
    /\ pc' = [pc EXCEPT ![j] = "discard"]
    /\ used' = used \cup {cont[j]}
    /\ UNCHANGED <<exists, idle, target, permitVars, load, cont, fillVars, up, left>>

\* Mutation of discard: the task still names its container when it ends.
discard_holding(j) ==
    /\ pc[j] = "discard" /\ Removed(cont[j])
    /\ pc' = [pc EXCEPT ![j] = "none"]
    /\ avail' = avail + 1
    /\ UNCHANGED <<idle, target, current, load, cont, fillVars, up>>

\* Whatever the outcome: discard, then the task ends and drops its permit.
discard(j) ==
    /\ pc[j] = "discard" /\ Removed(cont[j])
    /\ pc' = [pc EXCEPT ![j] = "none"] /\ cont' = [cont EXCEPT ![j] = None]
    /\ avail' = avail + 1
    /\ UNCHANGED <<idle, target, current, load, fillVars, up>>

-----------------------------------------------------------------------------
(* The autoscaler: every tick, both targets from the load.                 *)

measure ==
    /\ up = "up" /\ Spend("retunes")
    /\ \E n \in Loads \ {load} : load' = n
    /\ UNCHANGED <<dockerVars, idle, target, permitVars, jobVars, fillVars, up>>

\* Mutations of set: the size is set to the target although permits are in use;
\* it never shrinks.
set_forgetful(t) ==
    IF t > current THEN avail' = avail + (t - current) /\ current' = t
    ELSE /\ avail' = avail - Smaller(current - t, avail)
         /\ current' = t
set_growing(t) ==
    IF t > current THEN avail' = avail + (t - current) /\ current' = t
    ELSE UNCHANGED permitVars

\* Growing adds permits; shrinking forgets those that are free right now.
set(t) ==
    IF t > current THEN avail' = avail + (t - current) /\ current' = t
    ELSE LET removed == Smaller(current - t, avail)
         IN  avail' = avail - removed /\ current' = current - removed

ConcTarget == Clamp(Clamp(load, ConcFloor, ConcMax), 1, ConcMax)
WarmTarget == Clamp(load, WarmFloor, WarmMax)

autoscale ==
    /\ up = "up"
    /\ set(ConcTarget)
    /\ target' = WarmTarget
    /\ UNCHANGED <<dockerVars, idle, load, jobVars, fillVars, up, left>>

-----------------------------------------------------------------------------
(* The filler.  Each tick reads the target once and visits every image.    *)

Deficit(i) == Smaller(goal - Len(idle[i]), BURST)

filler_tick ==
    /\ up = "up" /\ filler = "sleep"
    /\ filler' = "next" /\ goal' = target /\ rest' = Images
    /\ UNCHANGED <<dockerVars, idle, target, permitVars, load, jobVars, todo, doomed, image, up, left>>

\* One image compared with the target: remove the excess, create what is missing,
\* or neither.
filler_visit(i) ==
    \/ /\ Len(idle[i]) > goal
       /\ filler' = "pop" /\ todo' = Smaller(Len(idle[i]) - goal, BURST) /\ image' = i
    \/ /\ Len(idle[i]) <= goal /\ Deficit(i) > 0
       /\ filler' = "fill" /\ todo' = Deficit(i) /\ image' = i
    \/ /\ Len(idle[i]) <= goal /\ Deficit(i) = 0
       /\ UNCHANGED <<filler, todo, image>>

filler_next ==
    /\ filler = "next"
    /\ \/ /\ \E i \in rest : filler_visit(i) /\ rest' = rest \ {i}
          /\ UNCHANGED goal
       \/ /\ rest = {} /\ filler' = "sleep" /\ goal' = 0
          /\ UNCHANGED <<todo, image, rest>>
    /\ UNCHANGED <<dockerVars, idle, target, permitVars, load, jobVars, doomed, up, left>>

\* Pops under a lock of its own: jobs may have taken some since the comparison.
filler_pop ==
    /\ filler = "pop"
    /\ LET s == idle[image]
           n == Len(s) - Smaller(todo, Len(s))
       IN  /\ doomed' = {s[k] : k \in n + 1 .. Len(s)}
           /\ idle' = [idle EXCEPT ![image] = SubSeq(s, 1, n)]
    /\ filler' = "drop" /\ todo' = 0
    /\ UNCHANGED <<dockerVars, target, permitVars, load, jobVars, tickVars, up, left>>

filler_discard ==
    /\ filler = "drop"
    /\ \/ \E c \in doomed : Removed(c) /\ doomed' = doomed \ {c} /\ UNCHANGED <<filler, image>>
       \/ /\ doomed = {} /\ filler' = "next" /\ image' = None
          /\ Free /\ UNCHANGED <<dockerVars, doomed>>
    /\ UNCHANGED <<idle, target, permitVars, load, jobVars, todo, goal, rest, up>>

filler_create ==
    /\ filler = "fill"
    /\ \/ /\ todo > 0 /\ todo' = todo - 1 /\ UNCHANGED <<filler, image>>
          /\ \/ /\ \E c \in Containers :
                    Created(c) /\ Free /\ idle' = [idle EXCEPT ![image] = Append(@, c)]
             \/ CreateFails /\ UNCHANGED idle
       \/ /\ todo = 0 /\ filler' = "next" /\ image' = None
          /\ Free /\ UNCHANGED <<dockerVars, idle, todo>>
    /\ UNCHANGED <<target, permitVars, load, jobVars, doomed, goal, rest, up>>

-----------------------------------------------------------------------------
(* Crash and start-up.                                                     *)

\* The process is gone, its containers are not.
crash ==
    /\ up # "down" /\ Spend("crashes")
    /\ up' = "down"
    /\ idle' = [i \in Images |-> <<>>] /\ doomed' = {} /\ filler' = "sleep" /\ todo' = 0
    /\ goal' = 0 /\ rest' = {} /\ image' = None
    /\ pc' = [j \in Jobs |-> "none"] /\ cont' = [j \in Jobs |-> None]
    /\ UNCHANGED <<dockerVars, target, permitVars, load>>

\* Mutation of sweep_orphans: the containers of the dead process are not listed.
sweep_orphans_none ==
    /\ up = "down" /\ up' = "sweep" /\ doomed' = {} /\ Free
    /\ UNCHANGED <<dockerVars, idle, target, permitVars, load, jobVars, filler, todo, tickVars>>

\* Lists every labelled container, to discard one after the other; when the list
\* call fails, nothing is swept and the start-up goes on.
sweep_orphans ==
    /\ up = "down" /\ up' = "sweep"
    /\ \/ doomed' = exists /\ Free
       \/ doomed' = {} /\ Spend("lists")
    /\ UNCHANGED <<dockerVars, idle, target, permitVars, load, jobVars, filler, todo, tickVars>>

sweep_discard ==
    /\ up = "sweep"
    /\ \E c \in doomed : Removed(c) /\ doomed' = doomed \ {c}
    /\ UNCHANGED <<idle, target, permitVars, load, jobVars, filler, todo, tickVars, up>>

\* arm, prewarm, a new Concurrency, worker and autoscaler.
arm ==
    /\ up = "sweep" /\ doomed = {} /\ up' = "up"
    /\ target' = WarmFloor
    /\ current' = Clamp(ConcFloor, 1, ConcMax) /\ avail' = current'
    /\ UNCHANGED <<dockerVars, idle, load, jobVars, fillVars, left>>

-----------------------------------------------------------------------------
Job_step(j) == no_work(j) \/ start_run(j) \/ acquire(j) \/ create_one(j) \/ exec_job(j) \/ discard(j)
Filler_step == filler_tick \/ filler_next \/ filler_pop \/ filler_discard \/ filler_create
Startup == sweep_orphans \/ sweep_discard \/ arm

Next ==
    \/ \E j \in Jobs : acquire_permit(j)
    \/ \E j \in Jobs : Job_step(j)
    \/ measure \/ autoscale
    \/ Filler_step
    \/ crash \/ Startup

Spec == Init /\ [][Next]_vars

\* tokio polls jobs, filler and autoscaler for ever, and a dead executor is
\* started again.  Arrivals, load, faults and crashes are not fair.
Fairness ==
    /\ \A j \in Jobs : WF_vars(Job_step(j))
    /\ WF_vars(autoscale) /\ WF_vars(Filler_step) /\ WF_vars(Startup)

FairSpec == Spec /\ Fairness

-----------------------------------------------------------------------------
(* Properties.                                                             *)

Holding(j) == pc[j] # "none"
Idle == UNION {Elems(idle[i]) : i \in Images}

\* Every variable stays in its type; a job has a container exactly while it runs or
\* discards one, the filler is at an image exactly while it works on one.
TypeOK ==
    /\ exists \subseteq Containers /\ used \subseteq Containers /\ doomed \subseteq Containers
    /\ idle \in [Images -> Seq(Containers)]
    /\ target \in Nat /\ avail \in Nat /\ current \in Nat /\ load \in Nat /\ todo \in Nat
    /\ pc \in [Jobs -> {"none", "permit", "acquire", "create", "run", "discard"}]
    /\ cont \in [Jobs -> Containers \cup {None}]
    /\ filler \in {"sleep", "next", "pop", "drop", "fill"} /\ up \in {"down", "sweep", "up"}
    /\ goal \in Nat /\ rest \subseteq Images /\ image \in Images \cup {None}
    /\ filler \in {"pop", "drop", "fill"} <=> image # None
    /\ \A j \in Jobs : pc[j] \in {"run", "discard"} <=> cont[j] # None

\* exec.rs: a container runs one job and is never handed out again: no two jobs
\* share one, none is in the pool or being discarded while a job has it, and the
\* pool holds each container once, for one image, and none that ran a job.
SoleOwner ==
    /\ \A i, k \in Jobs : cont[i] = cont[k] /\ cont[i] # None => i = k
    /\ \A j \in Jobs : cont[j] \notin Idle \cup doomed
    /\ Idle \cap (doomed \cup used) = {}
    /\ \A i, k \in Images : i # k => Elems(idle[i]) \cap Elems(idle[k]) = {}
    /\ \A i \in Images : Cardinality(Elems(idle[i])) = Len(idle[i])

\* scale.rs Concurrency: permits are neither lost nor made up by resizing while jobs
\* hold them, so never more than ConcMax jobs run.
PermitAccounting ==
    up = "up" => /\ avail + Cardinality({j \in Jobs : Holding(j)}) = current
                 /\ current \in 1 .. ConcMax

\* What one life of the executor may keep on the host: the warm maximum for each
\* image (main.rs: "per image"), and a container for each permit.
HostShare == Cardinality(Images) * WarmMax + ConcMax

\* The host-safe range of scale.rs, however filler, jobs, autoscaler, crashes and
\* restarts overlap: the host holds at most one executor's share, and beyond that
\* one container for each Docker call that failed (created and not started, or not
\* removed), and a dead executor's whole share for each start-up whose
\* list_containers failed, since that start-up sweeps nothing.
HostBound ==
    LET failedLists == MaxLists - left["lists"]
        failedCalls == MaxFaults - left["faults"]
    IN  Cardinality(exists) <= (1 + failedLists) * HostShare + failedCalls

\* Once the load stays the same and the runs are done, the semaphore and the pool of
\* every image settle at the autoscaler's targets, from above as well as from below.
Converges ==
    <>[](left["runs"] = 0 =>
            /\ up = "up" /\ current = ConcTarget /\ target = WarmTarget
            /\ \A i \in Images : Len(idle[i]) = target)
=============================================================================
