--------------------------- MODULE WarmPoolProofs ---------------------------
(***************************************************************************)
(* Proofs about WarmPool, for any number of images, containers, jobs,      *)
(* runs, loads, faults and crashes, and any ScaleCfg: who owns a           *)
(* container, how many permits there are, and how many containers are on   *)
(* the host.                                                               *)
(***************************************************************************)
EXTENDS WarmPool, FiniteSetTheorems, FunctionTheorems, SequenceTheorems, TLAPS

\* The counters of the bounds, and the targets within the configured range.
LeftOK ==
    /\ left \in [{"runs", "retunes", "faults", "crashes", "lists"} -> Nat]
    /\ left["faults"] <= MaxFaults /\ left["lists"] <= MaxLists
    /\ target <= WarmMax /\ goal <= WarmMax
Typed == TypeOK /\ LeftOK

\* A crash leaves nothing of the process; only a running one has jobs and a filler.
DownOK ==
    /\ up # "up" => /\ filler = "sleep" /\ todo = 0
                    /\ \A i \in Images : idle[i] = <<>>
                    /\ \A j \in Jobs : pc[j] = "none" /\ cont[j] = None
    /\ up = "down" => doomed = {}
    /\ up = "up" /\ filler # "drop" => doomed = {}

\* What the process owns is on the host, and no container is owned twice.
Injective(s) == \A i, k \in 1 .. Len(s) : s[i] = s[k] => i = k
StacksOK ==
    /\ \A i \in Images : Injective(idle[i])
    /\ \A i, k \in Images : i # k => Elems(idle[i]) \cap Elems(idle[k]) = {}
OwnOK ==
    /\ Idle \subseteq exists /\ doomed \subseteq exists
    /\ \A j \in Jobs : cont[j] # None => cont[j] \in exists
    /\ \A i, k \in Jobs : cont[i] = cont[k] /\ cont[i] # None => i = k
    /\ \A j \in Jobs : cont[j] \notin Idle \cup doomed
    /\ Idle \cap (doomed \cup used) = {}
OwnInv == Typed /\ DownOK /\ StacksOK /\ OwnOK

\* Jobs with a permit, and jobs with a container.
Holders == {j \in Jobs : Holding(j)}
Busy == {j \in Jobs : cont[j] # None}
PermitInv == IsFiniteSet(Holders) /\ PermitAccounting

\* The pool's containers, those that the filler has popped but not yet removed
\* included, per image and together, and those it is about to create.
PoolOf(i) == Elems(idle[i]) \cup (IF i = image THEN doomed ELSE {})
Pool == Idle \cup doomed
Coming(i) == IF filler = "fill" /\ i = image THEN todo ELSE 0
PoolInv == up = "up" => \A i \in Images : Cardinality(PoolOf(i)) + Coming(i) <= WarmMax

\* Each container on the host is owned, or a Docker call failed, or it was left
\* behind by an executor that the next one did not list.
Faulted == MaxFaults - left["faults"]
Missed == MaxLists - left["lists"]
Behind == Missed * HostShare
HostInv ==
    /\ IsFiniteSet(exists)
    /\ up # "up" => Cardinality(exists) <= HostShare + Behind + Faulted
    /\ up = "up" => Cardinality(exists) <= Cardinality(Pool) + Cardinality(Busy) + Behind + Faulted
    /\ up = "sweep" => Cardinality(exists) <= Cardinality(doomed) + Behind + Faulted

-----------------------------------------------------------------------------
(* Types.                                                                  *)

\* Every step keeps TypeOK.
LEMMA TypeStep == Typed /\ [Next]_vars => TypeOK'
<1> SUFFICES ASSUME TypeOK, LeftOK, [Next]_vars PROVE TypeOK'
  BY DEF Typed
<1> USE WarmPoolAssumption
<1> USE DEF dockerVars, permitVars, jobVars, fillVars, tickVars, Free
<1>1. ASSUME NEW j \in Jobs, acquire_permit(j) PROVE TypeOK'
  BY <1>1 DEF acquire_permit, TypeOK
<1>2. ASSUME NEW j \in Jobs, no_work(j) PROVE TypeOK'
  BY <1>2 DEF no_work, TypeOK
<1>3. ASSUME NEW j \in Jobs, start_run(j) PROVE TypeOK'
  BY <1>3 DEF start_run, Spend, TypeOK
<1>4. ASSUME NEW j \in Jobs, acquire(j) PROVE TypeOK'
  <2>1. ASSUME NEW i \in Images, idle[i] # <<>>, idle' = [idle EXCEPT ![i] = Pop(@)],
               pc' = [pc EXCEPT ![j] = "run"], cont' = [cont EXCEPT ![j] = Top(idle[i])]
        PROVE  TypeOK'
    <3>1. idle[i] \in Seq(Containers) /\ Len(idle[i]) \in Nat /\ Len(idle[i]) >= 1
      BY <2>1 DEF TypeOK
    <3>2. Top(idle[i]) \in Containers /\ Pop(idle[i]) \in Seq(Containers)
      BY <3>1 DEF Top, Pop
    <3>3. idle' \in [Images -> Seq(Containers)]
      BY <2>1, <3>2 DEF TypeOK
    <3>4. cont' \in [Jobs -> Containers \cup {None}]
      BY <2>1, <3>2 DEF TypeOK
    <3>5. QED
      BY <1>4, <2>1, <3>2, <3>3, <3>4 DEF acquire, TypeOK
  <2>2. CASE UNCHANGED <<idle, cont>> /\ pc' = [pc EXCEPT ![j] = "create"]
    BY <1>4, <2>2 DEF acquire, TypeOK
  <2>3. QED
    BY <1>4, <2>1, <2>2 DEF acquire
<1>5. ASSUME NEW j \in Jobs, create_one(j) PROVE TypeOK'
  <2>0. exists' \subseteq Containers /\ used' \subseteq Containers
    BY <1>5 DEF create_one, CreateFails, Created, NewId, Spend, TypeOK
  <2>1. ASSUME NEW c \in Containers, pc' = [pc EXCEPT ![j] = "run"], cont' = [cont EXCEPT ![j] = c], UNCHANGED avail
        PROVE  TypeOK'
    BY <1>5, <2>0, <2>1 DEF create_one, TypeOK
  <2>2. CASE pc' = [pc EXCEPT ![j] = "none"] /\ avail' = avail + 1 /\ UNCHANGED cont
    BY <1>5, <2>0, <2>2 DEF create_one, TypeOK
  <2>3. QED
    BY <1>5, <2>1, <2>2 DEF create_one
<1>6. ASSUME NEW j \in Jobs, exec_job(j) PROVE TypeOK'
  BY <1>6 DEF exec_job, TypeOK
<1>7. ASSUME NEW j \in Jobs, discard(j) PROVE TypeOK'
  <2>1. exists' \subseteq Containers /\ used' \subseteq Containers
    BY <1>7 DEF discard, Removed, Spend, TypeOK
  <2>2. cont' \in [Jobs -> Containers \cup {None}]
    BY <1>7 DEF discard, TypeOK
  <2>3. QED
    BY <1>7, <2>1, <2>2 DEF discard, TypeOK
<1>8. CASE measure
  BY <1>8 DEF measure, Spend, TypeOK, LeftOK
<1>9. CASE autoscale
  <2>1. ConcTarget \in Nat /\ WarmTarget \in Nat
    BY DEF ConcTarget, WarmTarget, Clamp, TypeOK
  <2>2. avail' \in Nat /\ current' \in Nat
    BY <1>9, <2>1 DEF autoscale, set, Smaller, TypeOK
  <2>3. QED
    BY <1>9, <2>1, <2>2 DEF autoscale, TypeOK
<1>10. CASE filler_tick
  BY <1>10 DEF filler_tick, TypeOK
<1>10a. CASE filler_next
  <2>1. ASSUME NEW i \in rest, filler_visit(i), rest' = rest \ {i}, UNCHANGED goal PROVE TypeOK'
    <3>1. i \in Images /\ Len(idle[i]) \in Nat
      BY DEF TypeOK
    <3>2. \/ filler' \in {"pop", "fill"} /\ todo' \in Nat /\ image' = i
          \/ UNCHANGED <<filler, todo, image>>
      BY <2>1, <3>1 DEF filler_visit, Deficit, Smaller, TypeOK
    <3>3. QED
      BY <1>10a, <2>1, <3>1, <3>2 DEF filler_next, TypeOK
  <2>2. CASE rest = {} /\ filler' = "sleep" /\ goal' = 0 /\ UNCHANGED <<todo, image, rest>>
    BY <1>10a, <2>2 DEF filler_next, TypeOK
  <2>3. QED
    BY <1>10a, <2>1, <2>2 DEF filler_next
<1>11. CASE filler_pop
  <2> DEFINE s == idle[image]
             n == Len(s) - Smaller(todo, Len(s))
  <2>0. image \in Images /\ s \in Seq(Containers)
    BY <1>11 DEF filler_pop, TypeOK
  <2>1. n \in Nat /\ n <= Len(s) /\ Len(s) \in Nat
    BY <2>0 DEF Smaller, TypeOK
  <2>2. idle' = [idle EXCEPT ![image] = SubSeq(s, 1, n)] /\ doomed' = {s[k] : k \in n + 1 .. Len(s)}
    BY <1>11 DEF filler_pop
  <2>3. SubSeq(s, 1, n) \in Seq(Containers) /\ doomed' \subseteq Containers
    BY <2>0, <2>1, <2>2
  <2> HIDE DEF n, s
  <2>4. idle' \in [Images -> Seq(Containers)]
    BY <2>0, <2>2, <2>3 DEF TypeOK
  <2>5. QED
    BY <1>11, <2>3, <2>4 DEF filler_pop, TypeOK
<1>12. CASE filler_discard
  BY <1>12 DEF filler_discard, Removed, Spend, TypeOK
<1>13. CASE filler_create
  <2>0. image \in Images
    BY <1>13 DEF filler_create, TypeOK
  <2>1. exists' \subseteq Containers /\ used' \subseteq Containers
    BY <1>13 DEF filler_create, CreateFails, Created, NewId, Spend, TypeOK
  <2>2. ASSUME UNCHANGED idle \/ \E c \in Containers : idle' = [idle EXCEPT ![image] = Append(@, c)]
        PROVE  idle' \in [Images -> Seq(Containers)]
    <3>1. ASSUME NEW c \in Containers, idle' = [idle EXCEPT ![image] = Append(@, c)]
          PROVE  idle' \in [Images -> Seq(Containers)]
      <4>1. Append(idle[image], c) \in Seq(Containers)
        BY <2>0 DEF TypeOK
      <4>2. QED
        BY <2>0, <3>1, <4>1 DEF TypeOK
    <3>2. QED
      BY <2>2, <3>1 DEF TypeOK
  <2>3. CASE todo > 0 /\ todo' = todo - 1 /\ UNCHANGED <<filler, image>>
    <3>1. idle' \in [Images -> Seq(Containers)]
      BY <1>13, <2>2, <2>3 DEF filler_create
    <3>2. QED
      BY <1>13, <2>0, <2>1, <2>3, <3>1 DEF filler_create, TypeOK
  <2>4. CASE filler' = "next" /\ image' = None /\ UNCHANGED <<dockerVars, idle, todo>>
    BY <1>13, <2>0, <2>4 DEF filler_create, TypeOK
  <2>5. QED
    BY <1>13, <2>3, <2>4 DEF filler_create
<1>14. CASE crash
  BY <1>14 DEF crash, Spend, TypeOK
<1>15. CASE sweep_orphans
  BY <1>15 DEF sweep_orphans, Spend, TypeOK
<1>16. CASE sweep_discard
  BY <1>16 DEF sweep_discard, Removed, Spend, TypeOK
<1>17. CASE arm
  BY <1>17 DEF arm, Clamp, TypeOK
<1>18. CASE UNCHANGED vars
  BY <1>18 DEF vars, TypeOK
<1>19. QED
  BY <1>1, <1>2, <1>3, <1>4, <1>5, <1>6, <1>7, <1>8, <1>9, <1>10, <1>10a, <1>11, <1>12, <1>13,
     <1>14, <1>15, <1>16, <1>17, <1>18 DEF Next, Job_step, Filler_step, Startup

\* The bounds are only spent, and the pool's target stays below WarmMax.
LEMMA LeftStep == Typed /\ [Next]_vars => LeftOK'
<1> SUFFICES ASSUME TypeOK, LeftOK, [Next]_vars PROVE LeftOK'
  BY DEF Typed
<1> USE WarmPoolAssumption
<1> USE DEF dockerVars, permitVars, jobVars, fillVars, tickVars, Free
<1>1. ASSUME NEW j \in Jobs, acquire_permit(j) PROVE LeftOK'
  BY <1>1 DEF acquire_permit, TypeOK, LeftOK
<1>2. ASSUME NEW j \in Jobs, no_work(j) PROVE LeftOK'
  BY <1>2 DEF no_work, TypeOK, LeftOK
<1>3. ASSUME NEW j \in Jobs, start_run(j) PROVE LeftOK'
  BY <1>3 DEF start_run, Spend, TypeOK, LeftOK
<1>4. ASSUME NEW j \in Jobs, acquire(j) PROVE LeftOK'
  BY <1>4 DEF acquire, Pop, TypeOK, LeftOK
<1>5. ASSUME NEW j \in Jobs, create_one(j) PROVE LeftOK'
  BY <1>5 DEF create_one, CreateFails, Created, NewId, Spend, TypeOK, LeftOK
<1>6. ASSUME NEW j \in Jobs, exec_job(j) PROVE LeftOK'
  BY <1>6 DEF exec_job, TypeOK, LeftOK
<1>7. ASSUME NEW j \in Jobs, discard(j) PROVE LeftOK'
  BY <1>7 DEF discard, Removed, Spend, TypeOK, LeftOK
<1>8. CASE measure
  BY <1>8 DEF measure, Spend, TypeOK, LeftOK
<1>9. CASE autoscale
  BY <1>9 DEF autoscale, set, ConcTarget, WarmTarget, Clamp, Smaller, TypeOK, LeftOK
<1>10. CASE filler_tick
  BY <1>10 DEF filler_tick, TypeOK, LeftOK
<1>10a. CASE filler_next
  BY <1>10a DEF filler_next, TypeOK, LeftOK
<1>11. CASE filler_pop
  BY <1>11 DEF filler_pop, Smaller, TypeOK, LeftOK
<1>12. CASE filler_discard
  BY <1>12 DEF filler_discard, Removed, Spend, TypeOK, LeftOK
<1>13. CASE filler_create
  BY <1>13 DEF filler_create, CreateFails, Created, NewId, Spend, TypeOK, LeftOK
<1>14. CASE crash
  BY <1>14 DEF crash, Spend, TypeOK, LeftOK
<1>15. CASE sweep_orphans
  BY <1>15 DEF sweep_orphans, Spend, TypeOK, LeftOK
<1>16. CASE sweep_discard
  BY <1>16 DEF sweep_discard, Removed, Spend, TypeOK, LeftOK
<1>17. CASE arm
  BY <1>17 DEF arm, Clamp, TypeOK, LeftOK
<1>18. CASE UNCHANGED vars
  BY <1>18 DEF vars, TypeOK, LeftOK
<1>19. QED
  BY <1>1, <1>2, <1>3, <1>4, <1>5, <1>6, <1>7, <1>8, <1>9, <1>10, <1>10a, <1>11, <1>12, <1>13,
     <1>14, <1>15, <1>16, <1>17, <1>18 DEF Next, Job_step, Filler_step, Startup

\* Every variable stays in its type, the counters of the bounds included.
LEMMA TypedHolds == Spec => []Typed
<1>1. Init => Typed
  BY WarmPoolAssumption DEF Init, Typed, TypeOK, LeftOK, Clamp
<1>2. Typed /\ [Next]_vars => Typed'
  BY TypeStep, LeftStep DEF Typed
<1>3. QED
  BY <1>1, <1>2, PTL DEF Spec

\* Every reachable state of pool, semaphore, jobs and filler is well typed, for any
\* ScaleCfg, and the targets stay within it.
THEOREM WarmPoolTypeCorrect == Spec => []TypeOK
<1>1. Typed => TypeOK
  BY DEF Typed
<1>2. QED
  BY <1>1, TypedHolds, PTL

-----------------------------------------------------------------------------
(* The idle stack as a set.                                                *)

\* Cutting a stack of distinct containers divides them.
LEMMA ElemsCut ==
  ASSUME NEW S, NEW s \in Seq(S), NEW n \in 0 .. Len(s)
  PROVE  LET t == SubSeq(s, 1, n)
             d == {s[k] : k \in n + 1 .. Len(s)}
         IN  /\ Elems(t) \cup d = Elems(s)
             /\ Elems(t) \subseteq Elems(s)
             /\ Injective(s) => Injective(t) /\ Elems(t) \cap d = {}
<1> DEFINE t == SubSeq(s, 1, n)
           d == {s[k] : k \in n + 1 .. Len(s)}
<1>1. Len(s) \in Nat /\ t \in Seq(S) /\ Len(t) = n /\ \A k \in 1 .. n : t[k] = s[k]
  OBVIOUS
<1>2. Elems(t) = {s[k] : k \in 1 .. n}
  BY <1>1 DEF Elems
<1>3. 1 .. Len(s) = (1 .. n) \cup (n + 1 .. Len(s)) /\ (1 .. n) \cap (n + 1 .. Len(s)) = {}
  BY <1>1
<1>4. Elems(t) \cup d = Elems(s)
  BY <1>2, <1>3 DEF Elems
<1>5. ASSUME Injective(s) PROVE Injective(t) /\ Elems(t) \cap d = {}
  BY <1>1, <1>2, <1>3, <1>5 DEF Injective
<1>6. QED
  BY <1>4, <1>5

\* Popping takes the last container, and it only.
LEMMA ElemsPop ==
  ASSUME NEW S, NEW s \in Seq(S), s # <<>>, Injective(s)
  PROVE  /\ Elems(Pop(s)) = Elems(s) \ {Top(s)} /\ Injective(Pop(s))
         /\ Top(s) \in Elems(s)
<1>1. Len(s) \in Nat /\ Len(s) >= 1
  OBVIOUS
<1> DEFINE n == Len(s) - 1
<1>2. n \in 0 .. Len(s) /\ n + 1 .. Len(s) = {Len(s)}
  BY <1>1
<1>3. {s[k] : k \in n + 1 .. Len(s)} = {Top(s)}
  BY <1>2 DEF Top
<1>4. /\ Elems(SubSeq(s, 1, n)) \cup {s[k] : k \in n + 1 .. Len(s)} = Elems(s)
      /\ Injective(SubSeq(s, 1, n))
      /\ Elems(SubSeq(s, 1, n)) \cap {s[k] : k \in n + 1 .. Len(s)} = {}
  BY <1>2, ElemsCut
<1>5. QED
  BY <1>3, <1>4 DEF Pop, Top

\* Pushing adds one.
LEMMA ElemsAppend ==
  ASSUME NEW S, NEW s \in Seq(S), NEW c \in S
  PROVE  /\ Elems(Append(s, c)) = Elems(s) \cup {c}
         /\ Injective(s) /\ c \notin Elems(s) => Injective(Append(s, c))
<1> DEFINE t == Append(s, c)
<1>1. Len(s) \in Nat /\ Len(t) = Len(s) + 1 /\ t[Len(s) + 1] = c /\ \A k \in 1 .. Len(s) : t[k] = s[k]
  OBVIOUS
<1>2. 1 .. Len(t) = (1 .. Len(s)) \cup {Len(s) + 1}
  BY <1>1
<1>3. Elems(t) = Elems(s) \cup {c}
  BY <1>1, <1>2 DEF Elems
<1>4. ASSUME Injective(s), c \notin Elems(s) PROVE Injective(t)
  BY <1>1, <1>2, <1>4 DEF Injective, Elems
<1>5. QED
  BY <1>3, <1>4

\* A stack of distinct containers has as many as it is high.
LEMMA ElemsCard ==
  ASSUME NEW S, NEW s \in Seq(S), Injective(s)
  PROVE  IsFiniteSet(Elems(s)) /\ Cardinality(Elems(s)) = Len(s)
<1>1. Len(s) \in Nat /\ IsFiniteSet(1 .. Len(s)) /\ Cardinality(1 .. Len(s)) = Len(s)
  <2>1. 1 \in Int /\ Len(s) \in Int /\ Len(s) \in Nat
    OBVIOUS
  <2>2. IsFiniteSet(1 .. Len(s)) /\ Cardinality(1 .. Len(s)) = IF 1 > Len(s) THEN 0 ELSE Len(s) - 1 + 1
    BY <2>1, FS_Interval, Zenon
  <2>3. QED
    BY <2>1, <2>2
<1>2. ExistsBijection(1 .. Len(s), Elems(s))
  <2> DEFINE f == [k \in 1 .. Len(s) |-> s[k]]
  <2>1. f \in Bijection(1 .. Len(s), Elems(s))
    BY <1>1 DEF Bijection, Injection, Surjection, IsInjective, Elems, Injective
  <2>2. QED
    BY <2>1 DEF ExistsBijection
<1>3. QED
  BY <1>1, <1>2, FS_Bijection

-----------------------------------------------------------------------------
(* Who owns a container.                                                   *)

\* A crash leaves nothing behind, and only a running process builds up again.
LEMMA DownStep == Typed /\ DownOK /\ [Next]_vars => DownOK'
<1> SUFFICES ASSUME TypeOK, DownOK, [Next]_vars PROVE DownOK'
  BY DEF Typed
<1> USE DEF dockerVars, permitVars, jobVars, fillVars, tickVars, Free
<1>1. ASSUME NEW j \in Jobs, acquire_permit(j) PROVE DownOK'
  BY <1>1 DEF acquire_permit, TypeOK, DownOK
<1>2. ASSUME NEW j \in Jobs, no_work(j) PROVE DownOK'
  BY <1>2 DEF no_work, TypeOK, DownOK
<1>3. ASSUME NEW j \in Jobs, start_run(j) PROVE DownOK'
  BY <1>3 DEF start_run, TypeOK, DownOK
<1>4. ASSUME NEW j \in Jobs, acquire(j) PROVE DownOK'
  BY <1>4 DEF acquire, TypeOK, DownOK
<1>5. ASSUME NEW j \in Jobs, create_one(j) PROVE DownOK'
  BY <1>5 DEF create_one, TypeOK, DownOK
<1>6. ASSUME NEW j \in Jobs, exec_job(j) PROVE DownOK'
  BY <1>6 DEF exec_job, TypeOK, DownOK
<1>7. ASSUME NEW j \in Jobs, discard(j) PROVE DownOK'
  BY <1>7 DEF discard, TypeOK, DownOK
<1>8. CASE measure
  BY <1>8 DEF measure, TypeOK, DownOK
<1>9. CASE autoscale
  BY <1>9 DEF autoscale, TypeOK, DownOK
<1>10. CASE filler_tick
  BY <1>10 DEF filler_tick, TypeOK, DownOK
<1>10a. CASE filler_next
  BY <1>10a DEF filler_next, filler_visit, TypeOK, DownOK
<1>11. CASE filler_pop
  BY <1>11 DEF filler_pop, TypeOK, DownOK
<1>12. CASE filler_discard
  BY <1>12 DEF filler_discard, TypeOK, DownOK
<1>13. CASE filler_create
  BY <1>13 DEF filler_create, TypeOK, DownOK
<1>14. CASE crash
  BY <1>14 DEF crash, TypeOK, DownOK
<1>15. CASE sweep_orphans
  BY <1>15 DEF sweep_orphans, TypeOK, DownOK
<1>16. CASE sweep_discard
  BY <1>16 DEF sweep_discard, TypeOK, DownOK
<1>17. CASE arm
  BY <1>17 DEF arm, TypeOK, DownOK
<1>18. CASE UNCHANGED vars
  BY <1>18 DEF vars, TypeOK, DownOK
<1>19. QED
  BY <1>1, <1>2, <1>3, <1>4, <1>5, <1>6, <1>7, <1>8, <1>9, <1>10, <1>10a, <1>11, <1>12, <1>13,
     <1>14, <1>15, <1>16, <1>17, <1>18 DEF Next, Job_step, Filler_step, Startup

\* The empty stack.
LEMMA ElemsEmpty == Elems(<<>>) = {} /\ Injective(<<>>)
  BY DEF Elems, Injective

\* Exchanging one image's stack for containers that no other image has.
LEMMA StackUpdate ==
  ASSUME idle \in [Images -> Seq(Containers)], StacksOK, NEW i \in Images, NEW t,
         idle' = [idle EXCEPT ![i] = t], Injective(t),
         \A k \in Images : k # i => Elems(t) \cap Elems(idle[k]) = {}
  PROVE  StacksOK' /\ Idle' = (Idle \ Elems(idle[i])) \cup Elems(t)
<1>1. \A k \in Images : idle'[k] = IF k = i THEN t ELSE idle[k]
  OBVIOUS
<1>2. StacksOK'
  BY <1>1 DEF StacksOK
<1>3. \A x : x \in Idle' <=> x \in (Idle \ Elems(idle[i])) \cup Elems(t)
  BY <1>1 DEF StacksOK, Idle
<1>4. QED
  BY <1>2, <1>3

\* Handing out the container on top of a stack.
LEMMA PopStep ==
  ASSUME TypeOK, StacksOK, NEW i \in Images, idle[i] # <<>>, idle' = [idle EXCEPT ![i] = Pop(@)]
  PROVE  /\ StacksOK' /\ Idle' = Idle \ {Top(idle[i])}
         /\ Top(idle[i]) \in Idle /\ Top(idle[i]) \in Containers
<1> DEFINE c == Top(idle[i])
<1>1. idle[i] \in Seq(Containers) /\ Injective(idle[i])
  BY DEF TypeOK, StacksOK
<1>2. Elems(Pop(idle[i])) = Elems(idle[i]) \ {c} /\ Injective(Pop(idle[i])) /\ c \in Elems(idle[i])
  BY <1>1, ElemsPop
<1>3. c \in Containers
  BY <1>1 DEF Top
<1> HIDE DEF c
<1>4. \A k \in Images : k # i => Elems(Pop(idle[i])) \cap Elems(idle[k]) = {}
  BY <1>2 DEF StacksOK
<1>5. StacksOK' /\ Idle' = (Idle \ Elems(idle[i])) \cup Elems(Pop(idle[i]))
  BY <1>2, <1>4, StackUpdate DEF TypeOK
<1>6. Elems(idle[i]) \subseteq Idle
  BY DEF Idle
<1>7. QED
  BY <1>2, <1>3, <1>5, <1>6 DEF c

\* Putting a new container on a stack.
LEMMA PushStep ==
  ASSUME TypeOK, StacksOK, NEW i \in Images, NEW c \in Containers, c \notin Idle,
         idle' = [idle EXCEPT ![i] = Append(@, c)]
  PROVE  /\ StacksOK' /\ Idle' = Idle \cup {c}
         /\ Elems(idle'[i]) = Elems(idle[i]) \cup {c}
         /\ \A k \in Images : k # i => idle'[k] = idle[k]
<1>1. idle[i] \in Seq(Containers) /\ Injective(idle[i]) /\ idle \in [Images -> Seq(Containers)]
  BY DEF TypeOK, StacksOK
<1>2. Elems(idle[i]) \subseteq Idle
  BY DEF Idle
<1>3. /\ Elems(Append(idle[i], c)) = Elems(idle[i]) \cup {c}
      /\ Injective(Append(idle[i], c))
  BY <1>1, <1>2, ElemsAppend
<1>4. \A k \in Images : k # i => Elems(Append(idle[i], c)) \cap Elems(idle[k]) = {}
  BY <1>3 DEF StacksOK, Idle
<1>5. StacksOK' /\ Idle' = (Idle \ Elems(idle[i])) \cup Elems(Append(idle[i], c))
  BY <1>1, <1>3, <1>4, StackUpdate
<1>6. QED
  BY <1>1, <1>2, <1>3, <1>5

\* The filler divides one stack into what stays and what it discards.
LEMMA CutStep ==
  ASSUME TypeOK, StacksOK, filler_pop
  PROVE  /\ image \in Images /\ StacksOK'
         /\ Idle' \cup doomed' = Idle /\ Idle' \cap doomed' = {}
         /\ Elems(idle'[image]) \cup doomed' = Elems(idle[image])
         /\ \A k \in Images : k # image => idle'[k] = idle[k]
<1> DEFINE s == idle[image]
           n == Len(s) - Smaller(todo, Len(s))
           t == SubSeq(s, 1, n)
<1>0. image \in Images /\ s \in Seq(Containers) /\ Injective(s) /\ idle \in [Images -> Seq(Containers)]
  BY DEF filler_pop, TypeOK, StacksOK
<1>1. n \in 0 .. Len(s)
  BY <1>0 DEF Smaller, TypeOK
<1>2. idle' = [idle EXCEPT ![image] = t] /\ doomed' = {s[k] : k \in n + 1 .. Len(s)}
  BY DEF filler_pop
<1>3. /\ Elems(t) \cup doomed' = Elems(s) /\ Elems(t) \subseteq Elems(s)
      /\ Injective(t) /\ Elems(t) \cap doomed' = {}
  <2> HIDE DEF s, n
  <2>1. QED
    BY <1>0, <1>1, <1>2, ElemsCut
<1>4. Elems(s) \subseteq Idle /\ \A k \in Images : k # image => Elems(s) \cap Elems(idle[k]) = {}
  BY <1>0 DEF Idle, StacksOK
<1> HIDE DEF t, n
<1>5. StacksOK' /\ Idle' = (Idle \ Elems(idle[image])) \cup Elems(t)
  <2>1. \A k \in Images : k # image => Elems(t) \cap Elems(idle[k]) = {}
    BY <1>3, <1>4
  <2>2. QED
    BY <1>0, <1>2, <1>3, <2>1, StackUpdate
<1>6. QED
  BY <1>0, <1>2, <1>3, <1>4, <1>5

\* The stacks stay free of duplicates, within an image and between images.
LEMMA StackStep == OwnInv /\ [Next]_vars => StacksOK'
<1> SUFFICES ASSUME TypeOK, StacksOK, OwnOK, [Next]_vars PROVE StacksOK'
  BY DEF OwnInv, Typed
<1>a. ASSUME UNCHANGED idle PROVE StacksOK'
  BY <1>a DEF StacksOK
<1> USE DEF dockerVars, permitVars, jobVars, fillVars, tickVars, Free
<1>1. ASSUME NEW j \in Jobs, acquire_permit(j) PROVE StacksOK'
  BY <1>a, <1>1 DEF acquire_permit
<1>2. ASSUME NEW j \in Jobs, no_work(j) PROVE StacksOK'
  BY <1>a, <1>2 DEF no_work
<1>3. ASSUME NEW j \in Jobs, start_run(j) PROVE StacksOK'
  BY <1>a, <1>3 DEF start_run
<1>4. ASSUME NEW j \in Jobs, acquire(j) PROVE StacksOK'
  BY <1>a, <1>4, PopStep DEF acquire
<1>5. ASSUME NEW j \in Jobs, create_one(j) PROVE StacksOK'
  BY <1>a, <1>5 DEF create_one
<1>6. ASSUME NEW j \in Jobs, exec_job(j) PROVE StacksOK'
  BY <1>a, <1>6 DEF exec_job
<1>7. ASSUME NEW j \in Jobs, discard(j) PROVE StacksOK'
  BY <1>a, <1>7 DEF discard
<1>8. CASE measure
  BY <1>a, <1>8 DEF measure
<1>9. CASE autoscale
  BY <1>a, <1>9 DEF autoscale
<1>10. CASE filler_tick
  BY <1>a, <1>10 DEF filler_tick
<1>10a. CASE filler_next
  BY <1>a, <1>10a DEF filler_next
<1>11. CASE filler_pop
  BY <1>11, CutStep
<1>12. CASE filler_discard
  BY <1>a, <1>12 DEF filler_discard
<1>13. CASE filler_create
  <2>1. ASSUME NEW c \in Containers, Created(c), idle' = [idle EXCEPT ![image] = Append(@, c)]
        PROVE  StacksOK'
    <3>1. image \in Images /\ c \notin Idle
      BY <1>13, <2>1 DEF filler_create, Created, NewId, TypeOK, OwnOK
    <3>2. QED
      BY <2>1, <3>1, PushStep
  <2>2. QED
    BY <1>a, <1>13, <2>1 DEF filler_create
<1>14. CASE crash
  <2>1. idle' = [i \in Images |-> <<>>]
    BY <1>14 DEF crash
  <2>2. \A i \in Images : idle'[i] = <<>>
    BY <2>1
  <2>3. QED
    BY <2>2, ElemsEmpty DEF StacksOK
<1>15. CASE sweep_orphans
  BY <1>a, <1>15 DEF sweep_orphans
<1>16. CASE sweep_discard
  BY <1>a, <1>16 DEF sweep_discard
<1>17. CASE arm
  BY <1>a, <1>17 DEF arm
<1>18. CASE UNCHANGED vars
  BY <1>a, <1>18 DEF vars
<1>19. QED
  BY <1>1, <1>2, <1>3, <1>4, <1>5, <1>6, <1>7, <1>8, <1>9, <1>10, <1>10a, <1>11, <1>12, <1>13,
     <1>14, <1>15, <1>16, <1>17, <1>18 DEF Next, Job_step, Filler_step, Startup

\* A step that takes nothing from anybody keeps OwnOK: containers leave the host only
\* when nobody owns them any more, and new ones were nobody's.
LEMMA OwnStep == OwnInv /\ [Next]_vars => OwnOK'
<1> SUFFICES ASSUME TypeOK, DownOK, StacksOK, OwnOK, [Next]_vars PROVE OwnOK'
  BY DEF OwnInv, Typed
<1>0. /\ exists \subseteq Containers /\ None \notin Containers
      /\ cont \in [Jobs -> Containers \cup {None}]
      /\ \A j \in Jobs : pc[j] \in {"run", "discard"} <=> cont[j] # None
  BY WarmPoolAssumption DEF TypeOK
<1>a. ASSUME Idle' = Idle, UNCHANGED <<exists, doomed, cont, used>> PROVE OwnOK'
  BY <1>a DEF OwnOK
<1>b. ASSUME UNCHANGED idle PROVE Idle' = Idle
  BY <1>b DEF Idle
<1> USE DEF dockerVars, permitVars, jobVars, fillVars, tickVars, Free
<1>1. ASSUME NEW j \in Jobs, acquire_permit(j) PROVE OwnOK'
  BY <1>a, <1>b, <1>1 DEF acquire_permit
<1>2. ASSUME NEW j \in Jobs, no_work(j) PROVE OwnOK'
  BY <1>a, <1>b, <1>2 DEF no_work
<1>3. ASSUME NEW j \in Jobs, start_run(j) PROVE OwnOK'
  BY <1>a, <1>b, <1>3 DEF start_run
<1>4. ASSUME NEW j \in Jobs, acquire(j) PROVE OwnOK'
  <2>1. ASSUME NEW i \in Images, idle[i] # <<>>, idle' = [idle EXCEPT ![i] = Pop(@)],
               cont' = [cont EXCEPT ![j] = Top(idle[i])]
        PROVE  OwnOK'
    <3>1. Idle' = Idle \ {Top(idle[i])} /\ Top(idle[i]) \in Idle
      BY <2>1, PopStep
    <3>2. UNCHANGED <<exists, used, doomed>>
      BY <1>4 DEF acquire
    <3>3. QED
      BY <1>0, <2>1, <3>1, <3>2 DEF OwnOK
  <2>2. CASE UNCHANGED <<idle, cont>>
    BY <1>a, <1>b, <1>4, <2>2 DEF acquire
  <2>3. QED
    BY <1>4, <2>1, <2>2 DEF acquire
<1>5. ASSUME NEW j \in Jobs, create_one(j) PROVE OwnOK'
  <2>0. Idle' = Idle
    BY <1>b, <1>5 DEF create_one
  <2>1. ASSUME NEW c \in Containers, Created(c), cont' = [cont EXCEPT ![j] = c] PROVE OwnOK'
    <3>1. c \notin exists /\ exists' = exists \cup {c} /\ used' = used \ {c} /\ UNCHANGED doomed
      BY <1>5, <2>1 DEF create_one, Created, NewId
    <3>2. QED
      BY <1>0, <2>0, <2>1, <3>1 DEF OwnOK
  <2>2. CASE CreateFails /\ UNCHANGED cont
    <3>1. exists \subseteq exists' /\ used' \subseteq used /\ UNCHANGED doomed
      BY <1>5, <2>2 DEF create_one, CreateFails, Created
    <3>2. QED
      BY <2>0, <2>2, <3>1 DEF OwnOK
  <2>3. QED
    BY <1>5, <2>1, <2>2 DEF create_one
<1>6. ASSUME NEW j \in Jobs, exec_job(j) PROVE OwnOK'
  <2>1. used' = used \cup {cont[j]} /\ UNCHANGED <<exists, cont, doomed>> /\ Idle' = Idle
    BY <1>b, <1>6 DEF exec_job
  <2>2. QED
    BY <2>1 DEF OwnOK
<1>7. ASSUME NEW j \in Jobs, discard(j) PROVE OwnOK'
  <2>1. /\ exists \ {cont[j]} \subseteq exists' /\ cont[j] # None
        /\ cont' = [cont EXCEPT ![j] = None] /\ used' \subseteq used /\ UNCHANGED doomed /\ Idle' = Idle
    BY <1>0, <1>b, <1>7 DEF discard, Removed
  <2>2. QED
    BY <1>0, <2>1 DEF OwnOK
<1>8. CASE measure
  BY <1>a, <1>b, <1>8 DEF measure
<1>9. CASE autoscale
  BY <1>a, <1>b, <1>9 DEF autoscale
<1>10. CASE filler_tick
  BY <1>a, <1>b, <1>10 DEF filler_tick
<1>10a. CASE filler_next
  BY <1>a, <1>b, <1>10a DEF filler_next
<1>11. CASE filler_pop
  <2>1. doomed = {} /\ UNCHANGED <<exists, used, cont>>
    BY <1>11 DEF filler_pop, DownOK
  <2>2. Idle' \cup doomed' = Idle /\ Idle' \cap doomed' = {}
    BY <1>11, CutStep
  <2>3. QED
    BY <2>1, <2>2 DEF OwnOK
<1>12. CASE filler_discard
  <2>1. used' \subseteq used /\ UNCHANGED cont /\ Idle' = Idle
    BY <1>b, <1>12 DEF filler_discard, Removed
  <2>2. \/ \E c \in doomed : exists \ {c} \subseteq exists' /\ doomed' = doomed \ {c}
        \/ UNCHANGED <<exists, doomed>>
    BY <1>12 DEF filler_discard, Removed
  <2>3. QED
    BY <2>1, <2>2 DEF OwnOK
<1>13. CASE filler_create
  <2>1. ASSUME NEW c \in Containers, Created(c), idle' = [idle EXCEPT ![image] = Append(@, c)]
        PROVE  OwnOK'
    <3>1. c \notin exists /\ exists' = exists \cup {c} /\ used' = used \ {c} /\ UNCHANGED <<cont, doomed>>
      BY <1>13, <2>1 DEF filler_create, Created, NewId
    <3>2. image \in Images /\ c \notin Idle
      BY <1>13, <3>1 DEF filler_create, TypeOK, OwnOK
    <3>3. Idle' = Idle \cup {c}
      BY <2>1, <3>2, PushStep
    <3>4. QED
      BY <1>0, <3>1, <3>3 DEF OwnOK
  <2>2. CASE CreateFails /\ UNCHANGED idle
    <3>1. exists \subseteq exists' /\ used' \subseteq used /\ UNCHANGED <<cont, doomed>> /\ Idle' = Idle
      BY <1>b, <1>13, <2>2 DEF filler_create, CreateFails, Created
    <3>2. QED
      BY <2>2, <3>1 DEF OwnOK
  <2>3. CASE UNCHANGED <<dockerVars, idle>>
    BY <1>a, <1>b, <1>13, <2>3 DEF filler_create
  <2>4. QED
    BY <1>13, <2>1, <2>2, <2>3 DEF filler_create
<1>14. CASE crash
  <2>1. /\ UNCHANGED <<exists, used>> /\ idle' = [i \in Images |-> <<>>] /\ doomed' = {}
        /\ cont' = [j \in Jobs |-> None]
    BY <1>14 DEF crash
  <2>2. Idle' = {}
    BY <2>1, ElemsEmpty DEF Idle
  <2>3. QED
    BY <2>1, <2>2 DEF OwnOK
<1>15. CASE sweep_orphans
  <2>1. \A i \in Images : idle[i] = <<>>
    BY <1>15 DEF sweep_orphans, DownOK
  <2>2. UNCHANGED <<exists, used, cont>> /\ Idle' = Idle /\ (doomed' = exists \/ doomed' = {})
    BY <1>b, <1>15 DEF sweep_orphans
  <2>3. Idle = {} /\ \A j \in Jobs : cont[j] = None
    BY <1>15, <2>1, ElemsEmpty DEF sweep_orphans, DownOK, Idle
  <2>4. QED
    BY <1>0, <2>2, <2>3 DEF OwnOK
<1>16. CASE sweep_discard
  <2>1. used' \subseteq used /\ UNCHANGED cont /\ Idle' = Idle
    BY <1>b, <1>16 DEF sweep_discard, Removed
  <2>2. \E c \in doomed : exists \ {c} \subseteq exists' /\ doomed' = doomed \ {c}
    BY <1>16 DEF sweep_discard, Removed
  <2>3. QED
    BY <2>1, <2>2 DEF OwnOK
<1>17. CASE arm
  BY <1>a, <1>b, <1>17 DEF arm
<1>18. CASE UNCHANGED vars
  BY <1>a, <1>b, <1>18 DEF vars
<1>19. QED
  BY <1>1, <1>2, <1>3, <1>4, <1>5, <1>6, <1>7, <1>8, <1>9, <1>10, <1>10a, <1>11, <1>12, <1>13,
     <1>14, <1>15, <1>16, <1>17, <1>18 DEF Next, Job_step, Filler_step, Startup

\* Types, start-up and ownership together are inductive.
LEMMA OwnHolds == Spec => []OwnInv
<1>1. Init => OwnInv
  <2> SUFFICES ASSUME Init PROVE OwnInv
    OBVIOUS
  <2>1. Typed /\ DownOK
    BY WarmPoolAssumption DEF Init, Typed, TypeOK, LeftOK, DownOK, Clamp
  <2>2. Idle = {} /\ StacksOK
    BY ElemsEmpty DEF Init, Idle, StacksOK
  <2>3. OwnOK
    BY <2>2 DEF Init, OwnOK
  <2>4. QED
    BY <2>1, <2>2, <2>3 DEF OwnInv
<1>2. OwnInv /\ [Next]_vars => OwnInv'
  BY TypeStep, LeftStep, DownStep, StackStep, OwnStep DEF OwnInv, Typed
<1>3. QED
  BY <1>1, <1>2, PTL DEF Spec

\* exec.rs: a container runs one job and is never handed out again.
THEOREM SoleOwnerHolds == Spec => []SoleOwner
<1>1. OwnInv => SoleOwner
  <2> SUFFICES ASSUME OwnInv PROVE SoleOwner
    OBVIOUS
  <2>1. \A i \in Images : Cardinality(Elems(idle[i])) = Len(idle[i])
    BY ElemsCard DEF OwnInv, StacksOK, Typed, TypeOK
  <2>2. QED
    BY <2>1 DEF OwnInv, OwnOK, StacksOK, SoleOwner
<1>2. QED
  BY <1>1, OwnHolds, PTL

-----------------------------------------------------------------------------
(* Permits.                                                                *)

\* A job takes a permit or returns it together with its place in Holders.
LEMMA PermitStep == OwnInv /\ PermitInv /\ [Next]_vars => PermitInv'
<1> SUFFICES ASSUME Typed, DownOK, IsFiniteSet(Holders), PermitAccounting, [Next]_vars
             PROVE  PermitInv'
  BY DEF OwnInv, PermitInv
<1>0. /\ avail \in Nat /\ current \in Nat /\ load \in Nat
      /\ pc \in [Jobs -> {"none", "permit", "acquire", "create", "run", "discard"}]
  BY DEF Typed, TypeOK
<1>00. /\ Cardinality(Holders) \in Nat
       /\ up = "up" => avail + Cardinality(Holders) = current /\ current \in 1 .. ConcMax
  BY FS_CardinalityType DEF PermitAccounting, Holders
<1>a. ASSUME Holders' = Holders, UNCHANGED <<avail, current, up>> PROVE PermitInv'
  BY <1>00, <1>a DEF PermitInv, PermitAccounting, Holders
<1>b. ASSUME NEW j \in Jobs, pc[j] # "none", pc' = [pc EXCEPT ![j] = "none"],
             avail' = avail + 1, UNCHANGED <<current, up>>
      PROVE  PermitInv'
  <2>1. j \in Holders /\ Holders' = Holders \ {j}
    BY <1>0, <1>b DEF Holders, Holding
  <2>2. IsFiniteSet(Holders') /\ Cardinality(Holders') = Cardinality(Holders) - 1
    BY <2>1, FS_RemoveElement
  <2>3. QED
    BY <1>0, <1>00, <1>b, <2>2 DEF PermitInv, PermitAccounting, Holders
<1> USE DEF dockerVars, permitVars, jobVars, fillVars, tickVars, Free
<1>1. ASSUME NEW j \in Jobs, acquire_permit(j) PROVE PermitInv'
  <2>1. j \notin Holders /\ Holders' = Holders \cup {j}
    BY <1>0, <1>1 DEF acquire_permit, Holders, Holding
  <2>2. IsFiniteSet(Holders') /\ Cardinality(Holders') = Cardinality(Holders) + 1
    BY <2>1, FS_AddElement
  <2>3. avail > 0 /\ avail' = avail - 1 /\ UNCHANGED <<current, up>>
    BY <1>1 DEF acquire_permit
  <2>4. QED
    BY <1>0, <1>00, <2>2, <2>3 DEF PermitInv, PermitAccounting, Holders
<1>2. ASSUME NEW j \in Jobs, no_work(j) PROVE PermitInv'
  BY <1>b, <1>2 DEF no_work
<1>3. ASSUME NEW j \in Jobs, start_run(j) PROVE PermitInv'
  <2>1. Holders' = Holders
    BY <1>0, <1>3 DEF start_run, Holders, Holding
  <2>2. QED
    BY <1>a, <1>3, <2>1 DEF start_run
<1>4. ASSUME NEW j \in Jobs, acquire(j) PROVE PermitInv'
  <2>1. Holders' = Holders
    BY <1>0, <1>4 DEF acquire, Holders, Holding
  <2>2. QED
    BY <1>a, <1>4, <2>1 DEF acquire
<1>5. ASSUME NEW j \in Jobs, create_one(j) PROVE PermitInv'
  <2>1. CASE pc' = [pc EXCEPT ![j] = "run"] /\ UNCHANGED avail
    <3>1. Holders' = Holders
      BY <1>0, <1>5, <2>1 DEF create_one, Holders, Holding
    <3>2. QED
      BY <1>a, <1>5, <2>1, <3>1 DEF create_one
  <2>2. CASE pc' = [pc EXCEPT ![j] = "none"] /\ avail' = avail + 1
    BY <1>b, <1>5, <2>2 DEF create_one
  <2>3. QED
    BY <1>5, <2>1, <2>2 DEF create_one
<1>6. ASSUME NEW j \in Jobs, exec_job(j) PROVE PermitInv'
  <2>1. Holders' = Holders
    BY <1>0, <1>6 DEF exec_job, Holders, Holding
  <2>2. QED
    BY <1>a, <1>6, <2>1 DEF exec_job
<1>7. ASSUME NEW j \in Jobs, discard(j) PROVE PermitInv'
  BY <1>b, <1>7 DEF discard
<1>8. CASE measure
  BY <1>a, <1>8 DEF measure, Holders, Holding
<1>9. CASE autoscale
  <2>1. Holders' = Holders /\ up' = "up" /\ up = "up"
    BY <1>9 DEF autoscale, Holders, Holding
  <2>2. ConcTarget \in 1 .. ConcMax
    BY <1>0, WarmPoolAssumption DEF ConcTarget, Clamp
  <2>3. avail' + Cardinality(Holders) = current' /\ current' \in 1 .. ConcMax
    <3>1. CASE ConcTarget > current
      BY <1>0, <1>00, <1>9, <2>1, <2>2, <3>1 DEF autoscale, set
    <3>2. CASE ~(ConcTarget > current)
      BY <1>0, <1>00, <1>9, <2>1, <2>2, <3>2, WarmPoolAssumption DEF autoscale, set, Smaller
    <3>3. QED
      BY <3>1, <3>2
  <2>4. QED
    BY <2>1, <2>3 DEF PermitInv, PermitAccounting, Holders
<1>10. CASE filler_tick
  BY <1>a, <1>10 DEF filler_tick, Holders, Holding
<1>10a. CASE filler_next
  BY <1>a, <1>10a DEF filler_next, Holders, Holding
<1>11. CASE filler_pop
  BY <1>a, <1>11 DEF filler_pop, Holders, Holding
<1>12. CASE filler_discard
  BY <1>a, <1>12 DEF filler_discard, Holders, Holding
<1>13. CASE filler_create
  BY <1>a, <1>13 DEF filler_create, Holders, Holding
<1>14. CASE crash
  <2>1. up' = "down" /\ Holders' = {}
    BY <1>14 DEF crash, Holders, Holding
  <2>2. QED
    BY <2>1, FS_EmptySet DEF PermitInv, PermitAccounting
<1>15. CASE sweep_orphans
  <2>1. up' = "sweep" /\ Holders' = Holders
    BY <1>15 DEF sweep_orphans, Holders, Holding
  <2>2. QED
    BY <2>1 DEF PermitInv, PermitAccounting
<1>16. CASE sweep_discard
  BY <1>a, <1>16 DEF sweep_discard, Holders, Holding
<1>17. CASE arm
  <2>1. Holders' = {}
    BY <1>17 DEF arm, DownOK, Holders, Holding
  <2>2. IsFiniteSet(Holders') /\ Cardinality(Holders') = 0
    BY <2>1, FS_EmptySet
  <2>3. current' \in 1 .. ConcMax
    BY <1>17, WarmPoolAssumption DEF arm, Clamp
  <2>4. ConcMax \in Nat
    BY WarmPoolAssumption
  <2>5. current' \in Int
    BY <2>3, <2>4
  <2>6. \A n \in Int : n + 0 = n
    OBVIOUS
  <2>7. avail' = current'
    BY <1>17 DEF arm
  <2>8. QED
    BY <2>2, <2>3, <2>5, <2>6, <2>7, Zenon DEF PermitInv, PermitAccounting, Holders
<1>18. CASE UNCHANGED vars
  BY <1>a, <1>18 DEF vars, Holders, Holding
<1>19. QED
  BY <1>1, <1>2, <1>3, <1>4, <1>5, <1>6, <1>7, <1>8, <1>9, <1>10, <1>10a, <1>11, <1>12, <1>13,
     <1>14, <1>15, <1>16, <1>17, <1>18 DEF Next, Job_step, Filler_step, Startup

\* PermitInv is inductive given who owns what.
LEMMA PermitsHold == Spec => []PermitInv
<1>1. Init => PermitInv
  <2> SUFFICES ASSUME Init PROVE PermitInv
    OBVIOUS
  <2>1. Holders = {}
    BY DEF Init, Holders, Holding
  <2>2. IsFiniteSet(Holders) /\ Cardinality(Holders) = 0
    BY <2>1, FS_EmptySet
  <2>3. current \in 1 .. ConcMax /\ avail = current
    BY WarmPoolAssumption DEF Init, Clamp
  <2>4. QED
    BY <2>2, <2>3 DEF PermitInv, PermitAccounting, Holders
<1>2. QED
  BY <1>1, PermitStep, OwnHolds, PTL DEF Spec

\* scale.rs Concurrency: resizing under load neither loses nor makes up a permit.
THEOREM PermitAccountingHolds == Spec => []PermitAccounting
<1>1. PermitInv => PermitAccounting
  BY DEF PermitInv
<1>2. QED
  BY <1>1, PermitsHold, PTL


-----------------------------------------------------------------------------
(* Containers on the host.                                                 *)

\* Finitely many sets of at most n elements have together at most that many times n.
LEMMA UnionBound ==
  ASSUME NEW I, IsFiniteSet(I), NEW F, NEW n \in Nat,
         \A i \in I : IsFiniteSet(F[i]) /\ Cardinality(F[i]) <= n
  PROVE  LET U == UNION {F[i] : i \in I}
         IN  IsFiniteSet(U) /\ Cardinality(U) <= Cardinality(I) * n
<1> DEFINE U == UNION {F[i] : i \in I}
           g(i) == CHOOSE f : f \in Injection(F[i], 1 .. n)
           own(x) == CHOOSE i \in I : x \in F[i]
           h == [x \in U |-> <<own(x), g(own(x))[x]>>]
<1>1. \A i \in I : g(i) \in Injection(F[i], 1 .. n)
  <2> SUFFICES ASSUME NEW i \in I PROVE \E f : f \in Injection(F[i], 1 .. n)
    OBVIOUS
  <2> DEFINE c == Cardinality(F[i])
  <2>1. c \in Nat /\ c <= n /\ ExistsBijection(1 .. c, F[i])
    BY FS_CardinalityType
  <2>2. PICK f : f \in Bijection(F[i], 1 .. c)
    BY <2>1, Fun_ExistsBijSymmetric DEF ExistsBijection
  <2>3. 1 .. c \subseteq 1 .. n
    BY <2>1
  <2>4. f \in Injection(F[i], 1 .. n)
    BY <2>2, <2>3 DEF Bijection, Injection
  <2>5. QED
    BY <2>4
<1>2. \A x \in U : own(x) \in I /\ x \in F[own(x)]
  OBVIOUS
<1>3. \A x \in U : g(own(x))[x] \in 1 .. n
  BY <1>1, <1>2 DEF Injection
<1>4. \A x, y \in U : own(x) = own(y) /\ g(own(x))[x] = g(own(y))[y] => x = y
  <2> SUFFICES ASSUME NEW x \in U, NEW y \in U, own(x) = own(y), g(own(x))[x] = g(own(y))[y]
               PROVE  x = y
    OBVIOUS
  <2>1. x \in F[own(x)] /\ y \in F[own(x)] /\ g(own(x)) \in Injection(F[own(x)], 1 .. n)
    BY <1>1, <1>2
  <2>2. g(own(x))[x] = g(own(x))[y]
    OBVIOUS
  <2> HIDE DEF g, own
  <2>3. QED
    BY <2>1, <2>2 DEF Injection, IsInjective
<1> HIDE DEF g, own
<1>5. h \in [U -> I \X (1 .. n)] /\ \A x, y \in U : h[x] = h[y] => x = y
  BY <1>2, <1>3, <1>4
<1> HIDE DEF h
<1>6. h \in Injection(U, I \X (1 .. n))
  BY <1>5, Fun_IsInj
<1>7. IsFiniteSet(1 .. n) /\ Cardinality(1 .. n) = n
  <2>1. 1 \in Int /\ n \in Int
    OBVIOUS
  <2>2. IsFiniteSet(1 .. n) /\ Cardinality(1 .. n) = IF 1 > n THEN 0 ELSE n - 1 + 1
    BY <2>1, FS_Interval, Zenon
  <2>3. QED
    BY <2>2
<1>8. IsFiniteSet(I \X (1 .. n)) /\ Cardinality(I \X (1 .. n)) = Cardinality(I) * n
  BY <1>7, FS_Product
<1>9. QED
  BY <1>6, <1>8, FS_Injection

\* A share more for each failed list.
LEMMA ShareMore ==
  ASSUME NEW m \in Nat, NEW b \in Nat
  PROVE  (1 + m) * b = b + m * b /\ m * b \in Nat
OBVIOUS

\* The numbers that the bound is made of.
LEMMA Counts ==
  ASSUME OwnInv, PermitInv, HostInv
  PROVE  /\ IsFiniteSet(Pool) /\ IsFiniteSet(Busy) /\ IsFiniteSet(doomed)
         /\ Cardinality(exists) \in Nat /\ Cardinality(Pool) \in Nat
         /\ Cardinality(Busy) \in Nat /\ Cardinality(doomed) \in Nat
         /\ Faulted \in Nat /\ Missed \in Nat /\ HostShare \in Nat /\ Behind \in Nat
         /\ up = "up" => Cardinality(Busy) <= ConcMax
<1>1. IsFiniteSet(exists) /\ Pool \subseteq exists /\ doomed \subseteq exists
  BY DEF HostInv, OwnInv, OwnOK, Pool
<1>2. IsFiniteSet(Holders) /\ Busy \subseteq Holders
  BY DEF PermitInv, OwnInv, Typed, TypeOK, Busy, Holders, Holding
<1>3. IsFiniteSet(Pool) /\ IsFiniteSet(doomed)
  BY <1>1, FS_Subset
<1>4. IsFiniteSet(Busy) /\ Cardinality(Busy) <= Cardinality(Holders)
  BY <1>2, FS_Subset
<1>5. /\ Cardinality(exists) \in Nat /\ Cardinality(Pool) \in Nat /\ Cardinality(Holders) \in Nat
      /\ Cardinality(Busy) \in Nat /\ Cardinality(doomed) \in Nat /\ Cardinality(Images) \in Nat
  BY <1>1, <1>2, <1>3, <1>4, FS_CardinalityType, WarmPoolAssumption
<1>6. Faulted \in Nat /\ Missed \in Nat
  BY WarmPoolAssumption DEF Faulted, Missed, OwnInv, Typed, LeftOK
<1>7. HostShare \in Nat
  BY <1>5, ShareMore, WarmPoolAssumption DEF HostShare
<1>8. Behind \in Nat
  BY <1>6, <1>7, ShareMore DEF Behind
<1>9. up = "up" => Cardinality(Busy) <= ConcMax
  <2>1. up = "up" => avail + Cardinality(Holders) = current /\ current \in 1 .. ConcMax /\ avail \in Nat
    BY DEF PermitInv, PermitAccounting, Holders, OwnInv, Typed, TypeOK
  <2>2. QED
    BY <1>4, <1>5, <2>1, WarmPoolAssumption
<1>10. QED
  BY <1>3, <1>4, <1>5, <1>6, <1>7, <1>8, <1>9

\* While the executor runs, its pool is within the warm maximum of each image.
LEMMA PoolBounded ==
  ASSUME OwnInv, PermitInv, PoolInv, HostInv, up = "up"
  PROVE  Cardinality(Pool) <= Cardinality(Images) * WarmMax
<1> DEFINE F == [i \in Images |-> PoolOf(i)]
<1>1. \A i \in Images : /\ IsFiniteSet(PoolOf(i)) /\ Cardinality(PoolOf(i)) <= WarmMax
  <2> SUFFICES ASSUME NEW i \in Images
               PROVE  IsFiniteSet(PoolOf(i)) /\ Cardinality(PoolOf(i)) <= WarmMax
    OBVIOUS
  <2>1. PoolOf(i) \subseteq Pool
    BY DEF PoolOf, Pool, Idle
  <2>2. IsFiniteSet(PoolOf(i)) /\ Cardinality(PoolOf(i)) \in Nat
    BY <2>1, Counts, FS_Subset, FS_CardinalityType
  <2>3. Cardinality(PoolOf(i)) + Coming(i) <= WarmMax /\ Coming(i) \in Nat
    BY DEF PoolInv, Coming, OwnInv, Typed, TypeOK
  <2>4. QED
    BY <2>2, <2>3, WarmPoolAssumption
<1>2. \A x : x \in Pool <=> \E i \in Images : x \in PoolOf(i)
  <2>1. doomed # {} => image \in Images
    BY DEF OwnInv, DownOK, Typed, TypeOK
  <2>2. QED
    BY <2>1 DEF Pool, Idle, PoolOf
<1>3. Pool = UNION {F[i] : i \in Images}
  BY <1>2
<1>4. \A i \in Images : IsFiniteSet(F[i]) /\ Cardinality(F[i]) <= WarmMax
  BY <1>1
<1> HIDE DEF F
<1>5. QED
  BY <1>3, <1>4, UnionBound, WarmPoolAssumption

\* What the invariants say about the host.
LEMMA Bounded ==
  OwnInv /\ PermitInv /\ PoolInv /\ HostInv =>
      HostBound /\ Cardinality(exists) <= HostShare + Behind + Faulted
<1> SUFFICES ASSUME OwnInv, PermitInv, PoolInv, HostInv
             PROVE  HostBound /\ Cardinality(exists) <= HostShare + Behind + Faulted
  OBVIOUS
<1>0. Cardinality(Images) * WarmMax \in Nat
  BY ShareMore, FS_CardinalityType, WarmPoolAssumption
<1>1. Cardinality(exists) <= HostShare + Behind + Faulted
  <2>1. CASE up = "up"
    <3>1. Cardinality(exists) <= Cardinality(Pool) + Cardinality(Busy) + Behind + Faulted
      BY <2>1 DEF HostInv
    <3>2. HostShare = Cardinality(Images) * WarmMax + ConcMax
      BY DEF HostShare
    <3>3. Cardinality(Pool) + Cardinality(Busy) <= HostShare
      BY <1>0, <2>1, <3>2, Counts, PoolBounded, WarmPoolAssumption
    <3>4. QED
      BY <3>1, <3>3, Counts
  <2>2. CASE up # "up"
    BY <2>2 DEF HostInv
  <2>3. QED
    BY <2>1, <2>2
<1>2. (1 + Missed) * HostShare = HostShare + Behind
  BY Counts, ShareMore DEF Behind
<1>3. QED
  BY <1>1, <1>2 DEF HostBound, Missed, Faulted

\* An image's pool grows only by what the filler decided to create for it.
LEMMA PoolStep == OwnInv /\ PermitInv /\ PoolInv /\ HostInv /\ [Next]_vars => PoolInv'
<1> SUFFICES ASSUME OwnInv, PermitInv, PoolInv, HostInv, [Next]_vars PROVE PoolInv'
  OBVIOUS
<1>0. TypeOK /\ LeftOK /\ DownOK /\ StacksOK /\ OwnOK
  BY DEF OwnInv, Typed
<1>00. \A i \in Images : /\ IsFiniteSet(PoolOf(i)) /\ Cardinality(PoolOf(i)) \in Nat
                         /\ PoolOf(i) \subseteq exists /\ Coming(i) \in Nat
                         /\ up = "up" => Cardinality(PoolOf(i)) + Coming(i) <= WarmMax
  <2> SUFFICES ASSUME NEW i \in Images
               PROVE  /\ IsFiniteSet(PoolOf(i)) /\ Cardinality(PoolOf(i)) \in Nat
                      /\ PoolOf(i) \subseteq exists /\ Coming(i) \in Nat
                      /\ up = "up" => Cardinality(PoolOf(i)) + Coming(i) <= WarmMax
    OBVIOUS
  <2>1. PoolOf(i) \subseteq Pool /\ PoolOf(i) \subseteq exists
    BY <1>0 DEF PoolOf, Pool, Idle, OwnOK
  <2>2. IsFiniteSet(PoolOf(i)) /\ Cardinality(PoolOf(i)) \in Nat
    BY <2>1, Counts, FS_Subset, FS_CardinalityType
  <2>3. QED
    BY <1>0, <2>1, <2>2 DEF PoolInv, Coming, TypeOK
<1>a. ASSUME up = "up",
             \A i \in Images : /\ PoolOf(i)' \subseteq PoolOf(i)
                               /\ Coming(i)' \in Nat /\ Coming(i)' <= Coming(i)
      PROVE  PoolInv'
  <2> SUFFICES ASSUME NEW i \in Images PROVE Cardinality(PoolOf(i)') + Coming(i)' <= WarmMax
    BY DEF PoolInv
  <2>1. IsFiniteSet(PoolOf(i)') /\ Cardinality(PoolOf(i)') <= Cardinality(PoolOf(i))
    BY <1>a, <1>00, FS_Subset
  <2>2. Cardinality(PoolOf(i)') \in Nat
    BY <2>1, FS_CardinalityType
  <2>3. QED
    BY <1>00, <1>a, <2>1, <2>2, WarmPoolAssumption
<1>b. ASSUME UNCHANGED <<idle, doomed, up, filler, todo, image>> PROVE PoolInv'
  BY <1>b DEF PoolInv, PoolOf, Coming
<1> USE DEF dockerVars, permitVars, jobVars, fillVars, tickVars, Free
<1>1. ASSUME NEW j \in Jobs, acquire_permit(j) PROVE PoolInv'
  BY <1>b, <1>1 DEF acquire_permit
<1>2. ASSUME NEW j \in Jobs, no_work(j) PROVE PoolInv'
  BY <1>b, <1>2 DEF no_work
<1>3. ASSUME NEW j \in Jobs, start_run(j) PROVE PoolInv'
  BY <1>b, <1>3 DEF start_run
<1>4. ASSUME NEW j \in Jobs, acquire(j) PROVE PoolInv'
  <2>0. UNCHANGED <<doomed, up, filler, todo, image>> /\ up = "up"
    BY <1>0, <1>4 DEF acquire, DownOK
  <2>1. ASSUME NEW k \in Images, idle[k] # <<>>, idle' = [idle EXCEPT ![k] = Pop(@)] PROVE PoolInv'
    <3>1. idle[k] \in Seq(Containers) /\ Injective(idle[k])
      BY <1>0 DEF TypeOK, StacksOK
    <3>2. Elems(Pop(idle[k])) \subseteq Elems(idle[k])
      BY <2>1, <3>1, ElemsPop
    <3>3. \A i \in Images : idle'[i] = IF i = k THEN Pop(idle[k]) ELSE idle[i]
      BY <1>0, <2>1 DEF TypeOK
    <3>4. \A i \in Images : PoolOf(i)' \subseteq PoolOf(i)
      BY <2>0, <3>2, <3>3 DEF PoolOf
    <3>5. \A i \in Images : Coming(i)' = Coming(i)
      BY <2>0 DEF Coming
    <3>6. QED
      BY <1>00, <1>a, <2>0, <3>4, <3>5
  <2>2. QED
    BY <1>b, <1>4, <2>0, <2>1 DEF acquire
<1>5. ASSUME NEW j \in Jobs, create_one(j) PROVE PoolInv'
  BY <1>b, <1>5 DEF create_one
<1>6. ASSUME NEW j \in Jobs, exec_job(j) PROVE PoolInv'
  BY <1>b, <1>6 DEF exec_job
<1>7. ASSUME NEW j \in Jobs, discard(j) PROVE PoolInv'
  BY <1>b, <1>7 DEF discard
<1>8. CASE measure
  BY <1>b, <1>8 DEF measure
<1>9. CASE autoscale
  BY <1>b, <1>9 DEF autoscale
<1>10. CASE filler_tick
  <2>1. /\ up = "up" /\ UNCHANGED <<idle, doomed, image>> /\ filler' = "next"
    BY <1>10 DEF filler_tick
  <2>2. \A i \in Images : PoolOf(i)' = PoolOf(i) /\ Coming(i)' = 0
    BY <2>1 DEF PoolOf, Coming
  <2>3. QED
    BY <1>00, <1>a, <2>1, <2>2
<1>10a. CASE filler_next
  <2>0. up = "up" /\ doomed = {} /\ doomed' = {} /\ UNCHANGED <<idle, up>>
    BY <1>0, <1>10a DEF filler_next, DownOK
  <2>1. \A i \in Images : PoolOf(i)' = PoolOf(i) /\ PoolOf(i) = Elems(idle[i])
    BY <2>0 DEF PoolOf
  <2>2. ASSUME NEW k \in Images, Len(idle[k]) <= goal, Deficit(k) > 0, filler' = "fill",
               todo' = Deficit(k), image' = k
        PROVE  PoolInv'
    <3> SUFFICES ASSUME NEW i \in Images PROVE Cardinality(PoolOf(i)') + Coming(i)' <= WarmMax
      BY DEF PoolInv
    <3>1. CASE i = k
      <4>1. idle[i] \in Seq(Containers) /\ Len(idle[i]) \in Nat /\ Injective(idle[i])
        BY <1>0 DEF TypeOK, StacksOK
      <4>2. Cardinality(PoolOf(i)') = Len(idle[i])
        BY <2>1, <4>1, ElemsCard
      <4>3. goal \in Nat /\ goal <= WarmMax
        BY <1>0 DEF TypeOK, LeftOK
      <4>4. Deficit(k) <= goal - Len(idle[i]) /\ Deficit(k) \in Int
        <5>1. Deficit(k) = Smaller(goal - Len(idle[i]), BURST)
          BY <3>1 DEF Deficit
        <5>2. \A a, b \in Int : Smaller(a, b) <= a /\ Smaller(a, b) \in Int
          BY DEF Smaller
        <5>3. goal - Len(idle[i]) \in Int /\ BURST \in Int
          BY <4>1, <4>3, WarmPoolAssumption
        <5>4. QED
          BY <5>1, <5>2, <5>3, Zenon
      <4>5. Coming(i)' = Deficit(k)
        BY <2>2, <3>1 DEF Coming
      <4>6. QED
        BY <4>1, <4>2, <4>3, <4>4, <4>5, WarmPoolAssumption
    <3>2. CASE i # k
      <4>1. Coming(i)' = 0
        BY <2>2, <3>2 DEF Coming
      <4>2. QED
        BY <1>00, <2>0, <2>1, <4>1, WarmPoolAssumption
    <3>3. QED
      BY <3>1, <3>2
  <2>3. ASSUME filler' \in {"pop", "next", "sleep"} PROVE PoolInv'
    <3>1. \A i \in Images : Coming(i)' = 0
      BY <2>3 DEF Coming
    <3>2. QED
      BY <1>00, <1>a, <2>0, <2>1, <3>1
  <2>4. QED
    BY <1>0, <1>10a, <2>2, <2>3 DEF filler_next, filler_visit, TypeOK
<1>11. CASE filler_pop
  <2>0. up = "up" /\ doomed = {} /\ UNCHANGED image /\ filler' = "drop"
    BY <1>0, <1>11 DEF filler_pop, DownOK
  <2>1. /\ Elems(idle'[image]) \cup doomed' = Elems(idle[image])
        /\ \A k \in Images : k # image => idle'[k] = idle[k]
    BY <1>0, <1>11, CutStep
  <2>2. \A i \in Images : PoolOf(i)' = PoolOf(i)
    BY <2>0, <2>1 DEF PoolOf
  <2>3. \A i \in Images : Coming(i)' = 0
    BY <2>0 DEF Coming
  <2>4. QED
    BY <1>00, <1>a, <2>0, <2>2, <2>3
<1>12. CASE filler_discard
  <2>0. up = "up" /\ UNCHANGED <<idle, up, todo>> /\ doomed' \subseteq doomed /\ filler = "drop"
    BY <1>0, <1>12 DEF filler_discard, DownOK
  <2>1. \/ UNCHANGED <<filler, image>>
        \/ doomed' = {} /\ filler' = "next"
    BY <1>12 DEF filler_discard
  <2>2. \A i \in Images : PoolOf(i)' \subseteq PoolOf(i) /\ Coming(i)' = 0
    BY <2>0, <2>1 DEF PoolOf, Coming
  <2>3. QED
    BY <1>00, <1>a, <2>0, <2>2
<1>13. CASE filler_create
  <2>0. /\ up = "up" /\ doomed = {} /\ doomed' = {} /\ UNCHANGED up /\ filler = "fill"
        /\ image \in Images /\ todo \in Nat
    BY <1>0, <1>13 DEF filler_create, DownOK, TypeOK
  <2>1. ASSUME NEW c \in Containers, Created(c), idle' = [idle EXCEPT ![image] = Append(@, c)],
               todo > 0, todo' = todo - 1, UNCHANGED <<filler, image>>
        PROVE  PoolInv'
    <3>1. c \notin Idle
      BY <1>0, <2>1 DEF Created, NewId, OwnOK
    <3>2. /\ Elems(idle'[image]) = Elems(idle[image]) \cup {c}
          /\ \A k \in Images : k # image => idle'[k] = idle[k]
      BY <1>0, <2>0, <2>1, <3>1, PushStep
    <3> SUFFICES ASSUME NEW i \in Images PROVE Cardinality(PoolOf(i)') + Coming(i)' <= WarmMax
      BY DEF PoolInv
    <3>3. CASE i = image
      <4>1. PoolOf(i)' = PoolOf(i) \cup {c} /\ c \notin PoolOf(i)
        BY <2>0, <2>1, <3>1, <3>2, <3>3 DEF PoolOf, Idle
      <4>2. Cardinality(PoolOf(i)') = Cardinality(PoolOf(i)) + 1
        BY <1>00, <4>1, FS_AddElement
      <4>3. Coming(i) = todo /\ Coming(i)' = todo - 1
        BY <2>0, <2>1, <3>3 DEF Coming
      <4>4. QED
        BY <1>00, <2>0, <4>2, <4>3, WarmPoolAssumption
    <3>4. CASE i # image
      <4>1. PoolOf(i)' = PoolOf(i) /\ Coming(i)' = Coming(i)
        BY <2>0, <2>1, <3>2, <3>4 DEF PoolOf, Coming
      <4>2. QED
        BY <1>00, <2>0, <4>1
    <3>5. QED
      BY <3>3, <3>4
  <2>2. ASSUME UNCHANGED idle,
               \/ todo > 0 /\ todo' = todo - 1 /\ UNCHANGED <<filler, image>>
               \/ filler' = "next"
        PROVE  PoolInv'
    <3>1. \A i \in Images : PoolOf(i)' = PoolOf(i) /\ Coming(i)' \in Nat /\ Coming(i)' <= Coming(i)
      BY <2>0, <2>2 DEF PoolOf, Coming
    <3>2. QED
      BY <1>a, <2>0, <3>1
  <2>3. QED
    BY <1>13, <2>1, <2>2 DEF filler_create
<1>14. CASE crash
  BY <1>14 DEF crash, PoolInv
<1>15. CASE sweep_orphans
  BY <1>15 DEF sweep_orphans, PoolInv
<1>16. CASE sweep_discard
  BY <1>16 DEF sweep_discard, PoolInv
<1>17. CASE arm
  <2>1. /\ \A i \in Images : idle'[i] = <<>>
        /\ doomed' = {} /\ filler' = "sleep" /\ up' = "up"
    BY <1>0, <1>17 DEF arm, DownOK
  <2>2. \A i \in Images : PoolOf(i)' = {} /\ Coming(i)' = 0
    BY <2>1, ElemsEmpty DEF PoolOf, Coming
  <2>3. QED
    BY <2>2, FS_EmptySet, WarmPoolAssumption DEF PoolInv
<1>18. CASE UNCHANGED vars
  BY <1>b, <1>18 DEF vars
<1>19. QED
  BY <1>1, <1>2, <1>3, <1>4, <1>5, <1>6, <1>7, <1>8, <1>9, <1>10, <1>10a, <1>11, <1>12, <1>13,
     <1>14, <1>15, <1>16, <1>17, <1>18 DEF Next, Job_step, Filler_step, Startup

\* Creating, handing out and removing a container, each with the count it belongs to.
LEMMA HostStep ==
  OwnInv /\ PermitInv /\ PoolInv /\ HostInv /\ [Next]_vars => HostInv'
<1> SUFFICES ASSUME OwnInv, PermitInv, PoolInv, HostInv, [Next]_vars PROVE HostInv'
  OBVIOUS
<1>0. /\ IsFiniteSet(exists) /\ IsFiniteSet(Pool) /\ IsFiniteSet(Busy) /\ IsFiniteSet(doomed)
      /\ Cardinality(exists) \in Nat /\ Cardinality(Pool) \in Nat
      /\ Cardinality(Busy) \in Nat /\ Cardinality(doomed) \in Nat
      /\ Faulted \in Nat /\ Behind \in Nat /\ HostShare \in Nat
      /\ up = "up" => Cardinality(exists) <= Cardinality(Pool) + Cardinality(Busy) + Behind + Faulted
  BY Counts DEF HostInv
<1>00. TypeOK /\ LeftOK /\ DownOK /\ StacksOK /\ OwnOK
  BY DEF OwnInv, Typed
<1>k. HostShare' = HostShare
  BY DEF HostShare
<1>l. ASSUME left'["lists"] = left["lists"] PROVE Behind' = Behind
  BY <1>l DEF Behind, Missed, HostShare
<1>m. ASSUME UNCHANGED left PROVE Behind' = Behind /\ Faulted' = Faulted
  BY <1>m DEF Behind, Missed, HostShare, Faulted
<1>n. ASSUME UNCHANGED idle PROVE Idle' = Idle
  BY <1>n DEF Idle
<1>s. ASSUME Spend("faults") PROVE Faulted' = Faulted + 1 /\ Behind' = Behind
  BY <1>s, <1>00, <1>l, WarmPoolAssumption DEF Spend, Faulted, LeftOK
<1>a. ASSUME IsFiniteSet(exists'), up' = "up",
             Cardinality(exists') <= Cardinality(Pool') + Cardinality(Busy') + Behind' + Faulted'
      PROVE  HostInv'
  BY <1>a DEF HostInv
<1>b. ASSUME Idle' = Idle, UNCHANGED <<exists, doomed, cont, up>>,
             Behind' = Behind, Faulted' = Faulted
      PROVE  HostInv'
  BY <1>b, <1>k DEF HostInv, Pool, Busy
<1>c. ASSUME NEW c \in exists, Removed(c)
      PROVE  /\ IsFiniteSet(exists') /\ Behind' = Behind
             /\ Cardinality(exists') + Faulted <= Cardinality(exists) - 1 + Faulted'
             /\ Faulted' \in Nat /\ Cardinality(exists') \in Nat
             /\ Cardinality(exists') <= Cardinality(exists) /\ Faulted <= Faulted'
  <2>1. CASE exists' = exists \ {c} /\ Free
    <3>1. IsFiniteSet(exists') /\ Cardinality(exists') = Cardinality(exists) - 1
      BY <1>0, <1>c, <2>1, FS_RemoveElement
    <3>2. Faulted' = Faulted /\ Behind' = Behind
      BY <1>m, <2>1 DEF Free
    <3>3. Cardinality(exists') \in Nat
      BY <3>1, FS_CardinalityType
    <3>4. QED
      BY <1>0, <3>1, <3>2, <3>3
  <2>2. CASE Spend("faults") /\ UNCHANGED dockerVars
    BY <1>0, <1>s, <2>2 DEF dockerVars
  <2>3. QED
    BY <1>c, <2>1, <2>2 DEF Removed
<1>d. ASSUME NEW c \in Containers, Created(c)
      PROVE  /\ c \notin exists /\ exists' = exists \cup {c} /\ IsFiniteSet(exists')
             /\ Cardinality(exists') = Cardinality(exists) + 1
  BY <1>0, <1>d, FS_AddElement DEF Created, NewId
<1>e. ASSUME CreateFails
      PROVE  /\ IsFiniteSet(exists') /\ Faulted' = Faulted + 1 /\ Behind' = Behind
             /\ Cardinality(exists') \in Nat /\ Cardinality(exists') <= Cardinality(exists) + 1
  <2>1. Faulted' = Faulted + 1 /\ Behind' = Behind
    BY <1>s, <1>e DEF CreateFails
  <2>2. IsFiniteSet(exists') /\ Cardinality(exists') <= Cardinality(exists) + 1
    BY <1>0, <1>d, <1>e DEF CreateFails, dockerVars
  <2>3. QED
    BY <2>1, <2>2, FS_CardinalityType
<1> USE DEF dockerVars, permitVars, jobVars, fillVars, tickVars, Free
<1>1. ASSUME NEW j \in Jobs, acquire_permit(j) PROVE HostInv'
  BY <1>b, <1>m, <1>n, <1>1 DEF acquire_permit
<1>2. ASSUME NEW j \in Jobs, no_work(j) PROVE HostInv'
  BY <1>b, <1>m, <1>n, <1>2 DEF no_work
<1>3. ASSUME NEW j \in Jobs, start_run(j) PROVE HostInv'
  <2>1. UNCHANGED <<exists, idle, doomed, cont, up>>
    BY <1>3 DEF start_run
  <2>2. left'["faults"] = left["faults"] /\ left'["lists"] = left["lists"]
    BY <1>00, <1>3 DEF start_run, Spend, LeftOK
  <2>3. QED
    BY <1>b, <1>l, <1>n, <2>1, <2>2 DEF Faulted
<1>4. ASSUME NEW j \in Jobs, acquire(j) PROVE HostInv'
  <2>0. up = "up" /\ UNCHANGED <<exists, doomed, up, left>>
    BY <1>00, <1>4 DEF acquire, DownOK
  <2>1. CASE UNCHANGED <<idle, cont>>
    BY <1>b, <1>m, <1>n, <2>0, <2>1
  <2>2. ASSUME NEW i \in Images, idle[i] # <<>>, idle' = [idle EXCEPT ![i] = Pop(@)],
               cont' = [cont EXCEPT ![j] = Top(idle[i])]
        PROVE  HostInv'
    <3> DEFINE c == Top(idle[i])
    <3>1. Idle' = Idle \ {c} /\ c \in Idle /\ c \in Containers
      BY <1>00, <2>2, PopStep
    <3>2. c \in Pool /\ Pool' = Pool \ {c}
      BY <1>00, <2>0, <3>1 DEF OwnOK, Pool
    <3>3. j \notin Busy /\ Busy' = Busy \cup {j}
      BY <1>00, <1>4, <2>2, <3>1, WarmPoolAssumption DEF acquire, TypeOK, Busy
    <3> HIDE DEF c
    <3>4. Cardinality(Pool') = Cardinality(Pool) - 1
      BY <1>0, <3>2, FS_RemoveElement
    <3>5. Cardinality(Busy') = Cardinality(Busy) + 1
      BY <1>0, <3>3, FS_AddElement
    <3>6. Faulted' = Faulted /\ Behind' = Behind
      BY <1>m, <2>0
    <3>7. QED
      BY <1>0, <1>a, <2>0, <3>4, <3>5, <3>6
  <2>3. QED
    BY <1>4, <2>1, <2>2 DEF acquire
<1>5. ASSUME NEW j \in Jobs, create_one(j) PROVE HostInv'
  <2>0. up = "up" /\ UNCHANGED up /\ Pool' = Pool
    BY <1>00, <1>n, <1>5 DEF create_one, DownOK, Pool
  <2>1. ASSUME NEW c \in Containers, Created(c), Free, cont' = [cont EXCEPT ![j] = c]
        PROVE  HostInv'
    <3>1. j \notin Busy /\ Busy' = Busy \cup {j}
      BY <1>00, <1>5, <2>1, WarmPoolAssumption DEF create_one, TypeOK, Busy
    <3>2. Cardinality(Busy') = Cardinality(Busy) + 1
      BY <1>0, <3>1, FS_AddElement
    <3>3. Faulted' = Faulted /\ Behind' = Behind
      BY <1>m, <2>1
    <3>4. IsFiniteSet(exists') /\ Cardinality(exists') = Cardinality(exists) + 1
      BY <1>d, <2>1
    <3>5. QED
      BY <1>0, <1>a, <2>0, <3>2, <3>3, <3>4
  <2>2. CASE CreateFails /\ UNCHANGED cont
    <3>1. Busy' = Busy
      BY <2>2 DEF Busy
    <3>2. QED
      BY <1>0, <1>a, <1>e, <2>0, <2>2, <3>1
  <2>3. QED
    BY <1>5, <2>1, <2>2 DEF create_one
<1>6. ASSUME NEW j \in Jobs, exec_job(j) PROVE HostInv'
  BY <1>b, <1>m, <1>n, <1>6 DEF exec_job
<1>7. ASSUME NEW j \in Jobs, discard(j) PROVE HostInv'
  <2>0. up = "up" /\ UNCHANGED up /\ Pool' = Pool
    BY <1>00, <1>n, <1>7 DEF discard, DownOK, Pool
  <2>1. j \in Busy /\ Busy' = Busy \ {j} /\ cont[j] \in exists /\ Removed(cont[j])
    BY <1>00, <1>7 DEF discard, TypeOK, OwnOK, Busy
  <2>2. Cardinality(Busy') = Cardinality(Busy) - 1
    BY <1>0, <2>1, FS_RemoveElement
  <2>3. /\ IsFiniteSet(exists') /\ Cardinality(exists') \in Nat /\ Faulted' \in Nat /\ Behind' = Behind
        /\ Cardinality(exists') + Faulted <= Cardinality(exists) - 1 + Faulted'
    BY <1>c, <2>1
  <2>4. QED
    BY <1>0, <1>a, <2>0, <2>2, <2>3
<1>8. CASE measure
  <2>1. UNCHANGED <<exists, idle, doomed, cont, up>>
    BY <1>8 DEF measure
  <2>2. left'["faults"] = left["faults"] /\ left'["lists"] = left["lists"]
    BY <1>00, <1>8 DEF measure, Spend, LeftOK
  <2>3. QED
    BY <1>b, <1>l, <1>n, <2>1, <2>2 DEF Faulted
<1>9. CASE autoscale
  BY <1>b, <1>m, <1>n, <1>9 DEF autoscale
<1>10. CASE filler_tick
  BY <1>b, <1>m, <1>n, <1>10 DEF filler_tick
<1>10a. CASE filler_next
  BY <1>b, <1>m, <1>n, <1>10a DEF filler_next
<1>11. CASE filler_pop
  <2>0. up = "up" /\ doomed = {} /\ UNCHANGED <<exists, cont, up, left>>
    BY <1>00, <1>11 DEF filler_pop, DownOK
  <2>1. Pool' = Pool
    BY <1>00, <1>11, <2>0, CutStep DEF Pool
  <2>2. Busy' = Busy /\ Faulted' = Faulted /\ Behind' = Behind
    BY <1>m, <2>0 DEF Busy
  <2>3. QED
    BY <1>0, <1>a, <2>0, <2>1, <2>2
<1>12. CASE filler_discard
  <2>0. up = "up" /\ UNCHANGED <<cont, up>> /\ Busy' = Busy /\ Idle' = Idle
    BY <1>00, <1>n, <1>12 DEF filler_discard, DownOK, Busy
  <2>1. ASSUME NEW c \in doomed, Removed(c), doomed' = doomed \ {c} PROVE HostInv'
    <3>1. c \in exists /\ c \in Pool /\ Pool' = Pool \ {c}
      BY <1>00, <2>0, <2>1 DEF OwnOK, Pool
    <3>2. Cardinality(Pool') = Cardinality(Pool) - 1
      BY <1>0, <3>1, FS_RemoveElement
    <3>3. /\ IsFiniteSet(exists') /\ Cardinality(exists') \in Nat /\ Faulted' \in Nat /\ Behind' = Behind
          /\ Cardinality(exists') + Faulted <= Cardinality(exists) - 1 + Faulted'
      BY <1>c, <2>1, <3>1
    <3>4. QED
      BY <1>0, <1>a, <2>0, <3>2, <3>3
  <2>2. CASE UNCHANGED <<exists, doomed, left>>
    BY <1>b, <1>m, <2>0, <2>2
  <2>3. QED
    BY <1>12, <2>1, <2>2 DEF filler_discard
<1>13. CASE filler_create
  <2>0. up = "up" /\ UNCHANGED <<doomed, cont, up>> /\ Busy' = Busy /\ image \in Images
    BY <1>00, <1>13 DEF filler_create, DownOK, Busy, TypeOK
  <2>1. ASSUME NEW c \in Containers, Created(c), Free, idle' = [idle EXCEPT ![image] = Append(@, c)]
        PROVE  HostInv'
    <3>1. c \notin exists /\ IsFiniteSet(exists') /\ Cardinality(exists') = Cardinality(exists) + 1
      BY <1>d, <2>1
    <3>2. c \notin Idle /\ c \notin doomed
      BY <1>00, <3>1 DEF OwnOK
    <3>3. Pool' = Pool \cup {c} /\ c \notin Pool
      BY <1>00, <2>0, <2>1, <3>2, PushStep DEF Pool
    <3>4. Cardinality(Pool') = Cardinality(Pool) + 1
      BY <1>0, <3>3, FS_AddElement
    <3>5. Faulted' = Faulted /\ Behind' = Behind
      BY <1>m, <2>1
    <3>6. QED
      BY <1>0, <1>a, <2>0, <3>1, <3>4, <3>5
  <2>2. CASE CreateFails /\ UNCHANGED idle
    <3>1. Pool' = Pool
      BY <1>n, <2>0, <2>2 DEF Pool
    <3>2. QED
      BY <1>0, <1>a, <1>e, <2>0, <2>2, <3>1
  <2>3. CASE Free /\ UNCHANGED <<dockerVars, idle>>
    BY <1>b, <1>m, <1>n, <2>0, <2>3
  <2>4. QED
    BY <1>13, <2>1, <2>2, <2>3 DEF filler_create
<1>14. CASE crash
  <2>1. UNCHANGED exists /\ up' = "down"
    BY <1>14 DEF crash
  <2>2. left'["faults"] = left["faults"] /\ left'["lists"] = left["lists"]
    BY <1>00, <1>14 DEF crash, Spend, LeftOK
  <2>3. Cardinality(exists) <= HostShare + Behind + Faulted
    BY Bounded
  <2>4. QED
    BY <1>0, <1>k, <1>l, <2>1, <2>2, <2>3 DEF HostInv, Faulted
<1>15. CASE sweep_orphans
  <2>1. UNCHANGED exists /\ up' = "sweep" /\ Cardinality(exists) <= HostShare + Behind + Faulted
    BY <1>15 DEF sweep_orphans, HostInv
  <2>2. CASE doomed' = exists /\ Free
    BY <1>0, <1>k, <1>m, <2>1, <2>2 DEF HostInv
  <2>3. CASE doomed' = {} /\ Spend("lists")
    <3>1. Faulted' = Faulted /\ Missed' = 1 + Missed /\ Missed \in Nat
      BY <1>00, <2>3, WarmPoolAssumption DEF Spend, Faulted, Missed, LeftOK
    <3>2. Behind' = HostShare + Behind
      BY <1>0, <1>k, <3>1, ShareMore DEF Behind
    <3>3. Cardinality(doomed') = 0
      BY <2>3, FS_EmptySet
    <3>4. QED
      BY <1>0, <1>k, <2>1, <3>1, <3>2, <3>3 DEF HostInv
  <2>4. QED
    BY <1>15, <2>2, <2>3 DEF sweep_orphans
<1>16. CASE sweep_discard
  <2>1. PICK c \in doomed : Removed(c) /\ doomed' = doomed \ {c}
    BY <1>16 DEF sweep_discard
  <2>2. /\ c \in exists /\ up = "sweep" /\ up' = "sweep"
        /\ Cardinality(exists) <= HostShare + Behind + Faulted
        /\ Cardinality(exists) <= Cardinality(doomed) + Behind + Faulted
    BY <1>00, <1>16 DEF sweep_discard, OwnOK, HostInv
  <2>3. Cardinality(doomed') = Cardinality(doomed) - 1
    BY <1>0, <2>1, FS_RemoveElement
  <2>4. /\ IsFiniteSet(exists') /\ Cardinality(exists') \in Nat /\ Faulted' \in Nat /\ Behind' = Behind
        /\ Cardinality(exists') + Faulted <= Cardinality(exists) - 1 + Faulted'
        /\ Cardinality(exists') <= Cardinality(exists) /\ Faulted <= Faulted'
    BY <1>c, <2>1, <2>2
  <2>5. /\ Cardinality(exists') <= Cardinality(doomed') + Behind' + Faulted'
        /\ Cardinality(exists') <= HostShare' + Behind' + Faulted'
    BY <1>0, <1>k, <2>2, <2>3, <2>4
  <2>6. QED
    BY <2>2, <2>4, <2>5 DEF HostInv
<1>17. CASE arm
  <2>1. /\ doomed = {} /\ Cardinality(exists) <= Cardinality(doomed) + Behind + Faulted
        /\ up' = "up" /\ UNCHANGED <<exists, left>>
    BY <1>17 DEF arm, HostInv
  <2>2. Cardinality(doomed) = 0 /\ Faulted' = Faulted /\ Behind' = Behind
    BY <1>m, <2>1, FS_EmptySet
  <2>3. Pool' = Pool /\ Busy' = Busy
    BY <1>n, <1>17 DEF arm, Pool, Busy
  <2>4. QED
    BY <1>0, <1>a, <2>1, <2>2, <2>3
<1>18. CASE UNCHANGED vars
  BY <1>b, <1>m, <1>n, <1>18 DEF vars
<1>19. QED
  BY <1>1, <1>2, <1>3, <1>4, <1>5, <1>6, <1>7, <1>8, <1>9, <1>10, <1>10a, <1>11, <1>12, <1>13,
     <1>14, <1>15, <1>16, <1>17, <1>18 DEF Next, Job_step, Filler_step, Startup

\* The host-safe range of scale.rs: one executor's share of containers (the warm
\* maximum for each image, and one per permit), one container more for each Docker
\* call that failed, and a share more for each start-up that could not list the
\* containers its predecessor left, through crashes and restarts.
THEOREM HostBoundHolds == Spec => []HostBound
<1>1. Init => PoolInv /\ HostInv
  <2> SUFFICES ASSUME Init PROVE PoolInv /\ HostInv
    OBVIOUS
  <2>1. /\ exists = {} /\ doomed = {} /\ cont = [j \in Jobs |-> None] /\ filler = "sleep" /\ up = "up"
        /\ left["faults"] = MaxFaults /\ left["lists"] = MaxLists
        /\ \A i \in Images : idle[i] = <<>>
    BY DEF Init
  <2>2. \A i \in Images : PoolOf(i) = {} /\ Coming(i) = 0
    BY <2>1, ElemsEmpty DEF PoolOf, Coming
  <2>3. Pool = {} /\ Busy = {}
    BY <2>1, ElemsEmpty DEF Pool, Idle, Busy
  <2>4. IsFiniteSet({}) /\ Cardinality({}) = 0
    BY FS_EmptySet
  <2>5. Faulted = 0 /\ Missed = 0
    BY <2>1, WarmPoolAssumption DEF Faulted, Missed
  <2>6. Behind \in Nat
    <3>1. HostShare \in Nat
      BY ShareMore, FS_CardinalityType, WarmPoolAssumption DEF HostShare
    <3>2. QED
      BY <2>5, <3>1, ShareMore DEF Behind
  <2>7. PoolInv
    BY <2>2, <2>4, WarmPoolAssumption DEF PoolInv
  <2>8. HostInv
    BY <2>1, <2>3, <2>4, <2>5, <2>6 DEF HostInv
  <2>9. QED
    BY <2>7, <2>8
<1>2. QED
  BY <1>1, PoolStep, HostStep, Bounded, OwnHolds, PermitsHold, PTL DEF Spec

=============================================================================
