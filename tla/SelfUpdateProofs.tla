-------------------------- MODULE SelfUpdateProofs --------------------------
(***************************************************************************)
(* Proofs about SelfUpdate, for any number of updaters, releases and       *)
(* kills, with and without a pinned key: the types, and that only whole    *)
(* binaries, signed ones where the updater has a key, reach the live path. *)
(***************************************************************************)
EXTENDS SelfUpdate, TLAPS

\* A file that updater u may put at the live path.
Genuine(u, f) == f \in Files /\ f.bytes = "good" /\ (u \in Pinned => f.version \in Signed)

\* What an updater has established when it gets there: the checksum and the
\* signature are about the bytes it writes and renames.
Fetched(u) ==
    pc[u] \in {"check", "create", "write"} => bin[u] \in Files /\ bin[u].version = target[u]
Checked(u) == pc[u] \in {"create", "write"} => Genuine(u, bin[u])
Staged(u) == pc[u] = "rename" => Genuine(u, temp[u])

UpdateInv == Genuine(installer, live) /\ \A u \in Updaters : Fetched(u) /\ Checked(u) /\ Staged(u)

-----------------------------------------------------------------------------
\* An updater that an action does not touch keeps what it has established.
LEMMA Untouched ==
  ASSUME NEW u \in Updaters, Fetched(u), Checked(u), Staged(u),
         pc'[u] = pc[u] \/ pc'[u] \in {"end", "new", "fetch", "verify", "restart"},
         target'[u] = target[u], bin'[u] = bin[u],
         temp'[u] = temp[u] \/ pc'[u] # "rename"
  PROVE  Fetched(u)' /\ Checked(u)' /\ Staged(u)'
BY DEF Fetched, Checked, Staged, Genuine

\* The types are kept by every step; rename needs that the staged file is one.
LEMMA TypeStep == TypeOK /\ UpdateInv /\ [Next]_vars => TypeOK'
<1> SUFFICES ASSUME TypeOK, UpdateInv, [Next]_vars PROVE TypeOK'
  OBVIOUS
<1> USE SelfUpdateAssumption
<1>1. CASE publish
  BY <1>1 DEF publish, paths, locals, TypeOK
<1>2. ASSUME NEW u \in Updaters, Update_step(u) PROVE TypeOK'
  <2>1. CASE start(u)
    BY <2>1 DEF start, host, paths, Step, TypeOK, Files
  <2>2. CASE fetch_latest(u)
    BY <2>2 DEF fetch_latest, host, paths, locals, Step, Exit, On, TypeOK
  <2>3. CASE download(u)
    <3>1. bin' \in [Updaters -> Files \cup {None}]
      BY <2>3 DEF download, TypeOK, Files
    <3>2. QED
      BY <2>3, <3>1 DEF download, host, paths, locals, Step, Exit, On, TypeOK
  <2>4. CASE check_sums(u)
    BY <2>4 DEF check_sums, host, paths, locals, Step, Exit, On, TypeOK
  <2>5. CASE create_temp(u)
    <3>1. CASE UNCHANGED temp
      BY <2>5, <3>1 DEF create_temp, current_exe, host, paths, locals, Step, Exit, On, TypeOK
    <3>2. CASE Step(u, "create", "write") /\ temp' = [temp EXCEPT ![u] = [bin[u] EXCEPT !.bytes = "bad"]]
      <4>1. [bin[u] EXCEPT !.bytes = "bad"] \in Files
        BY <3>2 DEF UpdateInv, Fetched, Step, Files
      <4>2. QED
        BY <2>5, <3>2, <4>1 DEF create_temp, current_exe, host, paths, locals, Step, Exit, On, TypeOK
    <3>3. QED
      BY <2>5, <3>1, <3>2 DEF create_temp
  <2>6. CASE write_temp(u)
    BY <2>6 DEF write_temp, host, paths, locals, Step, Exit, On, TypeOK
  <2>7. CASE rename(u)
    <3>1. CASE Step(u, "rename", "verify") /\ Swap(u, temp[u]) /\ On
      <4>1. temp[u] \in Files
        BY <3>1 DEF Step, UpdateInv, Staged, Genuine
      <4>2. live' \in Files /\ stray' \in Files \cup {None} /\ installer' \in Updaters \cup {None}
            /\ replaced' \subseteq Updaters
        BY <3>1, <4>1 DEF Swap, TypeOK
      <4>3. QED
        BY <2>7, <3>1, <4>2 DEF rename, host, locals, Step, On, TypeOK
    <3>2. CASE Exit(u, "rename", "failed") /\ UNCHANGED paths
      BY <2>7, <3>2 DEF rename, host, paths, locals, Step, Exit, TypeOK
    <3>3. QED
      BY <2>7, <3>1, <3>2 DEF rename
  <2>8. CASE verify(u)
    BY <2>8 DEF verify, host, paths, locals, Step, Exit, On, TypeOK
  <2>9. CASE restart_if_launchd(u)
    BY <2>9 DEF restart_if_launchd, host, paths, locals, Step, Exit, TypeOK, Files
  <2>10. QED
    BY <1>2, <2>1, <2>2, <2>3, <2>4, <2>5, <2>6, <2>7, <2>8, <2>9 DEF Update_step
<1>3. ASSUME NEW u \in Updaters, killed(u) PROVE TypeOK'
  BY <1>3 DEF killed, host, paths, locals, Exit, Step, TypeOK
<1>4. CASE UNCHANGED vars
  BY <1>4 DEF vars, host, paths, locals, TypeOK
<1>5. QED
  BY <1>1, <1>2, <1>3, <1>4 DEF Next

\* Every step keeps what the updaters have established and the live path genuine.
LEMMA UpdateStep == TypeOK /\ UpdateInv /\ [Next]_vars => UpdateInv'
<1> SUFFICES ASSUME TypeOK, UpdateInv, [Next]_vars PROVE UpdateInv'
  OBVIOUS
<1> USE SelfUpdateAssumption
<1>1. \A w \in Updaters : Fetched(w) /\ Checked(w) /\ Staged(w)
  BY DEF UpdateInv
<1>2. CASE publish \/ UNCHANGED vars
  BY <1>2 DEF publish, host, paths, locals, vars, UpdateInv, Fetched, Checked, Staged, Genuine
<1>3. ASSUME NEW u \in Updaters, Update_step(u) \/ killed(u) PROVE UpdateInv'
  <2>1. ASSUME NEW w \in Updaters, w # u
        PROVE  Fetched(w)' /\ Checked(w)' /\ Staged(w)'
    <3>1. /\ pc'[w] = pc[w] /\ current'[w] = current[w] /\ target'[w] = target[w]
          /\ bin'[w] = bin[w] /\ temp'[w] = temp[w]
      BY <1>3, <2>1 DEF Update_step, killed, host, paths, locals, start, fetch_latest, download, check_sums,
         create_temp, write_temp, rename, verify, restart_if_launchd, Step, Exit, TypeOK
    <3>2. QED
      BY <1>1, <3>1, Untouched
  <2>2. CASE Genuine(installer, live)' /\ Fetched(u)' /\ Checked(u)' /\ Staged(u)'
    BY <2>1, <2>2 DEF UpdateInv
  <2>3. CASE start(u) \/ verify(u) \/ restart_if_launchd(u) \/ killed(u)
    <3>1. pc'[u] \in {"end", "fetch", "restart"} /\ UNCHANGED <<live, installer>>
      BY <2>3 DEF start, host, paths, locals, verify, restart_if_launchd, killed, Step, Exit, TypeOK
    <3>2. QED
      BY <2>2, <3>1 DEF UpdateInv, Fetched, Checked, Staged, Genuine
  <2>4. CASE fetch_latest(u)
    <3>1. CASE pc'[u] = "end"
      BY <2>2, <2>4, <3>1 DEF fetch_latest, host, paths, locals, UpdateInv, Fetched, Checked, Staged, Genuine
    <3>2. CASE pc'[u] = "download"
      BY <2>2, <2>4, <3>2 DEF fetch_latest, host, paths, locals, paths, UpdateInv, Fetched, Checked, Staged, Genuine
    <3>3. QED
      BY <2>4, <3>1, <3>2 DEF fetch_latest, host, paths, locals, Exit, Step, TypeOK
  <2>5. CASE download(u)
    <3>1. UNCHANGED <<live, installer, current, target>> /\ pc[u] = "download"
      BY <2>5 DEF download, host, paths, locals, Step, Exit
    <3>2. CASE pc'[u] = "end"
      BY <2>2, <3>1, <3>2 DEF UpdateInv, Fetched, Checked, Staged, Genuine
    <3>3. CASE pc'[u] = "check" /\ \E b \in {"good", "bad"} :
                  bin' = [bin EXCEPT ![u] = [version |-> target[u], bytes |-> b]]
      <4>1. bin'[u] \in Files /\ bin'[u].version = target[u]
        BY <3>3 DEF TypeOK, Files
      <4>2. QED
        BY <1>1, <2>2, <3>1, <3>3, <4>1 DEF UpdateInv, Fetched, Checked, Staged, Genuine
    <3>4. QED
      BY <2>5, <3>2, <3>3 DEF download, host, paths, locals, Exit, Step, TypeOK
  <2>6. CASE check_sums(u)
    <3>1. UNCHANGED <<live, installer, current, target, bin>> /\ pc[u] = "check"
      BY <2>6 DEF check_sums, host, paths, locals, Step, Exit
    <3>2. CASE pc'[u] = "end"
      BY <2>2, <3>1, <3>2 DEF UpdateInv, Fetched, Checked, Staged, Genuine
    <3>3. CASE pc'[u] = "create" /\ Accepts(u)
      <4>1. bin[u] \in Files /\ bin[u].version = target[u] /\ Genuine(u, bin[u])
        BY <1>1, <3>1, <3>3 DEF Fetched, Accepts, Genuine
      <4>2. QED
        BY <1>1, <2>2, <3>1, <3>3, <4>1 DEF UpdateInv, Fetched, Checked, Staged, Genuine
    <3>4. QED
      BY <2>6, <3>2, <3>3 DEF check_sums, host, paths, locals, Exit, Step, TypeOK
  <2>7. CASE create_temp(u)
    <3>1. UNCHANGED <<live, installer, current, target, bin>> /\ pc[u] = "create" /\ pc'[u] \in {"write", "end"}
      BY <2>7 DEF create_temp, host, paths, locals, Step, Exit, TypeOK
    <3>2. QED
      BY <1>1, <2>2, <3>1 DEF UpdateInv, Fetched, Checked, Staged, Genuine
  <2>8. CASE write_temp(u)
    <3>1. UNCHANGED <<live, installer, current, target, bin>> /\ pc[u] = "write"
      BY <2>8 DEF write_temp, host, paths, locals, Step, Exit
    <3>2. pc'[u] = "end" \/ (pc'[u] = "rename" /\ temp'[u] = bin[u])
      BY <2>8 DEF write_temp, host, paths, locals, Step, Exit, TypeOK
    <3>3. QED
      BY <1>1, <2>2, <3>1, <3>2 DEF UpdateInv, Fetched, Checked, Staged, Genuine
  <2>9. CASE rename(u)
    <3>1. /\ pc[u] = "rename" /\ pc'[u] \in {"verify", "end"}
          /\ \/ live' = live /\ installer' = installer
             \/ live' = temp[u] /\ installer' = u
      BY <2>9 DEF rename, host, paths, locals, Swap, paths, Step, Exit, TypeOK
    <3>2. Genuine(installer, live)'
      BY <1>1, <3>1 DEF UpdateInv, Staged, Genuine
    <3>3. QED
      BY <2>2, <3>1, <3>2 DEF Fetched, Checked, Staged
  <2>10. QED
    BY <1>3, <2>3, <2>4, <2>5, <2>6, <2>7, <2>8, <2>9 DEF Update_step
<1>4. QED
  BY <1>2, <1>3 DEF Next

-----------------------------------------------------------------------------
\* The types and what the updaters establish hold together: a staged file is a
\* file because it was checked.
THEOREM UpdateCorrect == Spec => [](TypeOK /\ UpdateInv)
<1>1. Init => TypeOK /\ UpdateInv
  BY SelfUpdateAssumption DEF Init, TypeOK, UpdateInv, Files, Fetched, Checked, Staged, Genuine
<1>2. TypeOK /\ UpdateInv /\ [Next]_vars => (TypeOK /\ UpdateInv)'
  BY TypeStep, UpdateStep
<1>3. QED
  BY <1>1, <1>2, PTL DEF Spec

\* Every reachable state of `dokan update` is well typed.
THEOREM UpdateTypeCorrect == Spec => []TypeOK
BY UpdateCorrect, PTL

\* install and install_atomic: whoever is killed when and however updaters
\* overlap, what is at the live path is whole and, if an updater with a
\* pinned key put it there, signed.
THEOREM LiveGenuineHolds == Spec => []LiveGenuine
<1>1. UpdateInv => LiveGenuine
  BY DEF UpdateInv, Genuine, LiveGenuine
<1>2. QED
  BY UpdateCorrect, <1>1, PTL

=============================================================================
