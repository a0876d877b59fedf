----------------------------- MODULE SelfUpdate -----------------------------
(***************************************************************************)
(* `dokan update` (update.rs): fetch the latest release, gate it against   *)
(* the running version, download and check it, install it over the running *)
(* executable by rename, run the result once, restart the daemon.  Several *)
(* updaters may run on one host, any of them may be killed at any point,   *)
(* and releases are published meanwhile.                                   *)
(***************************************************************************)
EXTENDS Integers

CONSTANTS
    Updaters,   \* invocations of `dokan update`
    Forced,     \* the ones with --force
    DevBuilds,  \* versions that are debug builds of the working tree
    Versions,   \* an interval of Nat; releases are published in order
    First,      \* the version installed at the beginning
    Pinned,     \* the ones that find a release-signing key (DOKAN_RELEASE_PUBKEY)
    Signed,     \* releases with a valid SHA256SUMS.sig
    Platforms,  \* what the host may be, of "linux" and "macos"
    None

ASSUME SelfUpdateAssumption ==
    /\ Versions \subseteq Nat /\ First \in Versions
    /\ Forced \subseteq Updaters /\ Pinned \subseteq Updaters /\ None \notin Updaters
    /\ DevBuilds \subseteq Versions /\ Signed \subseteq Versions
    /\ Platforms \subseteq {"linux", "macos"}

VARIABLES
    latest,     \* what releases/latest answers
    os,         \* the host's platform
    live,       \* the file that is started as dokan
    installer,  \* who put it there, None at the beginning
    stray,      \* the file named like it with the suffix " (deleted)", or None
    replaced,   \* updaters whose own executable another file has replaced
    dest,       \* per updater what current_exe answered: "live" or "stray"
    temp,       \* per updater the file .dokan.update-<pid>
    daemon,     \* the version the supervised daemon runs
    pc, current, target, bin,   \* run()'s local variables
    exit        \* per updater: None, "ok" (0), "failed" (1) or "killed"

host == <<os, latest, daemon>>
paths == <<live, installer, stray, replaced>>
locals == <<current, target, bin, dest>>
vars == <<host, paths, locals, temp, pc, exit>>

\* A file: which release it was meant to be, and whether its bytes are all there.
Files == [version : Versions, bytes : {"good", "bad"}]

Init ==
    /\ os \in Platforms
    /\ latest \in Versions
    /\ installer = None /\ stray = None /\ replaced = {}
    /\ dest = [u \in Updaters |-> "live"]
    /\ live = [version |-> First, bytes |-> "good"]
    /\ temp = [u \in Updaters |-> None]
    /\ daemon = First
    /\ pc = [u \in Updaters |-> "new"]
    /\ current = [u \in Updaters |-> First]
    /\ target = [u \in Updaters |-> First]
    /\ bin = [u \in Updaters |-> None]
    /\ exit = [u \in Updaters |-> None]

Step(u, from, to) == pc[u] = from /\ pc' = [pc EXCEPT ![u] = to]
Exit(u, from, code) == Step(u, from, "end") /\ exit' = [exit EXCEPT ![u] = code]
On == UNCHANGED exit

-----------------------------------------------------------------------------
publish ==
    /\ latest + 1 \in Versions
    /\ latest' = latest + 1
    /\ UNCHANGED <<os, daemon, paths, locals, temp, pc, exit>>

\* The shell starts the live file; VERSION is compiled into it.
start(u) ==
    /\ Step(u, "new", "fetch")
    /\ current' = [current EXCEPT ![u] = live.version]
    /\ UNCHANGED <<host, paths, target, bin, dest, temp, exit>>

gate(u, v) ==
    CASE current[u] = v -> "UpToDate"
      [] current[u] > v /\ u \notin Forced -> "Ahead"
      [] OTHER -> IF current[u] \in DevBuilds /\ u \notin Forced THEN "DevBuild" ELSE "Update"

\* fetch_latest and the gate; --check, up to date, ahead and a refused dev build
\* all end ok, an unreachable or unparsable release as failed.
fetch_latest(u) ==
    /\ \/ gate(u, latest) = "Update" /\ Step(u, "fetch", "download") /\ On
       \/ Exit(u, "fetch", "ok")
       \/ Exit(u, "fetch", "failed")
    /\ target' = [target EXCEPT ![u] = latest]
    /\ UNCHANGED <<host, paths, current, bin, dest, temp>>

\* The binary arrives as published or not.
download(u) ==
    /\ \/ Step(u, "download", "check") /\ On
          /\ \E b \in {"good", "bad"} :
                bin' = [bin EXCEPT ![u] = [version |-> target[u], bytes |-> b]]
       \/ Exit(u, "download", "failed") /\ UNCHANGED bin
    /\ UNCHANGED <<host, paths, current, target, dest, temp>>

\* Mutation of Accepts: a signed list of checksums is enough.
Accepts_unhashed(u) == u \in Pinned => target[u] \in Signed

\* A pinned key demands a valid signature over SHA256SUMS; the checksum of the
\* binary must be the listed one.
Accepts(u) == /\ u \in Pinned => target[u] \in Signed
              /\ bin[u].bytes = "good"

check_sums(u) ==
    /\ \/ Step(u, "check", "create") /\ Accepts(u) /\ On
       \/ Exit(u, "check", "failed") /\ ~Accepts(u)
    /\ UNCHANGED <<host, paths, locals, temp>>

\* What current_exe() answers: on Linux the name of a replaced executable has
\* the suffix " (deleted)".
current_exe(u) == IF os = "linux" /\ u \in replaced THEN "stray" ELSE "live"

\* install_atomic: the temp file exists, beside current_exe, with part of its bytes ...
create_temp(u) ==
    /\ dest' = [dest EXCEPT ![u] = current_exe(u)]
    /\ \/ /\ Step(u, "create", "write") /\ On
          /\ temp' = [temp EXCEPT ![u] = [bin[u] EXCEPT !.bytes = "bad"]]
       \/ Exit(u, "create", "failed") /\ UNCHANGED temp
    /\ UNCHANGED <<host, paths, current, target, bin>>

\* Mutation of write_temp: the temp file is cleaned up before it is renamed.
write_temp_removed(u) ==
    /\ Step(u, "write", "rename") /\ On /\ temp' = [temp EXCEPT ![u] = None]
    /\ UNCHANGED <<host, paths, locals>>

\* ... and then with all of them, synced; a failing write leaves it behind.
write_temp(u) ==
    /\ \/ Step(u, "write", "rename") /\ On /\ temp' = [temp EXCEPT ![u] = bin[u]]
       \/ Exit(u, "write", "failed") /\ UNCHANGED temp
    /\ UNCHANGED <<host, paths, locals>>

\* The rename puts f where u's current_exe is; every updater that runs by now has
\* another executable than the live file.
Swap(u, f) ==
    \/ /\ dest[u] = "live"
       /\ live' = f /\ installer' = u
       /\ replaced' = replaced \cup {w \in Updaters : pc[w] # "new"}
       /\ UNCHANGED stray
    \/ /\ dest[u] = "stray"
       /\ stray' = f
       /\ UNCHANGED <<live, installer, replaced>>

\* chmod and rename; if either fails the temp file is removed.
rename(u) ==
    /\ temp' = [temp EXCEPT ![u] = None]
    /\ \/ Step(u, "rename", "verify") /\ On /\ Swap(u, temp[u])
       \/ Exit(u, "rename", "failed") /\ UNCHANGED paths
    /\ UNCHANGED <<host, locals>>

\* Runs what is at current_exe now; it may also fail to start.
verify(u) ==
    /\ \/ /\ Step(u, "verify", "restart") /\ On
          /\ (IF dest[u] = "live" THEN live ELSE stray).version = target[u]
       \/ Exit(u, "verify", "failed")
    /\ UNCHANGED <<host, paths, locals, temp>>

\* restart_if_launchd, when the label is loaded and the kickstart succeeds.
restart_if_launchd(u) ==
    /\ Exit(u, "restart", "ok")
    /\ (os = "macos" /\ daemon' = live.version) \/ UNCHANGED daemon
    /\ UNCHANGED <<os, latest, paths, locals, temp>>

killed(u) ==
    /\ pc[u] \notin {"new", "end"} /\ Exit(u, pc[u], "killed")
    /\ UNCHANGED <<host, paths, locals, temp>>

Update_step(u) ==
    \/ start(u) \/ fetch_latest(u) \/ download(u) \/ check_sums(u) \/ create_temp(u)
    \/ write_temp(u) \/ rename(u) \/ verify(u) \/ restart_if_launchd(u)

Next ==
    \/ publish
    \/ \E u \in Updaters : Update_step(u)
    \/ \E u \in Updaters : killed(u)

Spec == Init /\ [][Next]_vars

-----------------------------------------------------------------------------
(* Properties.                                                             *)

\* Every variable stays in its type, and a file that is about to be written or
\* renamed was downloaded.
TypeOK ==
    /\ latest \in Versions /\ daemon \in Versions
    /\ os \in Platforms
    /\ live \in Files /\ stray \in Files \cup {None}
    /\ installer \in Updaters \cup {None} /\ replaced \subseteq Updaters
    /\ dest \in [Updaters -> {"live", "stray"}]
    /\ temp \in [Updaters -> Files \cup {None}]
    /\ bin \in [Updaters -> Files \cup {None}]
    /\ pc \in [Updaters -> {"new", "fetch", "download", "check", "create", "write", "rename",
                            "verify", "restart", "end"}]
    /\ current \in [Updaters -> Versions] /\ target \in [Updaters -> Versions]
    /\ exit \in [Updaters -> {None, "ok", "failed", "killed"}]

\* update.rs install, install_atomic: what is at the live path is whole, never
\* half-written or corrupt, and if an updater with a pinned key put it there it is
\* signed, whoever is killed when and however updaters with and without a key
\* overlap.
LiveGenuine ==
    /\ live.bytes = "good"
    /\ installer \in Pinned => live.version \in Signed

-----------------------------------------------------------------------------
(* Promises of the repository that the code does not keep: TLC refutes them,  *)
(* see README.md, section 3.                                                  *)

\* update.rs:47, `current > latest: refuse to downgrade (unless --force)`: no
\* updater without --force replaces the installed version by an older one.
NoDowngrade == [][live'.version < live.version => installer' \in Forced]_vars

\* update.rs:208, `Atomic install means the old binary is intact on any failure
\* here`: an update that reports a failure has not replaced the live executable.
OldBinaryIntact == \A u \in Updaters : exit[u] = "failed" => installer # u
=============================================================================
