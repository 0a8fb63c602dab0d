------------------------------- MODULE Updater ------------------------------
(***************************************************************************)
(* `dobj update', `dobj start' and `dobj stop', and the installer script,  *)
(* over one install directory, one pidfile and the daemons they start.     *)
(* Script lists the commands a user runs; they run one after the other     *)
(* when Serial, and side by side otherwise.  A command may be killed at    *)
(* any step.                                                               *)
(***************************************************************************)
EXTENDS Naturals, Sequences, FiniteSets, SequencesExt

CONSTANTS
    Script,      \* the commands: "update", "start", "stop", "install"
    Serial,      \* whether a command starts when the ones before it have ended
    Running,     \* the daemon at the start: "none", "ours" or "other"
    MaxFaults,   \* bound on failing renames, downloads and daemons
    MaxCrashes,  \* bound on killed commands
    LastPid      \* bound on the daemons that are spawned

Cmds == DOMAIN Script
Pids == 1 .. LastPid
NoPid == 0

\* The binaries of a release in the order `update' swaps them, and in the order
\* the installer does.  The first two come in one archive.
ARTIFACTS == <<"dobjd", "dobj-mcp-proxy", "pexe", "dobj">>
Installer == <<"dobjd", "dobj-mcp-proxy", "dobj", "pexe">>
Bins == ToSet(ARTIFACTS)
N == Len(ARTIFACTS)
STAMPED_BINARIES == {"dobj", "dobjd", "pexe"}

VARIABLES
    cur,      \* installed binaries: a version, "bad" (does not run) or "none"
    bak,      \* their .old files
    staged,   \* the staging directory of the new version
    procs,    \* daemons
    pidfile,
    cmd,      \* the commands
    faults, crashes

vars == <<cur, bak, staged, procs, pidfile, cmd, faults, crashes>>

Runs(p) == procs[p].st \in {"building", "serving", "wedged"}
Serving == {p \in Pids : procs[p].st = "serving"}
Bound == {p \in Pids : procs[p].st \in {"serving", "wedged"}}
http_alive == Serving # {}

\* kill(pid, 0) also finds a process that has exited and that the command that
\* spawned it has not waited for: the Child is dropped without it.
process_alive(p) ==
    p \in Pids /\ (Runs(p) \/ (procs[p].st = "dead" /\ procs[p].of \in Cmds
                                /\ cmd[procs[p].of].pc # "end"))
Fault == faults < MaxFaults /\ faults' = faults + 1

\* Command c goes on to step pc.
Go(c, pc) == cmd' = [cmd EXCEPT ![c].pc = pc]
At(c, pc) == cmd[c].pc = pc
End(c, res) == cmd' = [cmd EXCEPT ![c].pc = "end", ![c].res = res]

\* Command c calls stop, start or rollback and returns to step ret.
Call(c, pc, ret) == cmd' = [cmd EXCEPT ![c].pc = pc, ![c].ret = ret]
Return(c) == cmd' = [cmd EXCEPT ![c].pc = cmd[c].ret]
-----------------------------------------------------------------------------
(* Daemons *)

\* A daemon builds its circuits, then binds its port; if the port is taken it
\* exits, and if its catalog does not load it answers but is not healthy.
Bind(p) ==
    /\ procs[p].st = "building"
    /\ \/ /\ Bound # {} /\ procs' = [procs EXCEPT ![p].st = "dead"] /\ UNCHANGED faults
       \/ /\ Bound = {} /\ procs' = [procs EXCEPT ![p].st = "serving"] /\ UNCHANGED faults
       \/ /\ Bound = {} /\ procs' = [procs EXCEPT ![p].st = "wedged"] /\ Fault
    /\ UNCHANGED <<cur, bak, staged, pidfile, cmd, crashes>>

\* A daemon exits, asked to or by itself.
Exit(p) ==
    /\ Runs(p) /\ procs' = [procs EXCEPT ![p].st = "dead"]
    /\ IF procs[p].asked THEN UNCHANGED faults ELSE Fault
    /\ UNCHANGED <<cur, bak, staged, pidfile, cmd, crashes>>
-----------------------------------------------------------------------------
(* stop *)

StopRead(c) ==
    /\ At(c, "stop")
    /\ IF process_alive(pidfile)
       THEN /\ procs' = [procs EXCEPT ![pidfile].asked = TRUE]
            /\ cmd' = [cmd EXCEPT ![c].pc = "stopping", ![c].pid = pidfile]
            /\ UNCHANGED pidfile
       ELSE pidfile' = NoPid /\ Return(c) /\ UNCHANGED procs
    /\ UNCHANGED <<cur, bak, staged, faults, crashes>>

\* The process is gone, or is killed when the wait is over.
Stopped(c) ==
    /\ At(c, "stopping")
    /\ procs' = [procs EXCEPT ![cmd[c].pid].st = "dead"]
    /\ pidfile' = NoPid /\ Return(c)
    /\ UNCHANGED <<cur, bak, staged, faults, crashes>>
-----------------------------------------------------------------------------
(* start_dobjd *)

\* A daemon that answers is left alone; a pidfile is stale when none answers.
StartProbe(c) ==
    /\ At(c, "start")
    /\ IF http_alive
       THEN /\ cmd' = [cmd EXCEPT ![c].pc = cmd[c].ret, ![c].up = "already"]
            /\ UNCHANGED pidfile
       ELSE pidfile' = NoPid /\ Go(c, "spawn")
    /\ UNCHANGED <<cur, bak, staged, procs, faults, crashes>>

Spawn(c) ==
    /\ At(c, "spawn")
    /\ \/ /\ cur["dobjd"] = "none"
          /\ cmd' = [cmd EXCEPT ![c].pc = cmd[c].ret, ![c].up = "failed"]
          /\ UNCHANGED procs
       \/ \E p \in Pids :
             /\ cur["dobjd"] # "none" /\ procs[p].st = "none"
             /\ \A q \in Pids : q < p => procs[q].st # "none"
             /\ procs' = [procs EXCEPT ![p].st = IF cur["dobjd"] = "bad" THEN "dead"
                                                 ELSE "building",
                                       ![p].ver = cur["dobjd"], ![p].of = c]
             /\ cmd' = [cmd EXCEPT ![c].pc = "pid", ![c].pid = p]
    /\ UNCHANGED <<cur, bak, staged, pidfile, faults, crashes>>

WritePid(c) ==
    /\ At(c, "pid") /\ pidfile' = cmd[c].pid /\ Go(c, "ready")
    /\ UNCHANGED <<cur, bak, staged, procs, faults, crashes>>

\* The process is gone, or a daemon answers, or the wait is over: a fault of its
\* own when the daemon was still building.
wait_until_ready(c) ==
    /\ At(c, "ready")
    /\ cmd' = [cmd EXCEPT ![c].pc = cmd[c].ret,
                          ![c].up = IF ~process_alive(cmd[c].pid) THEN "exited"
                                    ELSE IF http_alive THEN "up" ELSE "timeout"]
    /\ IF procs[cmd[c].pid].st = "building" /\ ~http_alive THEN Fault ELSE UNCHANGED faults
    /\ UNCHANGED <<cur, bak, staged, procs, pidfile, crashes>>
-----------------------------------------------------------------------------
(* swap_binaries and rollback *)

Entry(c) == ARTIFACTS[cmd[c].i]

\* A rename failed: what was done is undone.
SwapFails(c) ==
    cmd' = [cmd EXCEPT ![c].pc = "rollback", ![c].i = N, ![c].ret = "swapfailed"]

\* First phase: the current binaries are renamed aside.
Aside(c) ==
    /\ At(c, "aside")
    /\ LET b == Entry(c) IN
          \/ /\ cur[b] # "none" /\ Fault /\ SwapFails(c) /\ UNCHANGED <<cur, bak>>
          \/ /\ UNCHANGED faults
             /\ IF cur[b] # "none"
                THEN bak' = [bak EXCEPT ![b] = cur[b]] /\ cur' = [cur EXCEPT ![b] = "none"]
                ELSE UNCHANGED <<cur, bak>>
             /\ cmd' = [cmd EXCEPT ![c].had = IF cur[b] # "none" THEN @ \cup {b} ELSE @,
                                   ![c].i = IF @ = N THEN 1 ELSE @ + 1,
                                   ![c].pc = IF cmd[c].i = N THEN "install" ELSE "aside"]
    /\ UNCHANGED <<staged, procs, pidfile, crashes>>

\* Second phase: the staged binaries take their place.
install_file(c) ==
    /\ At(c, "install")
    /\ LET b == Entry(c) IN
          \/ /\ IF staged[b] = "none" THEN UNCHANGED faults ELSE Fault
             /\ SwapFails(c) /\ UNCHANGED <<cur, staged>>
          \/ /\ staged[b] # "none" /\ UNCHANGED faults
             /\ cur' = [cur EXCEPT ![b] = staged[b]]
             /\ staged' = [staged EXCEPT ![b] = "none"]
             /\ cmd' = [cmd EXCEPT ![c].new = @ \cup {b},
                                   ![c].i = IF @ = N THEN 1 ELSE @ + 1,
                                   ![c].pc = IF cmd[c].i = N THEN "validate" ELSE "install"]
    /\ UNCHANGED <<bak, procs, pidfile, crashes>>

rollback_installed(c) ==
    /\ At(c, "rollback")
    /\ LET b == Entry(c)
           removed == IF b \in cmd[c].new THEN "none" ELSE cur[b]
           back == b \in cmd[c].had /\ bak[b] # "none"
       IN  /\ UNCHANGED faults
           /\ cur' = [cur EXCEPT ![b] = IF back /\ b \in cmd[c].new THEN bak[b] ELSE removed]
           /\ bak' = [bak EXCEPT ![b] = IF back /\ b \in cmd[c].new THEN "none" ELSE @]
           /\ cmd' = [cmd EXCEPT ![c].i = IF @ = 1 THEN 1 ELSE @ - 1,
                                 ![c].pc = IF cmd[c].i = 1 THEN cmd[c].ret ELSE "rollback"]
    /\ UNCHANGED <<staged, procs, pidfile, crashes>>

\* One entry of the journal, in reverse order; a failure is only reported.
rollback(c) ==
    /\ At(c, "rollback")
    /\ LET b == Entry(c)
           removed == IF b \in cmd[c].new THEN "none" ELSE cur[b]
           back == b \in cmd[c].had /\ bak[b] # "none"
       IN  /\ \/ /\ UNCHANGED faults
                 /\ cur' = [cur EXCEPT ![b] = IF back THEN bak[b] ELSE removed]
                 /\ bak' = [bak EXCEPT ![b] = IF back THEN "none" ELSE @]
              \/ /\ back /\ Fault
                 /\ cur' = [cur EXCEPT ![b] = removed] /\ UNCHANGED bak
           /\ cmd' = [cmd EXCEPT ![c].i = IF @ = 1 THEN 1 ELSE @ - 1,
                                 ![c].pc = IF cmd[c].i = 1 THEN cmd[c].ret ELSE "rollback"]
    /\ UNCHANGED <<staged, procs, pidfile, crashes>>
-----------------------------------------------------------------------------
(* update *)

Fresh == [pc |-> "idle", ret |-> "end", i |-> 1, had |-> {}, new |-> {},
          was |-> FALSE, pid |-> NoPid, up |-> "none", tries |-> 0, res |-> "none"]

Ended(c) == At(c, "end")
May(c) == At(c, "idle") /\ (Serial => \A d \in Cmds : d < c => Ended(d))

\* The running dobj is the installed one; it is not newer than itself.
UpdateBegin(c) ==
    /\ Script[c] = "update" /\ May(c) /\ cur["dobj"] \in {"old", "new"}
    /\ IF cur["dobj"] = "new" THEN End(c, "current") ELSE Go(c, "clear")
    /\ UNCHANGED <<cur, bak, staged, procs, pidfile, faults, crashes>>

\* Staging left by an earlier attempt is cleared.
StageClear(c) ==
    /\ At(c, "clear") /\ staged' = [b \in Bins |-> "none"] /\ Go(c, "fetch")
    /\ UNCHANGED <<cur, bak, procs, pidfile, faults, crashes>>

\* One attempt on one archive: it comes, it comes and does not run here, it is
\* tried again, or the update gives up.
DOWNLOAD_ATTEMPTS == 3
attempt_download(c) ==
    /\ At(c, "fetch")
    /\ LET Archive == IF cmd[c].i = 1 THEN {1, 2} ELSE {cmd[c].i}
           last == N \in Archive
           Got(v) == /\ staged' = [b \in Bins |-> IF \E j \in Archive : ARTIFACTS[j] = b
                                                  THEN v ELSE staged[b]]
                     /\ cmd' = [cmd EXCEPT ![c].tries = 0, ![c].pc = IF last THEN "probe" ELSE @,
                                  ![c].i = IF last THEN 1 ELSE @ + Cardinality(Archive)]
       IN  \/ Got("new") /\ UNCHANGED faults
           \/ Got("bad") /\ Fault
           \/ /\ cmd[c].tries + 1 < DOWNLOAD_ATTEMPTS /\ Fault
              /\ cmd' = [cmd EXCEPT ![c].tries = @ + 1] /\ UNCHANGED staged
           \/ Fault /\ End(c, "error") /\ UNCHANGED staged
    /\ UNCHANGED <<cur, bak, procs, pidfile, crashes>>

\* A daemon that answers is stopped for the swap.
UpdateProbe(c) ==
    /\ At(c, "probe")
    /\ cmd' = [cmd EXCEPT ![c].was = http_alive, ![c].ret = "aside",
                          ![c].pc = IF http_alive THEN "stop" ELSE "aside"]
    /\ UNCHANGED <<cur, bak, staged, procs, pidfile, faults, crashes>>

SwapFailed(c) ==
    /\ At(c, "swapfailed") /\ End(c, "error")
    /\ UNCHANGED <<cur, bak, staged, procs, pidfile, faults, crashes>>

\* Every binary runs, and the stamped ones report the new tag.
Valid ==
    \A b \in Bins : cur[b] \notin {"none", "bad"} /\ (b \in STAMPED_BINARIES => cur[b] = "new")

validate_installed(c) ==
    /\ At(c, "validate")
    /\ IF Valid
       THEN IF cmd[c].was THEN Call(c, "start", "started") ELSE Go(c, "done")
       ELSE cmd' = [cmd EXCEPT ![c].pc = "rollback", ![c].i = N,
                               ![c].ret = IF cmd[c].was THEN "restart" ELSE "swapfailed"]
    /\ UNCHANGED <<cur, bak, staged, procs, pidfile, faults, crashes>>

\* A daemon that did not become healthy is stopped before the rollback.
Started(c) ==
    /\ At(c, "started")
    /\ IF cmd[c].up \in {"up", "already"} THEN Go(c, "done")
       ELSE Call(c, "stop", "recover")
    /\ UNCHANGED <<cur, bak, staged, procs, pidfile, faults, crashes>>

Recover(c) ==
    /\ At(c, "recover")
    /\ cmd' = [cmd EXCEPT ![c].pc = "rollback", ![c].i = N, ![c].ret = "restart"]
    /\ UNCHANGED <<cur, bak, staged, procs, pidfile, faults, crashes>>

\* The previous version is started again.
Restart(c) ==
    /\ At(c, "restart") /\ Call(c, "start", "restarted")
    /\ UNCHANGED <<cur, bak, staged, procs, pidfile, faults, crashes>>

Restarted(c) ==
    /\ At(c, "restarted")
    /\ End(c, IF cmd[c].up \in {"up", "already"} THEN "restored" ELSE "error")
    /\ UNCHANGED <<cur, bak, staged, procs, pidfile, faults, crashes>>

\* The daemon's version is compared, with a warning, and the staging removed.
UpdateDone(c) ==
    /\ At(c, "done")
    /\ staged' = [b \in Bins |-> "none"]
    /\ End(c, IF cmd[c].was /\ \A p \in Serving : procs[p].ver # "new" THEN "warned" ELSE "ok")
    /\ UNCHANGED <<cur, bak, procs, pidfile, faults, crashes>>
-----------------------------------------------------------------------------
(* The other commands *)

StartBegin(c) ==
    /\ Script[c] = "start" /\ May(c) /\ cur["dobj"] \in {"old", "new"}
    /\ Call(c, "start", "end")
    /\ UNCHANGED <<cur, bak, staged, procs, pidfile, faults, crashes>>

StopBegin(c) ==
    /\ Script[c] = "stop" /\ May(c) /\ cur["dobj"] \in {"old", "new"}
    /\ Call(c, "stop", "end")
    /\ UNCHANGED <<cur, bak, staged, procs, pidfile, faults, crashes>>

\* The installer fetches every archive, then replaces one binary after another.
InstallBegin(c) ==
    /\ Script[c] = "install" /\ May(c) /\ Go(c, "replace")
    /\ UNCHANGED <<cur, bak, staged, procs, pidfile, faults, crashes>>

InstallReplace(c) ==
    /\ At(c, "replace")
    /\ \/ /\ cur' = [cur EXCEPT ![Installer[cmd[c].i]] = "new"] /\ UNCHANGED faults
          /\ cmd' = [cmd EXCEPT ![c].i = IF @ = N THEN 1 ELSE @ + 1,
                                ![c].pc = IF cmd[c].i = N THEN "end" ELSE @,
                                ![c].res = IF cmd[c].i = N THEN "ok" ELSE @]
       \/ Fault /\ End(c, "error") /\ UNCHANGED cur
    /\ UNCHANGED <<bak, staged, procs, pidfile, crashes>>

\* The command is killed.
Crash(c) ==
    /\ crashes < MaxCrashes /\ crashes' = crashes + 1
    /\ ~At(c, "idle") /\ ~Ended(c) /\ End(c, "killed")
    /\ UNCHANGED <<cur, bak, staged, procs, pidfile, faults>>
-----------------------------------------------------------------------------
Init ==
    /\ cur = [b \in Bins |-> "old"] /\ bak = [b \in Bins |-> "none"]
    /\ staged = [b \in Bins |-> "none"]
    /\ procs = [p \in Pids |-> [st |-> IF p = 1 /\ Running # "none" THEN "serving" ELSE "none",
                                ver |-> "old", asked |-> FALSE, of |-> 0]]
    /\ pidfile = IF Running = "ours" THEN 1 ELSE NoPid
    /\ cmd = [c \in Cmds |-> Fresh] /\ faults = 0 /\ crashes = 0

Update(c) ==
    \/ UpdateBegin(c) \/ StageClear(c) \/ attempt_download(c) \/ UpdateProbe(c)
    \/ Aside(c) \/ install_file(c) \/ rollback(c) \/ SwapFailed(c)
    \/ validate_installed(c) \/ Started(c) \/ Recover(c) \/ Restart(c)
    \/ Restarted(c) \/ UpdateDone(c)
Lifecycle(c) ==
    \/ StopRead(c) \/ Stopped(c) \/ StartProbe(c) \/ Spawn(c) \/ WritePid(c)
    \/ wait_until_ready(c) \/ StartBegin(c) \/ StopBegin(c)
Install(c) == InstallBegin(c) \/ InstallReplace(c)

\* No command is running, and perhaps none can: `dobj' itself may be missing.
Rest == \A c \in Cmds : At(c, "end") \/ At(c, "idle")

Next ==
    \/ \E c \in Cmds : Update(c) \/ Lifecycle(c) \/ Install(c) \/ Crash(c)
    \/ \E p \in Pids : Bind(p) \/ Exit(p)
    \/ Rest /\ UNCHANGED vars

Spec == Init /\ [][Next]_vars
FairSpec == Spec /\ \A c \in Cmds : WF_vars(Update(c) \/ Lifecycle(c) \/ Install(c))
-----------------------------------------------------------------------------
Bundle(v) == \A b \in Bins : cur[b] = v

\* Every variable keeps its type; the journal lists what was moved.
TypeOK ==
    /\ cur \in [Bins -> {"none", "old", "new", "bad"}]
    /\ bak \in [Bins -> {"none", "old", "new", "bad"}]
    /\ pidfile \in Pids \cup {NoPid}
    /\ \A c \in Cmds : cmd[c].i \in 1 .. N /\ cmd[c].tries < DOWNLOAD_ATTEMPTS

\* "The swap is all-or-nothing" (update.rs): whatever single step fails, when no
\* command is running the binaries all come from one release.
AllOrNothing == Rest /\ faults <= 1 => \E v \in {"old", "new"} : Bundle(v)

\* An update that ended with a rollback and a restarted daemon left no daemon
\* of the new version behind, on the port or on its way to it.
RolledBack ==
    \A c \in Cmds : Ended(c) /\ cmd[c].res = "restored" =>
        \A p \in Pids : Runs(p) /\ procs[p].of = c => procs[p].ver = "old"

\* Commands run one after the other, none killed, leave no daemon that the
\* pidfile does not name, so `dobj stop' reaches it.
NoOrphan == Rest /\ crashes = 0 => \A p \in Pids : Runs(p) => p = pidfile

\* The installer completes a release whatever a killed update left behind.
InstallRepairs ==
    \A c \in Cmds : Script[c] = "install" /\ cmd[c].res = "ok" /\ Rest => Bundle("new")
=============================================================================
