---------------------------- MODULE BitcraftApp ----------------------------
(***************************************************************************)
(* The Bitcraft desktop app's runtime (apps/bitcraft/src-tauri): a launch  *)
(* installs the bundled plugin and settings in its home, starts a daemon   *)
(* and publishes connection.json once that daemon answers; quitting stops  *)
(* the daemon and removes the file; the bundled tools find a game by it.   *)
(*                                                                         *)
(* One app runs at a time (the single-instance plugin), on one port        *)
(* whatever its home.  A launch number stands for the instance id.  A      *)
(* daemon here is dobjd as far as the app and the tools see it.            *)
(***************************************************************************)
EXTENDS Naturals, FiniteSets

CONSTANTS
    Homes, DefaultHome,
    NoHome,          \* none was named
    Versions,        \* contents of bitcraft.pexe; releases bundle any of them
    NoPlugin,
    MaxLaunches,
    MaxFaults        \* crashes, daemons dying, other processes on the port

VARIABLES
    app,             \* the app: its process, its launch task and its child
    daemon,          \* each launch's daemon
    homeOf,          \* its home
    port,            \* who has the HTTP port: a launch, Nobody or Other
    conn,            \* connection.json in each home, by launch
    plugin, archive, settings,
    tool,            \* a bundled tool being started
    launches, faults,
    replaced         \* history: what the app has written over in each home

vars == <<app, daemon, homeOf, port, conn, plugin, archive, settings, tool, launches, faults, replaced>>
files == <<plugin, archive, settings, replaced>>

Ids == 1..MaxLaunches
Nobody == 0
Other == MaxLaunches + 1
NoFile == 0

\* The task's steps before its end.
Underway == {"port", "init", "archive", "install", "settings", "fill", "spawn", "store",
             "check", "poll", "publish"}
Up == app.pc = "up"
At(step) == Up /\ app.task = step
Goto(step) == app' = [app EXCEPT !.task = step]
-----------------------------------------------------------------------------
(* dobjd: the port is bound before the settings are read, and requests are  *)
(* served when the circuits are warm.                                       *)

Alive(d) == daemon[d] \in {"starting", "bound", "serving"}
PipeOpen(d) == Up /\ app.id = d /\ app.child # "none"

Gone(d) ==
    /\ daemon' = [daemon EXCEPT ![d] = "dead"]
    /\ port' = IF port = d THEN Nobody ELSE port

DaemonBinds(d) ==
    /\ daemon[d] = "starting"
    /\ IF port = Nobody
       THEN port' = d /\ daemon' = [daemon EXCEPT ![d] = "bound"]
       ELSE Gone(d)
    /\ UNCHANGED <<app, homeOf, conn, files, tool, launches, faults>>

DaemonServes(d) ==
    /\ daemon[d] = "bound"
    /\ IF settings[homeOf[d]] # "empty"
       THEN daemon' = [daemon EXCEPT ![d] = "serving"] /\ UNCHANGED port
       ELSE Gone(d)
    /\ UNCHANGED <<app, homeOf, conn, files, tool, launches, faults>>

DaemonDies(d) ==
    /\ Alive(d) /\ faults < MaxFaults
    /\ faults' = faults + 1
    /\ Gone(d)
    /\ UNCHANGED <<app, homeOf, conn, files, tool, launches>>

\* --exit-on-stdin-close: a thread of its own, from the start.
Eof(d) == Alive(d) /\ ~PipeOpen(d)

ParentGone(d) ==
    /\ Eof(d)
    /\ Gone(d)
    /\ UNCHANGED <<app, homeOf, conn, files, tool, launches, faults>>

\* Another process on the port: a dobjd of its own, or a daemon not yet gone.
OtherTakes ==
    /\ port = Nobody /\ faults < MaxFaults
    /\ port' = Other /\ faults' = faults + 1
    /\ UNCHANGED <<app, daemon, homeOf, conn, files, tool, launches>>
OtherLeaves ==
    /\ port = Other
    /\ port' = Nobody
    /\ UNCHANGED <<app, daemon, homeOf, conn, files, tool, launches, faults>>
-----------------------------------------------------------------------------
(* Launching: Runtime::launch and initialize, in the order of its writes.   *)

Launch(h, v) ==
    /\ ~Up /\ launches < MaxLaunches
    /\ launches' = launches + 1
    /\ app' = [pc |-> "up", id |-> launches + 1, home |-> h, bundle |-> v, task |-> "port",
               child |-> "none", stored |-> FALSE]
    /\ homeOf' = [homeOf EXCEPT ![launches + 1] = h]
    /\ UNCHANGED <<daemon, port, conn, files, tool, faults>>

Keep == UNCHANGED <<daemon, homeOf, port, conn, tool, launches, faults>>

\* wait_for_port: three seconds.
WaitForPort ==
    /\ At("port")
    /\ Goto(IF port = Nobody THEN "init" ELSE "failed")
    /\ Keep /\ UNCHANGED files

\* The bundled plugin against the manifest, and the installed one against it.
AfterInit(h) ==
    IF plugin[h] = app.bundle THEN "settings"
    ELSE IF plugin[h] = NoPlugin THEN "install" ELSE "archive"

Initialize ==
    /\ At("init")
    /\ Goto(AfterInit(app.home))
    /\ Keep /\ UNCHANGED files

\* Any step of it may fail: a plugin that is not the manifest's, a full disk.
InitializeFails ==
    /\ Up /\ app.task \in {"init", "archive", "install", "settings", "fill", "spawn"}
    /\ faults < MaxFaults
    /\ faults' = faults + 1
    /\ Goto("failed")
    /\ UNCHANGED <<daemon, homeOf, port, conn, files, tool, launches>>

\* An installed copy that differs is archived first; each write is atomic.
ArchivePrevious ==
    /\ At("archive")
    /\ archive' = [archive EXCEPT ![app.home] = @ \cup {plugin[app.home]}]
    /\ Goto("install")
    /\ Keep /\ UNCHANGED <<plugin, settings, replaced>>

InstallPlugin ==
    /\ At("install")
    /\ replaced' = [replaced EXCEPT ![app.home] = @ \cup ({plugin[app.home]} \ {NoPlugin})]
    /\ plugin' = [plugin EXCEPT ![app.home] = app.bundle]
    /\ Goto("settings")
    /\ Keep /\ UNCHANGED <<archive, settings>>

\* write_new: the file exists before it has its contents.
CreateSettings ==
    /\ At("settings")
    /\ IF settings[app.home] = "none"
       THEN settings' = [settings EXCEPT ![app.home] = "empty"] /\ Goto("fill")
       ELSE UNCHANGED settings /\ Goto("spawn")
    /\ Keep /\ UNCHANGED <<plugin, archive, replaced>>
FillSettings ==
    /\ At("fill")
    /\ settings' = [settings EXCEPT ![app.home] = "full"]
    /\ Goto("spawn")
    /\ Keep /\ UNCHANGED <<plugin, archive, replaced>>

Spawn ==
    /\ At("spawn")
    /\ daemon' = [daemon EXCEPT ![app.id] = "starting"]
    /\ app' = [app EXCEPT !.task = "store", !.child = "held"]
    /\ UNCHANGED <<homeOf, port, conn, files, tool, launches, faults>>

\* Desktop::runtime is set: from here on quitting finds the runtime.
Store ==
    /\ At("store")
    /\ app' = [app EXCEPT !.task = "check", !.stored = TRUE]
    /\ Keep /\ UNCHANGED files
-----------------------------------------------------------------------------
(* Runtime::stop, and what calls it.  The child's lock is held throughout.  *)

KeepFile(c) == c
RemovedFile(c) == [h \in Homes |-> IF h = app.home /\ c[h] = app.id THEN NoFile ELSE c[h]]

Stopped ==
    /\ IF app.child = "held" /\ Alive(app.id) THEN Gone(app.id) ELSE UNCHANGED <<daemon, port>>
    /\ conn' = RemovedFile(conn)

Fail ==
    /\ Stopped
    /\ app' = [app EXCEPT !.task = "failed", !.child = "none"]

\* wait_until_ready: the child, the health request, the child again.
Check ==
    /\ At("check")
    /\ IF app.child = "held" /\ Alive(app.id)
       THEN Goto("poll") /\ UNCHANGED <<daemon, port, conn>>
       ELSE Fail
    /\ UNCHANGED <<homeOf, files, tool, launches, faults>>

Serving(p) == p \in Ids /\ daemon[p] = "serving"

\* The instance that answers is not this one: a dobjd elsewhere.
Poll ==
    /\ At("poll")
    /\ \/ Serving(port) /\ port = app.id /\ Goto("publish") /\ UNCHANGED <<daemon, port, conn>>
       \/ (port = Other \/ Serving(port)) /\ port # app.id /\ Fail
       \/ ~Serving(port) /\ Goto("check") /\ UNCHANGED <<daemon, port, conn>>
    /\ UNCHANGED <<homeOf, files, tool, launches, faults>>

\* Fifteen minutes, or a file that cannot be written.
GivesUp ==
    /\ At("publish") \/ (At("poll") /\ ~Serving(app.id))
    /\ faults < MaxFaults
    /\ faults' = faults + 1
    /\ Fail
    /\ UNCHANGED <<homeOf, files, tool, launches>>

Publish ==
    /\ At("publish")
    /\ IF app.child = "held" /\ Alive(app.id)
       THEN conn' = [conn EXCEPT ![app.home] = app.id] /\ Goto("ready") /\ UNCHANGED <<daemon, port>>
       ELSE Fail
    /\ UNCHANGED <<homeOf, files, tool, launches, faults>>

\* RunEvent::Exit, which ends the process.
Quit ==
    /\ Up
    /\ IF app.stored THEN Stopped ELSE UNCHANGED <<daemon, port, conn>>
    /\ app' = [app EXCEPT !.pc = "off"]
    /\ UNCHANGED <<homeOf, files, tool, launches, faults>>

Crash ==
    /\ Up /\ faults < MaxFaults
    /\ faults' = faults + 1
    /\ app' = [app EXCEPT !.pc = "crashed"]
    /\ UNCHANGED <<daemon, homeOf, port, conn, files, tool, launches>>
-----------------------------------------------------------------------------
(* The tools: bitcraft-dobj and bitcraft-dobj-mcp-proxy.                    *)

NoTool == [pc |-> "none", home |-> DefaultHome, seen |-> NoFile]

\* --home, BITCRAFT_HOME, the home the working directory is in, the default.
ToolHome(named, directory) ==
    IF named # NoHome THEN named
    ELSE IF conn[directory] # NoFile THEN directory ELSE DefaultHome

ToolStart ==
    /\ tool.pc = "none"
    /\ \E named \in Homes \cup {NoHome}, directory \in Homes :
         tool' = [pc |-> "read", home |-> ToolHome(named, directory), seen |-> NoFile]
    /\ UNCHANGED <<app, daemon, homeOf, port, conn, files, launches, faults>>

ToolReads ==
    /\ tool.pc = "read"
    /\ tool' = IF conn[tool.home] = NoFile THEN NoTool
               ELSE [tool EXCEPT !.pc = "verify", !.seen = conn[tool.home]]
    /\ UNCHANGED <<app, daemon, homeOf, port, conn, files, launches, faults>>

Verified(seen) == Serving(port) /\ port = seen

ToolVerifies ==
    /\ tool.pc = "verify"
    /\ tool' = IF Verified(tool.seen) THEN [tool EXCEPT !.pc = "runs"] ELSE NoTool
    /\ UNCHANGED <<app, daemon, homeOf, port, conn, files, launches, faults>>

ToolEnds ==
    /\ tool.pc = "runs"
    /\ tool' = NoTool
    /\ UNCHANGED <<app, daemon, homeOf, port, conn, files, launches, faults>>

\* The player edits the managed plugin while the app is closed.
Edit(h, v) ==
    /\ ~Up /\ launches < MaxLaunches /\ plugin[h] \notin {NoPlugin, v}
    /\ plugin' = [plugin EXCEPT ![h] = v]
    /\ UNCHANGED <<app, daemon, homeOf, port, conn, archive, settings, replaced, tool, launches, faults>>
-----------------------------------------------------------------------------
Init ==
    /\ app = [pc |-> "off", id |-> 0, home |-> DefaultHome, bundle |-> NoPlugin, task |-> "failed",
              child |-> "none", stored |-> FALSE]
    /\ daemon = [d \in Ids |-> "none"] /\ homeOf = [d \in Ids |-> DefaultHome]
    /\ port = Nobody
    /\ conn = [h \in Homes |-> NoFile]
    /\ plugin = [h \in Homes |-> NoPlugin] /\ archive = [h \in Homes |-> {}]
    /\ settings = [h \in Homes |-> "none"] /\ replaced = [h \in Homes |-> {}]
    /\ tool = NoTool
    /\ launches = 0 /\ faults = 0

Task ==
    \/ WaitForPort \/ Initialize \/ ArchivePrevious \/ InstallPlugin \/ CreateSettings \/ FillSettings
    \/ Spawn \/ Store \/ Check \/ Poll \/ Publish

Done == ~Up /\ launches = MaxLaunches

Next ==
    \/ \E h \in Homes, v \in Versions : Launch(h, v) \/ Edit(h, v)
    \/ Task \/ InitializeFails \/ GivesUp \/ Quit \/ Crash
    \/ \E d \in Ids : DaemonBinds(d) \/ DaemonServes(d) \/ DaemonDies(d) \/ ParentGone(d)
    \/ OtherTakes \/ OtherLeaves
    \/ ToolStart \/ ToolReads \/ ToolVerifies \/ ToolEnds
    \/ Done /\ UNCHANGED vars

\* The runtime runs the launch task; a started daemon gets on; end of file is seen.
Fairness ==
    /\ WF_vars(Task)
    /\ \A d \in Ids : WF_vars(DaemonBinds(d)) /\ WF_vars(DaemonServes(d)) /\ WF_vars(ParentGone(d))

Spec == Init /\ [][Next]_vars /\ Fairness
-----------------------------------------------------------------------------
TypeOK ==
    /\ app \in [pc : {"off", "up", "crashed"}, id : 0..MaxLaunches, home : Homes,
               bundle : Versions \cup {NoPlugin}, task : Underway \cup {"ready", "failed"},
               child : {"none", "held"}, stored : BOOLEAN]
    /\ daemon \in [Ids -> {"none", "starting", "bound", "serving", "dead"}]
    /\ homeOf \in [Ids -> Homes]
    /\ port \in 0..Other
    /\ \A d \in Ids : daemon[d] \in {"bound", "serving"} <=> port = d
    /\ conn \in [Homes -> 0..MaxLaunches]
    /\ plugin \in [Homes -> Versions \cup {NoPlugin}]
    /\ archive \in [Homes -> SUBSET Versions] /\ replaced \in [Homes -> SUBSET Versions]
    /\ settings \in [Homes -> {"none", "empty", "full"}]
    /\ tool \in [pc : {"none", "read", "verify", "runs"}, home : Homes, seen : 0..MaxLaunches]

(* A tool starts working only against a daemon of the home it was started   *)
(* for: a connection file left by a crash, with another home's daemon on    *)
(* the port since, fails verification (Connection::verify_with_client).     *)
ToolMatches == tool.pc = "verify" /\ tool'.pc = "runs" => homeOf[port] = tool.home
(* After a normal quit no connection file names that launch, whatever the   *)
(* launch task was doing (Runtime::stop and publish under the child lock).  *)
QuitCleans == app.pc = "off" => \A h \in Homes : app.id > 0 => conn[h] # app.id

(* Whatever the app replaced, a release of before or the player's own edit, *)
(* is in the archive, crashes between the writes included (initialize).     *)
ArchiveComplete == \A h \in Homes : replaced[h] \subseteq archive[h]

(* The daemon is started on the plugin this release bundles, whatever an    *)
(* interrupted launch or the player left in its place (initialize).         *)
BundledRuns == At("spawn") => plugin[app.home] = app.bundle

(* A daemon does not outlive the app that started it: however the app went, *)
(* it ends (--exit-on-stdin-close).                                         *)
DaemonsEnd == \A d \in Ids : []<>(Alive(d) => Up /\ app.id = d)

(* Every launch comes to an end: the game shown, or an error.               *)
LaunchSettles == (Up /\ app.task \in Underway) ~> ~(Up /\ app.task \in Underway)

(* "The initial configuration uses the same hosted synchronizer and relayer *)
(* as the existing Digital Objects releases": a daemon never starts on      *)
(* settings that are neither the bundled ones nor the player's.  write_new  *)
(* creates the file before it fills it, so a crash in between leaves one    *)
(* that every later launch keeps.                                           *)
=============================================================================
