----------------------------- MODULE MCDesktop ------------------------------
(***************************************************************************)
(* The Bitcraft desktop app for TLC: its runtime, its window on Linux and  *)
(* its Discord presence.  They have no state in common, so a behaviour is  *)
(* one of a single part, named by `part', and what belongs to the others   *)
(* stays as it starts.                                                     *)
(***************************************************************************)
EXTENDS Naturals

CONSTANTS h1, h2, NoHome, v1, v2, NoPlugin

VARIABLES
    part,
    app, daemon, homeOf, port, conn, plugin, archive, settings, tool, launches, faults, replaced,
    host, available, pending, window, queue, closing, watcher, launch, turns,
    share, seen, saved, w, d, game, answers, quitFor, unseen, embargo, left

runtime == <<app, daemon, homeOf, port, conn, plugin, archive, settings, tool, launches, faults, replaced>>
tray == <<host, available, pending, window, queue, closing, watcher, launch, turns>>
presence == <<share, seen, saved, w, d, game, answers, quitFor, unseen, embargo, left>>
vars == <<part, runtime, tray, presence>>
-----------------------------------------------------------------------------
\* Two releases in one home; one release, with tools in two homes; and fewer
\* launches with more faults.
Releases == INSTANCE BitcraftApp WITH
    Homes <- {h1}, DefaultHome <- h1, Versions <- {v1, v2}, MaxLaunches <- 3, MaxFaults <- 1
Tools == INSTANCE BitcraftApp WITH
    Homes <- {h1, h2}, DefaultHome <- h1, Versions <- {v1}, MaxLaunches <- 3, MaxFaults <- 1
Launches == INSTANCE BitcraftApp WITH
    Homes <- {h1}, DefaultHome <- h1, Versions <- {v1}, MaxLaunches <- 2, MaxFaults <- 2

Window == INSTANCE DesktopWindow WITH MaxHost <- 4, MaxUser <- 3, left <- turns

\* A Discord that takes every activity, one that rejects some, and outages while
\* the player does nothing.
Sharing == INSTANCE Presence WITH
    Ipc <- 2, Clearing <- 1, Poll <- 2, Update <- 4, InitialDelay <- 1, MaxDelay <- 2, Stopping <- 2,
    RetryAfter <- 3, MaxChanges <- 2, MaxFaults <- 1, Rejections <- FALSE, daemon <- answers
Rejecting == INSTANCE Presence WITH
    Ipc <- 2, Clearing <- 1, Poll <- 2, Update <- 4, InitialDelay <- 1, MaxDelay <- 2, Stopping <- 2,
    RetryAfter <- 3, MaxChanges <- 1, MaxFaults <- 1, Rejections <- TRUE, daemon <- answers
Outages == INSTANCE Presence WITH
    Ipc <- 2, Clearing <- 1, Poll <- 2, Update <- 4, InitialDelay <- 1, MaxDelay <- 2, Stopping <- 2,
    RetryAfter <- 3, MaxChanges <- 0, MaxFaults <- 3, Rejections <- FALSE, daemon <- answers

Init ==
    /\ part \in {"releases", "tools", "launches", "window", "sharing", "rejecting", "outages"}
    /\ CASE part = "releases" -> Releases!Init
         [] part = "tools" -> Tools!Init
         [] OTHER -> Launches!Init
    /\ Window!Init /\ (part # "window" => host /\ pending)
    /\ CASE part = "sharing" -> Sharing!Init
         [] part = "outages" -> Outages!Init
         [] OTHER -> Rejecting!Init
    /\ part \notin {"sharing", "rejecting", "outages"} => share = "on" /\ d.up

Next ==
    \/ part = "releases" /\ Releases!Next /\ UNCHANGED <<part, tray, presence>>
    \/ part = "tools" /\ Tools!Next /\ UNCHANGED <<part, tray, presence>>
    \/ part = "launches" /\ Launches!Next /\ UNCHANGED <<part, tray, presence>>
    \/ part = "window" /\ Window!Next /\ UNCHANGED <<part, runtime, presence>>
    \/ part = "sharing" /\ Sharing!Next /\ UNCHANGED <<part, runtime, tray>>
    \/ part = "rejecting" /\ Rejecting!Next /\ UNCHANGED <<part, runtime, tray>>
    \/ part = "outages" /\ Outages!Next /\ UNCHANGED <<part, runtime, tray>>

\* The fairness of the modules, for the part that runs.
On(p, A) == part = p /\ A
Fairness ==
    /\ WF_runtime(On("launches", Launches!Task))
    /\ \A i \in Launches!Ids :
        /\ WF_runtime(On("launches", Launches!DaemonBinds(i)))
        /\ WF_runtime(On("launches", Launches!DaemonServes(i)))
        /\ WF_runtime(On("launches", Launches!ParentGone(i)))
    /\ WF_tray(On("window", Window!Asks \/ Window!Learns \/ Window!Wakes))
    /\ WF_tray(On("window", Window!RunQueued \/ Window!Hides))
    /\ WF_presence(On("rejecting", Rejecting!Start \/ Rejecting!Exit))
    /\ WF_presence(On("rejecting", Rejecting!WorkerStep))
    /\ WF_presence(On("rejecting", Rejecting!Tick))
    /\ WF_presence(On("rejecting", Rejecting!Handle \/ Rejecting!Notice))
    /\ WF_presence(On("rejecting", Rejecting!Resume))

Spec == Init /\ [][Next]_vars /\ Fairness
-----------------------------------------------------------------------------
(* The properties are those of the parts, whose modules say what they mean.  *)

\* What a launch replaces is archived first and the daemon runs the bundled plugin
\* (Runtime's initialize); a normal quit leaves no connection file (stop); the
\* window is hidden only where the tray can bring it back (watch_tray).
LaunchSound ==
    /\ part = "releases" => Releases!TypeOK /\ Releases!ArchiveComplete /\ Releases!BundledRuns
    /\ part = "tools" => Tools!TypeOK /\ Tools!QuitCleans
    /\ Window!Reachable

\* The worker's last word takes the activity back and quitting never aborts it; a
\* brief outage of the daemon keeps the activity; none is sent for as long as
\* Discord asked (worker, stop, drive).
PresenceHonoured ==
    /\ Sharing!TypeOK /\ Sharing!NeverAborted /\ Sharing!BriefOutageKept
    /\ part = "sharing" => Sharing!OffClears
    /\ Rejecting!RetryRespected

\* A launch ends with the game or with an error (wait_until_ready), no daemon
\* outlives its app (--exit-on-stdin-close), the window comes back (watch_tray),
\* presence comes to what it should be (drive); and at every step a tool works
\* against the daemon of its own home (verify_with_client).
DesktopSettles ==
    /\ part = "launches" => Launches!LaunchSettles /\ Launches!DaemonsEnd
    /\ part = "window" => Window!Restored
    /\ part = "rejecting" => Rejecting!PresenceSettles
    /\ [][Tools!ToolMatches]_runtime
=============================================================================
