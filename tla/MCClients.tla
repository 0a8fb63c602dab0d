----------------------------- MODULE MCClients ------------------------------
(***************************************************************************)
(* The daemon's clients for TLC: `dobj' following a run and updating an    *)
(* installation, the pages that list objects and show a run, and the       *)
(* commands an MCP client defines.  They meet only in the daemon, so a     *)
(* behaviour is one of a single part, named by `part', and what belongs to *)
(* the others stays as it starts.                                          *)
(***************************************************************************)
EXTENDS Naturals, Sequences

CONSTANTS f1, o1, o2, c1, c2, NoRun

VARIABLES
    part,
    entry, worker, registry, socket, cli, cuts,
    store, changes, unsaid, seq, stream, wire, lastSeq, opened, list, loads, imports, overlay,
    drops, fails, holes,
    runs, log, press, proof, errors,
    cur, bak, staged, procs, pidfile, cmd, faults, crashes,
    clock, published, cache, checks, failed,
    disk, times, author, saved, menus, menu, lock, writes, refusals

following == <<entry, worker, registry, socket, cli, cuts>>
listing == <<store, changes, unsaid, seq, stream, wire, lastSeq, opened, list, loads, imports,
             overlay, drops, fails, holes>>
panel == <<runs, log, press, proof, errors>>
installed == <<cur, bak, staged, procs, pidfile, cmd, faults, crashes>>
notices == <<clock, published, cache, checks, failed>>
macros == <<disk, times, author, saved, menus, menu, lock, writes, refusals>>
vars == <<part, following, listing, panel, installed, notices, macros>>
-----------------------------------------------------------------------------
Following == INSTANCE RunStream WITH Followers <- {f1}, Channel <- 2, MaxLog <- 4, MaxFaults <- 2,
    run <- entry, conn <- socket, faults <- cuts

\* Two files; and one, with loads that fail.
Listing == INSTANCE ObjectList WITH Files <- {o1, o2}, Capacity <- 1, MaxChanges <- 3, MaxDrops <- 1,
    MaxFails <- 0, conn <- stream
Failing == INSTANCE ObjectList WITH Files <- {o1}, Capacity <- 1, MaxChanges <- 3, MaxDrops <- 1,
    MaxFails <- 1, conn <- stream

Panel == INSTANCE RunPanel WITH Calls <- {c1, c2}, MaxFaults <- 1, run <- runs, call <- press,
    faults <- errors

\* Updates that fail; and one that may be killed, with what repairs it.
Swapping == INSTANCE Updater WITH Script <- <<"update", "update">>, Serial <- TRUE, Running <- "ours",
    MaxFaults <- 2, MaxCrashes <- 0, LastPid <- 6
Repairing == INSTANCE Updater WITH Script <- <<"update", "install", "start", "stop">>, Serial <- TRUE,
    Running <- "ours", MaxFaults <- 1, MaxCrashes <- 1, LastPid <- 5

Checking == INSTANCE UpdateCheck WITH Calls <- {c1, c2}, Passive <- {c1}, LastTag <- 2, Hours <- 3,
    UPDATE_CHECK_INTERVAL <- 2, UPDATE_RETRY_AFTER_FAILURE <- 1, call <- checks

\* Two commands and one reader; and one command, with two readers.  Of the names
\* two are refused, one of them a built-in's; the description has a line that
\* would close the frontmatter, and so has the body.
Writing == INSTANCE UserCommands WITH Calls <- {c1},
    Raw <- {<<"A", "_", "_", "a", "_">>, <<"a">>, <<"_", "H">>, <<"_">>},
    Descriptions <- {<<<<"x">>, <<"---">>, <<"y">>>>},
    Bodies <- {<<<<>>>>, <<<<>>, <<"---">>, <<"s">>, <<>>>>},
    Builtins <- {<<"h">>, <<"d">>}, START <- <<"s">>, MaxWrites <- 3, MaxFails <- 1,
    clock <- times, call <- menus, cache <- menu, fails <- refusals
Menus == INSTANCE UserCommands WITH Calls <- {c1, c2}, Raw <- {<<"A">>}, Descriptions <- {<<>>},
    Bodies <- {<<<<"s">>>>}, Builtins <- {<<"h">>}, START <- <<"s">>, MaxWrites <- 3, MaxFails <- 0,
    clock <- times, call <- menus, cache <- menu, fails <- refusals

Init ==
    /\ part \in {"following", "listing", "failing", "panel", "swapping", "repairing", "checking",
                "writing", "menus"}
    /\ Following!Init
    /\ IF part = "listing" THEN Listing!Init ELSE Failing!Init
    /\ part \notin {"listing", "failing"} => store[o1] = 0
    /\ Panel!Init
    /\ IF part = "repairing" THEN Repairing!Init ELSE Swapping!Init
    /\ Checking!Init
    /\ IF part = "menus" THEN Menus!Init ELSE Writing!Init

Next ==
    \/ /\ part = "following" /\ Following!Next
       /\ UNCHANGED <<part, listing, panel, installed, notices, macros>>
    \/ /\ part = "listing" /\ Listing!Next
       /\ UNCHANGED <<part, following, panel, installed, notices, macros>>
    \/ /\ part = "failing" /\ Failing!Next
       /\ UNCHANGED <<part, following, panel, installed, notices, macros>>
    \/ /\ part = "panel" /\ Panel!Next
       /\ UNCHANGED <<part, following, listing, installed, notices, macros>>
    \/ /\ part = "swapping" /\ Swapping!Next
       /\ UNCHANGED <<part, following, listing, panel, notices, macros>>
    \/ /\ part = "repairing" /\ Repairing!Next
       /\ UNCHANGED <<part, following, listing, panel, notices, macros>>
    \/ /\ part = "checking" /\ Checking!Next
       /\ UNCHANGED <<part, following, listing, panel, installed, macros>>
    \/ /\ part = "writing" /\ Writing!Next
       /\ UNCHANGED <<part, following, listing, panel, installed, notices>>
    \/ /\ part = "menus" /\ Menus!Next
       /\ UNCHANGED <<part, following, listing, panel, installed, notices>>

\* The fairness of the modules, for the part that runs.
On(p, A) == part = p /\ A
Fairness ==
    /\ WF_following(On("following", Following!Worker))
    /\ WF_following(On("following", Following!Task(f1)))
    /\ WF_following(On("following", Following!Command(f1)))
    /\ \A r \in {c1, c2} :
        /\ WF_panel(On("panel", Panel!Daemon(r)))
        /\ WF_panel(On("panel", Panel!Stream(r)))
        /\ WF_panel(On("panel", Panel!RunProof(r)))

Spec == Init /\ [][Next]_vars /\ Fairness
-----------------------------------------------------------------------------
(* The properties are those of the parts, whose modules say what they mean.  *)

\* What follows a run gets its events in order, each of them once and to the
\* last, and `dobj' reports the outcome the run had (run_events, follow_run); the
\* log of a finished run has one closing event and no open interval (runs.rs).
FollowsRun ==
    /\ Following!TypeOK /\ Following!EachEventOnce /\ Following!EndsComplete
    /\ Following!AnswerIsOutcome /\ Following!OneLastEvent /\ Following!IntervalsClosed

\* Once all has arrived, the page shows what the daemon has (hydrateData); its
\* panel says of a run what is true of it, and of one that landed not that it
\* failed (applyRunActionProgress, failProof).  A menu with the store's fingerprint
\* has every stored command, and a defined command is what was defined.
PageTruthful ==
    /\ part = "listing" => Listing!TypeOK /\ Listing!ListCurrent
    /\ part = "failing" => Failing!ListCurrent
    /\ Panel!TypeOK /\ Panel!PanelTruthful /\ Panel!LandedNotFailed
    /\ part = "writing" => Writing!TypeOK /\ Writing!MenuCurrent /\ Writing!CommandKept
    /\ part = "menus" => Menus!TypeOK /\ Menus!MenuCurrent

\* A failed swap leaves the binaries of one release and no daemon of the new one,
\* the pidfile names every daemon that is left (swap_binaries, recover, stop); the
\* installer repairs what a killed update left; a check's answer is fresh.
UpdatesWhole ==
    /\ part = "swapping" =>
           Swapping!TypeOK /\ Swapping!AllOrNothing /\ Swapping!RolledBack /\ Swapping!NoOrphan
    /\ part = "repairing" => Repairing!InstallRepairs
    /\ Checking!AnswersFresh

\* Every command that follows a run returns (follow_run), the Run buttons come
\* back (runProof), and the panel of a run in progress is not taken over.
ClientsReturn ==
    /\ part = "following" => Following!CommandReturns
    /\ part = "panel" => Panel!ButtonsReturn
    /\ [][Panel!KeepsPanel]_panel
=============================================================================
