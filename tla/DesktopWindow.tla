---------------------------- MODULE DesktopWindow ----------------------------
(***************************************************************************)
(* The main window and the tray on Linux (apps/bitcraft,                   *)
(* src-tauri/src/main.rs).                                                 *)
(*                                                                         *)
(* A window is hidden only where a tray can bring it back, but the tray's  *)
(* host comes and goes, and a watcher asks after it every five seconds.    *)
(* The watcher and the launch run beside the main thread and reach the     *)
(* window through its queue; the close handler runs on the main thread and *)
(* reads tray_available before it hides.                                   *)
(***************************************************************************)
EXTENDS Naturals, Sequences

CONSTANT MaxHost,      \* bounds: how often the tray's host comes or goes,
         MaxUser       \* and what the player does

VARIABLES host,       \* a StatusNotifier host is registered
          available,  \* tray_available
          pending,    \* background_pending
          window,     \* "shown" | "hidden" | "closed"
          queue,      \* what the main thread is to do next: "show" | "hide"
          closing,    \* its close handler has found the tray available
          watcher,    \* "asks" | "sleeps" | what it was told: "there" | "away"
          launch,     \* of the game's runtime: "starting" | "ready" | "failed"
          left

vars == <<host, available, pending, window, queue, closing, watcher, launch, left>>

Init ==
    /\ host \in BOOLEAN /\ pending \in BOOLEAN
    /\ available = FALSE /\ window = "shown" /\ queue = <<>> /\ closing = FALSE
    /\ watcher = "asks" /\ launch = "starting"
    /\ left = [host |-> MaxHost, user |-> MaxUser]

Running == window # "closed"
User == Running /\ ~closing /\ left.user > 0 /\ left' = [left EXCEPT !.user = @ - 1]
-----------------------------------------------------------------------------
(* watch_tray                                                               *)

\* tray_host_available: what the host says, or no for a call that fails or
\* takes too long.
Asks ==
    /\ Running /\ watcher = "asks"
    /\ watcher' \in (IF host THEN {"there", "away"} ELSE {"away"})
    /\ UNCHANGED <<host, available, pending, window, queue, closing, launch, left>>

\* What the watcher asks of the main thread.
Post(now) ==
    CASE now /\ pending -> Append(queue, "hide")
      [] ~now /\ available -> Append(queue, "show")
      [] OTHER -> queue

Learns ==
    /\ Running /\ watcher \in {"there", "away"}
    /\ LET now == watcher = "there" IN
       /\ available' = now
       /\ pending' = (pending /\ ~now)
       /\ queue' = Post(now)
    /\ watcher' = "sleeps"
    /\ UNCHANGED <<host, window, closing, launch, left>>

\* Five seconds later, which are enough for the main thread.
Wakes ==
    /\ Running /\ watcher = "sleeps"
    /\ queue = <<>> /\ ~closing
    /\ watcher' = "asks"
    /\ UNCHANGED <<host, available, pending, window, queue, closing, launch, left>>
-----------------------------------------------------------------------------
(* The main thread.                                                         *)

\* show_window and hide_window, posted to it.
RunQueued ==
    /\ Running /\ ~closing /\ queue # <<>>
    /\ window' = IF Head(queue) = "show" THEN "shown" ELSE "hidden"
    /\ queue' = Tail(queue)
    /\ UNCHANGED <<host, available, pending, closing, watcher, launch, left>>

\* CloseRequested: without a tray the window closes, and the app with it.
CloseRequested ==
    /\ User /\ window = "shown"
    /\ IF available THEN closing' = TRUE /\ UNCHANGED window
       ELSE window' = "closed" /\ UNCHANGED closing
    /\ UNCHANGED <<host, available, pending, queue, watcher, launch>>

\* The window is hidden before the main thread does anything else.
HideNow == window' = "hidden" /\ UNCHANGED queue

Hides ==
    /\ closing /\ closing' = FALSE
    /\ HideNow
    /\ UNCHANGED <<host, available, pending, watcher, launch, left>>

\* A second launch without --background, or the tray's Open.
Opened ==
    /\ User
    /\ window' = "shown"
    /\ UNCHANGED <<host, available, pending, queue, closing, watcher, launch>>

\* Quit from a menu; the hidden window has only the tray's.
Quits ==
    /\ User /\ (window = "hidden" => host)
    /\ window' = "closed"
    /\ UNCHANGED <<host, available, pending, queue, closing, watcher, launch>>
-----------------------------------------------------------------------------
\* The runtime is ready, or could not start and the window is to say so.
Launched ==
    /\ Running /\ launch = "starting"
    /\ \/ launch' = "ready" /\ UNCHANGED queue
       \/ launch' = "failed" /\ queue' = Append(queue, "show")
    /\ UNCHANGED <<host, available, pending, window, closing, watcher, left>>

\* The tray's host, external.
HostChanges ==
    /\ Running /\ left.host > 0
    /\ host' = ~host /\ left' = [left EXCEPT !.host = @ - 1]
    /\ UNCHANGED <<available, pending, window, queue, closing, watcher, launch>>

Closed == window = "closed" /\ UNCHANGED vars

Next ==
    \/ Asks \/ Learns \/ Wakes \/ RunQueued \/ CloseRequested \/ Hides \/ Opened \/ Quits
    \/ Launched \/ HostChanges \/ Closed

\* The watcher's loop and the main thread run.
Fairness == WF_vars(Asks \/ Learns \/ Wakes) /\ WF_vars(RunQueued \/ Hides)

Spec == Init /\ [][Next]_vars /\ Fairness
-----------------------------------------------------------------------------
\* The window once the main thread has done what it has to.
Eventual ==
    IF queue # <<>> THEN (IF queue[Len(queue)] = "show" THEN "shown" ELSE "hidden")
    ELSE IF closing THEN "hidden" ELSE window

\* No player is left without a window and without a tray the app knows of,
\* whatever the tray did between the close handler's look and its hiding
\* (on_window_event, watch_tray).
Reachable == Eventual = "hidden" => available

\* "Linux checks for a registered StatusNotifier host and restores the window
\* if the host disappears": when the host stays away, so does not the window.
Restored == <>[](host \/ window # "hidden")
=============================================================================
