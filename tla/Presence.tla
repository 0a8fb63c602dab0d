------------------------------ MODULE Presence ------------------------------
(***************************************************************************)
(* Sharing the player's activity with Discord (apps/bitcraft,              *)
(* src-tauri/src/discord.rs and discord/ipc.rs).                           *)
(*                                                                         *)
(* The preference is a watch channel: `share' is its value, `seen' whether *)
(* the worker has seen it.  The worker polls the daemon for its runs and   *)
(* keeps one connection to Discord, over which it has one call under way   *)
(* at a time; a changed preference cancels whatever it is doing.           *)
(*                                                                         *)
(* Time passes in ticks, and only when nobody has a step to take that      *)
(* needs no time: the worker's own code, and a Discord that is not `slow', *)
(* answer at once.  Discord and the daemon are external: they stop, hang,  *)
(* come back, and Discord rejects, at most MaxFaults times in all.         *)
(***************************************************************************)
EXTENDS Naturals, Integers, Sequences, FiniteSets

CONSTANTS Ipc,          \* IPC_TIMEOUT
          Clearing,     \* the timeout of the last call
          Poll,         \* POLL_INTERVAL
          Update,       \* UPDATE_INTERVAL
          InitialDelay, MaxDelay,       \* RECONNECT_*_DELAY
          Stopping,     \* how long the quitting app waits for the worker
          RetryAfter,   \* what Discord asks for when it rejects an activity
          MaxChanges,   \* bounds: what the player and the game do,
          MaxFaults,    \* and what goes wrong
          Rejections    \* whether Discord rejects activities

VARIABLES share,     \* "on" | "off" | "quit", and "exited" once the process has ended
          seen,
          saved,     \* desktop.json
          w,         \* the worker
          d,         \* Discord
          game,      \* the runs and the inventory metrics
          daemon,    \* whether the daemon answers
          quitFor,   \* how long the app has waited for the worker
          unseen,    \* history: how long ago the daemon last answered
          embargo,   \* history: how long Discord still wants no activity
          left       \* the changes and the faults still to come

vars == <<share, seen, saved, w, d, game, daemon, quitFor, unseen, embargo, left>>

Nothing == <<>>
Never == -1
Least(a, b) == IF a < b THEN a ELSE b
Most(a, b) == IF a < b THEN b ELSE a

Set(a) == <<"set", a>>
Ping == <<"ping">>
Torn == <<"torn">>

Runs == {<<"bitcraft", "queued">>, <<"bitcraft", "running">>, <<"other", "running">>}
Metrics == {Nothing, <<"bits">>}

\* activity: what is said of the runs, and the inventory where it is known.
Activity ==
    LET active == {r \in game.runs : r[1] = "bitcraft"}
    IN  <<CASE active = {} -> "Managing inventory"
            [] Cardinality(active) = 1 -> (CHOOSE r \in active : TRUE)[2]
            [] OTHER -> "Crafting resources",
          Cardinality(active), game.metrics>>

\* Where a changed preference is waited for beside something else.
Driving == {"connect", "fetch", "call", "sleep"}
Ended == {"unstarted", "gone"}

Worker(pc, delay) ==
    [pc |-> pc, timer |-> 0, ipc |-> FALSE, call |-> Nothing, failed |-> FALSE,
     published |-> Nothing, last |-> Never, since |-> Never, delay |-> delay]

TypeOK ==
    /\ share \in {"on", "off", "quit", "exited"} /\ saved \in {"on", "off"}
    /\ {seen, daemon} \subseteq BOOLEAN
    /\ w.pc \in Driving \cup Ended \cup {"top", "off", "clear", "wait"}
    /\ w.timer \in Nat /\ w.delay \in InitialDelay..MaxDelay
    /\ w.last \in Never..Update /\ w.since \in Never..Update
    /\ d.conn \in {"none", "open", "closed"} /\ d.reply \in {"none", "ok", "rejected"}

Init ==
    /\ saved \in {"on", "off"} /\ share = saved /\ seen = FALSE
    /\ w = Worker("unstarted", InitialDelay)
    /\ d \in {[up |-> u, slow |-> FALSE, conn |-> "none", inbox |-> <<>>, shown |-> Nothing, reply |-> "none"] :
                u \in BOOLEAN}
    /\ game = [runs |-> {}, metrics |-> Nothing]
    /\ daemon = TRUE /\ quitFor = 0 /\ unseen = 0 /\ embargo = 0
    /\ left = [changes |-> MaxChanges, faults |-> MaxFaults]

Spend(what) == left[what] > 0 /\ left' = [left EXCEPT ![what] = @ - 1]
-----------------------------------------------------------------------------
(* The app: Presence.                                                       *)

\* set_enabled: the worker is told, then the preference is saved, which may fail.
SetEnabled ==
    /\ share \in {"on", "off"}
    /\ Spend("changes")
    /\ \E choice \in {"on", "off"} : share' = choice /\ saved' \in {choice, saved}
    /\ seen' = FALSE /\ embargo' = 0
    /\ UNCHANGED <<w, d, game, daemon, quitFor, unseen>>

\* start, once the daemon has been launched.
Start ==
    /\ w.pc = "unstarted" /\ share # "exited"
    /\ w' = [w EXCEPT !.pc = "top"]
    /\ UNCHANGED <<share, seen, saved, d, game, daemon, quitFor, unseen, embargo, left>>

Stop ==
    /\ share \in {"on", "off"}
    /\ Spend("changes")
    /\ share' = "quit" /\ seen' = FALSE /\ embargo' = 0
    /\ UNCHANGED <<saved, w, d, game, daemon, quitFor, unseen>>

Hangup(disc) ==
    IF disc.conn = "open" THEN [disc EXCEPT !.conn = "closed", !.reply = "none"] ELSE disc

\* stop's wait is over: the worker has ended or is aborted.  The daemon is
\* stopped next, and with the process the connection goes.
Exit ==
    /\ share = "quit"
    /\ TRUE \in {w.pc \in Ended, quitFor >= Stopping}
    /\ share' = "exited" /\ seen' = FALSE
    /\ w' = Worker("unstarted", InitialDelay)
    /\ d' = Hangup(d)
    /\ UNCHANGED <<saved, game, daemon, quitFor, unseen, embargo, left>>

\* The app is started again and reads the preference: Presence::new.
Launch ==
    /\ share = "exited"
    /\ Spend("changes")
    /\ share' = saved /\ quitFor' = 0 /\ unseen' = 0
    /\ UNCHANGED <<seen, saved, w, d, game, daemon, embargo>>
-----------------------------------------------------------------------------
(* The worker.                                                              *)

Same == UNCHANGED <<share, saved, game, daemon, quitFor, left>>

\* The top of its loop.
Top ==
    /\ w.pc = "top"
    /\ seen' = TRUE
    /\ w' = CASE share = "quit" -> [w EXCEPT !.pc = "gone"]
              [] share = "off"  -> [w EXCEPT !.pc = "off"]
              [] OTHER -> [w EXCEPT !.pc = "connect"]
    /\ Same /\ UNCHANGED <<d, unseen, embargo>>

Woken ==
    /\ w.pc = "off" /\ ~seen
    /\ w' = [w EXCEPT !.pc = "top"]
    /\ Same /\ UNCHANGED <<seen, d, unseen, embargo>>

\* What follows the call that clears the activity: the connection is dropped.
\* A cancelled drive starts over at once, a failed one waits.
AfterClear(delay, failed, retry) ==
    IF failed THEN [Worker("wait", delay) EXCEPT !.timer = Most(delay, retry)]
    ELSE Worker("top", InitialDelay)

\* A call is written, if the connection still is one.
Written(disc, frame) ==
    IF disc.conn = "open" THEN [disc EXCEPT !.inbox = Append(@, frame), !.reply = "none"] ELSE disc

Call(frame, timer) == [w EXCEPT !.pc = "call", !.call = frame, !.timer = timer]

\* drive has ended: the activity is cleared, unless Discord rejected one or
\* there is no connection.
Clear(disc, failed) ==
    IF w.ipc
    THEN /\ w' = [Call(Set(Nothing), Clearing) EXCEPT !.pc = "clear", !.failed = failed]
         /\ d' = Written(disc, Set(Nothing))
    ELSE /\ w' = AfterClear(w.delay, failed, 0)
         /\ d' = disc

\* A changed preference cancels drive, which may leave its frame half written.
Interrupt ==
    /\ w.pc \in Driving /\ ~seen
    /\ \E torn \in BOOLEAN :
        /\ torn => w.pc = "call" /\ d.conn = "open" /\ d.inbox # <<>>
        /\ Clear(IF torn THEN [d EXCEPT !.inbox[Len(d.inbox)] = Torn] ELSE d, FALSE)
    /\ Same /\ UNCHANGED <<seen, unseen, embargo>>

\* Client::connect: a candidate accepts the connection and the handshake.
Accepts == d.up /\ ~d.slow /\ d.conn = "none"

Connect ==
    /\ w.pc = "connect" /\ Accepts
    /\ d' = [d EXCEPT !.conn = "open", !.reply = "none"]
    /\ w' = [Worker("fetch", w.delay) EXCEPT !.ipc = TRUE]
    /\ Same /\ UNCHANGED <<seen, unseen, embargo>>

ConnectFails ==
    /\ w.pc = "connect" /\ ~Accepts
    /\ Clear(d, TRUE)
    /\ Same /\ UNCHANGED <<seen, unseen, embargo>>

\* Updates::due
Due(a) == w.published # a /\ (w.last = Never \/ w.last >= Update)

\* Mutant: a failed fetch is not forgotten.
AnsweredOnly ==
    /\ w.pc = "fetch" /\ daemon
    /\ unseen' = 0
    /\ LET frame == IF Due(Activity) THEN Set(Activity) ELSE Ping
       IN  /\ w' = [Call(frame, Ipc) EXCEPT !.last = IF Due(Activity) THEN 0 ELSE @]
           /\ d' = Written(d, frame)
    /\ Same /\ UNCHANGED <<seen, embargo>>

\* The daemon answers with its runs.
Answered ==
    /\ w.pc = "fetch" /\ daemon
    /\ unseen' = 0
    /\ LET frame == IF Due(Activity) THEN Set(Activity) ELSE Ping
       IN  /\ w' = [Call(frame, Ipc) EXCEPT !.since = Never, !.last = IF Due(Activity) THEN 0 ELSE @]
           /\ d' = Written(d, frame)
    /\ Same /\ UNCHANGED <<seen, embargo>>

\* It does not: a sustained outage clears the activity.
Unanswered ==
    /\ w.pc = "fetch" /\ ~daemon
    /\ LET since == Most(w.since, 0)
           frame == IF since >= Update /\ w.published # Nothing THEN Set(Nothing) ELSE Ping
       IN  /\ w' = [Call(frame, Ipc) EXCEPT !.since = since]
           /\ d' = Written(d, frame)
    /\ Same /\ UNCHANGED <<seen, unseen, embargo>>

\* Mutant: a cleared activity still counts as published.
StillPublished == IF w.call \in {Ping, Set(Nothing)} THEN w.published ELSE w.call[2]

\* What a call that Discord accepted leaves published.
NowPublished == IF w.call = Ping THEN w.published ELSE w.call[2]

\* The reply with the call's nonce; replies to cancelled calls are read past.
Replied ==
    /\ w.pc = "call" /\ d.reply = "ok"
    /\ w' = [w EXCEPT !.pc = "sleep", !.timer = Poll, !.call = Nothing, !.published = NowPublished,
                      !.delay = IF w.since = Never THEN InitialDelay ELSE @]
    /\ Same /\ UNCHANGED <<seen, d, unseen, embargo>>

\* Discord rejected an activity: no clearing, and the wait it asks for.
Rejected ==
    /\ w.pc = "call" /\ d.reply = "rejected"
    /\ w' = AfterClear(w.delay, TRUE, RetryAfter)
    /\ d' = Hangup(d)
    /\ embargo' = IF seen THEN RetryAfter ELSE 0
    /\ Same /\ UNCHANGED <<seen, unseen>>

\* The call failed or took too long.
CallFails ==
    /\ w.pc = "call" /\ d.reply = "none"
    /\ TRUE \in {d.conn # "open", w.timer = 0}
    /\ Clear(d, TRUE)
    /\ Same /\ UNCHANGED <<seen, unseen, embargo>>

Slept ==
    /\ w.pc = "sleep" /\ w.timer = 0
    /\ w' = [w EXCEPT !.pc = "fetch"]
    /\ Same /\ UNCHANGED <<seen, d, unseen, embargo>>

\* The clearing call has come to whatever end.
Cleared ==
    /\ w.pc = "clear"
    /\ TRUE \in {d.conn # "open", d.reply # "none", w.timer = 0}
    /\ w' = AfterClear(w.delay, w.failed, 0)
    /\ d' = Hangup(d)
    /\ Same /\ UNCHANGED <<seen, unseen, embargo>>

\* Before it reconnects, the worker waits out its delay or a changed preference.
WaitOver == TRUE \in {w.timer = 0, ~seen}

Waited ==
    /\ w.pc = "wait" /\ WaitOver
    /\ w' = Worker("top", Least(2 * w.delay, MaxDelay))
    /\ Same /\ UNCHANGED <<seen, d, unseen, embargo>>

WorkerStep ==
    \/ Top \/ Woken \/ Interrupt \/ Connect \/ ConnectFails \/ Answered \/ Unanswered
    \/ Replied \/ Rejected \/ CallFails \/ Slept \/ Cleared \/ Waited
-----------------------------------------------------------------------------
(* Discord, the daemon and the game, external.                              *)

Gone(up) == [up |-> up, slow |-> FALSE, conn |-> "none", inbox |-> <<>>, shown |-> Nothing, reply |-> "none"]

\* Discord reads a frame; a torn one makes it close the connection.
Handle ==
    /\ d.inbox # <<>>
    /\ LET frame == Head(d.inbox)
           rest == Tail(d.inbox)
           say(r) == IF rest = <<>> /\ d.conn = "open" THEN r ELSE d.reply
       IN  \/ /\ frame = Torn
              /\ d' = [Gone(TRUE) EXCEPT !.slow = d.slow] /\ UNCHANGED left
           \/ /\ frame # Torn
              /\ d' = [d EXCEPT !.inbox = rest, !.reply = say("ok"),
                                !.shown = IF frame = Ping THEN @ ELSE frame[2]]
              /\ UNCHANGED left
           \/ /\ Rejections /\ frame \notin {Torn, Ping}
              /\ Spend("faults")
              /\ d' = [d EXCEPT !.inbox = rest, !.reply = say("rejected")]
    /\ UNCHANGED <<share, seen, saved, w, game, daemon, quitFor, unseen, embargo>>

\* It has read all there was on a closed connection.
Notice ==
    /\ d.conn = "closed" /\ d.inbox = <<>>
    /\ d' = [Gone(TRUE) EXCEPT !.slow = d.slow]
    /\ UNCHANGED <<share, seen, saved, w, game, daemon, quitFor, unseen, embargo, left>>

Fault ==
    /\ Spend("faults")
    /\ \/ d.up /\ d' = Gone(FALSE) /\ UNCHANGED daemon
       \/ d.up /\ ~d.slow /\ d' = [d EXCEPT !.slow = TRUE] /\ UNCHANGED daemon
       \/ daemon /\ daemon' = FALSE /\ UNCHANGED d
    /\ UNCHANGED <<share, seen, saved, w, game, quitFor, unseen, embargo>>

Resume ==
    /\ d.slow /\ d' = [d EXCEPT !.slow = FALSE]
    /\ UNCHANGED <<share, seen, saved, w, game, daemon, quitFor, unseen, embargo, left>>

Return ==
    /\ \/ ~d.up /\ d' = Gone(TRUE) /\ UNCHANGED daemon
       \/ ~daemon /\ daemon' = TRUE /\ UNCHANGED d
    /\ UNCHANGED <<share, seen, saved, w, game, quitFor, unseen, embargo, left>>

Play ==
    /\ Spend("changes")
    /\ game' \in [runs : SUBSET Runs, metrics : Metrics]
    /\ UNCHANGED <<share, seen, saved, w, d, daemon, quitFor, unseen, embargo>>

\* Nobody has a step to take that needs no time.
Idle ==
    /\ w.pc \in {"call", "clear", "sleep", "wait"} /\ w.timer > 0
    /\ w.pc \in {"call", "sleep"} => seen
    /\ w.pc = "wait" => ~WaitOver
    /\ w.pc \in {"call", "clear"} => d.reply = "none" /\ d.conn = "open"
    /\ d.up /\ ~d.slow => d.inbox = <<>> /\ d.conn # "closed"

Older(age) == IF age = Never THEN Never ELSE Least(age + 1, Update)

Tick ==
    /\ Idle
    /\ w' = [w EXCEPT !.timer = @ - 1, !.last = Older(@), !.since = Older(@)]
    /\ unseen' = Older(unseen) /\ embargo' = Most(embargo - 1, 0)
    /\ quitFor' = IF share = "quit" THEN Least(quitFor + 1, Stopping) ELSE quitFor
    /\ UNCHANGED <<share, seen, saved, d, game, daemon, left>>

\* Nothing is left to happen while sharing is off or the app is closed.
Rest == w.pc \in {"off", "unstarted"} /\ UNCHANGED vars

Next ==
    \/ SetEnabled \/ Start \/ Stop \/ Exit \/ Launch \/ WorkerStep
    \/ Handle \/ Notice \/ Fault \/ Resume \/ Return \/ Play \/ Tick \/ Rest

\* The app's code runs, time passes, and a running Discord that hangs comes
\* out of it; whether Discord or the daemon are started again is the player's.
Fairness ==
    /\ WF_vars(Start \/ Exit) /\ WF_vars(WorkerStep) /\ WF_vars(Tick)
    /\ WF_vars(Handle \/ Notice) /\ WF_vars(Resume)

Spec == Init /\ [][Next]_vars /\ Fairness
-----------------------------------------------------------------------------
\* What Discord shows once it has read what was written, were it to ignore
\* that the connection is closed.
Settled ==
    LET sets == {i \in DOMAIN d.inbox : d.inbox[i] \notin {Ping, Torn}}
    IN  CASE Torn \in {d.inbox[i] : i \in DOMAIN d.inbox} -> Nothing
          [] sets = {} -> d.shown
          [] OTHER -> d.inbox[CHOOSE i \in sets : \A j \in sets : j <= i][2]

\* "Turning it off clears presence immediately; quitting clears presence":
\* when the worker is off or gone, its last word to Discord took the activity
\* back, however its calls were cancelled, timed out or torn (worker).
OffClears == w.pc \in {"off", "gone"} => Settled = Nothing

\* Quitting never comes to aborting the worker: whatever it was doing, it is
\* gone before stop's patience ends, so that presence is cleared before the
\* daemon is stopped (stop, worker).
NeverAborted == quitFor = Stopping => w.pc \in Ended

\* "A brief daemon outage keeps the last activity": while sharing stays on the
\* activity is only taken back when the daemon has not answered for
\* UPDATE_INTERVAL (drive).
BriefOutageKept == (w.pc = "call" /\ w.call = Set(Nothing)) => unseen >= Update

\* After a rejection no activity is sent for as long as Discord asked, unless
\* the player changes the preference (worker's wait).
RetryRespected == embargo > 0 => (w.pc \in {"call", "clear"} => w.call[1] # "set")

\* Whatever came before, presence comes to what it should be: the activity of
\* the present runs while sharing is on, Discord runs and the daemon answers
\* ("presence returns when Discord does, without toggling sharing"); nothing
\* when sharing is off, the app is closed, or the daemon stays away.
Shared == share = "on" /\ d.up /\ daemon
PresenceSettles == <>[](d.shown = IF Shared THEN Activity ELSE Nothing)
=============================================================================
