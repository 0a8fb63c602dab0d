----------------------------- MODULE McpSettings -----------------------------
(***************************************************************************)
(* The daemon's settings and the MCP server they start and stop            *)
(* (services/dobjd: routes/settings.rs and mcp.rs; libs/driver:            *)
(* settings.rs).                                                           *)
(*                                                                         *)
(* A write loads the file, lays its patch over it, saves the whole and     *)
(* reconciles the server: PUT /settings reconciles and then saves, the MCP *)
(* tool saves, answers, and reconciles in the background.  Only reconciling*)
(* takes a lock.  Of the settings the model keeps mcpEnabled and cpuUsage; *)
(* the URLs are stored the same way and nothing acts on them.              *)
(***************************************************************************)
EXTENDS Naturals, FiniteSets

CONSTANTS Writers,      \* the requests that write settings
          Kinds,        \* of them: a subset of {"put", "mcp"}
          Overlap,      \* whether one is sent before the last is answered
          MaxKills, MaxTaken    \* bounds: ends of the daemon, foreign uses of the port

VARIABLES up,        \* the daemon
          file,      \* settings.json
          port,      \* who has the MCP port: "nobody" | "dobjd" | "other"
          server,    \* `running': "stopped" | "serving" | "stopping"
          lock,      \* the writer that holds its lock
          cpu,       \* the level the proving threads run at
          pc, req,   \* the writers
          left

vars == <<up, file, port, server, lock, cpu, pc, req, left>>

NoOne == "no one"
Torn == [mcp |-> "torn", cpu |-> 0]
Settings == [mcp : {"on", "off"}, cpu : 1..2]
Patches == [mcp : {"on", "off", "keep"}, cpu : 0..2]      \* "keep" and 0: omitted

Blank == [kind |-> "put", patch |-> [mcp |-> "keep", cpu |-> 0], merged |-> Torn]

\* Writers with an answer still to come, and the ones that are done.
Answerless == {"load", "truncate", "write", "level", "acquire", "drain"}
Done(x) == pc[x] \in {"idle", "saved", "failed"}

TypeOK ==
    /\ up \in BOOLEAN /\ file \in Settings \cup {Torn}
    /\ port \in {"nobody", "dobjd", "other"} /\ server \in {"stopped", "serving", "stopping"}
    /\ lock \in Writers \cup {NoOne} /\ cpu \in 1..2

Init ==
    /\ up = TRUE /\ file \in Settings /\ cpu = file.cpu
    /\ server = IF file.mcp = "on" THEN "serving" ELSE "stopped"
    /\ port = IF file.mcp = "on" THEN "dobjd" ELSE "nobody"
    /\ lock = NoOne
    /\ pc = [x \in Writers |-> "idle"] /\ req = [x \in Writers |-> Blank]
    /\ left = [kills |-> MaxKills, taken |-> MaxTaken]

Go(x, to) == pc' = [pc EXCEPT ![x] = to]
-----------------------------------------------------------------------------
\* A request arrives; over MCP only while that is served.
Ask(x, kind, patch) ==
    /\ up /\ pc[x] = "idle"
    /\ kind = "mcp" => server = "serving"
    /\ Overlap \/ \A y \in Writers : pc[y] \notin Answerless
    /\ Go(x, "load")
    /\ req' = [req EXCEPT ![x] = [kind |-> kind, patch |-> patch, merged |-> Torn]]
    /\ UNCHANGED <<up, file, port, server, lock, cpu, left>>

\* DriverSettingsPatch::apply_to
Merge(patch, base) ==
    [mcp |-> IF patch.mcp = "keep" THEN base.mcp ELSE patch.mcp,
     cpu |-> IF patch.cpu = 0 THEN base.cpu ELSE patch.cpu]

\* Where a write goes once it has merged its patch, reconciled, and saved.
After(stage, kind) ==
    CASE stage = "merged" -> (IF kind = "put" THEN "acquire" ELSE "truncate")
      [] stage = "saved" -> (IF kind = "put" THEN "saved" ELSE "apply")
      [] stage = "applied" -> (IF kind = "put" THEN "truncate" ELSE "saved")

\* load_settings: a file that another write has truncated does not parse.
Load(x) ==
    /\ pc[x] = "load"
    /\ IF file = Torn THEN Go(x, "failed") /\ UNCHANGED req
       ELSE /\ Go(x, After("merged", req[x].kind))
            /\ req' = [req EXCEPT ![x].merged = Merge(req[x].patch, file)]
    /\ UNCHANGED <<up, file, port, server, lock, cpu, left>>

\* write_settings: fs::write truncates, then writes.
Truncate(x) ==
    /\ pc[x] = "truncate"
    /\ file' = Torn /\ Go(x, "write")
    /\ UNCHANGED <<up, port, server, lock, cpu, req, left>>

Write(x) ==
    /\ pc[x] = "write"
    /\ file' = req[x].merged /\ Go(x, "level")
    /\ UNCHANGED <<up, port, server, lock, cpu, req, left>>

\* apply_cpu_usage: the platform may refuse to raise the level.
Level(x) ==
    /\ pc[x] = "level"
    /\ cpu' \in {req[x].merged.cpu} \cup (IF req[x].merged.cpu > cpu THEN {cpu} ELSE {})
    /\ Go(x, After("saved", req[x].kind))
    /\ UNCHANGED <<up, file, port, server, lock, req, left>>
-----------------------------------------------------------------------------
(* McpRuntime::apply.  In the background ("apply") its outcome is only      *)
(* logged.                                                                  *)

Reconciling(x) == pc[x] \in {"acquire", "apply"}

\* The shutdown is waited for with the lock held.
Holder(x) == x

Outcome(x, ok) ==
    IF ok THEN Go(x, After("applied", req[x].kind)) ELSE Go(x, "failed")

\* The setting is in effect already.
AsWanted(x) ==
    /\ Reconciling(x) /\ lock = NoOne
    /\ req[x].merged.mcp = (IF server = "serving" THEN "on" ELSE "off")
    /\ Outcome(x, TRUE)
    /\ UNCHANGED <<up, file, port, server, lock, cpu, req, left>>

\* Enable: bind the port and serve.
Enable(x) ==
    /\ Reconciling(x) /\ lock = NoOne
    /\ req[x].merged.mcp = "on" /\ server # "serving"
    /\ Outcome(x, port = "nobody")
    /\ IF port = "nobody" THEN port' = "dobjd" /\ server' = "serving" ELSE UNCHANGED <<port, server>>
    /\ UNCHANGED <<up, file, lock, cpu, req, left>>

\* Disable: cancel the server and wait for it to end.
Cancel(x) ==
    /\ Reconciling(x) /\ lock = NoOne
    /\ req[x].merged.mcp = "off" /\ server = "serving"
    /\ server' = "stopping" /\ lock' = Holder(x)
    /\ pc' = [pc EXCEPT ![x] = IF pc[x] = "apply" THEN "drainLater" ELSE "drain"]
    /\ UNCHANGED <<up, file, port, cpu, req, left>>

\* The server ends by itself or, after SHUTDOWN_GRACE, is aborted.
Ends(x, aborted) == aborted \in BOOLEAN

Drained(x, aborted) ==
    /\ pc[x] \in {"drain", "drainLater"} /\ Ends(x, aborted)
    /\ server' = "stopped" /\ lock' = NoOne
    /\ port' = "nobody"
    /\ Outcome(x, TRUE)
    /\ UNCHANGED <<up, file, cpu, req, left>>
-----------------------------------------------------------------------------
(* The daemon ends and is started again; another program uses the port.     *)

Kill ==
    /\ up /\ left.kills > 0
    /\ left' = [left EXCEPT !.kills = @ - 1]
    /\ up' = FALSE /\ server' = "stopped" /\ lock' = NoOne
    /\ port' = IF port = "dobjd" THEN "nobody" ELSE port
    /\ pc' = [x \in Writers |-> IF Done(x) THEN pc[x] ELSE "failed"]
    /\ UNCHANGED <<file, cpu, req>>

\* main: nothing is served before the settings are applied, and a port that
\* is taken, or a file that does not parse, ends it.
Boot ==
    /\ ~up /\ file # Torn
    /\ file.mcp = "on" => port = "nobody"
    /\ up' = TRUE /\ cpu' = file.cpu
    /\ server' = IF file.mcp = "on" THEN "serving" ELSE "stopped"
    /\ port' = IF file.mcp = "on" THEN "dobjd" ELSE port
    /\ UNCHANGED <<file, lock, pc, req, left>>

Take ==
    /\ port = "nobody" /\ left.taken > 0
    /\ port' = "other" /\ left' = [left EXCEPT !.taken = @ - 1]
    /\ UNCHANGED <<up, file, server, lock, cpu, pc, req>>

Free ==
    /\ port = "other" /\ port' = "nobody"
    /\ UNCHANGED <<up, file, server, lock, cpu, pc, req, left>>

Rest == (\A x \in Writers : Done(x)) /\ UNCHANGED vars

WriterStep(x) ==
    \/ Load(x) \/ Truncate(x) \/ Write(x) \/ Level(x)
    \/ AsWanted(x) \/ Enable(x) \/ Cancel(x)
    \/ \E aborted \in BOOLEAN : Drained(x, aborted)

Next ==
    \/ \E x \in Writers, kind \in Kinds, patch \in Patches : Ask(x, kind, patch)
    \/ \E x \in Writers : WriterStep(x)
    \/ Kill \/ Boot \/ Take \/ Free \/ Rest

\* Handlers run; a session may linger, but SHUTDOWN_GRACE passes.  The lock is
\* a fair one (tokio::sync::Mutex), and a lock that is let go again and again
\* is let go for good here, for every writer takes it once.
Fairness ==
    \A x \in Writers :
        /\ WF_vars(Load(x) \/ Truncate(x) \/ Write(x) \/ Level(x) \/ AsWanted(x) \/ Enable(x) \/ Cancel(x))
        /\ WF_vars(Drained(x, TRUE))

Spec == Init /\ [][Next]_vars /\ Fairness
-----------------------------------------------------------------------------
\* Saved settings are in effect "on the spot": with every write done, the MCP
\* server is served exactly when mcpEnabled is saved as on, and proving runs at
\* the saved level, or below it where the platform refused to raise it
\* (put_settings, write_settings).
InEffect ==
    (up /\ \A x \in Writers : Done(x)) =>
        (file.mcp = "on") = (server = "serving") /\ cpu <= file.cpu

\* Enabling only fails for another program: the daemon never runs into the port
\* its own server still holds, and a stopped server holds none (apply).
NoSelfConflict ==
    /\ \A x \in Writers :
        (Reconciling(x) /\ lock = NoOne /\ req[x].merged.mcp = "on" /\ server # "serving") => port # "dobjd"
    /\ server = "stopped" => port # "dobjd"

\* Every write is answered, and its reconciling ends, whatever the sessions of
\* the server it stops do (apply's SHUTDOWN_GRACE).
AnswerComes == \A x \in Writers : pc[x] = "load" ~> Done(x)
=============================================================================
