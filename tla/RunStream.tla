------------------------------ MODULE RunStream ------------------------------
(***************************************************************************)
(* One run of dobjd as its followers see it: the progress log and stage     *)
(* intervals its worker keeps (services/dobjd/src/runs.rs), the per-run SSE *)
(* stream that replays and tails the log (routes/actions.rs), and the       *)
(* `dobj' command that follows the stream and falls back to polling         *)
(* (interfaces/cli/src/runs.rs).                                            *)
(***************************************************************************)
EXTENDS Naturals, Sequences, FiniteSets

CONSTANTS
    Followers,   \* dobj commands that follow the run
    Channel,     \* events the channel to a follower's connection holds
    MaxLog,      \* progress events after which the worker repeats none
    MaxFaults    \* lost connections and failed requests

VARIABLES
    run,         \* the registry's entry
    worker,      \* the stage the worker is in, or how it ended
    registry,    \* where the entry is: "held", "reaped", or "gone" with the daemon
    conn,        \* a follower's connection, as the daemon's task and the wire hold it
    cli,         \* a follower
    faults

vars == <<run, worker, registry, conn, cli, faults>>

\* A run is given up on after this many consecutive errors.
GiveUp == 5

Terminal(s) == s \in {"succeeded", "failed"}
Last(s) == s[Len(s)]
-----------------------------------------------------------------------------
(* The registry's entry: RunInner. *)

NewEntry == [status |-> "queued", log |-> <<>>, timings |-> <<>>, started |-> FALSE,
             outcome |-> "none"]

finish_stage(r, status) ==
    IF r.started
    THEN [r EXCEPT !.started = FALSE, !.timings[Len(r.timings)].status = status]
    ELSE r

\* The same stage goes on; another one ends the interval and starts its own.
begin_stage(r, stage) ==
    IF r.started /\ Last(r.timings).stage = stage
    THEN r
    ELSE [finish_stage(r, "done") EXCEPT
            !.started = TRUE,
            !.timings = Append(@, [stage |-> stage, status |-> "running"])]

push_progress(r, e) ==
    LET begun == IF e.stage = "none" THEN r ELSE begin_stage(r, e.stage)
        ended == IF e.status = "running" THEN begun ELSE finish_stage(begun, e.status)
    IN  [ended EXCEPT !.status = e.phase, !.log = Append(@, e)]

succeed(r) == [finish_stage(r, "done") EXCEPT !.status = "succeeded", !.outcome = "landed"]

\* A run that fails before its first event is reported against the proof.
fail(r) ==
    LET phase == IF r.status = "commit" THEN "commit" ELSE "generate"
        stage == IF r.started THEN Last(r.timings).stage ELSE "none"
    IN  [finish_stage(r, "failed") EXCEPT
            !.log = Append(@, [phase |-> phase, status |-> "failed", stage |-> stage]),
            !.status = "failed", !.outcome = "error"]

Finished == Terminal(run.status)

\* events_from: what is in the log from index `from' (the first is 0) on, and
\* whether there will be more.
events_from(from) == [i \in 1..(IF from < Len(run.log) THEN Len(run.log) - from ELSE 0) |-> from + i - 1]
-----------------------------------------------------------------------------
(* The worker: a run proves, records, submits and follows its transaction,  *)
(* and reports each step. *)

\* The step after each step: the stages of proving alternate building and
\* mining, a refused submission is tried again, and waiting reports failures.
After(s) ==
    CASE s = "queued"     -> {"verifying"}
      [] s = "verifying"  -> {"loading"}
      [] s = "loading"    -> {"building"}
      [] s = "building"   -> {"mining", "solving"}
      [] s = "mining"     -> {"building"}
      [] s = "solving"    -> {"proving"}
      [] s = "proving"    -> {"proved"}
      [] s = "proved"     -> {"shrinking"}
      [] s = "shrinking"  -> {"writing"}
      [] s = "writing"    -> {"recorded"}
      [] s = "recorded"   -> {"submitting"}
      [] s = "submitting" -> {"submitting", "awaiting"}
      [] s = "awaiting"   -> {"awaiting", "landed"}
      [] OTHER            -> {}

Event(s) ==
    CASE s = "proved"   -> [phase |-> "generate", status |-> "done", stage |-> "none"]
      [] s = "landed"   -> [phase |-> "commit", status |-> "done", stage |-> "none"]
      [] s = "recorded" -> [phase |-> "commit", status |-> "running", stage |-> "writing"]
      [] s \in {"shrinking", "writing", "submitting", "awaiting"} ->
            [phase |-> "commit", status |-> "running", stage |-> s]
      [] OTHER -> [phase |-> "generate", status |-> "running", stage |-> s]

\* Past the bound the worker goes on without repeating a stage.
Onwards(s) == IF Len(run.log) < MaxLog THEN After(s) ELSE After(s) \ {s, "mining"}

Step ==
    /\ registry = "held" /\ worker \notin {"ended", "landed"}
    /\ \E s \in Onwards(worker) :
        /\ worker' = s
        /\ run' = push_progress(run, Event(s))
    /\ UNCHANGED <<registry, conn, cli, faults>>

\* finish_landed: the Done event, then, under the lock again, the outcome.
Succeed ==
    /\ registry = "held" /\ worker = "landed"
    /\ run' = succeed(run)
    /\ worker' = "ended"
    /\ UNCHANGED <<registry, conn, cli, faults>>

\* finish_failure: an error or a panic of any step, or an expired transaction.
Fail ==
    /\ registry = "held" /\ worker \notin {"ended", "landed"}
    /\ run' = fail(run)
    /\ worker' = "ended"
    /\ UNCHANGED <<registry, conn, cli, faults>>

\* The reaper drops a finished run; tasks that stream it keep it alive.
Reap ==
    /\ registry = "held" /\ Finished
    /\ registry' = "reaped"
    /\ UNCHANGED <<run, worker, conn, cli, faults>>
-----------------------------------------------------------------------------
(* The stream: a task per connection, and the channel and socket to its     *)
(* follower, whose events are indexes of the log. *)

NoConn == [on |-> FALSE, polled |-> FALSE, next |-> 0, batch |-> <<>>, terminal |-> FALSE,
           wire |-> <<>>, ended |-> FALSE]

resume_start_index_again(last) == last
\* Last-Event-ID is absent, 0 here, before the first event.
resume_start_index(last) == last + 1

\* run_events, up to the response.
Opened(f) == [NoConn EXCEPT !.on = TRUE, !.next = IF cli[f].seen = 0 THEN 0
                                          ELSE resume_start_index(cli[f].seen - 1)]

\* The loop reads the log and the terminal flag in one go ...
Poll(f) ==
    LET c == conn[f] IN
    /\ c.on /\ ~c.ended /\ ~c.polled
    /\ conn' = [conn EXCEPT ![f].polled = TRUE, ![f].batch = events_from(c.next),
                            ![f].terminal = Finished]
    /\ UNCHANGED <<run, worker, registry, cli, faults>>

\* ... sends what it read, as the channel has room ...
Send(f) ==
    LET c == conn[f] IN
    /\ c.on /\ c.polled /\ c.batch # <<>> /\ Len(c.wire) < Channel
    /\ conn' = [conn EXCEPT ![f].wire = Append(@, Head(c.batch)), ![f].batch = Tail(@),
                            ![f].next = Head(c.batch) + 1]
    /\ UNCHANGED <<run, worker, registry, cli, faults>>

\* ... and ends the stream if the run had finished when it read.
Tick(f) ==
    LET c == conn[f] IN
    /\ c.on /\ ~c.ended /\ c.polled /\ c.batch = <<>>
    /\ conn' = [conn EXCEPT ![f].polled = FALSE, ![f].ended = c.terminal]
    /\ UNCHANGED <<run, worker, registry, cli, faults>>
-----------------------------------------------------------------------------
(* The command: follow_inner. *)

NewCli == [pc |-> "start", seen |-> 0, got |-> <<>>, failures |-> 0, answer |-> "none"]

\* GET /runs/{id}: the snapshot, or an error when the run is unknown or the
\* request fails.
Answered == registry = "held"
RequestFails == registry # "held" \/ faults < MaxFaults
Charged == faults' = IF registry # "held" THEN faults ELSE faults + 1

Return(f, answer) ==
    /\ cli' = [cli EXCEPT ![f].pc = "returned", ![f].answer = answer]
    /\ conn' = [conn EXCEPT ![f] = NoConn]
Goto(f, pc, failures) == cli' = [cli EXCEPT ![f].pc = pc, ![f].failures = failures]

\* The first read: an error ends the command.
Start(f) ==
    /\ cli[f].pc = "start"
    /\ \/ /\ Answered /\ Finished /\ Return(f, run.outcome)
          /\ UNCHANGED faults
       \/ /\ Answered /\ ~Finished /\ Goto(f, "connect", 0)
          /\ UNCHANGED <<conn, faults>>
       \/ /\ RequestFails /\ Charged /\ Return(f, "lost")
    /\ UNCHANGED <<run, worker, registry>>

\* A daemon that is down cannot be reached; one that is back, or has reaped the
\* run, answers 404, which closes the event source.
Rejection == CASE registry = "held"   -> {"broken"}
               [] registry = "reaped" -> {"refused"}
               [] registry = "gone"   -> {"broken", "refused"}

\* The event source connects, again after each failure, with the id of the last
\* event it has seen; a run that is unknown by now is an error of its own.
Connect(f) ==
    /\ cli[f].pc = "connect"
    /\ \/ /\ registry = "held"
          /\ conn' = [conn EXCEPT ![f] = Opened(f)]
          /\ Goto(f, "stream", cli[f].failures)
          /\ UNCHANGED faults
       \/ /\ RequestFails /\ Charged
          /\ \E why \in Rejection : cli' = [cli EXCEPT ![f].pc = why]
          /\ UNCHANGED conn
    /\ UNCHANGED <<run, worker, registry>>

Receive(f) ==
    /\ cli[f].pc = "stream" /\ conn[f].wire # <<>>
    /\ cli' = [cli EXCEPT ![f].seen = Head(conn[f].wire) + 1,
                          ![f].got = Append(@, Head(conn[f].wire)), ![f].failures = 0]
    /\ conn' = [conn EXCEPT ![f].wire = Tail(@)]
    /\ UNCHANGED <<run, worker, registry, faults>>

\* The connection is lost, with what it still carried.
Drop(f) ==
    /\ cli[f].pc = "stream" /\ faults < MaxFaults
    /\ faults' = faults + 1
    /\ conn' = [conn EXCEPT ![f] = NoConn]
    /\ cli' = [cli EXCEPT ![f].pc = "broken"]
    /\ UNCHANGED <<run, worker, registry>>

EndOfStream(f) ==
    /\ cli[f].pc = "stream" /\ conn[f].ended /\ conn[f].wire = <<>>
    /\ conn' = [conn EXCEPT ![f] = NoConn]
    /\ cli' = [cli EXCEPT ![f].pc = "ended"]
    /\ UNCHANGED <<run, worker, registry, faults>>

\* An error of the stream prompts a read.  Without a terminal answer, an ended
\* stream, a refused connection and the fifth failure leave the stream.
Interrupted(f) ==
    LET leave == cli[f].pc \in {"ended", "refused"} \/ cli[f].failures + 1 >= GiveUp
        onward == IF leave THEN Goto(f, "poll", 0)
                  ELSE Goto(f, "connect", cli[f].failures + 1)
    IN
    /\ cli[f].pc \in {"broken", "ended", "refused"}
    /\ \/ /\ Answered /\ Finished /\ Return(f, run.outcome)
          /\ UNCHANGED faults
       \/ /\ Answered /\ ~Finished /\ onward
          /\ UNCHANGED <<conn, faults>>
       \/ /\ RequestFails /\ Charged /\ onward
          /\ UNCHANGED conn
    /\ UNCHANGED <<run, worker, registry>>

PollState_patient(f) ==
    /\ cli[f].pc = "poll"
    /\ \/ /\ Answered /\ Finished /\ Return(f, run.outcome)
          /\ UNCHANGED faults
       \/ /\ ~(Answered /\ Finished) /\ Goto(f, "poll", 0)
          /\ UNCHANGED <<conn, faults>>
    /\ UNCHANGED <<run, worker, registry>>

PollState(f) ==
    /\ cli[f].pc = "poll"
    /\ \/ /\ Answered /\ Finished /\ Return(f, run.outcome)
          /\ UNCHANGED faults
       \/ /\ Answered /\ ~Finished /\ Goto(f, "poll", 0)
          /\ UNCHANGED <<conn, faults>>
       \/ /\ RequestFails /\ Charged
          /\ IF cli[f].failures + 1 >= GiveUp
             THEN Return(f, "lost")
             ELSE Goto(f, "poll", cli[f].failures + 1) /\ UNCHANGED conn
    /\ UNCHANGED <<run, worker, registry>>

\* The daemon stops: its runs, their workers and connections are gone.  A
\* connected follower sees its connection break.
Stop ==
    /\ registry = "held" /\ faults < MaxFaults
    /\ faults' = faults + 1
    /\ registry' = "gone"
    /\ conn' = [f \in Followers |-> NoConn]
    /\ cli' = [f \in Followers |->
                IF cli[f].pc = "stream" THEN [cli[f] EXCEPT !.pc = "broken"] ELSE cli[f]]
    /\ UNCHANGED <<run, worker>>
-----------------------------------------------------------------------------
Init ==
    /\ run = NewEntry /\ worker = "queued" /\ registry = "held"
    /\ conn = [f \in Followers |-> NoConn]
    /\ cli = [f \in Followers |-> NewCli]
    /\ faults = 0

Worker == Step \/ Succeed \/ Fail
Task(f) == Poll(f) \/ Send(f) \/ Tick(f)
Command(f) ==
    Start(f) \/ Connect(f) \/ Receive(f) \/ EndOfStream(f) \/ Interrupted(f) \/ PollState(f)

\* A command that has returned leaves the system at rest.
Done == \A f \in Followers : cli[f].pc = "returned"

Next ==
    \/ Worker \/ Reap \/ Stop
    \/ \E f \in Followers : Task(f) \/ Command(f) \/ Drop(f)
    \/ Done /\ UNCHANGED vars

\* The worker ends (Dobjd's RunsFinish), and tasks and commands are scheduled.
Fairness ==
    /\ WF_vars(Worker)
    /\ \A f \in Followers : WF_vars(Task(f)) /\ WF_vars(Command(f))

Spec == Init /\ [][Next]_vars /\ Fairness
-----------------------------------------------------------------------------
TypeOK ==
    /\ run.status \in {"queued", "generate", "commit", "succeeded", "failed"}
    /\ run.outcome \in {"none", "landed", "error"}
    /\ registry \in {"held", "reaped", "gone"}
    /\ faults \in 0..MaxFaults
    /\ \A f \in Followers :
        /\ cli[f].pc \in {"start", "connect", "stream", "broken", "ended", "refused", "poll", "returned"}
        /\ cli[f].failures \in 0..(GiveUp - 1)
        /\ cli[f].answer \in {"none", "landed", "error", "lost"}
        /\ Len(conn[f].wire) <= Channel

\* Across lost connections and reconnects a follower receives the events of the
\* log in order, each of them once: Last-Event-ID resumes just past the last one
\* it has seen (run_events).
EachEventOnce ==
    \A f \in Followers : cli[f].got = [i \in 1..Len(cli[f].got) |-> i - 1]

\* A stream ends only when the run has finished and its whole log has been
\* received: the last poll reads the log and the terminal flag under one lock.
EndsComplete ==
    \A f \in Followers : cli[f].pc = "ended" => Finished /\ Len(cli[f].got) = Len(run.log)

\* `dobj' reports the outcome the run had, or that it lost contact, and says the
\* run failed only of a run that has failed.
AnswerIsOutcome ==
    \A f \in Followers : cli[f].answer \in {"landed", "error"} =>
                            Finished /\ cli[f].answer = run.outcome

\* "Completed intervals ... freeze when the run finishes. Errors and worker panics
\* mark the active interval failed" (dobjd README): no two intervals are open, an
\* open one is the last, and only the interval in which a run failed is failed.
IntervalsClosed ==
    \A i \in DOMAIN run.timings :
        LET t == run.timings[i] IN
        /\ t.status = "running" <=> i = Len(run.timings) /\ run.started
        /\ t.status = "failed" => i = Len(run.timings) /\ run.status = "failed"
        /\ t.status = "running" => ~Finished

\* A browser closes its stream at the event that says the run failed or landed
\* (isTerminalRunProgress) and would otherwise reconnect for ever: every finished
\* run has that event, as its last and only one.
OneLastEvent ==
    LET Closing(e) == e.status = "failed" \/ (e.phase = "commit" /\ e.status = "done") IN
    /\ Finished => run.log # <<>> /\ Closing(Last(run.log))
    /\ \A i \in DOMAIN run.log : Closing(run.log[i]) => i = Len(run.log)

\* Every command that follows a run returns.
CommandReturns == \A f \in Followers : <>(cli[f].pc = "returned")
=============================================================================
