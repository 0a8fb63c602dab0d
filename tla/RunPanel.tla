------------------------------ MODULE RunPanel ------------------------------
(***************************************************************************)
(* The proof panel of the browser GUI (interfaces/gui/src/shared/state/     *)
(* store.ts): one panel, and a runProof call for every press of a Run       *)
(* button, each with a POST, a stream of its run's events and a poll of its *)
(* state under way at the same time.  What the stream delivers, and that it *)
(* delivers it in order, is RunStream's; the events are told apart here as  *)
(* far as the panel does.                                                   *)
(***************************************************************************)
EXTENDS Naturals, Sequences, FiniteSets

CONSTANTS
    Calls,       \* presses of a Run button; an accepted one's run has its name
    NoRun,
    MaxFaults    \* requests that fail, and runs the daemon forgets

VARIABLES
    run,         \* dobjd: the run of each call, "none" before it is accepted
    log,         \* its progress log
    call,        \* each runProof call
    proof,       \* the panel
    faults

vars == <<run, log, call, proof, faults>>

MaxErrors == 5   \* MAX_CONSECUTIVE_RUN_POLL_ERRORS

InProgress == proof.status \in {"generating", "committing"}
Terminal(p) == p.status \in {"summary", "error"}
Running == InProgress \/ proof.status = "summary"      \* proofRunning: the buttons are off

Closing == {"landed", "failed"}
Has(r, e) == \E i \in DOMAIN log[r] : log[r][i] = e
Following(r) == call[r].pc = "following"
-----------------------------------------------------------------------------
(* dobjd, as far as a panel sees it. *)

\* A run's next event.  The one that says it landed comes before its outcome.
Progress(r) ==
    /\ run[r] = "active" /\ ~Has(r, "landed")
    /\ \E e \in {"generate", "commit", "landed", "failed"} :
        /\ ~Has(r, e)
        /\ e = "generate" => ~Has(r, "commit")
        /\ e = "landed" => Has(r, "commit")
        /\ log' = [log EXCEPT ![r] = Append(@, e)]
        /\ run' = [run EXCEPT ![r] = IF e = "failed" THEN "failed" ELSE @]
    /\ UNCHANGED <<call, proof, faults>>

Succeed(r) ==
    /\ run[r] = "active" /\ Has(r, "landed")
    /\ run' = [run EXCEPT ![r] = "succeeded"]
    /\ UNCHANGED <<log, call, proof, faults>>

\* A restart or the reaper: the daemon does not know the run any more.
Forget(r) ==
    /\ run[r] \in {"active", "succeeded", "failed"} /\ faults < MaxFaults
    /\ faults' = faults + 1
    /\ run' = [run EXCEPT ![r] = "unknown"]
    /\ UNCHANGED <<log, call, proof>>
-----------------------------------------------------------------------------
(* The store's operations on the panel. *)

Idle == [run |-> NoRun, status |-> "idle", generate |-> "none", commit |-> "none"]

initProofPanel(p, r) ==
    IF p.status \in {"generating", "committing", "summary"} THEN p
    ELSE [run |-> r, status |-> "generating", generate |-> "pending", commit |-> "pending"]

finishProof(p) ==
    IF Terminal(p) THEN p
    ELSE [p EXCEPT !.status = "summary", !.generate = "done", !.commit = "done"]

failProof(p) == IF Terminal(p) THEN p ELSE [p EXCEPT !.status = "error"]

resetProofPanel(p, r) == IF p.run # r THEN p ELSE Idle

\* An event of another run than the panel's, or after the outcome, is ignored.
applyRunActionProgress(p, r, e) ==
    IF p.run # r \/ Terminal(p) THEN p
    ELSE CASE e = "failed"   -> failProof(p)
           [] e = "landed"   -> finishProof(p)
           [] e = "commit"   -> [p EXCEPT !.status = "committing", !.commit = "running"]
           [] e = "generate" -> [p EXCEPT !.status = "generating", !.generate = "running"]
-----------------------------------------------------------------------------
(* runProof *)

NewCall == [pc |-> "idle", prev |-> NoRun, next |-> 1, stream |-> FALSE, errors |-> 0]

\* A button is pressed.  The panel still shows what it showed.
Press(r) ==
    /\ call[r].pc = "idle" /\ ~Running
    /\ call' = [call EXCEPT ![r].pc = "starting", ![r].prev = proof.run]
    /\ UNCHANGED <<run, log, proof, faults>>

\* POST /runs reaches the daemon, which starts the run at once.
Accept(r) ==
    /\ call[r].pc = "starting" /\ run[r] = "none"
    /\ run' = [run EXCEPT ![r] = "active"]
    /\ UNCHANGED <<log, call, proof, faults>>

\* Its answer arrives: the panel is the run's if it is free, and the run's
\* stream and poll begin either way.
Accepted(r) ==
    /\ call[r].pc = "starting" /\ run[r] # "none"
    /\ proof' = initProofPanel(proof, r)
    /\ call' = [call EXCEPT ![r].pc = "following", ![r].stream = TRUE]
    /\ UNCHANGED <<run, log, faults>>

\* Or it does not, whether or not the run was started: the error is shown only
\* where the call found the panel, and only if that is not a run's by now.
StartFails(r) ==
    /\ call[r].pc = "starting" /\ faults < MaxFaults
    /\ faults' = faults + 1
    /\ call' = [call EXCEPT ![r].pc = "over"]
    /\ proof' = IF proof.run # call[r].prev \/ proof.status \notin {"idle", "error"}
                THEN proof ELSE [Idle EXCEPT !.status = "error"]
    /\ UNCHANGED <<run, log>>

\* listenRunActionProgressForRun: the next event; the last one closes the stream.
StreamEvent(r) ==
    /\ Following(r) /\ call[r].stream /\ call[r].next <= Len(log[r]) /\ run[r] # "unknown"
    /\ LET e == log[r][call[r].next] IN
       /\ proof' = applyRunActionProgress(proof, r, e)
       /\ call' = [call EXCEPT ![r].next = @ + 1, ![r].stream = e \notin Closing]
    /\ UNCHANGED <<run, log, faults>>

\* The end of runProof: the stream is closed, and a summary stays for a while.
Finally(r, p) ==
    call' = [call EXCEPT ![r].stream = FALSE, ![r].errors = 0,
                         ![r].pc = IF p.run = r /\ p.status = "summary" THEN "hold" ELSE "over"]

\* pollRunToTerminal.
PollAnswer(r) ==
    /\ Following(r) /\ run[r] \in {"succeeded", "failed"}
    /\ LET p == IF proof.run # r THEN proof
                ELSE IF run[r] = "succeeded" THEN finishProof(proof) ELSE failProof(proof)
       IN  proof' = p /\ Finally(r, p)
    /\ UNCHANGED <<run, log, faults>>

PollAgain(r) ==
    /\ Following(r) /\ run[r] = "active" /\ call[r].errors # 0
    /\ call' = [call EXCEPT ![r].errors = 0]
    /\ UNCHANGED <<run, log, proof, faults>>

\* An error is borne until the fifth in a row: the run may still complete.
PollError(r) ==
    /\ Following(r) /\ (run[r] = "unknown" \/ faults < MaxFaults)
    /\ faults' = IF run[r] = "unknown" THEN faults ELSE faults + 1
    /\ IF call[r].errors + 1 < MaxErrors
       THEN call' = [call EXCEPT ![r].errors = @ + 1] /\ UNCHANGED proof
       ELSE LET p == IF proof.run = r THEN failProof(proof) ELSE proof
            IN  proof' = p /\ Finally(r, p)
    /\ UNCHANGED <<run, log>>

\* After postDoneHoldMs.
Release(r) ==
    /\ call[r].pc = "hold"
    /\ proof' = resetProofPanel(proof, r)
    /\ call' = [call EXCEPT ![r].pc = "over"]
    /\ UNCHANGED <<run, log, faults>>
-----------------------------------------------------------------------------
Init ==
    /\ run = [r \in Calls |-> "none"] /\ log = [r \in Calls |-> <<>>]
    /\ call = [r \in Calls |-> NewCall]
    /\ proof = Idle
    /\ faults = 0

Daemon(r) == Accept(r) \/ Progress(r) \/ Succeed(r)
Stream(r) == StreamEvent(r)
RunProof(r) == Accepted(r) \/ PollAnswer(r) \/ PollAgain(r) \/ PollError(r) \/ Release(r)
AtRest == \A r \in Calls : call[r].pc \in {"idle", "over"}   \* nobody need press a button

Next ==
    \/ \E r \in Calls : Press(r) \/ Daemon(r) \/ Forget(r) \/ StartFails(r) \/ Stream(r) \/ RunProof(r)
    \/ AtRest /\ UNCHANGED vars

\* The daemon ends every run it knows (RunsFinish of Dobjd), and answers; the
\* browser's timers and callbacks run.
Fairness ==
    \A r \in Calls : WF_vars(Daemon(r)) /\ WF_vars(Stream(r)) /\ WF_vars(RunProof(r))

Spec == Init /\ [][Next]_vars /\ Fairness
-----------------------------------------------------------------------------
TypeOK ==
    /\ run \in [Calls -> {"none", "active", "succeeded", "failed", "unknown"}]
    /\ proof.run \in Calls \cup {NoRun}
    /\ proof.status \in {"idle", "generating", "committing", "summary", "error"}
    /\ \A r \in Calls : call[r].errors \in 0..(MaxErrors - 1) /\ call[r].next \in 1..4

\* The panel says a run landed only of a run that did, and shows it committing
\* only once it was: whichever of the stream and the poll comes first, of however
\* many runs at once (applyRunActionProgress, finishProof).
PanelTruthful ==
    /\ proof.status = "summary" => proof.run # NoRun /\ Has(proof.run, "landed")
    /\ proof.status = "committing" => Has(proof.run, "commit")

\* A run that landed, and whose landing the page has been told, is never shown as
\* failed, even if the daemon then forgets it and polling gives up (failProof).
LandedNotFailed ==
    proof.status = "error" /\ proof.run # NoRun =>
        ~(Has(proof.run, "landed") /\ call[proof.run].next > Len(log[proof.run]))

\* The panel of a run in progress is not taken over: a call that starts, fails to
\* start, ends or is reset later leaves it alone (initProofPanel, runProof's catch).
KeepsPanel == \A r \in Calls : proof.run = r /\ InProgress => proof'.run = r
\* The Run buttons come back: a panel in progress ends, a summary is cleared, even
\* when two calls overlap or the daemon forgets the run.
ButtonsReturn == Running ~> ~Running
=============================================================================
