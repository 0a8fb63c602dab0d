------------------------------- MODULE Dobjd --------------------------------
(***************************************************************************)
(* The daemon around the driver (services/dobjd): runs and proof jobs,     *)
(* HTTP submissions, submission retries, the settlement loop and the event *)
(* hub that runs and clients follow.                                       *)
(*                                                                         *)
(* The driver is what Transactions models in detail; here each of its      *)
(* calls is one change of a transaction's record.  What the daemon adds is *)
(* who calls it, what happens between its answer and the event that        *)
(* announces it, and who still waits for that event.                       *)
(***************************************************************************)
EXTENDS Naturals, Sequences, FiniteSets

CONSTANTS
    Txs,          \* transactions, by tx_final
    Viewers,      \* clients that mirror the records from GET /events
    Capacity,     \* CHANNEL_CAPACITY
    MaxRetries,   \* MAX_SUBMISSION_RETRIES
    Preflight,    \* PREFLIGHT_RETRIES
    MaxLives,     \* bound: how often a tx_final is recorded
    MaxFaults,    \* bound on failed requests and writes
    MaxCrashes,   \* bound on restarts of the daemon
    Requests      \* what clients ask besides runs: "submit", "delete", "sync"

VARIABLES
    rec,        \* records on disk
    lives,      \* how often each was recorded
    told,       \* an event announced the record's terminal state
    faults, crashes,
    run,        \* what each run is doing
    left,       \* preflight retries left to a run
    queue,      \* events a run has not received
    lagged,     \* a run's receiver has lost events
    pc,         \* submissions in progress: of a run, a retry, an HTTP request
    copy,       \* the record a submission returned
    lock,       \* the submission lock of each transaction
    deleted,    \* deleted records whose event is still to be published
    pass,       \* who holds pass_lock
    phase,      \* where run_loop is
    syncing,    \* where GET /objects is
    asked,      \* open records, and those a status was asked for
    out,        \* records a pass will announce
    gone,       \* pruned records a pass will announce
    busy,       \* the next pass is on a timer
    due,        \* terminal records whose retention has ended
    permit,     \* the stored permit of `wake'
    published,  \* published_terminal
    retry,      \* SubmissionRetries
    view, vqueue, vlagged   \* a client's mirror, and its stream

diskVars == <<rec, lives, told, due>>
runVars == <<run, left>>
hubVars == <<queue, lagged, vqueue, vlagged>>
subVars == <<pc, copy, lock, deleted>>
passVars == <<pass, phase, syncing, asked, out, gone, busy>>
setVars == <<published, retry>>
vars == <<diskVars, faults, crashes, runVars, hubVars, subVars, passVars,
          permit, setVars, view>>

Open == {"recorded", "attempted", "submitted"}
Terminal == {"landed", "expired"}
States == Open \cup Terminal \cup {"none"}
Callers == {"run", "retry", "http"}

is_open(t) == rec[t] \in Open
needs_tx_status(t) == rec[t] \in {"attempted", "submitted"}

NotAsked == [queried |-> {}, status |-> {}]

Fault == faults < MaxFaults /\ faults' = faults + 1
-----------------------------------------------------------------------------
(* The event hub: a broadcast channel, its receivers keep `Capacity' events *)

Following == {t \in Txs : run[t] \in {"read", "follow"}}

Push(q, e) == IF Len(q) < Capacity THEN Append(q, e) ELSE Append(Tail(q), e)

publish(e) ==
    /\ queue' = [t \in Txs |-> IF t \in Following THEN Push(queue[t], e)
                               ELSE queue[t]]
    /\ lagged' = [t \in Txs |-> lagged[t] \/ (t \in Following /\ Len(queue[t]) = Capacity)]
    /\ vqueue' = [v \in Viewers |-> Push(vqueue[v], e)]
    /\ vlagged' = [v \in Viewers |-> vlagged[v] \/ Len(vqueue[v]) = Capacity]

\* An announcement of t's record as it was when it was read.
Announce(t, s) ==
    /\ publish([tx |-> t, state |-> s])
    /\ told' = [told EXCEPT ![t] = @ \/ s \in Terminal]
-----------------------------------------------------------------------------
(* The driver's calls *)

\* A transaction is settled: landed if it was offered to the relayer and its
\* status was read, expired if it was rejected or its grounding has aged out.
\* A submission attempted after the statuses were read waits for the next pass.
Decidable(t, s) ==
    /\ is_open(t) /\ t \in asked.queried
    /\ needs_tx_status(t) => t \in asked.status
    /\ s = "landed" => needs_tx_status(t)

\* The records in S are written with their verdicts.
settle_with(S, verdict) ==
    /\ \A t \in S : Decidable(t, verdict[t])
    /\ rec' = [t \in Txs |-> IF t \in S THEN verdict[t] ELSE rec[t]]

delete_transaction(t) ==
    /\ rec[t] = "recorded"
    /\ rec' = [rec EXCEPT ![t] = "none"]
-----------------------------------------------------------------------------
(* Driver::submit, for a run, a retry or an HTTP request *)

\* The caller is done with the record it was given.
Idle(w, t) ==
    /\ pc' = [pc EXCEPT ![w][t] = "idle"]
    /\ copy' = [copy EXCEPT ![w][t] = "none"]

Goto(w, t, p) == pc' = [pc EXCEPT ![w][t] = p]
Release(t) == lock' = [lock EXCEPT ![t] = "free"]

\* Under the submission lock the record is read and the head asked for.
SubmitRead(w, t) ==
    /\ pc[w][t] = "call" /\ lock[t] = "free"
    /\ \/ /\ rec[t] \in {"recorded", "attempted"}
          /\ \/ /\ Goto(w, t, "head") /\ lock' = [lock EXCEPT ![t] = w]
                /\ UNCHANGED faults
             \/ Goto(w, t, "refused") /\ UNCHANGED <<lock, faults>>  \* aged out
             \/ Goto(w, t, "failed") /\ Fault /\ UNCHANGED lock
          /\ UNCHANGED copy
       \/ /\ rec[t] = "submitted"
          /\ Goto(w, t, "ok") /\ copy' = [copy EXCEPT ![w][t] = rec[t]]
          /\ UNCHANGED <<lock, faults>>
       \/ /\ rec[t] \in Terminal \cup {"none"}
          /\ Goto(w, t, "refused") /\ UNCHANGED <<copy, lock, faults>>
    /\ UNCHANGED <<diskVars, crashes, runVars, hubVars, deleted, passVars, permit,
                   setVars, view>>

\* The attempt is stored before the relayer is asked.
SubmitAttempt(w, t) ==
    /\ pc[w][t] = "head"
    /\ \/ /\ rec[t] \in {"recorded", "attempted"}
          /\ rec' = [rec EXCEPT ![t] = "attempted"]
          /\ Goto(w, t, "relay") /\ UNCHANGED <<lock, copy>>
       \/ /\ rec[t] \in Terminal \cup {"submitted"}
          /\ Goto(w, t, "ok") /\ copy' = [copy EXCEPT ![w][t] = rec[t]]
          /\ Release(t) /\ UNCHANGED rec
       \/ /\ rec[t] = "none"
          /\ Goto(w, t, "refused") /\ Release(t) /\ UNCHANGED <<rec, copy>>
    /\ UNCHANGED <<lives, told, due, faults, crashes, runVars, hubVars, deleted, passVars,
                   permit, setVars, view>>

SubmitAccepted_blind(w, t) ==
    /\ pc[w][t] = "relay"
    /\ rec' = [rec EXCEPT ![t] = "submitted"]
    /\ Goto(w, t, "ok") /\ copy' = [copy EXCEPT ![w][t] = rec'[t]]
    /\ Release(t)
    /\ UNCHANGED <<lives, told, due, faults, crashes, runVars, hubVars, deleted, passVars,
                   permit, setVars, view>>

SubmitAccepted(w, t) ==
    /\ pc[w][t] = "relay"
    /\ rec' = IF rec[t] = "attempted" THEN [rec EXCEPT ![t] = "submitted"] ELSE rec
    /\ IF rec[t] = "none" THEN Goto(w, t, "refused") /\ UNCHANGED copy
       ELSE Goto(w, t, "ok") /\ copy' = [copy EXCEPT ![w][t] = rec'[t]]
    /\ Release(t)
    /\ UNCHANGED <<lives, told, due, faults, crashes, runVars, hubVars, deleted, passVars,
                   permit, setVars, view>>

SubmitFails(w, t) ==
    /\ pc[w][t] = "relay"
    /\ Fault
    /\ Goto(w, t, "failed") /\ Release(t)
    /\ UNCHANGED <<diskVars, crashes, runVars, hubVars, copy, deleted, passVars, permit,
                   setVars, view>>
-----------------------------------------------------------------------------
(* Runs: prove_and_record, submit_record, follow *)

SetRun(t, p) == run' = [run EXCEPT ![t] = p]

\* A run or a proof job proves and records; the driver refuses a tx_final that
\* is recorded already.
ProveAndRecord(t) ==
    /\ run[t] = "none" /\ lives[t] < MaxLives
    /\ \/ /\ rec[t] = "none"
          /\ rec' = [rec EXCEPT ![t] = "recorded"]
          /\ told' = [told EXCEPT ![t] = FALSE]
          /\ \/ SetRun(t, "recorded")      \* spawn_run
             \/ SetRun(t, "job")           \* spawn_proof_job
       \/ SetRun(t, "failed") /\ UNCHANGED <<rec, told>>
    /\ lives' = [lives EXCEPT ![t] = @ + 1]
    /\ UNCHANGED <<left, due, faults, crashes, hubVars, subVars, passVars, permit,
                   setVars, view>>

AnnounceRecorded_asleep(t) ==
    /\ run[t] \in {"recorded", "job"}
    /\ Announce(t, "recorded")
    /\ IF run[t] = "job"
       THEN SetRun(t, "done") /\ UNCHANGED pc
       ELSE SetRun(t, "submit") /\ Goto("run", t, "call")
    /\ UNCHANGED <<rec, lives, due, faults, crashes, left, copy, lock, deleted, passVars,
                   permit, setVars, view>>

\* announce_transaction: publish, then wake the settler.
AnnounceRecorded(t) ==
    /\ run[t] \in {"recorded", "job"}
    /\ Announce(t, "recorded")
    /\ permit' = TRUE
    /\ IF run[t] = "job"
       THEN SetRun(t, "done") /\ UNCHANGED pc
       ELSE SetRun(t, "submit") /\ Goto("run", t, "call")
    /\ UNCHANGED <<rec, lives, due, faults, crashes, left, copy, lock, deleted, passVars,
                   setVars, view>>

\* submit_transaction succeeded: announce the record it returned.
RunSubmitted(t) ==
    /\ run[t] = "submit" /\ pc["run"][t] = "ok"
    /\ Announce(t, copy["run"][t]) /\ permit' = TRUE
    /\ Idle("run", t)
    /\ SetRun(t, IF copy["run"][t] \in Terminal THEN copy["run"][t] ELSE "subscribe")
    /\ left' = [left EXCEPT ![t] = Preflight]
    /\ UNCHANGED <<rec, lives, due, faults, crashes, lock, deleted, passVars,
                   setVars, view>>

\* submit_transaction failed and has woken the settler: a transaction that was
\* never offered ends the run, at once or after its retries; one that was is
\* announced and followed.
RunRefused(t) ==
    /\ run[t] = "submit" /\ pc["run"][t] \in {"refused", "failed"}
    /\ permit' = TRUE
    /\ \/ /\ rec[t] = "none"
          /\ SetRun(t, "failed") /\ Goto("run", t, "idle")
          /\ left' = [left EXCEPT ![t] = Preflight]
          /\ UNCHANGED <<told, hubVars>>
       \/ /\ rec[t] = "recorded" /\ (pc["run"][t] = "refused" \/ left[t] = 0)
          /\ SetRun(t, "failed") /\ Goto("run", t, "idle")
          /\ left' = [left EXCEPT ![t] = Preflight]
          /\ UNCHANGED <<told, hubVars>>
       \/ /\ rec[t] = "recorded" /\ pc["run"][t] = "failed" /\ left[t] > 0
          /\ left' = [left EXCEPT ![t] = @ - 1]
          /\ Goto("run", t, "call")
          /\ UNCHANGED <<run, told, hubVars>>
       \/ /\ rec[t] \notin {"none", "recorded"}
          /\ Announce(t, rec[t])
          /\ Goto("run", t, "idle")
          /\ SetRun(t, IF rec[t] \in Terminal THEN rec[t] ELSE "subscribe")
          /\ left' = [left EXCEPT ![t] = Preflight]
    /\ UNCHANGED <<rec, lives, due, faults, crashes, copy, lock, deleted, passVars, setVars,
                   view>>

Subscribe_only(t) ==
    /\ run[t] = "subscribe"
    /\ SetRun(t, "follow")
    /\ queue' = [queue EXCEPT ![t] = <<>>]
    /\ lagged' = [lagged EXCEPT ![t] = FALSE]
    /\ UNCHANGED <<diskVars, faults, crashes, left, vqueue, vlagged, subVars,
                   passVars, permit, setVars, view>>

\* follow subscribes before it reads.
Subscribe(t) ==
    /\ run[t] = "subscribe"
    /\ SetRun(t, "read")
    /\ queue' = [queue EXCEPT ![t] = <<>>]
    /\ lagged' = [lagged EXCEPT ![t] = FALSE]
    /\ UNCHANGED <<diskVars, faults, crashes, left, vqueue, vlagged, subVars,
                   passVars, permit, setVars, view>>

\* What a state read or received makes of the run, and `rest' of its receiver.
Followed(t, s, rest) ==
    /\ SetRun(t, IF s \in Terminal THEN s
                 ELSE IF s \in Open THEN "follow" ELSE "failed")
    /\ queue' = [queue EXCEPT ![t] = IF s \in Open THEN rest ELSE <<>>]

ReadRecord(t) ==
    /\ run[t] = "read"
    /\ Followed(t, rec[t], queue[t])
    /\ lagged' = [lagged EXCEPT ![t] = @ /\ is_open(t)]
    /\ UNCHANGED <<diskVars, faults, crashes, left, vqueue, vlagged, subVars,
                   passVars, permit, setVars, view>>

\* A receiver that has lagged is told so first, and reads the record again.
Receive(t) ==
    /\ run[t] = "follow"
    /\ \/ /\ lagged[t]
          /\ Followed(t, rec[t], queue[t])
          /\ lagged' = [lagged EXCEPT ![t] = FALSE]
       \/ /\ ~lagged[t] /\ queue[t] # <<>>
          /\ Followed(t, IF Head(queue[t]).tx = t THEN Head(queue[t]).state
                         ELSE "recorded", Tail(queue[t]))
          /\ UNCHANGED lagged
    /\ UNCHANGED <<diskVars, faults, crashes, left, vqueue, vlagged, subVars,
                   passVars, permit, setVars, view>>

\* Finished runs and jobs leave the registry after their retention.
Reap(t) ==
    /\ run[t] \in {"done", "failed"} \cup Terminal
    /\ SetRun(t, "none")
    /\ UNCHANGED <<diskVars, faults, crashes, left, hubVars, subVars, passVars,
                   permit, setVars, view>>
-----------------------------------------------------------------------------
(* HTTP requests *)

HttpSubmit(t) ==
    /\ "submit" \in Requests
    /\ pc["http"][t] = "idle"
    /\ Goto("http", t, "call")
    /\ UNCHANGED <<diskVars, faults, crashes, runVars, hubVars, copy, lock, deleted,
                   passVars, permit, setVars, view>>

HttpAnswer(t) ==
    /\ pc["http"][t] \in {"ok", "refused", "failed"}
    /\ permit' = TRUE
    /\ IF pc["http"][t] = "ok" THEN Announce(t, copy["http"][t])
       ELSE UNCHANGED <<told, hubVars>>
    /\ Idle("http", t)
    /\ UNCHANGED <<rec, lives, due, faults, crashes, runVars, lock, deleted, passVars,
                   setVars, view>>

HttpDelete(t) ==
    /\ "delete" \in Requests
    /\ delete_transaction(t)
    /\ deleted' = deleted \cup {t}
    /\ UNCHANGED <<lives, told, due, faults, crashes, runVars, hubVars, pc, copy, lock,
                   passVars, permit, setVars, view>>

HttpDeleted(t) ==
    /\ t \in deleted
    /\ publish([tx |-> t, state |-> "none"])
    /\ deleted' = deleted \ {t}
    /\ UNCHANGED <<diskVars, faults, crashes, runVars, pc, copy, lock, passVars,
                   permit, setVars, view>>
-----------------------------------------------------------------------------
(* Settlement passes: the loop's, and the one GET /objects makes *)

SettlePass(who) ==
    IF who = "loop" THEN phase = "settle" ELSE syncing = "settle"

GotoPass(who, p) ==
    IF who = "loop" THEN phase' = p /\ UNCHANGED syncing
    ELSE syncing' = p /\ UNCHANGED phase

PassBegin(who) ==
    /\ IF who = "loop" THEN phase = "begin" ELSE "sync" \in Requests /\ syncing = "idle"
    /\ pass = "free" /\ pass' = who
    /\ asked' = [queried |-> {t \in Txs : is_open(t)},
                 status |-> {t \in Txs : needs_tx_status(t)}]
    /\ GotoPass(who, "settle")
    /\ UNCHANGED <<diskVars, faults, crashes, runVars, hubVars, subVars, out,
                   gone, busy, permit, setVars, view>>

PassSettle(who, S, verdict) ==
    /\ SettlePass(who)
    /\ settle_with(S, verdict)
    /\ out' = {[tx |-> t, state |-> verdict[t]] : t \in S}
    /\ asked' = NotAsked
    /\ busy' = IF who = "loop"
               THEN asked.queried # {} /\ \E t \in Txs : rec'[t] \in Open
               ELSE busy
    /\ GotoPass(who, IF who = "loop" THEN "list" ELSE "publish")
    /\ UNCHANGED <<lives, told, due, faults, crashes, runVars, hubVars, subVars,
                   pass, gone, permit, setVars, view>>

\* The pass fails, perhaps after it has written some records: none of them is
\* in its outcome.
PassSettleFails(who, S, verdict) ==
    /\ SettlePass(who)
    /\ Fault
    /\ settle_with(S, verdict)
    /\ out' = {} /\ asked' = NotAsked
    /\ busy' = IF who = "loop" THEN \E t \in Txs : rec'[t] \in Open ELSE busy
    /\ GotoPass(who, IF who = "loop" THEN "list" ELSE "publish")
    /\ UNCHANGED <<lives, told, due, crashes, runVars, hubVars, subVars, pass,
                   gone, permit, setVars, view>>

\* Finished records that no event announced are announced by this pass.
add_unpublished_terminal ==
    /\ phase = "list"
    /\ published' = {t \in published : rec[t] # "none"}
    /\ out' = out \cup {[tx |-> t, state |-> rec[t]] : t \in
                  {u \in Txs : /\ rec[u] \in Terminal /\ u \notin published'
                               /\ \A e \in out : e.tx # u}}
    /\ phase' = "prune"
    /\ UNCHANGED <<diskVars, faults, crashes, runVars, hubVars, subVars, pass,
                   syncing, asked, gone, busy, permit, retry, view>>

\* No call is in progress and nothing waits to be announced.
Quiet ==
    /\ pass = "free" /\ deleted = {} /\ \A w \in Callers, t \in Txs : pc[w][t] = "idle"
    /\ \A t \in Txs : run[t] \notin {"recorded", "job"}

\* A terminal record is kept for ten minutes, longer than any call takes.
RetentionEnds(t) ==
    /\ rec[t] \in Terminal /\ t \notin due /\ Quiet
    /\ due' = due \cup {t}
    /\ UNCHANGED <<rec, lives, told, faults, crashes, runVars, hubVars, subVars,
                   passVars, permit, setVars, view>>

\* Terminal records are pruned at their time; the next pass is on a timer while
\* one remains, or after an error, which hides what was pruned.
PassPrune(S) ==
    /\ phase = "prune"
    /\ S \subseteq due
    /\ rec' = [t \in Txs |-> IF t \in S THEN "none" ELSE rec[t]]
    /\ due' = due \ S
    /\ \/ /\ gone' = S
          /\ busy' = (busy \/ \E t \in Txs : rec'[t] \in Terminal)
          /\ UNCHANGED faults
       \/ gone' = {} /\ busy' = TRUE /\ Fault
    /\ phase' = "publish"
    /\ UNCHANGED <<lives, told, crashes, runVars, hubVars, subVars, pass, syncing,
                   asked, out, permit, setVars, view>>

Publishing == (phase = "publish" /\ pass = "loop") \/ syncing = "publish"

PublishRecord ==
    /\ Publishing
    /\ \E e \in out :
          /\ Announce(e.tx, e.state)
          /\ out' = out \ {e}
          /\ published' = IF e.state \in Terminal THEN published \cup {e.tx}
                          ELSE published
    /\ UNCHANGED <<rec, lives, due, faults, crashes, runVars, subVars, pass, phase,
                   syncing, asked, gone, busy, permit, retry, view>>

PublishPruned ==
    /\ Publishing /\ out = {}
    /\ \E t \in gone :
          /\ publish([tx |-> t, state |-> "none"])
          /\ gone' = gone \ {t}
          /\ published' = published \ {t}
    /\ UNCHANGED <<diskVars, faults, crashes, runVars, subVars, pass, phase,
                   syncing, asked, out, busy, permit, retry, view>>

PassEnd ==
    /\ Publishing /\ out = {} /\ gone = {}
    /\ pass' = "free"
    /\ IF pass = "loop" THEN phase' = "retries" /\ UNCHANGED syncing
       ELSE syncing' = "idle" /\ UNCHANGED phase
    /\ UNCHANGED <<diskVars, faults, crashes, runVars, hubVars, subVars, asked,
                   out, gone, busy, permit, setVars, view>>
-----------------------------------------------------------------------------
(* run_loop: submission retries, then sleep *)

InFlight == {t \in Txs : retry[t] = "flying"}

capacity == MaxRetries - Cardinality(InFlight)

\* SubmissionRetries::due: entries of records that are no longer attempted are
\* dropped, new ones wait for their first delay, and those that waited start.
StartRetries ==
    /\ phase = "retries"
    /\ \E S \in SUBSET {t \in Txs : rec[t] = "attempted" /\ retry[t] = "waiting"} :
          /\ Cardinality(S) <= capacity
          /\ retry' = [t \in Txs |->
                IF retry[t] = "flying" \/ t \in S THEN "flying"
                ELSE IF rec[t] = "attempted" THEN "waiting" ELSE "none"]
          /\ pc' = [pc EXCEPT !["retry"] = [t \in Txs |->
                IF t \in S THEN "call" ELSE @[t]]]
    /\ phase' = "sleep"
    /\ UNCHANGED <<diskVars, faults, crashes, runVars, hubVars, copy, lock, deleted, pass,
                   syncing, asked, out, gone, busy, permit, published, view>>

\* A retry that succeeded is announced as it now is, under the pass lock.
RetrySubmitted(t) ==
    /\ pc["retry"][t] = "ok" /\ pass = "free"
    /\ retry' = [retry EXCEPT ![t] = "none"]
    /\ IF rec[t] # "none"
       THEN /\ Announce(t, rec[t])
            /\ published' = IF rec[t] \in Terminal THEN published \cup {t}
                            ELSE published
       ELSE UNCHANGED <<told, hubVars, published>>
    /\ Idle("retry", t) /\ permit' = TRUE
    /\ UNCHANGED <<rec, lives, due, faults, crashes, runVars, lock, deleted, passVars, view>>

RetryFailed_kept(t) ==
    /\ pc["retry"][t] \in {"refused", "failed"}
    /\ Goto("retry", t, "idle") /\ permit' = TRUE
    /\ UNCHANGED <<diskVars, faults, crashes, runVars, hubVars, copy, lock, deleted,
                   passVars, setVars, view>>

RetryFailed(t) ==
    /\ pc["retry"][t] \in {"refused", "failed"}
    /\ retry' = [retry EXCEPT ![t] = "waiting"]
    /\ Goto("retry", t, "idle") /\ permit' = TRUE
    /\ UNCHANGED <<diskVars, faults, crashes, runVars, hubVars, copy, lock, deleted,
                   passVars, published, view>>

Wake ==
    /\ phase = "sleep" /\ permit
    /\ permit' = FALSE /\ phase' = "begin"
    /\ UNCHANGED <<diskVars, faults, crashes, runVars, hubVars, subVars, pass,
                   syncing, asked, out, gone, busy, setVars, view>>

next_pass_delay ==
    /\ phase = "sleep" /\ busy
    /\ phase' = "begin"
    /\ UNCHANGED <<diskVars, faults, crashes, runVars, hubVars, subVars, pass,
                   syncing, asked, out, gone, busy, permit, setVars, view>>
-----------------------------------------------------------------------------
(* Clients of GET /events, and restarts *)

\* A gap in the sequence numbers makes the client re-read; otherwise it applies
\* the event.
ViewEvent(v) ==
    /\ \/ /\ vlagged[v]
          /\ view' = [view EXCEPT ![v] = rec]
          /\ vlagged' = [vlagged EXCEPT ![v] = FALSE]
          /\ UNCHANGED vqueue
       \/ /\ ~vlagged[v] /\ vqueue[v] # <<>>
          /\ view' = [view EXCEPT ![v][Head(vqueue[v]).tx] = Head(vqueue[v]).state]
          /\ vqueue' = [vqueue EXCEPT ![v] = Tail(@)]
          /\ UNCHANGED vlagged
    /\ UNCHANGED <<diskVars, faults, crashes, runVars, queue, lagged, subVars,
                   passVars, permit, setVars>>

\* The daemon stops and is started again; clients reconnect and re-read.
Crash ==
    /\ crashes < MaxCrashes /\ crashes' = crashes + 1
    /\ run' = [t \in Txs |-> "none"] /\ left' = [t \in Txs |-> Preflight]
    /\ queue' = [t \in Txs |-> <<>>] /\ lagged' = [t \in Txs |-> FALSE]
    /\ pc' = [w \in Callers |-> [t \in Txs |-> "idle"]]
    /\ copy' = [w \in Callers |-> [t \in Txs |-> "none"]]
    /\ deleted' = {}
    /\ lock' = [t \in Txs |-> "free"]
    /\ pass' = "free" /\ phase' = "begin" /\ syncing' = "idle"
    /\ asked' = NotAsked /\ out' = {} /\ gone' = {}
    /\ busy' = FALSE /\ permit' = FALSE
    /\ published' = {} /\ retry' = [t \in Txs |-> "none"]
    /\ vqueue' = [v \in Viewers |-> <<>>] /\ vlagged' = [v \in Viewers |-> FALSE]
    /\ view' = [v \in Viewers |-> rec]
    /\ UNCHANGED <<diskVars, faults>>
-----------------------------------------------------------------------------
Init ==
    /\ rec = [t \in Txs |-> "none"] /\ lives = [t \in Txs |-> 0]
    /\ told = [t \in Txs |-> FALSE] /\ due = {}
    /\ faults = 0 /\ crashes = 0
    /\ run = [t \in Txs |-> "none"] /\ left = [t \in Txs |-> Preflight]
    /\ queue = [t \in Txs |-> <<>>] /\ lagged = [t \in Txs |-> FALSE]
    /\ pc = [w \in Callers |-> [t \in Txs |-> "idle"]]
    /\ copy = [w \in Callers |-> [t \in Txs |-> "none"]]
    /\ deleted = {}
    /\ lock = [t \in Txs |-> "free"]
    /\ pass = "free" /\ phase = "begin" /\ syncing = "idle"
    /\ asked = NotAsked /\ out = {} /\ gone = {}
    /\ busy = FALSE /\ permit = FALSE
    /\ published = {} /\ retry = [t \in Txs |-> "none"]
    /\ vqueue = [v \in Viewers |-> <<>>] /\ vlagged = [v \in Viewers |-> FALSE]
    /\ view = [v \in Viewers |-> rec]

\* S settles with some verdicts.
Settles(who, S) ==
    \E verdict \in [S -> Terminal] :
        PassSettle(who, S, verdict) \/ PassSettleFails(who, S, verdict)

Loop ==
    \/ PassBegin("loop") \/ \E S \in SUBSET Txs : Settles("loop", S)
    \/ add_unpublished_terminal \/ \E S \in SUBSET Txs : PassPrune(S)
    \/ PublishRecord \/ PublishPruned \/ PassEnd
    \/ StartRetries \/ Wake \/ next_pass_delay

Sync == PassBegin("sync") \/ \E S \in SUBSET Txs : Settles("sync", S)

Submission(w, t) ==
    \/ SubmitRead(w, t) \/ SubmitAttempt(w, t)
    \/ SubmitAccepted(w, t) \/ SubmitFails(w, t)

Run(t) ==
    \/ AnnounceRecorded(t) \/ RunSubmitted(t) \/ RunRefused(t)
    \/ Subscribe(t) \/ ReadRecord(t) \/ Receive(t)

Retry(t) == RetrySubmitted(t) \/ RetryFailed(t)

Next ==
    \/ Loop \/ Sync \/ Crash
    \/ \E t \in Txs :
          \/ ProveAndRecord(t) \/ Run(t) \/ Reap(t) \/ Retry(t)
          \/ HttpSubmit(t) \/ HttpAnswer(t) \/ HttpDelete(t) \/ HttpDeleted(t)
          \/ RetentionEnds(t)
          \/ \E w \in Callers : Submission(w, t)
    \/ \E v \in Viewers : ViewEvent(v)

Spec == Init /\ [][Next]_vars

\* Threads that can go on do, a retry's delay ends, and a thread that waits for
\* a mutex gets it in the end: clients do not send their requests back to back.
Scheduled ==
    /\ WF_vars(Loop) /\ WF_vars(Sync /\ syncing # "idle")
    /\ SF_vars(PassBegin("loop")) /\ WF_vars(StartRetries)
    /\ WF_vars(Wake \/ next_pass_delay)
    /\ \A t \in Txs :
          /\ WF_vars(Run(t)) /\ WF_vars(Retry(t)) /\ WF_vars(HttpAnswer(t))
          /\ \A w \in Callers :
                WF_vars(Submission(w, t)) /\ SF_vars(SubmitRead(w, t))
-----------------------------------------------------------------------------
(* Properties *)

\* Every variable keeps its type.
TypeOK ==
    /\ rec \in [Txs -> States] /\ told \in [Txs -> BOOLEAN]
    /\ run \in [Txs -> {"none", "recorded", "job", "submit", "subscribe", "read",
                        "follow", "done", "failed"} \cup Terminal]
    /\ pc \in [Callers -> [Txs -> {"idle", "call", "head", "relay", "ok",
                                   "refused", "failed"}]]
    /\ copy \in [Callers -> [Txs -> States]]
    /\ lock \in [Txs -> Callers \cup {"free"}]
    /\ pass \in {"free", "loop", "sync"}
    /\ published \subseteq Txs /\ retry \in [Txs -> {"none", "waiting", "flying"}]
    /\ \A t \in Txs : Len(queue[t]) <= Capacity
    /\ \A v \in Viewers : Len(vqueue[v]) <= Capacity

\* A run that ends with its transaction landed or expired agrees with the
\* record on disk for as long as that is kept, whatever stale announcements and
\* lost events it met.
RunTruthful ==
    \A t \in Txs : run[t] \in Terminal => rec[t] \in {run[t], "none"}

\* The loop never sleeps without a timer on an open record, unless the thread
\* that wrote it is still to wake it (Settler::wake, next_pass_delay).
NeverSleepsOnOpen ==
    phase = "sleep" /\ ~busy /\ ~permit =>
        \A t \in Txs : is_open(t) => run[t] \in {"recorded", "job"}

\* "At most four retries run concurrently" (README), one per transaction, and
\* only for transactions whose attempt is stored, so deletable ones are never
\* sent behind the client's back.
RetriesBounded ==
    /\ Cardinality(InFlight) <= MaxRetries
    /\ \A t \in Txs :
          /\ pc["retry"][t] # "idle" => retry[t] = "flying"
          /\ pc["retry"][t] # "idle" => rec[t] # "recorded"

\* Every finished record is announced while it is kept, even when the pass that
\* finished it failed (add_unpublished_terminal).
TerminalAnnounced ==
    \A t \in Txs : rec[t] \in Terminal ~> told[t] \/ rec[t] = "none"

\* A run that follows its transaction ends.
RunsFinish ==
    \A t \in Txs : run[t] = "submit" ~> run[t] \in Terminal \cup {"failed", "none"}

\* A transaction offered to a relayer whose acceptance was not recorded does not
\* stay so: it is offered again until it is accepted, or settled.
AttemptedIsOffered == \A t \in Txs : rec[t] = "attempted" ~> rec[t] # "attempted"
=============================================================================
