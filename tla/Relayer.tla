------------------------------- MODULE Relayer -------------------------------
(***************************************************************************)
(* The relayer: the API queues one job per tx_final in Postgres (api.rs,   *)
(* db.rs), and a single worker posts each as an EIP-4844 transaction, polls *)
(* its receipt and replaces it at the same nonce with higher fees when it   *)
(* is slow (worker.rs).                                                     *)
(*                                                                          *)
(* The worker works on a copy of the row, `hand', between requests to the   *)
(* node: the node mines, evicts and serves receipts, and the process stops, *)
(* between any two of them.  Times are relative to now: `due' is            *)
(* next_attempt_at - now and `age' is now - submitted_at; a pass takes `now' *)
(* when it starts, so what it saves is late by `lapse'.  A transaction hash  *)
(* is its position in `txs'.  Block numbers and error texts are left out,    *)
(* and so is the permanent error of a malformed hash: hashes come from the   *)
(* node.                                                                     *)
(***************************************************************************)
EXTENDS Integers, Sequences, FiniteSets

CONSTANTS
    Jobs,          \* payloads, by tx_final
    MaxAttempts,   \* max_attempts
    RetryInitial,  \* retry_initial_secs
    RetryMax,      \* retry_max_secs
    Poll,          \* receipt_poll_secs
    Timeout,       \* receipt_timeout_secs, 0 when unset
    BumpAfter,     \* fee_bump_after_secs, 0 when unset
    BumpPct,       \* fee_bump_multiplier_pct
    BumpMax,       \* fee_bump_max
    NetFees,       \* fee estimates of the network: <<base fee, priority fee>>
    BlobFee,       \* blob fee cap of a first submission
    MaxFaults,     \* bound on failed requests, failed writes and crashes
    MaxEvictions,  \* bound on transactions the node drops
    MaxLapse,      \* bound on the seconds one pass takes
    MaxLate,       \* a job overdue by more counts as overdue by this much
    MaxTime,       \* ages beyond this one are not told apart
    NoJob

\* What load_config lets through.
load_config ==
    /\ MaxAttempts \in Nat \ {0} /\ RetryInitial \in Nat \ {0}
    /\ RetryMax \in Nat /\ RetryMax >= RetryInitial
    /\ Poll \in Nat \ {0} /\ Timeout \in Nat /\ BumpAfter \in Nat
    /\ BumpAfter = 0 \/ BumpAfter >= Poll
    /\ BumpPct \in Nat /\ BumpPct >= 100 /\ BumpMax \in Nat \ {0}
    /\ NetFees \subseteq Nat \X Nat /\ NetFees # {} /\ BlobFee \in Nat
    /\ NoJob \notin Jobs
    /\ MaxTime >= Timeout /\ MaxTime >= BumpAfter * BumpMax

VARIABLES
    row,      \* relay_jobs
    order,    \* the jobs by created_at
    phase,    \* where the worker is
    id,       \* the job the worker has in hand
    hand,     \* its copy of the row
    use,      \* the nonce it asked for
    offer,    \* the fees it bids
    got,      \* the hash it was answered
    lapse,    \* seconds since the pass took `now'
    txs,      \* every transaction the node accepted
    base,     \* the account's next nonce on chain
    served,   \* hashes whose receipt the node serves
    faults, evictions

dbVars == <<row, order>>
workVars == <<phase, id, hand, use, offer, got, lapse>>
nodeVars == <<txs, base, served, evictions>>
vars == <<dbVars, workVars, nodeVars, faults>>

None == 0
Never == -1
Unsent == [status |-> "queued", attempts |-> 0, hash |-> None, nonce |-> Never,
           age |-> Never, due |-> 0, bumps |-> 0, prev |-> <<>>]
NoRow == [Unsent EXCEPT !.status = "none"]
NoFees == <<0, 0, 0>>

RelayJob ==
    [status : {"none", "queued", "sending", "submitted", "confirmed", "failed"},
     attempts : Nat, hash : 0 .. Len(txs), nonce : Nat \cup {Never},
     age : (0 .. MaxTime) \cup {Never}, due : Int, bumps : 0 .. BumpMax,
     prev : Seq(DOMAIN txs)]

is_terminal(r) == r.status \in {"confirmed", "failed"}
Live(r) == r.status \in {"queued", "sending", "submitted"}
Max2(a, b) == IF a >= b THEN a ELSE b
Min2(a, b) == IF a <= b THEN a ELSE b
-----------------------------------------------------------------------------
(* The node *)

InPool(h) == txs[h].st = "pool"
AtNonce(n) == {h \in DOMAIN txs : InPool(h) /\ txs[h].nonce = n}

\* get_transaction_count at the pending block: the first free nonce.
get_next_nonce ==
    CHOOSE n \in base .. (base + Len(txs)) :
        /\ AtNonce(n) = {}
        /\ \A m \in base .. (n - 1) : AtNonce(m) # {}

\* A blob pool replaces a transaction only when every fee cap doubles.
Doubles(new, old) == \A k \in 1 .. 3 : new[k] >= 2 * old[k]

Accepts(n, fees) ==
    n >= base /\ \A h \in AtNonce(n) : Doubles(fees, txs[h].fees)

Posted(j, n, fees) ==
    Append([h \in DOMAIN txs |->
              IF h \in AtNonce(n) THEN [txs[h] EXCEPT !.st = "out"] ELSE txs[h]],
           [job |-> j, nonce |-> n, fees |-> fees, st |-> "pool", ok |-> FALSE,
            over |-> AtNonce(n)])

Mine ==
    /\ \E h \in AtNonce(base), ok \in BOOLEAN :
          txs' = [txs EXCEPT ![h].st = "mined", ![h].ok = ok]
    /\ base' = base + 1
    /\ UNCHANGED <<dbVars, workVars, served, evictions, faults>>

\* A transaction this node replaced or dropped is mined all the same: the
\* proposer never saw the replacement.
MineElsewhere ==
    /\ \E h \in DOMAIN txs :
          /\ txs[h].st = "out" /\ txs[h].nonce = base
          /\ txs' = [k \in DOMAIN txs |->
                        IF k = h THEN [txs[k] EXCEPT !.st = "mined", !.ok = TRUE]
                        ELSE IF k \in AtNonce(base)
                             THEN [txs[k] EXCEPT !.st = "out"] ELSE txs[k]]
    /\ base' = base + 1
    /\ UNCHANGED <<dbVars, workVars, served, evictions, faults>>

Evict ==
    /\ evictions < MaxEvictions
    /\ \E h \in DOMAIN txs : InPool(h) /\ txs' = [txs EXCEPT ![h].st = "out"]
    /\ evictions' = evictions + 1
    /\ UNCHANGED <<dbVars, workVars, base, served, faults>>

Serve ==
    /\ \E h \in DOMAIN txs \ served :
          txs[h].st = "mined" /\ served' = served \cup {h}
    /\ UNCHANGED <<dbVars, workVars, txs, base, evictions, faults>>
-----------------------------------------------------------------------------
(* The API and the database *)

Fault == faults < MaxFaults /\ faults' = faults + 1

insert_job_reset(j) ==
    /\ row' = [row EXCEPT ![j] = Unsent]
    /\ order' = IF row[j] = NoRow THEN Append(order, j) ELSE order

\* insert_job: ON CONFLICT (tx_final) DO NOTHING.
insert_job(j) ==
    IF row[j] = NoRow
    THEN row' = [row EXCEPT ![j] = Unsent] /\ order' = Append(order, j)
    ELSE UNCHANGED dbVars

\* submit_proof: a tx_final that is already queued, or done, is answered with
\* its row.
SubmitProof(j) ==
    /\ insert_job(j)
    /\ UNCHANGED <<workVars, nodeVars, faults>>

Idle ==
    /\ phase' = "idle" /\ id' = NoJob /\ hand' = NoRow /\ use' = Never
    /\ offer' = NoFees /\ got' = None /\ lapse' = 0

\* put_job: the row as the worker has it, `now' being lapse seconds ago.
put_job(r) ==
    row' = [row EXCEPT ![id] =
              IF is_terminal(r) THEN [r EXCEPT !.age = Never, !.due = 0]
              ELSE [r EXCEPT
                 !.age = IF @ = Never THEN Never ELSE Min2(@ + lapse, MaxTime),
                 !.due = Max2(@ - lapse, -MaxLate)]]

\* put_job as the last step of a pass.
Finish(r) ==
    /\ put_job(r) /\ Idle
    /\ UNCHANGED <<order, nodeVars>>

\* Requeue in-flight states that can be left behind on crash/restart.
recover_inflight_jobs ==
    [j \in Jobs |->
       IF \/ row[j].status = "sending"
          \/ row[j].status = "submitted" /\ row[j].hash = None
       THEN [row[j] EXCEPT !.status = "queued", !.due = 0]
       ELSE row[j]]

\* run_worker up to its loop.
Start ==
    /\ phase = "stopped"
    /\ row' = recover_inflight_jobs
    /\ Idle
    /\ UNCHANGED <<order, nodeVars, faults>>

DueJobs == {j \in Jobs : Live(row[j]) /\ row[j].due <= 0}
Rank(j) == CHOOSE k \in DOMAIN order : order[k] = j

\* The due job with the earliest next_attempt_at, then the earliest created_at.
next_due_job(j) ==
    /\ j \in DueJobs
    /\ \A k \in DueJobs :
          \/ row[j].due < row[k].due
          \/ row[j].due = row[k].due /\ Rank(j) <= Rank(k)

\* process_due_job: a job with a hash is polled, whatever its status says.
Pick ==
    /\ phase = "idle"
    /\ \E j \in Jobs :
          /\ next_due_job(j)
          /\ id' = j /\ hand' = row[j]
          /\ phase' = IF row[j].hash # None THEN "poll" ELSE "send"
    /\ lapse' = 0
    /\ UNCHANGED <<dbVars, use, offer, got, nodeVars, faults>>
-----------------------------------------------------------------------------
(* Sending *)

MarkSending_late ==
    /\ phase = "send"
    /\ hand' = [hand EXCEPT !.status = "sending", !.attempts = @ + 1]
    /\ phase' = "nonce"
    /\ UNCHANGED <<dbVars, id, use, offer, got, lapse, nodeVars, faults>>

\* send_queued_job: the attempt is stored before anything is sent.
MarkSending ==
    /\ phase = "send"
    /\ hand' = [hand EXCEPT !.status = "sending", !.attempts = @ + 1]
    /\ put_job(hand') /\ phase' = "nonce"
    /\ UNCHANGED <<order, id, use, offer, got, lapse, nodeVars, faults>>

AskNonce ==
    /\ phase = "nonce" /\ use' = get_next_nonce /\ phase' = "submit"
    /\ UNCHANGED <<dbVars, id, hand, offer, got, lapse, nodeVars, faults>>

backoff_secs(attempts) ==
    Min2(RetryInitial * 2 ^ Min2(Max2(attempts - 1, 0), 20), RetryMax)

retry_or_fail(r) ==
    IF r.attempts >= MaxAttempts
    THEN [r EXCEPT !.status = "failed"]
    ELSE [r EXCEPT !.status = "queued", !.due = backoff_secs(r.attempts)]

\* The model's clock counts whole seconds, those of a back-off included.
Clock ==
    /\ MaxTime \in Nat /\ MaxLate \in Nat
    /\ \A a \in 0 .. MaxAttempts : backoff_secs(a) \in Nat

schedule_retry_or_fail == Finish(retry_or_fail(hand))

FirstFees(net) == <<net[2], 2 * net[1] + net[2], BlobFee>>

SubmitPayload ==
    /\ phase = "submit"
    /\ \E net \in NetFees :
          /\ Accepts(use, FirstFees(net))
          /\ txs' = Posted(id, use, FirstFees(net))
    /\ got' = Len(txs) + 1 /\ phase' = "sent"
    /\ UNCHANGED <<dbVars, id, hand, use, offer, lapse, base, served, evictions,
                   faults>>

\* The node refuses, or it accepts and the answer is lost.
SubmitFails ==
    /\ phase = "submit"
    /\ put_job(retry_or_fail(hand)) /\ Idle
    /\ \/ UNCHANGED txs
       \/ \E net \in NetFees : /\ Accepts(use, FirstFees(net))
                               /\ txs' = Posted(id, use, FirstFees(net))
    /\ IF \E net \in NetFees : Accepts(use, FirstFees(net))
       THEN Fault ELSE UNCHANGED faults
    /\ UNCHANGED <<order, base, served, evictions>>

SaveSubmitted ==
    /\ phase = "sent"
    /\ Finish([hand EXCEPT !.status = "submitted", !.hash = got,
                           !.nonce = use, !.age = 0, !.due = Poll, !.bumps = 0])
    /\ UNCHANGED faults
-----------------------------------------------------------------------------
(* Polling and fee bumps *)

CheckTimeout_restarted ==
    /\ phase = "poll"
    /\ IF Timeout > 0 /\ hand.age >= Timeout
       THEN Finish([hand EXCEPT !.status = "failed"])
       ELSE /\ put_job([hand EXCEPT !.age = 0]) /\ phase' = "receipt"
            /\ hand' = [hand EXCEPT !.age = 0]
            /\ UNCHANGED <<order, id, use, offer, got, lapse, nodeVars>>
    /\ UNCHANGED faults

\* poll_submitted_job up to the request: the timeout ends the job.
CheckTimeout ==
    /\ phase = "poll"
    /\ IF Timeout > 0 /\ hand.age >= Timeout
       THEN Finish([hand EXCEPT !.status = "failed"])
       ELSE /\ put_job(hand) /\ phase' = "receipt"
            /\ UNCHANGED <<order, id, hand, use, offer, got, lapse, nodeVars>>
    /\ UNCHANGED faults

PollReceipt ==
    /\ phase = "receipt" /\ hand.hash \in served
    /\ Finish([hand EXCEPT !.status =
                  IF txs[hand.hash].ok THEN "confirmed" ELSE "failed"])
    /\ UNCHANGED faults

PollFails ==
    /\ phase = "receipt" /\ Fault
    /\ schedule_retry_or_fail

KeepPolling(r) == Finish([r EXCEPT !.status = "submitted", !.due = Poll])

BumpDue ==
    /\ BumpAfter > 0
    /\ hand.age >= BumpAfter * (hand.bumps + 1) /\ hand.bumps < BumpMax

NoReceipt ==
    /\ phase = "receipt" /\ hand.hash \notin served
    /\ IF BumpDue
       THEN /\ phase' = "fees"
            /\ UNCHANGED <<dbVars, id, hand, use, offer, got, lapse, nodeVars>>
       ELSE KeepPolling(hand)
    /\ UNCHANGED faults

apply_bump(fee) == (fee * (100 + BumpPct)) \div 100

\* try_fee_bump's caps: above the pending transaction and the network, but the
\* blob cap above the pending one alone.
bumped_fees(old, net) ==
    LET priority == Max2(old[1], net[2]) IN
    <<apply_bump(priority), apply_bump(Max2(old[2], net[1] + priority)),
      apply_bump(old[3])>>

AskFees_unchecked ==
    /\ phase = "fees"
    /\ \E net \in NetFees : offer' = bumped_fees(txs[hand.hash].fees, net)
    /\ phase' = "bump"
    /\ UNCHANGED <<dbVars, id, hand, use, got, lapse, nodeVars, faults>>

\* The node knows a pending or a mined transaction by its hash, but not one
\* that was replaced or dropped.
AskFees ==
    /\ phase = "fees"
    /\ IF txs[hand.hash].st = "out"
       THEN phase' = "gone" /\ UNCHANGED offer
       ELSE /\ \E net \in NetFees : offer' = bumped_fees(txs[hand.hash].fees, net)
            /\ phase' = "bump"
    /\ UNCHANGED <<dbVars, id, hand, use, got, lapse, nodeVars, faults>>

SubmitBump ==
    /\ phase = "bump" /\ Accepts(hand.nonce, offer)
    /\ txs' = Posted(id, hand.nonce, offer)
    /\ got' = Len(txs) + 1 /\ phase' = "bumped"
    /\ UNCHANGED <<dbVars, id, hand, use, offer, lapse, base, served, evictions,
                   faults>>

\* A fee bump fails: the original transaction is polled further.
BumpFails ==
    /\ \/ phase = "fees" /\ Fault /\ UNCHANGED txs
       \/ /\ phase = "bump" /\ UNCHANGED txs
          /\ IF Accepts(hand.nonce, offer) THEN Fault ELSE UNCHANGED faults
       \/ /\ phase = "bump" /\ Accepts(hand.nonce, offer) /\ Fault
          /\ txs' = Posted(id, hand.nonce, offer)
    /\ put_job([hand EXCEPT !.status = "submitted", !.due = Poll]) /\ Idle
    /\ UNCHANGED <<order, base, served, evictions>>

SaveBumped ==
    /\ phase = "bumped"
    /\ Finish([hand EXCEPT !.prev = Append(@, hand.hash), !.hash = got,
                           !.bumps = @ + 1, !.due = Poll])
    /\ UNCHANGED faults

MinedBefore(r) == {k \in DOMAIN r.prev : r.prev[k] \in served /\ txs[r.prev[k]].ok}

FindReplaced_blind ==
    /\ phase = "gone" /\ get_next_nonce > hand.nonce /\ hand.prev # <<>>
    /\ Finish([hand EXCEPT !.hash = hand.prev[Len(hand.prev)], !.status = "confirmed"])
    /\ UNCHANGED faults

\* The transaction is gone and its nonce is used: look for an earlier one.
FindReplaced ==
    /\ phase = "gone" /\ get_next_nonce > hand.nonce /\ MinedBefore(hand) # {}
    /\ \E k \in MinedBefore(hand) :
          /\ \A l \in MinedBefore(hand) : l <= k
          /\ Finish([hand EXCEPT !.hash = hand.prev[k], !.status = "confirmed"])
    /\ UNCHANGED faults

\* No receipt yet, or the scan's requests fail: stop bumping and keep polling.
NoneFound ==
    /\ phase = "gone" /\ get_next_nonce > hand.nonce
    /\ IF MinedBefore(hand) # {} THEN Fault ELSE UNCHANGED faults
    /\ Finish([hand EXCEPT !.bumps = BumpMax, !.due = Poll])

\* The nonce is free, so the transaction was dropped (or the question fails).
Dropped ==
    /\ phase = "gone"
    /\ IF get_next_nonce > hand.nonce THEN Fault ELSE UNCHANGED faults
    /\ KeepPolling([hand EXCEPT !.bumps = BumpMax])
-----------------------------------------------------------------------------
(* Failures and time *)

\* A write or the nonce request fails: the pass ends, the row stays.
PassFails ==
    /\ phase \notin {"stopped", "idle"} /\ Fault
    /\ Idle
    /\ UNCHANGED <<dbVars, nodeVars>>

Crash ==
    /\ phase # "stopped" /\ Fault
    /\ phase' = "stopped" /\ id' = NoJob /\ hand' = NoRow /\ use' = Never
    /\ offer' = NoFees /\ got' = None /\ lapse' = 0
    /\ UNCHANGED <<dbVars, nodeVars>>

Tick ==
    /\ \E j \in Jobs : Live(row[j])
    /\ IF phase \in {"stopped", "idle"} THEN UNCHANGED lapse
       ELSE lapse < MaxLapse /\ lapse' = lapse + 1
    /\ row' = [j \in Jobs |->
                 IF Live(row[j])
                 THEN [row[j] EXCEPT
                         !.due = Max2(@ - 1, -MaxLate),
                         !.age = IF @ = Never THEN Never ELSE Min2(@ + 1, MaxTime)]
                 ELSE row[j]]
    /\ UNCHANGED <<order, phase, id, hand, use, offer, got, nodeVars, faults>>
-----------------------------------------------------------------------------
Worker ==
    \/ Pick \/ MarkSending \/ AskNonce \/ SubmitPayload \/ SubmitFails
    \/ SaveSubmitted \/ CheckTimeout \/ PollReceipt \/ PollFails \/ NoReceipt
    \/ AskFees \/ SubmitBump \/ BumpFails \/ SaveBumped \/ FindReplaced
    \/ NoneFound \/ Dropped

Node == Mine \/ MineElsewhere \/ Evict \/ Serve

Init ==
    /\ row = [j \in Jobs |-> NoRow] /\ order = <<>>
    /\ phase = "stopped" /\ id = NoJob /\ hand = NoRow /\ use = Never
    /\ offer = NoFees /\ got = None /\ lapse = 0
    /\ txs = <<>> /\ base = 0 /\ served = {} /\ faults = 0 /\ evictions = 0

Next ==
    \/ \E j \in Jobs : SubmitProof(j)
    \/ Start \/ Worker \/ PassFails \/ Crash \/ Tick \/ Node

Spec == Init /\ [][Next]_vars

\* The worker task runs, the process is restarted, the clock advances, and the
\* node comes to serve the receipts it has; nothing has to be mined.
FairSpec ==
    /\ Spec /\ WF_vars(Worker) /\ WF_vars(Start) /\ WF_vars(Tick)
    /\ WF_vars(Serve)
-----------------------------------------------------------------------------
(* Properties *)

Sent(j) == {h \in DOMAIN txs : txs[h].job = j}
Known(r) == {r.hash} \cup {r.prev[k] : k \in DOMAIN r.prev}

\* The rows and the worker's copy keep the types of RelayJob (model.rs).
TypeOK ==
    /\ \A j \in Jobs : row[j] \in RelayJob
    /\ hand \in RelayJob /\ id \in Jobs \cup {NoJob}
    /\ served \subseteq {h \in DOMAIN txs : txs[h].st = "mined"}

\* A confirmed job names a transaction that was mined, succeeded and carries
\* this job's payload: poll_submitted_job confirms from no other receipt.
ConfirmedIsMined ==
    \A j \in Jobs : row[j].status = "confirmed" =>
        LET h == row[j].hash IN
        h # None /\ txs[h].job = j /\ txs[h].st = "mined" /\ txs[h].ok

\* A payload uses at most one nonce per stored attempt, and more than one only
\* after a failure: send_queued_job stores the attempt before it broadcasts,
\* and a resubmitted tx_final does not start over.
NoncesAccounted ==
    \A j \in Jobs :
        LET n == Cardinality({txs[h].nonce : h \in Sent(j)}) IN
        n <= row[j].attempts /\ n <= 1 + faults

\* A fee bump replaces a transaction of its own job only, although a dropped
\* transaction's nonce is given to the next job (try_fee_bump asks for the
\* pending transaction first).
ReplacesOwn ==
    \A h \in DOMAIN txs : \A o \in txs[h].over : txs[o].job = txs[h].job

\* The caps of a fee bump at least double those of the transaction in the pool,
\* which is what blob pools ask of a replacement (config.rs).
BumpReplaces ==
    phase = "bump" /\ InPool(hand.hash) => Doubles(offer, txs[hand.hash].fees)

\* A row is never removed, a terminal one never changes, attempts never go
\* back, and the hash of a broadcast that was stored is not forgotten before
\* the job is confirmed.
KeepsHistory ==
    \A j \in Jobs :
        /\ row[j] # NoRow => row'[j] # NoRow
        /\ is_terminal(row[j]) => row'[j] = row[j]
        /\ row'[j].attempts >= row[j].attempts
        /\ row[j].hash # None /\ row'[j].status # "confirmed"
              => Known(row[j]) \subseteq Known(row'[j])
HistoryKept == [][KeepsHistory]_vars

\* With a receipt timeout every accepted job ends confirmed or failed.
JobsEnd ==
    \A j \in Jobs : Live(row[j]) ~> is_terminal(row[j])
=============================================================================
