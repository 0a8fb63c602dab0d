---------------------------- MODULE Transactions ----------------------------
(***************************************************************************)
(* The transaction lifecycle of the driver library (libs/driver): proving  *)
(* under input holds, recording, submission to the relayer, settlement     *)
(* against the synchronizer, pruning, deletion, import, and crashes.       *)
(*                                                                         *)
(* A transaction is named by its tx_final, the commitment of its created   *)
(* and nullifier sets, so Inputs and Outputs are functions of the name.    *)
(* The grounding block is NOT part of the name: the same transaction can   *)
(* be proved again later with a newer grounding.  An object stands for its *)
(* commitment, its nullifier and its file; file names are left out.        *)
(***************************************************************************)
EXTENDS Integers, FiniteSets

CONSTANTS
    Objs,       \* objects
    Txs,        \* transactions, by tx_final
    Inputs,     \* Inputs[t]: the objects t nullifies
    Outputs,    \* Outputs[t]: the objects t creates
    Owners,     \* proof owners: threads inside prove/record
    Passes,     \* threads inside settle_with
    InitLive,   \* objects on chain and held as live files at the start
    Foreign,    \* objects on chain held by other parties, and importable
    Repeatable, \* transactions whose keys are all given, so provable again
    Stealable,  \* objects another party also holds and may spend
    Submittable, \* bound: the transactions that are ever submitted
    CalmFrom,   \* bound: no process, disk or request fails from this block on
    MaxAge,     \* MAX_STATE_ROOT_AGE_BLOCKS
    MaxGround,  \* bound: no proof is grounded after this block
    MaxHead,    \* bound: the chain stops at this block
    NoTx,       \* no transaction
    NoOwner     \* no owner

ASSUME ObjsAssumption ==
    /\ Inputs \in [Txs -> SUBSET Objs]
    /\ Outputs \in [Txs -> SUBSET Objs]
    /\ InitLive \subseteq Objs
    /\ Foreign \subseteq Objs
    /\ Stealable \subseteq Objs
    /\ NoTx \notin Txs
    /\ NoOwner \notin Owners

\* A created commitment is fresh, never one the transaction nullifies, and
\* never one of the objects the chain starts with.
ASSUME FreshAssumption ==
    \A t \in Txs : Outputs[t] \cap (Inputs[t] \cup InitLive \cup Foreign) = {}

\* Outputs get random keys unless the action's arguments give them, so most
\* transactions are proved under a tx_final of their own.  One that can be
\* proved again spends at least one object.
ASSUME RepeatAssumption ==
    /\ Repeatable \subseteq Txs
    /\ \A t \in Repeatable : Inputs[t] # {}

ASSUME BoundAssumption ==
    /\ Submittable \subseteq Txs
    /\ CalmFrom \in Nat
    /\ MaxAge \in Nat
    /\ MaxGround \in Nat
    /\ MaxHead \in Nat

VARIABLES
    \* The network (external to the driver).
    head,       \* block number of the synchronizer's head
    chain,      \* chain[t]: what the committed blobs carrying t did
    foreign,    \* objects whose nullifier another party published
    wire,       \* wire[t]: groundings of the payloads on the way to the relayer
    job,        \* job[t]: grounding of the payload the relayer holds for t
    \* Durable: the object files and ~/.dobj/transactions.
    file,       \* file[o]: status and producing transaction
    payload,    \* payload[t]: grounding of payload.bin
    record,     \* record[t]: record.json
    \* Volatile.
    holds,      \* holds[o]: the HoldTable
    proof,      \* proof[w]: what owner w is proving
    sub,        \* sub[t]: the thread inside submit(t), under its submission lock
    pass,       \* pass[p]: the thread p inside settle_with
    reconciled, \* transactions in the reconciliation cache
    importing,  \* objects whose import passed its chain checks
    \* History: which names are used up, and, for the properties only,
    started,    \* transactions some call of prove has built
    halfDeleted \* transactions a delete failed or crashed in the middle of

network == <<head, chain, foreign, wire, job>>
durable == <<file, payload, record>>
volatile == <<holds, proof, sub, pass, reconciled, importing>>
vars == <<head, chain, foreign, wire, job, file, payload, record, holds,
          proof, sub, pass, reconciled, importing, started, halfDeleted>>
history == <<started, halfDeleted>>

NoBlock == -1
Blocks == 0..MaxHead
NoFile == [status |-> "absent", tx |-> NoTx]
NoRecord == [state |-> "none", attempted |-> FALSE, grounding |-> NoBlock]
NoProof == [phase |-> "idle", tx |-> NoTx, grounding |-> NoBlock]
NoSub == [phase |-> "idle", grounding |-> NoBlock]
NoPass == [phase |-> "idle", all |-> FALSE, queried |-> {}, needs |-> {},
           head |-> NoBlock, created |-> {}, spent |-> {},
           status |-> [t \in Txs |-> "unread"]]

-----------------------------------------------------------------------------
(* What the records and the chain say. *)

\* Whether the process, its disk and its requests may fail.
Failing == head < CalmFrom

grounding_aged_out(block, grounding) == block - grounding > MaxAge

IsOpen(r) == r.state \in {"recorded", "submitted"}
IsTerminal(r) == r.state \in {"landed", "expired"}
NeedsTxStatus(r) == IsOpen(r) /\ (r.attempted \/ r.state = "submitted")

\* Mutant: a transaction locks its inputs only once it is submitted.
locked_inputs_late ==
    UNION {Inputs[t] : t \in {u \in Txs : record[u].state = "submitted"}}

locked_inputs == UNION {Inputs[t] : t \in {u \in Txs : IsOpen(record[u])}}

Applied == {t \in Txs : chain[t] = "applied"}
Created == InitLive \cup Foreign \cup UNION {Outputs[t] : t \in Applied}
Spent == foreign \cup UNION {Inputs[t] : t \in Applied}

\* Whether the synchronizer applies a payload of t included in block b.
Acceptable(t, grounding, b) ==
    /\ ~grounding_aged_out(b, grounding)
    /\ Outputs[t] \cap Created = {}
    /\ Inputs[t] \cap Spent = {}

-----------------------------------------------------------------------------
Init ==
    /\ head = 0
    /\ chain = [t \in Txs |-> "absent"]
    /\ foreign = {}
    /\ wire = [t \in Txs |-> {}]
    /\ job = [t \in Txs |-> NoBlock]
    /\ file = [o \in Objs |-> IF o \in InitLive
                              THEN [status |-> "live", tx |-> NoTx]
                              ELSE NoFile]
    /\ payload = [t \in Txs |-> NoBlock]
    /\ record = [t \in Txs |-> NoRecord]
    /\ holds = [o \in Objs |-> NoOwner]
    /\ proof = [w \in Owners |-> NoProof]
    /\ sub = [t \in Txs |-> NoSub]
    /\ pass = [p \in Passes |-> NoPass]
    /\ reconciled = {}
    /\ importing = {}
    /\ started = {}
    /\ halfDeleted = {}

-----------------------------------------------------------------------------
(* The network.  One block carries at most one of our transactions. *)

EmptyBlock ==
    /\ head < MaxHead
    /\ head' = head + 1
    /\ UNCHANGED <<chain, foreign, wire, job, durable, volatile, history>>

\* The relayer gets its payload for t into a block.  An applied blob is what
\* by_final reports from then on, whatever later blobs carry.
IncludeTx(t) ==
    /\ head < MaxHead
    /\ job[t] # NoBlock
    /\ head' = head + 1
    /\ chain' = [chain EXCEPT ![t] =
                    IF @ = "applied" \/ Acceptable(t, job[t], head + 1)
                    THEN "applied" ELSE "rejected"]
    /\ UNCHANGED <<foreign, wire, job, durable, volatile, history>>

\* Another party that holds o spends it.
ForeignSpend(o) ==
    /\ head < MaxHead
    /\ o \in (Stealable \cap Created) \ Spent
    /\ head' = head + 1
    /\ foreign' = foreign \cup {o}
    /\ UNCHANGED <<chain, wire, job, durable, volatile, history>>

\* submit_proof at the relayer is idempotent by tx_final: the first payload
\* stays.  The caller may see the answer or time out.
RelayerAccept(t, g) ==
    /\ g \in wire[t]
    /\ wire' = [wire EXCEPT ![t] = @ \ {g}]
    /\ job' = [job EXCEPT ![t] = IF @ = NoBlock THEN g ELSE @]
    /\ \/ /\ sub[t] = [phase |-> "sent", grounding |-> g]
          /\ sub' = [sub EXCEPT ![t].phase = "answered"]
       \/ UNCHANGED sub
    /\ UNCHANGED <<head, chain, foreign, durable, holds, proof, pass,
                   reconciled, importing, history>>

-----------------------------------------------------------------------------
(* prove and record. *)

TakeHolds(w, t) ==
    holds' = [o \in Objs |-> IF o \in Inputs[t] THEN w ELSE holds[o]]
DropHolds(t) ==
    holds' = [o \in Objs |-> IF o \in Inputs[t] THEN NoOwner ELSE holds[o]]

\* The locked section of prove: inputs resolve to live files and are held,
\* all or none.
Prove(w, t) ==
    /\ head <= MaxGround
    /\ proof[w].phase = "idle"
    /\ t \in Repeatable \/ t \notin started
    /\ \A o \in Inputs[t] : /\ file[o].status = "live"
                            /\ holds[o] = NoOwner
                            /\ o \notin locked_inputs
    /\ TakeHolds(w, t)
    /\ proof' = [proof EXCEPT ![w] = [phase |-> "held", tx |-> t,
                                      grounding |-> NoBlock]]
    /\ started' = started \cup {t}
    /\ UNCHANGED <<network, durable, sub, pass, reconciled, importing,
                   halfDeleted>>

\* fetch_grounding_witness, outside the lock; then the proof is computed.
Ground(w) ==
    /\ head <= MaxGround
    /\ proof[w].phase = "held"
    /\ Inputs[proof[w].tx] \subseteq Created
    /\ proof' = [proof EXCEPT ![w].phase = "proved", ![w].grounding = head]
    /\ UNCHANGED <<network, durable, holds, sub, pass, reconciled, importing,
                   history>>

\* Any error of prove or record, a refusal included: the holds are dropped
\* and what record wrote is rolled back.
Abandon(w) ==
    /\ proof[w].phase # "idle"
    /\ DropHolds(proof[w].tx)
    /\ proof' = [proof EXCEPT ![w] = NoProof]
    /\ UNCHANGED <<network, durable, sub, pass, reconciled, importing,
                   history>>

\* The checks of record, under the store lock.
Recordable(t) ==
    /\ \A o \in Inputs[t] : o \notin locked_inputs /\ file[o].status = "live"
    /\ record[t].state = "none"
    /\ \A o \in Outputs[t] : file[o].status = "absent"

\* Write the outputs S of t as unknown files.
WriteOutputs(t, S) ==
    file' = [o \in Objs |-> IF o \in S THEN [status |-> "unknown", tx |-> t]
                                       ELSE file[o]]

Record(w) ==
    LET t == proof[w].tx IN
    /\ proof[w].phase = "proved"
    /\ Recordable(t)
    /\ WriteOutputs(t, Outputs[t])
    /\ payload' = [payload EXCEPT ![t] = proof[w].grounding]
    /\ record' = [record EXCEPT ![t] = [state |-> "recorded",
                                        attempted |-> FALSE,
                                        grounding |-> proof[w].grounding]]
    /\ DropHolds(t)
    /\ proof' = [proof EXCEPT ![w] = NoProof]
    /\ UNCHANGED <<network, sub, pass, reconciled, importing, history>>

\* Mutant: the record is renamed into place before the outputs are written.
RecordInterrupted_early(w) ==
    LET t == proof[w].tx IN
    /\ Failing
    /\ proof[w].phase = "proved"
    /\ Recordable(t)
    /\ \E S \in SUBSET Outputs[t] : WriteOutputs(t, S)
    /\ payload' = [payload EXCEPT ![t] = proof[w].grounding]
    /\ record' = [record EXCEPT ![t] = [state |-> "recorded",
                                        attempted |-> FALSE,
                                        grounding |-> proof[w].grounding]]
    /\ DropHolds(t)
    /\ proof' = [proof EXCEPT ![w] = NoProof]
    /\ UNCHANGED <<network, sub, pass, reconciled, importing, history>>

\* A crash, or a failed rollback, before the record is renamed into place:
\* some outputs stay, and the payload only if every output was written.
RecordInterrupted(w) ==
    LET t == proof[w].tx IN
    /\ Failing
    /\ proof[w].phase = "proved"
    /\ Recordable(t)
    /\ \E S \in SUBSET Outputs[t] :
          /\ WriteOutputs(t, S)
          /\ \/ UNCHANGED payload
             \/ /\ S = Outputs[t]
                /\ payload' = [payload EXCEPT ![t] = proof[w].grounding]
    /\ DropHolds(t)
    /\ proof' = [proof EXCEPT ![w] = NoProof]
    /\ UNCHANGED <<network, record, sub, pass, reconciled, importing,
                   history>>

-----------------------------------------------------------------------------
(* delete_transaction. *)

UnknownOutputs(t) ==
    {o \in Outputs[t] : file[o].status = "unknown" /\ file[o].tx = t}

RemoveFiles(S) ==
    file' = [o \in Objs |-> IF o \in S THEN NoFile ELSE file[o]]

\* Mutant: an attempted record may be deleted.
Deletable_attempted(t) == record[t].state = "recorded"

Deletable(t) == record[t].state = "recorded" /\ ~record[t].attempted

Delete(t) ==
    /\ Deletable(t)
    /\ RemoveFiles(UnknownOutputs(t))
    /\ payload' = [payload EXCEPT ![t] = NoBlock]
    /\ record' = [record EXCEPT ![t] = NoRecord]
    /\ halfDeleted' = halfDeleted \ {t}
    /\ UNCHANGED <<network, volatile, started>>

\* The outputs go first, then the directory with payload and record, so an
\* error or a crash on the way leaves the record.
DeleteInterrupted(t) ==
    /\ Failing
    /\ Deletable(t)
    /\ \E S \in SUBSET UnknownOutputs(t) :
          /\ RemoveFiles(S)
          /\ \/ UNCHANGED payload
             \/ /\ S = UnknownOutputs(t)
                /\ payload' = [payload EXCEPT ![t] = NoBlock]
    /\ halfDeleted' = halfDeleted \cup {t}
    /\ UNCHANGED <<network, record, volatile, started>>

-----------------------------------------------------------------------------
(* submit, by one thread per transaction at a time. *)

\* The unlocked read of the record.
SubmitRead(t) ==
    /\ sub[t].phase = "idle"
    /\ record[t].state = "recorded"
    /\ sub' = [sub EXCEPT ![t] = [phase |-> "read",
                                  grounding |-> record[t].grounding]]
    /\ UNCHANGED <<network, durable, holds, proof, pass, reconciled,
                   importing, history>>

\* fetch_head: refuse a grounding that has aged out.
SubmitCheck(t) ==
    /\ sub[t].phase = "read"
    /\ sub' = [sub EXCEPT ![t] =
                  IF grounding_aged_out(head, sub[t].grounding) THEN NoSub
                  ELSE [phase |-> "checked", grounding |-> NoBlock]]
    /\ UNCHANGED <<network, durable, holds, proof, pass, reconciled,
                   importing, history>>

\* The unlocked read of payload.bin.
SubmitLoad(t) ==
    /\ sub[t].phase = "checked"
    /\ payload[t] # NoBlock
    /\ sub' = [sub EXCEPT ![t] = [phase |-> "loaded",
                                  grounding |-> payload[t]]]
    /\ UNCHANGED <<network, durable, holds, proof, pass, reconciled,
                   importing, history>>

\* Under the store lock, mark the attempt on the record as it is now, then
\* make the request.
SubmitAttempt(t) ==
    /\ sub[t].phase = "loaded"
    /\ record[t].state = "recorded"
    /\ record' = [record EXCEPT ![t].attempted = TRUE]
    /\ sub' = [sub EXCEPT ![t].phase = "sent"]
    /\ wire' = [wire EXCEPT ![t] = @ \cup {sub[t].grounding}]
    /\ UNCHANGED <<head, chain, foreign, job, file, payload, holds, proof,
                   pass, reconciled, importing, history>>

\* Any error return, or an early return on a record that moved on: no
\* payload, no record, the request failed or timed out.
SubmitStop(t) ==
    /\ sub[t].phase # "idle"
    /\ sub' = [sub EXCEPT ![t] = NoSub]
    /\ UNCHANGED <<network, durable, holds, proof, pass, reconciled,
                   importing, history>>

\* The answer is written to the record as it is now, if still recorded.
SubmitFinish(t) ==
    /\ sub[t].phase = "answered"
    /\ record[t].state = "recorded"
    /\ record' = [record EXCEPT ![t].state = "submitted"]
    /\ sub' = [sub EXCEPT ![t] = NoSub]
    /\ UNCHANGED <<network, file, payload, holds, proof, pass, reconciled,
                   importing, history>>

-----------------------------------------------------------------------------
(* settle_with: four reads without the lock, then one locked update. *)

SetPass(p, r) ==
    /\ pass' = [pass EXCEPT ![p] = r]
    /\ UNCHANGED <<network, durable, holds, proof, sub, reconciled,
                   importing, history>>

\* Mutant: only records offered to the relayer are queried.
SettleLoad_attempted(p, all) ==
    /\ pass[p].phase = "idle"
    /\ all \/ \E t \in Txs : IsOpen(record[t])
    /\ SetPass(p, [NoPass EXCEPT
                     !.phase = "loaded",
                     !.all = all,
                     !.queried = {t \in Txs : NeedsTxStatus(record[t])},
                     !.needs = {t \in Txs : NeedsTxStatus(record[t])}])

\* Load the records.  settle stops at once when none is open; sync_objects
\* (all) goes on.
SettleLoad(p, all) ==
    /\ pass[p].phase = "idle"
    /\ all \/ \E t \in Txs : IsOpen(record[t])
    /\ SetPass(p, [NoPass EXCEPT
                     !.phase = "loaded",
                     !.all = all,
                     !.queried = {t \in Txs : IsOpen(record[t])},
                     !.needs = {t \in Txs : NeedsTxStatus(record[t])}])

\* Read the head, with the membership of every object file for sync_objects
\* (one request holds up to 256 hashes).
SettleHead(p) ==
    /\ pass[p].phase = "loaded"
    /\ LET scanned == IF pass[p].all
                      THEN {o \in Objs : file[o].status # "absent"} ELSE {}
       IN SetPass(p, [pass[p] EXCEPT !.phase = "queried",
                                     !.head = head,
                                     !.created = Created \cap scanned,
                                     !.spent = Spent \cap scanned])

\* fetch_tx_status, one request per attempted record.
SettleStatus(p, t) ==
    /\ pass[p].phase = "queried"
    /\ t \in pass[p].needs
    /\ pass[p].status[t] = "unread"
    /\ SetPass(p, [pass[p] EXCEPT !.status[t] = chain[t]])

\* Any request fails: the pass changes nothing.
SettleFail(p) ==
    /\ Failing
    /\ pass[p].phase # "idle"
    /\ SetPass(p, NoPass)

\* The state a pass gives the record of t.
Decision(p, t) ==
    CASE pass[p].status[t] = "applied" -> "landed"
      [] pass[p].status[t] = "rejected" -> "expired"
      [] pass[p].status[t] \in {"absent", "unread"}
         /\ grounding_aged_out(pass[p].head, record[t].grounding) -> "expired"
      [] OTHER -> record[t].state

\* Mutant: a submission attempted since the pass began is decided anyway.
Decides_raced(p, t) == t \in pass[p].queried /\ IsOpen(record[t])

\* A submission attempted after the statuses were read waits for the next
\* pass; so does a record the pass did not query.
Decides(p, t) ==
    /\ t \in pass[p].queried
    /\ IsOpen(record[t])
    /\ NeedsTxStatus(record[t]) => pass[p].status[t] # "unread"

Changed(p) ==
    {t \in Txs : Decides(p, t) /\ Decision(p, t) # record[t].state}

\* Mutant: an expired record has its inputs nullified too.
Persisted_expired(o, rs, T) ==
    LET mine(S) == file[o].tx \in S /\ o \in Outputs[file[o].tx]
    IN IF file[o].status = "absent" THEN file[o]
       ELSE IF \E t \in T : o \in Inputs[t]
       THEN [file[o] EXCEPT !.status = "nullified"]
       ELSE IF file[o].status # "unknown" THEN file[o]
       ELSE IF mine({t \in T : rs[t].state = "landed"})
       THEN [file[o] EXCEPT !.status = "live"]
       ELSE IF mine({t \in T : rs[t].state = "expired"}) THEN NoFile
       ELSE file[o]

\* persist_settled_objects for the terminal records rs of the set T: an
\* expired record loses its unknown outputs; a landed one has its inputs
\* nullified and its unknown outputs live.
Persisted(o, rs, T) ==
    LET landed == {t \in T : rs[t].state = "landed"}
        expired == {t \in T : rs[t].state = "expired"}
        mine(S) == file[o].tx \in S /\ o \in Outputs[file[o].tx]
    IN IF file[o].status = "absent" THEN file[o]
       ELSE IF \E t \in landed : o \in Inputs[t]
       THEN [file[o] EXCEPT !.status = "nullified"]
       ELSE IF file[o].status # "unknown" THEN file[o]
       ELSE IF mine(landed) THEN [file[o] EXCEPT !.status = "live"]
       ELSE IF mine(expired) THEN NoFile
       ELSE file[o]

\* Mutant: creation is looked at before the nullifier.
ChainFileStatus_created(f, spent, created) ==
    IF f.status = "absent" THEN f
    ELSE IF created THEN [f EXCEPT !.status = "live"]
    ELSE IF spent THEN [f EXCEPT !.status = "nullified"]
    ELSE f

\* chain_file_status: a file only moves forward.
ChainFileStatus(f, spent, created) ==
    IF f.status = "absent" THEN f
    ELSE IF spent THEN [f EXCEPT !.status = "nullified"]
    ELSE IF f.status = "unknown" /\ created THEN [f EXCEPT !.status = "live"]
    ELSE f

Reconciled(p, o, f) ==
    ChainFileStatus(f, o \in pass[p].spent, o \in pass[p].created)

SettledRecords(p, S) ==
    [t \in Txs |-> IF t \in S THEN [record[t] EXCEPT !.state = Decision(p, t)]
                              ELSE record[t]]

\* The locked section, complete.
SettleApply(p) ==
    LET S == Changed(p)
        rs == SettledRecords(p, S)
    IN
    /\ pass[p].phase = "queried"
    /\ \A t \in pass[p].needs : pass[p].status[t] # "unread"
    /\ record' = rs
    /\ file' = [o \in Objs |-> Reconciled(p, o, Persisted(o, rs, S))]
    /\ pass' = [pass EXCEPT ![p] = NoPass]
    /\ UNCHANGED <<network, payload, holds, proof, sub, reconciled,
                   importing, history>>

\* The locked section cut short by an error or a crash: records are written
\* one by one; files only after all of them, first by the records (P), then
\* by the membership (R).
SettleInterrupted(p) ==
    /\ Failing
    /\ pass[p].phase = "queried"
    /\ \A t \in pass[p].needs : pass[p].status[t] # "unread"
    /\ \E S \in SUBSET Changed(p), P \in SUBSET Objs,
          R \in SUBSET (pass[p].created \cup pass[p].spent) :
          LET rs == SettledRecords(p, S)
              persisted(o) == IF o \in P THEN Persisted(o, rs, S) ELSE file[o]
          IN
          /\ S # Changed(p) => P = {} /\ R = {}
          /\ record' = rs
          /\ file' = [o \in Objs |-> IF o \in R THEN Reconciled(p, o, persisted(o))
                                               ELSE persisted(o)]
    /\ pass' = [pass EXCEPT ![p] = NoPass]
    /\ UNCHANGED <<network, payload, holds, proof, sub, reconciled,
                   importing, history>>

-----------------------------------------------------------------------------
(* prune_transactions, import_object, and the process itself. *)

\* Mutant: a due record the cache calls reconciled is not brought in line.
Prune_cached(due, failed) ==
    LET terminal == {t \in Txs : IsTerminal(record[t])}
        persisted == terminal \ (reconciled \cup failed \cup due)
        removed == due \ failed
    IN
    /\ due \subseteq terminal
    /\ failed \subseteq terminal
    /\ failed # {} => Failing
    /\ file' = [o \in Objs |-> Persisted(o, record, persisted)]
    /\ record' = [t \in Txs |-> IF t \in removed THEN NoRecord ELSE record[t]]
    /\ payload' = [t \in Txs |-> IF t \in removed THEN NoBlock ELSE payload[t]]
    /\ reconciled' = (((reconciled \cap terminal) \cup persisted) \ failed)
                         \ removed
    /\ halfDeleted' = halfDeleted \ removed
    /\ UNCHANGED <<network, holds, proof, sub, pass, importing, started>>

\* Terminal records past their retention (due) are removed after their files
\* are brought in line once more; the others are brought in line unless the
\* cache says they are.  A record whose files cannot all be written (failed)
\* is retained, with some of them written (done).
Prune(due, failed) ==
    LET terminal == {t \in Txs : IsTerminal(record[t])}
        persisted == {t \in terminal : t \in due \/ t \notin reconciled} \ failed
        removed == due \ failed
    IN
    /\ due \subseteq terminal
    /\ failed \subseteq terminal
    /\ failed # {} => Failing
    /\ \E done \in SUBSET UNION {Inputs[t] \cup Outputs[t] : t \in failed} :
          file' = [o \in Objs |-> Persisted(o, record, IF o \in done
                                                       THEN persisted \cup failed
                                                       ELSE persisted)]
    /\ record' = [t \in Txs |-> IF t \in removed THEN NoRecord ELSE record[t]]
    /\ payload' = [t \in Txs |-> IF t \in removed THEN NoBlock ELSE payload[t]]
    /\ reconciled' = (((reconciled \cap terminal) \cup persisted) \ failed)
                         \ removed
    /\ halfDeleted' = halfDeleted \ removed
    /\ UNCHANGED <<network, holds, proof, sub, pass, importing, started>>

\* The chain checks of import_object, without the lock.
ImportCheck(o) ==
    /\ o \in Foreign \ Spent
    /\ file[o].status = "absent"
    /\ o \notin importing
    /\ importing' = importing \cup {o}
    /\ UNCHANGED <<network, durable, holds, proof, sub, pass, reconciled,
                   history>>

\* The locked section of import_object; it may also fail.
ImportFile(o) ==
    /\ o \in importing
    /\ importing' = importing \ {o}
    /\ \/ UNCHANGED file
       \/ /\ file[o].status = "absent"
          /\ file' = [file EXCEPT ![o] = [status |-> "live", tx |-> NoTx]]
    /\ UNCHANGED <<network, payload, record, holds, proof, sub, pass,
                   reconciled, history>>

\* The process stops and starts again: everything in memory is lost.
Crash ==
    /\ Failing
    /\ holds' = [o \in Objs |-> NoOwner]
    /\ proof' = [w \in Owners |-> NoProof]
    /\ sub' = [t \in Txs |-> NoSub]
    /\ pass' = [p \in Passes |-> NoPass]
    /\ reconciled' = {}
    /\ importing' = {}
    /\ UNCHANGED <<network, durable, history>>

-----------------------------------------------------------------------------
Block ==
    \/ EmptyBlock
    \/ \E t \in Txs : IncludeTx(t)
    \/ \E o \in Objs : ForeignSpend(o)

ProofStep ==
    \E w \in Owners :
        \/ \E t \in Txs : Prove(w, t)
        \/ Ground(w)
        \/ Abandon(w)
        \/ Record(w)
        \/ RecordInterrupted(w)

SubmitStep ==
    \E t \in Submittable :
        \/ SubmitRead(t)
        \/ SubmitCheck(t)
        \/ SubmitLoad(t)
        \/ SubmitAttempt(t)
        \/ SubmitStop(t)
        \/ SubmitFinish(t)

SettleStep(p) ==
    \/ \E all \in BOOLEAN : SettleLoad(p, all)
    \/ SettleHead(p)
    \/ \E t \in Txs : SettleStatus(p, t)
    \/ SettleFail(p)
    \/ SettleApply(p)
    \/ SettleInterrupted(p)

Next ==
    \/ Block
    \/ \E t \in Txs, g \in Blocks : RelayerAccept(t, g)
    \/ ProofStep
    \/ \E t \in Txs : Delete(t) \/ DeleteInterrupted(t)
    \/ SubmitStep
    \/ \E p \in Passes : SettleStep(p)
    \/ \E due, failed \in SUBSET Txs : Prune(due, failed)
    \/ \E o \in Objs : ImportCheck(o) \/ ImportFile(o)
    \/ Crash

Spec == Init /\ [][Next]_vars

\* The daemon keeps passes running, one at a time, and blocks keep coming.
FairSpec ==
    /\ Spec
    /\ WF_vars(Block)
    /\ \A p \in Passes :
          /\ WF_vars(SettleLoad(p, FALSE))
          /\ WF_vars(SettleHead(p))
          /\ \A t \in Txs : WF_vars(SettleStatus(p, t))
          /\ WF_vars(SettleApply(p))

-----------------------------------------------------------------------------
(* Properties. *)

FileType == [status : {"absent", "unknown", "live", "nullified"},
             tx : Txs \cup {NoTx}]
RecordType ==
    [state : {"none", "recorded", "submitted", "landed", "expired"},
     attempted : BOOLEAN, grounding : Nat \cup {NoBlock}]
ProofType == [phase : {"idle", "held", "proved"}, tx : Txs \cup {NoTx},
              grounding : Nat \cup {NoBlock}]
SubType ==
    [phase : {"idle", "read", "checked", "loaded", "sent", "answered"},
     grounding : Nat \cup {NoBlock}]
PassType ==
    [phase : {"idle", "loaded", "queried"}, all : BOOLEAN,
     queried : SUBSET Txs, needs : SUBSET Txs, head : Nat \cup {NoBlock},
     created : SUBSET Objs, spent : SUBSET Objs,
     status : [Txs -> {"unread", "absent", "applied", "rejected"}]]

\* Every variable keeps its type; a proof in progress is of a transaction,
\* and a submission that has read payload.bin has a payload.
TypeOK ==
    /\ head \in Nat
    /\ chain \in [Txs -> {"absent", "applied", "rejected"}]
    /\ foreign \subseteq Objs
    /\ wire \in [Txs -> SUBSET Nat]
    /\ job \in [Txs -> Nat \cup {NoBlock}]
    /\ file \in [Objs -> FileType]
    /\ payload \in [Txs -> Nat \cup {NoBlock}]
    /\ record \in [Txs -> RecordType]
    /\ holds \in [Objs -> Owners \cup {NoOwner}]
    /\ proof \in [Owners -> ProofType]
    /\ \A w \in Owners : proof[w].phase # "idle" => proof[w].tx \in Txs
    /\ sub \in [Txs -> SubType]
    /\ \A t \in Txs : sub[t].phase \in {"loaded", "sent", "answered"} =>
                         sub[t].grounding # NoBlock
    /\ pass \in [Passes -> PassType]
    /\ reconciled \subseteq Txs
    /\ importing \subseteq Foreign
    /\ started \subseteq Txs
    /\ halfDeleted \subseteq Txs

\* No two open transactions spend the same object (record's check of
\* locked_inputs under the store lock).
OpenInputsDisjoint ==
    \A t, u \in Txs : IsOpen(record[t]) /\ IsOpen(record[u]) /\ t # u
                        => Inputs[t] \cap Inputs[u] = {}

\* A proof in progress holds all its inputs, alone, and none of them is
\* spent by an open transaction (HoldTable.take and record).
HoldsExclusive ==
    \A w \in Owners : proof[w].phase # "idle" =>
        \A o \in Inputs[proof[w].tx] : holds[o] = w /\ o \notin locked_inputs

\* t has not landed and no longer can: neither with the payload the relayer
\* holds nor, while it holds none, with one still on the way to it.
Dead(t) ==
    /\ chain[t] # "applied"
    /\ job[t] # NoBlock => ~Acceptable(t, job[t], head + 1)
    /\ job[t] = NoBlock => \A g \in wire[t] : ~Acceptable(t, g, head + 1)

\* A landed record was applied by the chain, and an expired one can never be
\* (settle_with's decision from a head read before the statuses, and the
\* attempt guard).
TerminalAgreesWithChain ==
    \A t \in Txs :
        /\ record[t].state = "landed" => chain[t] = "applied"
        /\ record[t].state = "expired" => Dead(t)

\* A live file is of an object the chain created, and a file is nullified
\* only when the chain holds its nullifier, whatever stale membership a
\* pass or an import worked from.
ChainBacksFiles ==
    \A o \in Objs :
        /\ file[o].status = "live" => o \in Created
        /\ file[o].status = "nullified" => o \in Spent

\* The outputs of a transaction that can still land, or has landed, are on
\* disk, so landing never loses an object; an interrupted delete is the
\* exception.
OutputsKept ==
    \A t \in Txs \ halfDeleted :
        IsOpen(record[t]) \/ record[t].state = "landed" =>
            \A o \in Outputs[t] : file[o].status # "absent"

\* An object file only moves forward, keeps its producer, and disappears
\* only while unknown (chain_file_status, persist_settled_objects,
\* remove_unknown_outputs).
Rank(status) == CASE status = "unknown" -> 1
                  [] status = "live" -> 2
                  [] status = "nullified" -> 3
                  [] OTHER -> 0
FileStep(f, g) ==
    f.status # "absent" =>
        \/ f.status = "unknown" /\ g.status = "absent"
        \/ Rank(f.status) <= Rank(g.status) /\ f.tx = g.tx
FilesMoveForward == [][\A o \in Objs : FileStep(file[o], file'[o])]_vars

\* An attempt is durable: an attempted record stays attempted until the
\* chain decides, and is never deleted while open.  Terminal states are
\* final until the record is pruned.
RecordStep(r, s) ==
    /\ IsOpen(r) /\ r.attempted => s.attempted /\ s.state # "none"
    /\ IsTerminal(r) => s = r \/ s = NoRecord
    /\ r.state = "submitted" => s.state # "recorded"
AttemptsDurable == [][\A t \in Txs : RecordStep(record[t], record'[t])]_vars

\* When a record goes away, deleted or pruned, its files are in line with
\* it: no unknown output is left behind, and the inputs of a landed one are
\* no longer live (prune replays persist_settled_objects first).
RecordGone(t) ==
    record[t].state # "none" /\ record'[t].state = "none" =>
        /\ \A o \in Outputs[t] :
              ~(file'[o].status = "unknown" /\ file'[o].tx = t)
        /\ record[t].state = "landed" =>
              \A o \in Inputs[t] : file'[o].status # "live"
CleanRemoval == [][\A t \in Txs : RecordGone(t)]_vars

\* Once the synchronizer stays reachable, the disk writable and the process
\* up, every open transaction is settled: landed, expired, or deleted.
OpenSettles == \A t \in Txs : IsOpen(record[t]) ~> ~IsOpen(record[t])

-----------------------------------------------------------------------------
(* The inductive strengthening of TerminalAgreesWithChain. *)

\* No copy of t's payload, on disk, in a submission, on the wire or at the
\* relayer, is grounded after block g.
NotNewer(t, g) ==
    /\ job[t] <= g
    /\ payload[t] <= g
    /\ sub[t].grounding <= g
    /\ \A x \in wire[t] : x <= g

Fresh(t) ==
    /\ chain[t] = "absent"
    /\ job[t] = NoBlock
    /\ payload[t] = NoBlock
    /\ wire[t] = {}
    /\ sub[t] = NoSub
    /\ record[t].state = "none"

Proving(w, t) == proof[w].phase # "idle" /\ proof[w].tx = t

\* A transaction is proved by one owner at a time, never while its record is
\* open, and one that cannot be repeated only before anything else.
ProofsAlone ==
    /\ \A t \in Txs \ started : Fresh(t)
    /\ \A w \in Owners : proof[w].phase # "idle" =>
          /\ proof[w].tx \in started
          /\ proof[w].tx \notin Repeatable =>
                /\ Fresh(proof[w].tx)
                /\ \A v \in Owners : Proving(v, proof[w].tx) => v = w

\* A newer proof is grounded no earlier than every copy of an older one.
GroundingsOrdered ==
    /\ \A t \in Txs : NotNewer(t, head) /\ record[t].grounding <= head
    /\ \A w \in Owners : proof[w].grounding <= head
    /\ \A t \in Txs : IsOpen(record[t]) => NotNewer(t, record[t].grounding)
    /\ \A w \in Owners : proof[w].phase = "proved" =>
          NotNewer(proof[w].tx, proof[w].grounding)

\* What a pass read stays true, and a status it read as absent was absent
\* from every block up to the head it read before.
SnapshotSound(p) ==
    /\ pass[p].head <= head
    /\ pass[p].created \subseteq Created
    /\ pass[p].spent \subseteq Spent
    /\ \A t \in Txs :
          /\ pass[p].phase # "queried" => pass[p].status[t] = "unread"
          /\ pass[p].status[t] \in {"applied", "rejected"} =>
                chain[t] = pass[p].status[t]
          /\ pass[p].status[t] = "absent" /\ chain[t] = "applied" =>
                ~grounding_aged_out(pass[p].head + 1, job[t])
SnapshotsSound == \A p \in Passes : SnapshotSound(p)

ChainSound ==
    \A t \in Txs :
        /\ chain[t] # "absent" => job[t] # NoBlock
        /\ chain[t] = "rejected" => ~Acceptable(t, job[t], head + 1)

\* A record that was never offered is of a transaction that cannot land, so
\* it may be deleted, or expired on the head alone.
UnofferedDead ==
    \A t \in Txs :
        /\ record[t].state = "recorded" /\ ~record[t].attempted => Dead(t)
        /\ record[t].state = "none" =>
              \/ Dead(t)
              \/ t \notin Repeatable
              \/ \E o \in Inputs[t] : file[o].status = "nullified"

InputsPresent ==
    \A t \in Txs : record[t].state # "none" =>
        \A o \in Inputs[t] : file[o].status \in {"live", "nullified"}

\* The conjunction holds initially and is kept by every step.
AgreementInv ==
    /\ TypeOK
    /\ HoldsExclusive
    /\ ProofsAlone
    /\ GroundingsOrdered
    /\ SnapshotsSound
    /\ ChainSound
    /\ UnofferedDead
    /\ InputsPresent
    /\ TerminalAgreesWithChain

-----------------------------------------------------------------------------
(* The synchronizer follows the beacon head, not finality: it may roll back *)
(* to below the block that applied t and follow a branch without it.        *)
Reorg(t) ==
    /\ chain[t] = "applied"
    /\ chain' = [chain EXCEPT ![t] = "absent"]
    /\ UNCHANGED <<head, foreign, wire, job, durable, volatile, history>>

=============================================================================
