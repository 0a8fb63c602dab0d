-------------------------- MODULE TransactionsSteps --------------------------
(***************************************************************************)
(* What a step of Transactions can change: the chain only grows, a pass    *)
(* keeps a sound snapshot, and records, proofs and the copies of a payload *)
(* change only in the ways their handlers allow.                           *)
(***************************************************************************)
EXTENDS TransactionsProofs

USE DEF NoBlock

-----------------------------------------------------------------------------
(* The chain only grows. *)

LEMMA NetworkFrame ==
    ASSUME [Next]_vars
    PROVE  \/ Block
           \/ \E t \in Txs, g \in Blocks : RelayerAccept(t, g)
           \/ \E t \in Txs : SubmitAttempt(t)
           \/ UNCHANGED network
<1>1. ASSUME NEW w \in Owners,
             \/ \E t \in Txs : Prove(w, t)
             \/ Ground(w) \/ Abandon(w) \/ Record(w) \/ RecordInterrupted(w)
      PROVE  UNCHANGED network
  BY <1>1 DEF Prove, Ground, Abandon, Record, RecordInterrupted
<1>2. ASSUME NEW t \in Txs, Delete(t) \/ DeleteInterrupted(t)
      PROVE  UNCHANGED network
  BY <1>2 DEF Delete, DeleteInterrupted
<1>3. ASSUME NEW t \in Txs, \/ SubmitRead(t) \/ SubmitCheck(t) \/ SubmitLoad(t)
                            \/ SubmitStop(t) \/ SubmitFinish(t)
      PROVE  UNCHANGED network
  BY <1>3, SMTT(30) DEF SubmitRead, SubmitCheck, SubmitLoad, SubmitStop, SubmitFinish
<1>4. ASSUME NEW p \in Passes, SettleStep(p)
      PROVE  UNCHANGED network
  BY <1>4, Zenon DEF SettleStep, SettleLoad, SettleHead, SettleStatus, SettleFail,
              SetPass, SettleApply, SettleInterrupted
<1>5. ASSUME NEW due \in SUBSET Txs, NEW failed \in SUBSET Txs,
             Prune(due, failed)
      PROVE  UNCHANGED network
  BY <1>5 DEF Prune
<1>6. ASSUME NEW o \in Objs, ImportCheck(o) \/ ImportFile(o)
      PROVE  UNCHANGED network
  BY <1>6 DEF ImportCheck, ImportFile
<1>7. CASE Crash
  BY <1>7 DEF Crash
<1>8. CASE UNCHANGED vars
  BY <1>8 DEF vars, network
<1>9. QED
  BY <1>1, <1>2, <1>3, <1>4, <1>5, <1>6, <1>7, <1>8, BoundAssumption
     DEF Next, ProofStep, SubmitStep

LEMMA ChainGrows ==
    ASSUME TypeOK, [Next]_vars
    PROVE  /\ head' \in Nat /\ head <= head'
           /\ Applied \subseteq Applied'
           /\ Created \subseteq Created'
           /\ Spent \subseteq Spent'
<1>1. /\ head' \in Nat /\ head <= head'
      /\ Applied \subseteq Applied'
      /\ foreign \subseteq foreign'
  <2>1. CASE EmptyBlock
    BY <2>1 DEF TypeOK, EmptyBlock, Applied
  <2>2. ASSUME NEW t \in Txs, IncludeTx(t)
        PROVE  /\ head' \in Nat /\ head <= head'
               /\ Applied \subseteq Applied'
               /\ foreign \subseteq foreign'
    BY <2>2 DEF TypeOK, IncludeTx, Applied
  <2>3. ASSUME NEW o \in Objs, ForeignSpend(o)
        PROVE  /\ head' \in Nat /\ head <= head'
               /\ Applied \subseteq Applied'
               /\ foreign \subseteq foreign'
    BY <2>3 DEF TypeOK, ForeignSpend, Applied
  <2>4. CASE UNCHANGED <<head, chain, foreign>>
    BY <2>4 DEF TypeOK, Applied
  <2>5. QED
    BY <2>1, <2>2, <2>3, <2>4, NetworkFrame, Zenon
       DEF Block, RelayerAccept, SubmitAttempt, network
<1>2. QED
  BY <1>1 DEF Created, Spent

\* What the synchronizer would refuse now it refuses later.
LEMMA RefusedStays ==
    ASSUME TypeOK, [Next]_vars, NEW t \in Txs, NEW g \in Int,
           ~Acceptable(t, g, head + 1)
    PROVE  ~Acceptable(t, g, head + 1)'
BY ChainGrows, BoundAssumption DEF TypeOK, Acceptable, grounding_aged_out

\* The payload the relayer holds for a transaction never changes.
LEMMA JobKept ==
    ASSUME TypeOK, [Next]_vars, NEW t \in Txs, job[t] # NoBlock
    PROVE  job'[t] = job[t]
BY NetworkFrame, ZenonT(30) DEF TypeOK, Block, EmptyBlock, IncludeTx, ForeignSpend,
                    RelayerAccept, SubmitAttempt, network

\* A transaction gets an outcome only from a block that includes it.
LEMMA ChainKept ==
    ASSUME TypeOK, [Next]_vars, NEW t \in Txs, ~IncludeTx(t)
    PROVE  chain'[t] = chain[t]
<1>1. ASSUME NEW u \in Txs, IncludeTx(u)
      PROVE  chain'[t] = chain[t]
  BY <1>1, Zenon DEF TypeOK, IncludeTx
<1>2. QED
  BY <1>1, NetworkFrame, Zenon DEF Block, EmptyBlock, ForeignSpend, RelayerAccept,
                            SubmitAttempt, network

LEMMA ChainSoundNext ==
    TypeOK /\ ChainSound /\ [Next]_vars => ChainSound'
<1> SUFFICES ASSUME TypeOK, ChainSound, [Next]_vars, NEW t \in Txs,
                    chain'[t] # "absent"
             PROVE  /\ job'[t] # NoBlock
                    /\ chain'[t] = "rejected" =>
                          ~Acceptable(t, job[t], head + 1)'
  BY DEF ChainSound
<1>1. job[t] # NoBlock /\ job[t] \in Int
  BY ChainKept DEF ChainSound, IncludeTx, TypeOK
<1>2. job'[t] = job[t]
  BY <1>1, JobKept
<1>3. ASSUME chain'[t] = "rejected"
      PROVE  ~Acceptable(t, job[t], head + 1)
  BY <1>3, ChainKept DEF ChainSound, IncludeTx, TypeOK
<1>4. ASSUME NEW g, g = job[t], ~Acceptable(t, g, head + 1)'
      PROVE  ~Acceptable(t, job[t], head + 1)'
  BY <1>2, <1>4 DEF Acceptable
<1>5. QED
  BY <1>1, <1>2, <1>3, <1>4, RefusedStays
LEMMA RefusedJobStays ==
    ASSUME TypeOK, [Next]_vars, NEW t \in Txs, job[t] # NoBlock,
           ~Acceptable(t, job[t], head + 1)
    PROVE  ~Acceptable(t, job[t], head + 1)'
<1>1. job'[t] = job[t] /\ job[t] \in Int
  BY JobKept DEF TypeOK
<1>2. ASSUME NEW g, g = job[t], ~Acceptable(t, g, head + 1)'
      PROVE  ~Acceptable(t, job[t], head + 1)'
  BY <1>1, <1>2 DEF Acceptable
<1>3. QED
  BY <1>1, <1>2, RefusedStays

\* A transaction that cannot land stays so until it is submitted again.
LEMMA DeadStays ==
    ASSUME TypeOK, [Next]_vars, NEW t \in Txs, Dead(t), ~SubmitAttempt(t)
    PROVE  Dead(t)'
<1>1. chain'[t] # "applied"
  BY ChainKept DEF TypeOK, Dead, IncludeTx
<1>2. CASE job[t] # NoBlock
  BY <1>1, <1>2, RefusedJobStays, JobKept DEF Dead
<1>3. CASE job[t] = NoBlock
  <2>1. \A g \in wire[t] : g \in Nat /\ ~Acceptable(t, g, head + 1)'
    BY <1>3, RefusedStays, SMTT(30) DEF TypeOK, Dead
  <2>2. CASE \E g \in Blocks : RelayerAccept(t, g)
    <3>1. PICK g \in wire[t] : job'[t] = g
      BY <1>3, <2>2 DEF RelayerAccept, TypeOK
    <3>2. ~Acceptable(t, job[t], head + 1)'
      BY <2>1, <3>1 DEF Acceptable
    <3>3. job'[t] # NoBlock
      BY <2>1, <3>1
    <3>4. QED
      BY <1>1, <3>2, <3>3 DEF Dead
  <2>3. CASE ~\E g \in Blocks : RelayerAccept(t, g)
    <3>1. job'[t] = job[t] /\ wire'[t] = wire[t]
      BY <2>3, NetworkFrame, Zenon
         DEF TypeOK, Block, EmptyBlock, IncludeTx, ForeignSpend,
             RelayerAccept, SubmitAttempt, network
    <3>2. QED
      BY <1>1, <1>3, <2>1, <3>1, SMTT(30) DEF Dead
  <2>4. QED
    BY <2>2, <2>3
<1>4. QED
  BY <1>2, <1>3

-----------------------------------------------------------------------------
(* What a pass has read stays true. *)

LEMMA PassTyped ==
    ASSUME TypeOK, NEW p \in Passes
    PROVE  /\ pass[p].head \in Int
           /\ \A t \in Txs : pass[p].status[t] \in
                 {"unread", "absent", "applied", "rejected"}
<1>1. pass[p] \in PassType
  BY DEF TypeOK
<1>2. QED
  BY <1>1 DEF PassType

LEMMA SnapshotKept ==
    ASSUME TypeOK, ChainSound, NEW p \in Passes, SnapshotSound(p),
           [Next]_vars, pass'[p] = pass[p]
    PROVE  SnapshotSound(p)'
<1>1. /\ pass[p].head <= head'
      /\ pass[p].created \subseteq Created'
      /\ pass[p].spent \subseteq Spent'
  <2>1. /\ pass[p].head <= head
        /\ pass[p].created \subseteq Created
        /\ pass[p].spent \subseteq Spent
    BY DEF SnapshotSound
  <2>2. QED
    BY <2>1, ChainGrows, PassTyped DEF TypeOK
<1>2. ASSUME NEW t \in Txs, pass[p].status[t] \in {"applied", "rejected"}
      PROVE  chain'[t] = pass[p].status[t]
  BY <1>2, ChainKept, Zenon DEF SnapshotSound, ChainSound, IncludeTx, TypeOK
<1>3. ASSUME NEW t \in Txs, pass[p].status[t] = "absent", chain'[t] = "applied"
      PROVE  ~grounding_aged_out(pass[p].head + 1, job'[t])
  <2>1. CASE chain[t] = "applied"
    BY <1>3, <2>1, JobKept, SMTT(30) DEF SnapshotSound, ChainSound
  <2>2. CASE chain[t] # "applied"
    <3>1. IncludeTx(t)
      BY <1>3, <2>2, ChainKept, Zenon
    <3>2. Acceptable(t, job[t], head + 1) /\ job'[t] = job[t]
      BY <1>3, <2>2, <3>1 DEF IncludeTx, TypeOK
    <3>3. pass[p].head \in Int /\ pass[p].head <= head /\ job[t] \in Int
      BY PassTyped, SMTT(30) DEF SnapshotSound, TypeOK
    <3>4. QED
      BY <3>2, <3>3, BoundAssumption
         DEF Acceptable, grounding_aged_out, TypeOK
  <2>3. QED
    BY <2>1, <2>2, SMTT(30)
<1>4. QED
  BY <1>1, <1>2, <1>3 DEF SnapshotSound
LEMMA EmptySnapshot ==
    ASSUME TypeOK, NEW p \in Passes, pass'[p] = NoPass, head' \in Nat
    PROVE  SnapshotSound(p)'
BY DEF SnapshotSound, NoPass

LEMMA SnapshotsNext ==
    TypeOK /\ ChainSound /\ SnapshotsSound /\ [Next]_vars => SnapshotsSound'
<1> SUFFICES ASSUME TypeOK, ChainSound, SnapshotsSound, [Next]_vars,
                    NEW p \in Passes
             PROVE  SnapshotSound(p)'
  BY SMTT(30) DEF SnapshotsSound
<1>1. SnapshotSound(p) /\ pass[p] \in PassType /\ head' \in Nat
  BY ChainGrows, SMTT(30) DEF SnapshotsSound, TypeOK
<1>2. CASE pass'[p] = pass[p]
  BY <1>1, <1>2, SnapshotKept
<1>3. CASE Crash
  BY <1>1, <1>3, EmptySnapshot DEF Crash
<1>4. CASE SettleStep(p)
  <2>1. ASSUME NEW all \in BOOLEAN, SettleLoad(p, all)
        PROVE  SnapshotSound(p)'
    BY <1>1, <2>1, SMTT(30) DEF SettleLoad, SetPass, TypeOK, SnapshotSound, NoPass
  <2>2. CASE SettleHead(p)
    <3>1. UNCHANGED <<head, chain, foreign, job>>
      BY <2>2, SMTT(30) DEF SettleHead, SetPass, network
    <3>2. Created' = Created /\ Spent' = Spent
      BY <3>1 DEF Created, Spent, Applied
    <3>3. /\ pass'[p].head = head
          /\ pass'[p].created \subseteq Created
          /\ pass'[p].spent \subseteq Spent
          /\ pass'[p].status = pass[p].status
      BY <2>2, <1>1 DEF SettleHead, SetPass, TypeOK, PassType
    <3>4. \A t \in Txs : pass[p].status[t] = "unread"
      BY <1>1, <2>2, SMTT(30) DEF SettleHead, SnapshotSound
    <3>5. QED
      BY <3>1, <3>2, <3>3, <3>4 DEF SnapshotSound, TypeOK
  <2>3. ASSUME NEW t \in Txs, SettleStatus(p, t)
        PROVE  SnapshotSound(p)'
    <3>1. UNCHANGED <<head, chain, foreign, job>>
      BY <2>3, SMTT(30) DEF SettleStatus, SetPass, network
    <3>2. Created' = Created /\ Spent' = Spent
      BY <3>1 DEF Created, Spent, Applied
    <3>3. /\ pass'[p] = [pass[p] EXCEPT !.status[t] = chain[t]]
          /\ pass[p].phase = "queried"
      BY <2>3 DEF SettleStatus, SetPass, TypeOK
    <3>4. /\ pass'[p].head = pass[p].head
          /\ pass'[p].phase = "queried"
          /\ pass'[p].created = pass[p].created
          /\ pass'[p].spent = pass[p].spent
          /\ pass'[p].status[t] = chain[t]
          /\ \A u \in Txs : u # t => pass'[p].status[u] = pass[p].status[u]
      BY <1>1, <3>3, SMTT(30) DEF PassType
    <3>5. QED
      BY <1>1, <3>1, <3>2, <3>4 DEF SnapshotSound
  <2>4. CASE SettleFail(p) \/ SettleApply(p) \/ SettleInterrupted(p)
    BY <1>1, <2>4, EmptySnapshot, Zenon
       DEF SettleFail, SettleApply, SettleInterrupted, SetPass, TypeOK
  <2>5. QED
    BY <1>4, <2>1, <2>2, <2>3, <2>4, SMTT(30) DEF SettleStep
<1>5. ASSUME NEW q \in Passes, q # p, SettleStep(q)
      PROVE  pass'[p] = pass[p]
  BY <1>5, Zenon DEF SettleStep, SettleLoad, SettleHead, SettleStatus, SettleFail,
              SetPass, SettleApply, SettleInterrupted, TypeOK
<1>6. QED
  <2>1. CASE ProofStep
    BY <1>2, <2>1, SMTT(30) DEF ProofStep, Prove, Ground, Abandon, Record,
                      RecordInterrupted
  <2>2. CASE SubmitStep
    BY <1>2, <2>2 DEF SubmitStep, SubmitRead, SubmitCheck, SubmitLoad,
                      SubmitAttempt, SubmitStop, SubmitFinish
  <2>3. CASE Block \/ \E t \in Txs, g \in Blocks : RelayerAccept(t, g)
    BY <1>2, <2>3, Zenon DEF Block, EmptyBlock, IncludeTx, ForeignSpend,
                      RelayerAccept, volatile
  <2>4. CASE \E t \in Txs : Delete(t) \/ DeleteInterrupted(t)
    BY <1>2, <2>4 DEF Delete, DeleteInterrupted, volatile
  <2>5. CASE \/ \E due, failed \in SUBSET Txs : Prune(due, failed)
             \/ \E o \in Objs : ImportCheck(o) \/ ImportFile(o)
             \/ UNCHANGED vars
    BY <1>2, <2>5 DEF Prune, ImportCheck, ImportFile, vars
  <2>6. QED
    BY <1>2, <1>3, <1>4, <1>5, <2>1, <2>2, <2>3, <2>4, <2>5, SMTT(30) DEF Next

-----------------------------------------------------------------------------
(* Who writes a record. *)

Settles(p, t) ==
    /\ SettleApply(p) \/ SettleInterrupted(p)
    /\ t \in Changed(p)
    /\ record'[t] = [record[t] EXCEPT !.state = Decision(p, t)]

Prunes(t) ==
    \E due, failed \in SUBSET Txs :
        Prune(due, failed) /\ t \in due \ failed

LEMMA RecordFrame ==
    ASSUME TypeOK, [Next]_vars, NEW t \in Txs
    PROVE  \/ record'[t] = record[t]
           \/ \E w \in Owners : Record(w) /\ proof[w].tx = t
           \/ Delete(t)
           \/ SubmitAttempt(t) \/ SubmitFinish(t)
           \/ \E p \in Passes : Settles(p, t)
           \/ Prunes(t)
<1>1. CASE ProofStep
  <2>1. ASSUME NEW w \in Owners, NEW u \in Txs, Prove(w, u)
        PROVE  record' = record
    BY <2>1, Zenon DEF Prove, durable
  <2>2. ASSUME NEW w \in Owners, Ground(w) \/ Abandon(w) \/ RecordInterrupted(w)
        PROVE  record' = record
    BY <2>2, SMTT(30) DEF Ground, Abandon, RecordInterrupted, durable
  <2>3. ASSUME NEW w \in Owners, Record(w), proof[w].tx # t
        PROVE  record'[t] = record[t]
    BY <2>3, Zenon DEF Record, TypeOK
  <2>4. QED
    BY <1>1, <2>1, <2>2, <2>3, Zenon DEF ProofStep
<1>2. ASSUME NEW u \in Submittable, u \in Txs,
             \/ SubmitRead(u) \/ SubmitCheck(u) \/ SubmitLoad(u)
             \/ SubmitStop(u) \/ SubmitAttempt(u) \/ SubmitFinish(u)
      PROVE  record'[t] = record[t] \/ SubmitAttempt(t) \/ SubmitFinish(t)
  BY <1>2, SMTT(30) DEF SubmitRead, SubmitCheck, SubmitLoad, SubmitAttempt, SubmitStop,
              SubmitFinish, durable, TypeOK
<1>3. CASE Block \/ \E u \in Txs, g \in Blocks : RelayerAccept(u, g)
  BY <1>3, Zenon DEF Block, EmptyBlock, IncludeTx, ForeignSpend, RelayerAccept, durable
<1>4. ASSUME NEW u \in Txs, Delete(u) \/ DeleteInterrupted(u)
      PROVE  record'[t] = record[t] \/ Delete(t)
  BY <1>4 DEF Delete, DeleteInterrupted, TypeOK
<1>5. ASSUME NEW p \in Passes, SettleStep(p)
      PROVE  record'[t] = record[t] \/ Settles(p, t)
  <2>1. CASE UNCHANGED durable
    BY <2>1 DEF durable
  <2>2. CASE SettleApply(p) \/ SettleInterrupted(p)
    <3>1. PICK S \in SUBSET Changed(p) : record' = SettledRecords(p, S)
      BY <2>2, Zenon DEF SettleApply, SettleInterrupted
    <3>2. QED
      BY <2>2, <3>1, SMTT(30) DEF Settles, SettledRecords
  <2>3. QED
    BY <1>5, <2>1, <2>2, Zenon DEF SettleStep, SettleLoad, SettleHead, SettleStatus,
                            SettleFail, SetPass
<1>6. ASSUME NEW due \in SUBSET Txs, NEW failed \in SUBSET Txs,
             Prune(due, failed)
      PROVE  record'[t] = record[t] \/ Prunes(t)
  BY <1>6, Zenon DEF Prune, Prunes
<1>7. CASE \/ \E o \in Objs : ImportCheck(o) \/ ImportFile(o)
           \/ Crash
           \/ UNCHANGED vars
  BY <1>7, ZenonT(30) DEF ImportCheck, ImportFile, Crash, durable, vars
<1>8. QED
  BY <1>1, <1>2, <1>3, <1>4, <1>5, <1>6, <1>7, BoundAssumption, Zenon
     DEF Next, SubmitStep

\* A record comes into being in record, and only there.
LEMMA RecordBorn ==
    ASSUME TypeOK, [Next]_vars, NEW t \in Txs,
           record[t].state = "none", record'[t].state # "none"
    PROVE  \E w \in Owners : Record(w) /\ proof[w].tx = t
<1>1. ASSUME NEW p \in Passes, Settles(p, t) PROVE FALSE
  BY <1>1 DEF Settles, Changed, Decides, IsOpen
<1>2. ~Delete(t) /\ ~SubmitAttempt(t) /\ ~SubmitFinish(t)
  BY SMTT(30) DEF Delete, Deletable, SubmitAttempt, SubmitFinish
<1>3. ~Prunes(t)
  BY Zenon DEF Prunes, Prune, IsTerminal
<1>4. QED
  BY <1>1, <1>2, <1>3, RecordFrame

\* What each of these writes.
LEMMA RecordWritten ==
    ASSUME TypeOK, [Next]_vars, NEW t \in Txs
    PROVE  \/ record'[t] = record[t]
           \/ \E w \in Owners :
                 /\ Record(w) /\ proof[w].tx = t /\ record[t].state = "none"
                 /\ record'[t].state = "recorded"
                 /\ record'[t].attempted = FALSE
                 /\ record'[t].grounding = proof[w].grounding
           \/ (Delete(t) \/ Prunes(t)) /\ record'[t] = NoRecord
           \/ /\ record'[t].grounding = record[t].grounding
              /\ \/ /\ SubmitAttempt(t) /\ record'[t].attempted = TRUE
                    /\ record[t].state = "recorded"
                    /\ record'[t].state = "recorded"
                 \/ /\ SubmitFinish(t)
                    /\ record'[t].attempted = record[t].attempted
                    /\ record[t].state = "recorded"
                    /\ record'[t].state = "submitted"
                 \/ \E p \in Passes :
                       /\ Settles(p, t) /\ IsOpen(record[t])
                       /\ record'[t].attempted = record[t].attempted
                       /\ record'[t].state = Decision(p, t)
<1>1. record[t] \in RecordType
  BY SMTT(30) DEF TypeOK
<1>2. ASSUME NEW w \in Owners, Record(w), proof[w].tx = t
      PROVE  /\ record[t].state = "none"
             /\ record'[t].state = "recorded"
             /\ record'[t].attempted = FALSE
             /\ record'[t].grounding = proof[w].grounding
  BY <1>2, Zenon DEF Record, Recordable, TypeOK
<1>3. Delete(t) \/ Prunes(t) => record'[t] = NoRecord
  BY Zenon DEF Delete, Prunes, Prune, TypeOK
<1>4. SubmitAttempt(t) => /\ record'[t].grounding = record[t].grounding
                          /\ record'[t].attempted = TRUE
                          /\ record[t].state = "recorded"
                          /\ record'[t].state = "recorded"
  BY <1>1 DEF SubmitAttempt, TypeOK, RecordType
<1>5. SubmitFinish(t) => /\ record'[t].grounding = record[t].grounding
                         /\ record'[t].attempted = record[t].attempted
                         /\ record[t].state = "recorded"
                         /\ record'[t].state = "submitted"
  BY <1>1 DEF SubmitFinish, TypeOK, RecordType
<1>6. ASSUME NEW p \in Passes, Settles(p, t)
      PROVE  /\ record'[t].grounding = record[t].grounding
             /\ IsOpen(record[t])
             /\ record'[t].attempted = record[t].attempted
             /\ record'[t].state = Decision(p, t)
  BY <1>1, <1>6 DEF Settles, Changed, Decides, RecordType
<1>7. QED
  BY <1>2, <1>3, <1>4, <1>5, <1>6, RecordFrame, Zenon

LEMMA InputsNext == TypeOK /\ InputsPresent /\ [Next]_vars => InputsPresent'
<1> SUFFICES ASSUME TypeOK, InputsPresent, [Next]_vars, NEW t \in Txs,
                    record'[t].state # "none", NEW o \in Inputs[t]
             PROVE  file'[o].status \in {"live", "nullified"}
  BY SMTT(30) DEF InputsPresent
<1>1. o \in Objs /\ file[o] \in FileType /\ file'[o] \in FileType
  BY ObjsAssumption, TypeNext, Zenon DEF TypeOK
<1>2. file[o].status \in {"live", "nullified"}
  <2>1. CASE record[t].state # "none"
    BY <2>1, SMTT(30) DEF InputsPresent
  <2>2. CASE record[t].state = "none"
    BY <2>2, RecordBorn, Zenon DEF Record, Recordable
  <2>3. QED
    BY <2>1, <2>2, SMTT(30)
<1>3. QED
  BY <1>1, <1>2, FilesNext, SMTT(30) DEF FileStep, Rank, FileType

-----------------------------------------------------------------------------
(* Who proves a transaction, and with which grounding. *)

\* The step writes payload.bin of t from the proof of w.
Writes(w, t) == (Record(w) \/ RecordInterrupted(w)) /\ proof[w].tx = t

LEMMA ProofFrame ==
    ASSUME TypeOK, [Next]_vars, NEW w \in Owners
    PROVE  \/ proof'[w] = proof[w] /\ \A t \in Txs : ~Writes(w, t)
           \/ proof'[w] = NoProof
           \/ Ground(w)
           \/ \E t \in Txs : Prove(w, t)
<1>1. ASSUME NEW v \in Owners, Record(v) \/ RecordInterrupted(v)
      PROVE  v # w => proof'[w] = proof[w]
  BY <1>1, Zenon DEF Record, RecordInterrupted, TypeOK
<1>2. ASSUME NEW t \in Txs, Writes(w, t) PROVE proof'[w] = NoProof
  BY <1>2, Zenon DEF Writes, Record, RecordInterrupted, TypeOK
<1>3. ASSUME NEW v \in Owners, Abandon(v)
      PROVE  proof'[w] = proof[w] \/ proof'[w] = NoProof
  BY <1>3, SMTT(30) DEF Abandon, TypeOK
<1>4. ASSUME NEW v \in Owners, v # w, Ground(v) \/ \E t \in Txs : Prove(v, t)
      PROVE  proof'[w] = proof[w]
  BY <1>4, SMTT(30) DEF Ground, Prove, TypeOK
<1>5. CASE ProofStep
  <2>1. ASSUME NEW v \in Owners,
               \/ \E t \in Txs : Prove(v, t)
               \/ Ground(v) \/ Abandon(v) \/ Record(v) \/ RecordInterrupted(v)
        PROVE  \/ proof'[w] = proof[w] \/ proof'[w] = NoProof
               \/ Ground(w) \/ \E t \in Txs : Prove(w, t)
    <3>1. CASE v = w
      BY <1>3, <2>1, <3>1, Zenon DEF Record, RecordInterrupted, TypeOK
    <3>2. CASE v # w
      BY <1>1, <1>3, <1>4, <2>1, <3>2, Zenon
    <3>3. QED
      BY <3>1, <3>2, SMTT(30)
  <2>2. QED
    BY <1>2, <1>5, <2>1, SMTT(30) DEF ProofStep
<1>6. CASE Crash
  BY <1>6 DEF Crash
<1>7. CASE UNCHANGED <<holds, proof, started>>
  BY <1>2, <1>7, SMTT(30)
<1>8. QED
  BY <1>5, <1>6, <1>7, RecordsFrame, Zenon

\* Where the copies of a payload come from.
LEMMA CopiesFrame ==
    ASSUME TypeOK, [Next]_vars, NEW t \in Txs
    PROVE  /\ \/ payload'[t] \in {payload[t], NoBlock}
              \/ \E w \in Owners : Writes(w, t) /\ payload'[t] = proof[w].grounding
           /\ \/ sub'[t] = sub[t] \/ sub'[t] = NoSub
              \/ sub[t].phase # "idle" /\ sub'[t].grounding \in
                     {sub[t].grounding, NoBlock, payload[t]}
              \/ /\ record[t].state = "recorded"
                 /\ sub'[t].grounding = record[t].grounding
           /\ \/ wire'[t] \subseteq wire[t]
              \/ /\ sub[t].phase # "idle"
                 /\ wire'[t] \subseteq wire[t] \cup {sub[t].grounding}
           /\ job'[t] = job[t] \/ job'[t] \in wire[t]
<1>1. /\ \/ wire'[t] \subseteq wire[t]
         \/ /\ sub[t].phase # "idle"
            /\ wire'[t] \subseteq wire[t] \cup {sub[t].grounding}
      /\ job'[t] = job[t] \/ job'[t] \in wire[t]
  <2>1. ASSUME NEW u \in Txs, NEW g \in Blocks, RelayerAccept(u, g)
        PROVE  /\ wire'[t] \subseteq wire[t]
               /\ job'[t] = job[t] \/ job'[t] \in wire[t]
    BY <2>1 DEF TypeOK, RelayerAccept
  <2>2. ASSUME NEW u \in Txs, SubmitAttempt(u)
        PROVE  /\ \/ wire'[t] \subseteq wire[t]
                  \/ /\ sub[t].phase # "idle"
                     /\ wire'[t] \subseteq wire[t] \cup {sub[t].grounding}
               /\ job'[t] = job[t]
    BY <2>2, SMTT(30) DEF TypeOK, SubmitAttempt
  <2>3. CASE Block \/ UNCHANGED network
    BY <2>3, Zenon DEF Block, EmptyBlock, IncludeTx, ForeignSpend, network
  <2>4. QED
    BY <2>1, <2>2, <2>3, NetworkFrame, Zenon
<1>2. CASE ProofStep
  <2>1. sub' = sub
    BY <1>2, SMTT(30) DEF ProofStep, Prove, Ground, Abandon, Record, RecordInterrupted
  <2>2. ASSUME NEW w \in Owners, NEW u \in Txs, Prove(w, u)
        PROVE  payload' = payload
    BY <2>2 DEF Prove, durable
  <2>3. ASSUME NEW w \in Owners, Ground(w) \/ Abandon(w)
        PROVE  payload' = payload
    BY <2>3, SMTT(30) DEF Ground, Abandon, durable
  <2>4. ASSUME NEW w \in Owners, Record(w) \/ RecordInterrupted(w)
        PROVE  \/ payload'[t] = payload[t]
               \/ Writes(w, t) /\ payload'[t] = proof[w].grounding
    BY <2>4, Zenon DEF Record, RecordInterrupted, Writes, TypeOK
  <2>5. QED
    BY <1>1, <1>2, <2>1, <2>2, <2>3, <2>4, ZenonT(30) DEF ProofStep
<1>3. ASSUME NEW u \in Txs, SubmitRead(u)
      PROVE  /\ payload' = payload
             /\ \/ sub'[t] = sub[t]
                \/ /\ record[t].state = "recorded"
                   /\ sub'[t].grounding = record[t].grounding
  <2>1. CASE u # t
    BY <1>3, <2>1, SMTT(30) DEF SubmitRead, durable, TypeOK
  <2>2. CASE u = t
    <3>1. sub'[t] = [phase |-> "read", grounding |-> record[t].grounding]
      BY <1>3, <2>2, SMTT(30) DEF SubmitRead, TypeOK
    <3>2. payload' = payload /\ record[t].state = "recorded"
      BY <1>3, <2>2, Zenon DEF SubmitRead, durable
    <3>3. sub'[t].grounding = record[t].grounding
      BY <3>1, SMTT(30)
    <3>4. QED
      BY <3>2, <3>3, SMTT(30)
  <2>3. QED
    BY <2>1, <2>2, SMTT(30)
<1>4. ASSUME NEW u \in Txs, \/ SubmitCheck(u) \/ SubmitLoad(u)
                            \/ SubmitAttempt(u) \/ SubmitStop(u)
                            \/ SubmitFinish(u)
      PROVE  /\ payload' = payload
             /\ \/ sub'[t] = sub[t] \/ sub'[t] = NoSub
                \/ sub[t].phase # "idle" /\ sub'[t].grounding \in
                      {sub[t].grounding, NoBlock, payload[t]}
  <2>1. payload' = payload
    BY <1>4, SMTT(30) DEF SubmitCheck, SubmitLoad, SubmitAttempt, SubmitStop,
                SubmitFinish, durable
  <2>2. CASE u # t
    BY <1>4, <2>1, <2>2, SMTT(30) DEF SubmitCheck, SubmitLoad, SubmitAttempt, SubmitStop,
                            SubmitFinish, TypeOK
  <2>3. CASE u = t
    BY <1>4, <2>1, <2>3, SMTT(30) DEF SubmitCheck, SubmitLoad, SubmitAttempt, SubmitStop,
                            SubmitFinish, TypeOK, SubType
  <2>4. QED
    BY <2>2, <2>3, SMTT(30)
<1>5. CASE Block
  BY <1>1, <1>5, Zenon DEF Block, EmptyBlock, IncludeTx, ForeignSpend, durable,
                    volatile
<1>6. ASSUME NEW u \in Txs, NEW g \in Blocks, RelayerAccept(u, g)
      PROVE  /\ payload' = payload
             /\ \/ sub'[t] = sub[t]
                \/ sub[t].phase # "idle" /\ sub'[t].grounding = sub[t].grounding
  BY <1>6, SMTT(30) DEF RelayerAccept, durable, TypeOK, SubType
<1>7. ASSUME NEW u \in Txs, Delete(u) \/ DeleteInterrupted(u)
      PROVE  sub' = sub /\ payload'[t] \in {payload[t], NoBlock}
  BY <1>7, SMTT(30) DEF Delete, DeleteInterrupted, volatile, TypeOK
<1>8. CASE \E p \in Passes : SettleStep(p)
  BY <1>1, <1>8, Zenon DEF SettleStep, SettleLoad, SettleHead, SettleStatus,
                    SettleFail, SetPass, SettleApply, SettleInterrupted, durable
<1>9. ASSUME NEW due \in SUBSET Txs, NEW failed \in SUBSET Txs,
             Prune(due, failed)
      PROVE  sub' = sub /\ payload'[t] \in {payload[t], NoBlock}
  BY <1>9, Zenon DEF Prune
<1>10. CASE \E o \in Objs : ImportCheck(o) \/ ImportFile(o)
  BY <1>1, <1>10, Zenon DEF ImportCheck, ImportFile, durable
<1>11. CASE Crash \/ UNCHANGED vars
  BY <1>1, <1>11, SMTT(30) DEF Crash, durable, vars
<1>12. QED
  BY <1>1, <1>2, <1>3, <1>4, <1>5, <1>6, <1>7, <1>8, <1>9, <1>10, <1>11,
     BoundAssumption, Zenon
     DEF Next, SubmitStep

LEMMA FreshStays ==
    ASSUME TypeOK, [Next]_vars, NEW t \in Txs, Fresh(t),
           \A w \in Owners : ~Writes(w, t)
    PROVE  Fresh(t)'
<1>1. chain'[t] = "absent"
  BY ChainKept, Zenon DEF Fresh, IncludeTx
<1>2. record'[t].state = "none"
  BY RecordBorn, ZenonT(30) DEF Fresh, Writes
<1>3. job'[t] = NoBlock /\ payload'[t] = NoBlock /\ wire'[t] = {}
  BY CopiesFrame DEF Fresh, NoSub
<1>4. sub'[t] = NoSub
  BY CopiesFrame DEF Fresh, NoSub
<1>5. QED
  BY <1>1, <1>2, <1>3, <1>4, Zenon DEF Fresh

LEMMA StartedGrows ==
    ASSUME TypeOK, [Next]_vars
    PROVE  started \subseteq started'
<1>1. CASE ProofStep
  BY <1>1 DEF ProofStep, Prove, Ground, Abandon, Record, RecordInterrupted,
              history
<1>2. CASE Crash
  BY <1>2 DEF Crash, history
<1>3. QED
  BY <1>1, <1>2, RecordsFrame
=============================================================================
