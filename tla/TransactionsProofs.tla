------------------------- MODULE TransactionsProofs -------------------------
(***************************************************************************)
(* Proofs of the safety properties of Transactions, for every value of its *)
(* constants.                                                              *)
(***************************************************************************)
EXTENDS Transactions, TLAPS

USE DEF NoBlock

-----------------------------------------------------------------------------
(* Type correctness. *)

LEMMA NoneTyped ==
    /\ NoFile \in FileType
    /\ NoRecord \in RecordType
    /\ NoProof \in ProofType
    /\ NoSub \in SubType
    /\ NoPass \in PassType
BY DEF NoFile, NoRecord, NoProof, NoSub, NoPass, FileType, RecordType,
       ProofType, SubType, PassType

LEMMA TypeInit == Init => TypeOK
BY NoneTyped, ObjsAssumption DEF Init, TypeOK, FileType, NoSub, NoProof

LEMMA DecisionTyped ==
    ASSUME TypeOK, NEW p \in Passes, NEW S \in SUBSET Txs
    PROVE  SettledRecords(p, S) \in [Txs -> RecordType]
<1>1. ASSUME NEW t \in Txs
      PROVE  Decision(p, t) \in {"none", "recorded", "submitted", "landed", "expired"}
  BY <1>1 DEF TypeOK, Decision, RecordType, PassType
<1>2. QED
  BY <1>1 DEF TypeOK, SettledRecords, RecordType

LEMMA PersistedTyped ==
    ASSUME TypeOK, NEW o \in Objs, NEW rs, NEW T
    PROVE  Persisted(o, rs, T) \in FileType
BY NoneTyped DEF TypeOK, Persisted, FileType

LEMMA ReconciledTyped ==
    ASSUME NEW p, NEW o, NEW f \in FileType
    PROVE  Reconciled(p, o, f) \in FileType
BY DEF Reconciled, ChainFileStatus, FileType

LEMMA TypeNext == TypeOK /\ [Next]_vars => TypeOK'
<1> SUFFICES ASSUME TypeOK, [Next]_vars PROVE TypeOK'
  OBVIOUS
<1> USE NoneTyped, ObjsAssumption
<1>1. CASE Block
  BY <1>1 DEF TypeOK, Block, EmptyBlock, IncludeTx, ForeignSpend, durable,
              volatile, history
<1>2. ASSUME NEW t \in Txs, NEW g \in Blocks, RelayerAccept(t, g)
      PROVE  TypeOK'
  <2>1. sub' \in [Txs -> SubType]
    BY <1>2, SMTT(30) DEF TypeOK, RelayerAccept, SubType
  <2>2. job' \in [Txs -> Nat \cup {NoBlock}] /\ wire' \in [Txs -> SUBSET Nat]
    BY <1>2 DEF TypeOK, RelayerAccept
  <2>3. QED
    BY <1>2, <2>1, <2>2 DEF TypeOK, RelayerAccept, durable, history
<1>3. ASSUME NEW w \in Owners, NEW t \in Txs, Prove(w, t)
      PROVE  TypeOK'
  BY <1>3 DEF TypeOK, Prove, TakeHolds, network, durable, ProofType
<1>4. ASSUME NEW w \in Owners, Ground(w)
      PROVE  TypeOK'
  BY <1>4, ZenonT(30) DEF TypeOK, Ground, network, durable, history, ProofType
<1>5. ASSUME NEW w \in Owners, Abandon(w)
      PROVE  TypeOK'
  BY <1>5 DEF TypeOK, Abandon, DropHolds, network, durable, history, NoProof
<1>6. ASSUME NEW w \in Owners, Record(w)
      PROVE  TypeOK'
  BY <1>6 DEF TypeOK, Record, Recordable, WriteOutputs, DropHolds, network,
              history, FileType, RecordType, ProofType, NoProof
<1>7. ASSUME NEW w \in Owners, RecordInterrupted(w)
      PROVE  TypeOK'
  <2>1. file' \in [Objs -> FileType]
    BY <1>7 DEF TypeOK, RecordInterrupted, WriteOutputs, FileType
  <2>2. payload' \in [Txs -> Nat \cup {NoBlock}]
    BY <1>7 DEF TypeOK, RecordInterrupted, ProofType
  <2>3. /\ proof' \in [Owners -> ProofType]
        /\ \A v \in Owners : proof'[v].phase # "idle" => proof'[v].tx \in Txs
    BY <1>7 DEF TypeOK, RecordInterrupted, NoProof
  <2>4. QED
    BY <1>7, <2>1, <2>2, <2>3
       DEF TypeOK, RecordInterrupted, DropHolds, network, history
<1>8. ASSUME NEW t \in Txs, Delete(t) \/ DeleteInterrupted(t)
      PROVE  TypeOK'
  BY <1>8 DEF TypeOK, Delete, DeleteInterrupted, RemoveFiles, network,
              volatile
<1>9. ASSUME NEW t \in Txs,
             SubmitRead(t) \/ SubmitCheck(t) \/ SubmitLoad(t) \/ SubmitStop(t)
      PROVE  TypeOK'
  <2> DEFINE loaded(r) == r.phase \in {"loaded", "sent", "answered"}
  <2>1. \E r \in SubType : /\ sub' = [sub EXCEPT ![t] = r]
                           /\ loaded(r) => r.grounding # NoBlock
    <3>1. CASE SubmitRead(t)
      <4> DEFINE r == [phase |-> "read", grounding |-> record[t].grounding]
      <4>1. r \in SubType /\ ~loaded(r)
        BY DEF TypeOK, SubType, RecordType
      <4>2. sub' = [sub EXCEPT ![t] = r]
        BY <3>1 DEF SubmitRead
      <4>3. QED
        BY <4>1, <4>2, Zenon
    <3>2. CASE SubmitCheck(t)
      <4> DEFINE r == [phase |-> "checked", grounding |-> NoBlock]
      <4>1. r \in SubType /\ ~loaded(r) /\ ~loaded(NoSub)
        BY DEF SubType, NoSub
      <4>2. sub' = [sub EXCEPT ![t] = NoSub] \/ sub' = [sub EXCEPT ![t] = r]
        BY <3>2, Zenon DEF SubmitCheck
      <4>3. QED
        BY <4>1, <4>2
    <3>3. CASE SubmitLoad(t)
      <4> DEFINE r == [phase |-> "loaded", grounding |-> payload[t]]
      <4>1. r \in SubType /\ r.grounding # NoBlock
        BY <3>3 DEF TypeOK, SubType, SubmitLoad
      <4>2. sub' = [sub EXCEPT ![t] = r]
        BY <3>3 DEF SubmitLoad
      <4>3. QED
        BY <4>1, <4>2, Zenon
    <3>4. CASE SubmitStop(t)
      BY <3>4, Zenon DEF SubmitStop, NoSub
    <3>5. QED
      BY <1>9, <3>1, <3>2, <3>3, <3>4
  <2>2. UNCHANGED <<network, durable, holds, proof, pass, reconciled,
                    importing, history>>
    BY <1>9 DEF SubmitRead, SubmitCheck, SubmitLoad, SubmitStop
  <2>3. PICK r \in SubType : /\ sub' = [sub EXCEPT ![t] = r]
                             /\ loaded(r) => r.grounding # NoBlock
    BY <2>1, Zenon
  <2>4. sub' \in [Txs -> SubType]
    BY <2>3 DEF TypeOK
  <2>5. \A u \in Txs : loaded(sub'[u]) => sub'[u].grounding # NoBlock
    BY <2>3 DEF TypeOK
  <2>6. QED
    BY <2>2, <2>4, <2>5 DEF TypeOK, network, durable, history
<1>10. ASSUME NEW t \in Txs, SubmitAttempt(t) \/ SubmitFinish(t)
       PROVE  TypeOK'
  <2>1. CASE SubmitAttempt(t)
    <3>1. sub' \in [Txs -> SubType]
      BY <2>1 DEF TypeOK, SubmitAttempt, SubType
    <3>2. record' \in [Txs -> RecordType]
      BY <2>1, ZenonT(30) DEF TypeOK, SubmitAttempt, RecordType
    <3>3. wire' \in [Txs -> SUBSET Nat]
      BY <2>1 DEF TypeOK, SubmitAttempt, SubType
    <3>4. \A u \in Txs : sub'[u].phase \in {"loaded", "sent", "answered"} =>
                           sub'[u].grounding # NoBlock
      BY <2>1 DEF TypeOK, SubmitAttempt, SubType
    <3>5. QED
      BY <2>1, <3>1, <3>2, <3>3, <3>4 DEF TypeOK, SubmitAttempt, history
  <2>2. CASE SubmitFinish(t)
    <3>1. sub' \in [Txs -> SubType]
      BY <2>2 DEF TypeOK, SubmitFinish, SubType
    <3>2. record' \in [Txs -> RecordType]
      BY <2>2, ZenonT(30) DEF TypeOK, SubmitFinish, RecordType
    <3>3. \A u \in Txs : sub'[u].phase \in {"loaded", "sent", "answered"} =>
                           sub'[u].grounding # NoBlock
      BY <2>2 DEF TypeOK, SubmitFinish, NoSub, SubType
    <3>4. QED
      BY <2>2, <3>1, <3>2, <3>3 DEF TypeOK, SubmitFinish, network, history
  <2>3. QED
    BY <1>10, <2>1, <2>2
<1>11. ASSUME NEW p \in Passes, NEW r \in PassType, SetPass(p, r)
       PROVE  TypeOK'
  BY <1>11 DEF TypeOK, SetPass, network, durable, history
<1>12. ASSUME NEW p \in Passes, SettleStep(p)
       PROVE  TypeOK'
  <2>1. CASE \E all \in BOOLEAN : SettleLoad(p, all)
    BY <2>1, <1>11, Zenon DEF SettleLoad, PassType, NoPass
  <2>2. CASE SettleHead(p)
    BY <2>2, <1>11, ZenonT(30) DEF TypeOK, SettleHead, PassType
  <2>3. CASE \E t \in Txs : SettleStatus(p, t)
    BY <2>3, <1>11, ZenonT(30) DEF TypeOK, SettleStatus, PassType
  <2>4. CASE SettleFail(p)
    BY <2>4, <1>11 DEF SettleFail
  <2>5. CASE SettleApply(p)
    BY <2>5, DecisionTyped, PersistedTyped, ReconciledTyped, SMTT(30)
       DEF TypeOK, SettleApply, Changed, network, history
  <2>6. CASE SettleInterrupted(p)
    BY <2>6, DecisionTyped, PersistedTyped, ReconciledTyped, SMTT(30)
       DEF TypeOK, SettleInterrupted, Changed, network, history
  <2>7. QED
    BY <1>12, <2>1, <2>2, <2>3, <2>4, <2>5, <2>6 DEF SettleStep
<1>13. ASSUME NEW due \in SUBSET Txs, NEW failed \in SUBSET Txs,
              Prune(due, failed)
       PROVE  TypeOK'
  BY <1>13, PersistedTyped DEF TypeOK, Prune, network, RecordType
<1>14. ASSUME NEW o \in Objs, ImportCheck(o) \/ ImportFile(o)
       PROVE  TypeOK'
  <2>1. importing' \subseteq Foreign
    BY <1>14 DEF TypeOK, ImportCheck, ImportFile
  <2>2. file' \in [Objs -> FileType]
    BY <1>14 DEF TypeOK, ImportCheck, ImportFile, durable, FileType
  <2>3. QED
    BY <1>14, <2>1, <2>2 DEF TypeOK, ImportCheck, ImportFile, network, durable,
                             history
<1>15. CASE Crash
  BY <1>15 DEF TypeOK, Crash, network, durable, history, NoSub, NoProof
<1>16. CASE UNCHANGED vars
  BY <1>16 DEF TypeOK, vars
<1>17. QED
  BY <1>1, <1>2, <1>3, <1>4, <1>5, <1>6, <1>7, <1>8, <1>9, <1>10, <1>12,
     <1>13, <1>14, <1>15, <1>16, BoundAssumption
     DEF Next, ProofStep, SubmitStep

\* Every variable of the driver and the network keeps its type.
THEOREM TypeCorrect == Spec => []TypeOK
BY TypeInit, TypeNext, PTL DEF Spec

-----------------------------------------------------------------------------
(* Which steps change what. *)

\* The steps that leave proofs and holds alone, and open no record.
LEMMA RecordsFrame ==
    ASSUME TypeOK, [Next]_vars
    PROVE  \/ ProofStep
           \/ Crash
           \/ /\ UNCHANGED <<holds, proof, started>>
              /\ \A t \in Txs : IsOpen(record'[t]) => IsOpen(record[t])
<1> DEFINE Frame ==
      /\ UNCHANGED <<holds, proof, started>>
      /\ \A t \in Txs : IsOpen(record'[t]) => IsOpen(record[t])
<1>1. CASE Block
  BY <1>1, Zenon DEF Block, EmptyBlock, IncludeTx, ForeignSpend, durable, volatile,
              history
<1>2. ASSUME NEW t \in Txs, NEW g \in Blocks, RelayerAccept(t, g)
      PROVE  Frame
  BY <1>2 DEF RelayerAccept, durable, history
<1>3. ASSUME NEW t \in Txs, Delete(t) \/ DeleteInterrupted(t)
      PROVE  Frame
  BY <1>3 DEF TypeOK, Delete, DeleteInterrupted, volatile, IsOpen, NoRecord
<1>4. ASSUME NEW t \in Txs,
             SubmitRead(t) \/ SubmitCheck(t) \/ SubmitLoad(t) \/ SubmitStop(t)
      PROVE  Frame
  BY <1>4 DEF SubmitRead, SubmitCheck, SubmitLoad, SubmitStop, durable, history
<1>5. ASSUME NEW t \in Txs, SubmitAttempt(t) \/ SubmitFinish(t)
      PROVE  Frame
  BY <1>5, SMTT(30) DEF TypeOK, SubmitAttempt, SubmitFinish, history, IsOpen, RecordType
<1>6. ASSUME NEW p \in Passes, SettleStep(p)
      PROVE  Frame
  <2>1. CASE UNCHANGED <<durable, holds, proof, history>>
    BY <2>1 DEF durable, history
  <2>2. CASE SettleApply(p) \/ SettleInterrupted(p)
    <3>1. PICK S \in SUBSET Changed(p) : record' = SettledRecords(p, S)
      BY <2>2 DEF SettleApply, SettleInterrupted
    <3>2. \A t \in S : IsOpen(record[t])
      BY <3>1 DEF Changed, Decides
    <3>3. QED
      BY <2>2, <3>1, <3>2
         DEF SettleApply, SettleInterrupted, SettledRecords, history
  <2>3. QED
    BY <1>6, <2>1, <2>2, Zenon
       DEF SettleStep, SettleLoad, SettleHead, SettleStatus, SettleFail, SetPass
<1>7. ASSUME NEW due \in SUBSET Txs, NEW failed \in SUBSET Txs,
             Prune(due, failed)
      PROVE  Frame
  BY <1>7 DEF Prune, IsOpen, NoRecord
<1>8. ASSUME NEW o \in Objs, ImportCheck(o) \/ ImportFile(o)
      PROVE  Frame
  BY <1>8 DEF ImportCheck, ImportFile, durable, history
<1>9. CASE UNCHANGED vars
  BY <1>9 DEF vars
<1>10. QED
  BY <1>1, <1>2, <1>3, <1>4, <1>5, <1>6, <1>7, <1>8, <1>9, BoundAssumption, Zenon
     DEF Next, SubmitStep

-----------------------------------------------------------------------------
(* Inputs are held by one proof, or spent by one open record. *)

LEMMA LockedByOpen ==
    ASSUME NEW o
    PROVE  o \in locked_inputs <=>
              \E t \in Txs : IsOpen(record[t]) /\ o \in Inputs[t]
BY SMTT(30) DEF locked_inputs

LEMMA HoldsNext == TypeOK /\ HoldsExclusive /\ [Next]_vars => HoldsExclusive'
<1> SUFFICES ASSUME TypeOK, HoldsExclusive, [Next]_vars
             PROVE  HoldsExclusive'
  OBVIOUS
<1> USE ObjsAssumption
<1>1. ASSUME UNCHANGED <<holds, proof>>,
             \A t \in Txs : IsOpen(record'[t]) => IsOpen(record[t])
      PROVE  HoldsExclusive'
  <2>1. locked_inputs' \subseteq locked_inputs
    BY <1>1 DEF locked_inputs
  <2>2. QED
    BY <1>1, <2>1 DEF HoldsExclusive
<1>2. ASSUME NEW w \in Owners, NEW t \in Txs, Prove(w, t)
      PROVE  HoldsExclusive'
  <2>1. locked_inputs' = locked_inputs
    BY <1>2 DEF Prove, locked_inputs, durable
  <2>2. SUFFICES ASSUME NEW v \in Owners, proof'[v].phase # "idle",
                        NEW o \in Inputs[proof'[v].tx]
                 PROVE  holds'[o] = v /\ o \notin locked_inputs
    BY <2>1 DEF HoldsExclusive
  <2>3. CASE v = w
    BY <1>2, <2>2, <2>3 DEF TypeOK, Prove, TakeHolds
  <2>4. CASE v # w
    <3>1. proof'[v] = proof[v]
      BY <1>2, <2>4, SMTT(30) DEF TypeOK, Prove
    <3>2. o \in Objs /\ holds[o] = v /\ o \notin locked_inputs
      BY <2>2, <3>1 DEF TypeOK, HoldsExclusive
    <3>3. o \notin Inputs[t]
      BY <1>2, <3>2 DEF Prove
    <3>4. QED
      BY <1>2, <3>2, <3>3 DEF Prove, TakeHolds
  <2>5. QED
    BY <2>3, <2>4
<1>3. ASSUME NEW w \in Owners, Ground(w)
      PROVE  HoldsExclusive'
  <2>1. locked_inputs' = locked_inputs
    BY <1>3 DEF Ground, locked_inputs, durable
  <2>2. QED
    BY <1>3, <2>1 DEF HoldsExclusive, TypeOK, ProofType, Ground
<1>4. ASSUME NEW w \in Owners, proof[w].phase # "idle", DropHolds(proof[w].tx),
             proof' = [proof EXCEPT ![w] = NoProof]
      PROVE  \A v \in Owners : proof'[v].phase # "idle" =>
                /\ proof'[v] = proof[v]
                /\ \A o \in Inputs[proof[v].tx] :
                      holds'[o] = v /\ o \notin Inputs[proof[w].tx]
  <2> SUFFICES ASSUME NEW v \in Owners, proof'[v].phase # "idle",
                      NEW o \in Inputs[proof[v].tx]
               PROVE  /\ proof'[v] = proof[v]
                      /\ holds'[o] = v /\ o \notin Inputs[proof[w].tx]
    BY <1>4 DEF TypeOK, NoProof
  <2>1. v # w /\ proof'[v] = proof[v]
    BY <1>4, SMTT(30) DEF TypeOK, NoProof
  <2>2. o \in Objs /\ holds[o] = v
    BY <2>1, SMTT(30) DEF HoldsExclusive, TypeOK, ProofType
  <2>3. o \notin Inputs[proof[w].tx]
    BY <1>4, <2>1, <2>2, Zenon DEF HoldsExclusive
  <2>4. QED
    BY <1>4, <2>1, <2>2, <2>3, SMTT(30) DEF DropHolds
<1>5. ASSUME NEW w \in Owners, Abandon(w) \/ RecordInterrupted(w)
      PROVE  HoldsExclusive'
  <2>1. locked_inputs' = locked_inputs
    BY <1>5, Zenon DEF Abandon, RecordInterrupted, locked_inputs, durable
  <2>2. QED
    BY <1>4, <1>5, <2>1 DEF HoldsExclusive, Abandon, RecordInterrupted
<1>6. ASSUME NEW w \in Owners, Record(w)
      PROVE  HoldsExclusive'
  <2>1. locked_inputs' \subseteq locked_inputs \cup Inputs[proof[w].tx]
    BY <1>6 DEF Record, TypeOK, locked_inputs
  <2>2. \A v \in Owners : proof'[v].phase # "idle" =>
          /\ proof'[v] = proof[v]
          /\ \A o \in Inputs[proof[v].tx] :
                holds'[o] = v /\ o \notin Inputs[proof[w].tx]
    BY <1>4, <1>6, Zenon DEF Record
  <2>3. QED
    BY <2>1, <2>2 DEF HoldsExclusive
<1>7. CASE Crash
  BY <1>7, Zenon DEF Crash, HoldsExclusive, NoProof
<1>8. QED
  BY <1>1, <1>2, <1>3, <1>5, <1>6, <1>7, RecordsFrame DEF ProofStep

\* A proof in progress has its inputs to itself: no other proof holds them
\* and no open record spends them.
THEOREM HoldsAreExclusive == Spec => []HoldsExclusive
<1>1. Init => HoldsExclusive
  BY DEF Init, HoldsExclusive, NoProof
<1>2. QED
  BY <1>1, HoldsNext, TypeCorrect, PTL DEF Spec

LEMMA DisjointNext ==
    TypeOK /\ OpenInputsDisjoint /\ [Next]_vars => OpenInputsDisjoint'
<1> SUFFICES ASSUME TypeOK, OpenInputsDisjoint, [Next]_vars
             PROVE  OpenInputsDisjoint'
  OBVIOUS
<1>1. CASE \A t \in Txs : IsOpen(record'[t]) => IsOpen(record[t])
  BY <1>1 DEF OpenInputsDisjoint
<1>2. ASSUME NEW w \in Owners, Record(w)
      PROVE  OpenInputsDisjoint'
  <2> DEFINE t == proof[w].tx
  <2>1. \A u \in Txs : u # t => record'[u] = record[u]
    BY <1>2 DEF Record, TypeOK
  <2>2. \A u \in Txs : IsOpen(record[u]) => Inputs[u] \cap Inputs[t] = {}
    BY <1>2, LockedByOpen, ZenonT(30) DEF Record, Recordable
  <2>3. QED
    BY <2>1, <2>2, SMTT(30) DEF OpenInputsDisjoint
<1>3. CASE ProofStep \/ Crash
  <2>1. ASSUME NEW w \in Owners, NEW t \in Txs, Prove(w, t)
        PROVE  record' = record
    BY <2>1 DEF Prove, durable
  <2>2. ASSUME NEW w \in Owners, Ground(w) \/ Abandon(w) \/ RecordInterrupted(w)
        PROVE  record' = record
    BY <2>2 DEF Ground, Abandon, RecordInterrupted, durable
  <2>3. CASE Crash
    BY <2>3, SMTT(30) DEF Crash, durable, OpenInputsDisjoint
  <2>4. QED
    BY <1>2, <1>3, <2>1, <2>2, <2>3 DEF ProofStep, OpenInputsDisjoint
<1>4. QED
  BY <1>1, <1>3, RecordsFrame

\* No two open records spend the same object.
THEOREM OpenRecordsDisjoint == Spec => []OpenInputsDisjoint
<1>1. Init => OpenInputsDisjoint
  BY DEF Init, OpenInputsDisjoint, IsOpen, NoRecord
<1>2. QED
  BY <1>1, DisjointNext, TypeCorrect, PTL DEF Spec
-----------------------------------------------------------------------------
(* Object files move forward. *)

LEMMA PersistedForward ==
    ASSUME TypeOK, NEW o \in Objs, NEW rs, NEW T
    PROVE  /\ FileStep(file[o], Persisted(o, rs, T))
           /\ file[o].status = "absent" => Persisted(o, rs, T) = file[o]
<1> DEFINE g == Persisted(o, rs, T)
<1>1. \/ g = file[o]
      \/ file[o].status # "absent" /\ g = [file[o] EXCEPT !.status = "nullified"]
      \/ file[o].status = "unknown" /\ g = [file[o] EXCEPT !.status = "live"]
      \/ file[o].status = "unknown" /\ g = NoFile
  BY DEF Persisted
<1>2. file[o] \in FileType
  BY DEF TypeOK
<1>3. QED
  BY <1>1, <1>2 DEF FileStep, Rank, FileType, NoFile

LEMMA ReconciledForward ==
    ASSUME NEW p, NEW o, NEW f \in FileType
    PROVE  /\ FileStep(f, Reconciled(p, o, f))
           /\ f.status = "absent" => Reconciled(p, o, f) = f
<1> DEFINE g == Reconciled(p, o, f)
<1>1. \/ g = f
      \/ f.status # "absent" /\ g = [f EXCEPT !.status = "nullified"]
      \/ f.status = "unknown" /\ g = [f EXCEPT !.status = "live"]
  BY DEF Reconciled, ChainFileStatus
<1>2. QED
  BY <1>1 DEF FileStep, Rank, FileType, Reconciled, ChainFileStatus

LEMMA FileStepTrans ==
    ASSUME NEW f \in FileType, NEW g \in FileType, NEW h \in FileType,
           FileStep(f, g), FileStep(g, h), g.status = "absent" => h = g
    PROVE  FileStep(f, h)
BY SMTT(30) DEF FileStep, Rank, FileType

LEMMA FilesNext ==
    ASSUME TypeOK, [Next]_vars, NEW o \in Objs
    PROVE  FileStep(file[o], file'[o])
<1>0. file[o] \in FileType /\ FileStep(file[o], file[o])
  BY DEF TypeOK, FileStep, Rank, FileType
<1>1. CASE file'[o] = file[o]
  BY <1>0, <1>1
<1>2. CASE ProofStep
  <2>1. ASSUME NEW w \in Owners, NEW t \in Txs, Prove(w, t)
        PROVE  file' = file
    BY <2>1 DEF Prove, durable
  <2>2. ASSUME NEW w \in Owners, Ground(w) \/ Abandon(w)
        PROVE  file' = file
    BY <2>2, SMTT(30) DEF Ground, Abandon, durable
  <2>3. ASSUME NEW w \in Owners, Record(w) \/ RecordInterrupted(w)
        PROVE  file[o].status # "absent" => file'[o] = file[o]
    BY <2>3 DEF Record, RecordInterrupted, Recordable, WriteOutputs
  <2>4. QED
    BY <1>1, <1>2, <2>1, <2>2, <2>3, SMTT(30) DEF ProofStep, FileStep
<1>3. CASE SubmitStep
  BY <1>1, <1>3 DEF SubmitStep, SubmitRead, SubmitCheck, SubmitLoad,
                    SubmitAttempt, SubmitStop, SubmitFinish, durable
<1>4. CASE Block \/ \E t \in Txs, g \in Blocks : RelayerAccept(t, g)
  BY <1>1, <1>4, ZenonT(30) DEF Block, EmptyBlock, IncludeTx, ForeignSpend, RelayerAccept,
                    durable
<1>5. ASSUME NEW t \in Txs, Delete(t) \/ DeleteInterrupted(t)
      PROVE  FileStep(file[o], file'[o])
  <2>1. \/ file'[o] = file[o]
        \/ file[o].status = "unknown" /\ file'[o] = NoFile
    BY <1>5 DEF Delete, DeleteInterrupted, RemoveFiles, UnknownOutputs
  <2>2. QED
    BY <1>0, <2>1, SMTT(30) DEF FileStep, NoFile
<1>6. ASSUME NEW p \in Passes, SettleStep(p)
      PROVE  FileStep(file[o], file'[o])
  <2>1. CASE UNCHANGED durable
    BY <1>1, <2>1, SMTT(30) DEF durable
  <2>2. ASSUME NEW rs, NEW T
        PROVE  /\ Persisted(o, rs, T) \in FileType
               /\ FileStep(file[o], Persisted(o, rs, T))
               /\ FileStep(file[o], Reconciled(p, o, Persisted(o, rs, T)))
    BY <1>0, PersistedTyped, PersistedForward, ReconciledTyped,
       ReconciledForward, FileStepTrans
  <2>3. FileStep(file[o], Reconciled(p, o, file[o]))
    BY <1>0, ReconciledForward, SMTT(30)
  <2>4. CASE SettleApply(p)
    BY <2>2, <2>4, SMTT(30) DEF SettleApply
  <2>5. CASE SettleInterrupted(p)
    <3>1. PICK S \in SUBSET Changed(p), P \in SUBSET Objs,
               R \in SUBSET (pass[p].created \cup pass[p].spent) :
               LET rs == SettledRecords(p, S)
                   persisted(x) == IF x \in P THEN Persisted(x, rs, S) ELSE file[x]
               IN file' = [x \in Objs |-> IF x \in R
                                           THEN Reconciled(p, x, persisted(x))
                                           ELSE persisted(x)]
      BY <2>5, SMTT(30) DEF SettleInterrupted
    <3>2. QED
      BY <1>0, <2>2, <2>3, <3>1, SMTT(30)
  <2>6. QED
    BY <1>6, <2>1, <2>4, <2>5, Zenon DEF SettleStep, SettleLoad, SettleHead,
                                  SettleStatus, SettleFail, SetPass
<1>7. ASSUME NEW due \in SUBSET Txs, NEW failed \in SUBSET Txs,
             Prune(due, failed)
      PROVE  FileStep(file[o], file'[o])
  BY <1>7, PersistedForward DEF Prune
<1>8. ASSUME NEW x \in Objs, ImportCheck(x) \/ ImportFile(x)
      PROVE  FileStep(file[o], file'[o])
  <2>1. \/ file'[o] = file[o]
        \/ file[o].status = "absent"
    BY <1>8 DEF ImportCheck, ImportFile, durable, TypeOK
  <2>2. QED
    BY <1>0, <2>1 DEF FileStep
<1>9. CASE Crash \/ UNCHANGED vars
  BY <1>1, <1>9 DEF Crash, durable, vars
<1>10. QED
  BY <1>2, <1>3, <1>4, <1>5, <1>6, <1>7, <1>8, <1>9 DEF Next

\* An object file only moves forward, unknown, live, nullified, keeps its
\* producer, and disappears only while unknown.
THEOREM FilesForward == Spec => FilesMoveForward
<1>1. TypeOK /\ [Next]_vars => [\A o \in Objs : FileStep(file[o], file'[o])]_vars
  BY FilesNext
<1>2. QED
  BY <1>1, TypeCorrect, PTL DEF Spec, FilesMoveForward
=============================================================================
