------------------------ MODULE TransactionsAgreement ------------------------
(***************************************************************************)
(* The proof that AgreementInv is inductive: what the driver writes into   *)
(* its records agrees with what the chain did and can still do.  From it,  *)
(* the proofs about the object files: they are backed by the chain, the    *)
(* outputs of what can land are kept, and a record that goes away leaves   *)
(* its files in line.                                                      *)
(***************************************************************************)
EXTENDS TransactionsSteps

USE DEF NoBlock

-----------------------------------------------------------------------------
(* Proofs of one transaction, and the groundings of its copies. *)

LEMMA ProofsAloneNext ==
    TypeOK /\ ProofsAlone /\ [Next]_vars => ProofsAlone'
<1> SUFFICES ASSUME TypeOK, ProofsAlone, [Next]_vars
             PROVE  ProofsAlone'
  OBVIOUS
<1>1. ASSUME NEW w \in Owners, NEW t \in Txs, Writes(w, t)
      PROVE  /\ proof[w].phase = "proved" /\ proof[w].tx = t /\ t \in started
             /\ proof'[w].phase = "idle"
  BY <1>1 DEF Writes, Record, RecordInterrupted, ProofsAlone, NoProof, TypeOK
<1>2. ASSUME NEW t \in Txs \ started'
      PROVE  Fresh(t)'
  BY <1>1, <1>2, FreshStays, StartedGrows DEF ProofsAlone
<1>3. ASSUME NEW w \in Owners, proof[w].phase # "idle",
             proof'[w].phase # "idle", proof'[w].tx = proof[w].tx
      PROVE  /\ proof'[w].tx \in started'
             /\ proof'[w].tx \notin Repeatable =>
                   /\ Fresh(proof[w].tx)'
                   /\ \A v \in Owners : Proving(v, proof[w].tx)' => v = w
  <2> DEFINE t == proof[w].tx
  <2>1. t \in Txs /\ t \in started
    BY <1>3 DEF ProofsAlone, TypeOK
  <2>2. SUFFICES ASSUME t \notin Repeatable
                 PROVE  /\ Fresh(proof[w].tx)'
                        /\ \A v \in Owners : Proving(v, proof[w].tx)' => v = w
    BY <1>3, <2>1, StartedGrows
  <2>3. Fresh(t) /\ \A v \in Owners : Proving(v, t) => v = w
    BY <1>3, <2>2 DEF ProofsAlone
  <2>4. \A v \in Owners : ~Writes(v, t)
    BY <1>1, <1>3, <2>1, <2>3 DEF Proving
  <2>5. ASSUME NEW x, x = t, Fresh(x)' PROVE Fresh(proof[w].tx)'
    BY <1>3, <2>5 DEF Fresh
  <2>6. Fresh(proof[w].tx)'
    BY <2>1, <2>3, <2>4, <2>5, FreshStays
  <2>7. ASSUME NEW v \in Owners, proof'[v].phase # "idle", proof'[v].tx = t
        PROVE  v = w
    <3>1. CASE proof'[v] = proof[v]
      BY <2>3, <2>7, <3>1 DEF Proving
    <3>2. CASE Ground(v)
      BY <2>3, <2>7, <3>2, SMTT(30) DEF Proving, Ground, TypeOK, ProofType
    <3>3. ASSUME NEW u \in Txs, Prove(v, u)
          PROVE  FALSE
      BY <2>1, <2>2, <2>7, <3>3, SMTT(30) DEF Prove, TypeOK
    <3>4. QED
      BY <2>7, <3>1, <3>2, <3>3, ProofFrame DEF NoProof
  <2>8. QED
    BY <1>3, <2>6, <2>7 DEF Proving
<1>4. ASSUME NEW w \in Owners, NEW t \in Txs, Prove(w, t)
      PROVE  /\ proof'[w].tx = t /\ t \in started'
             /\ t \notin Repeatable =>
                   /\ Fresh(t)'
                   /\ \A v \in Owners :
                         proof'[v].phase # "idle" /\ proof'[v].tx = t => v = w
  <2>1. proof'[w].tx = t /\ t \in started'
    BY <1>4 DEF Prove, TypeOK
  <2>2. SUFFICES ASSUME t \notin Repeatable
                 PROVE  /\ Fresh(t)'
                        /\ \A v \in Owners :
                             proof'[v].phase # "idle" /\ proof'[v].tx = t => v = w
    BY <2>1
  <2>3. t \notin started /\ Fresh(t)
    BY <1>4, <2>2 DEF Prove, ProofsAlone
  <2>4. \A v \in Owners : ~Writes(v, t)
    BY <1>1, <2>3
  <2>5. \A v \in Owners : v # w => proof'[v] = proof[v]
    BY <1>4 DEF Prove, TypeOK
  <2>6. QED
    BY <2>3, <2>4, <2>5, FreshStays DEF ProofsAlone
<1>5. ASSUME NEW w \in Owners, proof'[w].phase # "idle"
      PROVE  /\ proof'[w].tx \in started'
             /\ proof'[w].tx \notin Repeatable =>
                   /\ Fresh(proof[w].tx)'
                   /\ \A v \in Owners : Proving(v, proof[w].tx)' => v = w
  <2>1. CASE proof'[w] = proof[w] \/ Ground(w)
    <3>1. proof[w].phase # "idle" /\ proof'[w].tx = proof[w].tx
      BY <1>5, <2>1 DEF Ground, TypeOK, ProofType
    <3>2. QED
      BY <1>3, <1>5, <3>1
  <2>2. ASSUME NEW t \in Txs, Prove(w, t)
        PROVE  /\ proof'[w].tx \in started'
               /\ proof'[w].tx \notin Repeatable =>
                     /\ Fresh(proof[w].tx)'
                     /\ \A v \in Owners : Proving(v, proof[w].tx)' => v = w
    <3>1. proof'[w].tx = t
      BY <1>4, <2>2
    <3>2. ASSUME Fresh(t)' PROVE Fresh(proof[w].tx)'
      BY <3>1, <3>2 DEF Fresh
    <3>3. QED
      BY <1>4, <2>2, <3>1, <3>2 DEF Proving
  <2>3. QED
    BY <1>5, <2>1, <2>2, ProofFrame DEF NoProof
<1>6. QED
  BY <1>2, <1>5 DEF ProofsAlone
\* A proof in progress is of a transaction without an open record, and no
\* other proof is of the same transaction.
LEMMA Alone ==
    ASSUME TypeOK, HoldsExclusive, ProofsAlone, NEW w \in Owners,
           proof[w].phase # "idle"
    PROVE  /\ proof[w].tx \in Txs
           /\ ~IsOpen(record[proof[w].tx])
           /\ \A v \in Owners : Proving(v, proof[w].tx) => v = w
<1> DEFINE t == proof[w].tx
<1>1. t \in Txs
  BY DEF TypeOK
<1>2. CASE t \in Repeatable
  <2>1. PICK o \in Inputs[t] : TRUE
    BY <1>2, RepeatAssumption
  <2>2. holds[o] = w /\ o \notin locked_inputs
    BY DEF HoldsExclusive
  <2>3. \A v \in Owners : Proving(v, t) => holds[o] = v
    BY DEF HoldsExclusive, Proving
  <2>4. QED
    BY <1>1, <2>2, <2>3, LockedByOpen
<1>3. CASE t \notin Repeatable
  BY <1>1, <1>3 DEF ProofsAlone, Fresh, IsOpen
<1>4. QED
  BY <1>2, <1>3

LEMMA NotNewerKept ==
    ASSUME TypeOK, [Next]_vars, NEW t \in Txs, NEW x \in Int, NoBlock <= x,
           NotNewer(t, x),
           record[t].state = "recorded" => record[t].grounding <= x,
           \A w \in Owners : Writes(w, t) => proof[w].grounding <= x
    PROVE  NotNewer(t, x)'
<1>1. job'[t] <= x
  BY CopiesFrame DEF NotNewer
<1>2. payload'[t] <= x
  BY CopiesFrame DEF NotNewer
<1>3. sub'[t].grounding <= x
  BY CopiesFrame DEF NotNewer, NoSub
<1>4. \A g \in wire'[t] : g <= x
  BY CopiesFrame DEF NotNewer
<1>5. QED
  BY <1>1, <1>2, <1>3, <1>4 DEF NotNewer

LEMMA GroundingsNext ==
    /\ TypeOK /\ HoldsExclusive /\ ProofsAlone /\ GroundingsOrdered
    /\ [Next]_vars
    => GroundingsOrdered'
<1> SUFFICES ASSUME TypeOK, HoldsExclusive, ProofsAlone, GroundingsOrdered,
                    [Next]_vars
             PROVE  GroundingsOrdered'
  OBVIOUS
<1>1. TypeOK' /\ head' \in Nat /\ head \in Nat /\ head <= head'
  BY TypeNext, ChainGrows DEF TypeOK
<1>2. /\ \A t \in Txs : record[t].grounding \in Int /\ NoBlock <= record[t].grounding
      /\ \A w \in Owners : proof[w].grounding \in Int /\ NoBlock <= proof[w].grounding
  BY SMTT(30) DEF TypeOK, RecordType, ProofType
<1>3. ASSUME NEW w \in Owners, NEW t \in Txs, Writes(w, t)
      PROVE  /\ proof[w].phase = "proved" /\ proof[w].tx = t
             /\ record[t].state = "none" /\ proof'[w].phase = "idle"
  BY <1>3 DEF Writes, Record, RecordInterrupted, Recordable, NoProof, TypeOK
<1>4. ASSUME NEW t \in Txs
      PROVE  NotNewer(t, head)' /\ record'[t].grounding <= head'
  <2>1. ASSUME NEW x, x = head, NotNewer(t, x)'
        PROVE  NotNewer(t, head)'
    <3>1. /\ job'[t] \in Int /\ payload'[t] \in Int /\ sub'[t].grounding \in Int
          /\ \A g \in wire'[t] : g \in Int
      BY <1>1, SMTT(30) DEF TypeOK, SubType
    <3>2. QED
      BY <1>1, <2>1, <3>1 DEF NotNewer
  <2>2. NotNewer(t, head)'
    BY <1>1, <2>1, NotNewerKept DEF GroundingsOrdered
  <2>3. \/ record'[t].grounding = record[t].grounding
        \/ record'[t].grounding = NoBlock
        \/ \E w \in Owners : record'[t].grounding = proof[w].grounding
    <3>1. \/ record'[t] = record[t] \/ record'[t] = NoRecord
          \/ record'[t].grounding = record[t].grounding
          \/ \E w \in Owners : record'[t].grounding = proof[w].grounding
      BY RecordWritten, Zenon
    <3>2. QED
      BY <3>1 DEF NoRecord
  <2>4. /\ record[t].grounding <= head
        /\ \A w \in Owners : proof[w].grounding <= head
    BY DEF GroundingsOrdered
  <2>5. record'[t].grounding <= head'
    BY <1>1, <1>2, <2>3, <2>4
  <2>6. QED
    BY <2>2, <2>5, SMTT(30)
<1>5. ASSUME NEW w \in Owners
      PROVE  proof'[w].grounding <= head'
  <2>1. \/ proof'[w].grounding = proof[w].grounding
        \/ proof'[w].grounding \in {NoBlock, head}
    <3>1. Ground(w) => proof'[w].grounding = head
      BY DEF Ground, TypeOK, ProofType
    <3>2. ASSUME NEW t \in Txs, Prove(w, t) PROVE proof'[w].grounding = NoBlock
      BY <3>2 DEF Prove, TypeOK
    <3>3. QED
      BY <3>1, <3>2, ProofFrame DEF NoProof
  <2>2. QED
    BY <1>1, <1>2, <2>1 DEF GroundingsOrdered
<1>6. ASSUME NEW t \in Txs, IsOpen(record'[t])
      PROVE  NotNewer(t, record[t].grounding)'
  <2>1. CASE record[t].state = "none"
    <3>1. PICK w \in Owners : Record(w) /\ proof[w].tx = t
      BY <1>6, <2>1, RecordBorn, SMTT(30) DEF IsOpen
    <3>2. record'[t].grounding = proof[w].grounding /\ proof[w].phase = "proved"
      BY <3>1, SMTT(30) DEF Record, TypeOK
    <3>3. \A v \in Owners : Writes(v, t) => v = w
      BY <1>3, <3>1, <3>2, Alone DEF Proving
    <3>4. ASSUME NEW x, x = proof[w].grounding, NotNewer(t, x)'
          PROVE  NotNewer(t, record[t].grounding)'
      BY <3>2, <3>4 DEF NotNewer
    <3>5. QED
      BY <1>2, <2>1, <3>1, <3>2, <3>3, <3>4, NotNewerKept DEF GroundingsOrdered
  <2>2. CASE record[t].state # "none"
    <3>1. record'[t].state \in {"recorded", "submitted"}
      BY <1>6 DEF IsOpen
    <3>2. record'[t].grounding = record[t].grounding /\ IsOpen(record[t])
      <4>1. record'[t] # NoRecord
        BY <3>1, SMTT(30) DEF NoRecord
      <4>2. QED
        BY <2>2, <3>1, <4>1, RecordWritten, Zenon DEF IsOpen
    <3>3. ASSUME NEW x, x = record[t].grounding, NotNewer(t, x)'
          PROVE  NotNewer(t, record[t].grounding)'
      BY <3>2, <3>3 DEF NotNewer
    <3>4. \A v \in Owners : ~Writes(v, t)
      BY <1>3, <2>2, SMTT(30)
    <3>5. QED
      BY <1>2, <3>2, <3>3, <3>4, NotNewerKept DEF GroundingsOrdered
  <2>3. QED
    BY <2>1, <2>2, SMTT(30)
<1>7. ASSUME NEW w \in Owners, proof'[w].phase = "proved"
      PROVE  NotNewer(proof[w].tx, proof[w].grounding)'
  <2>1. CASE proof'[w] = proof[w]
    <3> DEFINE t == proof[w].tx
               x == proof[w].grounding
    <3>1. /\ t \in Txs /\ ~IsOpen(record[t])
          /\ \A v \in Owners : Proving(v, t) => v = w
      BY <1>7, <2>1, Alone
    <3>2. \A v \in Owners : ~Writes(v, t)
      BY <1>3, <1>7, <3>1 DEF Proving
    <3>3. NotNewer(t, x)
      BY <1>7, <2>1 DEF GroundingsOrdered
    <3>4. ASSUME NEW t1, NEW x1, t1 = t, x1 = x, NotNewer(t1, x1)'
          PROVE  NotNewer(proof[w].tx, proof[w].grounding)'
      BY <2>1, <3>4 DEF NotNewer
    <3>5. QED
      BY <1>2, <3>1, <3>2, <3>3, <3>4, NotNewerKept, SMTT(30) DEF IsOpen
  <2>2. CASE Ground(w)
    <3> DEFINE t == proof[w].tx
    <3>1. t \in Txs /\ proof'[w].tx = t /\ proof'[w].grounding = head
      BY <2>2 DEF Ground, TypeOK, ProofType
    <3>2. UNCHANGED <<network, durable, sub>>
      BY <2>2 DEF Ground
    <3>3. NotNewer(t, head)
      BY <3>1 DEF GroundingsOrdered
    <3>4. QED
      BY <3>1, <3>2, <3>3 DEF NotNewer, network, durable
  <2>3. QED
    BY <1>7, <2>1, <2>2, ProofFrame, SMTT(30) DEF Prove, NoProof, TypeOK
<1>8. QED
  BY <1>4, <1>5, <1>6, <1>7 DEF GroundingsOrdered
-----------------------------------------------------------------------------
(* What was never offered, and what a pass decided, agrees with the chain. *)

LEMMA DecidedTerminal ==
    ASSUME TypeOK, NEW p \in Passes, NEW t \in Txs, Settles(p, t)
    PROVE  Decision(p, t) \in {"landed", "expired"}
<1>1. Decision(p, t) \in {"landed", "expired", record[t].state}
  BY DEF Decision
<1>2. QED
  BY <1>1 DEF Settles, Changed

LEMMA AttemptRecorded ==
    ASSUME TypeOK, NEW t \in Txs, SubmitAttempt(t)
    PROVE  /\ record[t].state = "recorded"
           /\ record'[t].state = "recorded" /\ record'[t].attempted = TRUE
BY DEF SubmitAttempt, TypeOK, RecordType

LEMMA NullifiedStays ==
    ASSUME TypeOK, [Next]_vars, NEW o \in Objs, file[o].status = "nullified"
    PROVE  file'[o].status = "nullified"
<1>1. file'[o] \in FileType /\ FileStep(file[o], file'[o])
  BY TypeNext, FilesNext, SMTT(30) DEF TypeOK
<1>2. QED
  BY <1>1 DEF FileStep, Rank, FileType

\* Pruning a landed record leaves its inputs nullified.
LEMMA PruneNullifies ==
    ASSUME TypeOK, InputsPresent, NEW t \in Txs, Prunes(t),
           record[t].state = "landed", NEW o \in Inputs[t]
    PROVE  file'[o].status = "nullified"
<1>1. o \in Objs /\ file[o] \in FileType /\ file[o].status # "absent"
  BY ObjsAssumption DEF InputsPresent, TypeOK
<1>2. PICK due \in SUBSET Txs, failed \in SUBSET Txs :
         Prune(due, failed) /\ t \in due \ failed
  BY DEF Prunes
<1>3. PICK T \in SUBSET Txs : t \in T /\ file'[o] = Persisted(o, record, T)
  BY <1>1, <1>2, ZenonT(30) DEF Prune
<1>4. QED
  BY <1>1, <1>3 DEF Persisted, FileType

\* Whoever proves a transaction proves one that has not landed and cannot.
LEMMA RecordsDead ==
    ASSUME TypeOK, HoldsExclusive, ProofsAlone, UnofferedDead,
           NEW w \in Owners, Record(w)
    PROVE  proof[w].tx \in Txs /\ Dead(proof[w].tx)
<1> DEFINE t == proof[w].tx
<1>1. t \in Txs /\ proof[w].phase = "proved" /\ record[t].state = "none"
  BY DEF TypeOK, Record, Recordable
<1>2. \A o \in Inputs[t] : file[o].status = "live"
  BY DEF Record, Recordable
<1>3. CASE t \in Repeatable
  BY <1>1, <1>2, <1>3, SMTT(30) DEF UnofferedDead
<1>4. CASE t \notin Repeatable
  BY <1>1, <1>4 DEF ProofsAlone, Fresh, Dead
<1>5. QED
  BY <1>1, <1>3, <1>4, Zenon

LEMMA UnofferedDeadNext ==
    /\ TypeOK /\ HoldsExclusive /\ ProofsAlone /\ InputsPresent
    /\ UnofferedDead /\ TerminalAgreesWithChain /\ [Next]_vars
    => UnofferedDead'
<1> SUFFICES ASSUME TypeOK, HoldsExclusive, ProofsAlone, InputsPresent,
                    UnofferedDead, TerminalAgreesWithChain, [Next]_vars,
                    NEW t \in Txs
             PROVE  /\ record'[t].state = "recorded" /\ ~record'[t].attempted
                          => Dead(t)'
                    /\ record'[t].state = "none" =>
                          \/ Dead(t)'
                          \/ t \notin Repeatable
                          \/ \E o \in Inputs[t] : file'[o].status = "nullified"
  BY DEF UnofferedDead
<1>1. ASSUME record'[t].state = "recorded", ~record'[t].attempted
      PROVE  Dead(t)'
  <2>1. ~SubmitAttempt(t)
    BY <1>1, AttemptRecorded, Zenon
  <2>2. record'[t] # NoRecord
    BY <1>1 DEF NoRecord
  <2>3. CASE record'[t] = record[t]
    BY <1>1, <2>1, <2>3, DeadStays DEF UnofferedDead
  <2>4. CASE \E w \in Owners : Record(w) /\ proof[w].tx = t
    BY <2>1, <2>4, RecordsDead, DeadStays, SMTT(30)
  <2>5. QED
    BY <1>1, <2>1, <2>2, <2>3, <2>4, RecordWritten, DecidedTerminal, Zenon
<1>2. ASSUME record'[t].state = "none"
      PROVE  \/ Dead(t)'
             \/ t \notin Repeatable
             \/ \E o \in Inputs[t] : file'[o].status = "nullified"
  <2>1. ~SubmitAttempt(t)
    BY <1>2, AttemptRecorded, ZenonT(30)
  <2>2. CASE record[t].state = "none"
    <3>1. ASSUME NEW o \in Inputs[t], file[o].status = "nullified"
          PROVE  file'[o].status = "nullified"
      BY <3>1, ObjsAssumption, NullifiedStays, SMTT(30)
    <3>2. QED
      BY <2>1, <2>2, <3>1, DeadStays DEF UnofferedDead
  <2>3. CASE Delete(t)
    BY <2>1, <2>3, DeadStays DEF UnofferedDead, Delete, Deletable
  <2>4. CASE Prunes(t)
    <3>1. record[t].state \in {"landed", "expired"}
      BY <2>4 DEF Prunes, Prune, IsTerminal
    <3>2. CASE record[t].state = "expired"
      BY <2>1, <3>2, DeadStays, SMTT(30) DEF TerminalAgreesWithChain
    <3>3. CASE record[t].state = "landed"
      BY <2>4, <3>3, PruneNullifies, RepeatAssumption, SMTT(30)
    <3>4. QED
      BY <3>1, <3>2, <3>3, SMTT(30)
  <2>5. QED
    BY <1>2, <2>2, <2>3, <2>4, RecordWritten, DecidedTerminal, Zenon
<1>3. QED
  BY <1>1, <1>2

LEMMA ExpiryRight ==
    ASSUME TypeOK, GroundingsOrdered, SnapshotsSound, ChainSound, UnofferedDead,
           NEW p \in Passes, NEW t \in Txs, Settles(p, t),
           Decision(p, t) = "expired"
    PROVE  Dead(t)
<1>1. /\ t \in pass[p].queried /\ IsOpen(record[t])
      /\ NeedsTxStatus(record[t]) => pass[p].status[t] # "unread"
  BY SMTT(30) DEF Settles, Changed, Decides
<1>2. /\ pass[p] \in PassType /\ record[t] \in RecordType
      /\ head \in Nat /\ job[t] \in Int /\ wire[t] \subseteq Nat
  BY SMTT(30) DEF TypeOK
<1>3. pass[p].status[t] \in {"unread", "absent", "applied", "rejected"}
  BY <1>2, ZenonT(30) DEF PassType
<1>4. CASE pass[p].status[t] = "rejected"
  BY <1>4, SMTT(30) DEF SnapshotsSound, SnapshotSound, ChainSound, Dead
<1>5. CASE pass[p].status[t] = "unread"
  <2>1. record[t].state = "recorded" /\ ~record[t].attempted
    BY <1>1, <1>5, SMTT(30) DEF NeedsTxStatus, IsOpen
  <2>2. QED
    BY <2>1, Zenon DEF UnofferedDead
<1>6. CASE pass[p].status[t] = "absent"
  <2> DEFINE g == record[t].grounding
             h == pass[p].head
  <2>1. g \in Int /\ h \in Int /\ h <= head /\ MaxAge \in Nat
    BY <1>2, BoundAssumption DEF RecordType, PassType, SnapshotsSound, SnapshotSound
  <2>2. h - g > MaxAge
    BY <1>1, <1>6, SMTT(30) DEF Decision, grounding_aged_out, IsOpen
  <2>3. job[t] <= g /\ \A x \in wire[t] : x <= g
    BY <1>1, ZenonT(30) DEF GroundingsOrdered, NotNewer
  <2>4. chain[t] = "applied" => (h + 1) - job[t] <= MaxAge
    BY <1>2, <1>6, <2>1, SMTT(30) DEF SnapshotsSound, SnapshotSound, grounding_aged_out
  <2>5. chain[t] # "applied"
    BY <1>2, <2>1, <2>2, <2>3, <2>4, SMTT(30)
  <2>6. ASSUME NEW x \in Int, x <= g PROVE ~Acceptable(t, x, head + 1)
    BY <1>2, <2>1, <2>2, <2>6 DEF Acceptable, grounding_aged_out
  <2>7. QED
    BY <1>2, <2>3, <2>5, <2>6, SMTT(30) DEF Dead
<1>7. CASE pass[p].status[t] = "applied"
  BY <1>7, SMTT(30) DEF Decision
<1>8. QED
  BY <1>3, <1>4, <1>5, <1>6, <1>7

LEMMA AppliedStays ==
    ASSUME TypeOK, [Next]_vars, NEW t \in Txs, chain[t] = "applied"
    PROVE  chain'[t] = "applied"
BY ChainKept, SMTT(30) DEF IncludeTx, TypeOK

LEMMA LandingRight ==
    ASSUME TypeOK, SnapshotsSound, NEW p \in Passes, NEW t \in Txs,
           Settles(p, t), Decision(p, t) = "landed"
    PROVE  chain[t] = "applied"
<1>1. pass[p] \in PassType /\ IsOpen(record[t])
  BY SMTT(30) DEF TypeOK, Settles, Changed, Decides
<1>2. pass[p].status[t] \in {"unread", "absent", "applied", "rejected"}
  BY <1>1, Zenon DEF PassType
<1>3. pass[p].status[t] = "applied"
  BY <1>1, <1>2, SMTT(30) DEF Decision, IsOpen
<1>4. QED
  BY <1>3 DEF SnapshotsSound, SnapshotSound

LEMMA TerminalNext ==
    /\ TypeOK /\ GroundingsOrdered /\ SnapshotsSound /\ ChainSound
    /\ UnofferedDead /\ TerminalAgreesWithChain /\ [Next]_vars
    => TerminalAgreesWithChain'
<1> SUFFICES ASSUME TypeOK, GroundingsOrdered, SnapshotsSound, ChainSound,
                    UnofferedDead, TerminalAgreesWithChain, [Next]_vars,
                    NEW t \in Txs
             PROVE  /\ record'[t].state = "landed" => chain'[t] = "applied"
                    /\ record'[t].state = "expired" => Dead(t)'
  BY SMTT(30) DEF TerminalAgreesWithChain
<1>1. ASSUME record'[t].state \in {"landed", "expired"}
      PROVE  \/ record'[t] = record[t]
             \/ \E p \in Passes : Settles(p, t) /\ record'[t].state = Decision(p, t)
  <2>1. record'[t] # NoRecord
    BY <1>1 DEF NoRecord
  <2>2. QED
    BY <1>1, <2>1, RecordWritten, Zenon
<1>2. ASSUME record'[t].state = "landed" PROVE chain'[t] = "applied"
  BY <1>1, <1>2, LandingRight, AppliedStays DEF TerminalAgreesWithChain
<1>3. ASSUME record'[t].state = "expired" PROVE Dead(t)'
  <2>1. ~SubmitAttempt(t)
    BY <1>3, AttemptRecorded, Zenon
  <2>2. Dead(t)
    BY <1>1, <1>3, ExpiryRight, SMTT(30) DEF TerminalAgreesWithChain
  <2>3. QED
    BY <2>1, <2>2, DeadStays, SMTT(30)
<1>4. QED
  BY <1>2, <1>3, SMTT(30)

LEMMA AgreementInit == Init => AgreementInv
<1> SUFFICES ASSUME Init PROVE AgreementInv
  OBVIOUS
<1>1. TypeOK
  BY TypeInit
<1>2. /\ \A t \in Txs : Fresh(t) /\ Dead(t) /\ NotNewer(t, head)
                        /\ record[t] = NoRecord
      /\ \A w \in Owners : proof[w] = NoProof
      /\ \A p \in Passes : pass[p] = NoPass
      /\ started = {} /\ head = 0
  BY DEF Init, Fresh, Dead, NotNewer, NoRecord, NoSub
<1>3. ASSUME NEW p \in Passes PROVE SnapshotSound(p)
  BY <1>2 DEF SnapshotSound, NoPass
<1>4. /\ \A t \in Txs : record[t].state = "none" /\ record[t].grounding <= head
      /\ \A w \in Owners : proof[w].phase = "idle" /\ proof[w].grounding <= head
  BY <1>2 DEF NoRecord, NoProof, NoBlock
<1>5. HoldsExclusive /\ InputsPresent /\ TerminalAgreesWithChain
  BY <1>4, Zenon DEF HoldsExclusive, InputsPresent, TerminalAgreesWithChain, IsOpen
<1>6. ProofsAlone
  BY <1>2, <1>4, Zenon DEF ProofsAlone
<1>7. GroundingsOrdered
  BY <1>2, <1>4 DEF GroundingsOrdered, IsOpen
<1>8. ChainSound /\ UnofferedDead
  BY <1>2, <1>4 DEF ChainSound, UnofferedDead, Fresh
<1>9. QED
  BY <1>1, <1>3, <1>5, <1>6, <1>7, <1>8, Zenon DEF AgreementInv, SnapshotsSound

LEMMA AgreementNext == AgreementInv /\ [Next]_vars => AgreementInv'
BY TypeNext, HoldsNext, ProofsAloneNext, GroundingsNext, SnapshotsNext,
   ChainSoundNext, UnofferedDeadNext, InputsNext, TerminalNext
   DEF AgreementInv

\* The whole strengthening is an invariant of the driver.
THEOREM AgreementHolds == Spec => []AgreementInv
<1>1. Init => AgreementInv
  BY AgreementInit
<1>2. AgreementInv /\ [Next]_vars => AgreementInv'
  BY AgreementNext
<1>3. QED
  BY <1>1, <1>2, PTL DEF Spec

\* settle_with never calls a transaction landed that the chain did not apply,
\* nor expired one that can still land, for any number of owners, passes and
\* transactions and any interleaving of submissions, passes, deletions and
\* crashes.
THEOREM RecordsAgreeWithChain == Spec => []TerminalAgreesWithChain
<1>1. AgreementInv => TerminalAgreesWithChain
  BY SMTT(30) DEF AgreementInv
<1>2. QED
  BY <1>1, AgreementHolds, PTL

-----------------------------------------------------------------------------
(* How a step writes a file. *)

\* A pass p, having brought the records of S to their decisions, leaves o
\* untouched, or brings it in line with the records, the membership, or both.
PassWrites(p, S, o) ==
    LET f == Persisted(o, SettledRecords(p, S), S)
    IN file'[o] \in {file[o], f, Reconciled(p, o, file[o]), Reconciled(p, o, f)}

LEMMA PassFiles ==
    ASSUME NEW p \in Passes, SettleApply(p) \/ SettleInterrupted(p)
    PROVE  \E S \in SUBSET Changed(p) :
              /\ record' = SettledRecords(p, S)
              /\ \A o \in Objs : PassWrites(p, S, o)
<1>1. CASE SettleApply(p)
  <2> DEFINE S == Changed(p)
  <2>1. record' = SettledRecords(p, S) /\ \A o \in Objs : PassWrites(p, S, o)
    BY <1>1, Zenon DEF SettleApply, PassWrites
  <2>2. QED
    BY <2>1, SMTT(30)
<1>2. CASE SettleInterrupted(p)
  <2>1. PICK S \in SUBSET Changed(p), P \in SUBSET Objs,
             R \in SUBSET (pass[p].created \cup pass[p].spent) :
             LET rs == SettledRecords(p, S)
                 persisted(x) == IF x \in P THEN Persisted(x, rs, S) ELSE file[x]
             IN /\ record' = rs
                /\ file' = [x \in Objs |-> IF x \in R
                                           THEN Reconciled(p, x, persisted(x))
                                           ELSE persisted(x)]
    BY <1>2, ZenonT(30) DEF SettleInterrupted
  <2>2. \A o \in Objs : PassWrites(p, S, o)
    BY <2>1, Zenon DEF PassWrites
  <2>3. QED
    BY <2>1, <2>2, Zenon
<1>3. QED
  BY <1>1, <1>2, SMTT(30)

PruneWrites(T, o) ==
    /\ \A t \in T : IsTerminal(record[t])
    /\ file'[o] = Persisted(o, record, T)

LEMMA FileFrame ==
    ASSUME TypeOK, [Next]_vars, NEW o \in Objs
    PROVE  \/ file'[o] = file[o]
           \/ \E w \in Owners : /\ Record(w) \/ RecordInterrupted(w)
                                /\ o \in Outputs[proof[w].tx]
                                /\ file[o].status = "absent"
                                /\ file'[o] = [status |-> "unknown",
                                               tx |-> proof[w].tx]
           \/ \E t \in Txs : /\ Delete(t) \/ DeleteInterrupted(t)
                             /\ o \in UnknownOutputs(t) /\ file'[o] = NoFile
           \/ \E p \in Passes, S \in SUBSET Txs :
                 /\ SettleApply(p) \/ SettleInterrupted(p)
                 /\ S \subseteq Changed(p)
                 /\ record' = SettledRecords(p, S)
                 /\ PassWrites(p, S, o)
           \/ \E T \in SUBSET Txs : PruneWrites(T, o) /\ UNCHANGED network
           \/ o \in Foreign /\ file'[o] = [status |-> "live", tx |-> NoTx]
<1>1. CASE ProofStep
  <2>1. ASSUME NEW w \in Owners, NEW t \in Txs, Prove(w, t)
        PROVE  file' = file
    BY <2>1, Zenon DEF Prove, durable
  <2>2. ASSUME NEW w \in Owners, Ground(w) \/ Abandon(w)
        PROVE  file' = file
    BY <2>2, SMTT(30) DEF Ground, Abandon, durable
  <2>3. ASSUME NEW w \in Owners, Record(w) \/ RecordInterrupted(w)
        PROVE  \/ file'[o] = file[o]
               \/ /\ o \in Outputs[proof[w].tx] /\ file[o].status = "absent"
                  /\ file'[o] = [status |-> "unknown", tx |-> proof[w].tx]
    BY <2>3, ZenonT(30) DEF Record, RecordInterrupted, Recordable, WriteOutputs
  <2>4. QED
    BY <1>1, <2>1, <2>2, <2>3, Zenon DEF ProofStep
<1>2. CASE SubmitStep
  BY <1>2, SMTT(30) DEF SubmitStep, SubmitRead, SubmitCheck, SubmitLoad, SubmitAttempt,
              SubmitStop, SubmitFinish, durable
<1>3. CASE Block \/ \E t \in Txs, g \in Blocks : RelayerAccept(t, g)
  BY <1>3, Zenon DEF Block, EmptyBlock, IncludeTx, ForeignSpend, RelayerAccept, durable
<1>4. ASSUME NEW t \in Txs, Delete(t) \/ DeleteInterrupted(t)
      PROVE  \/ file'[o] = file[o]
             \/ o \in UnknownOutputs(t) /\ file'[o] = NoFile
  <2>1. PICK S \in SUBSET UnknownOutputs(t) : RemoveFiles(S)
    BY <1>4 DEF Delete, DeleteInterrupted
  <2>2. QED
    BY <2>1 DEF RemoveFiles
<1>5. ASSUME NEW p \in Passes, SettleStep(p)
      PROVE  \/ file'[o] = file[o]
             \/ \E S \in SUBSET Txs :
                   /\ SettleApply(p) \/ SettleInterrupted(p)
                   /\ S \subseteq Changed(p)
                   /\ record' = SettledRecords(p, S)
                   /\ PassWrites(p, S, o)
  <2>1. CASE UNCHANGED durable
    BY <2>1, SMTT(30) DEF durable
  <2>2. CASE SettleApply(p) \/ SettleInterrupted(p)
    <3>1. Changed(p) \subseteq Txs
      BY SMTT(30) DEF Changed
    <3>2. QED
      BY <2>2, <3>1, PassFiles, Zenon
  <2>3. QED
    BY <1>5, <2>1, <2>2, Zenon DEF SettleStep, SettleLoad, SettleHead, SettleStatus,
                            SettleFail, SetPass
<1>6. ASSUME NEW due \in SUBSET Txs, NEW failed \in SUBSET Txs,
             Prune(due, failed)
      PROVE  \E T \in SUBSET Txs : PruneWrites(T, o) /\ UNCHANGED network
  <2> DEFINE terminal == {t \in Txs : IsTerminal(record[t])}
             persisted ==
                {t \in terminal : t \in due \/ t \notin reconciled} \ failed
  <2>1. PICK done : file' = [x \in Objs |-> Persisted(x, record,
                               IF x \in done THEN persisted \cup failed
                                             ELSE persisted)]
    BY <1>6, Zenon DEF Prune
  <2> DEFINE T == IF o \in done THEN persisted \cup failed ELSE persisted
  <2>2. T \in SUBSET Txs /\ \A t \in T : IsTerminal(record[t])
    BY <1>6, Zenon DEF Prune
  <2>3. PruneWrites(T, o)
    BY <2>1, <2>2, Zenon DEF PruneWrites
  <2>4. QED
    BY <1>6, <2>2, <2>3, Zenon DEF Prune
<1>7. ASSUME NEW x \in Objs, ImportCheck(x) \/ ImportFile(x)
      PROVE  \/ file'[o] = file[o]
             \/ o \in Foreign /\ file'[o] = [status |-> "live", tx |-> NoTx]
  BY <1>7, Zenon DEF ImportCheck, ImportFile, durable, TypeOK
<1>8. CASE Crash \/ UNCHANGED vars
  BY <1>8, ZenonT(30) DEF Crash, durable, vars
<1>9. QED
  BY <1>1, <1>2, <1>3, <1>4, <1>5, <1>6, <1>7, <1>8, Zenon DEF Next

-----------------------------------------------------------------------------
(* The chain backs the files. *)

Backed(o, f) ==
    /\ f.status = "live" => o \in Created
    /\ f.status = "nullified" => o \in Spent

LEMMA AppliedSets ==
    ASSUME NEW t \in Txs, chain[t] = "applied"
    PROVE  Outputs[t] \subseteq Created /\ Inputs[t] \subseteq Spent
BY SMTT(30) DEF Created, Spent, Applied

LEMMA PersistedBacked ==
    ASSUME TypeOK, NEW o \in Objs, NEW rs, NEW T \in SUBSET Txs,
           \A t \in T : rs[t].state = "landed" => chain[t] = "applied",
           Backed(o, file[o])
    PROVE  Backed(o, Persisted(o, rs, T))
<1>1. file[o] \in FileType
  BY Zenon DEF TypeOK
<1>2. ASSUME NEW t \in T, rs[t].state = "landed"
      PROVE  Outputs[t] \subseteq Created /\ Inputs[t] \subseteq Spent
  BY <1>2, AppliedSets, SMTT(30)
<1>3. QED
  BY <1>1, <1>2, SMTT(30) DEF Persisted, Backed, FileType, NoFile

LEMMA ReconciledBacked ==
    ASSUME NEW p, SnapshotSound(p), NEW o, NEW f \in FileType, Backed(o, f)
    PROVE  Backed(o, Reconciled(p, o, f))
BY SMTT(30) DEF Reconciled, ChainFileStatus, Backed, SnapshotSound, FileType

LEMMA BackedNext ==
    AgreementInv /\ ChainBacksFiles /\ [Next]_vars => ChainBacksFiles'
<1> SUFFICES ASSUME AgreementInv, ChainBacksFiles, [Next]_vars, NEW o \in Objs
             PROVE  Backed(o, file[o])'
  BY SMTT(30) DEF ChainBacksFiles, Backed
<1>1. TypeOK /\ SnapshotsSound /\ TerminalAgreesWithChain /\ Backed(o, file[o])
  BY SMTT(30) DEF AgreementInv, ChainBacksFiles, Backed
<1>2. Created \subseteq Created' /\ Spent \subseteq Spent'
  BY <1>1, ChainGrows, SMTT(30)
<1>3. ASSUME Backed(o, file'[o])
      PROVE  Backed(o, file[o])'
  BY <1>2, <1>3, Zenon DEF Backed
<1>4. ASSUME NEW w \in Owners,
             file'[o] = [status |-> "unknown", tx |-> proof[w].tx]
      PROVE  Backed(o, file'[o])
  BY <1>4, SMTT(30) DEF Backed
<1>5. ASSUME file'[o] = NoFile
      PROVE  Backed(o, file'[o])
  BY <1>5, SMTT(30) DEF Backed, NoFile
<1>6. ASSUME NEW p \in Passes, NEW S \in SUBSET Txs,
             SettleApply(p) \/ SettleInterrupted(p), S \subseteq Changed(p),
             record' = SettledRecords(p, S), PassWrites(p, S, o)
      PROVE  Backed(o, file'[o])
  <2> DEFINE rs == SettledRecords(p, S)
             f == Persisted(o, rs, S)
  <2>1. ASSUME NEW t \in S, rs[t].state = "landed" PROVE chain[t] = "applied"
    <3>1. t \in Txs /\ rs[t] = [record[t] EXCEPT !.state = Decision(p, t)]
      BY <2>1, SMTT(30) DEF SettledRecords
    <3>2. record[t] \in RecordType
      BY <1>1, <3>1, SMTT(30) DEF TypeOK
    <3>3. Decision(p, t) = "landed" /\ Settles(p, t)
      BY <1>6, <2>1, <3>1, <3>2, SMTT(30) DEF Settles, RecordType
    <3>4. QED
      BY <1>1, <3>1, <3>3, LandingRight, SMTT(30)
  <2>2. Backed(o, f)
    BY <1>1, <2>1, PersistedBacked, Zenon
  <2>3. file[o] \in FileType /\ f \in FileType /\ SnapshotSound(p)
    BY <1>1, PersistedTyped, ZenonT(30) DEF TypeOK, SnapshotsSound
  <2>4. Backed(o, Reconciled(p, o, file[o])) /\ Backed(o, Reconciled(p, o, f))
    BY <1>1, <2>2, <2>3, ReconciledBacked, SMTT(30)
  <2>5. QED
    BY <1>1, <1>6, <2>2, <2>4, Zenon DEF PassWrites
<1>7. ASSUME NEW T \in SUBSET Txs, PruneWrites(T, o)
      PROVE  Backed(o, file'[o])
  BY <1>1, <1>7, PersistedBacked, ZenonT(30) DEF PruneWrites, TerminalAgreesWithChain
<1>8. ASSUME o \in Foreign, file'[o] = [status |-> "live", tx |-> NoTx]
      PROVE  Backed(o, file'[o])
  BY <1>8 DEF Backed, Created
<1>9. QED
  BY <1>1, <1>3, <1>4, <1>5, <1>6, <1>7, <1>8, FileFrame, ZenonT(30)

\* A live file is of an object the chain created, and a nullified one of an
\* object the chain spent, whatever stale membership a pass or an import
\* worked from.
THEOREM FilesBackedByChain == Spec => []ChainBacksFiles
<1>1. Init => ChainBacksFiles
  BY DEF Init, ChainBacksFiles, Created, NoFile
<1>2. AgreementInv /\ ChainBacksFiles /\ [Next]_vars => ChainBacksFiles'
  BY BackedNext
<1>3. QED
  BY <1>1, <1>2, AgreementHolds, PTL DEF Spec
-----------------------------------------------------------------------------
(* The outputs of what can land are kept. *)

\* Its outputs are on disk, and those still unknown name it as producer.
Kept(t) ==
    \A o \in Outputs[t] : /\ file[o].status # "absent"
                          /\ file[o].status = "unknown" => file[o].tx = t

OutputsOwned ==
    \A t \in Txs \ halfDeleted :
        IsOpen(record[t]) \/ record[t].state = "landed" => Kept(t)

LEMMA HalfDeletedFrame ==
    ASSUME TypeOK, [Next]_vars, NEW t \in Txs,
           t \notin halfDeleted', record'[t].state # "none"
    PROVE  t \notin halfDeleted /\ ~DeleteInterrupted(t)
<1>1. ~DeleteInterrupted(t)
  BY SMTT(30) DEF DeleteInterrupted
<1>2. ASSUME NEW u \in Txs, Delete(u) \/ DeleteInterrupted(u)
      PROVE  t \notin halfDeleted
  BY <1>2 DEF Delete, DeleteInterrupted, NoRecord, TypeOK
<1>3. ASSUME NEW due \in SUBSET Txs, NEW failed \in SUBSET Txs,
             Prune(due, failed)
      PROVE  t \notin halfDeleted
  BY <1>3, Zenon DEF Prune, NoRecord
<1>4. CASE ProofStep
  BY <1>1, <1>4, ZenonT(30) DEF ProofStep, Prove, Ground, Abandon, Record, RecordInterrupted,
              history
<1>5. CASE SubmitStep
  BY <1>1, <1>5, SMTT(30) DEF SubmitStep, SubmitRead, SubmitCheck, SubmitLoad, SubmitAttempt,
              SubmitStop, SubmitFinish, history
<1>6. CASE \/ Block \/ Crash \/ UNCHANGED vars
           \/ \E u \in Txs, g \in Blocks : RelayerAccept(u, g)
           \/ \E o \in Objs : ImportCheck(o) \/ ImportFile(o)
  BY <1>1, <1>6, Zenon DEF Block, EmptyBlock, IncludeTx, ForeignSpend, Crash, vars,
              RelayerAccept, ImportCheck, ImportFile, history
<1>7. CASE \E p \in Passes : SettleStep(p)
  BY <1>1, <1>7, Zenon DEF SettleStep, SettleLoad, SettleHead, SettleStatus, SettleFail,
              SetPass, SettleApply, SettleInterrupted, history
<1>8. QED
  BY <1>1, <1>2, <1>3, <1>4, <1>5, <1>6, <1>7, ZenonT(30) DEF Next

\* Bringing a file in line with records that do not call t expired keeps the
\* outputs of t.
LEMMA PersistedKeeps ==
    ASSUME TypeOK, NEW o \in Objs, NEW t, NEW rs, NEW T,
           t \in T => rs[t].state # "expired",
           file[o].status # "absent", file[o].status = "unknown" => file[o].tx = t
    PROVE  Persisted(o, rs, T).status # "absent"
<1> DEFINE g == Persisted(o, rs, T)
<1>1. file[o] \in FileType
  BY Zenon DEF TypeOK
<1>2. \/ g = file[o]
      \/ g = [file[o] EXCEPT !.status = "nullified"]
      \/ g = [file[o] EXCEPT !.status = "live"]
      \/ /\ file[o].status = "unknown"
         /\ file[o].tx \in {u \in T : rs[u].state = "expired"}
  BY SMTT(30) DEF Persisted
<1>3. QED
  BY <1>1, <1>2, SMTT(30) DEF FileType

LEMMA OwnedNext == TypeOK /\ OutputsOwned /\ [Next]_vars => OutputsOwned'
<1> SUFFICES ASSUME TypeOK, OutputsOwned, [Next]_vars, NEW t \in Txs,
                    t \notin halfDeleted',
                    record'[t].state \in {"recorded", "submitted", "landed"},
                    NEW o \in Outputs[t]
             PROVE  /\ file'[o].status # "absent"
                    /\ file'[o].status = "unknown" => file'[o].tx = t
  BY Zenon DEF OutputsOwned, Kept, IsOpen
<1>1. o \in Objs /\ file[o] \in FileType /\ file'[o] \in FileType
  BY ObjsAssumption, TypeNext, ZenonT(30) DEF TypeOK
<1>2. t \notin halfDeleted /\ ~DeleteInterrupted(t)
  BY HalfDeletedFrame, SMTT(30)
<1>3. CASE \E w \in Owners : Record(w) /\ proof[w].tx = t
  <2>1. file'[o] = [status |-> "unknown", tx |-> t]
    BY <1>1, <1>3, ZenonT(30) DEF Record, WriteOutputs
  <2>2. QED
    BY <2>1, SMTT(30)
<1>4. CASE ~\E w \in Owners : Record(w) /\ proof[w].tx = t
  <2>1. /\ record'[t] # NoRecord
        /\ record'[t] = record[t] \/ IsOpen(record[t])
    <3>1. record'[t] # NoRecord
      BY SMTT(30) DEF NoRecord
    <3>2. QED
      BY <1>4, <3>1, RecordWritten, Zenon DEF IsOpen
  <2>2. record[t].state \in {"recorded", "submitted", "landed"}
    BY <2>1, SMTT(30) DEF IsOpen
  <2>3. /\ file[o].status # "absent"
        /\ file[o].status = "unknown" => file[o].tx = t
    BY <1>2, <2>2, Zenon DEF OutputsOwned, Kept, IsOpen
  <2>4. file'[o].status # "absent"
    <3>1. ASSUME NEW u \in Txs, Delete(u) \/ DeleteInterrupted(u),
                 o \in UnknownOutputs(u)
          PROVE  FALSE
      <4>1. u = t
        BY <2>3, <3>1, SMTT(30) DEF UnknownOutputs
      <4>2. Delete(t)
        BY <1>2, <3>1, <4>1, Zenon
      <4>3. QED
        BY <4>2, ZenonT(30) DEF Delete, NoRecord, TypeOK
    <3>2. ASSUME NEW p \in Passes, NEW S \in SUBSET Txs,
                 record' = SettledRecords(p, S), PassWrites(p, S, o)
          PROVE  file'[o].status # "absent"
      <4> DEFINE f == Persisted(o, SettledRecords(p, S), S)
      <4>1. f.status # "absent" /\ f \in FileType
        BY <1>1, <2>3, <3>2, PersistedKeeps, PersistedTyped, Zenon
      <4>2. ASSUME NEW g \in FileType, g.status # "absent"
            PROVE  Reconciled(p, o, g).status # "absent"
        BY <4>2, SMTT(30) DEF Reconciled, ChainFileStatus, FileType
      <4>3. QED
        BY <1>1, <2>3, <3>2, <4>1, <4>2, Zenon DEF PassWrites
    <3>3. ASSUME NEW T \in SUBSET Txs, PruneWrites(T, o)
          PROVE  file'[o].status # "absent"
      <4>1. t \in T => record[t].state # "expired"
        BY <2>2, SMTT(30)
      <4>2. QED
        BY <1>1, <2>3, <3>3, <4>1, PersistedKeeps, ZenonT(30) DEF PruneWrites
    <3>4. ASSUME NEW w \in Owners,
                 file'[o] = [status |-> "unknown", tx |-> proof[w].tx]
          PROVE  file'[o].status # "absent"
      BY <3>4
    <3>5. ASSUME file'[o] = [status |-> "live", tx |-> NoTx]
          PROVE  file'[o].status # "absent"
      BY <3>5
    <3>6. QED
      BY <1>1, <2>3, <3>1, <3>2, <3>3, <3>4, <3>5, FileFrame, ZenonT(30)
  <2>5. file'[o].status = "unknown" => file'[o].tx = t
    <3>1. FileStep(file[o], file'[o])
      BY <1>1, FilesNext, SMTT(30)
    <3>2. QED
      BY <1>1, <2>3, <2>4, <3>1, SMTT(30) DEF FileStep, Rank, FileType
  <2>6. QED
    BY <2>4, <2>5
<1>5. QED
  BY <1>3, <1>4, Zenon

\* The outputs of a transaction that can still land, or has landed, are on
\* disk, unless a delete of it was interrupted.
THEOREM OutputsAreKept == Spec => []OutputsKept
<1>1. Init => OutputsOwned
  BY DEF Init, OutputsOwned, IsOpen, NoRecord
<1>2. TypeOK /\ OutputsOwned /\ [Next]_vars => OutputsOwned'
  BY OwnedNext
<1>3. OutputsOwned => OutputsKept
  BY DEF OutputsOwned, OutputsKept, Kept
<1>4. QED
  BY <1>1, <1>2, <1>3, TypeCorrect, PTL DEF Spec

-----------------------------------------------------------------------------
(* What a step may never do to a record. *)

LEMMA RecordsNext ==
    ASSUME TypeOK, [Next]_vars, NEW t \in Txs
    PROVE  RecordStep(record[t], record'[t])
<1>1. record[t] \in RecordType
  BY Zenon DEF TypeOK
<1>2. CASE record'[t] = record[t]
  BY <1>1, <1>2, Zenon DEF RecordStep, IsOpen, RecordType
<1>3. CASE record[t].state = "none"
  BY <1>3, SMTT(30) DEF RecordStep, IsOpen, IsTerminal
<1>4. CASE (Delete(t) \/ Prunes(t)) /\ record'[t] = NoRecord
  <2>1. \/ record[t].state = "recorded" /\ ~record[t].attempted
        \/ IsTerminal(record[t])
    BY <1>4, ZenonT(30) DEF Delete, Deletable, Prunes, Prune
  <2>2. QED
    BY <1>4, <2>1, Zenon DEF RecordStep, IsOpen, IsTerminal, NoRecord
<1>5. CASE /\ record[t].state = "recorded"
           /\ record'[t].state \in {"recorded", "submitted"}
           /\ \/ record'[t].attempted = TRUE
              \/ record'[t].attempted = record[t].attempted
  BY <1>5, SMTT(30) DEF RecordStep, IsOpen, IsTerminal
<1>6. CASE \E p \in Passes : /\ Settles(p, t) /\ IsOpen(record[t])
                             /\ record'[t].attempted = record[t].attempted
                             /\ record'[t].state = Decision(p, t)
  <2>1. record'[t].state \in {"landed", "expired"}
    BY <1>6, DecidedTerminal, Zenon
  <2>2. QED
    BY <1>6, <2>1, Zenon DEF RecordStep, IsOpen, IsTerminal
<1>7. QED
  BY <1>2, <1>3, <1>4, <1>5, <1>6, RecordWritten, Zenon

\* An attempted record is never deleted and never loses its mark while open,
\* and a terminal state is final until the record is pruned.
THEOREM AttemptsAreDurable == Spec => AttemptsDurable
<1>1. TypeOK /\ [Next]_vars =>
         [\A t \in Txs : RecordStep(record[t], record'[t])]_vars
  BY RecordsNext, Zenon
<1>2. QED
  BY <1>1, TypeCorrect, PTL DEF Spec, AttemptsDurable

LEMMA GoneNext ==
    ASSUME TypeOK, InputsPresent, [Next]_vars, NEW t \in Txs
    PROVE  RecordGone(t)
<1> SUFFICES ASSUME record[t].state # "none", record'[t].state = "none"
             PROVE  /\ \A o \in Outputs[t] :
                          ~(file'[o].status = "unknown" /\ file'[o].tx = t)
                    /\ record[t].state = "landed" =>
                          \A o \in Inputs[t] : file'[o].status # "live"
  BY SMTT(30) DEF RecordGone
<1>1. Delete(t) \/ Prunes(t)
  BY RecordWritten, DecidedTerminal, Zenon
<1>2. CASE Delete(t)
  <2>1. ASSUME NEW o \in Outputs[t]
        PROVE  ~(file'[o].status = "unknown" /\ file'[o].tx = t)
    BY <1>2, ObjsAssumption, Zenon DEF Delete, RemoveFiles, UnknownOutputs, NoFile
  <2>2. record[t].state = "recorded"
    BY <1>2, SMTT(30) DEF Delete, Deletable
  <2>3. QED
    BY <2>1, <2>2, Zenon
<1>3. CASE Prunes(t)
  <2>1. ASSUME NEW o \in Outputs[t]
        PROVE  ~(file'[o].status = "unknown" /\ file'[o].tx = t)
    <3>1. PICK due \in SUBSET Txs, failed \in SUBSET Txs :
             Prune(due, failed) /\ t \in due \ failed
      BY <1>3, SMTT(30) DEF Prunes
    <3>2. PICK T \in SUBSET Txs : t \in T /\ file'[o] = Persisted(o, record, T)
      BY <3>1, ObjsAssumption, Zenon DEF Prune
    <3>3. record[t].state \in {"landed", "expired"} /\ file[o] \in FileType
      BY <3>1, ObjsAssumption, Zenon DEF Prune, IsTerminal, TypeOK
    <3>4. QED
      BY <3>2, <3>3, SMTT(30) DEF Persisted, NoFile, FileType
  <2>2. QED
    BY <1>3, <2>1, PruneNullifies, SMTT(30)
<1>4. QED
  BY <1>1, <1>2, <1>3, ZenonT(30)

\* When a record is deleted or pruned no unknown output of it is left behind,
\* and the inputs of a landed one are no longer live.
THEOREM RemovalIsClean == Spec => CleanRemoval
<1>1. AgreementInv /\ [Next]_vars => [\A t \in Txs : RecordGone(t)]_vars
  BY GoneNext DEF AgreementInv
<1>2. QED
  BY <1>1, AgreementHolds, PTL DEF Spec, CleanRemoval
=============================================================================
