---------------------------- MODULE RelayerNonces ---------------------------
(***************************************************************************)
(* The relayer asks for a nonce that is free, and uses one for each stored *)
(* attempt: with that, the invariants of RelayerProofs are inductive.      *)
(***************************************************************************)
EXTENDS RelayerProofs, FiniteSetTheorems, WellFoundedInduction
-----------------------------------------------------------------------------
(* The free nonce *)

LessNat == {p \in Nat \X Nat : p[1] < p[2]}

LEMMA LeastNat ==
    ASSUME NEW S \in SUBSET Nat, S # {}
    PROVE  \E x \in S : \A y \in S : x <= y
<1>1. OpToRel(<, Nat) = LessNat
  BY DEF OpToRel, LessNat
<1>2. IsWellFoundedOn(LessNat, Nat)
  BY <1>1, NatLessThanWellFounded, Zenon
<1>3. PICK x \in S : \A y \in S : ~ (<<y, x>> \in LessNat)
  BY <1>2, WFMin, Zenon
<1>4. x \in Nat /\ \A y \in S : y \in Nat
  OBVIOUS
<1>5. \A y \in S : ~(y < x)
  BY <1>3, <1>4, Zenon DEF LessNat
<1>6. QED
  BY <1>4, <1>5

\* The pending nonce of the account exists: the pool holds fewer transactions
\* than there are nonces to try, and one at most for each.
LEMMA FreeNonce ==
    ASSUME NodeInv
    PROVE  get_next_nonce \in Nat /\ At(txs, get_next_nonce) = {}
<1> DEFINE I == base .. (base + Len(txs))
           F == {n \in I : AtNonce(n) = {}}
<1>1. base \in Nat /\ Len(txs) \in Nat /\ DOMAIN txs = 1 .. Len(txs)
  BY DEF NodeInv
<1>2. \A n : AtNonce(n) = At(txs, n)
  BY DEF AtNonce, At, InPool
<1>3. F # {}
  <2> SUFFICES ASSUME F = {} PROVE FALSE
    OBVIOUS
  <2> DEFINE f == [n \in I |-> CHOOSE h \in DOMAIN txs : h \in AtNonce(n)]
  <2>1. \A n \in I : f[n] \in DOMAIN txs /\ f[n] \in AtNonce(n)
    BY DEF AtNonce
  <2>2. \A n \in I : txs[f[n]].nonce = n
    BY <2>1 DEF AtNonce
  <2>3. IsFiniteSet(I) /\ Cardinality(I) = Len(txs) + 1
    BY <1>1, FS_Interval, SMTT(30)
  <2>4. IsFiniteSet(1 .. Len(txs)) /\ Cardinality(1 .. Len(txs)) = Len(txs)
    <3>1. Cardinality(1 .. Len(txs)) = IF 1 > Len(txs) THEN 0 ELSE Len(txs) - 1 + 1
      BY <1>1, FS_Interval, SMTT(30)
    <3>2. IsFiniteSet(1 .. Len(txs))
      BY <1>1, FS_Interval
    <3>3. QED
      BY <1>1, <3>1, <3>2
  <2>5. f \in [I -> 1 .. Len(txs)]
    BY <1>1, <2>1
  <2> HIDE DEF f, I
  <2>6. \E x, y \in I : x # y /\ f[x] = f[y]
    <3>1. Cardinality(1 .. Len(txs)) < Cardinality(I)
      BY <1>1, <2>3, <2>4
    <3>2. QED
      BY <2>3, <2>4, <2>5, <3>1, FS_PigeonHole, SMTT(30)
  <2>7. QED
    BY <2>2, <2>6
<1>4. F \in SUBSET Nat
  BY <1>1
<1>5. PICK n \in F : \A m \in F : n <= m
  BY <1>3, <1>4, LeastNat, Zenon
<1>6. n \in I /\ AtNonce(n) = {} /\ \A m \in base .. (n - 1) : AtNonce(m) # {}
  BY <1>1, <1>5, SMTT(30)
<1>7. get_next_nonce \in I /\ AtNonce(get_next_nonce) = {}
  BY <1>6, Zenon DEF get_next_nonce
<1>8. QED
  BY <1>1, <1>2, <1>7
-----------------------------------------------------------------------------
(* Every nonce is accounted for *)

Nonces(t, j) == {t[h].nonce : h \in {k \in DOMAIN t : t[k].job = j}}

\* The attempt in progress is stored and has no nonce yet; the transaction of
\* an attempt is stored, or about to be, or something failed in between.
Accounted(j) ==
    LET n == Cardinality(Nonces(txs, j)) IN
    /\ n <= row[j].attempts
    /\ id = j /\ phase \in {"nonce", "submit"} => n < row[j].attempts
    /\ n <= faults + 1
    /\ row[j].hash = None /\ ~(id = j /\ phase = "sent") => n <= faults

NonceInv ==
    /\ faults \in Nat
    /\ \A j \in Jobs : /\ IsFiniteSet(Nonces(txs, j))
                       /\ Accounted(j)

LEMMA NoncesFinite ==
    ASSUME NonceInv, NEW j \in Jobs
    PROVE  Cardinality(Nonces(txs, j)) \in Nat
BY FS_CardinalityType DEF NonceInv

LEMMA NoncesLater ==
    ASSUME NEW t, NEW u, Later(t, u), DOMAIN u = DOMAIN t, NEW j
    PROVE  Nonces(u, j) = Nonces(t, j)
BY DEF Later, Nonces

\* What one more transaction adds.
LEMMA NoncesGrow ==
    ASSUME NonceInv, Later(txs, txs'), NEW l, l \notin DOMAIN txs,
           DOMAIN txs' = DOMAIN txs \cup {l}, NEW j \in Jobs
    PROVE  /\ txs'[l].job # j => Nonces(txs', j) = Nonces(txs, j)
           /\ txs'[l].job = j => Nonces(txs', j) = Nonces(txs, j) \cup {txs'[l].nonce}
           /\ IsFiniteSet(Nonces(txs', j)) /\ Cardinality(Nonces(txs', j)) \in Nat
           /\ Cardinality(Nonces(txs', j)) <= Cardinality(Nonces(txs, j)) + 1
<1>1. txs'[l].job # j => Nonces(txs', j) = Nonces(txs, j)
  BY DEF Later, Nonces
<1>2. txs'[l].job = j => Nonces(txs', j) = Nonces(txs, j) \cup {txs'[l].nonce}
  BY DEF Later, Nonces
<1>3. IsFiniteSet(Nonces(txs, j)) /\ Cardinality(Nonces(txs, j)) \in Nat
  BY NoncesFinite DEF NonceInv
<1> DEFINE S == Nonces(txs, j)
           x == txs'[l].nonce
<1> HIDE DEF S, x
<1>4. ASSUME IsFiniteSet(S), Cardinality(S) \in Nat
      PROVE  /\ IsFiniteSet(S \cup {x}) /\ Cardinality(S \cup {x}) \in Nat
             /\ Cardinality(S \cup {x}) <= Cardinality(S) + 1
  <2>1. /\ IsFiniteSet(S \cup {x})
        /\ Cardinality(S \cup {x}) = IF x \in S THEN Cardinality(S) ELSE Cardinality(S) + 1
    BY <1>4, FS_AddElement
  <2>2. Cardinality(S \cup {x}) = Cardinality(S) \/ Cardinality(S \cup {x}) = Cardinality(S) + 1
    BY <2>1
  <2>3. QED
    BY <1>4, <2>1, <2>2
<1>5. CASE txs'[l].job = j
  <2>1. Nonces(txs', j) = S \cup {x}
    BY <1>2, <1>5, SMTT(30) DEF S, x
  <2>2. QED
    BY <1>1, <1>2, <1>3, <1>4, <2>1, SMTT(30) DEF S
<1>6. CASE txs'[l].job # j
  BY <1>1, <1>2, <1>3, <1>6, SMTT(30)
<1>7. QED
  BY <1>5, <1>6

\* What the earlier invariants say of a row across a step.
LEMMA RowGrows ==
    ASSUME RelayInv, RelayInv', Kept, NEW j \in Jobs
    PROVE  /\ row[j].attempts \in Nat /\ row'[j].attempts \in Nat
           /\ row'[j].attempts >= row[j].attempts
           /\ row[j].hash # None => row'[j].hash # None
<1>1. row[j].attempts \in Nat
  BY DEF RelayInv, RowInv, RowOn, Row, NoRow, Unsent
<1>2. row'[j].attempts \in Nat
  BY DEF RelayInv, RowInv, RowOn, Row, NoRow, Unsent
<1>3. QED
  BY <1>1, <1>2, SMTT(30) DEF Kept, KeepsHistory

\* A step that uses no new nonce and begins no attempt.
LEMMA NoncesSame ==
    ASSUME RelayInv, RelayInv', NonceInv, Kept, faults' \in Nat, faults' >= faults,
           \A j \in Jobs : Nonces(txs', j) = Nonces(txs, j),
           \/ phase' \notin {"nonce", "submit"}
           \/ phase \in {"nonce", "submit"} /\ id' = id,
           \/ phase # "sent" \/ faults' >= faults + 1
           \/ phase' = "sent" /\ id' = id
           \/ row'[id].hash # None
    PROVE  NonceInv'
<1> SUFFICES ASSUME NEW j \in Jobs
             PROVE  /\ IsFiniteSet(Nonces(txs', j))
                    /\ Accounted(j)'
  BY DEF NonceInv
<1> DEFINE n == Cardinality(Nonces(txs, j))
<1>1. n \in Nat /\ n = Cardinality(Nonces(txs', j)) /\ IsFiniteSet(Nonces(txs', j))
  BY NoncesFinite DEF NonceInv
<1>2. /\ n <= row[j].attempts
      /\ id = j /\ phase \in {"nonce", "submit"} => n < row[j].attempts
      /\ n <= faults + 1
      /\ row[j].hash = None /\ ~(id = j /\ phase = "sent") => n <= faults
      /\ faults \in Nat
  BY DEF NonceInv, Accounted
<1> HIDE DEF n
<1>3. /\ row[j].attempts \in Nat /\ row'[j].attempts \in Nat
      /\ row'[j].attempts >= row[j].attempts
      /\ row[j].hash # None => row'[j].hash # None
  BY RowGrows
<1>4. /\ n <= row'[j].attempts
      /\ id' = j /\ phase' \in {"nonce", "submit"} => n < row'[j].attempts
      /\ n <= faults' + 1
  BY <1>1, <1>2, <1>3, SMTT(30)
<1>5. row'[j].hash = None /\ ~(id' = j /\ phase' = "sent") => n <= faults'
  BY <1>1, <1>2, <1>3, SMTT(30)
<1>6. QED
  BY <1>1, <1>4, <1>5, SMTT(30) DEF Accounted

\* The attempt is stored before its nonce is asked for.
LEMMA MarkSendingNonces ==
    ASSUME Clock, RelayInv, RelayInv', NonceInv, Kept, MarkSending
    PROVE  NonceInv'
<1>1. phase = "send" /\ phase' = "nonce" /\ id' = id /\ faults' = faults /\ txs' = txs
  BY DEF MarkSending, nodeVars
<1>2. row'[id].attempts = row[id].attempts + 1 /\ id \in Jobs
  <2>1. id \in Jobs /\ hand \in Row /\ lapse \in Nat /\ hand.attempts = row[id].attempts
    BY <1>1, InHand DEF Sending
  <2> DEFINE r == [hand EXCEPT !.status = "sending", !.attempts = @ + 1]
             a == hand.attempts + 1
  <2>2. row' = [row EXCEPT ![id] = Stored(r, lapse)]
    BY DEF MarkSending, put_job, Stored
  <2>3. a \in Nat
    BY <2>1 DEF Row
  <2>4. r = [hand EXCEPT !.status = "sending", !.attempts = a]
    OBVIOUS
  <2> HIDE DEF r, a
  <2>5. hand \in Row
    BY <2>1
  <2>6. r \in Row /\ r.attempts = a
    BY <2>3, <2>4, <2>5, ZenonT(30) DEF Row
  <2>7. Stored(r, lapse).attempts = r.attempts
    BY <2>1, <2>6, StoredFields, SMTT(30)
  <2>8. row'[id] = Stored(r, lapse)
    BY <2>1, <2>2, SMTT(30) DEF RelayInv, RowInv
  <2>9. QED
    BY <2>1, <2>6, <2>7, <2>8, SMTT(30) DEF a
<1> SUFFICES ASSUME NEW j \in Jobs
             PROVE  /\ IsFiniteSet(Nonces(txs', j))
                    /\ Accounted(j)'
  BY <1>1 DEF NonceInv
<1> DEFINE n == Cardinality(Nonces(txs, j))
<1>3. n \in Nat /\ n = Cardinality(Nonces(txs', j)) /\ IsFiniteSet(Nonces(txs', j))
  BY <1>1, NoncesFinite, SMTT(30) DEF NonceInv
<1>4. /\ n <= row[j].attempts
      /\ id = j /\ phase \in {"nonce", "submit"} => n < row[j].attempts
      /\ n <= faults + 1
      /\ row[j].hash = None /\ ~(id = j /\ phase = "sent") => n <= faults
      /\ faults \in Nat
  BY DEF NonceInv, Accounted
<1> HIDE DEF n
<1>5. /\ row[j].attempts \in Nat /\ row'[j].attempts \in Nat
      /\ row'[j].attempts >= row[j].attempts
      /\ row[j].hash # None => row'[j].hash # None
  BY RowGrows, SMTT(30)
<1>6. /\ n <= row'[j].attempts
      /\ id' = j => n < row'[j].attempts
      /\ n <= faults' + 1
      /\ row'[j].hash = None => n <= faults'
  BY <1>1, <1>2, <1>3, <1>4, <1>5, SMTT(30)
<1>7. QED
  BY <1>1, <1>3, <1>6 DEF Accounted

\* Sending uses the nonce of the stored attempt, and a lost answer is a failure.
LEMMA SubmitNonces ==
    ASSUME load_config, Clock, RelayInv, RelayInv', NonceInv, Kept,
           SubmitPayload \/ SubmitFails
    PROVE  NonceInv'
<1>1. phase = "submit" /\ base' = base /\ served' = served
      /\ (\/ phase' = "sent" /\ id' = id /\ faults' = faults
          \/ phase' = "idle")
  BY SMTT(30) DEF SubmitPayload, SubmitFails, Idle
<1>2. id \in Jobs /\ hand.hash = None /\ row[id].hash = None
  BY <1>1 DEF RelayInv, HandInv, Sending
<1>3. faults \in Nat /\ (faults' = faults \/ faults' = faults + 1)
  BY DEF NonceInv, SubmitPayload, SubmitFails, Fault
<1>4. CASE txs' = txs
  <2>1. SubmitFails
    <3>1. ~SubmitPayload
      <4>1. SUFFICES ASSUME SubmitPayload PROVE FALSE
        OBVIOUS
      <4>2. PICK net \in NetFees : Accepts(use, FirstFees(net)) /\ txs' = Posted(id, use, FirstFees(net))
        BY <4>1 DEF SubmitPayload
      <4>3. DOMAIN txs' # DOMAIN txs
        BY <1>1, <4>2, FirstPosted, SMTT(30)
      <4>4. QED
        BY <1>4, <4>3
    <3>2. QED
      BY <3>1
  <2>2. phase' = "idle"
    BY <2>1 DEF SubmitFails, Idle
  <2>3. faults' \in Nat /\ faults' >= faults
    BY <1>3
  <2>4. QED
    BY <1>1, <1>4, <2>2, <2>3, NoncesSame, SMTT(30)
<1>5. CASE txs' # txs
  <2>1. PICK net \in NetFees : Accepts(use, FirstFees(net)) /\ txs' = Posted(id, use, FirstFees(net))
    BY <1>5 DEF SubmitPayload, SubmitFails
  <2> DEFINE l == Len(txs) + 1
  <2>2. /\ Later(txs, txs') /\ l \notin DOMAIN txs /\ DOMAIN txs' = DOMAIN txs \cup {l}
        /\ txs'[l].job = id
    BY <1>1, <2>1, FirstPosted, ZenonT(30)
  <2> HIDE DEF l
  <2>3. (phase' = "sent" /\ id' = id) \/ faults' = faults + 1
    BY <1>1, <2>1 DEF SubmitPayload, SubmitFails, Fault
  <2>4. ASSUME NEW j \in Jobs
        PROVE  IsFiniteSet(Nonces(txs', j)) /\ Accounted(j)'
    <3> DEFINE n == Cardinality(Nonces(txs, j))
               m == Cardinality(Nonces(txs', j))
    <3>1. /\ j # id => m = n
          /\ IsFiniteSet(Nonces(txs', j)) /\ m \in Nat /\ m <= n + 1
      BY <2>2, NoncesGrow, SMTT(30)
    <3>2. /\ n <= row[j].attempts
          /\ id = j /\ phase \in {"nonce", "submit"} => n < row[j].attempts
          /\ n <= faults + 1
          /\ row[j].hash = None /\ ~(id = j /\ phase = "sent") => n <= faults
          /\ n \in Nat
      BY NoncesFinite DEF NonceInv, Accounted
    <3> HIDE DEF n, m
    <3>3. /\ row[j].attempts \in Nat /\ row'[j].attempts \in Nat
          /\ row'[j].attempts >= row[j].attempts
          /\ row[j].hash # None => row'[j].hash # None
      BY RowGrows
    <3>4. CASE j = id
      <4>1. n < row[j].attempts /\ n <= faults
        BY <1>1, <1>2, <3>2, <3>4, SMTT(30)
      <4>2. m <= row'[j].attempts /\ m <= faults' + 1
        BY <1>3, <3>1, <3>2, <3>3, <4>1, SMTT(30)
      <4>3. ~(id' = j /\ phase' = "sent") => m <= faults'
        BY <1>3, <2>3, <3>1, <3>2, <3>4, <4>1, SMTT(30)
      <4>4. Accounted(j)'
        BY <1>1, <4>2, <4>3, SMTT(30) DEF Accounted, m
      <4>5. QED
        BY <3>1, <4>4, SMTT(30) DEF m
    <3>5. CASE j # id
      <4>1. /\ m <= row'[j].attempts /\ m <= faults' + 1
            /\ row'[j].hash = None => m <= faults'
        BY <1>1, <1>3, <3>1, <3>2, <3>3, <3>5, SMTT(30)
      <4>2. Accounted(j)'
        BY <1>1, <4>1 DEF Accounted, m
      <4>3. QED
        BY <3>1, <4>2 DEF m
    <3>6. QED
      BY <3>4, <3>5, SMTT(30)
  <2>5. faults' \in Nat
    BY <1>3
  <2>6. QED
    BY <2>4, <2>5 DEF NonceInv
<1>6. QED
  BY <1>4, <1>5, SMTT(30)

\* A fee bump uses the nonce of the transaction it replaces.
LEMMA BumpNonces ==
    ASSUME load_config, Clock, RelayInv, NonceInv, SubmitBump \/ BumpFails, NEW j \in Jobs
    PROVE  Nonces(txs', j) = Nonces(txs, j)
<1>1. CASE txs' = txs
  BY <1>1, SMTT(30)
<1>2. CASE txs' # txs
  <2>1. /\ phase = "bump" /\ Accepts(hand.nonce, offer)
        /\ txs' = Posted(id, hand.nonce, offer) /\ base' = base /\ served' = served
    BY <1>2, SMTT(30) DEF SubmitBump, BumpFails
  <2> DEFINE l == Len(txs) + 1
  <2>2. /\ Later(txs, txs') /\ l \notin DOMAIN txs /\ DOMAIN txs' = DOMAIN txs \cup {l}
        /\ txs'[l].job = id /\ txs'[l].nonce = hand.nonce
    BY <2>1, BumpPosted, SMTT(30)
  <2> HIDE DEF l
  <2>3. hand.hash \in DOMAIN txs /\ txs[hand.hash].job = id /\ txs[hand.hash].nonce = hand.nonce
    BY <2>1, InHand, ZenonT(30) DEF RelayInv, HandInv, RowOn, Polling
  <2>4. hand.nonce \in Nonces(txs, id)
    BY <2>3 DEF Nonces
  <2>5. QED
    BY <2>2, <2>4, NoncesGrow
<1>3. QED
  BY <1>1, <1>2

LEMMA NonceSteps ==
    ASSUME load_config, Clock, RelayInv, RelayInv', NonceInv, Kept, Next
    PROVE  NonceInv'
<1> USE DEF nodeVars, dbVars, workVars, Idle
<1>1. faults \in Nat
  BY DEF NonceInv
<1>2. ASSUME txs' = txs, faults' \in Nat, faults' >= faults, phase # "sent",
             \/ phase' \notin {"nonce", "submit"}
             \/ phase \in {"nonce", "submit"} /\ id' = id
      PROVE  NonceInv'
  BY <1>2, NoncesSame, SMTT(30)
<1>3. CASE \E j \in Jobs : SubmitProof(j)
  BY <1>1, <1>3, NoncesSame, SMTT(30) DEF SubmitProof
<1>4. CASE Start \/ Pick \/ AskNonce
  BY <1>1, <1>2, <1>4, SMTT(30) DEF Start, Pick, AskNonce
<1>5. CASE MarkSending
  BY <1>5, MarkSendingNonces, SMTT(30)
<1>6. CASE SubmitPayload \/ SubmitFails
  BY <1>6, SubmitNonces, SMTT(30)
<1>7. CASE SaveSubmitted
  <2>1. phase = "sent" /\ phase' = "idle" /\ txs' = txs /\ faults' = faults
    BY <1>7 DEF SaveSubmitted, Finish
  <2> DEFINE r == Submitted(hand, got, use)
  <2>2. row' = [row EXCEPT ![id] = Stored(r, lapse)]
    BY <1>7, SMTT(30) DEF SaveSubmitted, Finish, put_job, Stored, Submitted
  <2>3. /\ id \in Jobs /\ hand \in Row /\ lapse \in Nat /\ got \in DOMAIN txs
        /\ use \in Nat /\ Poll \in Nat
    BY <2>1, InHand, ZenonT(30) DEF RelayInv, HandInv, Sending, load_config
  <2>4. got \in Nat /\ got # None
    BY <2>3, TxsTyped DEF RelayInv, None
  <2>5. r \in Row /\ r.hash = got
    BY <2>3, <2>4, SubmittedRow, ZenonT(30)
  <2> HIDE DEF r
  <2>6. row'[id].hash # None
    BY <2>2, <2>3, <2>4, <2>5, StoredFields DEF RelayInv, RowInv
  <2>7. QED
    BY <1>1, <2>1, <2>6, NoncesSame, SMTT(30)
<1>8. CASE CheckTimeout \/ PollReceipt \/ NoReceipt
  BY <1>1, <1>2, <1>8 DEF CheckTimeout, PollReceipt, NoReceipt, KeepPolling, Finish
<1>9. CASE PollFails
  BY <1>1, <1>2, <1>9, SMTT(30) DEF PollFails, schedule_retry_or_fail, Finish, Fault
<1>10. CASE AskFees
  BY <1>1, <1>2, <1>10, SMTT(30) DEF AskFees
<1>11. CASE SubmitBump \/ BumpFails
  <2>1. \A j \in Jobs : Nonces(txs', j) = Nonces(txs, j)
    BY <1>11, BumpNonces
  <2>2. phase # "sent" /\ phase' \notin {"nonce", "submit"} /\ faults' \in Nat /\ faults' >= faults
    BY <1>1, <1>11 DEF SubmitBump, BumpFails, Fault
  <2>3. QED
    BY <2>1, <2>2, NoncesSame, SMTT(30)
<1>12. CASE SaveBumped \/ FindReplaced
  <2>1. /\ txs' = txs /\ faults' = faults
        /\ phase \in {"bumped", "gone"} /\ phase' = "idle"
    BY <1>12, Zenon DEF SaveBumped, FindReplaced, Finish
  <2>2. QED
    BY <1>1, <1>2, <2>1, SMTT(30)
<1>13. CASE NoneFound \/ Dropped
  <2>1. /\ txs' = txs /\ (faults' = faults \/ faults' = faults + 1)
        /\ phase = "gone" /\ phase' = "idle"
    BY <1>13 DEF NoneFound, Dropped, KeepPolling, Finish, Fault
  <2>2. QED
    BY <1>1, <1>2, <2>1, SMTT(30)
<1>14. CASE PassFails \/ Crash
  <2>1. txs' = txs /\ faults' = faults + 1 /\ phase' \notin {"nonce", "submit"}
    BY <1>14 DEF PassFails, Crash, Fault
  <2>2. QED
    BY <1>1, <2>1, NoncesSame, SMTT(30)
<1>15. CASE Tick
  <2>1. txs' = txs /\ faults' = faults /\ phase' = phase /\ id' = id
    BY <1>15, ZenonT(30) DEF Tick
  <2>2. QED
    BY <1>1, <2>1, NoncesSame, SMTT(30)
<1>16. CASE Node
  <2>1. Later(txs, txs') /\ DOMAIN txs' = DOMAIN txs
    BY <1>16, NodeSteps DEF RelayInv
  <2>2. UNCHANGED <<phase, id, faults>>
    BY <1>16, ZenonT(30) DEF Node, Mine, MineElsewhere, Evict, Serve
  <2>3. QED
    BY <1>1, <2>1, <2>2, NoncesLater, NoncesSame, SMTT(30)
<1>17. QED
  BY <1>3, <1>4, <1>5, <1>6, <1>7, <1>8, <1>9, <1>10, <1>11, <1>12, <1>13, <1>14,
     <1>15, <1>16, SMTT(30) DEF Next, Worker

LEMMA Steps ==
    ASSUME load_config, Clock, RelayInv, NonceInv, [Next]_vars
    PROVE  RelayInv' /\ NonceInv' /\ (KeepsHistory \/ UNCHANGED vars)
<1>1. CASE Next
  <2>1. RelayInv' /\ Kept
    <3>1. get_next_nonce \in Nat /\ At(txs, get_next_nonce) = {}
      BY FreeNonce DEF RelayInv
    <3>2. QED
      BY <1>1, <3>1, QueueSteps, SendSteps, SubmitSteps, PollSteps, AskFeesStep, BumpSteps,
         NodeKeeps, SMTT(30) DEF Next, Worker
  <2>2. NonceInv'
    BY <1>1, <2>1, NonceSteps, SMTT(30)
  <2>3. QED
    BY <2>1, <2>2, SMTT(30) DEF Kept
<1>2. CASE UNCHANGED vars
  <2>1. UNCHANGED <<row, phase, id, hand, use, offer, got, lapse, txs, base, served, faults>>
    BY <1>2, SMTT(30) DEF vars, dbVars, workVars, nodeVars
  <2>2. NodeInv' /\ RowInv'
    BY <2>1, SMTT(30) DEF RelayInv, NodeInv, RowInv
  <2>3. HandInv'
    BY <2>1, SMTT(30) DEF RelayInv, HandInv
  <2>4. NonceInv'
    BY <2>1 DEF NonceInv, Accounted
  <2>5. QED
    BY <1>2, <2>2, <2>3, <2>4, SMTT(30) DEF RelayInv
<1>3. QED
  BY <1>1, <1>2, SMTT(30)

LEMMA InitNonces == Init => NonceInv
<1> SUFFICES ASSUME Init PROVE NonceInv
  OBVIOUS
<1>1. DOMAIN txs = {}
  BY DEF Init
<1>2. \A j \in Jobs : Nonces(txs, j) = {}
  BY <1>1 DEF Nonces
<1>3. \A j \in Jobs : Cardinality(Nonces(txs, j)) = 0 /\ row[j].attempts = 0
  BY <1>2, FS_EmptySet, SMTT(30) DEF Init, NoRow, Unsent
<1>4. QED
  <2>1. \A j \in Jobs : IsFiniteSet(Nonces(txs, j))
    BY <1>2, FS_EmptySet
  <2>2. faults = 0 /\ phase \notin {"nonce", "submit"}
    BY SMTT(30) DEF Init
  <2>3. \A j \in Jobs : Accounted(j)
    BY <1>3, <2>2 DEF Accounted
  <2>4. QED
    BY <2>1, <2>2, <2>3, SMTT(30) DEF NonceInv
-----------------------------------------------------------------------------
(* What holds of every behaviour *)

\* The inductive invariant of the relayer and the node.
THEOREM RelayInvariant ==
    ASSUME load_config, Clock
    PROVE  Spec => [](RelayInv /\ NonceInv)
<1>1. Init => RelayInv /\ NonceInv
  BY InitRelay, InitNonces
<1>2. RelayInv /\ NonceInv /\ [Next]_vars => (RelayInv /\ NonceInv)'
  BY Steps
<1>3. QED
  BY <1>1, <1>2, PTL DEF Spec

\* A confirmed job names a mined, successful transaction that carries its own
\* payload, whatever was replaced, dropped or mined elsewhere
\* (poll_submitted_job, try_fee_bump).
THEOREM ConfirmedAreMined ==
    ASSUME load_config, Clock
    PROVE  Spec => []ConfirmedIsMined
<1>1. RelayInv => ConfirmedIsMined
  BY DEF RelayInv, RowInv, RowOn, ConfirmedIsMined, NoRow, Unsent
<1>2. QED
  BY <1>1, RelayInvariant, PTL

\* A fee bump never replaces another job's transaction, and its caps at least
\* double those of the one it replaces (try_fee_bump, apply_bump).
THEOREM BumpsReplaceOwn ==
    ASSUME load_config, Clock
    PROVE  Spec => [](ReplacesOwn /\ BumpReplaces)
<1>1. RelayInv => ReplacesOwn /\ BumpReplaces
  BY DEF RelayInv, NodeInv, HandInv, OwnReplaced, ReplacesOwn, BumpReplaces
<1>2. QED
  BY <1>1, RelayInvariant, PTL

\* A payload uses at most one nonce per stored attempt, and one more than there
\* were failures at most (send_queued_job, recover_inflight_jobs).
THEOREM NoncesAreAccounted ==
    ASSUME load_config, Clock
    PROVE  Spec => []NoncesAccounted
<1>1. RelayInv /\ NonceInv => NoncesAccounted
  <2> SUFFICES ASSUME RelayInv, NonceInv, NEW j \in Jobs
               PROVE  LET n == Cardinality({txs[h].nonce : h \in Sent(j)}) IN
                      n <= row[j].attempts /\ n <= 1 + faults
    BY SMTT(30) DEF NoncesAccounted
  <2>1. {txs[h].nonce : h \in Sent(j)} = Nonces(txs, j)
    BY DEF Nonces, Sent
  <2>2. faults \in Nat /\ Cardinality(Nonces(txs, j)) \in Nat
    BY NoncesFinite, SMTT(30) DEF NonceInv
  <2>3. Accounted(j) /\ row[j].attempts \in Nat
    BY DEF RelayInv, RowInv, RowOn, Row, NoRow, Unsent, NonceInv
  <2>4. QED
    BY <2>1, <2>2, <2>3, SMTT(30) DEF Accounted
<1>2. QED
  BY <1>1, RelayInvariant, PTL

\* Rows are not removed, finished ones do not change, attempts do not go back
\* and the hash of a stored broadcast is not forgotten (put_job, insert_job).
THEOREM HistoryIsKept ==
    ASSUME load_config, Clock
    PROVE  Spec => HistoryKept
<1>1. RelayInv /\ NonceInv /\ [Next]_vars => [KeepsHistory]_vars
  BY Steps
<1>2. QED
  BY <1>1, RelayInvariant, PTL DEF Spec, HistoryKept
=============================================================================
