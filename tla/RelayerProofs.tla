---------------------------- MODULE RelayerProofs ----------------------------
(***************************************************************************)
(* Proofs about the relayer for any number of jobs, any configuration that *)
(* load_config lets through and any number of failures, crashes, evictions *)
(* and fee estimates: what a row says of the transactions sent for it is   *)
(* true, and no row forgets what was sent.                                 *)
(*                                                                         *)
(* The transactions the node has accepted are a parameter of the           *)
(* predicates below, so that a fact about them can be carried from txs to  *)
(* txs'.                                                                   *)
(***************************************************************************)
EXTENDS Relayer, TLAPS

Row ==
    [status : {"none", "queued", "sending", "submitted", "confirmed", "failed"},
     attempts : Nat, hash : Nat, nonce : Int, age : Int, due : Int,
     bumps : Nat, prev : Seq(Nat)]

Fees == Nat \X Nat \X Nat

Tx == [job : Jobs, nonce : Nat, fees : Fees, st : {"pool", "out", "mined"},
       ok : BOOLEAN, over : SUBSET Nat]

At(t, n) == {h \in DOMAIN t : t[h].st = "pool" /\ t[h].nonce = n}

\* The pool holds one transaction per nonce, and none whose nonce is used up.
OnePerNonce(t, b) ==
    /\ \A h \in DOMAIN t : /\ t[h].st = "mined" => t[h].nonce < b
                           /\ t[h].st = "pool" => t[h].nonce >= b
    /\ \A h, k \in DOMAIN t :
          t[h].st = "pool" /\ t[k].st = "pool" /\ t[h].nonce = t[k].nonce => h = k

OwnReplaced(t) ==
    \A h \in DOMAIN t : \A o \in t[h].over : o \in DOMAIN t /\ t[o].job = t[h].job

\* u is what the node may have made of t: a transaction keeps its payload,
\* nonce and fees, a mined one keeps its outcome, and none returns to the pool.
Later(t, u) ==
    /\ DOMAIN t \subseteq DOMAIN u
    /\ \A h \in DOMAIN t :
          /\ u[h].job = t[h].job /\ u[h].nonce = t[h].nonce
          /\ u[h].fees = t[h].fees /\ u[h].over = t[h].over
          /\ t[h].st = "mined" => u[h].st = "mined" /\ u[h].ok = t[h].ok
          /\ u[h].st = "pool" => t[h].st = "pool"

\* The hashes r names are those of transactions sent for job j.
RowOn(t, j, r) ==
    /\ r \in Row /\ r.status # "none"
    /\ r.hash # None => r.hash \in DOMAIN t /\ t[r.hash].job = j
    /\ Live(r) /\ r.hash # None => t[r.hash].nonce = r.nonce
    /\ \A k \in DOMAIN r.prev : r.prev[k] \in DOMAIN t /\ t[r.prev[k]].job = j
    /\ r.status = "confirmed" =>
          r.hash # None /\ t[r.hash].st = "mined" /\ t[r.hash].ok

NodeInv ==
    /\ txs \in Seq(Tx) /\ base \in Nat
    /\ served \subseteq {h \in DOMAIN txs : txs[h].st = "mined"}
    /\ OnePerNonce(txs, base)
    /\ OwnReplaced(txs)

RowInv ==
    /\ DOMAIN row = Jobs
    /\ \A j \in Jobs : row[j] = NoRow \/ RowOn(txs, j, row[j])

Sending == {"send", "nonce", "submit", "sent"}
Polling == {"poll", "receipt", "fees", "bump", "bumped", "gone"}

\* What the worker knows of the job in hand.  Between asking for a nonce and
\* sending, nothing else takes that nonce; between looking the transaction up
\* and replacing it, its nonce holds no transaction of another job.
HandInv ==
    /\ phase \in Sending \cup Polling \cup {"stopped", "idle"}
    /\ lapse \in Nat
    /\ phase \in Sending \cup Polling =>
          /\ id \in Jobs /\ Live(row[id]) /\ Live(hand) /\ RowOn(txs, id, hand)
          /\ hand.attempts = row[id].attempts
          /\ hand.hash = row[id].hash /\ hand.prev = row[id].prev
    /\ phase \in Sending => hand.hash = None
    /\ phase \in Polling => hand.hash # None
    /\ phase = "submit" => use \in Nat /\ At(txs, use) = {}
    /\ phase = "sent" =>
          use \in Nat /\ got \in DOMAIN txs /\ txs[got].job = id /\ txs[got].nonce = use
    /\ phase = "bump" =>
          /\ offer \in Fees /\ Doubles(offer, txs[hand.hash].fees)
          /\ \A h \in At(txs, hand.nonce) : txs[h].job = id
    /\ phase = "bumped" =>
          got \in DOMAIN txs /\ txs[got].job = id /\ txs[got].nonce = hand.nonce

RelayInv == NodeInv /\ RowInv /\ HandInv

-----------------------------------------------------------------------------
(* The node *)

LEMMA LaterSame == \A t : Later(t, t)
BY DEF Later

LEMMA RowLater ==
    ASSUME NEW t, NEW u, Later(t, u), NEW j, NEW r, RowOn(t, j, r)
    PROVE  RowOn(u, j, r)
BY SMTT(30) DEF Later, RowOn, Row

LEMMA AtLater ==
    ASSUME NEW t, NEW u, Later(t, u), DOMAIN u = DOMAIN t, NEW n
    PROVE  At(u, n) \subseteq At(t, n)
BY DEF Later, At

LEMMA TxsTyped ==
    ASSUME NodeInv
    PROVE  /\ base \in Nat /\ Len(txs) \in Nat /\ DOMAIN txs = 1 .. Len(txs)
           /\ \A k \in DOMAIN txs : txs[k] \in Tx /\ txs[k].nonce \in Nat
<1>1. txs \in Seq(Tx) /\ base \in Nat
  BY DEF NodeInv
<1>2. Len(txs) \in Nat /\ DOMAIN txs = 1 .. Len(txs) /\ \A k \in DOMAIN txs : txs[k] \in Tx
  BY <1>1
<1>3. QED
  BY <1>1, <1>2 DEF Tx

LEMMA HashesTyped ==
    ASSUME RelayInv
    PROVE  base \in Nat /\ \A h \in DOMAIN txs : h \in Nat /\ h # None /\ txs[h] \in Tx
BY TxsTyped DEF RelayInv, None

LEMMA PollTyped == load_config => Poll \in Nat
BY DEF load_config

LEMMA SeqOfTx ==
    ASSUME NEW t, NEW n \in Nat, t = [k \in 1 .. n |-> t[k]], \A k \in 1 .. n : t[k] \in Tx
    PROVE  t \in Seq(Tx)
OBVIOUS

\* The node changes the state of transactions it has.
LEMMA NodeChanges ==
    ASSUME NodeInv, base' \in Nat, base' >= base,
           txs' = [k \in DOMAIN txs |-> txs'[k]],
           \A k \in DOMAIN txs :
              /\ txs'[k] \in Tx
              /\ txs'[k].job = txs[k].job /\ txs'[k].nonce = txs[k].nonce
              /\ txs'[k].fees = txs[k].fees /\ txs'[k].over = txs[k].over
              /\ txs[k].st = "mined" => txs'[k].st = "mined" /\ txs'[k].ok = txs[k].ok
              /\ txs'[k].st = "mined" => txs[k].nonce < base'
              /\ txs'[k].st = "pool" => txs[k].st = "pool" /\ txs[k].nonce >= base',
           served' \subseteq served
    PROVE  NodeInv' /\ Later(txs, txs') /\ DOMAIN txs' = DOMAIN txs
<1>1. DOMAIN txs' = DOMAIN txs
  OBVIOUS
<1>2. txs' \in Seq(Tx)
  BY TxsTyped, SeqOfTx
<1>3. Later(txs, txs')
  BY <1>1 DEF Later
<1>4. OnePerNonce(txs', base')
  BY <1>1 DEF OnePerNonce, NodeInv
<1>5. OwnReplaced(txs')
  BY <1>1 DEF OwnReplaced, NodeInv
<1>6. served' \subseteq {h \in DOMAIN txs' : txs'[h].st = "mined"}
  BY <1>1 DEF NodeInv
<1>7. QED
  BY <1>1, <1>2, <1>3, <1>4, <1>5, <1>6 DEF NodeInv

LEMMA NodeSteps ==
    ASSUME NodeInv, Node
    PROVE  NodeInv' /\ Later(txs, txs') /\ DOMAIN txs' = DOMAIN txs
<1>1. /\ base \in Nat /\ OnePerNonce(txs, base)
      /\ \A k \in DOMAIN txs : txs[k] \in Tx /\ txs[k].nonce \in Nat
  BY TxsTyped DEF NodeInv
<1>2. CASE Mine
  <2>1. PICK h \in AtNonce(base), ok \in BOOLEAN :
            txs' = [txs EXCEPT ![h].st = "mined", ![h].ok = ok]
    BY <1>2, Zenon DEF Mine
  <2>2. h \in DOMAIN txs /\ txs[h].st = "pool" /\ txs[h].nonce = base
    BY <2>1 DEF AtNonce, InPool
  <2>3. base' = base + 1 /\ served' = served
    BY <1>2 DEF Mine
  <2>4. txs' = [k \in DOMAIN txs |-> txs'[k]]
    BY <2>1, Zenon
  <2>5. \A k \in DOMAIN txs : k # h => txs'[k] = txs[k]
    BY <2>1
  <2>6. /\ txs'[h] \in Tx /\ txs'[h].st = "mined"
        /\ txs'[h].job = txs[h].job /\ txs'[h].nonce = txs[h].nonce
        /\ txs'[h].fees = txs[h].fees /\ txs'[h].over = txs[h].over
    BY <1>1, <2>1, <2>2 DEF Tx
  <2>7. \A k \in DOMAIN txs : /\ k # h /\ txs[k].st = "pool" => txs[k].nonce >= base + 1
                              /\ txs[k].st = "mined" => txs[k].nonce < base
    <3>1. \A k \in DOMAIN txs : /\ txs[k].st = "mined" => txs[k].nonce < base
                                /\ txs[k].st = "pool" => txs[k].nonce >= base
                                /\ txs[k].st = "pool" /\ txs[k].nonce = base => k = h
      BY <1>1, <2>2 DEF OnePerNonce
    <3>2. QED
      BY <1>1, <3>1
  <2>8. QED
    BY <1>1, <2>2, <2>3, <2>4, <2>5, <2>6, <2>7, NodeChanges
<1>3. CASE MineElsewhere
  <2>1. PICK h \in DOMAIN txs :
          /\ txs[h].st = "out" /\ txs[h].nonce = base
          /\ txs' = [k \in DOMAIN txs |->
                        IF k = h THEN [txs[k] EXCEPT !.st = "mined", !.ok = TRUE]
                        ELSE IF k \in AtNonce(base)
                             THEN [txs[k] EXCEPT !.st = "out"] ELSE txs[k]]
    BY <1>3, Zenon DEF MineElsewhere
  <2>2. base' = base + 1 /\ served' = served
    BY <1>3, Zenon DEF MineElsewhere
  <2>3. txs' = [k \in DOMAIN txs |-> txs'[k]]
    BY <2>1, Zenon
  <2>4. \A k \in AtNonce(base) : txs[k].st = "pool" /\ txs[k].nonce = base
    BY DEF AtNonce, InPool
  <2>5. ASSUME NEW k \in DOMAIN txs
        PROVE  /\ txs'[k] \in Tx
               /\ txs'[k].job = txs[k].job /\ txs'[k].nonce = txs[k].nonce
               /\ txs'[k].fees = txs[k].fees /\ txs'[k].over = txs[k].over
               /\ txs[k].st = "mined" => txs'[k].st = "mined" /\ txs'[k].ok = txs[k].ok
               /\ txs'[k].st = "mined" => txs[k].nonce < base'
               /\ txs'[k].st = "pool" => txs[k].st = "pool" /\ txs[k].nonce >= base'
    <3>1. /\ txs[k].st = "mined" => txs[k].nonce < base
          /\ txs[k].st = "pool" => txs[k].nonce >= base
          /\ txs[k] \in Tx /\ txs[k].nonce \in Nat /\ base \in Nat
      BY <1>1 DEF OnePerNonce
    <3>2. CASE k = h
      <4>1. txs'[k] = [txs[k] EXCEPT !.st = "mined", !.ok = TRUE]
        BY <2>1, <3>2, Zenon
      <4>2. /\ txs'[k] \in Tx /\ txs'[k].st = "mined"
            /\ txs'[k].job = txs[k].job /\ txs'[k].nonce = txs[k].nonce
            /\ txs'[k].fees = txs[k].fees /\ txs'[k].over = txs[k].over
        BY <3>1, <4>1, Zenon DEF Tx
      <4>3. txs[k].st = "out" /\ txs[k].nonce = base
        BY <2>1, <3>2, Zenon
      <4>4. QED
        BY <2>2, <3>1, <4>2, <4>3
    <3>3. CASE k # h /\ k \in AtNonce(base)
      <4>1. txs'[k] = [txs[k] EXCEPT !.st = "out"]
        BY <2>1, <3>3, Zenon
      <4>2. QED
        BY <2>4, <3>1, <3>3, <4>1 DEF Tx
    <3>4. CASE k # h /\ k \notin AtNonce(base)
      <4>1. txs'[k] = txs[k]
        BY <2>1, <3>4, Zenon
      <4>2. txs[k].st = "pool" => txs[k].nonce # base
        BY <3>4 DEF AtNonce, InPool
      <4>3. QED
        BY <2>2, <3>1, <4>1, <4>2
    <3>5. QED
      BY <3>2, <3>3, <3>4
  <2>6. QED
    BY <1>1, <2>2, <2>3, <2>5, NodeChanges
<1>4. CASE Evict
  <2>1. PICK h \in DOMAIN txs : InPool(h) /\ txs' = [txs EXCEPT ![h].st = "out"]
    BY <1>4, Zenon DEF Evict
  <2>2. base' = base /\ served' = served /\ txs[h].st = "pool"
    BY <1>4, <2>1 DEF Evict, InPool
  <2>3. txs' = [k \in DOMAIN txs |-> txs'[k]]
    BY <2>1, Zenon
  <2>4. \A k \in DOMAIN txs : k # h => txs'[k] = txs[k]
    BY <2>1
  <2>5. /\ txs'[h] \in Tx /\ txs'[h].st = "out"
        /\ txs'[h].job = txs[h].job /\ txs'[h].nonce = txs[h].nonce
        /\ txs'[h].fees = txs[h].fees /\ txs'[h].over = txs[h].over
    BY <1>1, <2>1 DEF Tx
  <2>6. \A k \in DOMAIN txs : /\ txs[k].st = "mined" => txs[k].nonce < base
                              /\ txs[k].st = "pool" => txs[k].nonce >= base
    BY <1>1 DEF OnePerNonce
  <2>7. QED
    BY <1>1, <2>2, <2>3, <2>4, <2>5, <2>6, NodeChanges
<1>5. CASE Serve
  <2>1. txs' = txs /\ base' = base
        /\ \A h \in served' : h \in served \/ (h \in DOMAIN txs /\ txs[h].st = "mined")
    BY <1>5 DEF Serve
  <2>2. QED
    BY <2>1, LaterSame DEF NodeInv
<1>6. QED
  BY <1>2, <1>3, <1>4, <1>5 DEF Node

\* Sending: the node takes one more transaction, and drops from its pool the
\* one it replaces, which is of the same job.
LEMMA PostedOk ==
    ASSUME NodeInv, NEW j \in Jobs, NEW n \in Nat, NEW f \in Fees, Accepts(n, f),
           \A h \in At(txs, n) : txs[h].job = j,
           txs' = Posted(j, n, f), base' = base, served' = served
    PROVE  /\ NodeInv' /\ Later(txs, txs')
           /\ Len(txs) + 1 \in Nat \ DOMAIN txs
           /\ DOMAIN txs' = DOMAIN txs \cup {Len(txs) + 1}
           /\ txs'[Len(txs) + 1].job = j /\ txs'[Len(txs) + 1].nonce = n
<1> DEFINE t == [h \in DOMAIN txs |->
                    IF h \in AtNonce(n) THEN [txs[h] EXCEPT !.st = "out"] ELSE txs[h]]
           new == [job |-> j, nonce |-> n, fees |-> f, st |-> "pool", ok |-> FALSE,
                   over |-> AtNonce(n)]
           last == Len(txs) + 1
<1>1. txs \in Seq(Tx) /\ base \in Nat /\ Len(txs) \in Nat /\ DOMAIN txs = 1 .. Len(txs)
  BY DEF NodeInv
<1>2. \A h \in DOMAIN txs : txs[h] \in Tx
  BY <1>1
<1>3. AtNonce(n) = At(txs, n) /\ AtNonce(n) \subseteq DOMAIN txs
  BY DEF AtNonce, At, InPool
<1>4. new \in Tx
  BY <1>1, <1>3 DEF Tx
<1>5. \A h \in DOMAIN txs : t[h] \in Tx
  BY <1>2 DEF Tx
<1>6. t \in Seq(Tx) /\ Len(t) = Len(txs)
  BY <1>1, <1>5
<1>7. txs' = Append(t, new)
  BY DEF Posted
<1> HIDE DEF new
<1>8. /\ txs' \in Seq(Tx) /\ DOMAIN txs' = DOMAIN txs \cup {last} /\ last \in Nat \ DOMAIN txs
      /\ txs'[last] = new
      /\ \A h \in DOMAIN txs : txs'[h] = t[h]
  BY <1>1, <1>4, <1>6, <1>7
<1>9. \A h \in DOMAIN txs :
          /\ h \in At(txs, n) => txs'[h] = [txs[h] EXCEPT !.st = "out"]
          /\ h \notin At(txs, n) => txs'[h] = txs[h]
  BY <1>3, <1>8
<1> HIDE DEF t
<1>10. Later(txs, txs')
  BY <1>2, <1>8, <1>9 DEF Later, Tx, At
<1>11. /\ new.job = j /\ new.nonce = n /\ new.st = "pool" /\ new.over = At(txs, n)
  BY <1>3 DEF new
<1>12. OnePerNonce(txs', base')
  <2>1. n >= base
    BY DEF Accepts
  <2>2. \A h \in DOMAIN txs : txs'[h].st = "pool" => txs[h].st = "pool" /\ txs[h].nonce # n
    BY <1>2, <1>9, Zenon DEF At, Tx
  <2>3. \A h \in DOMAIN txs : txs'[h].nonce = txs[h].nonce /\ (txs'[h].st = "mined" => txs[h].st = "mined")
    BY <1>2, <1>9, ZenonT(30) DEF At, Tx
  <2>4. QED
    BY <1>8, <1>11, <2>1, <2>2, <2>3, SMTT(30) DEF OnePerNonce, NodeInv
<1>13. OwnReplaced(txs')
  BY <1>8, <1>10, <1>11, <1>3, SMTT(30) DEF OwnReplaced, Later, NodeInv
<1>14. served' \subseteq {h \in DOMAIN txs' : txs'[h].st = "mined"}
  BY <1>8, <1>10 DEF NodeInv, Later
<1>15. QED
  BY <1>1, <1>8, <1>10, <1>11, <1>12, <1>13, <1>14 DEF NodeInv

-----------------------------------------------------------------------------
(* The worker *)

\* What put_job writes for r, l seconds after the pass began.
Stored(r, l) ==
    IF is_terminal(r) THEN [r EXCEPT !.age = Never, !.due = 0]
    ELSE [r EXCEPT !.age = IF @ = Never THEN Never ELSE Min2(@ + l, MaxTime),
                   !.due = Max2(@ - l, -MaxLate)]

LEMMA StoredFields ==
    ASSUME Clock, NEW l \in Nat, NEW r \in Row
    PROVE  /\ Stored(r, l) \in Row
           /\ Stored(r, l).status = r.status /\ Stored(r, l).attempts = r.attempts
           /\ Stored(r, l).hash = r.hash /\ Stored(r, l).nonce = r.nonce
           /\ Stored(r, l).prev = r.prev
<1>1. CASE is_terminal(r)
  <2> DEFINE a == Never
             d == 0
  <2>1. a \in Int /\ d \in Int
    BY DEF Never
  <2>2. Stored(r, l) = [r EXCEPT !.age = a, !.due = d]
    BY <1>1 DEF Stored
  <2> HIDE DEF a, d
  <2>3. QED
    BY <2>1, <2>2, Zenon DEF Row
<1>2. CASE ~is_terminal(r)
  <2> DEFINE a == IF r.age = Never THEN Never ELSE Min2(r.age + l, MaxTime)
             d == Max2(r.due - l, -MaxLate)
  <2>1. a \in Int /\ d \in Int
    BY DEF Clock, Row, Never, Min2, Max2
  <2>2. Stored(r, l) = [r EXCEPT !.age = a, !.due = d]
    BY <1>2 DEF Stored
  <2> HIDE DEF a, d
  <2>3. QED
    BY <2>1, <2>2, Zenon DEF Row
<1>3. QED
  BY <1>1, <1>2

\* No step takes from a row what it says was sent.
Kept ==
    /\ KeepsHistory
    /\ \A j \in Jobs : row[j].hash # None => row'[j].hash # None

\* The row of the job in hand may be overwritten by r.
Writes(r) ==
    /\ RowOn(txs', id, r) /\ r.attempts >= row[id].attempts
    /\ row[id].hash # None => r.hash # None
    /\ row[id].hash # None /\ r.status # "confirmed" => Known(row[id]) \subseteq Known(r)

\* put_job in a pass keeps what rows promise.
LEMMA PutKeeps ==
    ASSUME Clock, RowInv, lapse \in Nat, id \in Jobs, Live(row[id]),
           Later(txs, txs'), NEW r, Writes(r),
           row' = [row EXCEPT ![id] = Stored(r, lapse)]
    PROVE  RowInv' /\ Kept
<1>1. r \in Row
  BY DEF Writes, RowOn
<1>2. /\ Stored(r, lapse) \in Row
      /\ Stored(r, lapse).status = r.status /\ Stored(r, lapse).attempts = r.attempts
      /\ Stored(r, lapse).hash = r.hash /\ Stored(r, lapse).nonce = r.nonce
      /\ Stored(r, lapse).prev = r.prev
  BY <1>1, StoredFields
<1>3. DOMAIN row' = Jobs /\ row'[id] = Stored(r, lapse)
      /\ \A j \in Jobs : j # id => row'[j] = row[j]
  BY DEF RowInv
<1>4. RowOn(txs', id, row'[id])
  BY <1>2, <1>3 DEF Writes, RowOn, Live
<1>5. \A j \in Jobs : j # id => row'[j] = NoRow \/ RowOn(txs', j, row'[j])
  BY <1>3, RowLater DEF RowInv
<1>6. RowInv'
  BY <1>3, <1>4, <1>5 DEF RowInv
<1>7. \A j \in Jobs : row[j].attempts \in Nat
  BY DEF RowInv, RowOn, Row, NoRow, Unsent
<1>8. row[id] # NoRow /\ ~is_terminal(row[id])
  BY DEF Live, is_terminal, NoRow, Unsent
<1>9. row'[id] # NoRow /\ row'[id].attempts >= row[id].attempts
  BY <1>2, <1>3, <1>4 DEF Writes, RowOn, NoRow, Unsent
<1>10. row[id].hash # None /\ row'[id].status # "confirmed"
          => Known(row[id]) \subseteq Known(row'[id])
  BY <1>2, <1>3 DEF Writes, Known
<1>11. row[id].hash # None => row'[id].hash # None
  BY <1>2, <1>3 DEF Writes
<1>12. QED
  BY <1>3, <1>6, <1>7, <1>8, <1>9, <1>10, <1>11 DEF Kept, KeepsHistory

\* A step that leaves the rows alone.
LEMMA RowsStay ==
    ASSUME RowInv, row' = row, Later(txs, txs')
    PROVE  RowInv' /\ Kept
<1>1. RowInv'
  BY RowLater DEF RowInv
<1>2. \A j \in Jobs : row[j].attempts \in Nat
  BY DEF RowInv, RowOn, Row, NoRow, Unsent
<1>3. QED
  BY <1>1, <1>2 DEF Kept, KeepsHistory

LEMMA IdleHand ==
    ASSUME Idle
    PROVE  HandInv'
BY DEF Idle, HandInv, Sending, Polling

\* The end of a pass: the row is written and the copy dropped.
LEMMA PassEnds ==
    ASSUME Clock, RelayInv, phase \in Sending \cup Polling, NodeInv', Later(txs, txs'),
           NEW r, Writes(r), row' = [row EXCEPT ![id] = Stored(r, lapse)], Idle
    PROVE  RelayInv' /\ Kept
<1>1. RowInv /\ lapse \in Nat /\ id \in Jobs /\ Live(row[id])
  BY DEF RelayInv, HandInv
<1>2. RowInv' /\ Kept
  BY <1>1, PutKeeps, Zenon
<1>3. QED
  BY <1>2, IdleHand DEF RelayInv

\* A pass may write its copy back with another status, due time or bump count.
LEMMA CopyWrites ==
    ASSUME RelayInv, phase \in Sending \cup Polling, Later(txs, txs'),
           NEW r \in Row, r.status \notin {"none", "confirmed"},
           r.attempts = hand.attempts, r.hash = hand.hash, r.nonce = hand.nonce,
           r.prev = hand.prev
    PROVE  Writes(r)
<1>1. RowOn(txs, id, hand) /\ Live(hand) /\ hand.attempts = row[id].attempts
      /\ hand.hash = row[id].hash /\ hand.prev = row[id].prev
  BY SMTT(30) DEF RelayInv, HandInv
<1>2. RowOn(txs, id, r)
  BY <1>1 DEF RowOn
<1>3. RowOn(txs', id, r)
  BY <1>2, RowLater
<1>4. Known(row[id]) = Known(r)
  BY <1>1 DEF Known
<1>5. r.attempts >= row[id].attempts
  BY <1>1, SMTT(30) DEF Row
<1>6. QED
  BY <1>1, <1>3, <1>4, <1>5, SMTT(30) DEF Writes

\* What is in hand during a pass.
LEMMA InHand ==
    ASSUME RelayInv, phase \in Sending \cup Polling
    PROVE  /\ id \in Jobs /\ hand \in Row /\ RowOn(txs, id, hand) /\ Live(hand)
           /\ Live(row[id]) /\ lapse \in Nat
           /\ hand.attempts = row[id].attempts
           /\ hand.hash = row[id].hash /\ hand.prev = row[id].prev
BY SMTT(30) DEF RelayInv, HandInv, RowOn

\* What the pass knows before it writes the transaction it got into its row.
LEMMA SentHand ==
    ASSUME RelayInv, phase = "sent"
    PROVE  /\ hand.hash = None /\ use \in Nat
           /\ got \in DOMAIN txs /\ txs[got].job = id /\ txs[got].nonce = use
BY DEF RelayInv, HandInv, Sending

LEMMA BumpedHand ==
    ASSUME RelayInv, phase = "bumped"
    PROVE  got \in DOMAIN txs /\ txs[got].job = id /\ txs[got].nonce = hand.nonce
BY DEF RelayInv, HandInv

LEMMA HashInHand ==
    ASSUME RelayInv
    PROVE  /\ phase \in Sending => hand.hash = None
           /\ phase \in Polling => hand.hash # None
BY DEF RelayInv, HandInv

\* A step that only drops the copy.
LEMMA DropsHand ==
    ASSUME RelayInv, UNCHANGED <<row, txs, base, served>>, phase' \in {"idle", "stopped"},
           lapse' = 0
    PROVE  RelayInv' /\ Kept
<1>1. RowInv' /\ Kept
  BY RowsStay, LaterSame DEF RelayInv
<1>2. HandInv'
  BY DEF HandInv, Sending, Polling
<1>3. NodeInv'
  BY DEF RelayInv, NodeInv
<1>4. QED
  BY <1>1, <1>2, <1>3 DEF RelayInv

LEMMA FirstFeesType ==
    ASSUME load_config, NEW net \in NetFees
    PROVE  FirstFees(net) \in Fees
<1>1. net \in Nat \X Nat /\ BlobFee \in Nat
  BY DEF load_config
<1>2. net[1] \in Nat /\ net[2] \in Nat
  BY <1>1
<1>3. QED
  BY <1>1, <1>2 DEF FirstFees, Fees

\* A fee bump of at least 100 percent doubles a cap.
LEMMA BumpDoubles ==
    ASSUME load_config, NEW old \in Nat, NEW fee \in Nat, fee >= old
    PROVE  apply_bump(fee) \in Nat /\ apply_bump(fee) >= 2 * old
<1>1. BumpPct \in Nat /\ BumpPct >= 100
  BY DEF load_config
<1>2. fee * (100 + BumpPct) \in Nat /\ fee * (100 + BumpPct) >= fee * 200
  BY <1>1
<1>3. \A x \in Nat : x >= fee * 200 => x \div 100 \in Nat /\ x \div 100 >= 2 * fee
  OBVIOUS
<1>4. QED
  BY <1>2, <1>3 DEF apply_bump

LEMMA BumpedFees ==
    ASSUME load_config, NEW old \in Fees, NEW net \in NetFees
    PROVE  bumped_fees(old, net) \in Fees /\ Doubles(bumped_fees(old, net), old)
<1> DEFINE priority == Max2(old[1], net[2])
           cap == Max2(old[2], net[1] + priority)
<1>1. net[1] \in Nat /\ net[2] \in Nat /\ old[1] \in Nat /\ old[2] \in Nat /\ old[3] \in Nat
  BY DEF load_config, Fees
<1>2. priority \in Nat /\ priority >= old[1] /\ cap \in Nat /\ cap >= old[2]
  BY <1>1 DEF Max2
<1>3. bumped_fees(old, net) = <<apply_bump(priority), apply_bump(cap), apply_bump(old[3])>>
  BY DEF bumped_fees
<1> HIDE DEF priority, cap
<1>4. /\ apply_bump(priority) \in Nat /\ apply_bump(priority) >= 2 * old[1]
      /\ apply_bump(cap) \in Nat /\ apply_bump(cap) >= 2 * old[2]
      /\ apply_bump(old[3]) \in Nat /\ apply_bump(old[3]) >= 2 * old[3]
  BY <1>1, <1>2, BumpDoubles
<1>5. QED
  BY <1>3, <1>4 DEF Fees, Doubles

LEMMA RetryFields ==
    ASSUME load_config, Clock, NEW r \in Row
    PROVE  /\ retry_or_fail(r) \in Row /\ retry_or_fail(r).status \in {"queued", "failed"}
           /\ retry_or_fail(r).attempts = r.attempts /\ retry_or_fail(r).hash = r.hash
           /\ retry_or_fail(r).nonce = r.nonce /\ retry_or_fail(r).prev = r.prev
<1>1. CASE r.attempts >= MaxAttempts
  BY <1>1 DEF retry_or_fail, Row
<1>2. CASE ~(r.attempts >= MaxAttempts)
  <2>1. backoff_secs(r.attempts) \in Int
    <3>1. r.attempts \in 0 .. MaxAttempts
      BY <1>2, SMTT(30) DEF load_config, Row
    <3>2. QED
      BY <3>1 DEF Clock
  <2>2. retry_or_fail(r) = [r EXCEPT !.status = "queued", !.due = backoff_secs(r.attempts)]
    BY <1>2 DEF retry_or_fail
  <2>3. QED
    BY <2>1, <2>2, ZenonT(30) DEF Row
<1>3. QED
  BY <1>1, <1>2

\* A first submission: its nonce is free, so nothing is replaced.
LEMMA FirstPosted ==
    ASSUME load_config, RelayInv, phase = "submit", NEW net \in NetFees,
           Accepts(use, FirstFees(net)), txs' = Posted(id, use, FirstFees(net)),
           base' = base, served' = served
    PROVE  /\ NodeInv' /\ Later(txs, txs')
           /\ Len(txs) + 1 \notin DOMAIN txs
           /\ DOMAIN txs' = DOMAIN txs \cup {Len(txs) + 1}
           /\ txs'[Len(txs) + 1].job = id /\ txs'[Len(txs) + 1].nonce = use
<1>1. NodeInv /\ id \in Jobs /\ use \in Nat /\ At(txs, use) = {}
  BY DEF RelayInv, HandInv, Sending
<1>2. FirstFees(net) \in Fees
  BY FirstFeesType
<1>3. QED
  BY <1>1, <1>2, PostedOk, Zenon

\* A fee bump: what it replaces is of the same job.
LEMMA BumpPosted ==
    ASSUME RelayInv, phase = "bump", Accepts(hand.nonce, offer),
           txs' = Posted(id, hand.nonce, offer), base' = base, served' = served
    PROVE  /\ NodeInv' /\ Later(txs, txs')
           /\ Len(txs) + 1 \notin DOMAIN txs
           /\ DOMAIN txs' = DOMAIN txs \cup {Len(txs) + 1}
           /\ txs'[Len(txs) + 1].job = id /\ txs'[Len(txs) + 1].nonce = hand.nonce
<1>1. /\ NodeInv /\ id \in Jobs /\ offer \in Fees
      /\ \A h \in At(txs, hand.nonce) : txs[h].job = id
      /\ hand.hash \in DOMAIN txs /\ txs[hand.hash].nonce = hand.nonce
  <2>1. phase \in Polling /\ NodeInv /\ HandInv
    BY SMTT(30) DEF Polling, RelayInv
  <2>2. RowOn(txs, id, hand) /\ Live(hand) /\ hand.hash # None
    BY <2>1 DEF HandInv
  <2>3. QED
    BY <2>1, <2>2 DEF HandInv, RowOn
<1>2. hand.nonce \in Nat
  BY <1>1, TxsTyped
<1>3. QED
  BY <1>1, <1>2, PostedOk, ZenonT(30)
-----------------------------------------------------------------------------
(* The steps *)

LEMMA InitRelay == Init => RelayInv
<1> SUFFICES ASSUME Init PROVE RelayInv
  OBVIOUS
<1>1. NodeInv
  BY DEF Init, NodeInv, OnePerNonce, OwnReplaced
<1>2. RowInv
  BY DEF Init, RowInv
<1>3. HandInv
  BY DEF Init, HandInv, Sending, Polling
<1>4. QED
  BY <1>1, <1>2, <1>3 DEF RelayInv

\* The API, the start of the worker, the clock and a failed pass.
LEMMA QueueSteps ==
    ASSUME Clock, RelayInv,
           (\E j \in Jobs : SubmitProof(j)) \/ Start \/ PassFails \/ Crash \/ Tick
    PROVE  RelayInv' /\ Kept
<1> USE DEF nodeVars, workVars, dbVars
<1>1. RowInv /\ NodeInv /\ HandInv
  BY DEF RelayInv
<1>2. ASSUME NEW j \in Jobs, SubmitProof(j) PROVE RelayInv' /\ Kept
  <2>1. CASE row[j] # NoRow
    <3>1. UNCHANGED vars
      BY <1>2, <2>1 DEF SubmitProof, insert_job, vars
    <3>2. RowInv' /\ Kept
      BY <1>1, <3>1, RowsStay, LaterSame DEF vars
    <3>3. QED
      BY <1>1, <3>1, <3>2, Zenon DEF RelayInv, vars, NodeInv, HandInv
  <2>2. CASE row[j] = NoRow
    <3>1. row' = [row EXCEPT ![j] = Unsent] /\ UNCHANGED <<workVars, nodeVars>>
      BY <1>2, <2>2, SMTT(30) DEF SubmitProof, insert_job
    <3>2. Unsent \in Row /\ RowOn(txs, j, Unsent)
      BY SMTT(30) DEF Unsent, Row, RowOn, None, Never, Live
    <3>3. RowInv'
      BY <1>1, <3>1, <3>2 DEF RowInv
    <3>4. id \in Jobs /\ Live(row[id]) => id # j
      BY <2>2 DEF Live, NoRow, Unsent
    <3>5. id \in Jobs /\ Live(row[id]) => row'[id] = row[id]
      BY <1>1, <3>1, <3>4, SMTT(30) DEF RowInv
    <3>6. HandInv'
      BY <1>1, <3>1, <3>5, SMTT(30) DEF HandInv
    <3>7. NodeInv'
      BY <1>1, <3>1 DEF NodeInv
    <3>8. \A k \in Jobs : row[k].attempts \in Nat
      BY <1>1 DEF RowInv, RowOn, Row, NoRow, Unsent
    <3>9. Kept
      <4>1. \A k \in Jobs : k # j => row'[k] = row[k]
        BY <1>1, <3>1 DEF RowInv
      <4>2. row'[j] = Unsent /\ row'[j] # NoRow /\ ~is_terminal(row[j])
            /\ row[j].attempts = 0 /\ row'[j].attempts = 0 /\ row[j].hash = None
        BY <1>1, <2>2, <3>1 DEF RowInv, is_terminal, NoRow, Unsent
      <4>3. QED
        BY <3>8, <4>1, <4>2 DEF Kept, KeepsHistory
    <3>10. QED
      BY <3>3, <3>6, <3>7, <3>9 DEF RelayInv
  <2>3. QED
    BY <2>1, <2>2
<1>3. CASE Start
  <2>1. row' = recover_inflight_jobs /\ UNCHANGED <<txs, base, served>> /\ Idle
    BY <1>3, SMTT(30) DEF Start
  <2>2. ASSUME NEW j \in Jobs
        PROVE  /\ row'[j] = NoRow \/ RowOn(txs', j, row'[j])
               /\ row[j] # NoRow => row'[j] # NoRow
               /\ is_terminal(row[j]) => row'[j] = row[j]
               /\ row'[j].attempts >= row[j].attempts
               /\ Known(row'[j]) = Known(row[j]) /\ row'[j].hash = row[j].hash
    <3>1. CASE \/ row[j].status = "sending"
               \/ row[j].status = "submitted" /\ row[j].hash = None
      <4>1. row[j] # NoRow
        BY <3>1 DEF NoRow, Unsent
      <4>2. RowOn(txs, j, row[j])
        BY <1>1, <4>1 DEF RowInv
      <4>3. row'[j] = [row[j] EXCEPT !.status = "queued", !.due = 0]
        BY <2>1, <3>1, ZenonT(30) DEF recover_inflight_jobs
      <4>4. row[j] \in Row
        BY <4>2 DEF RowOn
      <4> DEFINE d == 0
      <4>5. d \in Int
        OBVIOUS
      <4>6. row'[j] = [row[j] EXCEPT !.status = "queued", !.due = d]
        BY <4>3
      <4> HIDE DEF d
      <4>7. /\ row'[j] \in Row /\ row'[j].status = "queued"
            /\ row'[j].attempts = row[j].attempts /\ row'[j].hash = row[j].hash
            /\ row'[j].nonce = row[j].nonce /\ row'[j].prev = row[j].prev
        BY <4>4, <4>5, <4>6, ZenonT(30) DEF Row
      <4>8. RowOn(txs, j, row'[j])
        BY <3>1, <4>2, <4>7 DEF RowOn, Live
      <4>9. row[j].attempts \in Nat
        BY <4>4 DEF Row
      <4>10. row'[j] # NoRow /\ ~is_terminal(row[j])
        BY <3>1, <4>7 DEF is_terminal, NoRow, Unsent
      <4>11. Known(row'[j]) = Known(row[j]) /\ txs' = txs
        BY <2>1, <4>7, SMTT(30) DEF Known
      <4>12. QED
        BY <4>7, <4>8, <4>9, <4>10, <4>11
    <3>2. CASE ~(\/ row[j].status = "sending"
                 \/ row[j].status = "submitted" /\ row[j].hash = None)
      <4>1. row'[j] = row[j]
        BY <2>1, <3>2, Zenon DEF recover_inflight_jobs
      <4>2. row[j].attempts \in Nat
        BY <1>1 DEF RowInv, RowOn, Row, NoRow, Unsent
      <4>3. QED
        BY <1>1, <2>1, <4>1, <4>2 DEF RowInv
    <3>3. QED
      BY <3>1, <3>2, SMTT(30)
  <2>3. DOMAIN row' = Jobs
    BY <2>1, ZenonT(30) DEF recover_inflight_jobs
  <2>4. RowInv' /\ Kept
    BY <2>2, <2>3 DEF RowInv, Kept, KeepsHistory
  <2>5. NodeInv'
    BY <1>1, <2>1 DEF NodeInv
  <2>6. QED
    BY <2>1, <2>4, <2>5, IdleHand DEF RelayInv
<1>4. CASE PassFails
  BY <1>4, DropsHand DEF PassFails, Idle
<1>5. CASE Crash
  BY <1>5, DropsHand DEF Crash
<1>6. CASE Tick
  <2>1. /\ row' = [j \in Jobs |->
                 IF Live(row[j])
                 THEN [row[j] EXCEPT
                         !.due = Max2(@ - 1, -MaxLate),
                         !.age = IF @ = Never THEN Never ELSE Min2(@ + 1, MaxTime)]
                 ELSE row[j]]
        /\ UNCHANGED <<phase, id, hand, use, offer, got, txs, base, served>>
    BY <1>6, Zenon DEF Tick
  <2>2. lapse' \in Nat
    <3>1. lapse \in Nat /\ (lapse' = lapse \/ lapse' = lapse + 1)
      BY <1>1, <1>6, ZenonT(30) DEF Tick, HandInv
    <3>2. QED
      BY <3>1
  <2>3. ASSUME NEW j \in Jobs
        PROVE  /\ row'[j] = NoRow \/ RowOn(txs', j, row'[j])
               /\ row[j] # NoRow => row'[j] # NoRow
               /\ is_terminal(row[j]) => row'[j] = row[j]
               /\ row'[j].attempts >= row[j].attempts
               /\ row'[j].attempts = row[j].attempts /\ row'[j].hash = row[j].hash
               /\ row'[j].prev = row[j].prev
               /\ Live(row[j]) => Live(row'[j])
    <3>1. CASE Live(row[j])
      <4>1. row[j] # NoRow
        BY <3>1, SMTT(30) DEF NoRow, Unsent, Live
      <4>2. RowOn(txs, j, row[j]) /\ row[j] \in Row
        BY <1>1, <4>1, SMTT(30) DEF RowInv, RowOn
      <4> DEFINE d == Max2(row[j].due - 1, -MaxLate)
                 a == IF row[j].age = Never THEN Never ELSE Min2(row[j].age + 1, MaxTime)
      <4>3. d \in Int /\ a \in Int
        BY <4>2, SMTT(30) DEF Clock, Row, Never, Min2, Max2
      <4>4. row'[j] = [row[j] EXCEPT !.due = d, !.age = a]
        BY <2>1, <3>1, Zenon
      <4> HIDE DEF d, a
      <4>5. /\ row'[j] \in Row /\ row'[j].status = row[j].status
            /\ row'[j].attempts = row[j].attempts /\ row'[j].hash = row[j].hash
            /\ row'[j].nonce = row[j].nonce /\ row'[j].prev = row[j].prev
        BY <4>2, <4>3, <4>4, ZenonT(30) DEF Row
      <4>6. RowOn(txs, j, row'[j]) /\ Live(row'[j])
        BY <3>1, <4>2, <4>5, ZenonT(30) DEF RowOn, Live
      <4>7. row[j].attempts \in Nat
        BY <4>2 DEF Row
      <4>8. txs' = txs
        BY <2>1, Zenon
      <4>9. QED
        BY <3>1, <4>5, <4>6, <4>7, <4>8 DEF is_terminal, Live, NoRow, Unsent
    <3>2. CASE ~Live(row[j])
      <4>1. row'[j] = row[j] /\ txs' = txs
        BY <2>1, <3>2, Zenon
      <4>2. row[j].attempts \in Nat
        BY <1>1 DEF RowInv, RowOn, Row, NoRow, Unsent
      <4>3. QED
        BY <1>1, <3>2, <4>1, <4>2 DEF RowInv
    <3>3. QED
      BY <3>1, <3>2
  <2>4. DOMAIN row' = Jobs
    BY <2>1, Zenon
  <2>5. RowInv' /\ Kept
    BY <2>3, <2>4 DEF RowInv, Kept, KeepsHistory, Known
  <2>6. HandInv'
    <3>1. id \in Jobs => /\ row'[id].attempts = row[id].attempts
                         /\ row'[id].hash = row[id].hash /\ row'[id].prev = row[id].prev
                         /\ Live(row[id]) => Live(row'[id])
      BY <2>3
    <3>2. UNCHANGED <<phase, id, hand, use, offer, got, txs>>
      BY <2>1, Zenon
    <3>3. QED
      BY <1>1, <2>2, <3>1, <3>2, ZenonT(30) DEF HandInv
  <2>7. NodeInv'
    BY <1>1, <2>1, ZenonT(30) DEF NodeInv
  <2>8. QED
    BY <2>5, <2>6, <2>7 DEF RelayInv
<1>7. QED
  BY <1>2, <1>3, <1>4, <1>5, <1>6

\* The rows SaveSubmitted and SaveBumped write.
Submitted(h, g, u) ==
    [h EXCEPT !.status = "submitted", !.hash = g, !.nonce = u, !.age = 0, !.due = Poll,
              !.bumps = 0]
Bumped(h, g) ==
    [h EXCEPT !.prev = Append(h.prev, h.hash), !.hash = g, !.bumps = h.bumps + 1,
              !.due = Poll]

LEMMA SubmittedRow ==
    ASSUME NEW h \in Row, NEW g \in Nat, NEW u \in Nat, Poll \in Nat
    PROVE  /\ Submitted(h, g, u) \in Row /\ Submitted(h, g, u).status = "submitted"
           /\ Submitted(h, g, u).hash = g /\ Submitted(h, g, u).nonce = u
           /\ Submitted(h, g, u).attempts = h.attempts /\ Submitted(h, g, u).prev = h.prev
<1> DEFINE d == 0
           f == [h EXCEPT !.status = "submitted", !.hash = g, !.nonce = u]
           r == [f EXCEPT !.age = d, !.due = Poll, !.bumps = d]
<1>1. d \in Nat /\ d \in Int /\ Poll \in Int /\ u \in Int
  OBVIOUS
<1>2. Submitted(h, g, u) = r
  BY DEF Submitted
<1> HIDE DEF d
<1>3. f \in Row
  BY <1>1, Zenon DEF Row
<1>4. f.status = "submitted" /\ f.hash = g /\ f.nonce = u
      /\ f.attempts = h.attempts /\ f.prev = h.prev
  BY <1>1 DEF Row
<1> HIDE DEF f
<1>5. r \in Row
  BY <1>1, <1>3, Zenon DEF Row
<1>6. r.status = f.status /\ r.hash = f.hash /\ r.nonce = f.nonce
      /\ r.attempts = f.attempts /\ r.prev = f.prev
  BY <1>1, <1>3 DEF Row
<1> HIDE DEF r
<1>7. QED
  BY <1>2, <1>4, <1>5, <1>6

LEMMA FoundRow ==
    ASSUME NEW h \in Row, NEW g \in Nat
    PROVE  /\ [h EXCEPT !.hash = g, !.status = "confirmed"] \in Row
           /\ [h EXCEPT !.hash = g, !.status = "confirmed"].status = "confirmed"
           /\ [h EXCEPT !.hash = g, !.status = "confirmed"].attempts = h.attempts
           /\ [h EXCEPT !.hash = g, !.status = "confirmed"].hash = g
           /\ [h EXCEPT !.hash = g, !.status = "confirmed"].prev = h.prev
BY Zenon DEF Row

LEMMA BumpedRow ==
    ASSUME NEW h \in Row, NEW g \in Nat, Poll \in Nat
    PROVE  /\ Bumped(h, g) \in Row /\ Bumped(h, g).status = h.status
           /\ Bumped(h, g).hash = g /\ Bumped(h, g).nonce = h.nonce
           /\ Bumped(h, g).attempts = h.attempts
           /\ Bumped(h, g).prev = Append(h.prev, h.hash)
<1> DEFINE p == Append(h.prev, h.hash)
           b == h.bumps + 1
           f == [h EXCEPT !.prev = p, !.hash = g]
           r == [f EXCEPT !.bumps = b, !.due = Poll]
<1>1. h.prev \in Seq(Nat) /\ h.hash \in Nat /\ h.bumps \in Nat
  BY DEF Row
<1>2. p \in Seq(Nat) /\ b \in Nat /\ Poll \in Int
  BY <1>1
<1>3. Bumped(h, g) = r
  BY DEF Bumped
<1> HIDE DEF p, b
<1>4. f \in Row
  BY <1>2, Zenon DEF Row
<1>5. f.status = h.status /\ f.hash = g /\ f.nonce = h.nonce
      /\ f.attempts = h.attempts /\ f.prev = p
  BY <1>2 DEF Row
<1> HIDE DEF f
<1>6. r \in Row
  BY <1>2, <1>4, Zenon DEF Row
<1>7. r.status = f.status /\ r.hash = f.hash /\ r.nonce = f.nonce
      /\ r.attempts = f.attempts /\ r.prev = f.prev
  BY <1>2, <1>4 DEF Row
<1> HIDE DEF r
<1>8. QED
  BY <1>3, <1>5, <1>6, <1>7 DEF p

\* A step inside a pass that changes neither the row nor the node.
LEMMA PassGoesOn ==
    ASSUME RelayInv, phase \in Sending \cup Polling,
           UNCHANGED <<row, id, hand, lapse, txs, base, served>>,
           phase' \in Sending \cup Polling,
           phase \in Sending <=> phase' \in Sending,
           phase' \notin {"submit", "sent", "bump", "bumped"}
    PROVE  RelayInv' /\ Kept
<1>1. RowInv' /\ Kept
  BY RowsStay, LaterSame, SMTT(30) DEF RelayInv
<1>2. NodeInv'
  BY SMTT(30) DEF RelayInv, NodeInv
<1>3. HandInv'
  BY DEF RelayInv, HandInv, Sending, Polling
<1>4. QED
  BY <1>1, <1>2, <1>3 DEF RelayInv

\* process_due_job and the start of a submission.
LEMMA SendSteps ==
    ASSUME Clock, RelayInv,
           \/ Pick \/ MarkSending
           \/ AskNonce /\ get_next_nonce \in Nat /\ At(txs, get_next_nonce) = {}
    PROVE  RelayInv' /\ Kept
<1> USE DEF nodeVars, dbVars
<1>1. CASE Pick
  <2>1. PICK j \in Jobs : next_due_job(j) /\ id' = j /\ hand' = row[j]
                          /\ phase' = IF row[j].hash # None THEN "poll" ELSE "send"
    BY <1>1 DEF Pick
  <2>2. lapse' = 0 /\ UNCHANGED <<row, txs, base, served>>
    BY <1>1 DEF Pick
  <2>3. Live(row[j])
    BY <2>1 DEF next_due_job, DueJobs
  <2>4. row[j] # NoRow
    BY <2>3 DEF Live, NoRow, Unsent
  <2>5. RowOn(txs, j, row[j])
    BY <2>4, SMTT(30) DEF RelayInv, RowInv
  <2>6. HandInv'
    BY <2>1, <2>2, <2>3, <2>5 DEF HandInv, Sending, Polling
  <2>7. RowInv' /\ Kept
    BY <2>2, RowsStay, LaterSame, SMTT(30) DEF RelayInv
  <2>8. NodeInv'
    BY <2>2 DEF RelayInv, NodeInv
  <2>9. QED
    BY <2>6, <2>7, <2>8 DEF RelayInv
<1>2. CASE MarkSending
  <2>1. phase = "send" /\ phase \in Sending /\ phase' = "nonce"
        /\ UNCHANGED <<id, lapse, txs, base, served>>
    BY <1>2 DEF MarkSending, Sending
  <2>2. hand' = [hand EXCEPT !.status = "sending", !.attempts = @ + 1]
        /\ row' = [row EXCEPT ![id] = Stored(hand', lapse)]
    BY <1>2 DEF MarkSending, put_job, Stored
  <2>3. /\ id \in Jobs /\ hand \in Row /\ RowOn(txs, id, hand) /\ Live(row[id])
        /\ lapse \in Nat /\ hand.attempts = row[id].attempts
        /\ hand.prev = row[id].prev /\ hand.hash = row[id].hash /\ hand.hash = None
    BY <2>1, InHand, HashInHand
  <2>4. /\ hand' \in Row /\ hand'.status = "sending" /\ hand'.attempts = hand.attempts + 1
        /\ hand'.hash = None /\ hand'.prev = hand.prev
    <3> DEFINE a == hand.attempts + 1
    <3>1. hand \in Row /\ a \in Nat
      BY <2>3 DEF Row
    <3>2. hand' = [hand EXCEPT !.status = "sending", !.attempts = a]
      BY <2>2
    <3> HIDE DEF a
    <3>3. /\ hand' \in Row /\ hand'.status = "sending" /\ hand'.attempts = a
          /\ hand'.hash = hand.hash /\ hand'.prev = hand.prev
      BY <3>1, <3>2, ZenonT(30) DEF Row
    <3>4. QED
      BY <2>3, <3>3, SMTT(30) DEF a
  <2>5. RowOn(txs', id, hand') /\ Live(hand')
    BY <2>1, <2>3, <2>4, ZenonT(30) DEF RowOn, Live
  <2>6. Writes(hand')
    BY <2>3, <2>4, <2>5, SMTT(30) DEF Writes, Row
  <2>7. RowInv' /\ Kept
    BY <2>1, <2>2, <2>3, <2>6, PutKeeps, LaterSame, Zenon DEF RelayInv
  <2>8. /\ row'[id] = Stored(hand', lapse)
        /\ Stored(hand', lapse).status = "sending" /\ Stored(hand', lapse).attempts = hand'.attempts
        /\ Stored(hand', lapse).hash = hand'.hash /\ Stored(hand', lapse).prev = hand'.prev
    BY <2>2, <2>3, <2>4, StoredFields, ZenonT(30) DEF RelayInv, RowInv
  <2>9. HandInv'
    BY <2>1, <2>3, <2>4, <2>5, <2>8, ZenonT(30) DEF HandInv, Sending, Polling, Live
  <2>10. NodeInv'
    BY <2>1 DEF RelayInv, NodeInv
  <2>11. QED
    BY <2>7, <2>9, <2>10 DEF RelayInv
<1>3. CASE AskNonce /\ get_next_nonce \in Nat /\ At(txs, get_next_nonce) = {}
  <2>1. phase = "nonce" /\ use' = get_next_nonce /\ phase' = "submit"
        /\ UNCHANGED <<row, id, hand, lapse, txs, base, served>>
    BY <1>3 DEF AskNonce
  <2>2. use' \in Nat /\ At(txs, use') = {}
    BY <1>3, <2>1, ZenonT(30)
  <2>3. HandInv'
    BY <2>1, <2>2, Zenon DEF RelayInv, HandInv, Sending, Polling
  <2>4. RowInv' /\ Kept
    BY <2>1, RowsStay, LaterSame, SMTT(30) DEF RelayInv
  <2>5. NodeInv'
    BY <2>1, Zenon DEF RelayInv, NodeInv
  <2>6. QED
    BY <2>3, <2>4, <2>5 DEF RelayInv
<1>4. QED
  BY <1>1, <1>2, <1>3

\* Submitting: the nonce asked for is free, so nothing is replaced.
LEMMA SubmitSteps ==
    ASSUME load_config, Clock, RelayInv, SubmitPayload \/ SubmitFails \/ SaveSubmitted
    PROVE  RelayInv' /\ Kept
<1> USE DEF nodeVars, dbVars
<1>1. CASE SubmitPayload
  <2>1. phase = "submit" /\ got' = Len(txs) + 1 /\ phase' = "sent"
        /\ UNCHANGED <<row, id, hand, use, lapse, base, served>>
    BY <1>1, SMTT(30) DEF SubmitPayload
  <2>2. /\ NodeInv' /\ Later(txs, txs')
        /\ DOMAIN txs' = DOMAIN txs \cup {Len(txs) + 1}
        /\ txs'[Len(txs) + 1].job = id /\ txs'[Len(txs) + 1].nonce = use
    BY <1>1, <2>1, FirstPosted, SMTT(30) DEF SubmitPayload
  <2>3. RowInv' /\ Kept
    BY <2>1, <2>2, RowsStay, SMTT(30) DEF RelayInv
  <2>4. RowOn(txs', id, hand)
    BY <2>1, <2>2, RowLater DEF RelayInv, HandInv, Sending
  <2>5. HandInv'
    BY <2>1, <2>2, <2>4, Zenon DEF RelayInv, HandInv, Sending, Polling
  <2>6. QED
    BY <2>2, <2>3, <2>5, SMTT(30) DEF RelayInv
<1>2. CASE SubmitFails
  <2>1. /\ phase = "submit" /\ phase \in Sending /\ Idle /\ base' = base /\ served' = served
        /\ row' = [row EXCEPT ![id] = Stored(retry_or_fail(hand), lapse)]
    BY <1>2 DEF SubmitFails, put_job, Stored, Sending
  <2>2. NodeInv' /\ Later(txs, txs')
    <3>1. CASE UNCHANGED txs
      BY <2>1, <3>1, LaterSame, ZenonT(30) DEF RelayInv, NodeInv
    <3>2. CASE \E net \in NetFees : /\ Accepts(use, FirstFees(net))
                                    /\ txs' = Posted(id, use, FirstFees(net))
      BY <2>1, <3>2, FirstPosted
    <3>3. QED
      BY <1>2, <3>1, <3>2 DEF SubmitFails
  <2>3. hand \in Row
    BY <2>1, InHand, SMTT(30)
  <2>4. Writes(retry_or_fail(hand))
    BY <2>1, <2>2, <2>3, RetryFields, CopyWrites
  <2>5. QED
    BY <2>1, <2>2, <2>4, PassEnds, Zenon
<1>3. CASE SaveSubmitted
  <2> DEFINE r == Submitted(hand, got, use)
  <2>1. /\ phase = "sent" /\ phase \in Sending /\ Idle /\ UNCHANGED <<txs, base, served>>
        /\ row' = [row EXCEPT ![id] = Stored(r, lapse)]
    BY <1>3, SMTT(30) DEF SaveSubmitted, Finish, put_job, Stored, Sending, Submitted
  <2>2. /\ hand \in Row /\ RowOn(txs, id, hand) /\ hand.attempts = row[id].attempts
        /\ hand.hash = None /\ row[id].hash = None
        /\ use \in Nat /\ got \in DOMAIN txs /\ txs[got].job = id /\ txs[got].nonce = use
    BY <2>1, InHand, SentHand
  <2>3. hand \in Row /\ got \in Nat /\ use \in Nat /\ Poll \in Nat
    BY <2>2, HashesTyped, PollTyped, ZenonT(30)
  <2>4. /\ r \in Row /\ r.status = "submitted" /\ r.hash = got /\ r.nonce = use
        /\ r.attempts = hand.attempts /\ r.prev = hand.prev
    BY <2>3, SubmittedRow, SMTT(30)
  <2> HIDE DEF r
  <2>5. RowOn(txs', id, r)
    BY <2>1, <2>2, <2>4, SMTT(30) DEF RowOn
  <2>6. Writes(r)
    BY <2>2, <2>4, <2>5, SMTT(30) DEF Writes, Row
  <2>7. NodeInv' /\ Later(txs, txs')
    BY <2>1, LaterSame DEF RelayInv, NodeInv
  <2>8. QED
    BY <2>1, <2>6, <2>7, PassEnds, Zenon
<1>4. QED
  BY <1>1, <1>2, <1>3

\* Polling a receipt.
LEMMA PollSteps ==
    ASSUME load_config, Clock, RelayInv,
           CheckTimeout \/ PollReceipt \/ PollFails \/ NoReceipt
    PROVE  RelayInv' /\ Kept
<1> USE DEF nodeVars, dbVars
<1>1. ASSUME phase \in Polling, UNCHANGED <<txs, base, served>>, Idle, NEW r, Writes(r),
             row' = [row EXCEPT ![id] = Stored(r, lapse)]
      PROVE  RelayInv' /\ Kept
  <2>1. NodeInv' /\ Later(txs, txs')
    BY <1>1, LaterSame DEF RelayInv, NodeInv
  <2>2. QED
    BY <1>1, <2>1, PassEnds, ZenonT(30)
<1>2. CASE CheckTimeout
  <2>1. phase = "poll" /\ phase \in Polling
    BY <1>2 DEF CheckTimeout, Polling
  <2>2. hand \in Row /\ Live(hand)
    BY <2>1, InHand
  <2>3. CASE Timeout > 0 /\ hand.age >= Timeout
    <3> DEFINE r == [hand EXCEPT !.status = "failed"]
    <3>1. /\ Idle /\ UNCHANGED <<txs, base, served>>
          /\ row' = [row EXCEPT ![id] = Stored(r, lapse)]
      BY <1>2, <2>3 DEF CheckTimeout, Finish, put_job, Stored
    <3>2. /\ r \in Row /\ r.status = "failed" /\ r.attempts = hand.attempts
          /\ r.hash = hand.hash /\ r.nonce = hand.nonce /\ r.prev = hand.prev
      BY <2>2, SMTT(30) DEF Row
    <3> HIDE DEF r
    <3>3. Writes(r)
      BY <2>1, <3>1, <3>2, CopyWrites, LaterSame
    <3>4. QED
      BY <1>1, <2>1, <3>1, <3>3, Zenon
  <2>4. CASE ~(Timeout > 0 /\ hand.age >= Timeout)
    <3>1. /\ phase' = "receipt" /\ UNCHANGED <<id, hand, lapse, txs, base, served>>
          /\ row' = [row EXCEPT ![id] = Stored(hand, lapse)]
      BY <1>2, <2>4 DEF CheckTimeout, put_job, Stored
    <3>2. hand.status \notin {"none", "confirmed"}
      BY <2>2 DEF Live
    <3>3. Later(txs, txs') /\ Writes(hand)
      BY <2>1, <2>2, <3>1, <3>2, CopyWrites, LaterSame, SMTT(30)
    <3>4. RowInv /\ id \in Jobs /\ Live(row[id]) /\ lapse \in Nat /\ RowOn(txs, id, hand)
          /\ hand.hash # None
      BY <2>1, InHand, HashInHand DEF RelayInv
    <3>5. RowInv' /\ Kept
      BY <3>1, <3>3, <3>4, PutKeeps, ZenonT(30)
    <3>6. /\ row'[id] = Stored(hand, lapse)
          /\ Stored(hand, lapse).status = hand.status
          /\ Stored(hand, lapse).attempts = hand.attempts
          /\ Stored(hand, lapse).hash = hand.hash /\ Stored(hand, lapse).prev = hand.prev
      BY <2>2, <3>1, <3>4, StoredFields, SMTT(30) DEF RowInv
    <3>7. HandInv'
      BY <2>2, <3>1, <3>4, <3>6, Zenon DEF HandInv, Sending, Polling, Live
    <3>8. NodeInv'
      BY <3>1, Zenon DEF RelayInv, NodeInv
    <3>9. QED
      BY <3>5, <3>7, <3>8 DEF RelayInv
  <2>5. QED
    BY <2>3, <2>4
<1>3. CASE PollReceipt
  <2> DEFINE s == IF txs[hand.hash].ok THEN "confirmed" ELSE "failed"
             r == [hand EXCEPT !.status = s]
  <2>1. /\ phase = "receipt" /\ phase \in Polling /\ hand.hash \in served
        /\ Idle /\ UNCHANGED <<txs, base, served>>
        /\ row' = [row EXCEPT ![id] = Stored(r, lapse)]
    BY <1>3 DEF PollReceipt, Finish, put_job, Stored, Polling
  <2>2. /\ hand \in Row /\ RowOn(txs, id, hand) /\ hand.attempts = row[id].attempts
        /\ hand.hash = row[id].hash /\ hand.prev = row[id].prev /\ hand.hash # None
    BY <2>1, InHand, HashInHand
  <2>3. s \in {"confirmed", "failed"} /\ (s = "confirmed" => txs[hand.hash].ok)
        /\ txs[hand.hash].st = "mined"
    BY <2>1 DEF RelayInv, NodeInv
  <2> HIDE DEF s
  <2>4. /\ r \in Row /\ r.status = s /\ r.attempts = hand.attempts
        /\ r.hash = hand.hash /\ r.nonce = hand.nonce /\ r.prev = hand.prev
    BY <2>2, <2>3, SMTT(30) DEF Row
  <2> HIDE DEF r
  <2>5. RowOn(txs', id, r)
    BY <2>1, <2>2, <2>3, <2>4, ZenonT(30) DEF RowOn, Live
  <2>6. Writes(r)
    BY <2>2, <2>4, <2>5, SMTT(30) DEF Writes, Known, Row
  <2>7. QED
    BY <1>1, <2>1, <2>6, Zenon
<1>4. CASE PollFails
  <2>1. /\ phase = "receipt" /\ phase \in Polling /\ Idle /\ UNCHANGED <<txs, base, served>>
        /\ row' = [row EXCEPT ![id] = Stored(retry_or_fail(hand), lapse)]
    BY <1>4, SMTT(30) DEF PollFails, schedule_retry_or_fail, Finish, put_job, Stored, Polling
  <2>2. hand \in Row
    BY <2>1, InHand, SMTT(30)
  <2>3. Writes(retry_or_fail(hand))
    BY <2>1, <2>2, RetryFields, CopyWrites, LaterSame
  <2>4. QED
    BY <1>1, <2>1, <2>3, Zenon
<1>5. CASE NoReceipt
  <2>1. phase = "receipt" /\ phase \in Polling
    BY <1>5, ZenonT(30) DEF NoReceipt, Polling
  <2>2. CASE BumpDue
    <3>1. phase' = "fees" /\ UNCHANGED <<row, id, hand, lapse, txs, base, served>>
      BY <1>5, <2>2 DEF NoReceipt
    <3>2. QED
      BY <2>1, <3>1, PassGoesOn, SMTT(30) DEF Sending, Polling
  <2>3. CASE ~BumpDue
    <3> DEFINE r == [hand EXCEPT !.status = "submitted", !.due = Poll]
    <3>1. /\ Idle /\ UNCHANGED <<txs, base, served>>
          /\ row' = [row EXCEPT ![id] = Stored(r, lapse)]
      BY <1>5, <2>3, SMTT(30) DEF NoReceipt, KeepPolling, Finish, put_job, Stored
    <3>2. hand \in Row /\ Poll \in Int
      BY <2>1, InHand DEF load_config
    <3>3. /\ r \in Row /\ r.status = "submitted" /\ r.attempts = hand.attempts
          /\ r.hash = hand.hash /\ r.nonce = hand.nonce /\ r.prev = hand.prev
      BY <3>2, ZenonT(30) DEF Row
    <3> HIDE DEF r
    <3>4. Writes(r)
      BY <2>1, <3>1, <3>3, CopyWrites, LaterSame
    <3>5. QED
      BY <1>1, <2>1, <3>1, <3>4, ZenonT(30)
  <2>4. QED
    BY <2>2, <2>3, SMTT(30)
<1>6. QED
  BY <1>2, <1>3, <1>4, <1>5

\* Looking the transaction up for a fee bump.  One that is in the pool is the
\* only one at its nonce; the nonce of a mined one takes no other.
LEMMA AskFeesStep ==
    ASSUME load_config, Clock, RelayInv, AskFees
    PROVE  RelayInv' /\ Kept
<1> USE DEF nodeVars, dbVars
<1>1. phase = "fees" /\ phase \in Polling
      /\ UNCHANGED <<row, id, hand, lapse, txs, base, served>>
  BY DEF AskFees, Polling
<1>2. CASE txs[hand.hash].st = "out"
  <2>1. phase' = "gone"
    BY <1>2 DEF AskFees
  <2>2. QED
    BY <1>1, <2>1, PassGoesOn, SMTT(30) DEF Sending, Polling
<1>3. CASE txs[hand.hash].st # "out"
  <2>1. PICK net \in NetFees : offer' = bumped_fees(txs[hand.hash].fees, net)
    BY <1>3, SMTT(30) DEF AskFees
  <2>2. phase' = "bump"
    BY <1>3, SMTT(30) DEF AskFees
  <2>3. /\ id \in Jobs /\ RowOn(txs, id, hand) /\ Live(hand)
        /\ hand.hash # None /\ hand.hash \in DOMAIN txs /\ txs[hand.hash].job = id
        /\ txs[hand.hash].nonce = hand.nonce
    BY <1>1, InHand, HashInHand DEF RowOn
  <2>4. txs[hand.hash] \in Tx /\ base \in Nat
    BY <2>3, HashesTyped, ZenonT(30)
  <2>5. offer' \in Fees /\ Doubles(offer', txs[hand.hash].fees)
    BY <2>1, <2>4, BumpedFees DEF Tx
  <2>6. txs[hand.hash].st \in {"pool", "mined"} /\ txs[hand.hash].nonce \in Nat
    BY <1>3, <2>4, Zenon DEF Tx
  <2>7. \A h \in At(txs, hand.nonce) : txs[h].job = id
    <3> SUFFICES ASSUME NEW h \in At(txs, hand.nonce) PROVE txs[h].job = id
      BY SMTT(30)
    <3>1. h \in DOMAIN txs /\ txs[h].st = "pool" /\ txs[h].nonce = hand.nonce
      BY SMTT(30) DEF At
    <3>2. OnePerNonce(txs, base)
      BY SMTT(30) DEF RelayInv, NodeInv
    <3>3. CASE txs[hand.hash].st = "pool"
      <4>1. h = hand.hash
        BY <2>3, <3>1, <3>2, <3>3, SMTT(30) DEF OnePerNonce
      <4>2. QED
        BY <2>3, <4>1, SMTT(30)
    <3>4. CASE txs[hand.hash].st = "mined"
      <4>1. txs[hand.hash].nonce < base /\ txs[h].nonce >= base
        BY <2>3, <3>1, <3>2, <3>4 DEF OnePerNonce
      <4>2. QED
        BY <2>3, <2>4, <2>6, <3>1, <4>1, SMTT(30)
    <3>5. QED
      BY <2>6, <3>3, <3>4, Zenon
  <2>8. HandInv'
    BY <1>1, <2>2, <2>5, <2>7, ZenonT(30) DEF RelayInv, HandInv, Sending, Polling
  <2>9. RowInv' /\ Kept
    BY <1>1, RowsStay, LaterSame, SMTT(30) DEF RelayInv
  <2>10. NodeInv'
    BY <1>1 DEF RelayInv, NodeInv
  <2>11. QED
    BY <2>8, <2>9, <2>10, SMTT(30) DEF RelayInv
<1>4. QED
  BY <1>2, <1>3, SMTT(30)

\* The replacement, and the scan for an earlier transaction that was mined.
LEMMA BumpSteps ==
    ASSUME load_config, Clock, RelayInv,
           SubmitBump \/ BumpFails \/ SaveBumped \/ FindReplaced \/ NoneFound \/ Dropped
    PROVE  RelayInv' /\ Kept
<1> USE DEF nodeVars, dbVars
<1>1. ASSUME phase \in Polling, UNCHANGED <<txs, base, served>>, Idle, NEW r, Writes(r),
             row' = [row EXCEPT ![id] = Stored(r, lapse)]
      PROVE  RelayInv' /\ Kept
  <2>1. NodeInv' /\ Later(txs, txs')
    BY <1>1, LaterSame, SMTT(30) DEF RelayInv, NodeInv
  <2>2. QED
    BY <1>1, <2>1, PassEnds, ZenonT(30)
<1>2. CASE SubmitBump
  <2>1. phase = "bump" /\ got' = Len(txs) + 1 /\ phase' = "bumped"
        /\ UNCHANGED <<row, id, hand, lapse, base, served>>
    BY <1>2, SMTT(30) DEF SubmitBump
  <2>2. /\ NodeInv' /\ Later(txs, txs')
        /\ DOMAIN txs' = DOMAIN txs \cup {Len(txs) + 1}
        /\ txs'[Len(txs) + 1].job = id /\ txs'[Len(txs) + 1].nonce = hand.nonce
    BY <1>2, <2>1, BumpPosted, ZenonT(30) DEF SubmitBump
  <2>3. RowInv' /\ Kept
    BY <2>1, <2>2, RowsStay, SMTT(30) DEF RelayInv
  <2>4. RowOn(txs', id, hand)
    BY <2>1, <2>2, InHand, RowLater, ZenonT(30) DEF Polling
  <2>5. HandInv'
    BY <2>1, <2>2, <2>4, Zenon DEF RelayInv, HandInv, Sending, Polling
  <2>6. QED
    BY <2>2, <2>3, <2>5, SMTT(30) DEF RelayInv
<1>3. CASE BumpFails
  <2> DEFINE r == [hand EXCEPT !.status = "submitted", !.due = Poll]
  <2>1. /\ phase \in {"fees", "bump"} /\ phase \in Polling /\ Idle
        /\ base' = base /\ served' = served
        /\ row' = [row EXCEPT ![id] = Stored(r, lapse)]
    BY <1>3 DEF BumpFails, put_job, Stored, Polling
  <2>2. NodeInv' /\ Later(txs, txs')
    <3>1. CASE UNCHANGED txs
      BY <2>1, <3>1, LaterSame DEF RelayInv, NodeInv
    <3>2. CASE phase = "bump" /\ Accepts(hand.nonce, offer)
               /\ txs' = Posted(id, hand.nonce, offer)
      BY <2>1, <3>2, BumpPosted
    <3>3. QED
      BY <1>3, <3>1, <3>2 DEF BumpFails
  <2>3. hand \in Row /\ Poll \in Int
    BY <2>1, InHand DEF load_config
  <2>4. /\ r \in Row /\ r.status = "submitted" /\ r.attempts = hand.attempts
        /\ r.hash = hand.hash /\ r.nonce = hand.nonce /\ r.prev = hand.prev
    BY <2>3, Zenon DEF Row
  <2> HIDE DEF r
  <2>5. Writes(r)
    BY <2>1, <2>2, <2>4, CopyWrites, Zenon
  <2>6. QED
    BY <2>1, <2>2, <2>5, PassEnds, Zenon
<1>4. CASE SaveBumped
  <2> DEFINE r == Bumped(hand, got)
  <2>1. /\ phase = "bumped" /\ phase \in Polling /\ Idle /\ UNCHANGED <<txs, base, served>>
        /\ row' = [row EXCEPT ![id] = Stored(r, lapse)]
    BY <1>4, SMTT(30) DEF SaveBumped, Finish, put_job, Stored, Polling, Bumped
  <2>2. /\ hand \in Row /\ RowOn(txs, id, hand) /\ Live(hand)
        /\ hand.attempts = row[id].attempts
        /\ hand.hash = row[id].hash /\ hand.prev = row[id].prev /\ hand.hash # None
        /\ got \in DOMAIN txs /\ txs[got].job = id /\ txs[got].nonce = hand.nonce
    BY <2>1, InHand, BumpedHand, HashInHand
  <2>3. got \in Nat /\ Poll \in Nat /\ hand.prev \in Seq(Nat) /\ hand.hash \in Nat
    <3>1. got \in Nat /\ Poll \in Nat
      BY <2>2, HashesTyped, PollTyped, ZenonT(30)
    <3>2. hand.prev \in Seq(Nat) /\ hand.hash \in Nat
      BY <2>2 DEF Row
    <3>3. QED
      BY <3>1, <3>2
  <2>4. /\ r \in Row /\ r.status = hand.status /\ r.hash = got /\ r.nonce = hand.nonce
        /\ r.attempts = hand.attempts /\ r.prev = Append(hand.prev, hand.hash)
    BY <2>2, <2>3, BumpedRow, ZenonT(30)
  <2> HIDE DEF r
  <2>5. /\ DOMAIN r.prev = DOMAIN hand.prev \cup {Len(hand.prev) + 1}
        /\ \A k \in DOMAIN hand.prev : r.prev[k] = hand.prev[k]
        /\ r.prev[Len(hand.prev) + 1] = hand.hash
    BY <2>3, <2>4, SMTT(30)
  <2>6. hand.hash \in DOMAIN txs /\ txs[hand.hash].job = id
        /\ \A k \in DOMAIN hand.prev : hand.prev[k] \in DOMAIN txs /\ txs[hand.prev[k]].job = id
    BY <2>2 DEF RowOn
  <2>7. RowOn(txs', id, r)
    <3>1. r.status \in {"queued", "sending", "submitted"} /\ got # None
      BY <2>2, <2>4, HashesTyped, SMTT(30) DEF Live
    <3>2. \A k \in DOMAIN r.prev : r.prev[k] \in DOMAIN txs /\ txs[r.prev[k]].job = id
      BY <2>5, <2>6, SMTT(30)
    <3>3. QED
      BY <2>1, <2>2, <2>4, <3>1, <3>2, ZenonT(30) DEF RowOn
  <2>8. Known(row[id]) \subseteq Known(r)
    <3> DEFINE Old(p) == {p[k] : k \in DOMAIN p}
    <3>1. row[id].hash \in Old(r.prev) /\ Old(row[id].prev) \subseteq Old(r.prev)
      BY <2>2, <2>5, SMTT(30)
    <3>2. QED
      BY <3>1, SMTT(30) DEF Known
  <2>9. r.attempts >= row[id].attempts /\ r.hash # None
    <3>1. hand.attempts \in Nat /\ hand.attempts = row[id].attempts
      BY <2>2, SMTT(30) DEF Row
    <3>2. got # None
      BY <2>2, HashesTyped, SMTT(30)
    <3>3. QED
      BY <2>4, <3>1, <3>2, SMTT(30)
  <2>10. Writes(r)
    BY <2>7, <2>8, <2>9 DEF Writes
  <2>11. QED
    BY <1>1, <2>1, <2>10, Zenon
<1>5. CASE FindReplaced
  <2>1. PICK k \in MinedBefore(hand) :
            Finish([hand EXCEPT !.hash = hand.prev[k], !.status = "confirmed"])
    BY <1>5, Zenon DEF FindReplaced
  <2> DEFINE r == [hand EXCEPT !.hash = hand.prev[k], !.status = "confirmed"]
  <2>2. /\ phase = "gone" /\ phase \in Polling /\ Idle /\ UNCHANGED <<txs, base, served>>
        /\ row' = [row EXCEPT ![id] = Stored(r, lapse)]
    BY <1>5, <2>1, Zenon DEF FindReplaced, Finish, put_job, Stored, Polling
  <2>3. hand \in Row /\ RowOn(txs, id, hand) /\ hand.attempts = row[id].attempts
    BY <2>2, InHand, SMTT(30)
  <2>4. hand \in Row
    BY <2>3
  <2>5. k \in DOMAIN hand.prev /\ hand.prev[k] \in served /\ txs[hand.prev[k]].ok
    BY <2>1, SMTT(30) DEF MinedBefore
  <2>6. /\ hand.prev[k] \in DOMAIN txs /\ txs[hand.prev[k]].job = id
        /\ txs[hand.prev[k]].st = "mined" /\ hand.prev[k] \in Nat /\ hand.prev[k] # None
    BY <2>3, <2>5 DEF RowOn, RelayInv, NodeInv, None
  <2>7. /\ r \in Row /\ r.status = "confirmed" /\ r.attempts = hand.attempts
        /\ r.hash = hand.prev[k] /\ r.prev = hand.prev
    BY <2>4, <2>6, FoundRow, ZenonT(30)
  <2> HIDE DEF r
  <2>8. RowOn(txs', id, r)
    BY <2>2, <2>3, <2>5, <2>6, <2>7, Zenon DEF RowOn, Live
  <2>9. Writes(r)
    BY <2>3, <2>6, <2>7, <2>8 DEF Writes, Row
  <2>10. QED
    BY <1>1, <2>2, <2>9, Zenon
<1>6. CASE NoneFound
  <2> DEFINE r == [hand EXCEPT !.bumps = BumpMax, !.due = Poll]
  <2>1. /\ phase = "gone" /\ phase \in Polling /\ Idle /\ UNCHANGED <<txs, base, served>>
        /\ row' = [row EXCEPT ![id] = Stored(r, lapse)]
    BY <1>6 DEF NoneFound, Finish, put_job, Stored, Polling
  <2>2. Live(hand)
    BY <2>1, InHand
  <2>3. hand \in Row /\ Poll \in Nat /\ BumpMax \in Nat
    BY <2>1, InHand DEF load_config
  <2>4. /\ r \in Row /\ r.status = hand.status /\ r.attempts = hand.attempts
        /\ r.hash = hand.hash /\ r.nonce = hand.nonce /\ r.prev = hand.prev
    <3>1. hand \in Row /\ Poll \in Int /\ BumpMax \in Nat
      BY <2>3
    <3>2. r \in Row
      BY <3>1, Zenon DEF Row
    <3>3. /\ r.status = hand.status /\ r.attempts = hand.attempts
          /\ r.hash = hand.hash /\ r.nonce = hand.nonce /\ r.prev = hand.prev
      BY <3>1 DEF Row
    <3>4. QED
      BY <3>2, <3>3
  <2> HIDE DEF r
  <2>5. r.status \notin {"none", "confirmed"}
    BY <2>4, <2>2 DEF Live
  <2>6. Writes(r)
    BY <2>1, <2>4, <2>5, CopyWrites, LaterSame, Zenon
  <2>7. QED
    BY <1>1, <2>1, <2>6, Zenon
<1>7. CASE Dropped
  <2> DEFINE h == [hand EXCEPT !.bumps = BumpMax]
             r == [h EXCEPT !.status = "submitted", !.due = Poll]
  <2>1. /\ phase = "gone" /\ phase \in Polling /\ Idle /\ UNCHANGED <<txs, base, served>>
        /\ row' = [row EXCEPT ![id] = Stored(r, lapse)]
    BY <1>7 DEF Dropped, KeepPolling, Finish, put_job, Stored, Polling
  <2>2. hand \in Row /\ Poll \in Nat /\ BumpMax \in Nat
    BY <2>1, InHand DEF load_config
  <2>3. /\ r \in Row /\ r.status = "submitted" /\ r.attempts = hand.attempts
        /\ r.hash = hand.hash /\ r.nonce = hand.nonce /\ r.prev = hand.prev
    <3>1. /\ h \in Row /\ h.attempts = hand.attempts
          /\ h.hash = hand.hash /\ h.nonce = hand.nonce /\ h.prev = hand.prev
      BY <2>2, Zenon DEF Row
    <3> HIDE DEF h
    <3>2. h \in Row /\ Poll \in Int
      BY <2>2, <3>1
    <3>3. r \in Row
      BY <3>2, Zenon DEF Row
    <3>4. /\ r.status = "submitted" /\ r.attempts = h.attempts
          /\ r.hash = h.hash /\ r.nonce = h.nonce /\ r.prev = h.prev
      BY <3>2 DEF Row
    <3>5. QED
      BY <3>1, <3>3, <3>4
  <2> HIDE DEF r
  <2>4. Writes(r)
    BY <2>1, <2>3, CopyWrites, LaterSame, Zenon
  <2>5. QED
    BY <1>1, <2>1, <2>4, Zenon
<1>8. QED
  BY <1>2, <1>3, <1>4, <1>5, <1>6, <1>7

\* The node's steps inside a pass.
LEMMA NodeKeeps ==
    ASSUME RelayInv, Node
    PROVE  RelayInv' /\ Kept
<1>1. NodeInv' /\ Later(txs, txs') /\ DOMAIN txs' = DOMAIN txs
  BY NodeSteps DEF RelayInv
<1>2. UNCHANGED <<row, phase, id, hand, use, offer, got, lapse>>
  BY Zenon DEF Node, Mine, MineElsewhere, Evict, Serve, dbVars, workVars
<1>3. RowInv' /\ Kept
  BY <1>1, <1>2, RowsStay DEF RelayInv
<1>4. HandInv'
  <2>1. HandInv
    BY SMTT(30) DEF RelayInv
  <2>2. phase \in Sending \cup Polling => RowOn(txs', id, hand)
    BY <1>1, <2>1, RowLater, Zenon DEF HandInv
  <2>3. phase = "submit" => At(txs', use) = {}
    BY <1>1, <2>1, AtLater, ZenonT(30) DEF HandInv
  <2>4. phase = "sent" => got \in DOMAIN txs' /\ txs'[got].job = id /\ txs'[got].nonce = use
    BY <1>1, <2>1, Zenon DEF HandInv, Later
  <2>5. phase = "bumped" =>
            got \in DOMAIN txs' /\ txs'[got].job = id /\ txs'[got].nonce = hand.nonce
    BY <1>1, <2>1, ZenonT(30) DEF HandInv, Later
  <2>6. phase = "bump" => /\ Doubles(offer, txs'[hand.hash].fees)
                          /\ \A h \in At(txs', hand.nonce) : txs'[h].job = id
    <3> SUFFICES ASSUME phase = "bump"
                 PROVE  /\ Doubles(offer, txs'[hand.hash].fees)
                        /\ \A h \in At(txs', hand.nonce) : txs'[h].job = id
      BY SMTT(30)
    <3>1. hand.hash \in DOMAIN txs /\ Doubles(offer, txs[hand.hash].fees)
          /\ \A h \in At(txs, hand.nonce) : txs[h].job = id
      BY <2>1, Zenon DEF HandInv, Polling, RowOn
    <3>2. txs'[hand.hash].fees = txs[hand.hash].fees
      BY <1>1, <3>1, Zenon DEF Later
    <3>3. \A h \in At(txs', hand.nonce) : h \in At(txs, hand.nonce)
      BY <1>1, AtLater, SMTT(30)
    <3>4. \A h \in At(txs, hand.nonce) : txs'[h].job = txs[h].job
      BY <1>1 DEF Later, At
    <3>5. QED
      BY <3>1, <3>2, <3>3, <3>4, SMTT(30)
  <2>7. QED
    BY <1>2, <2>1, <2>2, <2>3, <2>4, <2>5, <2>6, Zenon DEF HandInv
<1>5. QED
  BY <1>1, <1>3, <1>4 DEF RelayInv
=============================================================================
