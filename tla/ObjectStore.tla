----------------------------- MODULE ObjectStore ----------------------------
(***************************************************************************)
(* The driver's object files and their names.  Transaction t spends        *)
(* version t - 1 of an object and creates version t, as a mutating action  *)
(* does.  A file name is a sequence <<base, suffixes>>: the base is a      *)
(* version, for a generated name, or a name a player chose; a suffix is    *)
(* Pending or a number, as in "knife-pending 2.dobj".                      *)
(*                                                                         *)
(* An operation that holds the store lock is a sequence `todo' of file     *)
(* operations, each atomic; a crash may cut it anywhere and tear the file  *)
(* that is being written.  Discarding takes no lock.                       *)
(***************************************************************************)
EXTENDS Naturals, Sequences, FiniteSets, Functions, SequencesExt, TLC

CONSTANTS
    LastTx,       \* transactions 1 .. LastTx
    Customs,      \* names players choose, numbers above LastTx
    MaxCrashes,   \* bound on crashes
    MaxDiscards,  \* bound on discards and imports
    Others        \* what else happens: "list" asks for the membership of objects,
                  \* "delete" drops a record, "share" spends an object elsewhere

Pending == 1
Txs == 1 .. LastTx
Versions == 0 .. LastTx

VARIABLES
    files,     \* the live, spent (nullified) and trash (discarded) directories
    recs,      \* transaction records
    chain,     \* what the chain makes of each transaction
    hold,      \* the input file each proof in progress holds
    todo,      \* the rest of the operation that holds the store lock
    pass,      \* the settlement pass in progress
    cached,    \* reconciled_transactions
    trash,     \* discards and imports in progress
    discards,  \* versions that were ever discarded
    crashes, moves

vars == <<files, recs, chain, hold, todo, pass, cached, trash, discards,
          crashes, moves>>

NoName == <<>>
NoRec == [st |-> "none", input |-> NoName, output |-> NoName, final |-> NoName]
Torn == [obj |-> 0, st |-> "torn"]
NoPass == [at |-> "idle"]

live == files.live
spent == files.spent
Put(dir, n, f) == [m \in DOMAIN dir \cup {n} |-> IF m = n THEN f ELSE dir[m]]
Drop(dir, n) == Restrict(dir, DOMAIN dir \ {n})

Open == {t \in Txs : recs[t].st \in {"recorded", "attempted"}}
Terminal == {t \in Txs : recs[t].st \in {"landed", "expired"}}
locked_inputs == {recs[t].input : t \in Open}
held == {hold[t] : t \in Txs} \ {NoName}
-----------------------------------------------------------------------------
(* Names *)

object_file_name(v) == <<v>>
has_custom_file_name(n, v) == n # object_file_name(v)
store_has_file_kept == DOMAIN files.live \cup DOMAIN files.spent

store_has_file == UNION {DOMAIN files[d] : d \in DOMAIN files}

\* The name itself, or the first numbered one that is free.
unique_file_name(n, taken) ==
    IF n \notin taken THEN n
    ELSE LET free == {k \in 2 .. Cardinality(taken) + 2 : Append(n, k) \notin taken}
         IN  Append(n, CHOOSE k \in free : \A j \in free : k <= j)

pending_file_name(n, taken) == unique_file_name(Append(n, Pending), taken)

\* A name with the form of a generated one is refused unless it is this
\* version's own.
custom_file_name_ok(n, v) == n[1] \in Versions /\ Len(n) = 1 => n = object_file_name(v)

imported_file_name(n, v) ==
    IF n = object_file_name(v) THEN n ELSE unique_file_name(n, store_has_file)

\* load_object_files fails when a name is in both directories or a file is in
\* the wrong one; files that do not parse are skipped.
Loads ==
    /\ \A n \in DOMAIN live : live[n].st # "nullified"
    /\ \A n \in DOMAIN spent : spent[n].st \in {"nullified", "torn"}
    /\ \A n \in DOMAIN live \cap DOMAIN spent :
          live[n].st = "torn" \/ spent[n].st = "torn"

Holding(v) == {<<d, n>> \in {"live", "spent"} \X store_has_file :
                  n \in DOMAIN files[d] /\ files[d][n] # Torn /\ files[d][n].obj = v}
-----------------------------------------------------------------------------
(* File operations *)

Write(d, n, f) == [do |-> "write", dir |-> d, name |-> n, file |-> f]
Unlink(d, n) == [do |-> "remove", dir |-> d, name |-> n]
WriteRecord(t, r) == [do |-> "record", tx |-> t, rec |-> r]
RemoveRecord(t) == [do |-> "forget", tx |-> t]

\* The file goes to the directory its status says, then leaves the other one.
write_object_file(f, n) ==
    IF f.st = "nullified" THEN <<Write("spent", n, f), Unlink("live", n)>>
    ELSE <<Write("live", n, f), Unlink("spent", n)>>

nullify_object_file_in_place(f, n) ==
    write_object_file([f EXCEPT !.st = "nullified"], object_file_name(f.obj))

\* A spent version is filed under its generated name.
nullify_object_file(f, n) ==
    LET m == object_file_name(f.obj)
    IN  write_object_file([f EXCEPT !.st = "nullified"], m)
        \o (IF n # m THEN <<Unlink("live", n)>> ELSE <<>>)

\* An operation that does not hold the store lock alone cannot start.
Locked(steps) == todo = <<>> /\ todo' = steps

Finish == todo' = Tail(todo)

\* One file operation of the operation that holds the lock.
FileStep ==
    /\ todo # <<>>
    /\ LET s == Head(todo) IN
          \/ /\ s.do = "write"
             /\ files' = [files EXCEPT ![s.dir] = Put(@, s.name, s.file)]
             /\ UNCHANGED <<recs, hold>>
          \/ /\ s.do = "remove"
             /\ files' = [files EXCEPT ![s.dir] = Drop(@, s.name)]
             /\ UNCHANGED <<recs, hold>>
          \/ /\ s.do = "record"
             /\ recs' = [recs EXCEPT ![s.tx] = s.rec]
             /\ hold' = [hold EXCEPT ![s.tx] = NoName]
             /\ UNCHANGED files
          \/ /\ s.do = "forget"
             /\ recs' = [recs EXCEPT ![s.tx] = NoRec]
             /\ UNCHANGED <<files, hold>>
    /\ Finish
    /\ UNCHANGED <<chain, pass, cached, trash, discards, crashes, moves>>
-----------------------------------------------------------------------------
(* The chain *)

created(v) == v = 0 \/ (v \in Txs /\ chain[v] = "landed")
AgedOut == {t \in Txs : chain[t] = "dead"}
nullified(v) == v + 1 \in Txs /\ chain[v + 1] \in {"landed", "stolen"}

Decide(t, how) ==
    /\ chain[t] = "open" /\ chain' = [chain EXCEPT ![t] = how]
    /\ UNCHANGED <<files, recs, hold, todo, pass, cached, trash, discards,
                   crashes, moves>>

Land(t) == recs[t].st = "attempted" /\ created(t - 1) /\ Decide(t, "landed")
Die(t) == t \in Open /\ Decide(t, "dead")
Steal(t) == "share" \in Others /\ created(t - 1) /\ Decide(t, "stolen")
-----------------------------------------------------------------------------
(* Proving, recording, submitting, deleting *)

\* The input is resolved and held.  Version t is made by one transaction, which
\* may be proved again while it has not landed.
Prove(t) ==
    /\ todo = <<>> /\ Loads /\ hold[t] = NoName /\ chain[t] # "landed"
    /\ \E n \in DOMAIN live :
          /\ live[n] = [obj |-> t - 1, st |-> "live"]
          /\ n \notin locked_inputs \cup held
          /\ hold' = [hold EXCEPT ![t] = n]
    /\ UNCHANGED <<files, recs, chain, todo, pass, cached, trash, discards,
                   crashes, moves>>

Recordable(t) ==
    /\ Loads /\ hold[t] \notin locked_inputs
    /\ hold[t] \in DOMAIN live /\ live[hold[t]].st = "live"
    /\ recs[t].st = "none"
    /\ object_file_name(t) \notin DOMAIN live \cup DOMAIN spent

\* A custom name passes on: the new version is written under a pending name
\* and takes the name when it lands.
record(t) ==
    /\ hold[t] # NoName /\ Recordable(t)
    /\ LET custom == has_custom_file_name(hold[t], t - 1)
           out == IF custom THEN pending_file_name(hold[t],
                                    store_has_file \cup {object_file_name(t)})
                  ELSE object_file_name(t)
       IN  Locked(write_object_file([obj |-> t, st |-> "unknown"], out)
                  \o <<WriteRecord(t, [st |-> "recorded", input |-> hold[t], output |-> out,
                                       final |-> IF custom THEN hold[t] ELSE NoName])>>)
    /\ UNCHANGED <<files, recs, chain, hold, pass, cached, trash, discards,
                   crashes, moves>>

\* An output, the payload or the record cannot be written: what was written is
\* removed again and the input released.
RecordFails ==
    /\ todo # <<>> /\ Head(todo).do \in {"write", "record"}
    /\ LET s == Last(todo) IN
          /\ s.do = "record" /\ s.rec.st = "recorded"
          /\ todo' = <<Unlink("live", s.rec.output), RemoveRecord(s.tx)>>
          /\ hold' = [hold EXCEPT ![s.tx] = NoName]
    /\ UNCHANGED <<files, recs, chain, pass, cached, trash, discards, crashes, moves>>

\* The proof fails, or its transaction is refused.
ProofEnds(t) ==
    /\ hold[t] # NoName /\ todo = <<>>
    /\ hold' = [hold EXCEPT ![t] = NoName]
    /\ UNCHANGED <<files, recs, chain, todo, pass, cached, trash, discards,
                   crashes, moves>>

submit(t) ==
    /\ todo = <<>> /\ recs[t].st = "recorded"
    /\ recs' = [recs EXCEPT ![t].st = "attempted"]
    /\ UNCHANGED <<files, chain, hold, todo, pass, cached, trash, discards,
                   crashes, moves>>

remove_unknown_outputs(t, r) ==
    IF r.output \in DOMAIN live /\ live[r.output] = [obj |-> t, st |-> "unknown"]
    THEN <<Unlink("live", r.output)>> ELSE <<>>

delete_transaction(t) ==
    /\ "delete" \in Others /\ recs[t].st = "recorded"
    /\ Locked(Append(remove_unknown_outputs(t, recs[t]), RemoveRecord(t)))
    /\ UNCHANGED <<files, recs, chain, hold, pass, cached, trash, discards,
                   crashes, moves>>
-----------------------------------------------------------------------------
(* persist_settled_objects, in steps: inputs, outputs, pending names *)

Persist(do, t, r, how) ==
    [do |-> do, tx |-> t, rec |-> r, drop |-> how.drop, prune |-> how.prune,
     changed |-> how.changed]

First(t, r, how) == Persist(IF r.st = "expired" THEN "expire" ELSE "input", t, r, how)

\* The live file of that name, or else the spent one.
Found(n) ==
    IF n \in DOMAIN live THEN live[n]
    ELSE IF n \in DOMAIN spent THEN spent[n] ELSE [obj |-> 0, st |-> "absent"]

At(do) == todo # <<>> /\ Head(todo).do = do

\* The file does not parse: the record is left as it is.
Fails(f) == f.st = "torn"

PersistInput ==
    /\ At("input")
    /\ LET s == Head(todo)
           f == Found(s.rec.input)
           move == f.st \in {"unknown", "live"} /\ f.obj = s.tx - 1
           name == object_file_name(s.tx - 1)
           r == IF move THEN [s.rec EXCEPT !.input = name] ELSE s.rec
       IN  todo' = IF Fails(f) THEN Tail(todo)
                   ELSE (IF move THEN nullify_object_file(f, s.rec.input) ELSE <<>>)
                        \o <<Persist("output", s.tx, r, [s EXCEPT !.changed = @ \/ r # s.rec])>>
                        \o Tail(todo)
    /\ UNCHANGED <<files, recs, chain, hold, pass, cached, trash, discards,
                   crashes, moves>>

PersistOutput ==
    /\ At("output")
    /\ LET s == Head(todo)
           f == Found(s.rec.output)
           settle == f.st = "unknown" /\ f.obj = s.tx
       IN  todo' = IF Fails(f) THEN Tail(todo)
                   ELSE (IF settle
                         THEN write_object_file([f EXCEPT !.st = "live"], s.rec.output)
                         ELSE <<>>)
                        \o <<Persist("names", s.tx, s.rec, s)>> \o Tail(todo)
    /\ UNCHANGED <<files, recs, chain, hold, pass, cached, trash, discards,
                   crashes, moves>>

\* What is left of a persisted record: write it if it changed, and prune it.
Persisted(s, r) ==
    /\ todo' = (IF s.changed \/ r # s.rec THEN <<WriteRecord(s.tx, r)>> ELSE <<>>)
               \o (IF s.drop THEN <<RemoveRecord(s.tx)>> ELSE <<>>) \o Tail(todo)
    /\ cached' = IF s.drop THEN [cached EXCEPT ![s.tx] = NoRec]
                 ELSE IF s.prune THEN [cached EXCEPT ![s.tx] = r] ELSE cached

\* An output an action has taken as an input keeps its pending name.
finish_pending_names ==
    /\ At("names")
    /\ LET s == Head(todo)
           n == s.rec.output
           ours == n \in DOMAIN live /\ live[n].obj = s.tx /\ ~Fails(live[n])
           to == unique_file_name(s.rec.final, store_has_file)
       IN  \/ /\ s.rec.final = NoName \/ (ours /\ n \in held \cup locked_inputs)
             /\ Persisted(s, s.rec) /\ UNCHANGED files
          \/ /\ s.rec.final # NoName /\ ~ours
             /\ Persisted(s, [s.rec EXCEPT !.final = NoName]) /\ UNCHANGED files
          \/ /\ s.rec.final # NoName /\ ours /\ n \notin held \cup locked_inputs
             /\ files' = [files EXCEPT !.live = Put(Drop(@, n), to, @[n])]
             /\ Persisted(s, [s.rec EXCEPT !.final = NoName, !.output = to])
    /\ UNCHANGED <<recs, chain, hold, pass, trash, discards, crashes, moves>>

PersistExpired ==
    /\ At("expire")
    /\ LET s == Head(todo)
           n == s.rec.output
       IN  IF n \in DOMAIN live /\ Fails(live[n])
           THEN todo' = Tail(todo) /\ UNCHANGED cached
           ELSE /\ todo' = remove_unknown_outputs(s.tx, s.rec)
                           \o (IF s.drop THEN <<RemoveRecord(s.tx)>> ELSE <<>>) \o Tail(todo)
                /\ cached' = IF s.drop THEN [cached EXCEPT ![s.tx] = NoRec]
                             ELSE IF s.prune THEN [cached EXCEPT ![s.tx] = s.rec] ELSE cached
    /\ UNCHANGED <<files, recs, chain, hold, pass, trash, discards, crashes, moves>>
-----------------------------------------------------------------------------
(* Settlement passes and pruning *)

Order(S) == SetToSortSeq(S, LAMBDA a, b : a < b)
Each(S, Op(_)) == [i \in 1 .. Cardinality(S) |-> Op(Order(S)[i])]

\* No lock is held until the answers are in.  Open records are read, and then,
\* for a listing, the object files.
PassBegin(all) ==
    /\ pass = NoPass /\ IF all THEN "list" \in Others ELSE Open # {}
    /\ pass' = [at |-> IF all THEN "scan" ELSE "status", queried |-> Open,
                ask |-> {t \in Open : recs[t].st = "attempted"}, asked |-> {},
                scanned |-> {}, created |-> {}, spent |-> {}, landed |-> {},
                dead |-> IF all THEN {} ELSE AgedOut]
    /\ UNCHANGED <<files, recs, chain, hold, todo, cached, trash, discards,
                   crashes, moves>>

\* A store that does not load ends the pass.
PassScan ==
    /\ pass.at = "scan"
    /\ pass' = IF ~Loads THEN NoPass
               ELSE [pass EXCEPT !.at = "member", !.scanned =
                        {v \in Versions : Holding(v) # {}}]
    /\ UNCHANGED <<files, recs, chain, hold, todo, cached, trash, discards,
                   crashes, moves>>

\* One answer of the synchronizer on all the objects scanned, with its head.
PassMembership ==
    /\ pass.at = "member"
    /\ pass' = [pass EXCEPT !.at = "status", !.created = {v \in pass.scanned : created(v)},
                            !.spent = {v \in pass.scanned : nullified(v)}, !.dead = AgedOut]
    /\ UNCHANGED <<files, recs, chain, hold, todo, cached, trash, discards,
                   crashes, moves>>

\* One answer on one attempted transaction: applied, rejected, or not seen.
PassStatus ==
    /\ pass.at = "status" /\ pass.asked # pass.ask
    /\ \E t \in pass.ask \ pass.asked, seen \in BOOLEAN :
          /\ \A u \in pass.ask \ pass.asked : t <= u
          /\ chain[t] \in {"landed", "dead"} => seen
          /\ chain[t] = "open" => ~seen
          /\ pass' = [pass EXCEPT !.asked = @ \cup {t},
                         !.landed = IF chain[t] = "landed" THEN @ \cup {t} ELSE @,
                         !.dead = IF seen /\ chain[t] # "landed" THEN @ \cup {t} ELSE @]
    /\ UNCHANGED <<files, recs, chain, hold, todo, cached, trash, discards,
                   crashes, moves>>

\* Under the store lock: records first, then their files, then every file.
PassApply ==
    /\ pass.at = "status" /\ pass.asked = pass.ask
    /\ LET S == {t \in Open \cap pass.queried :
                    /\ recs[t].st = "attempted" => t \in pass.ask
                    /\ t \in pass.landed \cup pass.dead}
           New(t) == [recs[t] EXCEPT !.st = IF t \in pass.landed THEN "landed" ELSE "expired"]
           how == [drop |-> FALSE, prune |-> FALSE, changed |-> FALSE]
       IN  Locked(Each(S, LAMBDA t : WriteRecord(t, New(t)))
                  \o Each(S, LAMBDA t : First(t, New(t), how))
                  \o <<[do |-> "reconcile"]>>)
    /\ pass' = [pass EXCEPT !.at = "apply"]
    /\ UNCHANGED <<files, recs, chain, hold, cached, trash, discards, crashes, moves>>

chain_file_status(f) ==
    IF f.st = "nullified" \/ f.obj \in pass.spent THEN "nullified"
    ELSE IF f.st = "unknown" /\ f.obj \in pass.created THEN "live" ELSE f.st

\* Every object file is brought in line with the membership the pass read.
Reconcile ==
    /\ At("reconcile")
    /\ LET Moved == {n \in DOMAIN live : /\ live[n] # Torn
                                         /\ chain_file_status(live[n]) # live[n].st}
           Steps(n) ==
               IF chain_file_status(live[n]) = "nullified"
               THEN nullify_object_file(live[n], n)
               ELSE write_object_file([live[n] EXCEPT !.st = "live"], n)
       IN  \E order \in SetToSeqs(Moved) :
              todo' = IF ~Loads THEN <<>>
                      ELSE FlattenSeq([i \in DOMAIN order |-> Steps(order[i])])
    /\ pass' = NoPass
    /\ UNCHANGED <<files, recs, chain, hold, cached, trash, discards, crashes, moves>>

\* Terminal records not reconciled yet are persisted again; those of D are due
\* and then removed.
prune_transactions(D) ==
    /\ pass = NoPass /\ D \subseteq Terminal
    /\ LET S == D \cup {t \in Terminal : cached[t] # recs[t]}
       IN  /\ S # {}
           /\ Locked(Each(S, LAMBDA t : First(t, recs[t],
                  [drop |-> t \in D, prune |-> TRUE, changed |-> FALSE])))
    /\ UNCHANGED <<files, recs, chain, hold, pass, cached, trash, discards,
                   crashes, moves>>
-----------------------------------------------------------------------------
(* Renaming, importing, discarding *)

rename_object(n, m) ==
    /\ todo = <<>>
    /\ n \in DOMAIN live /\ live[n].st = "live"
    /\ custom_file_name_ok(m, live[n].obj) /\ m \notin store_has_file
    /\ n \notin held \cup locked_inputs
    /\ \A t \in Open : recs[t].output # n
    /\ files' = [files EXCEPT !.live = Put(Drop(@, n), m, @[n])]
    /\ UNCHANGED <<recs, chain, hold, todo, pass, cached, trash, discards,
                   crashes, moves>>

Importable(v, n) ==
    /\ Loads /\ Holding(v) = {} /\ custom_file_name_ok(n, v)
    /\ imported_file_name(n, v) \notin DOMAIN live \cup DOMAIN spent

\* The checks before and at the synchronizer.
ImportCheck(v, n) ==
    /\ moves < MaxDiscards /\ moves' = moves + 1
    /\ Importable(v, n) /\ created(v) /\ ~nullified(v)
    /\ trash' = trash \cup {[do |-> "import", obj |-> v, name |-> n]}
    /\ UNCHANGED <<files, recs, chain, hold, todo, pass, cached, discards, crashes>>

\* The store is checked again under its lock, then the object is filed.
import_object(i) ==
    /\ i \in trash /\ i.do = "import"
    /\ Locked(IF Importable(i.obj, i.name)
              THEN write_object_file([obj |-> i.obj, st |-> "live"],
                                     imported_file_name(i.name, i.obj))
              ELSE <<>>)
    /\ trash' = trash \ {i}
    /\ UNCHANGED <<files, recs, chain, hold, pass, cached, discards, crashes, moves>>

\* Discarding takes no lock: the file is read, then moved.
DiscardRead(n) ==
    /\ moves < MaxDiscards /\ moves' = moves + 1
    /\ n \in DOMAIN live /\ live[n] # Torn
    /\ trash' = trash \cup {[do |-> "discard", obj |-> live[n].obj, name |-> n]}
    /\ UNCHANGED <<files, recs, chain, hold, todo, pass, cached, discards, crashes>>

discard_object_unsafe(d) ==
    /\ d \in trash /\ d.do = "discard"
    /\ IF d.name \in DOMAIN live
       THEN /\ files' = [files EXCEPT !.live = Drop(@, d.name),
                                      !.trash = Put(@, d.name, live[d.name])]
            /\ discards' = discards \cup {live[d.name].obj}
       ELSE UNCHANGED <<files, discards>>
    /\ trash' = trash \ {d}
    /\ UNCHANGED <<recs, chain, hold, todo, pass, cached, crashes, moves>>
-----------------------------------------------------------------------------
(* Crashes *)

\* What is in memory is lost; the file being written may be torn.
Crash ==
    /\ crashes < MaxCrashes /\ crashes' = crashes + 1
    /\ \/ UNCHANGED files
       \/ At("write") /\ LET s == Head(todo)
                         IN  files' = [files EXCEPT ![s.dir] = Put(@, s.name, Torn)]
    /\ todo' = <<>> /\ pass' = NoPass /\ trash' = {}
    /\ hold' = [t \in Txs |-> NoName] /\ cached' = [t \in Txs |-> NoRec]
    /\ UNCHANGED <<recs, chain, discards, moves>>
-----------------------------------------------------------------------------
Init ==
    /\ files = [live |-> object_file_name(0) :> [obj |-> 0, st |-> "live"],
                spent |-> <<>>, trash |-> <<>>]
    /\ recs = [t \in Txs |-> NoRec] /\ chain = [t \in Txs |-> "open"]
    /\ hold = [t \in Txs |-> NoName] /\ cached = [t \in Txs |-> NoRec]
    /\ todo = <<>> /\ pass = NoPass /\ trash = {} /\ discards = {}
    /\ crashes = 0 /\ moves = 0

Requests == {<<c>> : c \in Customs} \cup {<<v>> : v \in Versions}

Settle ==
    \/ \E all \in BOOLEAN : PassBegin(all)
    \/ PassScan \/ PassMembership \/ PassStatus \/ PassApply
Steps ==
    \/ FileStep \/ PersistInput \/ PersistOutput \/ finish_pending_names
    \/ PersistExpired \/ Reconcile
Prune == \E D \in SUBSET Txs : prune_transactions(D)

Next ==
    \/ Settle \/ Steps \/ RecordFails \/ Prune \/ Crash
    \/ \E t \in Txs :
          \/ Land(t) \/ Die(t) \/ Steal(t)
          \/ Prove(t) \/ record(t) \/ ProofEnds(t) \/ submit(t) \/ delete_transaction(t)
    \/ \E n \in DOMAIN live : \/ \E m \in Requests : rename_object(n, m)
                              \/ DiscardRead(n)
    \/ \E v \in Versions, n \in Requests : ImportCheck(v, n)
    \/ \E i \in trash : import_object(i) \/ discard_object_unsafe(i)

Spec == Init /\ [][Next]_vars

\* The store lock is held by code that runs to its end, dobjd's loop makes a pass
\* while a record is open and prunes after each, and the chain decides.
Fairness ==
    /\ WF_vars(Steps) /\ WF_vars(PassScan \/ PassMembership \/ PassStatus)
    /\ SF_vars(PassApply) /\ SF_vars(PassBegin(FALSE))
    /\ SF_vars(Prune) /\ \A t \in Txs : WF_vars(Land(t) \/ Die(t))
FairSpec == Spec /\ Fairness
-----------------------------------------------------------------------------
(* Properties *)

Rest == todo = <<>> /\ pass = NoPass /\ trash = {}
Statuses == {"unknown", "live", "nullified", "torn"}

\* Every variable keeps its type.
TypeOK ==
    /\ \A d \in {"live", "spent", "trash"} : \A n \in DOMAIN files[d] :
          /\ files[d][n].obj \in Versions /\ files[d][n].st \in Statuses
          /\ n # NoName
    /\ \A t \in Txs : recs[t].st \in {"none", "recorded", "attempted", "landed", "expired"}
    /\ discards \subseteq Versions

\* A file never comes to hold another object: no write, rename or move replaces
\* a file that holds one, in any directory.
KeepsObject ==
    \A d \in DOMAIN files : \A n \in DOMAIN files[d] \cap DOMAIN files'[d] :
        files[d][n].st # "torn" /\ files'[d][n].st # "torn" =>
            files[d][n].obj = files'[d][n].obj
FilesKeepObject == [][KeepsObject]_vars

\* While the store is at rest and has not crashed it loads, and holds every
\* object once.
OneFilePerObject ==
    Rest /\ crashes = 0 => Loads /\ \A v \in Versions : Cardinality(Holding(v)) <= 1

\* An open record names the files of its input and of its output, which no
\* rename or other transaction moves; only discarding takes them away.
RecordsNameFiles ==
    Rest => \A t \in Open :
        /\ t - 1 \in discards \/ nullified(t - 1)
           \/ (recs[t].input \in DOMAIN live /\ live[recs[t].input].obj = t - 1)
        /\ t \in discards \/ nullified(t)
           \/ (recs[t].output \in DOMAIN live /\ live[recs[t].output].obj = t)

Torns == {<<d, n>> \in (DOMAIN files) \X store_has_file :
             n \in DOMAIN files[d] /\ files[d][n] = Torn}
Newest == {t \in Txs : chain[t] = "landed" /\ ~nullified(t)}

\* A version that is the newest on the chain is not lost, whatever operation a
\* crash cuts short, unless the crash tears a file.
NothingLost ==
    Torns = {} => \A t \in Newest : t \in discards \/ \E h \in Holding(t) : h[1] = "live"

\* A crash between the two steps that move a spent file leaves a store that
\* does not load; the records the crash left bring it back.
Recovers == ~Loads ~> Loads
=============================================================================
