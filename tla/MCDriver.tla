------------------------------ MODULE MCDriver ------------------------------
(***************************************************************************)
(* The driver's object files, its plugins, and two transactions of which   *)
(* one spends what the other creates, for TLC.  A behaviour is one of a    *)
(* single part, named by `part'; what belongs to the others stays as it    *)
(* starts.                                                                 *)
(***************************************************************************)
EXTENDS Naturals, TLC

CONSTANTS c1, r1, b, c, t1, t2, w1, p1, NoTx, NoOwner

VARIABLES
    part,
    files, recs, lands, hold, todo, sweep, cached, trash, discards, crashes, moves,
    disk, up, catalog, inst, build, objs, runs, installs, builds, kills,
    head, chain, foreign, wire, job, file, payload, record, holds, proof, sub, pass, reconciled,
    importing, started, halfDeleted

store == <<files, recs, lands, hold, todo, sweep, cached, trash, discards, crashes, moves>>
plugins == <<disk, up, catalog, inst, build, objs, runs, installs, builds, kills>>
driver == <<head, chain, foreign, wire, job, file, payload, record, holds, proof, sub, pass,
            reconciled, importing, started, halfDeleted>>
vars == <<part, store, plugins, driver>>
-----------------------------------------------------------------------------
\* One version and what may happen to its names; two versions; and a crash.
Names == INSTANCE ObjectStore WITH LastTx <- 1, Customs <- {10}, MaxCrashes <- 0,
    MaxDiscards <- 2, Others <- {"list", "delete", "share"}, chain <- lands, pass <- sweep
Versions == INSTANCE ObjectStore WITH LastTx <- 2, Customs <- {10}, MaxCrashes <- 0,
    MaxDiscards <- 0, Others <- {"list", "delete", "share"}, chain <- lands, pass <- sweep
Crashing == INSTANCE ObjectStore WITH LastTx <- 1, Customs <- {10}, MaxCrashes <- 1,
    MaxDiscards <- 0, Others <- {"list"}, chain <- lands, pass <- sweep

\* Wood and its second version share a plugin name.
Archive(n, s) == [name |-> n, valid |-> TRUE, script |-> s, hashOK |-> TRUE, classesOK |-> TRUE]
Act(n, ins, outs, hidden) == [name |-> n, ins |-> ins, outs |-> outs, hidden |-> hidden]

Modules ==
    [w1 |-> << Act("Log", <<>>, <<"Wood">>, FALSE), Act("Plank", <<"Wood", "Wood">>, <<"Wood">>, FALSE),
               Act("Part", <<"Wood">>, <<>>, TRUE) >>,
     w2 |-> << Act("Log", <<>>, <<"Wood">>, FALSE), Act("Plank", <<"Wood", "Wood">>, <<"Wood">>, FALSE) >>,
     l1 |-> << Act("Log", <<>>, <<"Wood">>, FALSE) >>,
     o1 |-> << Act("Dig", <<>>, <<"Ore">>, FALSE) >>]

AllArchives ==
    [wood1 |-> Archive("wood", "w1"), wood2 |-> Archive("wood", "w2"), ore |-> Archive("ore", "o1"),
     woodBad |-> [Archive("wood", "w2") EXCEPT !.hashOK = FALSE],
     oreBad |-> [Archive("ore", "o1") EXCEPT !.classesOK = FALSE],
     named |-> [Archive("x:y", "o1") EXCEPT !.valid = FALSE]]
TwoLogs == [wood1 |-> Archive("wood", "w1"), wood2 |-> Archive("wood", "w2"), logs |-> Archive("logs", "l1")]

\* Installs, one at a time; and one run while plugins are replaced.
Install == INSTANCE Plugins WITH Archives <- AllArchives, Preinstalled <- {},
    Uploads <- DOMAIN AllArchives, Clients <- {c1}, Runners <- {}, Objects <- {},
    MaxInstalls <- 6, MaxBuilds <- 0, MaxKills <- 0
Running == INSTANCE Plugins WITH Archives <- TwoLogs, Preinstalled <- {},
    Uploads <- DOMAIN TwoLogs, Clients <- {c1}, Runners <- {r1}, Objects <- {1, 2, 3},
    MaxInstalls <- 2, MaxBuilds <- 1, MaxKills <- 1

\* A transaction without inputs, and one that spends what it creates.
Chained == INSTANCE Transactions WITH Objs <- {b, c}, Txs <- {t1, t2},
    Inputs <- t1 :> {} @@ t2 :> {b}, Outputs <- t1 :> {b} @@ t2 :> {c}, Owners <- {w1},
    Passes <- {p1}, InitLive <- {}, Foreign <- {}, Repeatable <- {t2}, Stealable <- {},
    Submittable <- {t1, t2}, CalmFrom <- 0, MaxAge <- 1, MaxGround <- 1, MaxHead <- 3

Init ==
    /\ part \in {"names", "versions", "crashing", "install", "running", "chained"}
    /\ IF part = "versions" THEN Versions!Init ELSE Names!Init
    /\ IF part = "running" THEN Running!Init ELSE Install!Init
    /\ Chained!Init

Next ==
    \/ part = "names" /\ Names!Next /\ UNCHANGED <<part, plugins, driver>>
    \/ part = "versions" /\ Versions!Next /\ UNCHANGED <<part, plugins, driver>>
    \/ part = "crashing" /\ Crashing!Next /\ UNCHANGED <<part, plugins, driver>>
    \/ part = "install" /\ Install!Next /\ UNCHANGED <<part, store, driver>>
    \/ part = "running" /\ Running!Next /\ UNCHANGED <<part, store, driver>>
    \/ part = "chained" /\ Chained!Next /\ UNCHANGED <<part, store, plugins>>

Spec == Init /\ [][Next]_vars
-----------------------------------------------------------------------------
(* The properties are those of the parts, whose modules say what they mean.  *)

\* At rest the store loads and holds every object once (nullify_object_file), open
\* records name the files they need (rename_object), a crash loses no newest
\* version (persist_settled), and terminal records agree with the chain for
\* chained transactions too (settle_with).
OneFilePerObject ==
    /\ part = "names" => Names!TypeOK
    /\ part = "versions" => Versions!OneFilePerObject /\ Versions!RecordsNameFiles
    /\ part = "crashing" => Crashing!NothingLost
    /\ part = "chained" => Chained!TerminalAgreesWithChain

\* The running catalog is the one on disk and loads at the next start
\* (install_plugin); an object is consumed by its own module, a hash leads to its
\* class, labels and types come from one archive, and check_action and prove agree
\* (prove, PexeCatalog).
CatalogIsDisk ==
    /\ part = "install" => Install!CatalogIsDisk /\ Install!NextStartup
    /\ part = "running" =>
           /\ Running!TypeOK /\ Running!SpentByItsModule /\ Running!HashNamesClass
           /\ Running!LabelsTrue /\ Running!FeasibleIsAccepted

\* A file never comes to hold another object (unique_file_name); a failed install
\* leaves what was there, and no plugin vanishes from the running catalog
\* (restore, reload).
FilesKeepObject ==
    /\ [][part = "names" => Names!KeepsObject]_store
    /\ [][part = "install" => Install!RestoresOnFailure /\ Install!KeepsPlugins]_plugins
=============================================================================
