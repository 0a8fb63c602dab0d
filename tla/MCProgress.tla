----------------------------- MODULE MCProgress -----------------------------
(***************************************************************************)
(* What the daemon and the driver get done in the end, for TLC.  A         *)
(* behaviour is one of a single part, named by `part'; what belongs to the *)
(* others stays as it starts.                                              *)
(***************************************************************************)
EXTENDS Naturals, TLC

CONSTANTS t1, o1, o2, w1, p1, NoTx, NoOwner

VARIABLES
    part,
    rec, lives, told, faults, crashes, run, left, queue, lagged, pc, copy, lock, deleted, pass,
    phase, syncing, asked, out, gone, busy, due, permit, published, retry, view, vqueue, vlagged,
    files, recs, lands, hold, todo, sweep, cached, trash, discards, falls, moves,
    head, chain, foreign, wire, job, file, payload, record, holds, proof, sub, settling,
    reconciled, importing, started, halfDeleted

daemon == <<rec, lives, told, faults, crashes, run, left, queue, lagged, pc, copy, lock, deleted,
            pass, phase, syncing, asked, out, gone, busy, due, permit, published, retry, view,
            vqueue, vlagged>>
store == <<files, recs, lands, hold, todo, sweep, cached, trash, discards, falls, moves>>
driver == <<head, chain, foreign, wire, job, file, payload, record, holds, proof, sub, settling,
            reconciled, importing, started, halfDeleted>>
parts == <<daemon, store, driver>>
vars == <<part, parts>>
-----------------------------------------------------------------------------
\* In one instance of the daemon the chain decides what was sent, and the passes
\* of the loop compete with those of GET /objects; in the other it need not, a
\* retry must get through, and the daemon restarts.
Decide == INSTANCE Dobjd WITH Txs <- {t1}, Viewers <- {}, Capacity <- 1, MaxRetries <- 1,
    Preflight <- 0, MaxLives <- 1, MaxFaults <- 1, MaxCrashes <- 0, Requests <- {"sync"}
Offer == INSTANCE Dobjd WITH Txs <- {t1}, Viewers <- {}, Capacity <- 1, MaxRetries <- 1,
    Preflight <- 0, MaxLives <- 1, MaxFaults <- 1, MaxCrashes <- 1, Requests <- {}

\* The object files, across a crash.
Crashing == INSTANCE ObjectStore WITH LastTx <- 1, Customs <- {10}, MaxCrashes <- 1,
    MaxDiscards <- 0, Others <- {"list"}, chain <- lands, pass <- sweep, crashes <- falls

\* One transaction, of an imported object, where nothing fails from block 1 on.
Settling == INSTANCE Transactions WITH Objs <- {o1, o2}, Txs <- {t1}, Inputs <- t1 :> {o2},
    Outputs <- t1 :> {o1}, Owners <- {w1}, Passes <- {p1}, InitLive <- {}, Foreign <- {o2},
    Repeatable <- {t1}, Stealable <- {}, Submittable <- {t1}, CalmFrom <- 1, MaxAge <- 1,
    MaxGround <- 0, MaxHead <- 2, pass <- settling

Decides(A) == part = "decide" /\ A /\ UNCHANGED <<part, store, driver>>
Offers(A) == part = "offer" /\ A /\ UNCHANGED <<part, store, driver>>
Stores(A) == part = "store" /\ A /\ UNCHANGED <<part, daemon, driver>>
Settles(A) == part = "settle" /\ A /\ UNCHANGED <<part, daemon, store>>

Init ==
    /\ part \in {"decide", "offer", "store", "settle"}
    /\ Decide!Init /\ Crashing!Init /\ Settling!Init

Next ==
    \/ Decides(Decide!Next) \/ Offers(Offer!Next)
    \/ Stores(Crashing!Next) \/ Settles(Settling!Next)
-----------------------------------------------------------------------------
(* Of the fairness the modules ask for, and justify, what the properties     *)
(* need.  As only one part runs, a condition of one is merged with one of    *)
(* another.                                                                  *)

\* Every task goes on, what it asks of the chain and the relayer is answered, and
\* blocks are made.
Scheduled ==
    /\ WF_parts(\/ Decides(Decide!Loop) \/ Offers(Offer!Loop)
                \/ Stores(Crashing!Steps) \/ Settles(Settling!Block))
    /\ WF_parts(\/ Decides(Decide!Sync /\ syncing # "idle") \/ Offers(Offer!Retry(t1))
                \/ Stores(Crashing!PassScan \/ Crashing!PassMembership \/ Crashing!PassStatus)
                \/ Settles(Settling!SettleLoad(p1, FALSE)))
    /\ WF_parts(\/ Decides(Decide!StartRetries) \/ Offers(Offer!Submission("retry", t1))
                \/ Stores(Crashing!PassApply) \/ Settles(Settling!SettleHead(p1)))
    /\ WF_parts(\/ Decides(Decide!Wake \/ Decide!next_pass_delay)
                \/ Settles(Settling!SettleStatus(p1, t1)))
    /\ WF_parts(Decides(Decide!Run(t1)) \/ Settles(Settling!SettleApply(p1)))
    /\ WF_parts(\/ Decides(Decide!Submission("run", t1))
                \/ Offers(Offer!Submission("run", t1)))

\* A task that waits for a lock gets it; blocks expire what the passes find open
\* again and again; a retry that starts again and again gets past the head.
Retried ==
    /\ SF_parts(\/ Decides(Decide!PassBegin("loop")) \/ Stores(Crashing!PassBegin(FALSE))
                \/ Offers(Offer!StartRetries /\ retry'[t1] = "flying" /\ retry[t1] # "flying"))
    /\ SF_parts(\/ Decides(Decide!PassSettle("loop", {t1}, t1 :> "expired"))
                \/ Offers(Offer!SubmitRead("retry", t1) /\ pc'["retry"][t1] = "head")
                \/ Stores(Crashing!Prune))

Spec == Init /\ [][Next]_vars /\ Scheduled /\ Retried
-----------------------------------------------------------------------------
(* The properties are those of the parts, whose modules say what they mean.  *)

\* Finished records are announced (add_unpublished_terminal), and a run that
\* follows its transaction ends (follow of runs.rs).
RunsFinish == part = "decide" => Decide!TerminalAnnounced /\ Decide!RunsFinish

\* An attempt is offered until it is accepted or settled (start_retries).
AttemptedIsOffered == part = "offer" => Offer!AttemptedIsOffered

\* Every open transaction is settled (settle_with), and a store that does not load
\* comes to load again (persist_settled).
OpenSettles ==
    /\ part = "settle" => Settling!OpenSettles
    /\ part = "store" => Crashing!Recovers
=============================================================================
