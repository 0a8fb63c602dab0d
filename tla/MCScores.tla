------------------------------ MODULE MCScores ------------------------------
(***************************************************************************)
(* Bitcraft's scores for TLC: the host's inventory metrics, and the bot    *)
(* that ranks what players' presence shows of them.  A behaviour is one of *)
(* a single part, named by `part'; what belongs to the other stays as it   *)
(* starts.                                                                 *)
(***************************************************************************)
EXTENDS Naturals

CONSTANTS f1, f2, p1, p2

VARIABLES
    part,
    store, queues, seq, link, wire, host, metrics, time, changes, failures, log, holes,
    clock, bot, state, lookups, saver, pub, disk, public, faults, restarts, done, apart

inventory == <<store, queues, seq, link, wire, host, metrics, time, changes, failures, log, holes>>
board == <<clock, bot, state, lookups, saver, pub, disk, public, faults, restarts, done, apart>>
vars == <<part, inventory, board>>
-----------------------------------------------------------------------------
\* Two objects; a clock, with one object; and a stream that dies.
Totals == INSTANCE InventoryMetrics WITH Files <- {f1, f2}, Capacity <- 2, Window <- 1,
    MaxChanges <- 3, MaxFaults <- 2, MaxTime <- 0, faults <- failures
Rates == INSTANCE InventoryMetrics WITH Files <- {f1}, Capacity <- 2, Window <- 2,
    MaxChanges <- 4, MaxFaults <- 0, MaxTime <- 4, faults <- failures
Losses == INSTANCE InventoryMetrics WITH Files <- {f1}, Capacity <- 2, Window <- 1,
    MaxChanges <- 3, MaxFaults <- 2, MaxTime <- 0, faults <- failures

\* Restarts without a publication; publications; and two players.
Saves == INSTANCE Leaderboard WITH Players <- {p1}, MaxBits <- 3, TopSize <- 1, Limit <- 4,
    Period <- 2, LookedUp <- {p1}, MaxTime <- 0, MaxFaults <- 2, MaxRestarts <- 3
Publishes == INSTANCE Leaderboard WITH Players <- {p1}, MaxBits <- 2, TopSize <- 1, Limit <- 4,
    Period <- 2, LookedUp <- {}, MaxTime <- 4, MaxFaults <- 1, MaxRestarts <- 2
Ranks == INSTANCE Leaderboard WITH Players <- {p1, p2}, MaxBits <- 2, TopSize <- 2, Limit <- 4,
    Period <- 2, LookedUp <- {}, MaxTime <- 2, MaxFaults <- 0, MaxRestarts <- 1

Init ==
    /\ part \in {"totals", "rates", "losses", "saves", "publishes", "ranks"}
    /\ IF part = "totals" THEN Totals!Init ELSE Rates!Init
    /\ part \notin {"totals", "rates", "losses"} => store[f1] = "none"
    /\ Saves!Init

Next ==
    \/ part = "totals" /\ Totals!Next /\ UNCHANGED <<part, board>>
    \/ part = "rates" /\ Rates!Next /\ UNCHANGED <<part, board>>
    \/ part = "losses" /\ Losses!Next /\ UNCHANGED <<part, board>>
    \/ part = "saves" /\ Saves!Next /\ UNCHANGED <<part, inventory>>
    \/ part = "publishes" /\ Publishes!Next /\ UNCHANGED <<part, inventory>>
    \/ part = "ranks" /\ Ranks!Next /\ UNCHANGED <<part, inventory>>

\* The fairness of the modules, for the part that runs.
On(p, A) == part = p /\ A
Fairness ==
    /\ WF_inventory(On("losses", Losses!Connect))
    /\ WF_inventory(On("losses", Losses!Serve))
    /\ WF_inventory(On("losses", Losses!Loaded))
    /\ WF_inventory(On("losses", Losses!Fails))
    /\ WF_inventory(On("losses", \E n \in 1..2 : Losses!Chunk(n)))
    /\ \A who \in {"settler", "request"} : WF_inventory(On("losses", Losses!Publish(who)))
    /\ WF_board(On("saves", Saves!SaveBegin))
    /\ WF_board(On("saves", Saves!SaveEnd))

Spec == Init /\ [][Next]_vars /\ Fairness
-----------------------------------------------------------------------------
(* The properties are those of the parts, whose modules say what they mean.  *)

\* Once the events are through, the total is the inventory's (follow), and the
\* rate is the change of the total over the window (Samples::rate).
TotalCurrent ==
    /\ part = "totals" => Totals!TypeOK /\ Totals!TotalCurrent
    /\ part = "rates" => Rates!RateIsOfWindow

\* What the state object lacks is still to be saved, and a clean exit leaves
\* nothing (save_loop); the public file, /rank and the posts agree (publish_top)
\* and the boards are ranked, within the limit (Leaderboard::record, standings).
ScoresKept ==
    /\ part = "saves" => Saves!TypeOK /\ Saves!NoScoreForgotten /\ Saves!CleanExitSaves
    /\ part = "publishes" => Publishes!RankIsPublished /\ Publishes!PostIsPublic
    /\ part = "ranks" => Ranks!BoardsRanked /\ Ranks!PostsFit

\* Every score is saved in the end and the saved ones never drop (save_loop,
\* Store::load); a slot is published at most once (publish_loop); a stream that
\* died is found out, and metrics come back after every loss (follow, run).
ScoresArrive ==
    /\ part = "saves" => Saves!ScoresSaved
    /\ part = "losses" => Losses!LossNoticed /\ Losses!MetricsReturn
    /\ [][part = "saves" => Saves!NoneDrops]_board
    /\ [][part = "publishes" => Publishes!NewSlot]_board
=============================================================================
