---------------------------- MODULE Leaderboard ----------------------------
(***************************************************************************)
(* The Bitcraft leaderboard bot (apps/bitcraft/discord-bot): a gateway     *)
(* loop that records scores, a task that saves them every minute, a task   *)
(* that publishes the top of them at fixed times, and a name lookup per    *)
(* player, over one mutex and two objects of an S3 service.                *)
(*                                                                         *)
(* A total is a number, and a longer number makes a longer line.  The      *)
(* clock counts whole seconds, as unix_now does.                           *)
(***************************************************************************)
EXTENDS Naturals, FiniteSets, SequencesExt

CONSTANTS
    Players,
    MaxBits,       \* scores are 1..MaxBits
    TopSize,       \* TOP_SIZE
    Limit,         \* MESSAGE_LIMIT
    Period,        \* the publication interval
    LookedUp,      \* the players whose name lookups end within the run
    MaxTime, MaxFaults, MaxRestarts

VARIABLES
    clock,
    bot,           \* the process: "down", "up", "stopping", "off" after a clean exit
    state,         \* State: leaderboard, unsaved, published, and players whose name is due
    lookups,       \* players whose refresh_name is under way
    saver,         \* save_loop
    pub,           \* publish_loop
    disk, public,  \* the objects in the two buckets
    faults, restarts,
    done,          \* history: the slots published, as far as the clock has not gone back past them
    apart          \* history: the public file was written or not read without the bot knowing

vars == <<clock, bot, state, lookups, saver, pub, disk, public, faults, restarts, done, apart>>

Absent == [updated |-> FALSE, entries |-> <<>>]          \* NoSuchKey; Leaderboard::default
NoTop == <<>>
-----------------------------------------------------------------------------
(* board.rs *)

\* An activity: of another application, without a readable total, or a total.
Other == 0
Unreadable == MaxBits + 1
PresenceBits(activities) ==
    LET totals == {a \in activities : a # Other /\ a # Unreadable}
    IN  IF totals = {} THEN 0 ELSE CHOOSE b \in totals : \A c \in totals : c <= b

Has(entries, p) == \E i \in DOMAIN entries : entries[i].user = p
IndexOf(entries, p) == CHOOSE i \in DOMAIN entries : entries[i].user = p

\* sort_by is stable.
Sorted(entries) ==
    LET before(i, j) ==
            LET a == entries[i]  b == entries[j] IN
            IF a.bits # b.bits THEN a.bits > b.bits
            ELSE IF a.at # b.at THEN a.at < b.at ELSE i < j
        order == SetToSortSeq(DOMAIN entries, before)
    IN  [k \in DOMAIN entries |-> entries[order[k]]]

Raised(entries, p, b, now) ==
    Sorted([entries EXCEPT ![IndexOf(entries, p)] = [@ EXCEPT !.bits = b, !.at = now]])
Added(entries, p, b, now) ==
    Sorted(Append(entries, [user |-> p, named |-> FALSE, bits |-> b, at |-> now]))

Record(entries, p, b, now) ==
    IF ~Has(entries, p) THEN Added(entries, p, b, now)
    ELSE IF b <= entries[IndexOf(entries, p)].bits THEN entries
    ELSE Raised(entries, p, b, now)

Rename(entries, p) ==
    [i \in DOMAIN entries |-> IF entries[i].user = p THEN [entries[i] EXCEPT !.named = TRUE] ELSE entries[i]]

Best(board, p) ==
    IF Has(board.entries, p) THEN board.entries[IndexOf(board.entries, p)].bits ELSE 0
-----------------------------------------------------------------------------
(* messages.rs *)

Header == 2
LineLength(e) == e.bits

\* A message: its length and the places it lists.
Standings(entries) ==
    LET place(ms, i) ==
            LET m == ms[Len(ms)]  n == LineLength(entries[i]) IN
            IF m.length + 1 + n > Limit
            THEN Append(ms, [length |-> n, places |-> <<i>>])
            ELSE [ms EXCEPT ![Len(ms)] = [length |-> m.length + 1 + n, places |-> Append(m.places, i)]]
    IN  IF entries = <<>> THEN <<>>
        ELSE FoldLeft(place, <<[length |-> Header, places |-> <<>>]>>, [i \in DOMAIN entries |-> i])

\* What /rank answers: nothing published yet, the place and the total, or not among them.
Rank(board, p) ==
    IF ~board.updated THEN <<"unpublished">>
    ELSE IF Has(board.entries, p) THEN <<"place", IndexOf(board.entries, p), Best(board, p)>>
    ELSE <<"not listed">>
-----------------------------------------------------------------------------
(* Starting: both objects are read.  Without the saved scores the bot does  *)
(* not start; without the published ones /rank has nothing to answer from.  *)

NextPublication(after) == (after \div Period + 1) * Period
Waiting(slot, now) == [pc |-> "wait", next |-> slot, sleep |-> (IF slot > now THEN slot - now ELSE 0), top |-> NoTop, posts |-> <<>>]

Idle == [pc |-> "idle", last |-> FALSE, copy |-> NoTop, failed |-> FALSE]

\* Store::load.  A missing bucket is a 404 like a missing object.
Loads(reply) == reply = "object"

Start ==
    /\ bot = "down" /\ restarts < MaxRestarts
    /\ \E r, q \in {"object", "no bucket", "error"} :
        LET cost == Cardinality({i \in 1..2 : <<r, q>>[i] # "object"}) IN
        /\ faults + cost <= MaxFaults
        /\ faults' = faults + cost
        /\ IF ~Loads(r)
           THEN UNCHANGED <<bot, state, pub, saver, apart>>
           ELSE /\ bot' = "up"
                /\ state' = [board |-> IF r = "object" THEN disk.entries ELSE <<>>,
                             unsaved |-> FALSE,
                             published |-> IF q = "object" THEN public ELSE Absent,
                             due |-> Players]
                /\ saver' = Idle
                /\ pub' = Waiting(NextPublication(clock), clock)
                /\ apart' = (q # "object")
    /\ restarts' = restarts + 1
    /\ done' = {s \in done : s <= clock}
    /\ UNCHANGED <<clock, lookups, disk, public>>
-----------------------------------------------------------------------------
(* The gateway loop.                                                        *)

\* Bot::observe, of the presences of a guild or of one member.
Observed(st, ps) ==
    LET see(s, p) ==
            LET b == PresenceBits(p.activities)
                r == Record(s.board, p.user, b, clock)
            IN  IF b = 0 THEN s
                ELSE [s EXCEPT !.board = r,
                               !.unsaved = @ \/ r # s.board,
                               !.due = @ \ {p.user}]
    IN  FoldLeft(see, st, ps)

Observe(ps) ==
    /\ bot = "up"
    /\ state' = Observed(state, ps)
    /\ lookups' = lookups \cup (state.due \ state'.due)
    /\ UNCHANGED <<clock, bot, saver, pub, disk, public, faults, restarts, done, apart>>

Presences == [user : Players, activities : {{Other}, {Unreadable}} \cup {{Other, b} : b \in 1..MaxBits} \cup {{1, MaxBits}}]

PresenceUpdate == \E p \in Presences : Observe(<<p>>)
GuildCreate == \E p, q \in Presences : p.user # q.user /\ p.activities = q.activities /\ Observe(<<p, q>>)

\* Ten minutes have passed since a failed lookup.  (A day after one that
\* succeeded the name is looked up again; names do not change here.)
NameDue(p) ==
    /\ bot = "up" /\ p \notin state.due /\ p \notin lookups
    /\ \A i \in DOMAIN state.board : state.board[i].user = p => ~state.board[i].named
    /\ state' = [state EXCEPT !.due = @ \cup {p}]
    /\ UNCHANGED <<clock, bot, lookups, saver, pub, disk, public, faults, restarts, done, apart>>

RefreshName(p) ==
    /\ bot \in {"up", "stopping"} /\ p \in lookups \cap LookedUp
    /\ lookups' = lookups \ {p}
    /\ \/ /\ state' = [state EXCEPT !.board = Rename(@, p),
                                    !.unsaved = @ \/ Rename(state.board, p) # state.board]
          /\ UNCHANGED faults
       \/ /\ faults < MaxFaults /\ faults' = faults + 1
          /\ UNCHANGED state
    /\ UNCHANGED <<clock, bot, saver, pub, disk, public, restarts, done, apart>>

\* A signal, or a gateway closed for good.
Shutdown ==
    /\ bot = "up"
    /\ bot' = "stopping"
    /\ UNCHANGED <<clock, state, lookups, saver, pub, disk, public, faults, restarts, done, apart>>

Exit ==
    /\ bot = "stopping" /\ saver.pc = "done" /\ pub.pc = "done"
    /\ bot' = "off"
    /\ lookups' = {}
    /\ UNCHANGED <<clock, state, saver, pub, disk, public, faults, restarts, done, apart>>
-----------------------------------------------------------------------------
(* A put answers, or its answer is lost, or it does nothing.                *)

Outcomes == {"ok", "lost", "failed"}
Put(object, copy, o) == IF o = "failed" THEN object ELSE [updated |-> copy.updated, entries |-> copy.entries]
Costs(o) == /\ o # "ok" => faults < MaxFaults
            /\ faults' = IF o = "ok" THEN faults ELSE faults + 1

(* save_loop *)

\* On a tick or on the stop; an unchanged board is not saved.
SaveBegin ==
    /\ bot \in {"up", "stopping"} /\ saver.pc = "idle"
    /\ \E last \in (IF bot = "stopping" THEN BOOLEAN ELSE {FALSE}) :
        IF state.unsaved
        THEN /\ state' = [state EXCEPT !.unsaved = FALSE]
             /\ saver' = [saver EXCEPT !.pc = "saving", !.last = last, !.copy = state.board]
        ELSE /\ saver' = [saver EXCEPT !.pc = IF last THEN "done" ELSE "idle"]
             /\ UNCHANGED state
    /\ UNCHANGED <<clock, bot, lookups, pub, disk, public, faults, restarts, done, apart>>

ClearedAfterwards(o) == o # "ok"
Unsaved(o) == state.unsaved \/ o # "ok"

SaveEnd ==
    /\ bot \in {"up", "stopping"} /\ saver.pc = "saving"
    /\ \E o \in Outcomes :
        /\ Costs(o)
        /\ disk' = Put(disk, [updated |-> FALSE, entries |-> saver.copy], o)
        /\ state' = [state EXCEPT !.unsaved = Unsaved(o)]
        /\ saver' = [Idle EXCEPT !.pc = IF saver.last THEN "done" ELSE "idle", !.failed = (o # "ok")]
    /\ UNCHANGED <<clock, bot, lookups, pub, public, restarts, done, apart>>
-----------------------------------------------------------------------------
(* publish_loop *)

PublisherStops ==
    /\ bot = "stopping" /\ pub.pc = "wait"
    /\ pub' = [pub EXCEPT !.pc = "done"]
    /\ UNCHANGED <<clock, bot, state, lookups, saver, disk, public, faults, restarts, done, apart>>

\* publish_top, up to the upload.
Take(entries) == SubSeq(entries, 1, IF Len(entries) < TopSize THEN Len(entries) ELSE TopSize)

PublishBegin ==
    /\ bot \in {"up", "stopping"} /\ pub.pc = "wait" /\ pub.sleep = 0
    /\ pub' = [pub EXCEPT !.pc = "saving", !.top = Take(state.board)]
    /\ done' = done \cup {pub.next}
    /\ UNCHANGED <<clock, bot, state, lookups, saver, disk, public, faults, restarts, apart>>

Again == Waiting(NextPublication(IF pub.next > clock THEN pub.next ELSE clock), clock)

Published(o) == IF o = "ok" THEN [updated |-> TRUE, entries |-> pub.top] ELSE state.published

Posts(o) == o = "ok"

PublishEnd ==
    /\ bot \in {"up", "stopping"} /\ pub.pc = "saving"
    /\ \E o \in Outcomes :
        /\ Costs(o)
        /\ public' = Put(public, [updated |-> TRUE, entries |-> pub.top], o)
        /\ state' = [state EXCEPT !.published = Published(o)]
        /\ pub' = IF Posts(o) THEN [pub EXCEPT !.pc = "posting", !.posts = Standings(pub.top)] ELSE Again
        /\ apart' = (IF o = "ok" THEN FALSE ELSE apart \/ o = "lost")
    /\ UNCHANGED <<clock, bot, lookups, saver, disk, restarts, done>>

\* post: the first message that fails is the last.
Post ==
    /\ bot \in {"up", "stopping"} /\ pub.pc = "posting"
    /\ \/ /\ pub.posts # <<>>
          /\ pub' = [pub EXCEPT !.posts = Tail(@)]
          /\ UNCHANGED faults
       \/ /\ pub.posts # <<>> /\ faults < MaxFaults
          /\ faults' = faults + 1
          /\ pub' = [pub EXCEPT !.posts = <<>>]
       \/ /\ pub.posts = <<>>
          /\ pub' = Again
          /\ UNCHANGED faults
    /\ UNCHANGED <<clock, bot, state, lookups, saver, disk, public, restarts, done, apart>>
-----------------------------------------------------------------------------
(* Time, and the process being killed.                                      *)

Tick ==
    /\ clock < MaxTime
    /\ clock' = clock + 1
    /\ pub' = [pub EXCEPT !.sleep = IF @ > 0 THEN @ - 1 ELSE 0]
    /\ UNCHANGED <<bot, state, lookups, saver, disk, public, faults, restarts, done, apart>>

\* The machine's clock is set back; sleeping goes by another clock.
ClockBack ==
    /\ clock > 0 /\ faults < MaxFaults
    /\ clock' = clock - 1 /\ faults' = faults + 1
    /\ UNCHANGED <<bot, state, lookups, saver, pub, disk, public, restarts, done, apart>>

Down == [board |-> <<>>, unsaved |-> FALSE, published |-> Absent, due |-> {}]

\* A put under way may still be carried out.
Crash ==
    /\ bot \in {"up", "stopping"} /\ restarts < MaxRestarts
    /\ bot' = "down"
    /\ state' = Down /\ lookups' = {} /\ saver' = Idle /\ pub' = Waiting(0, 0)
    /\ disk' \in {disk} \cup (IF saver.pc = "saving" THEN {[updated |-> FALSE, entries |-> saver.copy]} ELSE {})
    /\ public' \in {public} \cup (IF pub.pc = "saving" THEN {[updated |-> TRUE, entries |-> pub.top]} ELSE {})
    /\ apart' = FALSE
    /\ UNCHANGED <<clock, faults, restarts, done>>
-----------------------------------------------------------------------------
Init ==
    /\ clock = 0 /\ bot = "down"
    /\ state = Down /\ lookups = {} /\ saver = Idle /\ pub = Waiting(0, 0)
    /\ disk = Absent /\ public = Absent
    /\ faults = 0 /\ restarts = 0
    /\ done = {} /\ apart = FALSE

Over == bot = "off" \/ (bot = "down" /\ restarts = MaxRestarts)

Next ==
    \/ Start \/ PresenceUpdate \/ GuildCreate
    \/ \E p \in Players : NameDue(p) \/ RefreshName(p)
    \/ Shutdown \/ Exit
    \/ SaveBegin \/ SaveEnd
    \/ PublisherStops \/ PublishBegin \/ PublishEnd \/ Post
    \/ Tick \/ ClockBack \/ Crash
    \/ Over /\ UNCHANGED vars

\* The runtime runs both tasks: a tick of the saver comes, and its put ends.
Fairness == WF_vars(SaveBegin) /\ WF_vars(SaveEnd)

Spec == Init /\ [][Next]_vars /\ Fairness
-----------------------------------------------------------------------------
Entries == [user : Players, named : BOOLEAN, bits : 1..MaxBits, at : 0..MaxTime]

\* The state keeps its shape.
TypeOK ==
    /\ clock \in 0..MaxTime /\ bot \in {"down", "up", "stopping", "off"}
    /\ state.due \subseteq Players /\ lookups \subseteq Players
    /\ saver.pc \in {"idle", "saving", "done"} /\ pub.pc \in {"wait", "saving", "posting", "done"}
    /\ \A b \in {state.board, disk.entries, public.entries, state.published.entries} :
        \A i \in DOMAIN b : b[i] \in Entries /\ \A j \in DOMAIN b : b[i].user = b[j].user => i = j

\* Boards are ranked: every copy of the scores lists a higher total before a
\* lower one, and of equal totals the one achieved first (Leaderboard::record).
BoardsRanked ==
    \A b \in {state.board, disk.entries, public.entries, pub.top} :
        \A i, j \in DOMAIN b : i < j =>
            \/ b[i].bits > b[j].bits
            \/ b[i].bits = b[j].bits /\ b[i].at <= b[j].at

\* No score is forgotten: what the state object lacks is either marked unsaved
\* or in a save that has not answered, so a crash loses at most what one save
\* interval recorded (save_leaderboard clears the mark before it uploads).
NoScoreForgotten ==
    bot \in {"up", "stopping"} =>
        \/ state.unsaved
        \/ saver.pc = "saving" /\ saver.copy = state.board
        \/ disk.entries = state.board

\* A clean exit keeps every score: the saver's last save comes after the last
\* event, and only its failing can lose one (save_loop on stop).
CleanExitSaves ==
    bot = "off" /\ ~saver.failed =>
        \A p \in Players : Best([entries |-> state.board], p) = Best(disk, p)

\* The public file and /rank agree between publications, unless an upload's
\* answer was lost or the file could not be read (publish_top, main).
RankIsPublished ==
    bot \in {"up", "stopping"} /\ pub.pc # "saving" /\ ~apart =>
        \A p \in Players : Rank(state.published, p) = Rank(public, p)

\* What is posted is what the public file shows while it is posted
\* (publish_loop posts only what publish_top uploaded).
PostIsPublic == pub.pc = "posting" => public.entries = pub.top

\* The posts list every player of the published top once, in order, in
\* messages within Discord's limit (messages::standings).
PostsFit ==
    LET ms == Standings(pub.top) IN
    /\ \A i \in DOMAIN ms : ms[i].length <= Limit
    /\ FlattenSeq([i \in DOMAIN ms |-> ms[i].places]) = [i \in DOMAIN pub.top |-> i]

\* The saved scores never drop: no restart, failed read or lost answer makes
\* the state object forget or lower a player's best (Store::load, save).
NoneDrops == \A p \in Players : Best(disk', p) >= Best(disk, p)
\* Each slot is published at most once, whatever restarts come between and
\* also when the clock is set back under a running bot (publish_loop).
NewSlot == pub.pc = "wait" /\ pub'.pc = "saving" => pub.next \notin done
\* Every score is in the state object in the end, unless the bot dies or the
\* save of its exit fails: a save that fails is tried again (save_loop).
ScoresSaved ==
    \A p \in Players : \A b \in 1..MaxBits :
        (bot = "up" /\ Best([entries |-> state.board], p) >= b)
            ~> (Best(disk, p) >= b \/ bot = "down" \/ (saver.pc = "done" /\ saver.failed))
=============================================================================
