---------------------------- MODULE Synchronizer ----------------------------
(***************************************************************************)
(* The synchronizer follows the beacon chain slot by slot and keeps, in    *)
(* Postgres, one row per slot with the state derived there (sync_loop.rs,  *)
(* catchup.rs, node.rs, state_log_db.rs).  Merkle nodes live in RocksDB,   *)
(* which is synced before the row that names their root is committed.      *)
(*                                                                         *)
(* The chain is a tree of blocks of which `tip' is the live head: it is    *)
(* extended, and reorged, between any two requests of the synchronizer.    *)
(***************************************************************************)
EXTENDS StateMachine, FiniteSets

CONSTANTS
    Blocks,      \* beacon blocks, by root
    InitBlock,   \* the finalized block of INIT_START_SLOT
    Slot,        \* Slot[b]: the slot of b
    Parent,      \* Parent[b]: its parent
    Bid,         \* blocks that carry a payload bid (from Gloas on)
    Full,        \* bids that build on the payload of the parent's bid
    Number,      \* Number[b]: the execution block number of b's payload
    Blobs,       \* Blobs[b]: the target blobs of b's payload, in order
    InitSlot,    \* INIT_START_SLOT
    MaxSlot,     \* bound: the last slot; its block is never reorged out
    BatchSize,   \* catchup_batch_size
    MaxReorgs,   \* bound on the reorgs of a behaviour
    MaxFaults,   \* bound on node failures and crashes
    FlakySlots,  \* slots for which a failing node may answer 404
    Unasked      \* no answer yet

Slots == InitSlot .. MaxSlot

ASSUME TreeAssumption ==
    /\ InitSlot \in Nat \ {0} /\ MaxSlot \in Nat /\ BatchSize \in Nat \ {0}
    /\ MaxReorgs \in Nat /\ MaxFaults \in Nat
    /\ NoBlock \notin Blocks /\ Unasked \notin Blocks \cup {NoBlock}
    /\ InitBlock \in Blocks \ Bid /\ Full \subseteq Bid /\ Bid \subseteq Blocks
    /\ Slot \in [Blocks -> Slots] /\ Slot[InitBlock] = InitSlot
    /\ Number \in [Blocks -> Nat]
    /\ \A b \in Blocks \ {InitBlock} :
          Parent[b] \in Blocks /\ Slot[Parent[b]] < Slot[b]

VARIABLES
    tip,      \* live head of the beacon chain
    reorgs,   \* reorgs so far
    faults,   \* failures so far
    log,      \* Postgres: slots and tx_statuses, by slot
    index,    \* Postgres: created_index, by commitment
    disk,     \* states whose Merkle nodes are on disk
    memory,   \* states whose nodes are written but not synced
    phase,    \* where the loop is
    next,     \* next_slot
    seen,     \* head_tracker.head
    got,      \* answers to the header requests in flight, by slot
    upto,     \* last slot of the batch, or the single slot
    batching, \* TRUE in the batch path
    walk,     \* slot of find_divergence_slot
    work      \* the processed slot waiting to be committed

chainVars == <<tip, reorgs>>
dbVars == <<log, index, disk>>
loopVars == <<phase, next, seen, got, upto, batching, walk, work, memory>>
vars == <<chainVars, faults, dbVars, loopVars>>

NoRow == [committed |-> FALSE, root |-> NoBlock, state |-> EmptyState,
          statuses |-> <<>>]
NoEntry == [pos |-> 0, slot |-> 0]
NoWork == [root |-> NoBlock, state |-> EmptyState, added |-> {},
           statuses |-> <<>>]
NoAnswers == [s \in Slots |-> Unasked]
-----------------------------------------------------------------------------
(* The chain *)

Ancestors[b \in Blocks] ==
    IF b = InitBlock THEN {b} ELSE {b} \cup Ancestors[Parent[b]]

\* The block of slot s on the live chain, NoBlock when there is none.
LiveAt(s) ==
    IF \E b \in Blocks : Slot[b] = s /\ b \in Ancestors[tip]
    THEN CHOOSE b \in Blocks : Slot[b] = s /\ b \in Ancestors[tip]
    ELSE NoBlock

\* The block whose execution payload becomes canonical with b.
canonical_payload(b) ==
    IF b \notin Bid THEN b
    ELSE IF b \in Full /\ Parent[b] \in Bid THEN Parent[b]
    ELSE NoBlock

Extend ==
    /\ \E b \in Blocks \ {InitBlock} : Parent[b] = tip /\ tip' = b
    /\ UNCHANGED <<reorgs, faults, dbVars, loopVars>>

Reorg ==
    /\ reorgs < MaxReorgs /\ Slot[tip] < MaxSlot
    /\ \E b \in Blocks : tip \notin Ancestors[b] /\ tip' = b
    /\ reorgs' = reorgs + 1
    /\ UNCHANGED <<faults, dbVars, loopVars>>
-----------------------------------------------------------------------------
(* Reading the committed log *)

slot_root(s) == log[s].root
HasState(s) == log[s].state.count > 0

IsLastCommitted(s) ==
    log[s].committed /\ \A r \in Slots : log[r].committed => r <= s

\* p holds the nearest committed block root before s.
IsLatestRoot(p, s) ==
    /\ p < s /\ slot_root(p) # NoBlock
    /\ \A r \in Slots : r < s /\ slot_root(r) # NoBlock => r <= p

IsHead(s) == HasState(s) /\ \A r \in Slots : HasState(r) => r <= s

don_state_at_head ==
    IF \E s \in Slots : IsHead(s)
    THEN log[CHOOSE s \in Slots : IsHead(s)].state
    ELSE EmptyState

recent_state_roots(base) ==
    {log[s].state : s \in {r \in Slots :
        HasState(r) /\ log[r].state.number >= base.number - MaxAge}}

created_indices == [o \in Objs |-> index[o].pos]
-----------------------------------------------------------------------------
(* The answers of the beacon node *)

\* A header request for slot s is answered with `answer'.  A failing node may
\* answer 404 for a slot that has a block: the client reports it as missing.
Asked(s, answer) ==
    \/ answer = LiveAt(s) /\ UNCHANGED faults
    \/ /\ s \in FlakySlots /\ faults < MaxFaults /\ LiveAt(s) # NoBlock
       /\ answer = NoBlock
       /\ faults' = faults + 1

\* Everything the loop keeps in memory is dropped; it starts over from the
\* committed progress.
Reset ==
    /\ phase' = "start" /\ next' = InitSlot /\ seen' = InitBlock
    /\ got' = NoAnswers /\ upto' = InitSlot /\ batching' = FALSE
    /\ walk' = InitSlot /\ work' = NoWork
-----------------------------------------------------------------------------
(* Starting *)

\* initialize_sync: the head, then the slot after the last committed one.
Resume ==
    /\ phase = "start"
    /\ \E s \in Slots : IsLastCommitted(s) /\ next' = s + 1
    /\ phase' = "idle" /\ seen' = tip
    /\ UNCHANGED <<chainVars, faults, dbVars, got, upto, batching, walk, work,
                   memory>>

\* initialize_sync on an empty log: validate_genesis_slot asks for the header
\* of the slot, and a missing one is an error that ends the synchronizer.
Begin ==
    /\ phase = "start" /\ \A s \in Slots : ~log[s].committed
    /\ \E answer \in Blocks \cup {NoBlock} :
          /\ Asked(InitSlot, answer)
          /\ phase' = IF answer = NoBlock THEN "halted" ELSE "idle"
    /\ next' = InitSlot /\ seen' = tip
    /\ UNCHANGED <<chainVars, dbVars, got, upto, batching, walk, work, memory>>
-----------------------------------------------------------------------------
(* Finding out what a slot holds *)

Behind == Slot[seen] - next

\* fetch_batch: the headers of a batch are requested concurrently.
StartBatch ==
    /\ phase = "idle" /\ next <= MaxSlot /\ Behind >= BatchSize
    /\ phase' = "fetch" /\ upto' = next + BatchSize - 1 /\ batching' = TRUE
    /\ UNCHANGED <<chainVars, faults, dbVars, next, seen, got, walk, work,
                   memory>>

FetchHeader ==
    /\ phase = "fetch"
    /\ \E s \in next .. upto : \E answer \in Blocks \cup {NoBlock} :
          /\ got[s] = Unasked
          /\ Asked(s, answer)
          /\ got' = [got EXCEPT ![s] = answer]
    /\ phase' = IF \A s \in next .. upto : got'[s] # Unasked
                THEN "ready" ELSE "fetch"
    /\ UNCHANGED <<chainVars, dbVars, next, seen, upto, batching, walk, work,
                   memory>>

\* next_slot_header, at or past the tracked head: resolve_slot_from_head reads
\* the head again.  It waits while the head is behind, takes the head itself
\* when it is at the slot, and asks for the slot when the head has passed it.
RefreshHead ==
    /\ phase = "idle" /\ next <= MaxSlot /\ Behind < BatchSize
    /\ Slot[seen] <= next
    /\ Slot[tip] >= next
    /\ seen' = tip /\ upto' = next /\ batching' = FALSE
    /\ IF Slot[tip] = next
       THEN phase' = "ready" /\ got' = [got EXCEPT ![next] = tip]
       ELSE phase' = "fetch" /\ got' = got
    /\ UNCHANGED <<chainVars, faults, dbVars, next, walk, work, memory>>

\* next_slot_header behind the tracked head: ask for the slot.
LookBehind ==
    /\ phase = "idle" /\ next <= MaxSlot /\ Behind < BatchSize
    /\ Slot[seen] > next
    /\ phase' = "fetch" /\ upto' = next /\ batching' = FALSE
    /\ UNCHANGED <<chainVars, faults, dbVars, next, seen, got, walk, work,
                   memory>>
-----------------------------------------------------------------------------
(* Processing the next slot, whose header is got[next] *)

\* Mutant: the parent linkage is not checked.
Diverged_unlinked(b) ==
    IF b = NoBlock THEN slot_root(next) # NoBlock
    ELSE slot_root(next) \notin {NoBlock, b}

\* handle_missing_slot and handle_reorgs_for_present_slot: the answer for the
\* slot does not continue the stored chain.
Diverged(b) ==
    IF b = NoBlock THEN slot_root(next) # NoBlock
    ELSE \/ /\ \E s \in Slots : s >= next /\ log[s].committed
            /\ slot_root(next) = NoBlock
         \/ slot_root(next) \notin {NoBlock, b}
         \/ /\ next # InitSlot
            /\ \E p \in Slots : IsLatestRoot(p, next) /\ Parent[b] # slot_root(p)

\* latest_block_root_before fails: no block was committed before the slot.
Rootless(b) ==
    /\ b # NoBlock /\ next # InitSlot
    /\ ~\E p \in Slots : IsLatestRoot(p, next)

StartRewind ==
    /\ phase = "ready" /\ Diverged(got[next])
    /\ phase' = "walk" /\ walk' = next
    /\ UNCHANGED <<chainVars, faults, dbVars, next, seen, got, upto, batching,
                   work, memory>>

\* Not a node error, so run_sync_forever returns it.
Halt ==
    /\ phase = "ready" /\ ~Diverged(got[next]) /\ Rootless(got[next])
    /\ phase' = "halted"
    /\ UNCHANGED <<chainVars, faults, dbVars, next, seen, got, upto, batching,
                   walk, work, memory>>

\* A slot without a block, or whose block makes no payload canonical, is
\* committed without a state.
ProcessEmpty ==
    /\ phase = "ready" /\ ~Diverged(got[next]) /\ ~Rootless(got[next])
    /\ got[next] = NoBlock \/ canonical_payload(got[next]) = NoBlock
    /\ work' = [NoWork EXCEPT !.root = got[next]]
    /\ phase' = "synced"
    /\ UNCHANGED <<chainVars, faults, dbVars, next, seen, got, upto, batching,
                   walk, memory>>

\* derive_from_context: the Merkle nodes of the candidate are written.
Derive ==
    /\ phase = "ready" /\ ~Diverged(got[next]) /\ ~Rootless(got[next])
    /\ got[next] # NoBlock /\ canonical_payload(got[next]) # NoBlock
    /\ LET owner == canonical_payload(got[next])
           base == don_state_at_head
           d == derive_slot_state(base, recent_state_roots(base), owner,
                                  Number[owner], Blobs[owner], created_indices)
       IN /\ work' = [root |-> got[next], state |-> d.state,
                      added |-> d.added, statuses |-> d.statuses]
          /\ memory' = memory \cup {d.state}
    /\ phase' = "derived"
    /\ UNCHANGED <<chainVars, faults, dbVars, next, seen, got, upto, batching,
                   walk>>

\* Mutant: the root is committed while its nodes are still in memory.
SyncNodes_late ==
    /\ phase = "derived"
    /\ phase' = "synced"
    /\ UNCHANGED <<chainVars, faults, log, index, disk, memory, next, seen, got,
                   upto, batching, walk, work>>

\* Node::commit_slot syncs the nodes before it commits their root.
SyncNodes ==
    /\ phase = "derived"
    /\ disk' = disk \cup memory /\ memory' = {}
    /\ phase' = "synced"
    /\ UNCHANGED <<chainVars, faults, log, index, next, seen, got, upto,
                   batching, walk, work>>

\* The keys of the inserted rows exist already: the transaction fails.
Conflict ==
    \/ log[next].committed
    \/ work.root # NoBlock /\ \E s \in Slots : slot_root(s) = work.root
    \/ \E o \in work.added : index[o].pos # 0

Inserted ==
    [o \in Objs |->
        IF o \in work.added
        THEN [pos |-> CHOOSE i \in DOMAIN work.state.created :
                          work.state.created[i] = o,
              slot |-> next]
        ELSE index[o]]

CommitSlot ==
    /\ phase = "synced"
    /\ IF Conflict
       THEN phase' = "halted" /\ UNCHANGED <<log, index, next, got, work>>
       ELSE /\ log' = [log EXCEPT ![next] =
                  [committed |-> TRUE, root |-> work.root,
                   state |-> work.state, statuses |-> work.statuses]]
            /\ index' = Inserted
            /\ next' = next + 1
            /\ got' = [got EXCEPT ![next] = Unasked]
            /\ work' = NoWork
            /\ phase' = IF next < upto THEN "ready" ELSE "idle"
    /\ UNCHANGED <<chainVars, faults, disk, seen, upto, batching, walk, memory>>
-----------------------------------------------------------------------------
(* Rewinding *)

\* rollback_to_slot: the rows after `keep' and their index entries go in one
\* transaction.
rollback_to_slot(keep) ==
    /\ log' = [s \in Slots |-> IF s > keep THEN NoRow ELSE log[s]]
    /\ index' = [o \in Objs |-> IF index[o].slot > keep THEN NoEntry
                                ELSE index[o]]

\* Mutant: the walk goes on past a block both chains have.
WalkBack_past ==
    /\ phase = "walk" /\ walk > InitSlot
    /\ \E answer \in Blocks \cup {NoBlock} : Asked(walk - 1, answer)
    /\ walk' = walk - 1
    /\ UNCHANGED <<chainVars, dbVars, phase, next, seen, got, upto, batching,
                   work, memory>>

\* find_divergence_slot: one slot further back, as the stored and the live
\* block differ there or neither chain has one.
WalkBack ==
    /\ phase = "walk" /\ walk > InitSlot
    /\ \E answer \in Blocks \cup {NoBlock} :
          /\ Asked(walk - 1, answer)
          /\ slot_root(walk - 1) = NoBlock \/ slot_root(walk - 1) # answer
    /\ walk' = walk - 1
    /\ UNCHANGED <<chainVars, dbVars, phase, next, seen, got, upto, batching,
                   work, memory>>

\* rewind_for_reorg, at the last common block or at INIT_START_SLOT.
Rewind ==
    /\ phase = "walk"
    /\ \/ walk = InitSlot /\ UNCHANGED faults
       \/ /\ walk > InitSlot /\ slot_root(walk - 1) # NoBlock
          /\ Asked(walk - 1, slot_root(walk - 1))
    /\ rollback_to_slot(walk - 1)
    /\ next' = walk /\ got' = NoAnswers
    /\ phase' = IF batching THEN "refresh" ELSE "idle"
    /\ UNCHANGED <<chainVars, disk, seen, upto, batching, walk, work, memory>>

\* After a rewind in a batch the head is read again.
RereadHead ==
    /\ phase = "refresh"
    /\ seen' = tip /\ phase' = "idle"
    /\ UNCHANGED <<chainVars, faults, dbVars, next, got, upto, batching, walk,
                   work, memory>>
-----------------------------------------------------------------------------
(* Failures *)

\* A request fails: run_sync_forever starts over.  Processing a batch makes no
\* requests.
NodeError ==
    /\ faults < MaxFaults
    /\ \/ phase \in {"idle", "fetch", "walk", "refresh"}
       \/ phase = "ready" /\ ~batching
    /\ Reset /\ faults' = faults + 1
    /\ UNCHANGED <<chainVars, dbVars, memory>>

\* The machine stops and starts again: nodes that were not synced are lost.
Crash ==
    /\ faults < MaxFaults /\ phase \notin {"start", "halted"}
    /\ Reset /\ faults' = faults + 1 /\ memory' = {}
    /\ UNCHANGED <<chainVars, dbVars>>
-----------------------------------------------------------------------------
Init ==
    /\ tip \in Blocks /\ reorgs = 0 /\ faults = 0
    /\ log = [s \in Slots |-> NoRow] /\ index = [o \in Objs |-> NoEntry]
    /\ disk = {} /\ memory = {}
    /\ phase = "start" /\ next = InitSlot /\ seen = InitBlock
    /\ got = NoAnswers /\ upto = InitSlot /\ batching = FALSE
    /\ walk = InitSlot /\ work = NoWork

Loop ==
    \/ Resume \/ Begin
    \/ StartBatch \/ FetchHeader \/ RefreshHead \/ LookBehind
    \/ StartRewind \/ Halt \/ ProcessEmpty \/ Derive \/ SyncNodes \/ CommitSlot
    \/ WalkBack \/ Rewind \/ RereadHead

Next == Loop \/ Extend \/ Reorg \/ NodeError \/ Crash

Spec == Init /\ [][Next]_vars

\* The loop runs until shutdown and the chain keeps producing blocks.
FairSpec == Spec /\ WF_vars(Loop) /\ WF_vars(Extend)
-----------------------------------------------------------------------------
(* The reference: the state of a chain, by recursion over its blocks *)

RefAccepts(st, blob, roots, number) ==
    /\ blob.tx # NoTx
    /\ \E r \in roots : r.block = blob.ground /\ number - r.number <= MaxAge
    /\ IsInjective(Creates[blob.tx]) /\ IsInjective(Nullifies[blob.tx])
    /\ Range(Creates[blob.tx]) \cap Range(st.created) = {}
    /\ Range(Nullifies[blob.tx]) \cap st.nullifiers = {}

\* Replay[b]: the state after b and the states of the chain up to b.
Replay[b \in Blocks] ==
    LET prev == IF b = InitBlock THEN [state |-> EmptyState, roots |-> {}]
                ELSE Replay[Parent[b]]
        owner == canonical_payload(b)
        Step(st, blob) ==
            IF RefAccepts(st, blob, prev.roots, Number[owner])
            THEN [st EXCEPT !.created = @ \o Creates[blob.tx],
                            !.nullifiers = @ \cup Range(Nullifies[blob.tx])]
            ELSE st
        new[k \in 0 .. Len(Blobs[owner])] ==
            IF k = 0 THEN [prev.state EXCEPT !.block = owner, !.number = Number[owner],
                                             !.count = @ + 1]
            ELSE Step(new[k - 1], Blobs[owner][k])
        last == new[Len(Blobs[owner])]
    IN IF owner = NoBlock THEN prev
       ELSE [state |-> last, roots |-> prev.roots \cup {last}]
-----------------------------------------------------------------------------
(* Properties *)

States == [block : Blocks \cup {NoBlock}, number : Nat, created : Seq(Objs),
           nullifiers : SUBSET Objs, count : Nat]

TypeOK ==
    /\ tip \in Blocks /\ seen \in Blocks
    /\ reorgs \in 0 .. MaxReorgs /\ faults \in 0 .. MaxFaults
    /\ \A s \in Slots : /\ log[s].committed \in BOOLEAN
                        /\ log[s].root \in Blocks \cup {NoBlock}
                        /\ log[s].state \in States
                        /\ log[s] = NoRow \/ log[s].committed
    /\ index \in [Objs -> [pos : Nat, slot : Nat]]
    /\ disk \subseteq States /\ memory \subseteq States
    /\ phase \in {"start", "idle", "fetch", "ready", "derived", "synced",
                  "walk", "refresh", "halted"}
    /\ next \in InitSlot .. MaxSlot + 1 /\ upto \in Slots /\ walk \in Slots
    /\ got \in [Slots -> Blocks \cup {NoBlock, Unasked}]
    /\ batching \in BOOLEAN
    /\ work.root \in Blocks \cup {NoBlock} /\ work.state \in States
    /\ work.added \subseteq Objs

\* The committed slots have no gap, every stored root is a block of its slot,
\* and each links to the stored root before it: whatever mix of answers from
\* before and after a reorg the loop was given, the log is one chain.
LogIsChain ==
    /\ \A s \in Slots : log[s].committed =>
          \A r \in InitSlot .. s : log[r].committed
    /\ \A s \in Slots : slot_root(s) # NoBlock =>
          /\ Slot[slot_root(s)] = s
          /\ \A p \in Slots : IsLatestRoot(p, s) =>
                Parent[slot_root(s)] = slot_root(p)

\* The state at a stored block is the one the reference replay of its chain
\* gives, however many rewinds and restarts led there.
StateIsReplay ==
    \A s \in Slots : slot_root(s) # NoBlock =>
        LET b == slot_root(s) IN
        IF canonical_payload(b) = NoBlock THEN log[s].state = EmptyState
        ELSE log[s].state = Replay[b].state

\* A membership query reads the head state and created_index in one snapshot.
\* It finds an object exactly when the head state holds it.
IndexExact ==
    \A o \in Objs :
        LET head == don_state_at_head IN
        /\ index[o].pos # 0 <=> o \in Range(head.created)
        /\ index[o].pos # 0 =>
              /\ created_array_holds(head.created, index[o].pos, o)
              /\ log[index[o].slot].committed

\* A committed root never outlives its Merkle nodes: a crash between the two
\* stores leaves nodes without a root, never a root without nodes.
RootsOnDisk == \A s \in Slots : HasState(s) => log[s].state \in disk

\* A transaction is reported applied by at most one blob of the stored chain,
\* and then the head state holds all it created and nullified.
AppliedOnce ==
    \A t \in Txs :
        LET hits == {h \in Slots \X (1 .. MaxSlot) :
                        /\ h[2] \in DOMAIN log[h[1]].statuses
                        /\ log[h[1]].statuses[h[2]] = [tx |-> t, applied |-> TRUE]}
        IN /\ Cardinality(hits) <= 1
           /\ hits # {} =>
                 /\ Range(Creates[t]) \subseteq Range(don_state_at_head.created)
                 /\ Range(Nullifies[t]) \subseteq don_state_at_head.nullifiers

\* "A node failure delays syncing instead of stopping it" (sync_loop.rs:40).
NeverHalts == phase # "halted"

\* The walk of a rewind stops at INIT_START_SLOT: the genesis row stays.
GenesisKept ==
    [][log[InitSlot].committed => log'[InitSlot] = log[InitSlot]]_vars

\* Once the chain has its last block the log comes to be that chain, with the
\* skipped slots empty.
Converges ==
    <>[](\A s \in Slots : log[s].committed /\ slot_root(s) = LiveAt(s))

\* The last stored block.
LastRoot ==
    IF \E s \in Slots : IsLatestRoot(s, MaxSlot + 1)
    THEN slot_root(CHOOSE s \in Slots : IsLatestRoot(s, MaxSlot + 1))
    ELSE NoBlock

Follower ==
    INSTANCE ChainFollower
    WITH at <- LastRoot, state <- don_state_at_head,
         StateOf <- [b \in Blocks \cup {NoBlock} |->
                        IF b = NoBlock THEN EmptyState ELSE Replay[b].state]

\* The log implements ChainFollower: every commit takes in one child of the
\* last block together with the state the reference replay gives for it, every
\* rewind drops blocks from the end and the state goes back with them, and no
\* other step, crash or failed request shows in what readers see.
FollowsChain == Follower!Spec
=============================================================================
