------------------------------ MODULE Archiver ------------------------------
(***************************************************************************)
(* The archiver keeps the blobs sent to the filter address on disk         *)
(* (services/archiver: main.rs, node.rs).  A block is a directory          *)
(* by_root/<root> with its blobs and header.json; by_slot/<slot> is a      *)
(* symlink to it.  header.json is written under a .tmp name and renamed    *)
(* last, and a block without it is removed at the next start.              *)
(*                                                                         *)
(* Every step below is one change of the file system or one request to a   *)
(* node, so that the process can stop, and the chain change, between any   *)
(* two of them.  What a crash keeps is what was written: writes reordered  *)
(* by a power loss are not modelled.                                       *)
(***************************************************************************)
EXTENDS Naturals, FiniteSets

CONSTANTS
    Blocks,      \* beacon blocks, by root
    InitBlock,   \* the block of init_start_slot, finalized
    Slot,        \* Slot[b]: the slot of b
    Parent,      \* Parent[b]: its parent
    Bid,         \* blocks that carry a payload bid (from Gloas on)
    Full,        \* bids that build on the payload of the parent's bid
    Blobs,       \* Blobs[b]: the blobs of b's payload sent to filter_address
    InitSlot,    \* init_start_slot
    MaxSlot,     \* bound: the last slot; its block is never reorged out
    MaxReorgs,   \* bound on the reorgs of a behaviour
    MaxFaults,   \* bound on node failures
    MaxCrashes,  \* bound on crashes of the process
    FlakySlots,  \* slots for which a failing node may answer 404
    NoBlock

Slots == InitSlot .. MaxSlot

\* The blocks are a tree that grows from the block of init_start_slot.
Tree ==
    /\ InitSlot \in Nat /\ MaxSlot \in Nat
    /\ MaxReorgs \in Nat /\ MaxFaults \in Nat /\ MaxCrashes \in Nat
    /\ NoBlock \notin Blocks /\ InitBlock \in Blocks /\ Bid \subseteq Blocks
    /\ Slot \in [Blocks -> Slots] /\ Slot[InitBlock] = InitSlot
    /\ Parent[InitBlock] \notin Blocks
    /\ \A b \in Blocks \ {InitBlock} : Parent[b] \in Blocks /\ Slot[Parent[b]] < Slot[b]

VARIABLES
    tip,      \* live head of the beacon chain
    reorgs,   \* reorgs so far
    faults,   \* node failures so far
    crashes,  \* crashes so far
    link,     \* by_slot: the symlink of each slot
    dir,      \* by_root: the directory of each block
    torn,     \* blocks whose removal a crash has cut short
    phase,    \* where follow_chain is
    slot,     \* the slot it asks for
    head,     \* the head it has seen
    prev,     \* prev_beacon_block_header
    cur,      \* the block being processed or removed
    owner,    \* the block whose payload is being archived
    back,     \* TRUE while last_header runs for a reorg
    api       \* the header the HTTP API serves

chainVars == <<tip, reorgs>>
diskVars == <<link, dir, torn>>
loopVars == <<phase, slot, head, prev, cur, owner, back>>
vars == <<chainVars, faults, crashes, diskVars, loopVars, api>>

NoDir == [made |-> FALSE, tmp |-> FALSE, header |-> FALSE, blobs |-> {}]
AllBlobs == UNION {Blobs[b] : b \in Blocks}
-----------------------------------------------------------------------------
(* The chain *)

Ancestors[b \in Blocks] ==
    IF b = InitBlock THEN {b} ELSE {b} \cup Ancestors[Parent[b]]

LiveAt(s) ==
    IF \E b \in Blocks : Slot[b] = s /\ b \in Ancestors[tip]
    THEN CHOOSE b \in Blocks : Slot[b] = s /\ b \in Ancestors[tip]
    ELSE NoBlock

Extend ==
    /\ \E b \in Blocks \ {InitBlock} : Parent[b] = tip /\ tip' = b
    /\ UNCHANGED <<reorgs, faults, crashes, diskVars, loopVars, api>>

Reorg ==
    /\ reorgs < MaxReorgs /\ Slot[tip] < MaxSlot
    /\ \E b \in Blocks : tip \notin Ancestors[b] /\ tip' = b
    /\ reorgs' = reorgs + 1
    /\ UNCHANGED <<faults, crashes, diskVars, loopVars, api>>
-----------------------------------------------------------------------------
(* Reading the store *)

Linked == {s \in Slots : link[s] # NoBlock}
Highest(s) == s \in Linked /\ \A r \in Linked : r <= s

\* The blobs of a block's directory; half-written files are not among them.
load_blobs_disk(b) == dir[b].blobs

\* What GET /blobs answers with: every blob asked for, or 404.
get_blobs(b, vhs) == IF vhs \subseteq load_blobs_disk(b) THEN vhs ELSE NoBlock

\* The directory a block's blobs go to, if any become canonical with b.
blobs_owner(b) ==
    IF b \notin Bid THEN b
    ELSE IF b \in Full /\ Parent[b] \in Bid THEN Parent[b]
    ELSE NoBlock

next_slot(p) == IF p = NoBlock THEN InitSlot ELSE Slot[p] + 1
-----------------------------------------------------------------------------
(* follow_chain: starting, and last_header *)

Start ==
    /\ phase = "start"
    /\ head' = tip
    /\ phase' = "scan" /\ back' = FALSE
    /\ UNCHANGED <<chainVars, faults, crashes, diskVars, slot, prev, cur, owner, api>>

\* The highest linked block is complete: archiving goes on after it.  After a
\* reorg its header, or none, is what the API serves from now on.
Found(p) ==
    /\ prev' = p /\ slot' = next_slot(p)
    /\ api' = IF back THEN p ELSE api
    /\ phase' = "check" /\ back' = FALSE
    /\ UNCHANGED <<chainVars, faults, crashes, diskVars, head, cur, owner>>

\* The highest linked block is incomplete: delete_block_data, and look again.
Stale(p) ==
    /\ cur' = p /\ phase' = "remove"
    /\ UNCHANGED <<chainVars, faults, crashes, diskVars, slot, head, prev,
                   owner, back, api>>

last_header ==
    /\ phase = "scan"
    /\ \/ Linked = {} /\ Found(NoBlock)
       \/ \E s \in Linked :
             /\ Highest(s)
             /\ \/ dir[link[s]].header /\ Found(link[s])
                \/ ~dir[link[s]].header /\ Stale(link[s])
-----------------------------------------------------------------------------
(* delete_block_data: remove_dir_all, then the symlink *)

\* remove_dir_all unlinks the entries of a directory in the order the file
\* system lists them.
RemoveEntry ==
    /\ phase = "remove"
    /\ \/ /\ dir[cur].tmp
          /\ dir' = [dir EXCEPT ![cur].tmp = FALSE]
       \/ /\ dir[cur].header
          /\ dir' = [dir EXCEPT ![cur].header = FALSE]
       \/ \E v \in dir[cur].blobs :
             dir' = [dir EXCEPT ![cur].blobs = @ \ {v}]
    /\ UNCHANGED <<chainVars, faults, crashes, link, torn, loopVars, api>>

RemoveDir ==
    /\ phase = "remove"
    /\ ~dir[cur].tmp /\ ~dir[cur].header /\ dir[cur].blobs = {}
    /\ dir' = [dir EXCEPT ![cur].made = FALSE]
    /\ torn' = torn \ {cur}
    /\ phase' = "unlink"
    /\ UNCHANGED <<chainVars, faults, crashes, link, slot, head, prev, cur,
                   owner, back, api>>

Unlink ==
    /\ phase = "unlink"
    /\ link' = [link EXCEPT ![Slot[cur]] = NoBlock]
    /\ phase' = "scan"
    /\ UNCHANGED <<chainVars, faults, crashes, dir, torn, slot, head, prev, cur,
                   owner, back, api>>
-----------------------------------------------------------------------------
(* follow_chain: one slot *)

\* The block of `slot' has been read.  With no stored block to compare it
\* with, its parent is not looked at.
Examine_unlinked(b) ==
    /\ cur' = b /\ phase' = "link"
    /\ UNCHANGED slot

Examine(b) ==
    IF prev # NoBlock /\ Parent[b] # prev
    THEN phase' = "back" /\ UNCHANGED <<slot, cur>>
    ELSE cur' = b /\ phase' = "link" /\ UNCHANGED slot

AskHeader ==
    /\ phase = "check" /\ slot <= Slot[head]
    /\ \/ /\ LiveAt(slot) # NoBlock /\ Examine(LiveAt(slot))
          /\ UNCHANGED faults
       \/ /\ \/ LiveAt(slot) = NoBlock /\ UNCHANGED faults
             \/ /\ LiveAt(slot) # NoBlock /\ slot \in FlakySlots
                /\ faults < MaxFaults /\ faults' = faults + 1
          /\ slot' = slot + 1
          /\ UNCHANGED <<phase, cur>>
    /\ UNCHANGED <<chainVars, crashes, diskVars, head, prev, owner, back, api>>

\* Past the head: it is asked for again until it reaches the slot.
PollHead ==
    /\ phase = "check" /\ slot > Slot[head]
    /\ head' = tip /\ tip # head
    /\ IF Slot[tip] = slot THEN Examine(tip) ELSE UNCHANGED <<phase, cur, slot>>
    /\ UNCHANGED <<chainVars, faults, crashes, diskVars, prev, owner, back, api>>

\* A reorg: walk down to the nearest stored block and remove it.  Everything
\* stored is complete here, so last_header finds the same block again while
\* nothing was deleted.
StepBack ==
    /\ phase = "back"
    /\ slot' = slot - 1
    /\ IF link[slot'] = NoBlock
       THEN UNCHANGED <<phase, cur, back>>
       ELSE cur' = link[slot'] /\ phase' = "remove" /\ back' = TRUE
    /\ UNCHANGED <<chainVars, faults, crashes, diskVars, head, prev, owner, api>>
-----------------------------------------------------------------------------
(* process_beacon_block_header *)

\* symlink() fails if the path exists; that is no node error and ends the
\* process.
Symlink ==
    /\ phase = "link"
    /\ IF link[Slot[cur]] = NoBlock
       THEN link' = [link EXCEPT ![Slot[cur]] = cur] /\ phase' = "mkdir"
       ELSE phase' = "halted" /\ UNCHANGED link
    /\ UNCHANGED <<chainVars, faults, crashes, dir, torn, slot, head, prev, cur,
                   owner, back, api>>

MakeDir ==
    /\ phase = "mkdir"
    /\ dir' = [dir EXCEPT ![cur].made = TRUE]
    /\ phase' = "tmp"
    /\ UNCHANGED <<chainVars, faults, crashes, link, torn, slot, head, prev, cur,
                   owner, back, api>>

WriteTmp_final ==
    /\ phase = "tmp"
    /\ dir' = [dir EXCEPT ![cur].tmp = TRUE, ![cur].header = TRUE]
    /\ phase' = "fetch"
    /\ UNCHANGED <<chainVars, faults, crashes, link, torn, slot, head, prev, cur,
                   owner, back, api>>

WriteTmp ==
    /\ phase = "tmp"
    /\ dir' = [dir EXCEPT ![cur].tmp = TRUE]
    /\ phase' = "fetch"
    /\ UNCHANGED <<chainVars, faults, crashes, link, torn, slot, head, prev, cur,
                   owner, back, api>>

\* The blobs of the payload that becomes canonical with the block are fetched;
\* those already on disk are not asked for.
FetchBlobs ==
    /\ phase = "fetch"
    /\ owner' = blobs_owner(cur)
    /\ phase' = IF owner' = NoBlock THEN "rename" ELSE "store"
    /\ UNCHANGED <<chainVars, faults, crashes, diskVars, slot, head, prev, cur,
                   back, api>>

\* store_blobs_disk: each file is renamed into place once it is synced.
StoreBlob ==
    /\ phase = "store"
    /\ \E v \in Blobs[owner] \ load_blobs_disk(owner) :
          dir' = [dir EXCEPT ![owner].made = TRUE, ![owner].blobs = @ \cup {v}]
    /\ UNCHANGED <<chainVars, faults, crashes, link, torn, loopVars, api>>

BlobsStored ==
    /\ phase = "store" /\ Blobs[owner] \subseteq load_blobs_disk(owner)
    /\ phase' = "rename"
    /\ UNCHANGED <<chainVars, faults, crashes, diskVars, slot, head, prev, cur,
                   owner, back, api>>

RenameHeader ==
    /\ phase = "rename"
    /\ dir' = [dir EXCEPT ![cur].tmp = FALSE, ![cur].header = TRUE]
    /\ prev' = cur /\ api' = cur /\ slot' = slot + 1
    /\ phase' = "check"
    /\ UNCHANGED <<chainVars, faults, crashes, link, torn, head, cur, owner, back>>
-----------------------------------------------------------------------------
(* Failures *)

\* A request to a node fails: follow_chain starts over from the stored progress.
NodeError ==
    /\ phase \in {"start", "check", "fetch"} /\ faults < MaxFaults
    /\ faults' = faults + 1
    /\ phase' = "start"
    /\ UNCHANGED <<chainVars, crashes, diskVars, slot, head, prev, cur, owner,
                   back, api>>

Crash ==
    /\ phase # "halted" /\ crashes < MaxCrashes
    /\ crashes' = crashes + 1
    /\ torn' = IF phase = "remove" THEN torn \cup {cur} ELSE torn
    /\ phase' = "start" /\ slot' = InitSlot /\ head' = InitBlock
    /\ prev' = NoBlock /\ cur' = InitBlock /\ owner' = NoBlock /\ back' = FALSE
    /\ api' = NoBlock
    /\ UNCHANGED <<chainVars, faults, link, dir>>
-----------------------------------------------------------------------------
Init ==
    /\ tip = InitBlock /\ reorgs = 0 /\ faults = 0 /\ crashes = 0
    /\ link = [s \in Slots |-> NoBlock] /\ dir = [b \in Blocks |-> NoDir]
    /\ torn = {}
    /\ phase = "start" /\ slot = InitSlot /\ head = InitBlock /\ prev = NoBlock
    /\ cur = InitBlock /\ owner = NoBlock /\ back = FALSE /\ api = NoBlock

Archive ==
    \/ Start \/ last_header \/ RemoveEntry \/ RemoveDir \/ Unlink
    \/ AskHeader \/ PollHead \/ StepBack
    \/ Symlink \/ MakeDir \/ WriteTmp \/ FetchBlobs \/ StoreBlob \/ BlobsStored
    \/ RenameHeader

Next == Extend \/ Reorg \/ Archive \/ NodeError \/ Crash

Spec == Init /\ [][Next]_vars

\* The process runs and is restarted, and the chain grows.
FairSpec == Spec /\ WF_vars(Archive) /\ WF_vars(Extend)
-----------------------------------------------------------------------------
(* Properties *)

Dirs == [made : BOOLEAN, tmp : BOOLEAN, header : BOOLEAN, blobs : SUBSET AllBlobs]

\* Every variable keeps its type; in particular the slot asked for never falls
\* below init_start_slot, whatever the walk back of a reorg removes.
TypeOK ==
    /\ tip \in Blocks /\ head \in Blocks /\ cur \in Blocks
    /\ reorgs \in 0 .. MaxReorgs /\ faults \in 0 .. MaxFaults
    /\ crashes \in 0 .. MaxCrashes
    /\ link \in [Slots -> Blocks \cup {NoBlock}]
    /\ dir \in [Blocks -> Dirs] /\ torn \subseteq Blocks
    /\ slot \in InitSlot .. MaxSlot + 1
    /\ {prev, owner, api} \subseteq Blocks \cup {NoBlock}
    /\ back \in BOOLEAN
    /\ phase \in {"start", "scan", "remove", "unlink", "check", "back", "link",
                  "mkdir", "tmp", "fetch", "store", "rename", "halted"}

\* A block that is linked and has its header.json is on disk with everything
\* that was canonical when it was processed.
Complete(b) == link[Slot[b]] = b /\ dir[b].header

\* The blobs of b became canonical with a complete block.
Archived(b) == \E c \in Blocks : Complete(c) /\ blobs_owner(c) = b

\* "seeing the header.json without the .tmp guarantees that the stored block
\* data is valid" (node.rs:315): GET /blobs answers for every blob of a payload
\* that complete blocks made canonical, whatever was interrupted, retried or
\* reorged before.  A block whose removal a crash has cut short may keep its
\* header.json and lose blobs; it is not counted on.
StoredIsServed ==
    \A b \in Blocks \ torn :
        /\ ~(phase = "remove" /\ cur = b)
        /\ Complete(b) /\ Archived(b)
        => get_blobs(b, Blobs[b]) = Blobs[b]

\* The linked blocks are one chain of the tree: no reorg, empty slot, 404 or
\* restart leaves a gap or a block of another branch in it.  A chain that does
\* not begin with the first block is the business of FromTheStart.
LinksAreChain ==
    \A s \in Linked :
        \A r \in Linked :
            /\ r < s
            /\ \A q \in Linked : q < s => q <= r
            => Parent[link[s]] = link[r]

\* "Archive the blobs of every slot from the stored progress on" (main.rs:62):
\* nothing is stored without the block of init_start_slot.
FromTheStart == Linked # {} => link[InitSlot] # NoBlock

\* The path a block is linked at is always free: creating the symlink never
\* fails and never ends the process.
LinkNeverFails == phase # "halted"

\* The header the API serves is that of a complete block, except while that
\* block is being removed.
ServedIsComplete ==
    /\ api # NoBlock
    /\ ~(phase \in {"remove", "unlink"} \/ (phase = "scan" /\ back))
    => Complete(api)

\* The archive is sound: the five above.
ArchiveSound ==
    /\ TypeOK /\ LinksAreChain /\ FromTheStart /\ LinkNeverFails /\ StoredIsServed
    /\ ServedIsComplete

\* Once the chain stops changing the archive becomes the live chain, complete
\* up to what a crash has torn, and the API serves its head.
ArchiveConverges ==
    <>[](/\ {link[s] : s \in Linked} = Ancestors[tip]
         /\ \A b \in Ancestors[tip] : Complete(b)
         /\ StoredIsServed
         /\ api \in {tip, NoBlock})

\* The slots of complete blocks, and the highest of those blocks, in a store of
\* links l and directories d.
Done(l, d) == {s \in Slots : l[s] # NoBlock /\ d[l[s]].header}
Last(l, d) ==
    IF Done(l, d) = {} THEN NoBlock
    ELSE l[CHOOSE s \in Done(l, d) : \A r \in Done(l, d) : r <= s]

LastComplete == Last(link, dir)

Follower ==
    INSTANCE ChainFollower
    WITH at <- LastComplete, state <- LastComplete,
         StateOf <- [b \in Blocks \cup {NoBlock} |-> b]

\* The archive implements ChainFollower: a block is completed only after its
\* parent, and blocks are dropped only from the end, however the steps of
\* storing and removing one are cut short.
ArchiveFollowsChain == Follower!Spec
=============================================================================
