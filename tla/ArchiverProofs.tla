--------------------------- MODULE ArchiverProofs ---------------------------
(***************************************************************************)
(* Proofs about the archiver for any tree of blocks, any number of reorgs, *)
(* node failures and crashes: what the store holds is one chain of the     *)
(* tree, a block with a header.json is whole, and the process never stops  *)
(* on a path that is taken.                                                *)
(***************************************************************************)
EXTENDS Archiver, TLAPS

Building == {"mkdir", "tmp", "fetch", "store", "rename"}
Removing == {"remove", "unlink"}

\* A symlink leads to a block of its slot, and only the last one to a block
\* without a header.json.
Links ==
    \A s \in Linked : /\ link[s] \in Blocks /\ Slot[link[s]] = s
                      /\ ~Highest(s) => dir[link[s]].header

\* No header.json outlives the symlink of its block.
Headers == \A b \in Blocks : dir[b].header => link[Slot[b]] = b

\* b is the last linked block.
AtTop(b) == link[Slot[b]] = b /\ Highest(Slot[b])

\* The block the next one is compared with is the last one stored, whole.
Following ==
    phase \in {"check", "back", "link"} =>
        /\ prev = NoBlock => Linked = {} /\ phase # "back"
        /\ prev # NoBlock => AtTop(prev) /\ dir[prev].header /\ Slot[prev] < slot

\* The block being stored or removed is the last one linked.
Working ==
    /\ phase = "link" => Slot[cur] = slot /\ (prev # NoBlock => Parent[cur] = prev)
    /\ phase \in Building => AtTop(cur) /\ Slot[cur] = slot /\ ~dir[cur].header
    /\ phase \in Removing => AtTop(cur)
    /\ phase = "unlink" => ~dir[cur].header

\* The blobs a block makes canonical are on disk before its header.json is.
Storing ==
    /\ phase \in {"store", "rename"} => owner = blobs_owner(cur)
    /\ phase = "store" => owner # NoBlock
    /\ phase = "rename" /\ owner # NoBlock => Blobs[owner] \subseteq dir[owner].blobs

\* Outside the removals of a reorg the API serves a whole block, and not one
\* that is being removed.
Serving ==
    /\ back = TRUE => phase \in Removing \cup {"scan"}
    /\ back = FALSE /\ api # NoBlock =>
          Complete(api) /\ (phase \in Removing => api # cur)

\* StoredIsServed, of what is on disk.
Whole ==
    \A b \in Blocks \ torn :
        ~(phase = "remove" /\ cur = b) /\ Complete(b) /\ Archived(b)
        => Blobs[b] \subseteq dir[b].blobs

StoreInv == TypeOK /\ Links /\ Headers /\ LinksAreChain

ArchInv ==
    /\ StoreInv /\ LinkNeverFails
    /\ Following /\ Working /\ Storing /\ Serving /\ Whole
-----------------------------------------------------------------------------
(* Steps that change no symlink and no header.json *)

SameHeaders == link' = link /\ \A b \in Blocks : dir'[b].header = dir[b].header

LEMMA SameStore ==
    ASSUME Tree, StoreInv, TypeOK', SameHeaders
    PROVE  /\ StoreInv' /\ Linked' = Linked
           /\ \A b \in Blocks : Complete(b)' = Complete(b) /\ AtTop(b)' = AtTop(b)
<1>1. Linked' = Linked
  BY DEF Linked, SameHeaders
<1>2. \A s : Highest(s)' <=> Highest(s)
  BY <1>1 DEF Highest
<1>3. Links'
  BY <1>1, <1>2 DEF Links, SameHeaders, StoreInv
<1>4. Headers'
  BY DEF Headers, SameHeaders, StoreInv
<1>5. LinksAreChain'
  BY <1>1 DEF LinksAreChain, SameHeaders, StoreInv
<1>6. \A b \in Blocks : (Complete(b)' <=> Complete(b)) /\ (AtTop(b)' <=> AtTop(b))
  BY <1>2 DEF Complete, AtTop, SameHeaders
<1>7. \A b \in Blocks : Complete(b)' = Complete(b) /\ AtTop(b)' = AtTop(b)
  BY <1>6 DEF Complete, AtTop, Highest
<1>8. QED
  BY <1>1, <1>3, <1>4, <1>5, <1>7 DEF StoreInv

\* What was archived stays so when no header.json comes or goes and no blob
\* goes.
LEMMA SameWhole ==
    ASSUME Tree, StoreInv, TypeOK', SameHeaders, Whole,
           \A b \in Blocks : dir[b].blobs \subseteq dir'[b].blobs,
           torn \subseteq torn',
           \A b \in Blocks \ torn' : phase = "remove" /\ cur = b => phase' = "remove" /\ cur' = b
    PROVE  Whole'
<1>1. \A b \in Blocks : Complete(b)' = Complete(b)
  BY SameStore
<1>2. \A b \in Blocks : Archived(b)' => Archived(b)
  BY <1>1 DEF Archived
<1>3. QED
  BY <1>1, <1>2 DEF Whole
-----------------------------------------------------------------------------
(* The operators of the model *)

LEMMA SlotType ==
    ASSUME Tree
    PROVE  /\ InitSlot \in Nat /\ MaxSlot \in Nat
           /\ \A b \in Blocks : Slot[b] \in Slots /\ Slot[b] \in Nat
                                /\ InitSlot <= Slot[b] /\ Slot[b] <= MaxSlot
BY DEF Tree, Slots

LEMMA LiveAtType ==
    ASSUME NEW s, LiveAt(s) # NoBlock
    PROVE  LiveAt(s) \in Blocks /\ Slot[LiveAt(s)] = s
BY DEF LiveAt

LEMMA OwnerType ==
    ASSUME Tree, NEW b \in Blocks
    PROVE  /\ blobs_owner(b) \in Blocks \cup {NoBlock}
           /\ \A c \in Blocks : blobs_owner(b) = c /\ b # c => Slot[c] < Slot[b]
<1>1. CASE b \notin Bid
  BY <1>1 DEF blobs_owner
<1>2. CASE b \in Bid /\ b \in Full /\ Parent[b] \in Bid
  <2>1. blobs_owner(b) = Parent[b] /\ Parent[b] \in Blocks
    BY <1>2 DEF blobs_owner, Tree
  <2>2. b # InitBlock
    BY <2>1 DEF Tree
  <2>3. Slot[Parent[b]] < Slot[b]
    BY <2>2 DEF Tree
  <2>4. QED
    BY <2>1, <2>3
<1>3. CASE b \in Bid /\ ~(b \in Full /\ Parent[b] \in Bid)
  BY <1>3 DEF blobs_owner, Tree
<1>4. QED
  BY <1>1, <1>2, <1>3

LEMMA LinkedSlots ==
    ASSUME Tree, TypeOK
    PROVE  /\ Linked \subseteq Slots /\ Slots \subseteq Nat /\ Linked \subseteq Nat
           /\ \A s \in Slots : s \in Linked <=> link[s] # NoBlock
           /\ \A s \in Linked : link[s] \in Blocks
BY DEF Tree, Slots, Linked, TypeOK

LEMMA TopLinked ==
    ASSUME Tree, NEW b \in Blocks, AtTop(b)
    PROVE  Slot[b] \in Linked /\ link[Slot[b]] = b /\ \A s \in Linked : s <= Slot[b]
BY DEF AtTop, Highest
-----------------------------------------------------------------------------
(* Steps that leave the disk as it is *)

LEMMA QuietDisk ==
    ASSUME Tree, ArchInv, TypeOK', UNCHANGED diskVars
    PROVE  /\ StoreInv' /\ Linked' = Linked
           /\ \A b \in Blocks : /\ Complete(b)' = Complete(b) /\ AtTop(b)' = AtTop(b)
                                /\ dir'[b] = dir[b]
<1>1. SameHeaders
  BY DEF SameHeaders, diskVars
<1>2. StoreInv
  BY DEF ArchInv
<1>3. QED
  BY <1>1, <1>2, SameStore DEF diskVars

LEMMA QuietWhole ==
    ASSUME Tree, ArchInv, TypeOK', UNCHANGED diskVars,
           phase = "remove" => phase' = "remove" /\ cur' = cur
    PROVE  Whole'
<1>1. SameHeaders /\ torn' = torn /\ dir' = dir
  BY DEF SameHeaders, diskVars
<1>2. StoreInv /\ Whole
  BY DEF ArchInv
<1>3. QED
  BY <1>1, <1>2, SameWhole

LEMMA ChainStep ==
    ASSUME Tree, ArchInv, Extend \/ Reorg
    PROVE  ArchInv'
<1>1. UNCHANGED <<faults, crashes, diskVars, loopVars, api>> /\ tip' \in Blocks
      /\ reorgs' \in 0 .. MaxReorgs
  BY DEF Extend, Reorg, ArchInv, StoreInv, TypeOK, Tree
<1>2. TypeOK'
  BY <1>1 DEF ArchInv, StoreInv, TypeOK, diskVars, loopVars
<1>3. UNCHANGED diskVars /\ UNCHANGED loopVars /\ api' = api
  BY <1>1
<1>4. /\ StoreInv' /\ Linked' = Linked
      /\ \A b \in Blocks : /\ Complete(b)' = Complete(b) /\ AtTop(b)' = AtTop(b)
                           /\ dir'[b] = dir[b]
  BY <1>2, <1>3, QuietDisk
<1>5. Whole'
  BY <1>2, <1>3, QuietWhole DEF loopVars
<1>6. cur \in Blocks /\ {prev, owner, api} \subseteq Blocks \cup {NoBlock}
  BY DEF ArchInv, StoreInv, TypeOK
<1>7. Following'
  BY <1>3, <1>4, <1>6 DEF Following, ArchInv, loopVars, AtTop, Highest, diskVars
<1>8. Working'
  BY <1>3, <1>4, <1>6 DEF Working, ArchInv, loopVars, AtTop, Highest, diskVars
<1>9. Storing'
  BY <1>3, <1>4, <1>6 DEF Storing, ArchInv, loopVars, diskVars
<1>10. Serving'
  BY <1>3, <1>4, <1>6 DEF Serving, ArchInv, loopVars, Complete, diskVars
<1>11. QED
  BY <1>3, <1>4, <1>5, <1>7, <1>8, <1>9, <1>10 DEF ArchInv, LinkNeverFails, loopVars

LEMMA StartStep ==
    ASSUME Tree, ArchInv, Start \/ NodeError
    PROVE  ArchInv'
<1>1. UNCHANGED diskVars /\ phase' \in {"start", "scan"} /\ phase \in {"start", "check", "fetch"}
      /\ UNCHANGED <<chainVars, crashes, slot, prev, cur, owner, api>>
  BY DEF Start, NodeError
<1>2. back = FALSE
  BY <1>1 DEF ArchInv, Serving, Removing, StoreInv, TypeOK
<1>3. back' = FALSE /\ head' \in Blocks /\ faults' \in 0 .. MaxFaults
  BY <1>2 DEF Start, NodeError, ArchInv, StoreInv, TypeOK, Tree
<1>4. TypeOK'
  BY <1>1, <1>3, Zenon, Zenon DEF ArchInv, StoreInv, TypeOK, diskVars, chainVars
<1>5. StoreInv' /\ \A b \in Blocks : Complete(b)' = Complete(b)
  BY <1>1, <1>4, QuietDisk
<1>6. Whole'
  BY <1>1, <1>4, QuietWhole
<1>7. Following' /\ Working' /\ Storing'
  BY <1>1 DEF Following, Working, Storing, Building, Removing
<1>8. Serving'
  <2>1. api # NoBlock => api \in Blocks /\ Complete(api)
    BY <1>2 DEF ArchInv, StoreInv, TypeOK, Serving
  <2>2. api' # NoBlock => Complete(api)'
    BY <1>1, <1>5, <2>1 DEF Complete
  <2>3. QED
    BY <1>1, <1>3, <2>2 DEF Serving, Removing
<1>9. QED
  BY <1>1, <1>5, <1>6, <1>7, <1>8 DEF ArchInv, LinkNeverFails

LEMMA CrashStep ==
    ASSUME Tree, ArchInv, Crash
    PROVE  ArchInv'
<1>1. SameHeaders /\ dir' = dir /\ link' = link /\ phase' = "start"
  BY DEF Crash, SameHeaders
<1>2. TypeOK'
  <2>1. torn' \subseteq Blocks
    BY DEF Crash, ArchInv, StoreInv, TypeOK
  <2>2. slot' \in InitSlot .. MaxSlot + 1
    <3>1. InitSlot \in Nat /\ MaxSlot \in Nat /\ InitSlot <= MaxSlot
      BY SlotType DEF Tree
    <3>2. QED
      BY <3>1 DEF Crash
  <2>3. crashes' \in 0 .. MaxCrashes
    BY DEF Crash, ArchInv, StoreInv, TypeOK, Tree
  <2>4. QED
    BY <1>1, <2>1, <2>2, <2>3, Zenon, Zenon DEF Crash, ArchInv, StoreInv, TypeOK, chainVars, Tree
<1>3. StoreInv /\ Whole
  BY DEF ArchInv
<1>4. StoreInv'
  BY <1>1, <1>2, <1>3, SameStore
<1>5. Whole'
  <2>1. torn \subseteq torn' /\ (phase = "remove" => cur \in torn')
    BY DEF Crash
  <2>2. QED
    BY <1>1, <1>2, <1>3, <2>1, SameWhole
<1>6. Following' /\ Working' /\ Storing'
  BY <1>1 DEF Following, Working, Storing, Building, Removing
<1>7. Serving'
  BY DEF Crash, Serving
<1>8. QED
  BY <1>1, <1>4, <1>5, <1>6, <1>7 DEF ArchInv, LinkNeverFails
-----------------------------------------------------------------------------
(* Steps of the loop *)

LEMMA FoundStep ==
    ASSUME Tree, ArchInv, phase = "scan", NEW p \in Blocks \cup {NoBlock}, Found(p),
           p = NoBlock => Linked = {},
           p # NoBlock => AtTop(p) /\ dir[p].header
    PROVE  ArchInv'
<1>1. UNCHANGED diskVars /\ phase' = "check" /\ prev' = p /\ slot' = next_slot(p) /\ back' = FALSE
      /\ UNCHANGED <<chainVars, faults, crashes, head, cur, owner>>
  BY DEF Found
<1>2. slot' \in InitSlot .. MaxSlot + 1 /\ (p # NoBlock => Slot[p] < slot')
  <2>1. CASE p = NoBlock
    <3>1. slot' = InitSlot
      BY <1>1, <2>1 DEF next_slot
    <3>2. InitSlot \in Nat /\ MaxSlot \in Nat /\ InitSlot <= MaxSlot
      BY SlotType DEF Tree
    <3>3. QED
      BY <2>1, <3>1, <3>2
  <2>2. CASE p \in Blocks
    <3>1. slot' = Slot[p] + 1
      BY <1>1, <2>2 DEF next_slot, Tree
    <3>2. QED
      BY <2>2, <3>1, SlotType
  <2>3. QED
    BY <2>1, <2>2
<1>3. api' = IF back THEN p ELSE api
  BY DEF Found
<1>4. TypeOK'
  BY <1>1, <1>2, <1>3, ZenonT(30), Zenon DEF ArchInv, StoreInv, TypeOK, diskVars, chainVars
<1>5. /\ StoreInv' /\ Linked' = Linked
      /\ \A b \in Blocks : Complete(b)' = Complete(b) /\ AtTop(b)' = AtTop(b)
                           /\ dir'[b] = dir[b]
  BY <1>1, <1>4, QuietDisk
<1>6. Whole'
  BY <1>1, <1>4, QuietWhole
<1>7. Following'
  <2>1. CASE p = NoBlock
    BY <1>1, <1>5, <2>1 DEF Following
  <2>2. CASE p # NoBlock
    <3>1. AtTop(p)' /\ dir'[p].header
      BY <1>5, <2>2
    <3>2. AtTop(prev)' /\ dir'[prev'].header
      BY <1>1, <3>1 DEF AtTop, Highest
    <3>3. QED
      BY <1>1, <1>2, <2>2, <3>2, SMTT(30) DEF Following
  <2>3. QED
    BY <2>1, <2>2
<1>8. Working' /\ Storing'
  BY <1>1 DEF Working, Storing, Building, Removing
<1>9. Serving'
  <2>1. CASE back = TRUE
    <3>1. api' = p
      BY <1>3, <2>1
    <3>2. p # NoBlock => Complete(p)
      BY DEF AtTop, Complete
    <3>3. api' # NoBlock => Complete(api)'
      BY <1>5, <3>1, <3>2 DEF Complete
    <3>4. QED
      BY <1>1, <3>3 DEF Serving, Removing
  <2>2. CASE back = FALSE
    <3>1. api' = api
      BY <1>3, <2>2
    <3>2. api # NoBlock => api \in Blocks /\ Complete(api)
      BY <2>2 DEF ArchInv, StoreInv, TypeOK, Serving
    <3>3. api' # NoBlock => Complete(api)'
      BY <1>5, <3>1, <3>2 DEF Complete
    <3>4. QED
      BY <1>1, <3>3 DEF Serving, Removing
  <2>3. QED
    BY <2>1, <2>2, Zenon, Zenon DEF ArchInv, StoreInv, TypeOK
<1>10. QED
  BY <1>1, <1>5, <1>6, <1>7, <1>8, <1>9 DEF ArchInv, LinkNeverFails

LEMMA StaleStep ==
    ASSUME Tree, ArchInv, phase = "scan", NEW p \in Blocks, Stale(p),
           AtTop(p), ~dir[p].header
    PROVE  ArchInv'
<1>1. UNCHANGED diskVars /\ phase' = "remove" /\ cur' = p
      /\ UNCHANGED <<chainVars, faults, crashes, slot, head, prev, owner, back, api>>
  BY DEF Stale
<1>2. TypeOK'
  BY <1>1, SMTT(30) DEF ArchInv, StoreInv, TypeOK, diskVars, chainVars
<1>3. /\ StoreInv' /\ Linked' = Linked
      /\ \A b \in Blocks : Complete(b)' = Complete(b) /\ AtTop(b)' = AtTop(b)
  BY <1>1, <1>2, QuietDisk
<1>4. Whole'
  BY <1>1, <1>2, QuietWhole
<1>5. Following' /\ Storing'
  BY <1>1 DEF Following, Storing
<1>6. Working'
  <2>1. AtTop(cur)'
    BY <1>1, <1>3 DEF AtTop, Highest
  <2>2. QED
    BY <1>1, <2>1, SMTT(30) DEF Working, Building, Removing
<1>7. Serving'
  <2>1. back = FALSE /\ api # NoBlock => api \in Blocks /\ Complete(api)
    BY DEF ArchInv, StoreInv, TypeOK, Serving
  <2>2. back = FALSE /\ api # NoBlock => api # p
    BY <2>1 DEF Complete
  <2>3. back' = FALSE /\ api' # NoBlock => Complete(api)'
    BY <1>1, <1>3, <2>1, SMTT(30) DEF Complete
  <2>4. QED
    BY <1>1, <2>2, <2>3 DEF Serving, Removing
<1>8. QED
  BY <1>1, <1>3, <1>4, <1>5, <1>6, <1>7 DEF ArchInv, LinkNeverFails

LEMMA ScanStep ==
    ASSUME Tree, ArchInv, last_header
    PROVE  ArchInv'
<1>1. phase = "scan"
  BY DEF last_header
<1>2. CASE Linked = {} /\ Found(NoBlock)
  BY <1>1, <1>2, FoundStep
<1>3. CASE \E s \in Linked :
             /\ Highest(s)
             /\ \/ dir[link[s]].header /\ Found(link[s])
                \/ ~dir[link[s]].header /\ Stale(link[s])
  <2>1. PICK s \in Linked :
            /\ Highest(s)
            /\ \/ dir[link[s]].header /\ Found(link[s])
               \/ ~dir[link[s]].header /\ Stale(link[s])
    BY <1>3
  <2>2. link[s] \in Blocks /\ Slot[link[s]] = s
    BY DEF ArchInv, StoreInv, Links
  <2>3. AtTop(link[s]) /\ link[s] # NoBlock
    BY <2>1, <2>2 DEF AtTop, Tree
  <2>4. CASE dir[link[s]].header /\ Found(link[s])
    BY <1>1, <2>2, <2>3, <2>4, FoundStep
  <2>5. CASE ~dir[link[s]].header /\ Stale(link[s])
    BY <1>1, <2>2, <2>3, <2>5, StaleStep, SMTT(30)
  <2>6. QED
    BY <2>1, <2>4, <2>5
<1>4. QED
  BY <1>2, <1>3 DEF last_header

\* Looking at slots changes only where the loop is.
LEMMA CheckStep ==
    ASSUME Tree, ArchInv, phase \in {"check", "back"}, UNCHANGED diskVars,
           UNCHANGED <<chainVars, crashes, prev, owner, api>>,
           head' \in Blocks, cur' \in Blocks, faults' \in 0 .. MaxFaults,
           slot' \in InitSlot .. MaxSlot + 1, back' = FALSE,
           phase' \in {"check", "back", "link"},
           prev = NoBlock => phase' # "back",
           prev # NoBlock => Slot[prev] < slot',
           phase' = "link" => Slot[cur'] = slot' /\ (prev # NoBlock => Parent[cur'] = prev)
    PROVE  ArchInv'
<1>1. TypeOK'
  BY Zenon, Zenon DEF ArchInv, StoreInv, TypeOK, diskVars, chainVars
<1>2. /\ StoreInv' /\ Linked' = Linked
      /\ \A b \in Blocks : Complete(b)' = Complete(b) /\ AtTop(b)' = AtTop(b)
                           /\ dir'[b] = dir[b]
  BY <1>1, QuietDisk
<1>3. Whole'
  BY <1>1, QuietWhole
<1>4. prev \in Blocks \cup {NoBlock} /\ prev' = prev
  BY DEF ArchInv, StoreInv, TypeOK
<1>5. Following'
  <2>1. CASE prev = NoBlock
    BY <1>2, <2>1, SMTT(30) DEF Following, ArchInv
  <2>2. CASE prev # NoBlock
    <3>1. AtTop(prev) /\ dir[prev].header
      BY <2>2 DEF Following, ArchInv
    <3>2. AtTop(prev)' /\ dir'[prev'].header
      BY <1>2, <1>4, <2>2, <3>1, SMTT(30) DEF AtTop, Highest
    <3>3. QED
      BY <2>2, <3>2 DEF Following
  <2>3. QED
    BY <2>1, <2>2, SMTT(30)
<1>6. Working' /\ Storing'
  BY SMTT(30) DEF Working, Storing, Building, Removing
<1>7. Serving'
  <2>1. back = FALSE
    BY ZenonT(30) DEF ArchInv, Serving, Removing, StoreInv, TypeOK
  <2>2. api # NoBlock => api \in Blocks /\ Complete(api)
    BY <2>1, SMTT(30) DEF ArchInv, StoreInv, TypeOK, Serving
  <2>3. api' # NoBlock => Complete(api)'
    BY <1>2, <2>2 DEF Complete
  <2>4. QED
    BY <2>3, SMTT(30) DEF Serving, Removing
<1>8. QED
  BY <1>2, <1>3, <1>5, <1>6, <1>7 DEF ArchInv, LinkNeverFails

LEMMA ExamineStep ==
    ASSUME Tree, ArchInv, phase = "check", NEW b \in Blocks, Slot[b] = slot, Examine(b)
    PROVE  /\ slot' = slot /\ cur' \in Blocks /\ phase' \in {"back", "link"}
           /\ prev = NoBlock => phase' # "back"
           /\ phase' = "link" => Slot[cur'] = slot' /\ (prev # NoBlock => Parent[cur'] = prev)
<1>1. cur \in Blocks
  BY DEF ArchInv, StoreInv, TypeOK
<1>2. CASE prev # NoBlock /\ Parent[b] # prev
  BY <1>1, <1>2 DEF Examine
<1>3. CASE ~(prev # NoBlock /\ Parent[b] # prev)
  BY <1>3 DEF Examine
<1>4. QED
  BY <1>2, <1>3

LEMMA AskStep ==
    ASSUME Tree, ArchInv, AskHeader
    PROVE  ArchInv'
<1>1. /\ phase = "check" /\ slot <= Slot[head] /\ UNCHANGED diskVars
      /\ UNCHANGED <<chainVars, crashes, prev, owner, api, back, head>>
  BY DEF AskHeader
<1>2. /\ head \in Blocks /\ cur \in Blocks /\ faults \in 0 .. MaxFaults /\ back = FALSE
      /\ slot \in InitSlot .. MaxSlot + 1 /\ prev \in Blocks \cup {NoBlock}
  BY <1>1 DEF ArchInv, StoreInv, TypeOK, Serving, Removing
<1>3. InitSlot \in Nat /\ MaxSlot \in Nat /\ Slot[head] \in Nat /\ Slot[head] <= MaxSlot
      /\ (prev # NoBlock => Slot[prev] \in Nat)
  BY <1>2, SlotType
<1>4. prev # NoBlock => Slot[prev] < slot
  BY <1>1 DEF ArchInv, Following
<1>5. faults' \in 0 .. MaxFaults
  BY <1>2 DEF AskHeader, Tree
<1>6. CASE LiveAt(slot) # NoBlock /\ Examine(LiveAt(slot))
  <2>1. LiveAt(slot) \in Blocks /\ Slot[LiveAt(slot)] = slot
    BY <1>6, LiveAtType
  <2>2. /\ slot' = slot /\ cur' \in Blocks /\ phase' \in {"back", "link"}
        /\ prev = NoBlock => phase' # "back"
        /\ phase' = "link" => Slot[cur'] = slot' /\ (prev # NoBlock => Parent[cur'] = prev)
    BY <1>1, <1>6, <2>1, ExamineStep
  <2>3. QED
    BY <1>1, <1>2, <1>4, <1>5, <2>2, CheckStep, Zenon, Zenon
<1>7. CASE slot' = slot + 1 /\ UNCHANGED <<phase, cur>>
  <2>1. slot' \in InitSlot .. MaxSlot + 1 /\ (prev # NoBlock => Slot[prev] < slot')
    BY <1>1, <1>2, <1>3, <1>4, <1>7
  <2>2. QED
    BY <1>1, <1>2, <1>5, <1>7, <2>1, CheckStep, Zenon, Zenon
<1>8. QED
  BY <1>6, <1>7 DEF AskHeader

LEMMA PollStep ==
    ASSUME Tree, ArchInv, PollHead
    PROVE  ArchInv'
<1>1. /\ phase = "check" /\ head' = tip /\ UNCHANGED diskVars
      /\ UNCHANGED <<chainVars, faults, crashes, prev, owner, api, back>>
  BY DEF PollHead
<1>2. /\ tip \in Blocks /\ cur \in Blocks /\ faults \in 0 .. MaxFaults /\ back = FALSE
      /\ slot \in InitSlot .. MaxSlot + 1 /\ prev \in Blocks \cup {NoBlock}
  BY <1>1, SMTT(30) DEF ArchInv, StoreInv, TypeOK, Serving, Removing
<1>3. prev # NoBlock => Slot[prev] < slot
  BY <1>1 DEF ArchInv, Following
<1>4. CASE Slot[tip] = slot /\ Examine(tip)
  <2>1. /\ slot' = slot /\ cur' \in Blocks /\ phase' \in {"back", "link"}
        /\ prev = NoBlock => phase' # "back"
        /\ phase' = "link" => Slot[cur'] = slot' /\ (prev # NoBlock => Parent[cur'] = prev)
    BY <1>1, <1>2, <1>4, ExamineStep
  <2>2. QED
    BY <1>1, <1>2, <1>3, <2>1, CheckStep, Zenon, Zenon
<1>5. CASE UNCHANGED <<phase, cur, slot>>
  BY <1>1, <1>2, <1>3, <1>5, CheckStep, Zenon, Zenon
<1>6. QED
  BY <1>4, <1>5 DEF PollHead

LEMMA BackStep ==
    ASSUME Tree, ArchInv, StepBack
    PROVE  ArchInv'
<1>1. /\ phase = "back" /\ slot' = slot - 1 /\ UNCHANGED diskVars
      /\ UNCHANGED <<chainVars, faults, crashes, head, prev, owner, api>>
  BY SMTT(30) DEF StepBack
<1>2. prev # NoBlock /\ AtTop(prev) /\ dir[prev].header /\ Slot[prev] < slot /\ back = FALSE
  BY <1>1 DEF ArchInv, Following, Serving, Removing, StoreInv, TypeOK
<1>3. /\ cur \in Blocks /\ head \in Blocks /\ faults \in 0 .. MaxFaults /\ prev \in Blocks
      /\ slot \in InitSlot .. MaxSlot + 1 /\ TypeOK
  BY <1>2 DEF ArchInv, StoreInv, TypeOK
<1>4. /\ InitSlot \in Nat /\ MaxSlot \in Nat /\ Slot[prev] \in Nat /\ InitSlot <= Slot[prev]
      /\ slot \in Nat
  BY <1>3, SlotType
<1>5. Slot[prev] <= slot' /\ slot' \in Slots /\ slot' \in Nat
  BY <1>1, <1>2, <1>3, <1>4 DEF Slots
<1>6. slot' \in InitSlot .. MaxSlot + 1
  BY <1>4, <1>5 DEF Slots
<1>7. Slot[prev] \in Linked /\ link[Slot[prev]] = prev /\ \A s \in Linked : s <= Slot[prev]
  BY <1>2, <1>3, TopLinked
<1>8. CASE link[slot'] = NoBlock
  <2>1. UNCHANGED <<phase, cur, back>>
    BY <1>8 DEF StepBack
  <2>2. slot' # Slot[prev]
    BY <1>2, <1>7, <1>8
  <2>3. Slot[prev] < slot'
    BY <1>4, <1>5, <2>2
  <2>4. QED
    BY <1>1, <1>2, <1>3, <1>6, <2>1, <2>3, CheckStep, Zenon, Zenon
<1>9. CASE link[slot'] # NoBlock
  <2>1. cur' = link[slot'] /\ phase' = "remove" /\ back' = TRUE
    BY <1>9 DEF StepBack
  <2>2. slot' = Slot[prev]
    BY <1>3, <1>4, <1>5, <1>7, <1>9, LinkedSlots
  <2>3. cur' = prev
    BY <1>7, <2>1, <2>2
  <2>4. TypeOK'
    BY <1>1, <1>3, <1>6, <2>1, <2>3, SMTT(30) DEF TypeOK, diskVars, chainVars
  <2>5. StoreInv' /\ \A b \in Blocks : AtTop(b)' = AtTop(b)
    BY <1>1, <2>4, QuietDisk
  <2>6. Whole'
    BY <1>1, <2>4, QuietWhole, SMTT(30)
  <2>7. AtTop(cur)'
    BY <1>2, <1>3, <2>3, <2>5, SMTT(30) DEF AtTop, Highest
  <2>8. Following' /\ Working' /\ Storing' /\ Serving'
    BY <2>1, <2>7, SMTT(30) DEF Following, Working, Storing, Serving, Building, Removing
  <2>9. QED
    BY <2>1, <2>5, <2>6, <2>8 DEF ArchInv, LinkNeverFails
<1>10. QED
  BY <1>8, <1>9
-----------------------------------------------------------------------------
(* Storing a block *)

\* While a block is stored only its directory and that of its blobs change.
LEMMA BuildStep ==
    ASSUME Tree, ArchInv, phase \in Building, phase' \in Building,
           UNCHANGED <<chainVars, faults, crashes, link, torn, slot, head, prev, cur, back, api>>,
           owner' \in Blocks \cup {NoBlock},
           dir' \in [Blocks -> Dirs],
           \A b \in Blocks : dir'[b].header = dir[b].header /\ dir[b].blobs \subseteq dir'[b].blobs,
           Storing'
    PROVE  ArchInv'
<1>1. TypeOK'
  BY SMTT(30) DEF ArchInv, StoreInv, TypeOK, Building, chainVars
<1>2. StoreInv /\ Whole /\ SameHeaders
  BY SMTT(30) DEF ArchInv, SameHeaders
<1>3. /\ StoreInv' /\ Linked' = Linked
      /\ \A b \in Blocks : Complete(b)' = Complete(b) /\ AtTop(b)' = AtTop(b)
  BY <1>1, <1>2, SameStore
<1>4. phase # "remove" /\ phase \notin Removing /\ phase' \notin Removing
  BY DEF Building, Removing
<1>5. Whole'
  BY <1>1, <1>2, <1>4, SameWhole, SMTT(30)
<1>6. cur \in Blocks /\ back \in BOOLEAN
  BY SMTT(30) DEF ArchInv, StoreInv, TypeOK
<1>7. Following'
  BY SMTT(30) DEF Following, Building
<1>8. Working'
  <2>1. AtTop(cur) /\ Slot[cur] = slot /\ ~dir[cur].header
    BY Zenon, Zenon DEF ArchInv, Working
  <2>2. AtTop(cur)' /\ ~dir'[cur'].header
    BY <1>3, <1>6, <2>1, ZenonT(30), Zenon DEF AtTop, Highest
  <2>3. QED
    BY <1>4, <2>1, <2>2 DEF Working, Building, Removing
<1>9. Serving'
  <2>1. back = FALSE
    BY <1>4, <1>6, SMTT(30) DEF ArchInv, Serving, Building
  <2>2. api # NoBlock => api \in Blocks /\ Complete(api)
    BY <2>1, SMTT(30) DEF ArchInv, StoreInv, TypeOK, Serving
  <2>3. api' # NoBlock => Complete(api)'
    BY <1>3, <2>2 DEF Complete
  <2>4. QED
    BY <1>4, <2>1, <2>3 DEF Serving
<1>10. QED
  BY <1>3, <1>5, <1>7, <1>8, <1>9, SMTT(30) DEF ArchInv, LinkNeverFails, Building

LEMMA DirStep ==
    ASSUME Tree, ArchInv, MakeDir \/ WriteTmp
    PROVE  ArchInv'
<1>1. /\ phase \in {"mkdir", "tmp"} /\ phase' \in {"tmp", "fetch"}
      /\ UNCHANGED <<chainVars, faults, crashes, link, torn, slot, head, prev, cur, back, api>>
      /\ owner' = owner
  BY DEF MakeDir, WriteTmp
<1>2. cur \in Blocks /\ dir \in [Blocks -> Dirs] /\ owner \in Blocks \cup {NoBlock}
  BY DEF ArchInv, StoreInv, TypeOK
<1>3. dir' \in [Blocks -> Dirs]
      /\ \A b \in Blocks : dir'[b].header = dir[b].header /\ dir[b].blobs \subseteq dir'[b].blobs
  <2>1. dir[cur] \in Dirs
    BY <1>2
  <2>2. CASE MakeDir
    <3> DEFINE d == [dir[cur] EXCEPT !.made = TRUE]
    <3>1. d \in Dirs /\ d.header = dir[cur].header /\ d.blobs = dir[cur].blobs
      BY <2>1, Zenon, Zenon DEF Dirs
    <3>2. dir' = [dir EXCEPT ![cur] = d]
      BY <2>2 DEF MakeDir
    <3> HIDE DEF d
    <3>3. QED
      BY <1>2, <3>1, <3>2
  <2>3. CASE WriteTmp
    <3> DEFINE d == [dir[cur] EXCEPT !.tmp = TRUE]
    <3>1. d \in Dirs /\ d.header = dir[cur].header /\ d.blobs = dir[cur].blobs
      BY <2>1, Zenon, Zenon DEF Dirs
    <3>2. dir' = [dir EXCEPT ![cur] = d]
      BY <2>3 DEF WriteTmp
    <3> HIDE DEF d
    <3>3. QED
      BY <1>2, <3>1, <3>2
  <2>4. QED
    BY <2>2, <2>3
<1>4. Storing'
  BY <1>1, SMTT(30) DEF Storing
<1>5. QED
  BY <1>1, <1>2, <1>3, <1>4, BuildStep, Zenon, Zenon DEF Building

LEMMA FetchStep ==
    ASSUME Tree, ArchInv, FetchBlobs
    PROVE  ArchInv'
<1>1. /\ phase = "fetch" /\ owner' = blobs_owner(cur)
      /\ phase' = IF owner' = NoBlock THEN "rename" ELSE "store"
      /\ UNCHANGED <<chainVars, faults, crashes, link, torn, slot, head, prev, cur, back, api>>
      /\ dir' = dir
  BY DEF FetchBlobs, diskVars
<1>2. cur \in Blocks /\ dir \in [Blocks -> Dirs]
  BY SMTT(30) DEF ArchInv, StoreInv, TypeOK
<1>3. owner' \in Blocks \cup {NoBlock}
  BY <1>1, <1>2, OwnerType
<1>4. Storing'
  BY <1>1 DEF Storing
<1>5. phase \in Building /\ phase' \in Building
  BY <1>1, SMTT(30) DEF Building
<1>6. QED
  BY <1>1, <1>2, <1>3, <1>4, <1>5, BuildStep

LEMMA StoreStep ==
    ASSUME Tree, ArchInv, StoreBlob \/ BlobsStored
    PROVE  ArchInv'
<1>1. /\ phase = "store" /\ phase' \in {"store", "rename"} /\ owner' = owner
      /\ UNCHANGED <<chainVars, faults, crashes, link, torn, slot, head, prev, cur, back, api>>
  BY SMTT(30) DEF StoreBlob, BlobsStored, loopVars, diskVars
<1>2. /\ dir \in [Blocks -> Dirs] /\ owner \in Blocks /\ owner = blobs_owner(cur)
  BY <1>1 DEF ArchInv, StoreInv, TypeOK, Storing
<1>3. Blobs[owner] \subseteq AllBlobs
  BY <1>2 DEF AllBlobs
<1>4. dir' \in [Blocks -> Dirs]
      /\ \A b \in Blocks : dir'[b].header = dir[b].header /\ dir[b].blobs \subseteq dir'[b].blobs
  <2>1. CASE StoreBlob
    <3>1. PICK v \in Blobs[owner] :
              dir' = [dir EXCEPT ![owner].made = TRUE, ![owner].blobs = @ \cup {v}]
      BY <2>1, Zenon, Zenon DEF StoreBlob
    <3>2. v \in AllBlobs
      BY <1>3
    <3> DEFINE d == [dir[owner] EXCEPT !.made = TRUE, !.blobs = @ \cup {v}]
    <3>3. dir[owner] \in Dirs
      BY <1>2
    <3>4. dir[owner].blobs \in SUBSET AllBlobs
      BY <3>3 DEF Dirs
    <3>5. (dir[owner].blobs \cup {v}) \in SUBSET AllBlobs
      BY <3>2, <3>4
    <3>6. /\ d \in Dirs /\ d.header = dir[owner].header
          /\ d.blobs = dir[owner].blobs \cup {v}
      BY <3>3, <3>5, Zenon, Zenon DEF Dirs
    <3>7. dir' = [dir EXCEPT ![owner] = d]
      BY <1>2, <3>1, ZenonT(30), Zenon
    <3> HIDE DEF d
    <3>8. QED
      BY <1>2, <3>6, <3>7
  <2>2. CASE BlobsStored
    BY <1>2, <2>2 DEF BlobsStored, diskVars
  <2>3. QED
    BY <2>1, <2>2
<1>5. Storing'
  <2>1. CASE StoreBlob
    BY <1>1, <1>2, <2>1, ZenonT(30), Zenon DEF Storing, StoreBlob, loopVars, Tree
  <2>2. CASE BlobsStored
    BY <1>1, <1>2, <2>2 DEF Storing, BlobsStored, diskVars, load_blobs_disk
  <2>3. QED
    BY <2>1, <2>2
<1>6. phase \in Building /\ phase' \in Building
  BY <1>1, SMTT(30) DEF Building
<1>7. QED
  BY <1>1, <1>2, <1>4, <1>5, <1>6, BuildStep

\* The chain of links with one more block at its end.
LEMMA LongerChain ==
    ASSUME Tree, StoreInv, NEW b \in Blocks, link' = [link EXCEPT ![Slot[b]] = b],
           \A s \in Linked : s < Slot[b],
           Linked # {} => \E p \in Blocks : AtTop(p) /\ Parent[b] = p
    PROVE  Linked' = Linked \cup {Slot[b]} /\ LinksAreChain'
<1>1. TypeOK /\ Slot[b] \in Slots /\ Slots \subseteq Nat /\ Linked \subseteq Slots /\ b # NoBlock
  BY SlotType, LinkedSlots, SMTT(30) DEF StoreInv, Tree
<1>2. link \in [Slots -> Blocks \cup {NoBlock}]
  BY <1>1 DEF TypeOK
<1>3. \A s \in Slots : link'[s] = IF s = Slot[b] THEN b ELSE link[s]
  BY <1>1, <1>2
<1>4. Linked' = Linked \cup {Slot[b]}
  BY <1>1, <1>3, ZenonT(30), Zenon DEF Linked
<1>5. SUFFICES ASSUME NEW s \in Linked', NEW r \in Linked', r < s,
                      \A q \in Linked' : q < s => q <= r
               PROVE  Parent[link'[s]] = link'[r]
  BY <1>4 DEF LinksAreChain
<1>6. \A q \in Linked : q \in Nat /\ q \in Slots /\ q < Slot[b]
  BY <1>1
<1>7. Slot[b] \in Nat
  BY <1>1, ZenonT(30), Zenon
<1>8. s \in Nat /\ r \in Nat /\ s <= Slot[b]
  BY <1>4, <1>6, <1>7
<1>9. r # Slot[b]
  BY <1>5, <1>7, <1>8, SMTT(30)
<1>10. r \in Linked /\ r # Slot[b] /\ link'[r] = link[r] /\ r \in Nat /\ s \in Nat
  BY <1>3, <1>4, <1>6, <1>8, <1>9, SMTT(30)
<1>11. CASE s = Slot[b]
  <2>1. PICK p \in Blocks : AtTop(p) /\ Parent[b] = p
    BY <1>10
  <2>2. Slot[p] \in Linked /\ link[Slot[p]] = p /\ \A q \in Linked : q <= Slot[p]
    BY <2>1, TopLinked
  <2>3. Slot[p] = r
    <3>1. Slot[p] \in Nat /\ r <= Slot[p]
      BY <1>10, <1>6, <2>2
    <3>2. Slot[p] \in Linked' /\ Slot[p] < s
      BY <1>4, <1>11, <1>6, <2>2
    <3>3. Slot[p] <= r
      BY <1>5, <3>2
    <3>4. QED
      BY <1>10, <3>1, <3>3, SMTT(30)
  <2>4. QED
    BY <1>1, <1>3, <1>10, <1>11, <2>1, <2>2, <2>3
<1>12. CASE s # Slot[b]
  <2>1. s \in Linked /\ link'[s] = link[s]
    BY <1>1, <1>3, <1>4, <1>12
  <2>2. \A q \in Linked : q < s => q <= r
    BY <1>4, <1>5
  <2>3. QED
    BY <1>5, <1>10, <2>1, <2>2, SMTT(30) DEF StoreInv, LinksAreChain
<1>13. QED
  BY <1>4, <1>5, <1>11, <1>12, SMTT(30)

LEMMA LinkStep ==
    ASSUME Tree, ArchInv, Symlink
    PROVE  ArchInv'
<1>1. /\ phase = "link"
      /\ UNCHANGED <<chainVars, faults, crashes, dir, torn, slot, head, prev, cur, owner, back, api>>
  BY SMTT(30) DEF Symlink
<1>2. /\ cur \in Blocks /\ prev \in Blocks \cup {NoBlock} /\ TypeOK /\ StoreInv
      /\ back = FALSE /\ link \in [Slots -> Blocks \cup {NoBlock}]
  BY <1>1 DEF ArchInv, StoreInv, TypeOK, Serving, Removing
<1>3. Slot[cur] = slot /\ (prev # NoBlock => Parent[cur] = prev)
  BY <1>1, ZenonT(30), Zenon DEF ArchInv, Working
<1>4. Slot[cur] \in Slots /\ Slots \subseteq Nat /\ Linked \subseteq Slots /\ cur # NoBlock
      /\ Slot \in [Blocks -> Slots]
  BY <1>2, SlotType, LinkedSlots DEF Tree
<1>5. \A s \in Linked : s < Slot[cur] /\ dir[link[s]].header
  <2>1. CASE prev = NoBlock
    BY <1>1, <2>1, ZenonT(30) DEF ArchInv, Following
  <2>2. CASE prev # NoBlock
    <3>1. AtTop(prev) /\ dir[prev].header /\ Slot[prev] < Slot[cur] /\ prev \in Blocks
      BY <1>1, <1>2, <1>3, <2>2, ZenonT(30) DEF ArchInv, Following
    <3>2. Slot[prev] \in Linked /\ link[Slot[prev]] = prev /\ \A q \in Linked : q <= Slot[prev]
      BY <3>1, TopLinked, Zenon
    <3>3. \A s \in Linked : s \in Nat
      BY <1>4
    <3>4. Slot[prev] \in Nat /\ Slot[cur] \in Nat
      BY <1>4, <3>1, Zenon, Zenon
    <3>5. \A s \in Linked : s < Slot[cur]
      BY <3>1, <3>2, <3>3, <3>4
    <3>6. \A s \in Linked : s # Slot[prev] => ~Highest(s)
      BY <3>2, <3>3, <3>4, SMTT(30) DEF Highest
    <3>7. QED
      BY <3>1, <3>2, <3>5, <3>6, <1>2, Zenon DEF StoreInv, Links
  <2>3. QED
    BY <2>1, <2>2, Zenon, Zenon
<1>6. Linked # {} => \E p \in Blocks : AtTop(p) /\ Parent[cur] = p
  BY <1>1, <1>2, <1>3 DEF ArchInv, Following
<1>7. Slot[cur] \in Nat /\ \A s \in Linked : s \in Nat
  BY <1>4, Zenon, Zenon
<1>8. Slot[cur] \notin Linked
  BY <1>5, <1>7
<1>9. link[Slot[cur]] = NoBlock
  BY <1>4, <1>8 DEF Linked
<1>10. link' = [link EXCEPT ![Slot[cur]] = cur] /\ phase' = "mkdir"
  BY <1>9 DEF Symlink
<1>11. Linked' = Linked \cup {Slot[cur]} /\ LinksAreChain'
  BY <1>2, <1>5, <1>6, <1>10, LongerChain, Zenon, Zenon
<1>12. \A s \in Slots : link'[s] = IF s = Slot[cur] THEN cur ELSE link[s]
  BY <1>2, <1>4, <1>10, SMTT(30)
<1>13. TypeOK'
  <2>1. link' \in [Slots -> Blocks \cup {NoBlock}]
    BY <1>2, <1>10, Zenon, Zenon
  <2>2. QED
    BY <1>1, <1>2, <1>10, <2>1 DEF TypeOK, chainVars
<1>14. ~dir[cur].header
  BY <1>2, <1>4, <1>9, SMTT(30) DEF StoreInv, Headers
<1>15. Links'
  <2>1. SUFFICES ASSUME NEW s \in Linked'
                 PROVE  /\ link'[s] \in Blocks /\ Slot[link'[s]] = s
                        /\ ~Highest(s)' => dir'[link'[s]].header
    BY DEF Links
  <2>2. CASE s = Slot[cur]
    <3>1. Highest(s)'
      BY <1>5, <1>11, <1>7, <2>2, SMTT(30) DEF Highest
    <3>2. QED
      BY <1>2, <1>4, <1>12, <2>2, <3>1, Zenon, Zenon
  <2>3. CASE s \in Linked
    <3>1. link'[s] = link[s]
      BY <1>4, <1>5, <1>12, <2>3
    <3>2. QED
      BY <1>1, <1>2, <1>5, <2>3, <3>1 DEF StoreInv, Links
  <2>4. QED
    BY <1>11, <2>2, <2>3
<1>16. Headers'
  <2>1. SUFFICES ASSUME NEW b \in Blocks, dir[b].header
                 PROVE  link'[Slot[b]] = b
    BY <1>1 DEF Headers
  <2>2. link[Slot[b]] = b
    BY <1>2, <2>1 DEF StoreInv, Headers
  <2>3. Slot[b] # Slot[cur]
    BY <1>9, <2>2 DEF Tree
  <2>4. QED
    BY <1>4, <1>12, <2>2, <2>3, ZenonT(30), Zenon
<1>17. \A b \in Blocks : Complete(b)' <=> Complete(b)
  <2>1. SUFFICES ASSUME NEW b \in Blocks
                 PROVE  Complete(b)' <=> Complete(b)
    BY SMTT(30)
  <2>2. dir[b].header => link[Slot[b]] = b /\ link'[Slot[b]] = b
    BY <1>1, <1>2, <1>16, SMTT(30) DEF StoreInv, Headers
  <2>3. QED
    BY <1>1, <2>2 DEF Complete
<1>18. Whole'
  <2>1. \A b \in Blocks : Archived(b)' => Archived(b)
    BY <1>17, SMTT(30) DEF Archived
  <2>2. QED
    BY <1>1, <1>10, <1>17, <2>1 DEF ArchInv, Whole
<1>19. Working'
  <2>1. cur' = cur /\ Slot[cur] \in Linked' /\ link'[Slot[cur]] = cur
    BY <1>1, <1>4, <1>11, <1>12
  <2>2. \A s \in Linked' : s <= Slot[cur]
    BY <1>5, <1>11, <1>7
  <2>3. AtTop(cur)'
    BY <2>1, <2>2, SMTT(30) DEF AtTop, Highest
  <2>4. QED
    BY <1>1, <1>3, <1>10, <1>14, <2>3, SMTT(30) DEF Working, Building, Removing
<1>20. Following' /\ Storing'
  BY <1>10 DEF Following, Storing
<1>21. Serving'
  <2>1. api # NoBlock => api \in Blocks /\ Complete(api)
    BY <1>2, SMTT(30) DEF ArchInv, TypeOK, Serving
  <2>2. api' # NoBlock => Complete(api)'
    BY <1>1, <1>17, <2>1 DEF Complete
  <2>3. QED
    BY <1>1, <1>2, <1>10, <2>2 DEF Serving, Removing
<1>22. QED
  BY <1>10, <1>11, <1>13, <1>15, <1>16, <1>18, <1>19, <1>20, <1>21
  DEF ArchInv, StoreInv, LinkNeverFails

LEMMA RenameStep ==
    ASSUME Tree, ArchInv, RenameHeader
    PROVE  ArchInv'
<1>1. /\ phase = "rename" /\ phase' = "check" /\ prev' = cur /\ api' = cur /\ slot' = slot + 1
      /\ dir' = [dir EXCEPT ![cur].tmp = FALSE, ![cur].header = TRUE]
      /\ UNCHANGED <<chainVars, faults, crashes, link, torn, head, cur, owner, back>>
  BY DEF RenameHeader
<1>2. /\ cur \in Blocks /\ TypeOK /\ StoreInv /\ dir \in [Blocks -> Dirs] /\ back = FALSE
  BY <1>1 DEF ArchInv, StoreInv, TypeOK, Serving, Removing
<1>3. AtTop(cur) /\ Slot[cur] = slot /\ ~dir[cur].header
  BY <1>1 DEF ArchInv, Working, Building
<1>4. Slot[cur] \in Linked /\ link[Slot[cur]] = cur /\ \A s \in Linked : s <= Slot[cur]
  BY <1>2, <1>3, TopLinked
<1>5. /\ dir' \in [Blocks -> Dirs] /\ dir'[cur].header = TRUE
      /\ \A b \in Blocks : /\ dir'[b].blobs = dir[b].blobs
                           /\ b # cur => dir'[b].header = dir[b].header
  <2> DEFINE d == [dir[cur] EXCEPT !.tmp = FALSE, !.header = TRUE]
  <2>1. dir[cur] \in Dirs
    BY <1>2
  <2>2. d \in Dirs /\ d.header = TRUE /\ d.blobs = dir[cur].blobs
    BY <2>1, Zenon, Zenon DEF Dirs
  <2>3. dir' = [dir EXCEPT ![cur] = d]
    BY <1>1, <1>2, Zenon, Zenon
  <2> HIDE DEF d
  <2>4. QED
    BY <1>2, <2>2, <2>3
<1>6. slot' \in InitSlot .. MaxSlot + 1 /\ Slot[cur] < slot'
  BY <1>1, <1>2, <1>3, SlotType
<1>7. TypeOK'
  BY <1>1, <1>2, <1>5, <1>6 DEF TypeOK, chainVars
<1>8. Linked' = Linked /\ link' = link /\ cur' = cur
  BY <1>1 DEF Linked
<1>9. \A s : Highest(s)' <=> Highest(s)
  BY <1>8, SMTT(30) DEF Highest
<1>10. Links'
  BY <1>2, <1>5, <1>8, <1>9, SMTT(30) DEF StoreInv, Links
<1>11. Headers'
  BY <1>2, <1>4, <1>5, <1>8 DEF StoreInv, Headers
<1>12. LinksAreChain'
  BY <1>2, <1>8 DEF StoreInv, LinksAreChain
<1>13. Following'
  <2>1. AtTop(prev)' /\ dir'[prev'].header
    BY <1>1, <1>3, <1>5, <1>8, <1>9 DEF AtTop
  <2>2. cur # NoBlock
    BY <1>2 DEF Tree
  <2>3. QED
    BY <1>1, <1>6, <2>1, <2>2 DEF Following
<1>14. Working' /\ Storing'
  BY <1>1 DEF Working, Storing, Building, Removing
<1>15. Serving'
  <2>1. Complete(api)'
    BY <1>1, <1>4, <1>5, SMTT(30) DEF Complete
  <2>2. QED
    BY <1>1, <1>2, <2>1 DEF Serving, Removing
<1>16. Whole'
  <2>1. SUFFICES ASSUME NEW b \in Blocks \ torn, Complete(b)', Archived(b)'
                 PROVE  Blobs[b] \subseteq dir[b].blobs
    BY <1>1, <1>5 DEF Whole
  <2>2. PICK c \in Blocks : Complete(c)' /\ blobs_owner(c) = b
    BY <2>1 DEF Archived
  <2>3. CASE c = cur
    <3>1. owner = b /\ b # NoBlock
      BY <1>1, <2>2, <2>3 DEF ArchInv, Storing, Tree
    <3>2. QED
      BY <1>1, <3>1 DEF ArchInv, Storing
  <2>4. CASE c # cur
    <3>1. Complete(c) /\ Slot[c] \in Linked
      <4>1. Complete(c)
        BY <1>1, <1>5, <2>2, <2>4, SMTT(30) DEF Complete
      <4>2. link[Slot[c]] = c /\ Slot[c] \in Slots /\ c # NoBlock
        BY <4>1, SlotType, SMTT(30) DEF Complete, Tree
      <4>3. QED
        BY <4>1, <4>2 DEF Linked
    <3>2. Slot[c] <= Slot[cur] /\ Slot[c] \in Nat /\ Slot[cur] \in Nat
      BY <1>2, <1>4, <3>1, SlotType
    <3>3. b # cur
      <4>1. SUFFICES ASSUME b = cur PROVE FALSE
        OBVIOUS
      <4>2. Slot[cur] < Slot[c]
        BY <1>2, <2>2, <2>4, <4>1, OwnerType
      <4>3. QED
        BY <3>2, <4>2
    <3>4. Complete(b)
      BY <1>1, <1>5, <2>1, <3>3 DEF Complete
    <3>5. Archived(b)
      BY <2>2, <3>1 DEF Archived
    <3>6. QED
      BY <1>1, <3>4, <3>5 DEF ArchInv, Whole
  <2>5. QED
    BY <2>3, <2>4
<1>17. QED
  BY <1>1, <1>7, <1>10, <1>11, <1>12, <1>13, <1>14, <1>15, <1>16
  DEF ArchInv, StoreInv, LinkNeverFails
-----------------------------------------------------------------------------
(* Removing a block *)

\* The directory of the last linked block loses entries.
LEMMA RemoveStep ==
    ASSUME Tree, ArchInv, RemoveEntry \/ RemoveDir
    PROVE  ArchInv'
<1>1. /\ phase = "remove" /\ phase' \in Removing /\ torn \ {cur} \subseteq torn'
      /\ torn' \subseteq torn
      /\ UNCHANGED <<chainVars, faults, crashes, link, slot, head, prev, cur, owner, back, api>>
  BY SMTT(30) DEF RemoveEntry, RemoveDir, loopVars, Removing
<1>2. /\ cur \in Blocks /\ TypeOK /\ StoreInv /\ dir \in [Blocks -> Dirs] /\ back \in BOOLEAN
      /\ torn \subseteq Blocks
  BY DEF ArchInv, StoreInv, TypeOK
<1>3. AtTop(cur)
  BY <1>1, Zenon DEF ArchInv, Working, Removing
<1>4. /\ dir' \in [Blocks -> Dirs] /\ (dir'[cur].header => dir[cur].header)
      /\ \A b \in Blocks : b # cur => dir'[b] = dir[b]
  <2>1. dir[cur] \in Dirs
    BY <1>2
  <2>2. \E d \in Dirs : dir' = [dir EXCEPT ![cur] = d] /\ (d.header => dir[cur].header)
    <3>1. CASE dir' = [dir EXCEPT ![cur].tmp = FALSE]
      <4> DEFINE d == [dir[cur] EXCEPT !.tmp = FALSE]
      <4>1. d \in Dirs /\ d.header = dir[cur].header
        BY <2>1, Zenon, Zenon DEF Dirs
      <4>2. QED
        BY <3>1, <4>1, Zenon, Zenon
    <3>2. CASE dir' = [dir EXCEPT ![cur].header = FALSE]
      <4> DEFINE d == [dir[cur] EXCEPT !.header = FALSE]
      <4>1. d \in Dirs /\ d.header = FALSE
        BY <2>1, Zenon, Zenon DEF Dirs
      <4>2. QED
        BY <3>2, <4>1, Zenon, Zenon
    <3>3. CASE \E v \in dir[cur].blobs : dir' = [dir EXCEPT ![cur].blobs = @ \ {v}]
      <4>1. PICK v : dir' = [dir EXCEPT ![cur].blobs = @ \ {v}]
        BY <3>3, Zenon, Zenon
      <4> DEFINE d == [dir[cur] EXCEPT !.blobs = @ \ {v}]
      <4>2. dir[cur].blobs \in SUBSET AllBlobs
        BY <2>1 DEF Dirs
      <4>3. (dir[cur].blobs \ {v}) \in SUBSET AllBlobs
        BY <4>2
      <4>4. d \in Dirs /\ d.header = dir[cur].header
        BY <2>1, <4>3 DEF Dirs
      <4>5. QED
        BY <4>1, <4>4, Zenon, Zenon
    <3>4. CASE dir' = [dir EXCEPT ![cur].made = FALSE]
      <4> DEFINE d == [dir[cur] EXCEPT !.made = FALSE]
      <4>1. d \in Dirs /\ d.header = dir[cur].header
        BY <2>1, Zenon, Zenon DEF Dirs
      <4>2. QED
        BY <3>4, <4>1, Zenon, Zenon
    <3>5. QED
      BY <3>1, <3>2, <3>3, <3>4 DEF RemoveEntry, RemoveDir
  <2>3. PICK d \in Dirs : dir' = [dir EXCEPT ![cur] = d] /\ (d.header => dir[cur].header)
    BY <2>2, Zenon, Zenon
  <2>4. QED
    BY <1>2, <2>3
<1>5. phase' = "unlink" => ~dir'[cur].header
  <2>1. CASE RemoveEntry
    BY <1>1, <2>1 DEF RemoveEntry, loopVars
  <2>2. CASE RemoveDir
    <3>1. ~dir[cur].header
      BY <2>2 DEF RemoveDir
    <3>2. QED
      BY <1>4, <3>1
  <2>3. QED
    BY <2>1, <2>2
<1>6. cur \notin torn' => cur \notin torn \/ ~dir'[cur].header
  <2>1. CASE RemoveEntry
    BY <1>1, <2>1 DEF RemoveEntry
  <2>2. CASE RemoveDir
    BY <1>5, <2>2, SMTT(30) DEF RemoveDir
  <2>3. QED
    BY <2>1, <2>2
<1>7. TypeOK'
  BY <1>1, <1>2, <1>4 DEF TypeOK, chainVars, Removing
<1>8. Linked' = Linked /\ link' = link /\ cur' = cur
  BY <1>1 DEF Linked
<1>9. \A s : Highest(s)' <=> Highest(s)
  BY <1>8, SMTT(30) DEF Highest
<1>10. AtTop(cur)'
  BY <1>3, <1>8, <1>9, SMTT(30) DEF AtTop
<1>11. Links'
  <2>1. SUFFICES ASSUME NEW s \in Linked
                 PROVE  /\ link[s] \in Blocks /\ Slot[link[s]] = s
                        /\ ~Highest(s) => dir'[link[s]].header
    BY <1>8, <1>9 DEF Links
  <2>2. /\ link[s] \in Blocks /\ Slot[link[s]] = s /\ (~Highest(s) => dir[link[s]].header)
    BY <1>2, SMTT(30) DEF StoreInv, Links
  <2>3. ~Highest(s) => link[s] # cur
    BY <1>3, <2>2 DEF AtTop
  <2>4. QED
    BY <1>4, <2>2, <2>3
<1>12. Headers'
  BY <1>2, <1>4, <1>8 DEF StoreInv, Headers
<1>13. LinksAreChain'
  BY <1>2, <1>8, SMTT(30) DEF StoreInv, LinksAreChain
<1>14. \A b \in Blocks : /\ Complete(b)' => Complete(b)
                         /\ b # cur => (Complete(b)' <=> Complete(b))
  BY <1>4, <1>8 DEF Complete
<1>15. Whole'
  <2>1. SUFFICES ASSUME NEW b \in Blocks \ torn', ~(phase' = "remove" /\ cur = b),
                        Complete(b)', Archived(b)'
                 PROVE  Blobs[b] \subseteq dir'[b].blobs
    BY <1>8 DEF Whole
  <2>2. b # cur
    BY <1>1, <1>5, <2>1, SMTT(30) DEF Complete, Removing
  <2>3. b \notin torn /\ dir'[b] = dir[b] /\ Complete(b)
    BY <1>1, <1>4, <1>14, <2>1, <2>2
  <2>4. Archived(b)
    BY <1>14, <2>1, SMTT(30) DEF Archived
  <2>5. QED
    BY <2>1, <2>2, <2>3, <2>4, SMTT(30) DEF ArchInv, Whole
<1>16. Following' /\ Storing'
  BY <1>1, SMTT(30) DEF Following, Storing, Removing
<1>17. Working'
  BY <1>1, <1>5, <1>8, <1>10 DEF Working, Building, Removing
<1>18. Serving'
  <2>1. back = FALSE /\ api # NoBlock => api \in Blocks /\ Complete(api) /\ api # cur
    BY <1>1, SMTT(30) DEF ArchInv, StoreInv, TypeOK, Serving, Removing
  <2>2. back = FALSE /\ api # NoBlock => Complete(api)'
    BY <1>1, <1>14, <2>1 DEF Complete
  <2>3. QED
    BY <1>1, <2>1, <2>2, SMTT(30) DEF Serving
<1>19. QED
  BY <1>1, <1>7, <1>11, <1>12, <1>13, <1>15, <1>16, <1>17, <1>18
  DEF ArchInv, StoreInv, LinkNeverFails, Removing

LEMMA UnlinkStep ==
    ASSUME Tree, ArchInv, Unlink
    PROVE  ArchInv'
<1>1. /\ phase = "unlink" /\ phase' = "scan" /\ link' = [link EXCEPT ![Slot[cur]] = NoBlock]
      /\ UNCHANGED <<chainVars, faults, crashes, dir, torn, slot, head, prev, cur, owner, back, api>>
  BY SMTT(30) DEF Unlink
<1>2. /\ cur \in Blocks /\ TypeOK /\ StoreInv /\ link \in [Slots -> Blocks \cup {NoBlock}]
      /\ back \in BOOLEAN
  BY DEF ArchInv, StoreInv, TypeOK
<1>3. AtTop(cur) /\ ~dir[cur].header
  BY <1>1, Zenon, Zenon DEF ArchInv, Working, Removing
<1>4. /\ Slot[cur] \in Linked /\ link[Slot[cur]] = cur /\ \A s \in Linked : s <= Slot[cur]
      /\ \A s \in Linked : s \in Nat /\ s \in Slots
  BY <1>2, <1>3, TopLinked, LinkedSlots, Zenon
<1>5. \A s \in Slots : link'[s] = IF s = Slot[cur] THEN NoBlock ELSE link[s]
  BY <1>1, <1>2, <1>4
<1>6. Linked' = Linked \ {Slot[cur]}
  BY <1>5 DEF Linked
<1>7. \A s \in Linked' : s \in Linked /\ s < Slot[cur] /\ link'[s] = link[s] /\ ~Highest(s)
  <2>1. SUFFICES ASSUME NEW s \in Linked, s # Slot[cur]
                 PROVE  s < Slot[cur] /\ link'[s] = link[s] /\ ~Highest(s)
    BY <1>6
  <2>2. s <= Slot[cur] /\ s \in Nat /\ Slot[cur] \in Nat /\ s \in Slots
    BY <1>4
  <2>3. s < Slot[cur]
    BY <2>1, <2>2
  <2>4. ~Highest(s)
    BY <1>4, <2>2, <2>3, SMTT(30) DEF Highest
  <2>5. QED
    BY <1>5, <2>1, <2>2, <2>3, <2>4, SMTT(30)
<1>8. TypeOK'
  <2>1. link' \in [Slots -> Blocks \cup {NoBlock}]
    BY <1>1, <1>2, ZenonT(30), Zenon
  <2>2. QED
    BY <1>1, <1>2, <2>1 DEF TypeOK, chainVars
<1>9. Links'
  BY <1>1, <1>2, <1>7 DEF StoreInv, Links
<1>10. Headers'
  <2>1. SUFFICES ASSUME NEW b \in Blocks, dir[b].header
                 PROVE  link'[Slot[b]] = b
    BY <1>1, SMTT(30) DEF Headers
  <2>2. link[Slot[b]] = b /\ b # cur /\ Slot[b] \in Slots
    BY <1>2, <1>3, <2>1, SlotType DEF StoreInv, Headers
  <2>3. Slot[b] # Slot[cur]
    BY <1>4, <2>2
  <2>4. QED
    BY <1>5, <2>2, <2>3, SMTT(30)
<1>11. LinksAreChain'
  <2>1. SUFFICES ASSUME NEW s \in Linked', NEW r \in Linked', r < s,
                        \A q \in Linked' : q < s => q <= r
                 PROVE  Parent[link'[s]] = link'[r]
    BY DEF LinksAreChain
  <2>2. \A q \in Linked : q < s => q <= r
    <3>1. s < Slot[cur] /\ s \in Nat /\ Slot[cur] \in Nat
      BY <1>4, <1>7
    <3>2. ~(Slot[cur] < s)
      BY <3>1, SMTT(30)
    <3>3. QED
      BY <1>6, <2>1, <3>2
  <2>3. QED
    BY <1>2, <1>7, <2>1, <2>2 DEF StoreInv, LinksAreChain
<1>12. \A b \in Blocks : (Complete(b)' <=> Complete(b))
  <2>1. \A b \in Blocks : dir[b].header => link[Slot[b]] = b /\ link'[Slot[b]] = b
    BY <1>1, <1>2, <1>10 DEF StoreInv, Headers
  <2>2. QED
    BY <1>1, <2>1, SMTT(30) DEF Complete
<1>13. Whole'
  <2>1. \A b \in Blocks : Archived(b)' => Archived(b)
    BY <1>12 DEF Archived
  <2>2. QED
    BY <1>1, <1>12, <2>1, Zenon, Zenon DEF ArchInv, Whole
<1>14. Following' /\ Working' /\ Storing'
  BY <1>1, Zenon, Zenon DEF Following, Working, Storing, Building, Removing
<1>15. Serving'
  <2>1. back = FALSE /\ api # NoBlock => api \in Blocks /\ Complete(api)
    BY SMTT(30) DEF ArchInv, StoreInv, TypeOK, Serving
  <2>2. back = FALSE /\ api # NoBlock => Complete(api)'
    BY <1>1, <1>12, <2>1 DEF Complete
  <2>3. QED
    BY <1>1, <2>2 DEF Serving, Removing
<1>16. QED
  BY <1>1, <1>8, <1>9, <1>10, <1>11, <1>13, <1>14, <1>15
  DEF ArchInv, StoreInv, LinkNeverFails
-----------------------------------------------------------------------------
(* The invariant *)

LEMMA InitStep ==
    ASSUME Tree, Init
    PROVE  ArchInv
<1>1. InitSlot \in Nat /\ MaxSlot \in Nat /\ InitSlot <= MaxSlot
  BY SlotType, SMTT(30) DEF Tree
<1>2. NoDir \in Dirs
  BY SMTT(30) DEF NoDir, Dirs
<1>3. TypeOK
  <2>1. slot \in InitSlot .. MaxSlot + 1
    BY <1>1 DEF Init
  <2>2. link \in [Slots -> Blocks \cup {NoBlock}] /\ dir \in [Blocks -> Dirs]
    BY <1>2 DEF Init
  <2>3. /\ reorgs \in 0 .. MaxReorgs /\ faults \in 0 .. MaxFaults
        /\ crashes \in 0 .. MaxCrashes
    BY DEF Init, Tree
  <2>4. /\ tip \in Blocks /\ head \in Blocks /\ cur \in Blocks /\ torn \subseteq Blocks
        /\ {prev, owner, api} \subseteq Blocks \cup {NoBlock} /\ back \in BOOLEAN
    BY Zenon, Zenon DEF Init, Tree
  <2>5. QED
    BY <2>1, <2>2, <2>3, <2>4 DEF Init, TypeOK
<1>4. Linked = {}
  BY SMTT(30) DEF Init, Linked
<1>5. \A b \in Blocks : ~dir[b].header
  BY DEF Init, NoDir
<1>6. Links /\ Headers /\ LinksAreChain
  BY <1>4, <1>5 DEF Links, Headers, LinksAreChain
<1>7. Following /\ Working /\ Storing /\ Serving /\ LinkNeverFails
  BY ZenonT(30), Zenon DEF Init, Following, Working, Storing, Serving, LinkNeverFails, Building, Removing
<1>8. Whole
  BY <1>5 DEF Whole, Complete
<1>9. QED
  BY <1>3, <1>6, <1>7, <1>8, SMTT(30) DEF ArchInv, StoreInv

LEMMA NextStep ==
    ASSUME Tree, ArchInv, [Next]_vars
    PROVE  ArchInv'
<1>1. CASE UNCHANGED vars
  <2>1. UNCHANGED <<tip, reorgs, faults, crashes, link, dir, torn, phase, slot, head, prev, cur,
                    owner, back, api>>
    BY <1>1 DEF vars, chainVars, diskVars, loopVars
  <2>2. StoreInv'
    BY <2>1, ZenonT(30) DEF ArchInv, StoreInv, TypeOK, Links, Headers, LinksAreChain, Linked, Highest
  <2>3. Following' /\ Working' /\ LinkNeverFails'
    BY <2>1, Zenon DEF ArchInv, Following, Working, LinkNeverFails, Linked, Highest, AtTop
  <2>4. Storing' /\ Serving' /\ Whole'
    BY <2>1, Zenon DEF ArchInv, Storing, Serving, Whole, Complete, Archived
  <2>5. QED
    BY <2>2, <2>3, <2>4 DEF ArchInv
<1>2. CASE Next
  BY <1>2, ChainStep, StartStep, CrashStep, ScanStep, AskStep, PollStep, BackStep, LinkStep,
     DirStep, FetchStep, StoreStep, RenameStep, RemoveStep, UnlinkStep DEF Next, Archive
<1>3. QED
  BY <1>1, <1>2

\* The invariant of the archiver, whatever the chain, the node and the crashes
\* do.
THEOREM ArchiveInvariant ==
    ASSUME Tree
    PROVE  Spec => []ArchInv
<1>1. Init => ArchInv
  BY InitStep
<1>2. ArchInv /\ [Next]_vars => ArchInv'
  BY NextStep
<1>3. QED
  BY <1>1, <1>2, PTL DEF Spec
=============================================================================
