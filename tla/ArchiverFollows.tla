-------------------------- MODULE ArchiverFollows ---------------------------
(***************************************************************************)
(* What the archiver's invariant gives its readers: the archive starts at  *)
(* the first block of the chain and is sound, and the archiver implements  *)
(* ChainFollower.                                                          *)
(***************************************************************************)
EXTENDS ArchiverProofs, WellFoundedInduction

-----------------------------------------------------------------------------
(* The first block *)

LEMMA LeastSlot ==
    ASSUME NEW S \in SUBSET Nat, S # {}
    PROVE  \E x \in S : \A y \in S : x <= y
<1>1. OpToRel(<, Nat) = {rst \in Nat \X Nat : rst[1] < rst[2]}
  BY DEF OpToRel
<1>2. IsWellFoundedOn(OpToRel(<, Nat), Nat)
  BY NatLessThanWellFounded, Zenon
<1>3. PICK x \in S : \A y \in S : ~ (<<y, x>> \in OpToRel(<, Nat))
  BY <1>2, WFMin, Zenon
<1>4. x \in Nat /\ \A y \in S : y \in Nat
  OBVIOUS
<1>5. \A y \in S : ~(y < x)
  BY <1>1, <1>3, <1>4, Zenon
<1>6. QED
  BY <1>4, <1>5

\* There is a function that satisfies the equation of Ancestors (and of the
\* chain of ChainFollower): it maps b to the blocks that every set with b and
\* with the parents of its members has.
LEMMA AncestorsExist ==
    ASSUME Tree
    PROVE  \E f : f = [b \in Blocks |->
                          IF b = InitBlock THEN {b} ELSE {b} \cup f[Parent[b]]]
<1> DEFINE Closed(T) == \A x \in T \ {InitBlock} : Parent[x] \in T
           Up(b) == {c \in Blocks : \A T \in SUBSET Blocks : b \in T /\ Closed(T) => c \in T}
           g == [b \in Blocks |-> Up(b)]
<1>1. ASSUME NEW b \in Blocks
      PROVE  g[b] = IF b = InitBlock THEN {b} ELSE {b} \cup g[Parent[b]]
  <2>1. CASE b = InitBlock
    <3>1. Closed({b}) /\ {b} \in SUBSET Blocks
      BY <2>1
    <3>2. Up(b) = {b}
      BY <3>1, Zenon
    <3>3. QED
      BY <2>1, <3>2
  <2>2. CASE b # InitBlock
    <3>1. Parent[b] \in Blocks
      BY <2>2 DEF Tree
    <3>2. ASSUME NEW c \in Up(b), c # b PROVE c \in Up(Parent[b])
      <4>1. SUFFICES ASSUME NEW T \in SUBSET Blocks, Parent[b] \in T, Closed(T)
                     PROVE  c \in T
        BY <3>2
      <4>2. Closed(T \cup {b}) /\ (T \cup {b}) \in SUBSET Blocks
        BY <4>1
      <4>3. c \in T \cup {b}
        BY <3>2, <4>2, Zenon
      <4>4. QED
        BY <3>2, <4>3
    <3>3. ASSUME NEW c \in Up(Parent[b]) PROVE c \in Up(b)
      <4>1. SUFFICES ASSUME NEW T \in SUBSET Blocks, b \in T, Closed(T)
                     PROVE  c \in T
        BY <3>3
      <4>2. Parent[b] \in T
        BY <2>2, <4>1
      <4>3. QED
        BY <3>3, <4>1, <4>2
    <3>4. b \in Up(b)
      OBVIOUS
    <3> HIDE DEF Up
    <3>5. Up(b) = {b} \cup Up(Parent[b])
      BY <3>2, <3>3, <3>4
    <3>6. QED
      BY <2>2, <3>1, <3>5
  <2>3. QED
    BY <2>1, <2>2, Zenon
<1> HIDE DEF Up
<1>2. g = [b \in Blocks |-> IF b = InitBlock THEN {b} ELSE {b} \cup g[Parent[b]]]
  BY <1>1
<1> HIDE DEF g
<1>3. QED
  BY <1>2

LEMMA AncestorsUnfold ==
    ASSUME Tree
    PROVE  \A b \in Blocks :
              Ancestors[b] = IF b = InitBlock THEN {b} ELSE {b} \cup Ancestors[Parent[b]]
<1> DEFINE Eq(f) == f = [b \in Blocks |->
                            IF b = InitBlock THEN {b} ELSE {b} \cup f[Parent[b]]]
<1>1. \E f : Eq(f)
  BY AncestorsExist
<1>2. Ancestors = CHOOSE f : Eq(f)
  BY DEF Ancestors
<1>3. Eq(Ancestors)
  BY <1>1, <1>2, Zenon
<1>4. QED
  BY <1>3, SMTT(30)

\* Every block descends from the first one.
LEMMA InitIsAncestor ==
    ASSUME Tree, NEW t \in Blocks
    PROVE  InitBlock \in Ancestors[t]
<1> DEFINE Bad == {b \in Blocks : InitBlock \notin Ancestors[b]}
           S == {Slot[b] : b \in Bad}
<1>1. SUFFICES ASSUME Bad # {} PROVE FALSE
  OBVIOUS
<1>2. S \in SUBSET Nat /\ S # {}
  BY <1>1, SlotType
<1>3. PICK x \in S : \A y \in S : x <= y
  BY <1>2, LeastSlot, Zenon
<1>4. PICK b \in Bad : Slot[b] = x
  BY <1>3
<1>5. b # InitBlock
  BY <1>4, AncestorsUnfold, Zenon
<1>6. Parent[b] \in Blocks /\ Slot[Parent[b]] < Slot[b]
  BY <1>4, <1>5 DEF Tree
<1>7. InitBlock \notin Ancestors[Parent[b]]
  BY <1>4, <1>5, AncestorsUnfold, Zenon
<1>8. Slot[Parent[b]] \in S
  BY <1>6, <1>7
<1>9. Slot[b] <= Slot[Parent[b]]
  BY <1>3, <1>4, <1>8
<1>10. Slot[b] \in Nat /\ Slot[Parent[b]] \in Nat
  BY <1>4, <1>6, SlotType
<1>11. QED
  BY <1>6, <1>9, <1>10

LEMMA FirstIsLive ==
    ASSUME Tree, TypeOK
    PROVE  LiveAt(InitSlot) # NoBlock
<1>1. tip \in Blocks
  BY DEF TypeOK
<1>2. InitBlock \in Ancestors[tip] /\ InitBlock \in Blocks /\ Slot[InitBlock] = InitSlot
  BY <1>1, InitIsAncestor DEF Tree
<1>3. \E b \in Blocks : Slot[b] = InitSlot /\ b \in Ancestors[tip]
  BY <1>2
<1>4. NoBlock \notin Blocks
  BY DEF Tree
<1>5. QED
  BY <1>3, <1>4 DEF LiveAt

Begins ==
    /\ FromTheStart
    /\ phase \in {"check", "link"} /\ prev = NoBlock => slot = InitSlot

\* No step but the two that change a symlink can break FromTheStart.
LEMMA BeginsFrame ==
    ASSUME Begins, link' = link,
           phase' \in {"check", "link"} /\ prev' = NoBlock => slot' = InitSlot
    PROVE  Begins'
BY DEF Begins, FromTheStart, Linked

LEMMA BeginsStep ==
    ASSUME Tree, InitSlot \notin FlakySlots, ArchInv, Begins, [Next]_vars
    PROVE  Begins'
<1>1. CASE UNCHANGED vars \/ Extend \/ Reorg
  <2>1. link' = link /\ phase' = phase /\ prev' = prev /\ slot' = slot
    BY <1>1 DEF vars, Extend, Reorg, diskVars, loopVars
  <2>2. QED
    BY <2>1, BeginsFrame DEF Begins
<1>2. CASE Start \/ NodeError \/ Crash \/ RemoveEntry \/ RemoveDir
  <2>1. link' = link /\ phase' \notin {"check", "link"}
    BY <1>2 DEF Start, NodeError, Crash, RemoveEntry, RemoveDir, diskVars, loopVars
  <2>2. QED
    BY <2>1, BeginsFrame
<1>3. CASE MakeDir \/ WriteTmp \/ FetchBlobs \/ StoreBlob \/ BlobsStored
  <2>1. link' = link /\ phase' \notin {"check", "link"}
    BY <1>3 DEF MakeDir, WriteTmp, FetchBlobs, StoreBlob, BlobsStored, diskVars, loopVars
  <2>2. QED
    BY <2>1, BeginsFrame
<1>4. CASE RenameHeader
  <2>1. cur # NoBlock
    BY DEF ArchInv, StoreInv, TypeOK, Tree
  <2>2. QED
    BY <1>4, <2>1, BeginsFrame DEF RenameHeader
<1>5. CASE last_header
  <2>1. ASSUME NEW p, Found(p)
        PROVE  Begins'
    <3>1. link' = link /\ prev' = p /\ slot' = next_slot(p)
      BY <2>1 DEF Found, diskVars
    <3>2. prev' = NoBlock => slot' = InitSlot
      BY <3>1 DEF next_slot
    <3>3. QED
      BY <3>1, <3>2, BeginsFrame
  <2>2. ASSUME NEW p, Stale(p)
        PROVE  Begins'
    BY <2>2, BeginsFrame DEF Stale, diskVars
  <2>3. QED
    BY <1>5, <2>1, <2>2 DEF last_header
<1>6. CASE AskHeader
  <2>1. link' = link /\ prev' = prev /\ phase = "check"
    BY <1>6 DEF AskHeader, diskVars
  <2>2. prev = NoBlock => slot = InitSlot
    BY <2>1 DEF Begins
  <2>3. prev = NoBlock => LiveAt(slot) # NoBlock /\ slot \notin FlakySlots
    BY <2>2, FirstIsLive DEF ArchInv, StoreInv
  <2>4. prev = NoBlock => slot' = slot
    BY <1>6, <2>3 DEF AskHeader, Examine
  <2>5. QED
    BY <2>1, <2>2, <2>4, BeginsFrame
<1>7. CASE PollHead
  <2>1. link' = link /\ prev' = prev /\ phase = "check" /\ slot' = slot
    BY <1>7 DEF PollHead, diskVars, Examine
  <2>2. QED
    BY <2>1, BeginsFrame DEF Begins
<1>8. CASE StepBack
  <2>1. link' = link /\ phase' \in {"back", "remove"}
    BY <1>8 DEF StepBack, diskVars
  <2>2. QED
    BY <2>1, BeginsFrame
<1>9. CASE Symlink
  <2>1. phase = "link" /\ phase' \in {"mkdir", "halted"} /\ cur \in Blocks
    BY <1>9 DEF Symlink, ArchInv, StoreInv, TypeOK
  <2>2. Slot[cur] \in Slots /\ InitSlot \in Slots /\ cur # NoBlock
        /\ link \in [Slots -> Blocks \cup {NoBlock}]
    BY <2>1, SlotType DEF ArchInv, StoreInv, TypeOK, Tree
  <2>3. link[InitSlot] # NoBlock \/ Slot[cur] = InitSlot
    <3>1. CASE prev = NoBlock
      BY <2>1, <3>1 DEF Begins, ArchInv, Working
    <3>2. CASE prev # NoBlock
      <4>1. Linked # {}
        BY <2>1, <3>2 DEF ArchInv, Following, AtTop, Highest
      <4>2. QED
        BY <4>1 DEF Begins, FromTheStart
    <3>3. QED
      BY <3>1, <3>2
  <2>4. CASE link[Slot[cur]] = NoBlock
    <3>1. link' = [link EXCEPT ![Slot[cur]] = cur]
      BY <1>9, <2>4 DEF Symlink
    <3>2. link'[InitSlot] # NoBlock
      BY <2>2, <2>3, <3>1
    <3>3. QED
      BY <2>1, <3>2 DEF Begins, FromTheStart
  <2>5. CASE link[Slot[cur]] # NoBlock
    BY <1>9, <2>1, <2>5, BeginsFrame DEF Symlink
  <2>6. QED
    BY <2>4, <2>5
<1>10. CASE Unlink
  <2>1. /\ phase = "unlink" /\ phase' = "scan" /\ link' = [link EXCEPT ![Slot[cur]] = NoBlock]
    BY <1>10 DEF Unlink
  <2>2. cur \in Blocks /\ TypeOK /\ AtTop(cur) /\ link \in [Slots -> Blocks \cup {NoBlock}]
    BY <2>1 DEF ArchInv, StoreInv, TypeOK, Working, Removing
  <2>3. SUFFICES ASSUME NEW s \in Linked' PROVE link'[InitSlot] # NoBlock
    BY <2>1 DEF Begins, FromTheStart
  <2>4. s \in Slots /\ s \in Linked /\ s # Slot[cur]
    BY <2>1, <2>2, <2>3 DEF Linked
  <2>5. s <= Slot[cur]
    BY <2>2, <2>4, TopLinked
  <2>6. InitSlot \in Nat /\ Slot[cur] \in Nat /\ s \in Nat /\ InitSlot <= s /\ InitSlot \in Slots
    BY <2>2, <2>4, SlotType DEF Slots, Tree
  <2>7. InitSlot # Slot[cur]
    BY <2>4, <2>5, <2>6
  <2>8. link[InitSlot] # NoBlock
    BY <2>4 DEF Begins, FromTheStart
  <2>9. QED
    BY <2>1, <2>2, <2>6, <2>7, <2>8
<1>11. QED
  BY <1>1, <1>2, <1>3, <1>4, <1>5, <1>6, <1>7, <1>8, <1>9, <1>10 DEF Next, Archive

\* The archive is sound (ArchiveSound) whatever reorgs, node failures and
\* crashes interrupt: the links are one chain from init_start_slot on, the
\* symlink of follow_chain never collides, and what a header.json stands for is
\* served.  The nodes are taken to serve the block of init_start_slot.
THEOREM ArchiveIsSound ==
    ASSUME Tree, InitSlot \notin FlakySlots
    PROVE  Spec => []ArchiveSound
<1>1. Init => Begins
  BY DEF Init, Begins, FromTheStart, Linked
<1>2. ArchInv /\ Begins /\ [Next]_vars => Begins'
  BY BeginsStep
<1>3. ArchInv /\ Begins => ArchiveSound
  <2>1. SUFFICES ASSUME ArchInv, Begins PROVE ArchiveSound
    OBVIOUS
  <2>2. TypeOK /\ LinksAreChain /\ FromTheStart /\ LinkNeverFails
    BY <2>1 DEF ArchInv, StoreInv, Begins
  <2>3. StoredIsServed
    BY <2>1 DEF ArchInv, Whole, StoredIsServed, get_blobs, load_blobs_disk
  <2>4. ServedIsComplete
    BY <2>1, <2>2 DEF ArchInv, Serving, ServedIsComplete, Removing, TypeOK
  <2>5. QED
    BY <2>2, <2>3, <2>4 DEF ArchiveSound
<1>4. Spec => []ArchInv
  BY ArchiveInvariant
<1>5. QED
  BY <1>1, <1>2, <1>3, <1>4, PTL DEF Spec
-----------------------------------------------------------------------------
(* The archive follows a chain *)

LEMMA GreatestSlot ==
    ASSUME Tree, NEW S \in SUBSET Slots, S # {}
    PROVE  \E x \in S : \A y \in S : y <= x
<1>1. MaxSlot \in Nat /\ \A s \in S : s \in Nat /\ s <= MaxSlot
  BY DEF Tree, Slots
<1> DEFINE T == {MaxSlot - s : s \in S}
<1>2. T \in SUBSET Nat /\ T # {}
  BY <1>1
<1>3. PICK m \in T : \A n \in T : m <= n
  BY <1>2, LeastSlot, Zenon
<1>4. PICK x \in S : m = MaxSlot - x
  BY <1>3
<1>5. ASSUME NEW y \in S PROVE y <= x
  <2>1. MaxSlot - x <= MaxSlot - y
    BY <1>3, <1>4
  <2>2. QED
    BY <1>1, <2>1
<1>6. QED
  BY <1>5

LEMMA LastAt ==
    ASSUME Tree, NEW l, NEW d, NEW s \in Done(l, d), \A r \in Done(l, d) : r <= s
    PROVE  Last(l, d) = l[s]
<1>1. Done(l, d) # {} /\ \A r \in Done(l, d) : r \in Nat
  BY DEF Done, Slots, Tree
<1> DEFINE c == CHOOSE x \in Done(l, d) : \A r \in Done(l, d) : r <= x
<1>2. c \in Done(l, d) /\ \A r \in Done(l, d) : r <= c
  OBVIOUS
<1>3. c = s
  <2>1. c <= s /\ s <= c /\ c \in Nat /\ s \in Nat
    BY <1>1, <1>2
  <2> HIDE DEF c
  <2>2. QED
    BY <2>1
<1>4. QED
  BY <1>1, <1>3 DEF Last

LEMMA LastType ==
    ASSUME Tree, NEW l \in [Slots -> Blocks \cup {NoBlock}], NEW d
    PROVE  Last(l, d) \in Blocks \cup {NoBlock}
<1>1. CASE Done(l, d) = {}
  BY <1>1 DEF Last
<1>2. CASE Done(l, d) # {}
  <2>1. Done(l, d) \in SUBSET Slots
    BY DEF Done
  <2>2. PICK s \in Done(l, d) : \A r \in Done(l, d) : r <= s
    BY <1>2, <2>1, GreatestSlot
  <2>3. Last(l, d) = l[s]
    BY <2>2, LastAt
  <2>4. QED
    BY <2>1, <2>3
<1>3. QED
  BY <1>1, <1>2

\* Links and headers that agree where a block is complete.
LEMMA LastSame ==
    ASSUME Tree, NEW l, NEW d, NEW k, NEW e, Done(k, e) = Done(l, d),
           \A s \in Done(l, d) : k[s] = l[s]
    PROVE  Last(k, e) = Last(l, d)
<1>1. CASE Done(l, d) = {}
  BY <1>1 DEF Last
<1>2. CASE Done(l, d) # {}
  <2>1. Done(l, d) \in SUBSET Slots
    BY DEF Done
  <2>2. PICK s \in Done(l, d) : \A r \in Done(l, d) : r <= s
    BY <1>2, <2>1, GreatestSlot
  <2>3. Last(l, d) = l[s]
    BY <2>2, LastAt
  <2>4. Last(k, e) = k[s]
    BY <2>2, LastAt
  <2>5. QED
    BY <2>3, <2>4
<1>3. QED
  BY <1>1, <1>2

\* A last linked block with its header.json is the last complete one.
LEMMA LastOfTop ==
    ASSUME Tree, TypeOK, NEW c \in Blocks, AtTop(c), NEW d, d[c].header
    PROVE  Last(link, d) = c
<1>1. Slot[c] \in Linked /\ link[Slot[c]] = c /\ \A s \in Linked : s <= Slot[c]
  BY TopLinked
<1>2. Slot[c] \in Done(link, d) /\ \A s \in Done(link, d) : s \in Linked
  BY <1>1 DEF Done, Linked
<1>3. \A s \in Done(link, d) : s <= Slot[c]
  BY <1>1, <1>2
<1>4. QED
  BY <1>1, <1>2, <1>3, LastAt

\* Without it, that is its parent, or none.
LEMMA LastBelow ==
    ASSUME Tree, StoreInv, FromTheStart, NEW c \in Blocks, AtTop(c), NEW d, ~d[c].header,
           \A b \in Blocks : b # c => d[b].header = dir[b].header
    PROVE  \/ Last(link, d) = NoBlock /\ c = InitBlock
           \/ Last(link, d) = Parent[c] /\ c # InitBlock /\ Parent[c] \in Blocks
<1>1. Slot[c] \in Linked /\ link[Slot[c]] = c /\ \A s \in Linked : s <= Slot[c]
  BY TopLinked
<1>2. TypeOK /\ Links /\ LinksAreChain
  BY DEF StoreInv
<1>3. /\ Linked \subseteq Slots /\ Slots \subseteq Nat
      /\ \A s \in Linked : link[s] \in Blocks
  BY <1>2, LinkedSlots
<1> DEFINE D == Linked \ {Slot[c]}
<1>4. \A s \in D : s < Slot[c] /\ link[s] # c /\ dir[link[s]].header
  <2>1. SUFFICES ASSUME NEW s \in D PROVE s < Slot[c] /\ link[s] # c /\ dir[link[s]].header
    OBVIOUS
  <2>2. s \in Nat /\ Slot[c] \in Nat /\ s <= Slot[c] /\ s # Slot[c]
    BY <1>1, <1>3, Zenon
  <2>3. s < Slot[c]
    BY <2>2
  <2>4. ~Highest(s)
    BY <1>1, <2>2, <2>3 DEF Highest
  <2>5. Slot[link[s]] = s /\ dir[link[s]].header
    BY <1>2, <2>4 DEF Links
  <2>6. QED
    BY <2>2, <2>3, <2>5
<1>5. Done(link, d) = D
  <2>1. ASSUME NEW s \in Done(link, d) PROVE s \in D
    BY <1>1, <2>1 DEF Done, Linked
  <2>2. ASSUME NEW s \in D PROVE s \in Done(link, d)
    BY <1>3, <1>4, <2>2 DEF Done, Linked
  <2>3. QED
    BY <2>1, <2>2
<1>6. CASE D = {}
  <2>1. Last(link, d) = NoBlock
    BY <1>5, <1>6, SMTT(30) DEF Last
  <2>2. link[InitSlot] # NoBlock /\ InitSlot \in Slots
    BY <1>1, SlotType, SMTT(30) DEF FromTheStart, Tree
  <2>3. InitSlot \in Linked
    BY <2>2 DEF Linked
  <2>4. InitSlot = Slot[c]
    BY <1>6, <2>3
  <2>5. c = InitBlock
    <3>1. SUFFICES ASSUME c # InitBlock PROVE FALSE
      OBVIOUS
    <3>2. Parent[c] \in Blocks /\ Slot[Parent[c]] < Slot[c]
      BY <3>1 DEF Tree
    <3>3. InitSlot \in Nat /\ Slot[Parent[c]] \in Nat /\ InitSlot <= Slot[Parent[c]]
      BY <3>2, SlotType
    <3>4. QED
      BY <2>4, <3>2, <3>3
  <2>6. QED
    BY <2>1, <2>5
<1>7. CASE D # {}
  <2>1. D \in SUBSET Slots
    BY <1>3, Zenon
  <2>2. PICK r \in D : \A q \in D : q <= r
    BY <1>7, <2>1, GreatestSlot, ZenonT(30)
  <2>3. Last(link, d) = link[r]
    BY <1>5, <2>2, LastAt
  <2>4. \A q \in Linked : q < Slot[c] => q <= r
    <3>1. Slot[c] \in Nat
      BY <1>1, <1>3, Zenon
    <3>2. QED
      BY <2>2, <3>1
  <2>5. Parent[link[Slot[c]]] = link[r]
    BY <1>1, <1>2, <1>4, <2>2, <2>4 DEF LinksAreChain
  <2>6. Parent[c] = link[r] /\ link[r] \in Blocks
    BY <1>1, <1>3, <2>5, Zenon
  <2>7. c # InitBlock
    BY <2>6 DEF Tree
  <2>8. QED
    BY <2>3, <2>6, <2>7
<1>8. QED
  BY <1>6, <1>7

LEMMA SameLast ==
    ASSUME Tree, TypeOK, SameHeaders
    PROVE  LastComplete' = LastComplete
<1>1. link' = link /\ \A s \in Slots : link[s] # NoBlock => link[s] \in Blocks
  BY DEF SameHeaders, TypeOK
<1>2. Done(link', dir') = Done(link, dir)
  BY <1>1 DEF Done, SameHeaders
<1>3. Last(link', dir') = Last(link, dir)
  BY <1>1, <1>2, LastSame
<1>4. QED
  BY <1>3 DEF LastComplete

LEMMA SymlinkLast ==
    ASSUME Tree, StoreInv, Symlink \/ Unlink, cur \in Blocks, ~dir[cur].header,
           Unlink => link[Slot[cur]] = cur
    PROVE  LastComplete' = LastComplete
<1>1. dir' = dir /\ link \in [Slots -> Blocks \cup {NoBlock}] /\ Slot[cur] \in Slots
      /\ cur # NoBlock
  BY SlotType DEF Symlink, Unlink, StoreInv, TypeOK, Tree
<1>2. \A s \in Slots : s # Slot[cur] => link'[s] = link[s]
  BY <1>1 DEF Symlink, Unlink
<1>3. Slot[cur] \notin Done(link, dir) \/ link' = link
  <2>1. CASE Symlink
    BY <2>1 DEF Symlink, Done
  <2>2. CASE Unlink
    BY <2>2 DEF Done
  <2>3. QED
    BY <2>1, <2>2
<1>4. Slot[cur] \notin Done(link', dir) \/ link' = link
  <2>1. CASE Symlink
    BY <1>1, <2>1 DEF Symlink, Done
  <2>2. CASE Unlink
    BY <1>1, <2>2 DEF Unlink, Done
  <2>3. QED
    BY <2>1, <2>2
<1>5. CASE link' = link
  BY <1>1, <1>5 DEF LastComplete
<1>6. CASE link' # link
  <2>1. Done(link', dir) = Done(link, dir)
    <3>1. ASSUME NEW s \in Slots
          PROVE  s \in Done(link', dir) <=> s \in Done(link, dir)
      <4>1. CASE s = Slot[cur]
        BY <1>3, <1>4, <1>6, <4>1
      <4>2. CASE s # Slot[cur]
        BY <1>2, <4>2 DEF Done
      <4>3. QED
        BY <4>1, <4>2
    <3>2. Done(link', dir) \subseteq Slots /\ Done(link, dir) \subseteq Slots
      BY DEF Done
    <3>3. QED
      BY <3>1, <3>2
  <2>2. \A s \in Done(link, dir) : link'[s] = link[s]
    BY <1>2, <1>3, <1>6 DEF Done
  <2>3. Last(link', dir) = Last(link, dir)
    BY <2>1, <2>2, LastSame, SMTT(30)
  <2>4. QED
    BY <1>1, <2>3 DEF LastComplete
<1>7. QED
  BY <1>5, <1>6, SMTT(30)

LEMMA ChainUnfold ==
    ASSUME Tree
    PROVE  \A b \in Blocks :
              Follower!Chain[b] = IF b = InitBlock THEN {b} ELSE {b} \cup Follower!Chain[Parent[b]]
<1> DEFINE Eq(f) == f = [b \in Blocks |->
                            IF b = InitBlock THEN {b} ELSE {b} \cup f[Parent[b]]]
<1>1. \E f : Eq(f)
  BY AncestorsExist
<1>2. Follower!Chain = CHOOSE f : Eq(f)
  BY DEF Follower!Chain
<1>3. Eq(Follower!Chain)
  BY <1>1, <1>2, Zenon
<1>4. QED
  BY <1>3

\* A block becomes complete after its parent.
LEMMA TakeInStep ==
    ASSUME Tree, ArchInv, Begins, RenameHeader
    PROVE  Follower!TakeIn
<1>1. /\ phase = "rename" /\ link' = link
      /\ dir' = [dir EXCEPT ![cur].tmp = FALSE, ![cur].header = TRUE]
  BY DEF RenameHeader
<1>2. cur \in Blocks /\ TypeOK /\ StoreInv /\ FromTheStart /\ dir \in [Blocks -> Dirs]
  BY DEF ArchInv, StoreInv, TypeOK, Begins
<1>3. AtTop(cur) /\ ~dir[cur].header
  BY <1>1 DEF ArchInv, Working, Building
<1>4. dir'[cur].header
  BY <1>1, <1>2 DEF Dirs
<1>5. LastComplete' = cur
  BY <1>1, <1>2, <1>3, <1>4, LastOfTop, ZenonT(30) DEF LastComplete
<1>6. \/ LastComplete = NoBlock /\ cur = InitBlock
      \/ LastComplete = Parent[cur] /\ cur # InitBlock /\ Parent[cur] \in Blocks
  BY <1>2, <1>3, LastBelow DEF LastComplete
<1>7. Follower!Follows(LastComplete, cur)
  BY <1>6 DEF Follower!Follows, Tree
<1>8. QED
  BY <1>2, <1>5, <1>7 DEF Follower!TakeIn

\* A block stops being complete only at the end of the chain.
LEMMA DropStep ==
    ASSUME Tree, ArchInv, Begins, phase = "remove", dir[cur].header,
           dir' = [dir EXCEPT ![cur].header = FALSE], link' = link
    PROVE  Follower!Drop
<1>1. cur \in Blocks /\ TypeOK /\ StoreInv /\ FromTheStart /\ dir \in [Blocks -> Dirs]
  BY DEF ArchInv, StoreInv, TypeOK, Begins
<1>2. AtTop(cur) /\ cur # NoBlock
  BY <1>1 DEF ArchInv, Working, Removing, Tree
<1>3. LastComplete = cur
  BY <1>1, <1>2, LastOfTop DEF LastComplete
<1>4. ~dir'[cur].header /\ \A b \in Blocks : b # cur => dir'[b].header = dir[b].header
  BY <1>1 DEF Dirs
<1>5. \/ LastComplete' = NoBlock
      \/ LastComplete' = Parent[cur] /\ cur # InitBlock /\ Parent[cur] \in Blocks
  BY <1>1, <1>2, <1>4, LastBelow, Zenon DEF LastComplete
<1>6. LastComplete' \in (Follower!Chain[cur] \ {cur}) \cup {NoBlock}
  <2>1. CASE LastComplete' = NoBlock
    BY <2>1
  <2>2. CASE LastComplete' = Parent[cur] /\ cur # InitBlock /\ Parent[cur] \in Blocks
    <3>1. Parent[cur] \in Follower!Chain[Parent[cur]]
      BY <2>2, ChainUnfold, Zenon
    <3>2. Parent[cur] \in Follower!Chain[cur]
      BY <1>1, <2>2, <3>1, ChainUnfold, Zenon
    <3>3. Parent[cur] # cur
      <4>1. Slot[Parent[cur]] < Slot[cur] /\ Slot[cur] \in Nat
        BY <1>1, <2>2, SlotType DEF Tree
      <4>2. QED
        BY <4>1
    <3>4. QED
      BY <2>2, <3>2, <3>3
  <2>3. QED
    BY <1>5, <2>1, <2>2
<1>7. LastComplete' \in Blocks \cup {NoBlock}
  BY <1>5
<1>8. QED
  BY <1>2, <1>3, <1>6, <1>7 DEF Follower!Drop

LEMMA FollowerStep ==
    ASSUME Tree, ArchInv, Begins, [Next]_vars
    PROVE  Follower!Next \/ UNCHANGED Follower!vars
<1>1. TypeOK /\ StoreInv /\ cur \in Blocks /\ dir \in [Blocks -> Dirs]
  BY DEF ArchInv, StoreInv, TypeOK
<1>2. SUFFICES ASSUME ~SameHeaders, ~RenameHeader
               PROVE  Follower!Next \/ LastComplete' = LastComplete
  BY <1>1, SameLast, TakeInStep DEF Follower!Next, Follower!vars
<1>3. CASE Symlink
  <2>1. phase = "link"
    BY <1>3 DEF Symlink
  <2>2. CASE link[Slot[cur]] # NoBlock
    BY <1>2, <1>3, <2>2 DEF Symlink, SameHeaders
  <2>3. CASE link[Slot[cur]] = NoBlock
    <3>1. ~dir[cur].header
      BY <1>1, <2>3 DEF StoreInv, Headers, Tree
    <3>2. ~Unlink
      BY <2>1, SMTT(30) DEF Unlink
    <3>3. QED
      BY <1>1, <1>3, <3>1, <3>2, SymlinkLast, SMTT(30)
  <2>4. QED
    BY <2>2, <2>3
<1>4. CASE Unlink
  <2>1. AtTop(cur) /\ ~dir[cur].header
    BY <1>4 DEF Unlink, ArchInv, Working, Removing
  <2>2. QED
    BY <1>1, <1>4, <2>1, SymlinkLast, SMTT(30) DEF AtTop
<1>5. CASE RemoveEntry
  <2>1. phase = "remove" /\ link' = link
    BY <1>5 DEF RemoveEntry
  <2>2. CASE dir[cur].header /\ dir' = [dir EXCEPT ![cur].header = FALSE]
    BY <2>1, <2>2, DropStep DEF Follower!Next
  <2>3. CASE dir' = [dir EXCEPT ![cur].tmp = FALSE]
    <3>1. SameHeaders
      BY <1>1, <2>1, <2>3 DEF SameHeaders, Dirs
    <3>2. QED
      BY <1>2, <3>1
  <2>4. CASE \E v : dir' = [dir EXCEPT ![cur].blobs = @ \ {v}]
    <3>1. SameHeaders
      BY <1>1, <2>1, <2>4 DEF SameHeaders, Dirs
    <3>2. QED
      BY <1>2, <3>1
  <2>5. QED
    BY <1>5, <2>2, <2>3, <2>4 DEF RemoveEntry
<1>6. CASE RemoveDir \/ MakeDir \/ WriteTmp
  <2>1. link' = link
    BY <1>6 DEF RemoveDir, MakeDir, WriteTmp
  <2>2. dir' = [dir EXCEPT ![cur].made = FALSE] \/ dir' = [dir EXCEPT ![cur].made = TRUE]
        \/ dir' = [dir EXCEPT ![cur].tmp = TRUE]
    BY <1>6 DEF RemoveDir, MakeDir, WriteTmp
  <2>3. SameHeaders
    BY <1>1, <2>1, <2>2 DEF SameHeaders, Dirs
  <2>4. QED
    BY <1>2, <2>3
<1>7. CASE StoreBlob
  <2>1. link' = link /\ owner \in Blocks
    BY <1>7 DEF StoreBlob, ArchInv, StoreInv, TypeOK, Storing
  <2>2. PICK v : dir' = [dir EXCEPT ![owner].made = TRUE, ![owner].blobs = @ \cup {v}]
    BY <1>7, Zenon DEF StoreBlob
  <2>3. SameHeaders
    BY <1>1, <2>1, <2>2 DEF SameHeaders, Dirs
  <2>4. QED
    BY <1>2, <2>3
<1>8. CASE UNCHANGED vars \/ Extend \/ Reorg \/ Start \/ last_header \/ AskHeader \/ PollHead
           \/ StepBack \/ FetchBlobs \/ BlobsStored \/ NodeError \/ Crash
  <2>1. link' = link /\ dir' = dir
    BY <1>8, Zenon DEF vars, Extend, Reorg, Start, last_header, Found, Stale, AskHeader, PollHead,
       StepBack, FetchBlobs, BlobsStored, NodeError, Crash, diskVars
  <2>2. QED
    BY <1>2, <2>1 DEF SameHeaders
<1>9. QED
  BY <1>2, <1>3, <1>4, <1>5, <1>6, <1>7, <1>8, SMTT(30) DEF Next, Archive

\* The archive implements ChainFollower (ArchiveFollowsChain): whatever cuts
\* follow_chain short, a block gets its header.json only after its parent, and
\* loses it only at the end of the chain.
THEOREM ArchiveImplementsFollower ==
    ASSUME Tree, InitSlot \notin FlakySlots
    PROVE  Spec => ArchiveFollowsChain
<1>1. Init => Follower!Init
  <2>1. SUFFICES ASSUME Init PROVE Follower!Init
    OBVIOUS
  <2>2. Done(link, dir) = {}
    BY <2>1 DEF Init, Done
  <2>3. LastComplete = NoBlock
    BY <2>2 DEF LastComplete, Last
  <2>4. QED
    BY <2>3 DEF Follower!Init
<1>2. Init => Begins
  BY DEF Init, Begins, FromTheStart, Linked
<1>3. ArchInv /\ Begins /\ [Next]_vars => Begins'
  BY BeginsStep
<1>4. ArchInv /\ Begins /\ [Next]_vars => [Follower!Next]_(Follower!vars)
  BY FollowerStep
<1>5. Spec => []ArchInv
  BY ArchiveInvariant
<1>6. QED
  BY <1>1, <1>2, <1>3, <1>4, <1>5, PTL DEF Spec, ArchiveFollowsChain, Follower!Spec
=============================================================================
