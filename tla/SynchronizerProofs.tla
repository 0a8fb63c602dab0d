------------------------- MODULE SynchronizerProofs -------------------------
(***************************************************************************)
(* Proofs about the synchronizer for every tree of blocks, every batch     *)
(* size and any number of reorgs, failed requests and crashes: the log is  *)
(* one chain, and committed roots have their nodes on disk.                *)
(***************************************************************************)
EXTENDS Synchronizer, TLAPS

Answers == Blocks \cup {NoBlock, Unasked}

\* What the loop and the log agree on.  After starting, exactly the slots below
\* next are committed; answers are blocks of the slot asked for; and a slot
\* that waits to be committed continues the stored chain.
Shape ==
    /\ tip \in Blocks /\ seen \in Blocks
    /\ DOMAIN log = Slots
    /\ \A s \in Slots : /\ log[s].committed \in BOOLEAN
                        /\ log[s].root \in Blocks \cup {NoBlock}
                        /\ log[s].root # NoBlock => log[s].committed
    /\ next \in InitSlot .. MaxSlot + 1 /\ walk \in Slots /\ upto \in Slots
    /\ got \in [Slots -> Answers]
    /\ \A s \in Slots : got[s] \in Blocks => Slot[got[s]] = s

Gapless ==
    \A s \in Slots : log[s].committed => \A r \in InitSlot .. s : log[r].committed

Working_phases == {"idle", "fetch", "ready", "derived", "synced", "walk", "refresh"}

Progress ==
    /\ phase \in Working_phases \cup {"start", "halted"}
    /\ phase \in Working_phases => \A s \in Slots : log[s].committed <=> s < next
    /\ phase \in {"fetch", "ready", "derived", "synced"} => next <= upto
    /\ phase \in {"ready", "derived", "synced"} =>
          \A s \in next .. upto : got[s] # Unasked
    /\ phase = "walk" => walk <= next

LinksTo(b, s) ==
    /\ Slot[b] = s
    /\ \A p \in Slots : IsLatestRoot(p, s) => Parent[b] = slot_root(p)

Linked == \A s \in Slots : slot_root(s) # NoBlock => LinksTo(slot_root(s), s)

WorkLinks ==
    phase \in {"derived", "synced"} =>
        /\ work.root \in Blocks \cup {NoBlock}
        /\ work.root # NoBlock => LinksTo(work.root, next)

ChainInv == Shape /\ Gapless /\ Progress /\ Linked /\ WorkLinks

LEMMA LiveAtSlot ==
    ASSUME NEW s \in Slots
    PROVE  LiveAt(s) \in Blocks \cup {NoBlock} /\ (LiveAt(s) \in Blocks => Slot[LiveAt(s)] = s)
<1>1. CASE \E b \in Blocks : Slot[b] = s /\ b \in Ancestors[tip]
  BY <1>1, TreeAssumption DEF LiveAt
<1>2. CASE ~\E b \in Blocks : Slot[b] = s /\ b \in Ancestors[tip]
  BY <1>2, TreeAssumption DEF LiveAt
<1>3. QED
  BY <1>1, <1>2

\* What a step that leaves the log and the work alone keeps.
LEMMA LinksFrame ==
    ASSUME log' = log
    PROVE  /\ \A b, s : LinksTo(b, s)' <=> LinksTo(b, s)
           /\ Gapless' <=> Gapless
           /\ Linked' <=> Linked
BY DEF LinksTo, IsLatestRoot, slot_root, Gapless, Linked

LEMMA SlotFacts ==
    /\ InitSlot \in Nat \ {0} /\ MaxSlot \in Nat /\ InitSlot \in Slots
    /\ \A s : s \in Slots <=> s \in Int /\ InitSlot <= s /\ s <= MaxSlot
    /\ \A b \in Blocks : Slot[b] \in Slots
    /\ InitBlock \in Blocks /\ NoBlock \notin Blocks /\ Unasked \notin Blocks \cup {NoBlock}
<1>1. InitSlot \in Nat \ {0} /\ MaxSlot \in Nat
  BY TreeAssumption
<1>2. \A s : s \in Slots <=> s \in Int /\ InitSlot <= s /\ s <= MaxSlot
  BY <1>1 DEF Slots
<1>3. QED
  BY <1>1, <1>2, TreeAssumption

LEMMA ChainInit == Init => ChainInv
<1> SUFFICES ASSUME Init PROVE ChainInv
  OBVIOUS
<1> USE SlotFacts
<1>1. \A s \in Slots : log[s] = NoRow /\ got[s] = Unasked
  BY DEF Init, NoAnswers
<1>2. got \in [Slots -> Answers]
  BY DEF Init, NoAnswers, Answers
<1>0. DOMAIN log = Slots /\ tip \in Blocks /\ seen \in Blocks
  BY DEF Init
<1>3. \A s \in Slots : log[s].committed = FALSE /\ log[s].root = NoBlock
  BY <1>1 DEF NoRow
<1>4. Shape
  <2>1. next \in InitSlot .. MaxSlot + 1 /\ walk \in Slots /\ upto \in Slots
    BY DEF Init
  <2>2. QED
    BY <1>0, <1>1, <1>2, <1>3, <2>1, Zenon DEF Shape
<1>5. Gapless /\ Linked
  BY <1>3 DEF Gapless, Linked, slot_root
<1>6. Progress /\ WorkLinks
  BY DEF Init, Progress, WorkLinks, Working_phases
<1>7. QED
  BY <1>4, <1>5, <1>6 DEF ChainInv

\* Steps that start, look for a slot or give up: the log stays as it is and no
\* slot waits to be committed.
LEMMA ChainQuiet ==
    ASSUME ChainInv, log' = log, phase' \notin {"derived", "synced"}, Shape', Progress'
    PROVE  ChainInv'
BY LinksFrame DEF ChainInv, WorkLinks

LEMMA ChainStart ==
    ASSUME ChainInv, Resume \/ Begin
    PROVE  ChainInv'
<1> USE SlotFacts DEF chainVars, dbVars
<1>1. CASE Resume
  <2>1. PICK s \in Slots : IsLastCommitted(s) /\ next' = s + 1
    BY <1>1 DEF Resume
  <2>2. \A r \in Slots : log[r].committed <=> r < next'
    BY <2>1 DEF IsLastCommitted, ChainInv, Gapless, Shape
  <2>3. Shape'
    BY <1>1, <2>1 DEF Resume, ChainInv, Shape
  <2>4. Progress'
    BY <1>1, <2>2 DEF Resume, Progress, Working_phases
  <2>5. QED
    BY <1>1, <2>3, <2>4, ChainQuiet DEF Resume
<1>2. CASE Begin
  <2>1. Shape'
    BY <1>2 DEF Begin, ChainInv, Shape
  <2>2. \A r \in Slots : log[r].committed <=> r < next'
    BY <1>2 DEF Begin, ChainInv, Shape
  <2>3. phase' \in {"halted", "idle"}
    BY <1>2 DEF Begin
  <2>4. Progress'
    BY <1>2, <2>2, <2>3 DEF Begin, Progress, Working_phases
  <2>5. QED
    BY <1>2, <2>1, <2>3, <2>4, ChainQuiet DEF Begin
<1>3. QED
  BY <1>1, <1>2

LEMMA AnswerOfSlot ==
    ASSUME NEW s \in Slots, NEW answer \in Blocks \cup {NoBlock}, Asked(s, answer)
    PROVE  answer \in Answers \ {Unasked} /\ (answer \in Blocks => Slot[answer] = s)
BY LiveAtSlot, SlotFacts DEF Asked, Answers

LEMMA ChainFetch ==
    ASSUME ChainInv, StartBatch \/ FetchHeader \/ RefreshHead \/ LookBehind
    PROVE  ChainInv'
<1> USE SlotFacts DEF chainVars, dbVars
<1>0. log' = log /\ next' = next /\ walk' = walk /\ phase' \notin {"derived", "synced"}
  BY DEF StartBatch, FetchHeader, RefreshHead, LookBehind
<1>1. CASE StartBatch
  <2>1. upto' \in Slots /\ next <= upto'
    <3>1. next \in Int /\ next >= InitSlot /\ BatchSize \in Nat \ {0} /\ Slot[seen] \in Slots
      BY TreeAssumption DEF ChainInv, Shape
    <3>2. Slot[seen] - next >= BatchSize /\ upto' = next + BatchSize - 1
      BY <1>1 DEF StartBatch, Behind
    <3>3. QED
      BY <3>1, <3>2
  <2>2. Shape'
    BY <1>0, <1>1, <2>1 DEF StartBatch, ChainInv, Shape
  <2>3. Progress'
    BY <1>0, <1>1, <2>1 DEF StartBatch, ChainInv, Progress, Working_phases
  <2>4. QED
    BY <1>0, <2>2, <2>3, ChainQuiet
<1>2. CASE FetchHeader
  <2>1. PICK s \in next .. upto, answer \in Blocks \cup {NoBlock} :
            /\ Asked(s, answer) /\ got' = [got EXCEPT ![s] = answer]
    BY <1>2, Zenon DEF FetchHeader
  <2>2. s \in Slots
    BY DEF ChainInv, Shape
  <2>3. got' \in [Slots -> Answers] /\ \A r \in Slots : got'[r] \in Blocks => Slot[got'[r]] = r
    BY <2>1, <2>2, AnswerOfSlot DEF ChainInv, Shape
  <2>4. Shape'
    BY <1>0, <1>2, <2>3 DEF FetchHeader, ChainInv, Shape
  <2>5. upto' = upto /\ phase' \in {"ready", "fetch"} /\ next <= upto
    BY <1>2 DEF FetchHeader, ChainInv, Progress
  <2>6. phase' = "ready" => \A r \in next .. upto : got'[r] # Unasked
    BY <1>2 DEF FetchHeader
  <2>7. Progress'
    BY <1>0, <1>2, <2>5, <2>6, SMTT(30) DEF FetchHeader, ChainInv, Progress, Working_phases
  <2>8. QED
    BY <1>0, <2>4, <2>7, ChainQuiet
<1>3. CASE RefreshHead
  <2>1. next \in Slots /\ upto' = next /\ phase' \in {"ready", "fetch"}
    BY <1>3 DEF RefreshHead, ChainInv, Shape
  <2>2. got' \in [Slots -> Answers] /\ \A r \in Slots : got'[r] \in Blocks => Slot[got'[r]] = r
    BY <1>3, <2>1 DEF RefreshHead, ChainInv, Shape, Answers
  <2>3. Shape'
    BY <1>0, <1>3, <2>1, <2>2, SMTT(30) DEF RefreshHead, ChainInv, Shape
  <2>4. phase' = "ready" => got'[next] # Unasked
    BY <1>3, <2>1 DEF RefreshHead, ChainInv, Shape
  <2>5. Progress'
    BY <1>0, <1>3, <2>1, <2>4 DEF RefreshHead, ChainInv, Progress, Working_phases
  <2>6. QED
    BY <1>0, <2>3, <2>5, ChainQuiet
<1>4. CASE LookBehind
  <2>1. next \in Slots
    BY <1>4 DEF LookBehind, ChainInv, Shape
  <2>2. Shape' /\ Progress'
    BY <1>0, <1>4, <2>1 DEF LookBehind, ChainInv, Shape, Progress, Working_phases
  <2>3. QED
    BY <1>0, <2>2, ChainQuiet, SMTT(30)
<1>5. QED
  BY <1>1, <1>2, <1>3, <1>4

\* Steps that neither touch the log nor leave a slot waiting, once it started.
LEMMA ChainAside ==
    ASSUME ChainInv, StartRewind \/ Halt \/ WalkBack \/ RereadHead
    PROVE  ChainInv'
<1> USE SlotFacts DEF chainVars, dbVars
<1>0. /\ log' = log /\ next' = next /\ upto' = upto /\ got' = got
      /\ tip' = tip /\ phase' \in {"walk", "halted", "idle"}
  BY SMTT(30) DEF StartRewind, Halt, WalkBack, RereadHead
<1>1. walk' \in Slots /\ seen' \in Blocks
  <2>1. CASE StartRewind
    BY <2>1 DEF StartRewind, ChainInv, Shape, Progress
  <2>2. CASE WalkBack
    BY <2>2 DEF WalkBack, ChainInv, Shape
  <2>3. QED
    BY <2>1, <2>2 DEF Halt, RereadHead, ChainInv, Shape
<1>2. phase' = "walk" => walk' <= next
  <2>1. CASE WalkBack
    BY <2>1 DEF WalkBack, ChainInv, Shape, Progress
  <2>2. QED
    BY <2>1 DEF StartRewind, Halt, RereadHead, ChainInv, Shape
<1>3. Shape'
  BY <1>0, <1>1 DEF ChainInv, Shape
<1>4. phase \in Working_phases
  BY DEF StartRewind, Halt, WalkBack, RereadHead, Working_phases
<1>5. Progress'
  BY <1>0, <1>2, <1>4 DEF ChainInv, Progress, Working_phases
<1>6. QED
  BY <1>0, <1>3, <1>5, ChainQuiet

\* What Diverged and Rootless leave: the answer continues the stored chain.
LEMMA ReadyLinks ==
    ASSUME ChainInv, phase = "ready", ~Diverged(got[next]), ~Rootless(got[next])
    PROVE  /\ next \in Slots /\ got[next] \in Blocks \cup {NoBlock}
           /\ got[next] # NoBlock => LinksTo(got[next], next)
<1> USE SlotFacts
<1>1. next \in Slots /\ got[next] \in Blocks \cup {NoBlock}
  BY DEF ChainInv, Shape, Progress, Answers
<1>2. ASSUME got[next] # NoBlock
      PROVE  LinksTo(got[next], next)
  <2>1. Slot[got[next]] = next
    BY <1>1, <1>2, SMTT(30) DEF ChainInv, Shape
  <2>2. ASSUME NEW p \in Slots, IsLatestRoot(p, next)
        PROVE  Parent[got[next]] = slot_root(p)
    <3>1. next # InitSlot
      BY <2>2 DEF IsLatestRoot
    <3>2. QED
      BY <1>2, <2>2, <3>1 DEF Diverged
  <2>3. QED
    BY <2>1, <2>2 DEF LinksTo
<1>3. QED
  BY <1>1, <1>2

LEMMA ChainProcess ==
    ASSUME ChainInv, ProcessEmpty \/ Derive \/ SyncNodes
    PROVE  ChainInv'
<1> USE SlotFacts DEF chainVars, dbVars
<1>0. /\ log' = log /\ next' = next /\ upto' = upto /\ got' = got /\ walk' = walk
      /\ tip' = tip /\ seen' = seen /\ phase' \in {"derived", "synced"}
      /\ phase \in {"ready", "derived"}
  BY DEF ProcessEmpty, Derive, SyncNodes
<1>1. Shape'
  BY <1>0 DEF ChainInv, Shape
<1>2. Progress'
  BY <1>0 DEF ChainInv, Progress, Working_phases
<1>3. WorkLinks'
  <2>1. CASE SyncNodes
    <3>1. work' = work /\ phase = "derived"
      BY <2>1 DEF SyncNodes
    <3>2. QED
      BY <1>0, <3>1, LinksFrame DEF ChainInv, WorkLinks
  <2>2. CASE ProcessEmpty \/ Derive
    <3>1. work'.root = got[next] /\ phase = "ready" /\ ~Diverged(got[next]) /\ ~Rootless(got[next])
      BY <2>2 DEF ProcessEmpty, Derive, NoWork
    <3>2. QED
      BY <1>0, <3>1, ReadyLinks, LinksFrame, SMTT(30) DEF WorkLinks
  <2>3. QED
    BY <2>1, <2>2
<1>4. QED
  BY <1>0, <1>1, <1>2, <1>3, LinksFrame DEF ChainInv

\* Links look only at the rows before a slot.
LEMMA LinksBelow ==
    ASSUME NEW s \in Slots, NEW b, \A r \in Slots : r < s => log'[r].root = log[r].root
    PROVE  LinksTo(b, s)' <=> LinksTo(b, s)
BY SlotFacts DEF LinksTo, IsLatestRoot, slot_root

LEMMA ChainCommit ==
    ASSUME ChainInv, CommitSlot
    PROVE  ChainInv'
<1> USE SlotFacts DEF chainVars
<1>0. /\ phase = "synced" /\ next \in Slots /\ next <= upto
      /\ tip' = tip /\ seen' = seen /\ upto' = upto /\ walk' = walk
  BY DEF CommitSlot, ChainInv, Shape, Progress
<1>1. CASE Conflict
  <2>1. /\ log' = log /\ next' = next /\ got' = got /\ phase' = "halted"
    BY <1>1 DEF CommitSlot
  <2>2. Shape' /\ Progress'
    BY <1>0, <2>1 DEF ChainInv, Shape, Progress, Working_phases
  <2>3. QED
    BY <2>1, <2>2, ChainQuiet, SMTT(30)
<1>2. CASE ~Conflict
  <2>1. /\ log' = [log EXCEPT ![next] = [committed |-> TRUE, root |-> work.root,
                                          state |-> work.state, statuses |-> work.statuses]]
        /\ next' = next + 1 /\ got' = [got EXCEPT ![next] = Unasked]
        /\ phase' = IF next < upto THEN "ready" ELSE "idle"
    BY <1>2 DEF CommitSlot
  <2>2. /\ DOMAIN log' = Slots
        /\ log'[next].committed = TRUE /\ log'[next].root = work.root
        /\ \A s \in Slots \ {next} : log'[s] = log[s]
    BY <1>0, <2>1 DEF ChainInv, Shape
  <2>3. work.root \in Blocks \cup {NoBlock} /\ (work.root # NoBlock => LinksTo(work.root, next))
    BY <1>0 DEF ChainInv, WorkLinks
  <2>4. \A s \in Slots : log[s].committed <=> s < next
    BY <1>0 DEF ChainInv, Progress, Working_phases
  <2>5. \A s \in Slots : log'[s].committed <=> s < next'
    BY <1>0, <2>1, <2>2, <2>4
  <2>6. Shape'
    <3>1. \A s \in Slots : /\ log'[s].committed \in BOOLEAN
                           /\ log'[s].root \in Blocks \cup {NoBlock}
                           /\ log'[s].root # NoBlock => log'[s].committed
      BY <2>2, <2>3, ZenonT(30) DEF ChainInv, Shape
    <3>2. got' \in [Slots -> Answers] /\ \A s \in Slots : got'[s] \in Blocks => Slot[got'[s]] = s
      BY <1>0, <2>1 DEF ChainInv, Shape, Answers
    <3>3. next' \in InitSlot .. MaxSlot + 1
      BY <1>0, <2>1
    <3>4. QED
      BY <1>0, <2>2, <3>1, <3>2, <3>3, SMTT(30) DEF ChainInv, Shape
  <2>7. Gapless'
    BY <1>0, <2>1, <2>5, SMTT(30) DEF Gapless, ChainInv, Shape
  <2>8. Progress'
    <3>1. phase' = "ready" => \A s \in next' .. upto' : got'[s] # Unasked
      BY <1>0, <2>1 DEF ChainInv, Progress, Shape
    <3>2. QED
      BY <1>0, <2>1, <2>5, <3>1, SMTT(30) DEF Progress, Working_phases, ChainInv, Shape
  <2>9. Linked'
    <3> SUFFICES ASSUME NEW s \in Slots, slot_root(s)' # NoBlock
                 PROVE  LinksTo(slot_root(s), s)'
      BY DEF Linked
    <3>1. s <= next
      <4>1. log'[s].committed
        BY <2>6 DEF Shape, slot_root
      <4>2. QED
        BY <1>0, <2>1, <2>5, <4>1
    <3>2. \A r \in Slots : r < s => log'[r].root = log[r].root
      BY <1>0, <2>2, <3>1, SMTT(30)
    <3>3. CASE s = next
      BY <2>2, <2>3, <3>2, <3>3, LinksBelow, SMTT(30) DEF slot_root, LinksTo, IsLatestRoot
    <3>4. CASE s # next
      <4>1. log'[s] = log[s]
        BY <2>2, <3>4
      <4>2. LinksTo(slot_root(s), s)
        BY <4>1 DEF ChainInv, Linked, slot_root
      <4>3. QED
        BY <3>2, <4>1, <4>2 DEF slot_root, LinksTo, IsLatestRoot
    <3>5. QED
      BY <3>3, <3>4
  <2>10. WorkLinks'
    BY <2>1 DEF WorkLinks
  <2>11. QED
    BY <2>6, <2>7, <2>8, <2>9, <2>10 DEF ChainInv
<1>3. QED
  BY <1>1, <1>2, SMTT(30)

LEMMA ChainRewind ==
    ASSUME ChainInv, Rewind
    PROVE  ChainInv'
<1> USE SlotFacts DEF chainVars
<1>0. /\ phase = "walk" /\ walk \in Slots /\ walk <= next
      /\ tip' = tip /\ seen' = seen /\ upto' = upto /\ walk' = walk
      /\ next' = walk /\ got' = NoAnswers /\ phase' \in {"refresh", "idle"}
  BY SMTT(30) DEF Rewind, ChainInv, Shape, Progress
<1>1. log' = [s \in Slots |-> IF s > walk - 1 THEN NoRow ELSE log[s]]
  BY SMTT(30) DEF Rewind, rollback_to_slot
<1>2. /\ DOMAIN log' = Slots
      /\ \A s \in Slots : s < walk => log'[s] = log[s]
      /\ \A s \in Slots : s >= walk => log'[s].committed = FALSE /\ log'[s].root = NoBlock
  BY <1>0, <1>1 DEF NoRow
<1>3. \A s \in Slots : log'[s].committed <=> s < next'
  <2>1. \A s \in Slots : log[s].committed <=> s < next
    BY <1>0 DEF ChainInv, Progress, Working_phases
  <2>2. next \in Int
    BY SMTT(30) DEF ChainInv, Shape
  <2>3. QED
    BY <1>0, <1>2, <2>1, <2>2
<1>4. Shape'
  <2>1. got' \in [Slots -> Answers] /\ \A s \in Slots : got'[s] \notin Blocks
    BY <1>0, SMTT(30) DEF NoAnswers, Answers
  <2>2. \A s \in Slots : /\ log'[s].committed \in BOOLEAN
                         /\ log'[s].root \in Blocks \cup {NoBlock}
                         /\ log'[s].root # NoBlock => log'[s].committed
    <3> SUFFICES ASSUME NEW s \in Slots
                 PROVE  /\ log'[s].committed \in BOOLEAN
                        /\ log'[s].root \in Blocks \cup {NoBlock}
                        /\ log'[s].root # NoBlock => log'[s].committed
      OBVIOUS
    <3>1. CASE s < walk
      BY <1>2, <3>1 DEF ChainInv, Shape
    <3>2. CASE s >= walk
      BY <1>2, <3>2, Zenon
    <3>3. QED
      BY <1>0, <3>1, <3>2, SMTT(30)
  <2>3. next' \in InitSlot .. MaxSlot + 1
    BY <1>0
  <2>4. QED
    BY <1>0, <1>2, <2>1, <2>2, <2>3 DEF ChainInv, Shape
<1>5. Gapless'
  BY <1>0, <1>3 DEF Gapless
<1>6. Progress' /\ WorkLinks'
  BY <1>0, <1>3, SMTT(30) DEF Progress, WorkLinks, Working_phases
<1>7. Linked'
  <2> SUFFICES ASSUME NEW s \in Slots, slot_root(s)' # NoBlock
               PROVE  LinksTo(slot_root(s), s)'
    BY DEF Linked
  <2>1. s < walk
    BY <1>0, <1>2 DEF slot_root
  <2>2. log'[s] = log[s] /\ \A r \in Slots : r < s => log'[r] = log[r]
    BY <1>0, <1>2, <2>1
  <2>3. LinksTo(slot_root(s), s)
    BY <2>2 DEF ChainInv, Linked, slot_root
  <2>4. QED
    BY <2>2, <2>3 DEF slot_root, LinksTo, IsLatestRoot
<1>8. QED
  BY <1>4, <1>5, <1>6, <1>7, SMTT(30) DEF ChainInv

LEMMA ChainOutside ==
    ASSUME ChainInv, Extend \/ Reorg \/ NodeError \/ Crash \/ UNCHANGED vars
    PROVE  ChainInv'
<1> USE SlotFacts DEF chainVars, dbVars, loopVars
<1>1. CASE Extend \/ Reorg \/ UNCHANGED vars
  <2>1. /\ log' = log /\ next' = next /\ walk' = walk /\ upto' = upto /\ got' = got
        /\ seen' = seen /\ phase' = phase /\ work' = work /\ tip' \in Blocks
    BY <1>1, ZenonT(30) DEF Extend, Reorg, vars, ChainInv, Shape
  <2>2. Shape' /\ Progress'
    BY <2>1, SMTT(30) DEF ChainInv, Shape, Progress
  <2>3. WorkLinks'
    BY <2>1, LinksFrame DEF ChainInv, WorkLinks
  <2>4. QED
    BY <2>1, <2>2, <2>3, LinksFrame, SMTT(30) DEF ChainInv
<1>2. CASE NodeError \/ Crash
  <2>1. Reset /\ log' = log /\ tip' = tip
    BY <1>2 DEF NodeError, Crash
  <2>2. got' \in [Slots -> Answers] /\ \A s \in Slots : got'[s] \notin Blocks
    BY <2>1, SMTT(30) DEF Reset, NoAnswers, Answers
  <2>3. Shape' /\ Progress'
    BY <2>1, <2>2 DEF Reset, ChainInv, Shape, Progress, Working_phases
  <2>4. QED
    BY <2>1, <2>3, ChainQuiet DEF Reset
<1>3. QED
  BY <1>1, <1>2, SMTT(30)

LEMMA ChainNext == ChainInv /\ [Next]_vars => ChainInv'
BY ChainStart, ChainFetch, ChainAside, ChainProcess, ChainCommit, ChainRewind,
   ChainOutside DEF Next, Loop

LEMMA ChainInvariant == Spec => []ChainInv
BY ChainInit, ChainNext, PTL DEF Spec

\* The log of sync_loop.rs is always one chain: the committed slots have no gap
\* and every stored root links to the one before it, for any tree of blocks,
\* any order of answers, and any reorgs, failures and crashes.
THEOREM LogIsChainHolds == Spec => []LogIsChain
<1>1. ChainInv => LogIsChain
  BY DEF ChainInv, Gapless, Linked, LinksTo, LogIsChain
<1>2. QED
  BY <1>1, ChainInvariant, PTL

\* The nodes of a derived slot are in memory until they are synced, and on disk
\* when the slot waits to be committed.
NodesInv ==
    /\ RootsOnDisk
    /\ phase = "derived" => work.state \in memory
    /\ phase = "synced" /\ work.state.count > 0 => work.state \in disk

LEMMA NodesNext == ChainInv /\ NodesInv /\ [Next]_vars => NodesInv'
<1> SUFFICES ASSUME ChainInv, NodesInv, [Next]_vars PROVE NodesInv'
  BY SMTT(30)
<1> USE SlotFacts DEF chainVars, dbVars, loopVars
<1>1. CASE log' = log /\ disk' = disk /\ phase' \notin {"derived", "synced"}
  BY <1>1, SMTT(30) DEF NodesInv, RootsOnDisk, HasState
<1>2. CASE UNCHANGED <<log, disk, phase, work, memory>>
  BY <1>2 DEF NodesInv, RootsOnDisk, HasState
<1>3. CASE ProcessEmpty
  BY <1>3, SMTT(30) DEF ProcessEmpty, NodesInv, RootsOnDisk, HasState, NoWork, EmptyState
<1>4. CASE Derive
  BY <1>4, Zenon DEF Derive, NodesInv, RootsOnDisk, HasState
<1>5. CASE SyncNodes
  BY <1>5, SMTT(30) DEF SyncNodes, NodesInv, RootsOnDisk, HasState
<1>6. CASE CommitSlot
  <2>1. next \in Slots /\ DOMAIN log = Slots
    BY <1>6, SMTT(30) DEF CommitSlot, ChainInv, Shape, Progress
  <2>2. phase = "synced" /\ disk' = disk /\ phase' \notin {"derived", "synced"}
    BY <1>6, SMTT(30) DEF CommitSlot
  <2>3. \A s \in Slots : log'[s].state = log[s].state \/ log'[s].state = work.state
    BY <1>6, <2>1 DEF CommitSlot
  <2>4. QED
    BY <2>2, <2>3, SMTT(30) DEF NodesInv, RootsOnDisk, HasState
<1>7. CASE Rewind
  <2>1. disk' = disk /\ phase' \notin {"derived", "synced"}
    BY <1>7, SMTT(30) DEF Rewind
  <2>2. \A s \in Slots : log'[s] = log[s] \/ log'[s].state.count = 0
    BY <1>7, Zenon DEF Rewind, rollback_to_slot, NoRow, EmptyState
  <2>3. QED
    BY <2>1, <2>2, SMTT(30) DEF NodesInv, RootsOnDisk, HasState
<1>8. CASE Resume \/ Begin \/ StartBatch \/ FetchHeader \/ RefreshHead \/ LookBehind
  BY <1>1, <1>8, ZenonT(30) DEF Resume, Begin, StartBatch, FetchHeader, RefreshHead, LookBehind
<1>9. CASE StartRewind \/ Halt \/ WalkBack \/ RereadHead \/ NodeError \/ Crash
  BY <1>1, <1>9, SMTT(30) DEF StartRewind, Halt, WalkBack, RereadHead, NodeError, Crash, Reset
<1>10. CASE Extend \/ Reorg \/ UNCHANGED vars
  BY <1>2, <1>10, Zenon DEF Extend, Reorg, vars
<1>11. QED
  BY <1>3, <1>4, <1>5, <1>6, <1>7, <1>8, <1>9, <1>10 DEF Next, Loop

\* Node::commit_slot: a root that readers can see has its Merkle nodes on disk,
\* wherever a crash falls between the two stores.
THEOREM RootsOnDiskHolds == Spec => []RootsOnDisk
<1>1. ASSUME Init PROVE NodesInv
  <2>1. NoRow.state.count = 0
    BY DEF NoRow, EmptyState
  <2>2. phase = "start" /\ \A s \in Slots : log[s] = NoRow
    BY <1>1 DEF Init
  <2>3. QED
    BY <2>1, <2>2 DEF NodesInv, RootsOnDisk, HasState
<1>2. NodesInv => RootsOnDisk
  BY DEF NodesInv
<1>3. QED
  BY <1>1, <1>2, NodesNext, ChainInvariant, PTL DEF Spec
=============================================================================
