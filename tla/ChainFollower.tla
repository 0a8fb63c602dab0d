---------------------------- MODULE ChainFollower ---------------------------
(***************************************************************************)
(* What the synchronizer and the archiver promise to their readers: they   *)
(* follow a chain of blocks.  `at' is the last block they have taken in    *)
(* and `state' what they derive from the chain up to it.  A step takes in  *)
(* one child of that block, or drops blocks from its end.                  *)
(***************************************************************************)
CONSTANTS
    Blocks, InitBlock, NoBlock,
    Parent,     \* Parent[b]: the parent of b
    StateOf     \* StateOf[b]: what the chain up to b derives; also of NoBlock

VARIABLES at, state

vars == <<at, state>>

\* The blocks of the chain up to b.
Chain[b \in Blocks] == IF b = InitBlock THEN {b} ELSE {b} \cup Chain[Parent[b]]

Follows(a, b) == IF a = NoBlock THEN b = InitBlock ELSE b # InitBlock /\ Parent[b] = a

TakeIn ==
    /\ \E b \in Blocks : Follows(at, b) /\ at' = b
    /\ state' = StateOf[at']

Drop ==
    /\ at # NoBlock
    /\ at' \in (Chain[at] \ {at}) \cup {NoBlock}
    /\ state' = StateOf[at']

Init == at = NoBlock /\ state = StateOf[NoBlock]
Next == TakeIn \/ Drop
Spec == Init /\ [][Next]_vars
=============================================================================
