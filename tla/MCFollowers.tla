---------------------------- MODULE MCFollowers -----------------------------
(***************************************************************************)
(* The synchronizer and the archiver for TLC, on a tree of blocks with two *)
(* branches that leave the common block a2:                                *)
(*                                                                         *)
(*   slot   1    2    3    4    5                                          *)
(*          i -- a2 - a3 - a4 - a5                                         *)
(*                 \- b3 ------ b5        (slot 4 skipped)                 *)
(*                                                                         *)
(* Gloas starts with slot 4: from there a block's payload is canonical     *)
(* with a child that builds on it, as a5 does on a4.  Beside them, the     *)
(* driver's queries.  A behaviour is one of a single part, named by        *)
(* `part'; what belongs to the others stays as it starts.                  *)
(***************************************************************************)
EXTENDS Synchronizer, TLC

CONSTANTS i, a2, a3, a4, a5, b3, b5, o1, o2, t1, t2

VARIABLES
    part,
    end, turns, errors, crashes, link, dir, torn, step, slot, head, prev, cur, owner, back, api,
    states, entries, query, request, rollbacks, losses

archiver == <<end, turns, errors, crashes, link, dir, torn, step, slot, head, prev, cur, owner,
              back, api>>
asking == <<states, entries, query, request, rollbacks, losses>>
both == <<part, vars, archiver, asking>>

MCBlocks == {i, a2, a3, a4, a5, b3, b5}
MCSlot == i :> 1 @@ a2 :> 2 @@ a3 :> 3 @@ a4 :> 4 @@ a5 :> 5 @@ b3 :> 3 @@ b5 :> 5
MCParent == i :> NoBlock @@ a2 :> i @@ a3 :> a2 @@ a4 :> a3 @@ a5 :> a4 @@ b3 :> a2 @@ b5 :> b3
MCNumber == i :> 1 @@ a2 :> 2 @@ a3 :> 3 @@ a4 :> 4 @@ a5 :> 5 @@ b3 :> 3 @@ b5 :> 4

\* t1 creates o1; t2 spends o1 and creates o2.  t1 is included on both branches,
\* and again on each; t2 twice, and grounded on a3.
MCCreates == t1 :> <<o1>> @@ t2 :> <<o2>>
MCNullifies == t1 :> <<>> @@ t2 :> <<o1>>
Blob(t, g) == [tx |-> t, ground |-> g]
MCBlobs == i :> <<>> @@ a2 :> <<Blob(NoTx, i)>>
           @@ a3 :> <<Blob(t1, i)>> @@ a4 :> <<Blob(t2, a3), Blob(t2, a3), Blob(t1, a3)>>
           @@ a5 :> <<Blob(t1, a4)>>
           @@ b3 :> <<Blob(t1, a2), Blob(t1, i)>> @@ b5 :> <<Blob(t2, a3), Blob(t1, b3)>>

\* The archiver keeps blobs by index; a3 has two, so that it can be stored or
\* removed in part.
Archive == INSTANCE Archiver WITH MaxFaults <- 1, MaxCrashes <- 1,
    Blobs <- i :> {} @@ a2 :> {0} @@ a3 :> {0, 1} @@ a4 :> {0} @@ a5 :> {} @@ b3 :> {0}
             @@ b5 :> {0},
    tip <- end, reorgs <- turns, faults <- errors, phase <- step

\* What the theorems about the archiver suppose of its constants.
ASSUME Archive!Tree /\ InitSlot \notin FlakySlots

\* A query in two batches, one of whose objects is asked for twice, and one for
\* which one is enough.
Asking == INSTANCE MembershipQuery WITH Nulls <- {t1},
    Queries <- {<<<<o1, o2, o1>>, <<t1>>>>, <<<<o1>>, <<>>>>},
    HASH_BATCH_LIMIT <- 2, MAX_HASH_QUERY_ITEMS <- 2,
    MaxBlocks <- 3, MaxRollbacks <- 1, MaxFails <- 1, chain <- states, index <- entries, fails <- losses

SuiteInit ==
    /\ part \in {"sync", "archive", "asking"}
    /\ Init /\ Archive!Init /\ Asking!Init
    /\ part # "sync" => tip = i

SuiteNext ==
    \/ part = "sync" /\ Next /\ UNCHANGED <<part, archiver, asking>>
    \/ part = "archive" /\ Archive!Next /\ UNCHANGED <<part, vars, asking>>
    \/ part = "asking" /\ Asking!Next /\ UNCHANGED <<part, vars, archiver>>

\* The fairness of the modules, for the part that runs.
Syncs(A) == part = "sync" /\ A
Archives(A) == part = "archive" /\ A
SuiteSpec ==
    /\ SuiteInit /\ [][SuiteNext]_both
    /\ WF_vars(Syncs(Loop)) /\ WF_vars(Syncs(Extend))
    /\ WF_archiver(Archives(Archive!Archive)) /\ WF_archiver(Archives(Archive!Extend))
-----------------------------------------------------------------------------
(* The properties are those of the two modules, which say what they mean.    *)

\* The state at the head is what a replay of the log gives, with every transaction
\* applied at most once, the created index is that of the log, and the loop does
\* not stop (derive_slot_state, commit_slot, rollback_to_slot, run_sync_forever).  What
\* it answers a query in batches holds at the oldest of the heads, and inputs that
\* were there before are grounded (fetch_membership_with_nullifiers).
SyncSound ==
    /\ part = "sync" => TypeOK /\ StateIsReplay /\ AppliedOnce /\ IndexExact /\ NeverHalts
    /\ part = "asking" =>
           Asking!TypeOK /\ Asking!MembershipSound /\ Asking!InputsGround /\ Asking!BatchesFit

\* The log becomes the live chain (sync_loop), and never lets go of the genesis
\* slot (find_divergence_slot).
SyncConverges == GenesisKept /\ (part = "sync" => Converges)

\* The linked blocks are one chain from the first block on, linking one never
\* fails (follow_chain, process_slot), and complete blocks are served, whole, and
\* they alone (GET /blobs, last_header).
ArchiveSound == part = "archive" => Archive!ArchiveSound

\* The archive implements ChainFollower (process_slot, last_header), and becomes
\* the live chain (follow_chain).
ArchiveConverges ==
    /\ Archive!ArchiveFollowsChain
    /\ part = "archive" => Archive!ArchiveConverges
=============================================================================
