---------------------------- MODULE StateMachine ----------------------------
(***************************************************************************)
(* How the synchronizer derives the state at one slot from the committed   *)
(* state and the blobs of the slot (state_machine.rs).                     *)
(*                                                                         *)
(* A blob is [tx, ground]: the transaction its payload carries, or NoTx    *)
(* when it does not decode or verify, and the execution block whose state  *)
(* root the payload is grounded on.  The header of a state commits to its  *)
(* execution block, so the execution block names the state root.           *)
(***************************************************************************)
EXTENDS Integers, Sequences, Functions

CONSTANTS
    Objs,       \* objects: a commitment and its nullifier
    Txs,        \* transactions, by tx_final
    Creates,    \* Creates[t]: the commitments t creates, in order
    Nullifies,  \* Nullifies[t]: the nullifiers t publishes
    MaxAge,     \* MAX_STATE_ROOT_AGE_BLOCKS
    NoTx,       \* no transaction
    NoBlock     \* no block

ASSUME TxsAssumption ==
    /\ Creates \in [Txs -> Seq(Objs)]
    /\ Nullifies \in [Txs -> Seq(Objs)]
    /\ MaxAge \in Nat
    /\ NoTx \notin Txs

\* The state before the genesis state: StateRoots::empty and no counts.
EmptyState == [block |-> NoBlock, number |-> 0, created |-> <<>>,
               nullifiers |-> {}, count |-> 0]

grounding_aged_out(number, ground) == number - ground > MaxAge

\* The working state of one slot.  created_added are the commitments appended
\* in this slot; statuses has one entry per blob.
Working(base) == [created |-> base.created, nullifiers |-> base.nullifiers,
                  added |-> {}, statuses |-> <<>>]

\* The created array holds o at position i (a stale index does not).
created_array_holds(created, i, o) == i \in DOMAIN created /\ created[i] = o

\* Mutants: objects of the same slot, or of earlier slots, are not looked up.
already_created_prior(w, indices, o) == created_array_holds(w.created, indices[o], o)
\* indices[o] is the prefetched position of o, 0 when the index has none.
already_created(w, indices, o) ==
    o \in w.added \/ created_array_holds(w.created, indices[o], o)

Grounded(blob, recent, number) ==
    \E r \in recent : /\ r.block = blob.ground
                      /\ ~grounding_aged_out(number, r.number)

Acceptable(w, blob, recent, number, indices) ==
    /\ Grounded(blob, recent, number)
    /\ IsInjective(Creates[blob.tx])
    /\ \A o \in Range(Creates[blob.tx]) : ~already_created(w, indices, o)
    /\ IsInjective(Nullifies[blob.tx])
    /\ Range(Nullifies[blob.tx]) \cap w.nullifiers = {}

\* parse_blobs and apply_payload for one blob: a blob is applied whole or
\* leaves the state as it was.
apply_payload(w, blob, recent, number, indices) ==
    IF blob.tx # NoTx /\ Acceptable(w, blob, recent, number, indices)
    THEN [created |-> w.created \o Creates[blob.tx],
          nullifiers |-> w.nullifiers \cup Range(Nullifies[blob.tx]),
          added |-> w.added \cup Range(Creates[blob.tx]),
          statuses |-> Append(w.statuses, [tx |-> blob.tx, applied |-> TRUE])]
    ELSE [w EXCEPT !.statuses = Append(@, [tx |-> blob.tx, applied |-> FALSE])]

\* derive_slot_state: the blobs of an execution block in order, then the new
\* state root is appended to the history.
derive_slot_state(base, recent, block, number, blobs, indices) ==
    LET after[i \in 0 .. Len(blobs)] ==
            IF i = 0 THEN Working(base)
            ELSE apply_payload(after[i - 1], blobs[i], recent, number, indices)
        w == after[Len(blobs)]
    IN [state |-> [block |-> block, number |-> number, created |-> w.created,
                   nullifiers |-> w.nullifiers, count |-> base.count + 1],
        added |-> w.added,
        statuses |-> w.statuses]
=============================================================================
