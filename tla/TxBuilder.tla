----------------------------- MODULE TxBuilder ------------------------------
(***************************************************************************)
(* Building transactions (txlib/src/lib.rs) and what the synchronizer      *)
(* makes of them.                                                          *)
(*                                                                         *)
(* A caller makes a builder from grounded inputs, opens and closes nested  *)
(* action scopes, records inserts, mutates, rekeys and deletes in them,    *)
(* attaches a class guard to each event through its handle, and finalizes. *)
(* Every call is an action here, with any argument a caller may hold: the  *)
(* asserts of the code take the builder to "misused", its failed unwraps   *)
(* in finalize to "panicked" and its errors to "failed".  A finalized      *)
(* transaction may be applied to the ledger or never arrive.               *)
(*                                                                         *)
(* An object is [type, key, sid]: type is the predicate hash of its guard, *)
(* sid its stable identifier, the commitment of the initial object it was  *)
(* inserted as (<<>> in that initial object).                              *)
(***************************************************************************)
EXTENDS TxReplay, FiniteSets

CONSTANTS
    Types, Keys,
    Genesis,     \* the object states created by earlier transactions
    Ops,         \* the recording calls this instance makes
    MaxInputs, MaxEvents, MaxScopes, MaxTxs

VARIABLES
    ledger,      \* the global created and nullifier sets, and txs applied
    phase,       \* idle, open, done, failed, panicked or misused
    b,           \* the TxBuilder
    handles,     \* the EventHandles returned so far, with what they are for
    out          \* the sets of the finalized Tx

vars == <<ledger, phase, b, handles, out>>

Initials == [type : Types, key : Keys, sid : {<<>>}]
Objects == [type : Types, key : Keys, sid : Types \X Keys]

NoGuard == NoSt
NoBuilder == [inputs |-> <<>>, inputs_set |-> {}, st_inputs_grounded |-> NoSt,
              chain |-> Zero, chain_start |-> Zero,
              events |-> <<>>, action_stack |-> <<>>, next_scope_id |-> 0]
NoOut == [created |-> {}, nullifiers |-> {}]

\* Stamp stable_identifier = commitment(initial).
with_stable_identifier(initial) == [initial EXCEPT !.sid = <<initial.type, initial.key>>]
-----------------------------------------------------------------------------
(* The event tree.                                                          *)

RECURSIVE Leaves(_)
Leaves(events) ==
    IF events = <<>> THEN <<>>
    ELSE (IF Head(events).kind = "Action" THEN Leaves(Head(events).contents)
          ELSE <<Head(events)>>) \o Leaves(Tail(events))

RECURSIVE OpenLeaves(_)
OpenLeaves(stack) == IF stack = <<>> THEN <<>>
                     ELSE Leaves(Head(stack).events) \o OpenLeaves(Tail(stack))

Recorded == Leaves(b.events) \o OpenLeaves(b.action_stack)

Top == b.action_stack[Len(b.action_stack)]

push_event(bb, ev) ==
    IF bb.action_stack = <<>> THEN [bb EXCEPT !.events = Append(@, ev)]
    ELSE [bb EXCEPT !.action_stack[Len(bb.action_stack)].events = Append(@, ev)]

\* The states a caller can name: those of the ledger and those it recorded.
Known == (ledger.created \cup {Recorded[i].new : i \in DOMAIN Recorded}) \ {NoObj}
-----------------------------------------------------------------------------
(* Grounding.                                                               *)

\* The bottom takes one input (odd count) or two, every level above two.
RECURSIVE build_inputs_grounded(_, _)
build_inputs_grounded(inputs, created) ==
    LET n == Len(inputs)
        k == IF n = 1 THEN 1 ELSE 2
        prev == SubSeq(inputs, 1, n - k)
        elems(s) == {s[i] : i \in DOMAIN s}
    IN IF inputs = <<>> THEN GroundedBase(created)
       ELSE InputsGrounded(build_inputs_grounded(prev, created),
                           [i \in 1 .. k |-> ArrayContains(created, inputs[n - k + i])],
                           [i \in 1 .. k |-> SetInsert(elems(SubSeq(inputs, 1, n - k + i - 1)),
                                                       inputs[n - k + i],
                                                       elems(SubSeq(inputs, 1, n - k + i)))])

New(inputs) ==
    /\ phase = "idle"
    /\ ledger.txs < MaxTxs
    /\ LET st == build_inputs_grounded(inputs, ledger.created)
           set == {inputs[i] : i \in DOMAIN inputs}
       IN /\ phase' = IF st = NoSt THEN "misused" ELSE "open"
          /\ b' = IF st = NoSt THEN NoBuilder
                  ELSE [NoBuilder EXCEPT !.inputs = inputs, !.inputs_set = set,
                                         !.st_inputs_grounded = st,
                                         !.chain = <<set>>, !.chain_start = <<set>>]
    /\ UNCHANGED <<ledger, handles, out>>
-----------------------------------------------------------------------------
(* Recording.                                                               *)

Misused == /\ phase' = "misused" /\ b' = NoBuilder /\ handles' = {}
           /\ UNCHANGED <<ledger, out>>

begin_action(bb) ==
    [bb EXCEPT !.next_scope_id = @ + 1,
               !.action_stack = Append(@, [scope_id |-> bb.next_scope_id,
                                           events |-> <<>>, start |-> bb.chain])]

BeginAction ==
    /\ phase = "open" /\ b.next_scope_id < MaxScopes
    /\ b' = begin_action(b)
    /\ UNCHANGED <<ledger, phase, handles, out>>

verify_scope_guards(scope) ==
    \A i \in DOMAIN scope.events :
        scope.events[i].kind = "Action" \/ scope.events[i].guard # NoGuard

EndAction(scope_id) ==
    /\ phase = "open" /\ b.next_scope_id > scope_id
    /\ IF \/ b.action_stack = <<>>
          \/ Top.scope_id # scope_id
          \/ ~verify_scope_guards(Top)
          \/ Top.events = <<>>
       THEN Misused
       ELSE /\ LET n == Len(b.action_stack)
                   popped == [b EXCEPT !.action_stack = SubSeq(@, 1, n - 1)]
               IN b' = push_event(popped, [kind |-> "Action", after |-> b.chain,
                                           contents |-> Top.events])
            /\ UNCHANGED <<ledger, phase, handles, out>>

\* The chain step, the event, and the handle for it.
Record(kind, old, new, st, chain) ==
    LET ev == [kind |-> kind, old |-> old, new |-> new, after |-> chain,
               st |-> st, guard |-> NoGuard]
    IN IF st = NoSt THEN Misused
       ELSE /\ b' = push_event([b EXCEPT !.chain = chain], ev)
            /\ handles' = handles \cup
                   {[scope_id |-> Top.scope_id, index |-> Len(Top.events) + 1,
                     obj |-> IF kind = "Delete" THEN old ELSE new, start |-> Top.start]}
            /\ UNCHANGED <<ledger, phase, out>>

CanRecord(op) == phase = "open" /\ op \in Ops /\ Len(Recorded) < MaxEvents

Insert(initial) ==
    /\ CanRecord("insert")
    /\ IF b.action_stack = <<>> THEN Misused
       ELSE LET new == with_stable_identifier(initial)
                chain == Append(b.chain, <<NoObj, new>>)
            IN Record("Insert", NoObj, new,
                      TxInsert(b.chain, chain, initial, new, new.type), chain)

\* The asserts on type and stable identifier are clauses of TxMutate too.
mutate(new, old) ==
    LET chain == Append(b.chain, <<old, new>>)
    IN IF b.action_stack = <<>> \/ new.type # old.type \/ new.sid # old.sid
       THEN Misused
       ELSE Record("Mutate", old, new, TxMutate(b.chain, chain, old, new, new.type), chain)

Mutate(new, old) == CanRecord("mutate") /\ mutate(new, old)

\* One mutate; the erased-key state between is a witness, not an event.
DoRekey(old, new_key) ==
    LET mid == [old EXCEPT !.key = NoObj.key]
        new == [mid EXCEPT !.key = new_key]
        st == Rekey(DictUpdate(old, "key", NoObj.key, mid),
                    DictUpdate(mid, "key", new_key, new),
                    TxMutate(b.chain, Append(b.chain, <<old, new>>), old, new, old.type))
    IN /\ CanRecord("rekey")
       /\ IF st = NoSt THEN Misused ELSE mutate(new, old)

Delete(old) ==
    /\ CanRecord("delete")
    /\ IF b.action_stack = <<>> THEN Misused
       ELSE LET chain == Append(b.chain, <<old, NoObj>>)
            IN Record("Delete", old, NoObj, TxDelete(b.chain, chain, old, old.type), chain)

\* The caller proves the guard over the chain as it stands now, from the start
\* of the scope in which it emitted the event.
SetGuard(h) ==
    /\ phase = "open"
    /\ LET n == Len(b.action_stack) IN
       IF \/ n = 0
          \/ h.scope_id # Top.scope_id
          \/ h.index > Len(Top.events)
          \/ Top.events[h.index].kind = "Action"
          \/ Top.events[h.index].guard # NoGuard
       THEN Misused
       ELSE /\ b' = [b EXCEPT !.action_stack[n].events[h.index].guard =
                                 Guard(h.obj, h.start, b.chain, h.obj.type)]
            /\ UNCHANGED <<ledger, phase, handles, out>>
-----------------------------------------------------------------------------
(* Finalizing.                                                              *)

AllSpent(nullifiers) == \A i \in DOMAIN b.inputs : NullifierOf(b.inputs[i]) \in nullifiers

finalize ==
    LET before == [inputs |-> b.inputs_set, created |-> {}, nullifiers |-> {},
                   chain_start |-> Zero, chain_end |-> Zero]
        r == build_replay_actions(b.events, b.chain_start, before)
    IN IF r.out # "ok" THEN r
       ELSE IF ~AllSpent(r.nullifiers) THEN Ended("err")
       ELSE Proved(TxFinalized(b.st_inputs_grounded, before, advance(before, r),
                               b.chain_start, r.st),
                   r.chain, r.created, r.nullifiers)

Finalize ==
    /\ phase = "open"
    /\ IF b.action_stack # <<>> \/ b.events = <<>> THEN Misused
       ELSE /\ phase' = CASE finalize.out = "ok" -> "done"
                          [] finalize.out = "err" -> "failed"
                          [] finalize.out = "panic" -> "panicked"
            /\ out' = [created |-> finalize.created, nullifiers |-> finalize.nullifiers]
            /\ handles' = {}
            /\ UNCHANGED <<ledger, b>>

\* Mutant: spent states are not looked up.
Applies_created(l, tx) == tx.created \cap l.created = {}

\* The synchronizer (apply_payload): a created state or a nullifier it already
\* has turns the whole transaction away.
Applies(l, tx) == tx.created \cap l.created = {} /\ tx.nullifiers \cap l.nullifiers = {}

Idle == /\ phase' = "idle" /\ b' = NoBuilder /\ out' = NoOut /\ handles' = {}

Apply == /\ phase = "done"
         /\ ledger' = IF Applies(ledger, out)
                      THEN [created |-> ledger.created \cup out.created,
                            nullifiers |-> ledger.nullifiers \cup out.nullifiers,
                            txs |-> ledger.txs + 1]
                      ELSE ledger
         /\ Idle

\* The caller gives up, or a finalized transaction never arrives.
Drop == phase \in {"done", "failed", "panicked", "misused"} /\ Idle /\ UNCHANGED ledger
-----------------------------------------------------------------------------
Init == /\ ledger = [created |-> Genesis, nullifiers |-> {}, txs |-> 0]
        /\ phase = "idle" /\ b = NoBuilder /\ out = NoOut /\ handles = {}

InputLists == UNION {[1 .. n -> Known] : n \in 0 .. MaxInputs}

Next ==
    \/ \E inputs \in InputLists : New(inputs)
    \/ BeginAction
    \/ \E id \in 0 .. MaxScopes - 1 : EndAction(id)
    \/ \E initial \in Initials : Insert(initial)
    \/ \E old \in Known, new \in Objects : Mutate(new, old)
    \/ \E old \in Known, k \in Keys : DoRekey(old, k)
    \/ \E old \in Known : Delete(old)
    \/ \E h \in handles : SetGuard(h)
    \/ Finalize
    \/ Apply
    \/ Drop

Spec == Init /\ [][Next]_vars
-----------------------------------------------------------------------------
(* Properties.                                                              *)

Event == [kind : {"Insert", "Mutate", "Delete"},
          old : Objects \cup {NoObj}, new : Objects \cup {NoObj}]

\* The builder is made of scopes with fresh, increasing ids; top-level events
\* are actions; recorded events are of known objects.
TypeOK ==
    /\ phase \in {"idle", "open", "done", "failed", "panicked", "misused"}
    /\ ledger.created \subseteq Objects /\ ledger.txs \in 0 .. MaxTxs
    /\ \A i \in DOMAIN b.events : b.events[i].kind = "Action"
    /\ \A i \in DOMAIN b.action_stack : b.action_stack[i].scope_id \in 0 .. b.next_scope_id - 1
    /\ \A i \in DOMAIN Recorded :
           [kind |-> Recorded[i].kind, old |-> Recorded[i].old, new |-> Recorded[i].new] \in Event

\* What the flat list of events asks for, whatever the scopes: a state is
\* consumed once and only if it is an input or was made earlier in the list, a
\* state is made once, and every input is consumed.
Replayable(leaves, inputs) ==
    /\ \A i \in DOMAIN leaves :
           /\ leaves[i].old # NoObj =>
                  /\ \/ leaves[i].old \in inputs
                     \/ \E j \in 1 .. i - 1 : leaves[j].new = leaves[i].old
                  /\ \A j \in 1 .. i - 1 : leaves[j].old # leaves[i].old
           /\ leaves[i].new # NoObj => \A j \in 1 .. i - 1 : leaves[j].new # leaves[i].new
    /\ \A o \in inputs : \E i \in DOMAIN leaves : leaves[i].old = o

Effects(leaves) ==
    [created |-> {leaves[i].new : i \in DOMAIN leaves} \ {NoObj},
     nullifiers |-> {NullifierOf(o) : o \in {leaves[i].old : i \in DOMAIN leaves} \ {NoObj}}]

\* Every guard was made over the bounds of the action its event is in.
RECURSIVE Bound(_, _, _)
Bound(events, start, end) ==
    \A i \in DOMAIN events :
        LET from == IF i = 1 THEN start ELSE events[i - 1].after IN
        IF events[i].kind = "Action" THEN Bound(events[i].contents, from, events[i].after)
        ELSE events[i].guard.a[2] = start /\ events[i].guard.a[3] = end

WellGuarded == Bound(b.events, b.chain_start, b.chain)

\* finalize succeeds exactly on the event lists that are replayable, however
\* they are bracketed into actions, and its created and nullifier sets are the
\* effects of the list.  On the others it returns an error.  None of its proof
\* steps fails to match the podlang predicates, unless a guard was proved
\* before the last event of its action was recorded: only then it panics.
ReplayAgrees ==
    phase \in {"done", "failed", "panicked"} =>
        LET leaves == Leaves(b.events)
            good == Replayable(leaves, b.inputs_set)
        IN IF WellGuarded
           THEN /\ phase = (IF good THEN "done" ELSE "failed")
                /\ good => out = Effects(leaves)
           ELSE phase # "done" /\ (phase = "failed" => ~good)

\* A guard is attached to the event its handle was returned for: it speaks of
\* that event's object.  (Scope ids are never reused, so a handle that outlives
\* its scope cannot reach into a later one.)
RECURSIVE OwnGuards(_)
OwnGuards(events) ==
    \A i \in DOMAIN events :
        IF events[i].kind = "Action" THEN OwnGuards(events[i].contents)
        ELSE \/ events[i].guard = NoGuard
             \/ events[i].guard.a[1] = (IF events[i].kind = "Delete" THEN events[i].old
                                        ELSE events[i].new)

GuardsAreOwn ==
    /\ OwnGuards(b.events)
    /\ \A i \in DOMAIN b.action_stack : OwnGuards(b.action_stack[i].events)

\* No event leaves its scope without a guard: a finalized transaction has the
\* class's consent to each of its events.
EveryEventGuarded ==
    \A i \in DOMAIN Leaves(b.events) : Leaves(b.events)[i].guard # NoGuard

\* Over any number of transactions, at most one state of each stable
\* identifier is unspent: an object is never in two states at once.
OneStatePerObject ==
    \A s, t \in {o \in ledger.created : NullifierOf(o) \notin ledger.nullifiers} :
        s.sid = t.sid => s = t

\* Once every state of an object is spent, none is unspent again: neither a
\* replayed mutate nor a second insert of the same initial object brings a
\* deleted object back.
Gone(l, sid) == LET states == {o \in l.created : o.sid = sid}
                IN states # {} /\ \A o \in states : NullifierOf(o) \in l.nullifiers
=============================================================================
