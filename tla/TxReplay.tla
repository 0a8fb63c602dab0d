------------------------------ MODULE TxReplay ------------------------------
(***************************************************************************)
(* The walk over the recorded events that TxBuilder::finalize makes        *)
(* (replay.rs): it computes the created and nullifier sets and proves each *)
(* step with the predicates of TxPredicates.                               *)
(*                                                                         *)
(* An event is a record with a kind: "Insert", "Mutate" and "Delete" carry *)
(* old, new, the statement recorded with them and their guard evidence;    *)
(* "Action" carries contents.  Every event has after, the chain after it.  *)
(* A frame is the tx dictionary it stands for (to_tx_dict).                *)
(*                                                                         *)
(* A walk ends "ok", in "err" (an anyhow error the caller sees) or in      *)
(* "panic" (a proof step that unwraps failed).                             *)
(***************************************************************************)
EXTENDS TxPredicates

\* The element of a set of one.  The({F(x) : x \in {e}}) is a `let x = e' of the
\* code: e is evaluated once.
The(S) == CHOOSE x \in S : TRUE

Ended(out) == [out |-> out, st |-> NoSt, chain |-> Zero, created |-> {}, nullifiers |-> {}]

\* A step is proved with .unwrap(): no statement is a panic.
Proved(st, chain, created, nullifiers) ==
    IF st = NoSt THEN Ended("panic")
    ELSE [out |-> "ok", st |-> st, chain |-> chain,
          created |-> created, nullifiers |-> nullifiers]

Slot(kind) == CASE kind = "Insert" -> 1 [] kind = "Mutate" -> 2
                [] kind = "Delete" -> 3 [] kind = "Action" -> 4

\* Mutant: the next step does not see what this one consumed.
advance_created(frame, r) == [frame EXCEPT !.created = r.created]

advance(frame, r) == [frame EXCEPT !.created = r.created, !.nullifiers = r.nullifiers]

rescope(frame, start, end) == [frame EXCEPT !.chain_start = start, !.chain_end = end]

\* Where a consumed state is looked for: the inputs come first.
source_for(frame, old) == IF old \in frame.inputs THEN "inputs" ELSE "created"

CanConsume(frame, old) ==
    /\ old \in frame[source_for(frame, old)]
    /\ NullifierOf(old) \notin frame.nullifiers
-----------------------------------------------------------------------------
build_replay_insert(ev, frame) ==
    IF ev.new \in frame.created THEN Ended("err")
    ELSE LET created == frame.created \cup {ev.new}
         IN Proved(ReplayInsert(
                       ev.st,
                       SetInsert(frame.created, ev.new, created),
                       DictUpdate(frame, "created", created,
                                  [frame EXCEPT !.created = created]),
                       Rebind(ev.guard, frame.chain_start, frame.chain_end)),
                   ev.after, created, frame.nullifiers)

build_replay_nullify(old, mid, after, source) ==
    ReplayNullify(SetContains(source, old), NullifierOf(old),
                  SetInsert(mid.nullifiers, NullifierOf(old), after.nullifiers),
                  DictUpdate(mid, "nullifiers", after.nullifiers, after))

\* The tx with the new state created, and with the old one nullified too.
mutate_scratch(ev, frame) ==
    LET mid == [frame EXCEPT !.created = @ \cup {ev.new}]
    IN [mid |-> mid, after |-> [mid EXCEPT !.nullifiers = @ \cup {NullifierOf(ev.old)}]]

build_replay_mutate_event(ev, frame, scratch) ==
    LET key == source_for(frame, ev.old)
        created == scratch.mid.created
    IN ReplayMutateEvent(
           key,
           DictContains(frame, key, frame[key]),
           SetInsert(frame.created, ev.new, created),
           DictUpdate(frame, "created", created, scratch.mid),
           build_replay_nullify(ev.old, scratch.mid, scratch.after, frame[key]))

build_replay_mutate(ev, frame) ==
    IF ~CanConsume(frame, ev.old) \/ ev.new \in frame.created THEN Ended("err")
    ELSE LET scratch == mutate_scratch(ev, frame)
         IN Proved(ReplayMutate(ev.st, build_replay_mutate_event(ev, frame, scratch),
                                Rebind(ev.guard, frame.chain_start, frame.chain_end)),
                   ev.after, scratch.after.created, scratch.after.nullifiers)

build_replay_delete(ev, frame) ==
    IF ~CanConsume(frame, ev.old) THEN Ended("err")
    ELSE LET key == source_for(frame, ev.old)
             after == [frame EXCEPT !.nullifiers = @ \cup {NullifierOf(ev.old)}]
         IN Proved(ReplayDelete(ev.st, key, DictContains(frame, key, frame[key]),
                                build_replay_nullify(ev.old, frame, after, frame[key]),
                                Rebind(ev.guard, frame.chain_start, frame.chain_end)),
                   ev.after, frame.created, after.nullifiers)
-----------------------------------------------------------------------------
RECURSIVE build_replay_event(_, _, _), build_replay_contents(_, _, _)

\* The scope's bounds go into the tx, the contents are replayed, and the two
\* sets are copied back into the parent's tx.
build_replay_action(contents, chain, parent, chain_after) ==
    LET scope_mid == [parent EXCEPT !.chain_start = chain]
        inner == rescope(parent, chain, chain_after)
        Close(r) ==
            IF r.out # "ok" THEN r
            ELSE LET mid == [parent EXCEPT !.created = r.created]
                 IN Proved(ReplayAction(
                               DictUpdate(parent, "chain_start", chain, scope_mid),
                               DictUpdate(scope_mid, "chain_end", chain_after, inner),
                               r.st,
                               DictUpdate(parent, "created", r.created, mid),
                               DictUpdate(mid, "nullifiers", r.nullifiers, advance(parent, r))),
                           chain_after, r.created, r.nullifiers)
    IN The({Close(r) : r \in {build_replay_contents(contents, chain, inner)}})

build_replay_event(ev, chain, frame) ==
    CASE ev.kind = "Insert" -> build_replay_insert(ev, frame)
      [] ev.kind = "Mutate" -> build_replay_mutate(ev, frame)
      [] ev.kind = "Delete" -> build_replay_delete(ev, frame)
      [] ev.kind = "Action" -> build_replay_action(ev.contents, chain, frame, ev.after)

build_replay_element(ev, chain, frame) ==
    LET Element(r) ==
            IF r.out # "ok" THEN r
            ELSE Proved(ReplayElement(Slot(ev.kind), r.st), r.chain, r.created, r.nullifiers)
    IN The({Element(r) : r \in {build_replay_event(ev, chain, frame)}})

\* The step predicate and the slot are those of the head's kind.
ContentsStep(kind, head, rest) ==
    Proved(ReplayContents(Slot(kind) + 1, ReplayContentsStep(kind, head.st, rest.st)),
           rest.chain, rest.created, rest.nullifiers)

\* One trailing event, or a head and the tail after it.
build_replay_contents(events, chain, frame) ==
    LET ev == Head(events)
        Last(head) ==
            IF head.out # "ok" THEN head
            ELSE Proved(ReplayContents(1, head.st), head.chain, head.created, head.nullifiers)
        Then(head) ==
            IF head.out # "ok" THEN head
            ELSE The({IF rest.out # "ok" THEN rest ELSE ContentsStep(ev.kind, head, rest) :
                      rest \in {build_replay_contents(Tail(events), ev.after,
                                                     advance(frame, head))}})
    IN IF Len(events) = 1 THEN The({Last(head) : head \in {build_replay_element(ev, chain, frame)}})
       ELSE The({Then(head) : head \in {build_replay_event(ev, chain, frame)}})

\* The fast path: one action whose content is one insert.  The guard keeps
\* the bounds it was made with.
build_replay_action_insert(contents, parent) ==
    LET ev == contents[1]
        created == parent.created \cup {ev.new}
    IN IF ev.new \in parent.created THEN Ended("err")
       ELSE Proved(ReplayActionInsert(
                       ev.st,
                       SetInsert(parent.created, ev.new, created),
                       DictUpdate(parent, "created", created,
                                  [parent EXCEPT !.created = created]),
                       ev.guard),
                   ev.after, created, parent.nullifiers)

RECURSIVE build_replay_actions(_, _, _)
build_replay_actions(events, chain, frame) ==
    LET ev == Head(events)
        fast == Len(events) = 1 /\ Len(ev.contents) = 1 /\ ev.contents[1].kind = "Insert"
        Then(head) ==
            IF head.out # "ok" THEN head
            ELSE IF Len(events) = 1
            THEN Proved(ReplayActions(IF fast THEN 3 ELSE 1, head.st),
                        ev.after, head.created, head.nullifiers)
            ELSE The({IF rest.out # "ok" THEN rest
                      ELSE Proved(ReplayActions(2, ReplayActionsStep(head.st, rest.st)),
                                  rest.chain, rest.created, rest.nullifiers) :
                      rest \in {build_replay_actions(Tail(events), ev.after,
                                                    advance(frame, head))}})
    IN The({Then(head) : head \in {
               IF fast THEN build_replay_action_insert(ev.contents, frame)
               ELSE build_replay_action(ev.contents, chain, frame, ev.after)}})
=============================================================================
