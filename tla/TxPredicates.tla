---------------------------- MODULE TxPredicates ----------------------------
(***************************************************************************)
(* The podlang predicates a transaction proof is made of                   *)
(* (txlib.podlang, tx_events.podlang, tx_rekey.podlang).                   *)
(*                                                                         *)
(* A proved statement is [p, a]: a predicate and its public arguments.  A  *)
(* predicate here is an operator on the statements given for its clauses:  *)
(* it is the statement they prove, or NoSt when a clause does not match    *)
(* its template or two clauses disagree about a wildcard.  (The prover     *)
(* refuses such a call; the Rust code unwraps, so the caller panics.)      *)
(* An OR predicate takes the slot of the clause that is given.             *)
(*                                                                         *)
(* A hash is the tuple of what it hashes.  The hash chain is the sequence  *)
(* of its event hashes after the seed H(inputs, {}), <<inputs>>.  The      *)
(* state header is one per transaction and left out of the arguments.      *)
(***************************************************************************)
EXTENDS Naturals, Sequences

NoSt == [p |-> "none", a |-> <<>>]
Prove(p, a, ok) == IF ok THEN [p |-> p, a |-> a] ELSE NoSt
Is(st, p) == st.p = p

Zero == <<>>       \* EMPTY_VALUE, {} as a chain value
NoObj == [type |-> "", key |-> "", sid |-> <<>>]    \* {} as an object

NullifierOf(o) == <<o, o.key>>    \* H(H(obj, obj.key), version)

\* The native operations the predicates use.
SetInsert(s, x, t) == Prove("SetInsert", <<s, x, t>>, x \notin s /\ t = s \cup {x})
SetContains(s, x) == Prove("SetContains", <<s, x>>, x \in s)
DictUpdate(d, k, v, e) == Prove("DictUpdate", <<d, k, v, e>>, [d EXCEPT ![k] = v] = e)
DictContains(d, k, v) == Prove("DictContains", <<d, k, v>>, d[k] = v)
ArrayContains(s, x) == Prove("ArrayContains", <<s, x>>, x \in s)

\* Operation::replace_value_with_entry on the chain bounds of a guard.
Rebind(g, start, end) ==
    Prove("guard", g.a, Is(g, "guard") /\ g.a[2] = start /\ g.a[3] = end)

\* A class guard IsX(obj, state_header, chain_start, chain_end): its predicate
\* hash is the type, and the caller has proved it.
Guard(obj, start, end, type) ==
    [p |-> "guard", a |-> <<obj, start, end, type>>]
-----------------------------------------------------------------------------
\* tx_events: arguments prev_chain, chain, (initial | old), new, type.
TxInsert(prev, chain, initial, new, type) ==
    Prove("TxInsert", <<prev, chain, initial, new, type>>,
          /\ new.type = type
          /\ new = [initial EXCEPT !.sid = <<initial.type, initial.key>>]
          /\ chain = Append(prev, <<NoObj, new>>))

TxMutate(prev, chain, old, new, type) ==
    Prove("TxMutate", <<prev, chain, old, new, type>>,
          /\ new.type = type
          /\ old.type = type
          /\ old.sid = new.sid
          /\ chain = Append(prev, <<old, new>>))

TxDelete(prev, chain, old, type) ==
    Prove("TxDelete", <<prev, chain, old, NoObj, type>>,
          /\ old.type = type
          /\ chain = Append(prev, <<old, NoObj>>))

\* tx_rekey: erase the key, set the new one, and nothing else.
Rekey(erase, set, mutate) ==
    Prove("Rekey", <<set.a[4], mutate.a[1], mutate.a[2], mutate.a[5]>>,
          /\ Is(erase, "DictUpdate") /\ erase.a[2] = "key" /\ erase.a[3] = NoObj.key
          /\ Is(set, "DictUpdate") /\ set.a[2] = "key" /\ set.a[1] = erase.a[4]
          /\ Is(mutate, "TxMutate")
          /\ mutate.a[3] = erase.a[1] /\ mutate.a[4] = set.a[4])
-----------------------------------------------------------------------------
(* Replay.  The public arguments are before_tx, after_tx, before_chain and  *)
(* after_chain.                                                             *)

InsertClauses(ins, si, du, g) ==
    /\ Is(ins, "TxInsert") /\ Is(si, "SetInsert") /\ Is(du, "DictUpdate") /\ Is(g, "guard")
    /\ si.a = <<du.a[1].created, ins.a[4], du.a[3]>>
    /\ du.a[2] = "created"
    /\ g.a[1] = ins.a[4] /\ g.a[4] = ins.a[5]

ReplayInsert(ins, si, du, g) ==
    Prove("ReplayInsert", <<du.a[1], du.a[4], ins.a[1], ins.a[2]>>,
          /\ InsertClauses(ins, si, du, g)
          /\ g.a[2] = du.a[1].chain_start /\ g.a[3] = du.a[1].chain_end)

ReplayActionInsert(ins, si, du, g) ==
    Prove("ReplayActionInsert", <<du.a[1], du.a[4], ins.a[1], ins.a[2]>>,
          /\ InsertClauses(ins, si, du, g)
          /\ g.a[2] = ins.a[1] /\ g.a[3] = ins.a[2])

\* Arguments mid_tx, after_tx, old, source.
ReplayNullify(contains, nul, si, du) ==
    Prove("ReplayNullify", <<du.a[1], du.a[4], contains.a[2], contains.a[1]>>,
          /\ Is(contains, "SetContains") /\ Is(si, "SetInsert") /\ Is(du, "DictUpdate")
          /\ nul = NullifierOf(contains.a[2])
          /\ si.a = <<du.a[1].nullifiers, nul, du.a[3]>>
          /\ du.a[2] = "nullifiers")

\* Arguments before_tx, after_tx, old, new.
ReplayMutateEvent(source_key, dc, si, du, nullify) ==
    Prove("ReplayMutateEvent", <<du.a[1], nullify.a[2], nullify.a[3], si.a[2]>>,
          /\ source_key \in {"inputs", "created"}
          /\ Is(dc, "DictContains") /\ Is(si, "SetInsert") /\ Is(du, "DictUpdate")
          /\ Is(nullify, "ReplayNullify")
          /\ dc.a = <<du.a[1], source_key, nullify.a[4]>>
          /\ si.a[1] = du.a[1].created /\ si.a[3] = du.a[3]
          /\ du.a[2] = "created" /\ du.a[4] = nullify.a[1])

ReplayMutate(mut, event, g) ==
    Prove("ReplayMutate", <<event.a[1], event.a[2], mut.a[1], mut.a[2]>>,
          /\ Is(mut, "TxMutate") /\ Is(event, "ReplayMutateEvent") /\ Is(g, "guard")
          /\ event.a[3] = mut.a[3] /\ event.a[4] = mut.a[4]
          /\ g.a = <<mut.a[4], event.a[1].chain_start, event.a[1].chain_end, mut.a[5]>>)

ReplayDelete(del, source_key, dc, nullify, g) ==
    Prove("ReplayDelete", <<nullify.a[1], nullify.a[2], del.a[1], del.a[2]>>,
          /\ Is(del, "TxDelete") /\ Is(dc, "DictContains")
          /\ Is(nullify, "ReplayNullify") /\ Is(g, "guard")
          /\ source_key \in {"inputs", "created"}
          /\ dc.a = <<nullify.a[1], source_key, nullify.a[4]>>
          /\ nullify.a[3] = del.a[3]
          /\ g.a = <<del.a[3], nullify.a[1].chain_start, nullify.a[1].chain_end, del.a[5]>>)

\* The scope is opened on before_tx; created and nullifiers are copied back.
ReplayAction(scope1, scope2, contents, du1, du2) ==
    Prove("ReplayAction", <<scope1.a[1], du2.a[4], contents.a[3], contents.a[4]>>,
          /\ Is(scope1, "DictUpdate") /\ Is(scope2, "DictUpdate")
          /\ Is(contents, "ReplayContents")
          /\ Is(du1, "DictUpdate") /\ Is(du2, "DictUpdate")
          /\ scope1.a[2] = "chain_start" /\ scope1.a[3] = contents.a[3]
          /\ scope2.a = <<scope1.a[4], "chain_end", contents.a[4], contents.a[1]>>
          /\ du1.a[1] = scope1.a[1] /\ du1.a[2] = "created"
          /\ du1.a[3] = contents.a[2].created
          /\ du2.a[1] = du1.a[4] /\ du2.a[2] = "nullifiers"
          /\ du2.a[3] = contents.a[2].nullifiers)

\* head, then tail: StepInsert, StepMutate, StepDelete, StepAction and
\* ReplayActionsStep have this shape and differ in the two predicates.
Step(p, headP, tailP, head, tail) ==
    Prove(p, <<head.a[1], tail.a[2], head.a[3], tail.a[4]>>,
          /\ Is(head, headP) /\ Is(tail, tailP)
          /\ head.a[2] = tail.a[1] /\ head.a[4] = tail.a[3])

ReplayActionsStep(head, tail) ==
    Step("ReplayActionsStep", "ReplayAction", "ReplayActions", head, tail)
ReplayContentsStep(kind, head, tail) ==
    Step("ReplayContentsStep" \o kind, "Replay" \o kind, "ReplayContents", head, tail)

\* The OR predicates: the clause in the slot, the others Statement::None.
Or(p, clauses, slot, st) == Prove(p, st.a, Is(st, clauses[slot]))

ElementClauses == <<"ReplayInsert", "ReplayMutate", "ReplayDelete", "ReplayAction">>
ContentsClauses ==
    <<"ReplayElement", "ReplayContentsStepInsert", "ReplayContentsStepMutate",
      "ReplayContentsStepDelete", "ReplayContentsStepAction">>
ActionsClauses == <<"ReplayAction", "ReplayActionsStep", "ReplayActionInsert">>

ReplayElement(slot, st) == Or("ReplayElement", ElementClauses, slot, st)
ReplayContents(slot, st) == Or("ReplayContents", ContentsClauses, slot, st)
ReplayActions(slot, st) == Or("ReplayActions", ActionsClauses, slot, st)
-----------------------------------------------------------------------------
(* Grounding: arguments inputs, created.                                    *)

GroundedBase(created) == [p |-> "InputsGrounded", a |-> <<{}, created>>]

\* Single, Pair and Recursive: one or two more inputs on top of prev.
InputsGrounded(prev, lives, inserts) ==
    LET n == Len(lives) IN
    Prove("InputsGrounded", <<inserts[n].a[3], lives[1].a[1]>>,
          /\ Is(prev, "InputsGrounded")
          /\ \A i \in 1 .. n : /\ Is(lives[i], "ArrayContains")
                               /\ Is(inserts[i], "SetInsert")
                               /\ lives[i].a[1] = prev.a[2]
                               /\ lives[i].a[2] = inserts[i].a[2]
          /\ inserts[1].a[1] = prev.a[1]
          /\ n = 2 => inserts[2].a[1] = inserts[1].a[3])

\* TxFinalized with TxFinalBindings: tx_final is after_tx without its inputs.
\* Arguments created root, created, nullifiers.
TxFinalized(grounded, before, after, chain_start, replay) ==
    Prove("TxFinalized", <<grounded.a[2], after.created, after.nullifiers>>,
          /\ Is(grounded, "InputsGrounded") /\ Is(replay, "ReplayActions")
          /\ grounded.a[1] = before.inputs
          /\ chain_start = <<before.inputs>>
          /\ before = [inputs |-> before.inputs, created |-> {}, nullifiers |-> {},
                       chain_start |-> Zero, chain_end |-> Zero]
          /\ replay.a[1] = before /\ replay.a[2] = after
          /\ replay.a[3] = chain_start)
=============================================================================
