---------------------------- MODULE ActionScript ----------------------------
(***************************************************************************)
(* An action script's host calls, the metadata of an action, and the       *)
(* podlang predicate rendered for it (libs/sdk/src/lib.rs, fmt_podlang.rs).*)
(*                                                                         *)
(* A script runs twice: at Load, where values are unknown (NoVal) and each *)
(* call only records an instruction, and at Execute, where the call also   *)
(* captures the values it sees.  A script here is the sequence of its host *)
(* calls; its variables are numbered in the order of their declaration.    *)
(* An unsafe block is one call, because only its result is visible.        *)
(***************************************************************************)
EXTENDS ScriptValues, SequencesExt

Header == 1000           \* the variable state_header
Literal == 0             \* no variable

HeaderRecord == Arr(<<IntVal(7)>>)

\* The actions of a module, in the order of its manifest.
ActionName(n) == <<"First", "Second", "Third">>[n]

\* An ActionContext.  err: the call was refused (an Err or a panic).
NewContext(exe) ==
    [vars |-> <<>>, insts |-> <<>>, held |-> <<>>, exe |-> exe, err |-> FALSE]
NoExe == [on |-> FALSE]

Refused(s) == [s EXCEPT !.err = TRUE]
Push(s, inst) == [s EXCEPT !.insts = Append(@, inst)]

\* add_var and new_witness (with the script's `var` or a generated name).
NewVar(s, typ, val) ==
    [s EXCEPT !.vars = Append(@, [typ |-> typ, val |-> val, ts |-> 0, read |-> FALSE])]
VarVal(s, v) == IF v = Header THEN HeaderRecord ELSE s.vars[v].val

Consumes(io) == io \in {"input", "mutate"}
Produces(io) == io \in {"output", "mutate"}

ObjectInsts(insts) == SelectSeq(insts, LAMBDA i : i.op = "object")
SubInsts(insts) == SelectSeq(insts, LAMBDA i : i.op = "sub")
ObjectIO(insts, v) ==
    LET os == {i \in DOMAIN insts : insts[i].op = "object" /\ insts[i].var = v}
    IN  IF os = {} THEN "none" ELSE insts[CHOOSE i \in os : TRUE].io
-----------------------------------------------------------------------------
(* Arguments.  A script names a literal, a variable, a field, a handle it   *)
(* took earlier.  Resolved, it is a variable (or Literal), a key (or        *)
(* NoKey) and the value of the variable when the handle was taken.          *)

Resolve(s, a) ==
    CASE a[1] = "lit"   -> [name |-> Literal, key |-> NoKey, c |-> a[2]]
      [] a[1] = "var"   -> [name |-> a[2], key |-> NoKey, c |-> VarVal(s, a[2])]
      [] a[1] = "field" -> [name |-> a[2], key |-> a[3], c |-> VarVal(s, a[2])]
      [] a[1] = "held"  -> s.held[a[2]]

ArgValue(r) == IF r.key = NoKey THEN r.c ELSE EntryOf(r.c, r.key)

\* ArgHandle::entry: a raw value has no fields; at Execute the entry exists.
EntryOK(s, a) ==
    a[1] = "field" =>
        /\ a[2] # Header => s.vars[a[2]].typ # "raw"
        /\ s.exe.on => EntryOf(VarVal(s, a[2]), a[3]) # NoVal

\* as_op_arg: what the prover is given for the argument.
OpArg(r) == IF r.key = NoKey THEN Lit(r.c) ELSE Entry(r.c, r.key)

\* A handle kept for later: a field of a variable, or an object's commitment.
Hold(s, c) ==
    IF EntryOK(s, c.arg) /\ (c.arg[1] = "var" => ObjectIO(s.insts, c.arg[2]) # "none")
    THEN [s EXCEPT !.held = Append(@, Resolve(s, c.arg))]
    ELSE Refused(s)
-----------------------------------------------------------------------------
(* Host calls (all but subaction, which runs another script).               *)

\* obj_io.  The inputs are a stack in reverse order, so pop takes them in order.
ObjIO(s, c) ==
    LET pop == Consumes(c.io) /\ s.exe.on
        val == CASE ~s.exe.on -> NoVal
                 [] s.exe.on /\ c.io = "output" -> NewDict(c.class, Rand(s.exe.fresh))
                 [] s.exe.on /\ c.io # "output" -> Head(s.exe.inputs)
    IN  IF pop /\ s.exe.inputs = <<>> THEN Refused(s)
        ELSE LET d == NewVar(s, "dict", val)
                 e == IF s.exe.on
                      THEN [s.exe EXCEPT !.fresh = @ + 1,
                                         !.inputs = IF pop THEN Tail(@) ELSE @,
                                         !.taken = IF pop THEN Append(@, <<c.class, val>>) ELSE @]
                      ELSE s.exe
             IN  Push([d EXCEPT !.exe = e],
                      [op |-> "object", io |-> c.io, class |-> c.class,
                       var |-> Len(d.vars), orig |-> val])

Names(r, v) == r.name = v
InstArgs(i) ==
    CASE i.op = "update" -> <<i.arg>>
      [] i.op = "set" -> [k \in DOMAIN i.kvs |-> i.kvs[k][2]]
      [] i.op \in {"stmt", "intro"} -> i.args
      [] OTHER -> <<>>

\* check_settable: an output whose contents nothing has pinned yet.
Pinned(s, v) ==
    \/ \E i \in DOMAIN s.insts :
        \/ s.insts[i].op = "update" /\ s.insts[i].var = v
        \/ \E k \in DOMAIN InstArgs(s.insts[i]) : Names(InstArgs(s.insts[i])[k], v)
    \/ s.vars[v].read
Settable(s, v) == ObjectIO(s.insts, v) = "output" /\ ~Pinned(s, v)

\* ArgHandle::set.  An insert of a key that is there fails.
SetCall(s, c) ==
    LET kvs == [k \in DOMAIN c.kvs |-> <<c.kvs[k][1], Resolve(s, c.kvs[k][2])>>]
        final == FoldLeft(LAMBDA d, kv : IF IsDict(d) /\ EntryOf(d, kv[1]) = NoVal
                                         THEN Put(d, kv[1], ArgValue(kv[2])) ELSE NoVal,
                          s.vars[c.var].val, kvs)
    IN  IF \/ ~Settable(s, c.var)
           \/ \E k \in DOMAIN c.kvs : ~EntryOK(s, c.kvs[k][2])
           \/ s.exe.on /\ final = NoVal
        THEN Refused(s)
        ELSE Push(IF s.exe.on THEN [s EXCEPT !.vars[c.var].val = final] ELSE s,
                  [op |-> "set", var |-> c.var, kvs |-> kvs,
                   final |-> IF s.exe.on THEN final ELSE NoVal])

\* ArgHandle::update.  The key must be there; any object or alias will do.
UpdateCall(s, c) ==
    LET r == Resolve(s, c.arg)
        old == s.vars[c.var].val
        new == IF s.exe.on /\ EntryOf(old, c.key) # NoVal THEN Put(old, c.key, ArgValue(r)) ELSE NoVal
    IN  IF \/ s.vars[c.var].typ # "dict"
           \/ ~EntryOK(s, c.arg)
           \/ s.exe.on /\ EntryOf(old, c.key) = NoVal
        THEN Refused(s)
        ELSE Push([s EXCEPT !.vars[c.var].val = new, !.vars[c.var].ts = @ + 1],
                  [op |-> "update", var |-> c.var, key |-> c.key, arg |-> r, old |-> old, new |-> new])

ArgsOf(s, c) == [k \in DOMAIN c.args |-> Resolve(s, c.args[k])]
ArgsOK(s, c) == \A k \in DOMAIN c.args : EntryOK(s, c.args[k])

\* native_st.
Native(s, c) ==
    IF ~ArgsOK(s, c) THEN Refused(s)
    ELSE Push(s, [op |-> "stmt", pred |-> c.pred, args |-> ArgsOf(s, c)])

\* dict_get: a witness for the entry, and the statement that contains it.
ContainerGet(s, c) ==
    LET r == Resolve(s, c.args[1])
        found == IF s.exe.on THEN EntryOf(ArgValue(r), c.key) ELSE NoVal
        w == NewVar(s, "unk", found)
    IN  IF ~ArgsOK(s, c) \/ (s.exe.on /\ found = NoVal) THEN Refused(s)
        ELSE Push(w, [op |-> "stmt", pred |-> "DictContains",
                      args |-> <<r, Resolve(w, <<"lit", Str(c.key)>>),
                                 Resolve(w, <<"var", Len(w.vars)>>)>>])

\* intro_lt_eq_u256 and intro_vdf, whose witness is the work.
IntroCall(s, c) ==
    LET args == ArgsOf(s, c)
        w == IF c.pred = "Vdf"
             THEN NewVar(s, "raw", IF s.exe.on THEN <<"vdf", ArgValue(args[1])>> ELSE NoVal)
             ELSE s
        all == IF c.pred = "Vdf" THEN Append(args, Resolve(w, <<"var", Len(w.vars)>>)) ELSE args
    IN  IF ~ArgsOK(s, c) THEN Refused(s)
        ELSE Push(w, [op |-> "intro", pred |-> c.pred, args |-> all])

\* unsafe_expr: the block's result becomes a witness.  A block that grinds an
\* object (pow_obj_grind) marks its dictionary as read; in mock mode it
\* returns the field as it is.
UnsafeExpr(s, c) ==
    LET r == Resolve(s, c.arg)
        marked == IF c.grind THEN [s EXCEPT !.vars[c.arg[2]].read = TRUE] ELSE s
        val == IF ~s.exe.on THEN NoVal ELSE IF c.grind THEN EntryOf(r.c, KKey) ELSE ArgValue(r)
    IN  IF ~EntryOK(s, c.arg) THEN Refused(s)
        ELSE NewVar(marked, "raw", val)
-----------------------------------------------------------------------------
(* Metadata.                                                                *)

\* max_ts_per_var: an Output reserves one more step, for its identity.
IsOutput(s, v) == ObjectIO(s.insts, v) = "output"
MaxTs(s, v) == s.vars[v].ts + (IF IsOutput(s, v) THEN 1 ELSE 0)
InitialsTs(m) == m - 1

\* How many updates of v come before instruction i.
TsAt(insts, i, v) ==
    Cardinality({j \in 1..(i - 1) : insts[j].op = "update" /\ insts[j].var = v})

\* body_referenced_vars
Referenced(insts) ==
    UNION {{r.name : r \in ToSet(InstArgs(insts[i]))} : i \in DOMAIN insts}
        \cup {insts[i].var : i \in {j \in DOMAIN insts : insts[j].op \in {"set", "update"}}}

\* compute_wildcard_needs: the forms of an object a field read keeps open.
FieldRead(s, v, tss) ==
    \E i \in DOMAIN s.insts :
        /\ \E r \in ToSet(InstArgs(s.insts[i])) : r.name = v /\ r.key # NoKey
        /\ TsAt(s.insts, i, v) \in tss
NeedsIn(s, v)       == Consumes(ObjectIO(s.insts, v)) /\ FieldRead(s, v, {0})
NeedsOut(s, v)      == Produces(ObjectIO(s.insts, v)) /\ FieldRead(s, v, {MaxTs(s, v)})
NeedsInitials(s, v) == IsOutput(s, v) /\ FieldRead(s, v, {InitialsTs(MaxTs(s, v))})

VarsOf(insts, kinds) ==
    LET os == SelectSeq(ObjectInsts(insts), LAMBDA o : o.io \in kinds)
    IN  [i \in DOMAIN os |-> os[i].var]

\* from_action_ctx.  in, out and initials are the record slots, by variable;
\* open holds <<side, variable>> for a slot that needs a wildcard.
ObjectRefs(s) ==
    LET os == ObjectInsts(s.insts)
    IN  [i \in DOMAIN os |-> [io |-> os[i].io, class |-> os[i].class, var |-> os[i].var]]
Totals(mod, s) ==
    FoldLeft(LAMBDA acc, i :
                CASE i.op = "object" -> Append(acc, [io |-> i.io, class |-> i.class])
                  [] i.op = "sub" -> acc \o mod[i.action].meta.total
                  [] OTHER -> acc,
             <<>>, s.insts)
MetaOf(mod, s) ==
    [refs  |-> ObjectRefs(s),
     total |-> Totals(mod, s),
     in    |-> VarsOf(s.insts, {"input", "mutate"}),
     out   |-> VarsOf(s.insts, {"output", "mutate"}),
     init  |-> VarsOf(s.insts, {"output"}),
     open  |-> {<<"in", v>> : v \in {x \in DOMAIN s.vars : NeedsIn(s, x)}}
               \cup {<<"out", v>> : v \in {x \in DOMAIN s.vars : NeedsOut(s, x)}}
               \cup {<<"init", v>> : v \in {x \in DOMAIN s.vars : NeedsInitials(s, x)}},
     maxts |-> [v \in DOMAIN s.vars |-> MaxTs(s, v)],
     chain |-> Len(ObjectInsts(s.insts)) + Len(SubInsts(s.insts))]
TotalInputs(meta)  == SelectSeq(meta.total, LAMBDA r : Consumes(r.io))
TotalOutputs(meta) == SelectSeq(meta.total, LAMBDA r : Produces(r.io))

\* A referenced alias needs a sub-action that produces an object.
AliasesOK(mod, s) ==
    \A i \in DOMAIN s.insts :
        s.insts[i].op = "sub" /\ s.insts[i].var # Literal /\ s.insts[i].var \in Referenced(s.insts)
            => mod[s.insts[i].action].meta.out # <<>>

\* in_entry, out_entry, initials_entry: the slot in the record.
Pos(seq, v) == CHOOSE i \in DOMAIN seq : seq[i] = v
InSlot(meta, v)   == Pos(meta.in, v) - 1
OutSlot(meta, v)  == Len(meta.in) + Pos(meta.out, v) - 1
InitSlot(meta, v) == Pos(meta.init, v) - 1
Closed(meta, side, v) ==
    /\ v \in ToSet(CASE side = "in" -> meta.in [] side = "out" -> meta.out [] side = "init" -> meta.init)
    /\ <<side, v>> \notin meta.open

\* collapsed_at: the record that holds the variable's form at ts.
CollapsedAt(meta, v, ts) ==
    IF ts = 0 /\ Closed(meta, "in", v) THEN "in"
    ELSE IF ts = meta.maxts[v] /\ Closed(meta, "out", v) THEN "out"
    ELSE IF ts = InitialsTs(meta.maxts[v]) /\ Closed(meta, "init", v) THEN "init"
    ELSE "none"
-----------------------------------------------------------------------------
(* The rendered predicate: fmt_action's clauses, in order.  A wildcard is   *)
(* <<kind, number, ts>>.                                                    *)

WVar(v, ts) == <<"var", v, ts>>
WChain(ts)  == <<"chain", 0, ts>>
WHeader     == <<"header", 0, 0>>
WIO         == <<"io", 0, 0>>
WInitials   == <<"initials", 0, 0>>
WSteps      == <<"steps", 0, 0>>
WSub(n)     == <<"sub_io", n, 0>>

\* chain_packed, chain_step_at
Packed(chain) == chain >= 3
StepSlot(chain, ts) == Packed(chain) /\ ts > 0 /\ ts < chain
FmtChain(meta, ts) == IF StepSlot(meta.chain, ts) THEN Entry(WSteps, ts - 1) ELSE Wild(WChain(ts))

\* VarNameFmt, ArgFmt.  A field of a collapsed form would anchor twice.
FmtVar(meta, v, ts) ==
    CASE CollapsedAt(meta, v, ts) = "in"   -> Entry(WIO, InSlot(meta, v))
      [] CollapsedAt(meta, v, ts) = "out"  -> Entry(WIO, OutSlot(meta, v))
      [] CollapsedAt(meta, v, ts) = "init" -> Entry(WInitials, InitSlot(meta, v))
      [] OTHER -> Wild(WVar(v, ts))
FmtArg(meta, r, ts) ==
    IF r.name = Literal THEN Lit(r.c)
    ELSE IF r.name = Header THEN Entry(WHeader, r.key)
    ELSE IF r.key = NoKey THEN FmtVar(meta, r.name, ts)
    ELSE Entry(WVar(r.name, ts), r.key)

\* ArrayContains clauses for the open forms of an object, in this order.
FmtOpen(meta, v) ==
    (IF <<"in", v>> \in meta.open
        THEN <<St("ArrayContains", <<Wild(WIO), Lit(Str(InSlot(meta, v))), Wild(WVar(v, 0))>>)>> ELSE <<>>)
    \o (IF <<"out", v>> \in meta.open
        THEN <<St("ArrayContains", <<Wild(WIO), Lit(Str(OutSlot(meta, v))), Wild(WVar(v, meta.maxts[v]))>>)>>
        ELSE <<>>)
    \o (IF <<"init", v>> \in meta.open
        THEN <<St("ArrayContains", <<Wild(WInitials), Lit(Str(InitSlot(meta, v))),
                                    Wild(WVar(v, InitialsTs(meta.maxts[v])))>>)>>
        ELSE <<>>)

\* The pin of a referenced alias to the first out entry of its sub-action; n
\* is the number of the call.
FmtPin(mod, s, n) ==
    LET call == SubInsts(s.insts)[n]
    IN  IF call.var # Literal /\ call.var \in Referenced(s.insts)
        THEN <<St("ArrayContains", <<Wild(WSub(n)), Lit(Str(Len(mod[call.action].meta.in))),
                                    Wild(WVar(call.var, 0))>>)>>
        ELSE <<>>

\* A body instruction.
SubsUpTo(insts, i) == Cardinality({j \in 1..i : insts[j].op = "sub"})
FmtInst(meta, s, i) ==
    LET inst == s.insts[i]
        arg(r) == FmtArg(meta, r, IF r.name \in DOMAIN s.vars THEN TsAt(s.insts, i, r.name) ELSE 0)
        ts == TsAt(s.insts, i, inst.var)
        n  == SubsUpTo(s.insts, i)
    IN  CASE inst.op = "set" ->
                [k \in DOMAIN inst.kvs |->
                    St("DictContains", <<FmtVar(meta, inst.var, ts), Lit(Str(inst.kvs[k][1])),
                                         arg(inst.kvs[k][2])>>)]
          [] inst.op = "update" ->
                <<St("DictUpdate", <<FmtVar(meta, inst.var, ts), Lit(Str(inst.key)), arg(inst.arg),
                                     FmtVar(meta, inst.var, ts + 1)>>)>>
          [] inst.op \in {"stmt", "intro"} ->
                <<St(inst.pred, [k \in DOMAIN inst.args |-> arg(inst.args[k])])>>
          [] inst.op = "sub" ->
                <<St(ActionName(inst.action), <<Wild(WSub(n)), Wild(WHeader),
                                    FmtChain(meta, n - 1), FmtChain(meta, n)>>)>>
          [] OTHER -> <<>>

\* The event of the k-th object, after every sub-action.
FmtEvent(meta, s, k) ==
    LET o == meta.refs[k]
        t == Len(SubInsts(s.insts)) + k
        ts == s.vars[o.var].ts
        chain == <<FmtChain(meta, t - 1), FmtChain(meta, t)>>
        guard == <<Lit(<<"class", o.class>>)>>
    IN  CASE o.io = "input"  -> St("TxDelete", chain \o <<FmtVar(meta, o.var, ts)>> \o guard)
          [] o.io = "output" -> St("TxInsert", chain \o <<FmtVar(meta, o.var, ts),
                                                         FmtVar(meta, o.var, ts + 1)>> \o guard)
          [] o.io = "mutate" -> St("TxMutate", chain \o <<FmtVar(meta, o.var, 0),
                                                         FmtVar(meta, o.var, ts)>> \o guard)

FmtAction(mod, meta, s) ==
    FlattenSeq([k \in DOMAIN meta.refs |-> FmtOpen(meta, meta.refs[k].var)])
    \o FlattenSeq([n \in DOMAIN SubInsts(s.insts) |-> FmtPin(mod, s, n)])
    \o FlattenSeq([i \in DOMAIN s.insts |-> FmtInst(meta, s, i)])
    \o [k \in DOMAIN meta.refs |-> FmtEvent(meta, s, k)]
=============================================================================
