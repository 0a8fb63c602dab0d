-------------------------- MODULE ActionExecution --------------------------
(***************************************************************************)
(* A plugin module is loaded and one of its actions is executed            *)
(* (libs/sdk/src/lib.rs).  Load runs every script and renders a predicate  *)
(* for each; Execute runs a script again, with the sub-actions it calls,   *)
(* and gives the prover one statement per clause.  Nothing but the code    *)
(* keeps the two in step: the prover refuses statements that do not match  *)
(* the clauses, and the caller unwraps.                                    *)
(*                                                                         *)
(* Load takes one step per host call, Execute is one step.  The            *)
(* transaction is what TxBuilder keeps of it: the chain, the objects alive *)
(* in it and the guard of each event.  Scripts that branch on what they    *)
(* read, rebind a variable, or assign one with var_assign, are left out.   *)
(***************************************************************************)
EXTENDS ActionScript

CONSTANTS Classes,      \* the classes scripts name
          IOs,          \* the kinds of object they declare
          Ops,          \* the host calls they make
          ArgKinds,     \* the arguments they give, and
          Fields,       \* the fields these read
          MaxCalls      \* per action, how many calls a script makes

VARIABLES mod,          \* the actions loaded so far
          calls,        \* the script being run at Load, and
          cur,          \* its ActionContext
          run           \* what Execute returned

vars == <<mod, calls, cur, run>>

NumActions == Len(MaxCalls)
Chain(c) == <<"chain", c>>

NewExe(inputs) ==
    [on |-> TRUE, inputs |-> inputs, taken |-> <<>>, fresh |-> 0, outputs |-> <<>>,
     chain |-> <<>>, live |-> ToSet(inputs), guards |-> <<>>, ok |-> TRUE]
-----------------------------------------------------------------------------
(* The class tables.                                                        *)

AllRefs(m) ==
    FlattenSeq([n \in DOMAIN m |-> [k \in DOMAIN m[n].meta.refs |->
        [action |-> n, index |-> k, class |-> m[n].meta.refs[k].class]]])

\* actions_to_classes: the branches of a class's IsX, as fmt_class emits them.
\* The last branch is Rekey.
ClassBranches(m, class) ==
    LET rs == SelectSeq(AllRefs(m), LAMBDA r : r.class = class)
    IN  [i \in DOMAIN rs |-> <<rs[i].action, rs[i].index>>]

\* object_index_class_st_index: the branch of an action's object.
BranchIndex(m, n, k) ==
    1 + Cardinality({i \in DOMAIN AllRefs(m) :
            /\ AllRefs(m)[i].class = m[n].meta.refs[k].class
            /\ \/ AllRefs(m)[i].action < n
               \/ AllRefs(m)[i].action = n /\ AllRefs(m)[i].index < k})
-----------------------------------------------------------------------------
(* exe_action, after the script has run: s is its context.                  *)

Final(s, v) == s.vars[v].val
PreDict(s, o)  == IF o.io = "mutate" THEN o.orig ELSE Final(s, o.var)
PostDict(s, o) == IF o.io = "output" THEN Stamp(Final(s, o.var)) ELSE Final(s, o.var)

\* The io and initials records.
IORecord(s) ==
    LET os == ObjectInsts(s.insts)
        in == SelectSeq(os, LAMBDA o : Consumes(o.io))
        out == SelectSeq(os, LAMBDA o : Produces(o.io))
    IN  Arr([i \in DOMAIN in |-> PreDict(s, in[i])] \o [i \in DOMAIN out |-> PostDict(s, out[i])])
InitialsRecord(s) ==
    LET out == SelectSeq(ObjectInsts(s.insts), LAMBDA o : o.io = "output")
    IN  Arr([i \in DOMAIN out |-> Final(s, out[i].var)])

\* anchor_at
Anchor(meta, s, v, ts) ==
    CASE CollapsedAt(meta, v, ts) = "in"   -> Entry(IORecord(s), InSlot(meta, v))
      [] CollapsedAt(meta, v, ts) = "out"  -> Entry(IORecord(s), OutSlot(meta, v))
      [] CollapsedAt(meta, v, ts) = "init" -> Entry(InitialsRecord(s), InitSlot(meta, v))
      [] OTHER -> <<>>
AnchorOrLiteral(meta, s, v, dict, ts) ==
    LET a == Anchor(meta, s, v, ts) IN IF a = <<>> THEN Lit(dict) ELSE a

\* The statements for the open forms of object o.
OpenSts(meta, s, o) ==
    LET form(side, rec, slot, dict) ==
            IF <<side, o.var>> \in meta.open
            THEN <<St("ArrayContains", <<Lit(rec), Lit(Str(slot)), Lit(dict)>>)>> ELSE <<>>
    IN  (IF Consumes(o.io)
            THEN form("in", IORecord(s), InSlot(meta, o.var), PreDict(s, o)) ELSE <<>>)
        \o (IF Produces(o.io)
            THEN form("out", IORecord(s), OutSlot(meta, o.var), PostDict(s, o)) ELSE <<>>)
        \o (IF o.io = "output"
            THEN form("init", InitialsRecord(s), InitSlot(meta, o.var), Final(s, o.var)) ELSE <<>>)

\* The pin of a sub-action's alias.
PinSts(s, call) ==
    IF call.out # <<>> /\ call.var # Literal /\ call.var \in Referenced(s.insts)
    THEN <<St("ArrayContains", <<Lit(call.out[1]), Lit(Str(call.out[2])), Lit(call.out[3])>>)>>
    ELSE <<>>

\* tx_builder.insert, delete and mutate: the event of object o, on exe.
EventSt(s, exe, o) ==
    LET fin == Final(s, o.var)
        old == CASE o.io = "output" -> NoVal [] o.io = "input" -> fin [] o.io = "mutate" -> o.orig
        new == IF o.io = "input" THEN NoVal ELSE PostDict(s, o)
        next == Append(exe.chain, <<old, new>>)
        ends == <<Lit(Chain(exe.chain)), Lit(Chain(next))>>
        guard == <<Lit(<<"class", o.class>>)>>
    IN  [next |-> next, old |-> old, new |-> new,
         st |-> CASE o.io = "output" -> St("TxInsert", ends \o <<Lit(fin), Lit(new)>> \o guard)
                  [] o.io = "input"  -> St("TxDelete", ends \o <<Lit(old)>> \o guard)
                  [] o.io = "mutate" -> St("TxMutate", ends \o <<Lit(old), Lit(new)>> \o guard)]
Emit(s, exe, o) ==
    LET e == EventSt(s, exe, o)
    IN  [exe EXCEPT !.chain = e.next,
                    !.live = (@ \ {e.old}) \cup (IF e.new = NoVal THEN {} ELSE {e.new}),
                    !.ok = @ /\ (e.old # NoVal => e.old \in exe.live),
                    !.outputs = IF Produces(o.io) THEN Append(@, e.new) ELSE @]

\* The state before the k-th object's event: direct events follow the script,
\* and so every sub-action it called.
RECURSIVE ExeBefore(_, _)
ExeBefore(s, k) ==
    IF k = 1 THEN s.exe ELSE Emit(s, ExeBefore(s, k - 1), ObjectInsts(s.insts)[k - 1])

\* inst_chain_ts: the step of the k-th object, of the n-th sub-action.
ObjectTs_declared(s, k) ==
    CHOOSE t \in 1..Len(s.insts) :
        LET ev == SelectSeq(s.insts, LAMBDA i : i.op \in {"object", "sub"})
        IN  t \in DOMAIN ev /\ ev[t] = ObjectInsts(s.insts)[k]
ObjectTs(s, k) == Len(SubInsts(s.insts)) + k
SubTs(s, n) == n

\* chain_steps: the chain after each step but the last.
ChainSteps(meta, s) ==
    Arr([t \in 1..(meta.chain - 1) |->
            IF t <= Len(SubInsts(s.insts)) THEN ValueOf(SubInsts(s.insts)[t].st.a[4])
            ELSE Chain(ExeBefore(s, t - Len(SubInsts(s.insts)) + 1).chain)])
StepAnchor(meta, s, ts) ==
    IF StepSlot(meta.chain, ts) THEN Entry(ChainSteps(meta, s), ts - 1) ELSE <<>>

\* The k-th object's event, its literals replaced by entries of the records.
EventReplacements(meta, s, k) ==
    LET o == ObjectInsts(s.insts)[k]
        t == ObjectTs(s, k)
        old == IF Closed(meta, "in", o.var) THEN Entry(IORecord(s), InSlot(meta, o.var)) ELSE <<>>
        new == IF Closed(meta, "out", o.var) THEN Entry(IORecord(s), OutSlot(meta, o.var)) ELSE <<>>
        ini == IF Closed(meta, "init", o.var) THEN Entry(InitialsRecord(s), InitSlot(meta, o.var)) ELSE <<>>
        ends == <<StepAnchor(meta, s, t - 1), StepAnchor(meta, s, t)>>
    IN  CASE o.io = "output" -> ends \o <<ini, new, <<>>>>
          [] o.io = "input"  -> ends \o <<old, <<>>>>
          [] o.io = "mutate" -> ends \o <<old, new, <<>>>>
EventLit(s, k) == EventSt(s, ExeBefore(s, k), ObjectInsts(s.insts)[k]).st

\* The body walk.  An argument is anchored when it is a field, or an object
\* whose form at this step sits in a record.
ArgAnchor(meta, s, i, r) ==
    IF r.key # NoKey THEN OpArg(r)
    ELSE IF r.name \in DOMAIN s.vars /\ ObjectIO(s.insts, r.name) # "none"
    THEN Anchor(meta, s, r.name, TsAt(s.insts, i, r.name))
    ELSE <<>>
BodyArg(meta, s, i, r) == LET a == ArgAnchor(meta, s, i, r) IN IF a = <<>> THEN OpArg(r) ELSE a

\* A statement, and the replacements still to make in it.
Plain(st) == [st |-> st, rs |-> [k \in DOMAIN st.a |-> <<>>]]

\* What a set or an update gives the prover,
WriteSts(meta, s, i) ==
    LET inst == s.insts[i]
        ts == TsAt(s.insts, i, inst.var)
    IN  IF inst.op = "set"
        THEN [k \in DOMAIN inst.kvs |->
                Plain(St("DictContains", <<AnchorOrLiteral(meta, s, inst.var, inst.final, ts),
                                           Lit(Str(inst.kvs[k][1])),
                                           BodyArg(meta, s, i, inst.kvs[k][2])>>))]
        ELSE <<Plain(St("DictUpdate", <<AnchorOrLiteral(meta, s, inst.var, inst.old, ts),
                                        Lit(Str(inst.key)), BodyArg(meta, s, i, inst.arg),
                                        AnchorOrLiteral(meta, s, inst.var, inst.new, ts + 1)>>))>>

\* and what any other instruction does.
BodySts(meta, s, i) ==
    LET inst == s.insts[i]
        n == SubsUpTo(s.insts, i)
    IN  CASE inst.op = "stmt" ->
                <<Plain(St(inst.pred, [k \in DOMAIN inst.args |-> BodyArg(meta, s, i, inst.args[k])]))>>
          [] inst.op = "intro" ->
                <<[st |-> St(inst.pred, [k \in DOMAIN inst.args |-> Lit(ArgValue(inst.args[k]))]),
                   rs |-> [k \in DOMAIN inst.args |-> ArgAnchor(meta, s, i, inst.args[k])]]>>
          [] inst.op = "sub" ->
                <<[st |-> inst.st, rs |-> <<<<>>, <<>>, StepAnchor(meta, s, SubTs(s, n) - 1),
                                            StepAnchor(meta, s, SubTs(s, n))>>]>>
          [] inst.op \in {"set", "update"} -> WriteSts(meta, s, i)
          [] OTHER -> <<>>

\* Every statement of the action, in fmt_action's order.
ActionSts(meta, s) ==
    LET os == ObjectInsts(s.insts)
        opens == FlattenSeq([k \in DOMAIN os |-> OpenSts(meta, s, os[k])])
                 \o FlattenSeq([n \in DOMAIN SubInsts(s.insts) |-> PinSts(s, SubInsts(s.insts)[n])])
    IN  [k \in DOMAIN opens |-> Plain(opens[k])]
        \o FlattenSeq([i \in DOMAIN s.insts |-> BodySts(meta, s, i)])
        \o [k \in DOMAIN os |-> [st |-> EventLit(s, k), rs |-> EventReplacements(meta, s, k)]]

\* A statement of the script's own that does not hold fails as an error.
ScriptHolds(meta, s) ==
    \A i \in DOMAIN s.insts :
        s.insts[i].op = "stmt" => Holds(BodySts(meta, s, i)[1].st)

\* dispatch_side, and the bridge predicate: state is an entry of the action's io.
DispatchSlot(meta, o) == IF o.io = "input" THEN InSlot(meta, o.var) ELSE OutSlot(meta, o.var)
Bridge(io, slot, state, st) == EntryOf(io, slot) = state /\ ValueOf(st.a[1]) = io

\* build_is_x for the k-th object: the bridge, then the branch of the class.
Guard(m, n, s, st, io, k) ==
    LET meta == m[n].meta
        o == ObjectInsts(s.insts)[k]
        branches == ClassBranches(m, o.class)
    IN  [obj |-> PostDict(s, o), from |-> ValueOf(st.a[3]), to |-> ValueOf(st.a[4]),
         ok |-> /\ Bridge(io, DispatchSlot(meta, o), PostDict(s, o), st)
                /\ BranchIndex(m, n, k) <= Len(branches)
                /\ branches[BranchIndex(m, n, k)] = <<n, k>>]
-----------------------------------------------------------------------------
(* exe_action and the call that nests it.                                   *)

RECURSIVE ExeAction(_, _, _)

\* subaction: the alias is the sub-action's first produced object.
SubAction(m, s, c) ==
    LET Named(out) ==
            IF c.bind THEN NewVar(s, "dict", IF out = <<>> THEN NoVal ELSE out[3]) ELSE s
        Called(out, st) ==
            [op |-> "sub", action |-> c.action, out |-> out, st |-> st,
             var |-> IF c.bind THEN Len(Named(out).vars) ELSE Literal]
        slot == Len(m[c.action].meta.in)
        Out(r) == IF m[c.action].meta.out = <<>> THEN <<>>
                  ELSE <<r.io, slot, EntryOf(r.io, slot)>>
    IN  IF ~s.exe.on THEN Push(Named(<<>>), Called(<<>>, St("", <<>>)))
        ELSE The({IF r.err THEN Refused(s)
                  ELSE Push([Named(Out(r)) EXCEPT !.exe = r.exe], Called(Out(r), r.st)) :
                  r \in {ExeAction(m, c.action, s.exe)}})

Call(m, s, c) ==
    CASE c.op = "object" -> ObjIO(s, c)
      [] c.op = "set"    -> SetCall(s, c)
      [] c.op = "update" -> UpdateCall(s, c)
      [] c.op = "stmt"   -> Native(s, c)
      [] c.op = "get"    -> ContainerGet(s, c)
      [] c.op = "intro"  -> IntroCall(s, c)
      [] c.op = "unsafe" -> UnsafeExpr(s, c)
      [] c.op = "hold"   -> Hold(s, c)
      [] c.op = "sub"    -> SubAction(m, s, c)

\* The statements, the action's own, and the guards of its objects.
ProveAction(m, n, exe, s) ==
    LET meta == m[n].meta
        os == ObjectInsts(s.insts)
        io == IORecord(s)
        Sts(built) == [i \in DOMAIN built |-> Replace(built[i].rs, built[i].st)]
        Proved(built, sts) ==
            \A i \in DOMAIN built : Replaceable(built[i].rs, built[i].st) /\ Holds(sts[i])
        Action(sts) ==
            St(ActionName(n), <<Lit(Bound(m[n].clauses, sts, WIO)), Lit(HeaderRecord),
                                Lit(Bound(m[n].clauses, sts, WChain(0))),
                                Lit(Bound(m[n].clauses, sts, WChain(meta.chain)))>>)
        Guards(st) == [k \in DOMAIN os |-> Guard(m, n, s, st, io, k)]
        Result(ok, st, guards, after) ==
            [err |-> FALSE, io |-> io, st |-> st,
             exe |-> [after EXCEPT
                        !.ok = @ /\ ok /\ (\A k \in DOMAIN os : guards[k].ok),
                        !.guards = @ \o [k \in DOMAIN os |->
                            [guard |-> guards[k], start |-> exe.chain, end |-> after.chain]]]]
        Guarded(ok, st) ==
            The({Result(ok, st, guards, after) :
                 guards \in {Guards(st)}, after \in {ExeBefore(s, Len(os) + 1)}})
        Applied(built, sts) ==
            The({Guarded(Proved(built, sts) /\ Applies(m[n].clauses, sts), st) :
                 st \in {Action(sts)}})
    IN  The({The({Applied(built, sts) : sts \in {Sts(built)}}) : built \in {ActionSts(meta, s)}})

ExeAction(m, n, exe) ==
    LET Script == FoldLeft(LAMBDA a, c : IF a.err THEN a ELSE Call(m, a, c), NewContext(exe),
                           m[n].calls)
    IN  The({IF s.err \/ ~ScriptHolds(m[n].meta, s) THEN [err |-> TRUE]
             ELSE ProveAction(m, n, exe, s) : s \in {Script}})
-----------------------------------------------------------------------------
(* Load, one step per host call.                                            *)

NoRun == [action |-> 0, err |-> FALSE, exe |-> NewExe(<<>>)]

Init ==
    /\ mod = <<>>
    /\ calls = <<>>
    /\ cur = NewContext(NoExe)
    /\ run = NoRun

\* The call c, which leaves the context `after'.
HostCall(c, after) ==
    /\ c.op \in Ops
    /\ Len(mod) < NumActions
    /\ Len(calls) < MaxCalls[Len(mod) + 1]
    /\ \E next \in {after} : ~next.err /\ cur' = next
    /\ calls' = Append(calls, c)
    /\ UNCHANGED <<mod, run>>

\* What a script can name: the variables, and the fields of dictionaries.
Targets == {v \in DOMAIN cur.vars : cur.vars[v].typ = "dict"}
Args ==
    {a \in {<<"lit", IntVal(1)>>} \cup {<<"var", v>> : v \in DOMAIN cur.vars}
           \cup {<<"field", v, k>> : v \in Targets, k \in Fields} \cup {<<"field", Header, 0>>}
           \cup {<<"held", i>> : i \in DOMAIN cur.held} : a[1] \in ArgKinds}

Object == \E io \in IOs, class \in Classes :
    LET c == [op |-> "object", io |-> io, class |-> class] IN HostCall(c, ObjIO(cur, c))
SetField == \E v \in Targets, k \in {KF, KG}, a \in Args :
    LET c == [op |-> "set", var |-> v, kvs |-> <<<<k, a>>>>] IN HostCall(c, SetCall(cur, c))
SetFields == \E v \in Targets, a, b \in Args :
    LET c == [op |-> "set", var |-> v, kvs |-> <<<<KF, a>>, <<KG, b>>>>] IN HostCall(c, SetCall(cur, c))
Update == \E v \in Targets, k \in {KF, KKey}, a \in Args :
    LET c == [op |-> "update", var |-> v, key |-> k, arg |-> a] IN HostCall(c, UpdateCall(cur, c))
Statement == \E a, b \in Args :
    LET c == [op |-> "stmt", pred |-> "Equal", args |-> <<a, b>>] IN HostCall(c, Native(cur, c))
Get == \E a \in Args : a[1] = "var" /\
    LET c == [op |-> "get", args |-> <<a>>, key |-> KF] IN HostCall(c, ContainerGet(cur, c))
Intro == \E a \in Args, pred \in {"Vdf", "LtEqU256"} :
    LET c == [op |-> "intro", pred |-> pred, args |-> <<a>>] IN HostCall(c, IntroCall(cur, c))
Unsafe == \E a \in Args, grind \in BOOLEAN :
    /\ grind => a[1] = "var" /\ a[2] \in Targets
    /\ LET c == [op |-> "unsafe", arg |-> a, grind |-> grind] IN HostCall(c, UnsafeExpr(cur, c))
Take == \E v \in Targets, a \in {"var", "field"} :
    LET c == [op |-> "hold", arg |-> IF a = "var" THEN <<"var", v>> ELSE <<"field", v, KF>>] IN HostCall(c, Hold(cur, c))
Sub == \E n \in DOMAIN mod, bind \in BOOLEAN :
    LET c == [op |-> "sub", action |-> n, bind |-> bind] IN HostCall(c, SubAction(mod, cur, c))

\* The end of a script: Loader::new and the render.
Loaded ==
    /\ calls # <<>>
    /\ AliasesOK(mod, cur)
    /\ LET meta == MetaOf(mod, cur)
       IN  mod' = Append(mod, [calls |-> calls, load |-> cur, meta |-> meta,
                               clauses |-> FmtAction(mod, meta, cur)])
    /\ calls' = <<>>
    /\ cur' = NewContext(NoExe)
    /\ UNCHANGED run

\* Executor::build_action on the last action, with an input of each class it
\* asks for.  (Another count, or an input of another class, is refused.)
Execute ==
    /\ Len(mod) = NumActions /\ run = NoRun
    /\ LET n == NumActions
           ins == TotalInputs(mod[n].meta)
       IN  \E r \in {ExeAction(mod, n, NewExe([i \in DOMAIN ins |-> LiveDict(ins[i].class, 100 + i)]))} :
             run' = [action |-> n, err |-> r.err, exe |-> IF r.err THEN NoRun.exe ELSE r.exe]
    /\ UNCHANGED <<mod, calls, cur>>

\* The built-in action of a class: one mutation, and the branch after the rest.
Rekey ==
    /\ Len(mod) = NumActions /\ run = NoRun
    /\ \E class \in {r.class : r \in ToSet(AllRefs(mod))} :
        LET old == LiveDict(class, 100)
            new == Put(old, KKey, Rand(0))
            next == <<<<old, new>>>>
            slot == Len(ClassBranches(mod, class)) + 1
        IN  run' = [action |-> NumActions + 1, err |-> FALSE,
                    exe |-> [NewExe(<<>>) EXCEPT
                        !.taken = <<<<class, old>>>>, !.outputs = <<new>>, !.chain = next, !.live = {new},
                        !.guards = <<[start |-> <<>>, end |-> next, guard |->
                            [obj |-> new, from |-> Chain(<<>>), to |-> Chain(next),
                             ok |-> slot \notin DOMAIN ClassBranches(mod, class)]]>>]]
    /\ UNCHANGED <<mod, calls, cur>>

Next ==
    \/ Object \/ SetField \/ SetFields \/ Update \/ Statement \/ Get \/ Intro \/ Unsafe
    \/ Take \/ Sub \/ Loaded \/ Execute \/ Rekey

Spec == Init /\ [][Next]_vars
-----------------------------------------------------------------------------
(* Scripts the code accepts at Load and does not carry through Execute.     *)

InstsOf(s, op) == {i \in DOMAIN s.insts : s.insts[i].op = op}

\* An input that the script updates: the record holds the updated form.
UpdatedInput(s) ==
    \E i \in InstsOf(s, "update") : ObjectIO(s.insts, s.insts[i].var) = "input"

\* A mutate with no update: both its forms are at step 0.
UntouchedMutate(n) ==
    \E r \in ToSet(mod[n].meta.refs) :
        /\ r.io = "mutate" /\ mod[n].load.vars[r.var].ts = 0
        /\ <<"in", r.var>> \notin mod[n].meta.open

\* A handle used after an update of the object it was taken from.
ArgsIn(c) ==
    CASE c.op = "set" -> {kv[2] : kv \in ToSet(c.kvs)}
      [] c.op \in {"update", "unsafe"} -> {c.arg}
      [] c.op \in {"stmt", "get", "intro"} -> ToSet(c.args)
      [] OTHER -> {}
StaleHandle(cs) ==
    \E i, j, k \in DOMAIN cs :
        /\ i < j /\ j < k
        /\ cs[i].op = "hold" /\ cs[j].op = "update" /\ cs[j].var = cs[i].arg[2]
        /\ LET h == Cardinality({x \in 1..i : cs[x].op = "hold"})
           IN  <<"held", h>> \in ArgsIn(cs[k])

\* A set whose own values name the object being set.
SelfSet(s) ==
    \E i \in InstsOf(s, "set") :
        \E r \in ToSet(InstArgs(s.insts[i])) : r.name = s.insts[i].var

\* Two sets of an object whose form at step 0 is a wildcard.
RepeatedSet(n) ==
    LET s == mod[n].load IN
    \E i, j \in InstsOf(s, "set") :
        /\ i < j /\ s.insts[i].var = s.insts[j].var
        /\ CollapsedAt(mod[n].meta, s.insts[i].var, 0) = "none"

\* No event: nothing ties the predicate's two ends of the chain together.
NoEvent(n) == mod[n].meta.chain = 0

Troubles ==
    UNION {    (IF NoEvent(n) THEN {"no event"} ELSE {})
          \cup (IF UpdatedInput(mod[n].load) THEN {"updated input"} ELSE {})
          \cup (IF UntouchedMutate(n) THEN {"untouched mutate"} ELSE {})
          \cup (IF StaleHandle(mod[n].calls) THEN {"stale handle"} ELSE {})
          \cup (IF SelfSet(mod[n].load) THEN {"self set"} ELSE {})
          \cup (IF RepeatedSet(n) THEN {"repeated set"} ELSE {}) : n \in DOMAIN mod}

Executed == run.action # 0 /\ ~run.err
-----------------------------------------------------------------------------
(* Properties.                                                              *)

\* What Execute builds is what Load rendered: for a script with none of the
\* troubles above, every statement exe_action gives apply_custom_pred holds,
\* has its clause's shape, and they agree on each wildcard; no unwrap panics.
LinesUp == Executed /\ Troubles = {} => run.exe.ok

\* build_action hands the inputs over in total_inputs' order, and each pop in
\* obj_io, of this script or of a sub-action's, gets an object of the class it
\* names; none is left.
InputsInOrder ==
    Executed =>
        /\ \A i \in DOMAIN run.exe.taken : run.exe.taken[i][1] = run.exe.taken[i][2][2][2]
        /\ run.exe.inputs = <<>>

\* A guard covers its scope: the chain ends that build_is_x puts into an
\* event's guard are the chain when its action began and when it ended, with
\* the events of sub-actions in between.
GuardsCoverScope ==
    Executed /\ Troubles = {} =>
        \A i \in DOMAIN run.exe.guards :
            LET g == run.exe.guards[i]
            IN  g.guard.from = Chain(g.start) /\ g.guard.to = Chain(g.end)

\* The branch that exe_action fills in a class's IsX is the branch fmt_class
\* wrote for that action and object.
BranchesAgree ==
    \A n \in DOMAIN mod : \A k \in DOMAIN mod[n].meta.refs :
        ClassBranches(mod, mod[n].meta.refs[k].class)[BranchIndex(mod, n, k)] = <<n, k>>

\* compute_wildcard_needs opens every form whose field the body reads: no
\* clause names a field of an entry of a record, which podlang cannot anchor.
FieldsOfWildcards ==
    \A n \in DOMAIN mod : LET s == mod[n].load IN
        \A i \in DOMAIN s.insts : \A r \in ToSet(InstArgs(s.insts[i])) :
            r.key # NoKey /\ r.name \in DOMAIN s.vars =>
                CollapsedAt(mod[n].meta, r.name, TsAt(s.insts, i, r.name)) = "none"

\* The objects Execute returns are of the classes total_outputs lists, in the
\* same order: the driver zips the two to name the objects it saves.
OutputsInOrder ==
    Executed /\ run.action \in DOMAIN mod =>
        LET outs == TotalOutputs(mod[run.action].meta)
        IN  [i \in DOMAIN run.exe.outputs |-> run.exe.outputs[i][2][2]]
                = [i \in DOMAIN outs |-> outs[i].class]
=============================================================================
