---------------------------- MODULE MCExecution -----------------------------
(***************************************************************************)
(* How transactions are built and how the actions of a plugin are executed *)
(* into them, for TLC.  A behaviour is one of a single instance, named by  *)
(* `part'; what belongs to the other module stays as it starts.            *)
(***************************************************************************)
EXTENDS Naturals, Sequences, TLC

CONSTANTS T1, K1, K2, K3

VARIABLES
    part,
    ledger, phase, b, handles, out,
    mod, calls, cur, run

builder == <<ledger, phase, b, handles, out>>
script == <<mod, calls, cur, run>>
vars == <<part, builder, script>>

Fresh(k) == [type |-> T1, key |-> k, sid |-> <<T1, k>>]
-----------------------------------------------------------------------------
(* One transaction on one grounded object, with nested scopes; one that      *)
(* deletes up to three grounded objects, which takes every rule that grounds *)
(* an input; and two transactions after the one that made an object.         *)

Build == INSTANCE TxBuilder WITH Types <- {T1}, Keys <- {K1, K2}, Genesis <- {Fresh(K1)},
    Ops <- {"insert", "mutate", "rekey", "delete"},
    MaxInputs <- 1, MaxEvents <- 3, MaxScopes <- 2, MaxTxs <- 1

Ground == INSTANCE TxBuilder WITH Types <- {T1}, Keys <- {K1, K2, K3},
    Genesis <- {Fresh(k) : k \in {K1, K2, K3}}, Ops <- {"delete"},
    MaxInputs <- 3, MaxEvents <- 3, MaxScopes <- 1, MaxTxs <- 1

Ledger == INSTANCE TxBuilder WITH Types <- {T1}, Keys <- {K1, K2}, Genesis <- {Fresh(K1)},
    Ops <- {"insert", "mutate", "delete"},
    MaxInputs <- 1, MaxEvents <- 2, MaxScopes <- 1, MaxTxs <- 2

(* Scripts of one action that set and update fields; of a parent that goes   *)
(* on with the object of its sub-action; of every other host call; of three  *)
(* actions that call each other; and of a parent that declares objects       *)
(* before and after it calls.                                                *)

Updates == INSTANCE ActionExecution WITH Classes <- {"A"}, IOs <- {"input", "output", "mutate"},
    Ops <- {"object", "set", "update"}, ArgKinds <- {"lit", "field"}, Fields <- {15},
    MaxCalls <- <<4>>

Aliases == INSTANCE ActionExecution WITH Classes <- {"A"}, IOs <- {"output", "mutate"},
    Ops <- {"object", "sub", "update"}, ArgKinds <- {"field"}, Fields <- {13},
    MaxCalls <- <<2, 3>>

Calls == INSTANCE ActionExecution WITH Classes <- {"A"}, IOs <- {"input", "output"},
    Ops <- {"object", "stmt", "get", "intro", "unsafe", "hold"},
    ArgKinds <- {"lit", "field", "var", "held"}, Fields <- {15}, MaxCalls <- <<3>>

Tree == INSTANCE ActionExecution WITH Classes <- {"A", "B"}, IOs <- {"input", "output"},
    Ops <- {"object", "sub"}, ArgKinds <- {"lit"}, Fields <- {15}, MaxCalls <- <<1, 1, 2>>

Init ==
    /\ part \in {"build", "ground", "ledger", "updates", "aliases", "calls", "tree"}
    /\ CASE part = "build" -> Build!Init [] part = "ground" -> Ground!Init [] OTHER -> Ledger!Init
    /\ Tree!Init

Builds(p, A) == part = p /\ A /\ UNCHANGED <<part, script>>
Runs(p, A) == part = p /\ A /\ UNCHANGED <<part, builder>>

Next ==
    \/ Builds("build", Build!Next) \/ Builds("ground", Ground!Next)
    \/ Builds("ledger", Ledger!Next)
    \/ Runs("updates", Updates!Next) \/ Runs("aliases", Aliases!Next)
    \/ Runs("calls", Calls!Next) \/ Runs("tree", Tree!Next)

Spec == Init /\ [][Next]_vars
-----------------------------------------------------------------------------
(* The properties are those of the parts, whose modules say what they mean.  *)

\* The builder is made of scopes and events of known objects (push_event), a guard
\* covers the event it was attached to and no event leaves its scope without one
\* (attach_guard, verify_scope_guards), and finalize succeeds exactly on the
\* replayable event lists, with their effects.
ReplayAgrees ==
    /\ part = "build" =>
           /\ Build!TypeOK /\ Build!GuardsAreOwn /\ Build!EveryEventGuarded
           /\ Build!ReplayAgrees
    /\ part = "ground" => Ground!ReplayAgrees

\* Over transactions, an object is never in two states at once and a deleted one
\* does not come back (apply).
OneStatePerObject ==
    /\ [](part = "ledger" => Ledger!OneStatePerObject)
    /\ [][part = "ledger" => \A sid \in {T1} \X {K1, K2} :
              Ledger!Gone(ledger, sid) => Ledger!Gone(ledger', sid)]_builder

\* Execute's statements match the clauses that Load rendered (exe_action), none of
\* which names a field of an entry of a record (compute_wildcard_needs).  Through a
\* call tree the scripts take the inputs in total_inputs' order (obj_io), a guard
\* spans its action with the sub-actions in it (build_is_x), and the branch proved
\* of a class is the branch rendered (fmt_class).
LinesUp ==
    /\ part = "updates" => Updates!LinesUp /\ Updates!FieldsOfWildcards
    /\ part = "aliases" => Aliases!LinesUp
    /\ part = "calls" => Calls!LinesUp
    /\ part = "tree" =>
           /\ Tree!LinesUp /\ Tree!InputsInOrder
           /\ Tree!GuardsCoverScope /\ Tree!BranchesAgree
-----------------------------------------------------------------------------
(* Objects declared before and after a call, a question of its own.          *)

Outputs == INSTANCE ActionExecution WITH Classes <- {"A", "B"}, IOs <- {"output"},
    Ops <- {"object", "sub"}, ArgKinds <- {"lit"}, Fields <- {15}, MaxCalls <- <<1, 2>>

OutputsSpec == part = "outputs" /\ Ledger!Init /\ Outputs!Init
                   /\ [][Runs("outputs", Outputs!Next)]_vars

\* "Produced (Output/Mutate) object dicts across the whole action call tree, in
\* declaration order": what Execute returns and what total_outputs lists.
OutputsInOrder == Outputs!OutputsInOrder
=============================================================================
