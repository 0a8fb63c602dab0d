--------------------------- MODULE MCTransactions ---------------------------
(* Small instances of Transactions for TLC. *)
EXTENDS Transactions, TLC

CONSTANTS a, b, c, f, t1, t2

\* Two transactions that want the same input and create the same output.
RivalInputs == (t1 :> {a}) @@ (t2 :> {a, c})
RivalOutputs == (t1 :> {b}) @@ (t2 :> {b})

\* One transaction, of an imported object.
OneInput == (t1 :> {f})
OneOutput == (t1 :> {b})

OwnerSymmetry == Permutations(Owners)
=============================================================================
