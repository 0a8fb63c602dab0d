---------------------------- MODULE ScriptValues ----------------------------
(***************************************************************************)
(* The values an action script works on, and the pod2 statements made of   *)
(* them (libs/sdk).                                                        *)
(*                                                                         *)
(* A value is a tuple that starts with its kind.  pod2 compares values by  *)
(* their raw form, so a commitment of a dictionary is that dictionary.  A  *)
(* record is an array.  Keys are numbers: an array's are its indexes, a    *)
(* dictionary's the constants below.                                       *)
(***************************************************************************)
EXTENDS Naturals, Sequences, FiniteSets

\* The element of a set of one.  The({F(x) : x \in {e}}) is a `let x = e' of the
\* code: e is evaluated once.
The(S) == CHOOSE x \in S : TRUE

NoVal == <<>>
IntVal(n) == <<"int", n>>
Rand(i) == <<"rand", i>>
Arr(s) == <<"arr", s>>
Str(k) == <<"str", k>>

KType == 12
KKey  == 13
KSid  == 14
KF    == 15        \* two fields of the script's own
KG    == 16
NoKey == 99

NewDict(class, key) == <<"dict", <<"class", class>>, key, NoVal, NoVal, NoVal>>

\* A live object of a class, as a transaction before this one left it.
LiveDict(class, i) == <<"dict", <<"class", class>>, Rand(i), Rand(i), IntVal(1), IntVal(1)>>

IsDict(v) == v # NoVal /\ v[1] = "dict"

\* container.get(key), NoVal when there is no such entry.
EntryOf(c, k) ==
    CASE c = NoVal -> NoVal
      [] c # NoVal /\ c[1] = "arr" -> (IF k < Len(c[2]) THEN c[2][k + 1] ELSE NoVal)
      [] IsDict(c) -> (IF k \in KType..KG THEN c[k - 10] ELSE NoVal)
      [] OTHER -> NoVal

Put(d, k, v) == [d EXCEPT ![k - 10] = v]

\* with_stable_identifier: the identifier is the commitment of the initial form.
Stamp(d) == Put(d, KSid, d)
-----------------------------------------------------------------------------
(* A statement's argument is a literal or an anchored key, an entry of a    *)
(* container; a template's is a literal, a wildcard, or an entry of one.    *)

Lit(v)    == <<"lit", v>>
Wild(w)   == <<"wild", w>>
Entry(c, k) == <<"ak", c, k>>

ValueOf(a) == IF a[1] = "ak" THEN EntryOf(a[2], a[3]) ELSE a[2]

St(p, a) == [p |-> p, a |-> a]

\* What an operation of the prover accepts.
Holds(st) ==
    LET v(i) == ValueOf(st.a[i]) IN
    CASE st.p = "Equal" -> v(1) = v(2)
      [] st.p \in {"DictContains", "ArrayContains"} -> EntryOf(v(1), v(2)[2]) = v(3) /\ v(3) # NoVal
      [] st.p = "DictUpdate" -> EntryOf(v(1), v(2)[2]) # NoVal /\ Put(v(1), v(2)[2], v(3)) = v(4)
      [] OTHER -> TRUE

\* Operation::replace_value_with_entry: the entry must hold the literal it
\* replaces.  An absent replacement is <<>>.
Replaceable(rs, st) ==
    \A i \in DOMAIN rs : rs[i] # <<>> => ValueOf(rs[i]) = ValueOf(st.a[i])
Replace(rs, st) ==
    [st EXCEPT !.a = [i \in DOMAIN st.a |-> IF rs[i] # <<>> THEN rs[i] ELSE st.a[i]]]

\* A clause and a statement of the same shape, and what that makes of the
\* wildcards: pairs of a wildcard and its value.
SameShape(t, st) ==
    /\ t.p = st.p /\ Len(t.a) = Len(st.a)
    /\ \A i \in DOMAIN t.a :
        CASE t.a[i][1] = "lit"  -> st.a[i][1] = "lit" /\ t.a[i][2] = st.a[i][2]
          [] t.a[i][1] = "wild" -> st.a[i][1] = "lit"
          [] t.a[i][1] = "ak"   -> st.a[i][1] = "ak" /\ t.a[i][3] = st.a[i][3]
Bindings(t, st) ==
    {<<t.a[i][2], st.a[i][2]>> : i \in {j \in DOMAIN t.a \cap DOMAIN st.a : t.a[j][1] # "lit"}}

\* A custom predicate applied to one statement per clause.
Binds(ts, sts) == UNION {Bindings(ts[i], sts[i]) : i \in DOMAIN ts \cap DOMAIN sts}
Applies(ts, sts) ==
    /\ Len(ts) = Len(sts)
    /\ \A i \in DOMAIN ts : SameShape(ts[i], sts[i])
    /\ LET b == Binds(ts, sts) IN \A x, y \in b : x[1] = y[1] => x[2] = y[2]

\* The value a predicate application gives wildcard w.
Bound(ts, sts, w) ==
    LET vs == {b[2] : b \in {x \in Binds(ts, sts) : x[1] = w}}
    IN  IF vs = {} THEN NoVal ELSE CHOOSE v \in vs : TRUE
=============================================================================
