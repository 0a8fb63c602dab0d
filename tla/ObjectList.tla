----------------------------- MODULE ObjectList -----------------------------
(***************************************************************************)
(* The object list of the browser GUI (interfaces/gui): loaded with         *)
(* GET /objects, kept current from the `object' and `object-removed' events *)
(* of dobjd's GET /events, loaded again when the stream reconnects or shows *)
(* a gap in its numbers.  The other half is dobjd's: each change of an      *)
(* object is published after it was made (services/dobjd/src/state.rs,      *)
(* routes/objects.rs), through a channel that drops what a slow subscriber  *)
(* has not taken.                                                           *)
(***************************************************************************)
EXTENDS Naturals, Sequences, FiniteSets

CONSTANTS
    Files,       \* names of object files
    Capacity,    \* CHANNEL_CAPACITY
    MaxChanges, MaxDrops, MaxFails   \* bounds: changes, lost connections, failed loads

VARIABLES
    store,       \* the version of the object in each file, 0: no such file
    changes,     \* versions given out
    unsaid,      \* files whose change is still to be published, in order
    seq,         \* the number of the next event
    conn,        \* the stream: "off", "subscribed" (the response is on its way), "open"
    wire,        \* events on it
    lastSeq,     \* lastEventSeq, 0: none of this connection yet
    opened,      \* streamOpenedBefore
    list,        \* the list shown, as store
    loads,       \* hydrateData calls in flight
    imports,     \* an import whose answer has not arrived, at most one
    overlay,     \* what covers the page: "loading", "error", "none"
    drops, fails,
    holes        \* why the list may lag, for the properties only

serverVars == <<store, changes, unsaid, seq>>
vars == <<serverVars, conn, wire, lastSeq, opened, list, loads, imports, overlay,
          drops, fails, holes>>

\* A load: "first" ones belong to the page, "re" ones to the stream's reopening.
Asked(kind) == [kind |-> kind, served |-> FALSE, snap |-> [f \in Files |-> 0], holes |-> {}]
-----------------------------------------------------------------------------
(* dobjd *)

\* A hole in what the list has been told, and in every load already read.
Marked(ls, why) ==
    [i \in DOMAIN ls |-> IF ls[i].served THEN [ls[i] EXCEPT !.holes = @ \cup {why}] ELSE ls[i]]
Hole(why) == holes' = holes \cup {why} /\ loads' = Marked(loads, why)

\* A settlement, a discard, a rename, a hold: files change, then are announced in
\* turn.  A rename announces the old name's removal and then the new name.
Change(fs) ==
    /\ unsaid = <<>> /\ changes < MaxChanges
    /\ changes' = changes + 1
    /\ \/ /\ Len(fs) = 1
          /\ \E v \in {0, changes + 1} : store' = [store EXCEPT ![fs[1]] = v]
       \/ /\ Len(fs) = 2 /\ store[fs[1]] # 0 /\ store[fs[2]] = 0
          /\ store' = [store EXCEPT ![fs[1]] = 0, ![fs[2]] = changes + 1]
    /\ store' # store
    /\ unsaid' = fs
    /\ UNCHANGED <<seq, conn, wire, lastSeq, opened, list, loads, imports, overlay, drops, fails, holes>>

\* POST /objects/import by the page, up to the summary that answers it.
Import(f) ==
    /\ unsaid = <<>> /\ imports = <<>> /\ overlay = "none"
    /\ store[f] = 0 /\ changes < MaxChanges
    /\ changes' = changes + 1
    /\ store' = [store EXCEPT ![f] = changes + 1]
    /\ unsaid' = <<f>>
    /\ imports' = <<[file |-> f, version |-> changes + 1, late |-> FALSE]>>
    /\ UNCHANGED <<seq, conn, wire, lastSeq, opened, list, loads, overlay, drops, fails, holes>>

\* publish: the event is numbered whoever listens.  A full channel drops its
\* oldest event, which a client that has no number of this stream cannot notice.
Publish ==
    /\ unsaid # <<>>
    /\ unsaid' = Tail(unsaid)
    /\ seq' = seq + 1
    /\ LET e == [seq |-> seq, file |-> Head(unsaid), version |-> store[Head(unsaid)]]
           full == Len(wire) = Capacity
       IN
       IF conn = "off"
       THEN /\ UNCHANGED wire
            /\ IF opened THEN UNCHANGED <<holes, loads>> ELSE Hole("missed")
       ELSE /\ wire' = Append(IF full THEN Tail(wire) ELSE wire, e)
            /\ IF full /\ lastSeq = 0 THEN Hole("missed") ELSE UNCHANGED <<holes, loads>>
    /\ UNCHANGED <<store, changes, conn, lastSeq, opened, list, imports, overlay, drops, fails>>

\* GET /events: the handler subscribes; nothing is replayed.
Subscribe ==
    /\ conn = "off"
    /\ conn' = "subscribed" /\ wire' = <<>>
    /\ UNCHANGED <<serverVars, lastSeq, opened, list, loads, imports, overlay, drops, fails, holes>>

\* GET /objects and GET /actions read the store.
Serve(i) ==
    /\ ~loads[i].served
    /\ loads' = [loads EXCEPT ![i].served = TRUE, ![i].snap = store]
    /\ UNCHANGED <<serverVars, conn, wire, lastSeq, opened, list, imports, overlay, drops, fails, holes>>
-----------------------------------------------------------------------------
(* The page *)

WithLoad(ls, kind) == Append(ls, Asked(kind))
Without(ls, i) == SubSeq(ls, 1, i - 1) \o SubSeq(ls, i + 1, Len(ls))

\* What was read before something newer was shown comes late.
Late(ls) == Marked(ls, "overtaken")

Overtaken(fs, shown) ==
    [i \in DOMAIN imports |->
        [imports[i] EXCEPT !.late = @ \/ (imports[i].file \in fs
                                          /\ shown[imports[i].file] # imports[i].version)]]

\* Every opening but the first loads the list again.
onopen ==
    /\ conn = "subscribed"
    /\ conn' = "open" /\ lastSeq' = 0 /\ opened' = TRUE
    /\ loads' = IF opened THEN WithLoad(loads, "re") ELSE loads
    /\ UNCHANGED <<serverVars, wire, list, imports, overlay, drops, fails, holes>>

Gap_none(s) == FALSE
Gap(s) == lastSeq # 0 /\ s # lastSeq + 1

\* onmessage: a gap loads the list again; the event itself is applied all the
\* same, by applyObjectUpdate or removeObject.
onmessage ==
    /\ conn = "open" /\ wire # <<>>
    /\ LET e == Head(wire)
           late == Late(loads)
       IN
       /\ lastSeq' = e.seq
       /\ list' = [list EXCEPT ![e.file] = e.version]
       /\ loads' = IF Gap(e.seq) THEN WithLoad(late, "re") ELSE late
       /\ imports' = Overtaken({e.file}, [list EXCEPT ![e.file] = e.version])
    /\ wire' = Tail(wire)
    /\ UNCHANGED <<serverVars, conn, opened, overlay, drops, fails, holes>>

\* hydrateData replaces the list with the answer.
Hydrated(i) ==
    /\ loads[i].served
    /\ list' = loads[i].snap
    /\ holes' = loads[i].holes
    /\ loads' = Late(Without(loads, i))
    /\ imports' = Overtaken(Files, loads[i].snap)
    /\ overlay' = IF loads[i].kind = "first" THEN "none" ELSE overlay
    /\ UNCHANGED <<serverVars, conn, wire, lastSeq, opened, drops, fails>>

\* A failed load of the page offers a retry; one the stream prompted is logged.
HydrateFails(i) ==
    /\ fails < MaxFails
    /\ fails' = fails + 1
    /\ \/ /\ loads[i].kind = "first"
          /\ overlay' = "error" /\ loads' = Without(loads, i)
          /\ UNCHANGED holes
       \/ /\ loads[i].kind = "re"
          /\ holes' = holes \cup {"failed"} /\ loads' = Marked(Without(loads, i), "failed")
          /\ UNCHANGED overlay
    /\ UNCHANGED <<serverVars, conn, wire, lastSeq, opened, list, imports, drops>>

Retry ==
    /\ overlay = "error"
    /\ overlay' = "loading" /\ loads' = WithLoad(loads, "first")
    /\ UNCHANGED <<serverVars, conn, wire, lastSeq, opened, list, imports, drops, fails, holes>>

\* importObject shows the answer "before its event arrives".
Imported ==
    /\ imports # <<>>
    /\ list' = [list EXCEPT ![imports[1].file] = imports[1].version]
    /\ holes' = IF imports[1].late THEN holes \cup {"overtaken"} ELSE holes
    /\ loads' = Late(loads)
    /\ imports' = <<>>
    /\ UNCHANGED <<serverVars, conn, wire, lastSeq, opened, overlay, drops, fails>>

\* The connection is lost with what was on it; the browser reconnects.
Drop ==
    /\ conn # "off" /\ drops < MaxDrops
    /\ drops' = drops + 1
    /\ conn' = "off" /\ wire' = <<>>
    /\ IF opened \/ wire = <<>> THEN UNCHANGED <<holes, loads>> ELSE Hole("missed")
    /\ UNCHANGED <<serverVars, lastSeq, opened, list, imports, overlay, fails>>
-----------------------------------------------------------------------------
Init ==
    /\ store \in [Files -> {0, 1}] /\ changes = 1 /\ unsaid = <<>> /\ seq = 1
    /\ conn = "off" /\ wire = <<>> /\ lastSeq = 0 /\ opened = FALSE
    /\ list = [f \in Files |-> 0] /\ loads = <<Asked("first")>> /\ imports = <<>>
    /\ overlay = "loading" /\ drops = 0 /\ fails = 0 /\ holes = {}

Quiet ==
    /\ unsaid = <<>> /\ conn = "open" /\ wire = <<>>
    /\ loads = <<>> /\ imports = <<>> /\ overlay = "none"

Server == Publish \/ (\E i \in DOMAIN loads : Serve(i)) \/ Subscribe
Page == onopen \/ onmessage \/ (\E i \in DOMAIN loads : Hydrated(i)) \/ Imported \/ Retry

Next ==
    \/ \E f \in Files : Change(<<f>>) \/ Import(f)
    \/ \E f, g \in Files : f # g /\ Change(<<f, g>>)
    \/ Server \/ Page \/ Drop
    \/ \E i \in DOMAIN loads : HydrateFails(i)
    \/ Quiet /\ UNCHANGED vars

Spec == Init /\ [][Next]_vars
-----------------------------------------------------------------------------
TypeOK ==
    /\ store \in [Files -> 0..MaxChanges] /\ list \in [Files -> 0..MaxChanges]
    /\ conn \in {"off", "subscribed", "open"} /\ overlay \in {"loading", "error", "none"}
    /\ Len(wire) <= Capacity /\ Len(imports) <= 1
    /\ holes \subseteq {"missed", "overtaken", "failed"}

\* Once everything in flight has arrived the page shows what the daemon has, unless
\* an event passed before the stream's first number, a load or an import answered
\* late, or a reload failed: gaps and reconnects are repaired by loading again.
ListCurrent == Quiet /\ holes = {} => list = store
=============================================================================
