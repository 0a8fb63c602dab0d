-------------------------- MODULE InventoryMetrics --------------------------
(***************************************************************************)
(* The Bitcraft app's inventory total and production rate                  *)
(* (apps/bitcraft/src-tauri/src/metrics.rs), kept from dobjd's list of     *)
(* unspent objects and its numbered events, and dobjd's two ways to        *)
(* announce an object: the settler, within its pass, and a request, which  *)
(* reads the files and publishes what it read.                             *)
(*                                                                         *)
(* Every live object is worth one BIT; the rate is over a window, not      *)
(* divided by it.  Events that are not about objects are left out.         *)
(***************************************************************************)
EXTENDS Naturals, Integers, Sequences, FiniteSets

CONSTANTS
    Files,
    Capacity,                       \* CHANNEL_CAPACITY
    Window,                         \* in ticks of a second
    MaxChanges, MaxFaults, MaxTime

VARIABLES
    store,       \* each object's status on disk
    queues,      \* what the settler and a request are about to publish
    seq,         \* the next event's number
    link,        \* the event stream: "none", "open", "dead"
    wire,        \* events on it
    host,        \* the follower: its step, its objects, the last number, samples
    metrics,     \* the watch channel: NoMetrics or a total and a rate
    time, changes, faults,
    log,         \* history: the totals published since the last snapshot, with times
    holes        \* history: why the follower's objects may be wrong for good

vars == <<store, queues, seq, link, wire, host, metrics, time, changes, faults, log, holes>>
dobjd == <<store, queues, seq, changes>>

Statuses == {"none", "unknown", "pending", "live", "nullified"}
NoMetrics == <<>>
Absent == [f \in Files |-> "none"]
Idle == [pc |-> "idle", objects |-> Absent, sequence |-> 0, samples |-> <<>>]
-----------------------------------------------------------------------------
(* dobjd *)

Said(f, s) == [file |-> f, status |-> s]
Announces(who, es) == queues' = [queues EXCEPT ![who] = es]
Changed(who) == queues[who] = <<>> /\ changes < MaxChanges /\ changes' = changes + 1

\* A pass lands a transaction, with or without an input, and reports both files.
Land(o, i) ==
    /\ Changed("settler")
    /\ store[o] = "pending" /\ (i # o => store[i] = "live")
    /\ store' = [f \in Files |-> IF f = o THEN "live" ELSE IF f = i THEN "nullified" ELSE store[f]]
    /\ \/ Announces("settler", IF i = o THEN <<Said(o, "live")>>
                               ELSE <<Said(o, "live"), Said(i, "nullified")>>)
       \/ i # o /\ Announces("settler", <<Said(i, "nullified"), Said(o, "live")>>)
    /\ UNCHANGED <<seq, link, wire, host, metrics, time, faults, log, holes>>

\* A transaction expires: its output is removed.
Expire(o) ==
    /\ Changed("settler")
    /\ store[o] \in {"unknown", "pending"}
    /\ store' = [store EXCEPT ![o] = "none"]
    /\ Announces("settler", <<Said(o, "none")>>)
    /\ UNCHANGED <<seq, link, wire, host, metrics, time, faults, log, holes>>

\* A request records, submits or holds, then reads the file to announce it:
\* publish_objects, outside the settler's lock.
Request(f) ==
    /\ Changed("request")
    /\ store' = [store EXCEPT ![f] = CASE store[f] = "none" -> "unknown"
                                       [] store[f] = "unknown" -> "pending"
                                       [] OTHER -> store[f]]
    /\ Announces("request", <<Said(f, store'[f])>>)
    /\ UNCHANGED <<seq, link, wire, host, metrics, time, faults, log, holes>>

Pending(q, f) == \E i \in DOMAIN q : q[i].file = f

\* An old status is published after the newer one, and nothing is to follow.
Overtaken(who) ==
    LET e == Head(queues[who]) IN
    /\ e.status # store[e.file]
    /\ \A w \in DOMAIN queues : ~Pending(IF w = who THEN Tail(queues[w]) ELSE queues[w], e.file)

\* EventHub::publish: a full channel drops the oldest event, which a follower
\* that has no number yet cannot notice.
Publish(who) ==
    /\ queues[who] # <<>>
    /\ queues' = [queues EXCEPT ![who] = Tail(@)]
    /\ seq' = seq + 1
    /\ LET e == [seq |-> seq, file |-> Head(queues[who]).file, status |-> Head(queues[who]).status]
           full == Len(wire) = Capacity
       IN  /\ wire' = IF link # "open" THEN wire
                      ELSE Append(IF full THEN Tail(wire) ELSE wire, e)
           /\ holes' = holes
                \cup (IF link = "open" /\ full /\ host.pc \in {"served", "following"} /\ host.sequence = 0
                      THEN {"missed"} ELSE {})
                \cup (IF Overtaken(who) THEN {"overtaken"} ELSE {})
    /\ UNCHANGED <<store, changes, link, host, metrics, time, faults, log>>
-----------------------------------------------------------------------------
(* The rate. *)

Aged(s, now) == Len(s) > 1 /\ now - s[2][1] >= Window

Pruned[s \in Seq(Nat \X Nat), now \in Nat] ==
    IF Aged(s, now) THEN Pruned[Tail(s), now] ELSE s

Sampled(s, now, total) ==
    Pruned[IF s = <<>> \/ s[Len(s)][2] # total THEN Append(s, <<now, total>>) ELSE s, now]

Total(objects) == Cardinality({f \in Files : objects[f] = "live"})

\* publish
Published(objects, last) ==
    LET t == Total(objects)
        s == Sampled(host.samples, time, t)
    IN  /\ metrics' = <<t, t - s[1][2]>>
        /\ host' = [pc |-> "following", objects |-> objects, sequence |-> last, samples |-> s]
        /\ log' = Append(log, <<time, t>>)
-----------------------------------------------------------------------------
(* follow, and the loop around it. *)

\* The stream is opened before the list is asked for.
Connect ==
    /\ host.pc = "idle" /\ link = "none"
    /\ link' = "open" /\ wire' = <<>> /\ log' = <<>> /\ holes' = {}
    /\ host' = [Idle EXCEPT !.pc = "snapshot"]
    /\ UNCHANGED <<dobjd, metrics, time, faults>>

\* GET /objects/unspent reads the files.
Unspent(s) == [f \in Files |-> IF s[f] = "nullified" THEN "none" ELSE s[f]]
Serve ==
    /\ host.pc = "snapshot" /\ link = "open"
    /\ host' = [host EXCEPT !.pc = "served", !.objects = Unspent(store)]
    /\ UNCHANGED <<dobjd, link, wire, metrics, time, faults, log, holes>>

Loaded ==
    /\ host.pc = "served"
    /\ Published(host.objects, 0)
    /\ UNCHANGED <<dobjd, link, wire, time, faults, holes>>

AnyNumber(last, n) == FALSE
Gap(last, n) == last # 0 /\ n # last + 1

\* The lines of one chunk, applied in turn.
Applied(objects, es) ==
    [f \in Files |->
        LET is == {i \in DOMAIN es : es[i].file = f}
            last == CHOOSE i \in is : \A j \in is : j <= i
        IN  IF is = {} THEN objects[f]
            ELSE IF es[last].status = "nullified" THEN "none" ELSE es[last].status]
Gapped(last, es) ==
    \E i \in DOMAIN es : Gap(IF i = 1 THEN last ELSE es[i - 1].seq, es[i].seq)

\* What ends a follow: the metrics are withdrawn and, two seconds later, it starts anew.
Withdraw == metrics' = NoMetrics
LostForGood ==
    /\ host' = Idle /\ Withdraw
    /\ link' = "dead" /\ wire' = <<>> /\ log' = <<>> /\ holes' = {}
Lost ==
    /\ host' = Idle /\ Withdraw
    /\ link' = "none" /\ wire' = <<>> /\ log' = <<>> /\ holes' = {}

Chunk(n) ==
    /\ host.pc = "following" /\ link = "open" /\ n \in 1..Len(wire)
    /\ LET es == SubSeq(wire, 1, n) IN
       IF Gapped(host.sequence, es) THEN Lost
       ELSE /\ wire' = SubSeq(wire, n + 1, Len(wire))
            /\ Published(Applied(host.objects, es), es[n].seq)
            /\ UNCHANGED <<link, holes>>
    /\ UNCHANGED <<dobjd, time, faults>>

\* Every second: refresh_rate.
Tick ==
    /\ time < MaxTime
    /\ time' = time + 1
    /\ IF metrics # NoMetrics /\ host.pc = "following"
       THEN LET s == Sampled(host.samples, time + 1, metrics[1]) IN
            /\ metrics' = <<metrics[1], metrics[1] - s[1][2]>>
            /\ host' = [host EXCEPT !.samples = s]
       ELSE UNCHANGED <<metrics, host>>
    /\ UNCHANGED <<dobjd, link, wire, faults, log, holes>>

\* The connection is lost, with or without a word.
Drop ==
    /\ link = "open" /\ faults < MaxFaults
    /\ faults' = faults + 1
    /\ link' = "dead" /\ wire' = <<>>
    /\ UNCHANGED <<dobjd, host, metrics, time, log, holes>>

\* Closed, no chunk for 35 seconds, or the list does not come.
Notices == link = "dead"
Fails ==
    /\ Notices
    /\ Lost
    /\ UNCHANGED <<dobjd, time, faults>>
-----------------------------------------------------------------------------
Init ==
    /\ store \in [Files -> {"none", "pending", "live"}]     \* of an earlier session
    /\ queues = [settler |-> <<>>, request |-> <<>>] /\ seq = 1
    /\ link = "none" /\ wire = <<>> /\ host = Idle /\ metrics = NoMetrics
    /\ time = 0 /\ changes = 0 /\ faults = 0 /\ log = <<>> /\ holes = {}

\* Everything published has been taken.
Drained ==
    /\ host.pc = "following" /\ link = "open" /\ wire = <<>>
    /\ \A who \in DOMAIN queues : queues[who] = <<>>

Next ==
    \/ \E o, i \in Files : Land(o, i)
    \/ \E f \in Files : Expire(f) \/ Request(f)
    \/ \E who \in DOMAIN queues : Publish(who)
    \/ Connect \/ Serve \/ Loaded \/ (\E n \in 1..Capacity : Chunk(n))
    \/ Tick \/ Drop \/ Fails
    \/ Drained /\ UNCHANGED vars

\* The follower's task runs; what is to be published is.
Fairness ==
    /\ WF_vars(Connect) /\ WF_vars(Serve) /\ WF_vars(Loaded) /\ WF_vars(Fails)
    /\ WF_vars(\E n \in 1..Capacity : Chunk(n))
    /\ \A who \in {"settler", "request"} : WF_vars(Publish(who))

Spec == Init /\ [][Next]_vars /\ Fairness
-----------------------------------------------------------------------------
TypeOK ==
    /\ store \in [Files -> Statuses]
    /\ link \in {"none", "open", "dead"} /\ Len(wire) <= Capacity
    /\ host.pc \in {"idle", "snapshot", "served", "following"}
    /\ host.objects \in [Files -> Statuses \ {"nullified"}]
    /\ metrics # NoMetrics => metrics[1] \in 0..Cardinality(Files)
    /\ host.pc = "idle" <=> link = "none"
    /\ metrics # NoMetrics <=> host.pc = "following"
    /\ holes \subseteq {"missed", "overtaken"}

Agrees == metrics[1] = Total(store) /\ host.objects = Unspent(store)

(* Once the events are through, the total is the inventory's, whatever was  *)
(* published while the list was read, lost in a full channel or cut off     *)
(* (follow, apply_event_line): but for the two holes the next two name.     *)
TotalCurrent == Drained /\ holes = {} => Agrees

(* The rate is the total less the one that stood a window ago, or the first *)
(* since the host last had the whole inventory (Samples::rate).             *)
InEffect(t) ==
    LET old == {i \in DOMAIN log : log[i][1] <= t}
    IN  IF old = {} THEN log[1][2] ELSE log[CHOOSE i \in old : \A j \in old : j <= i][2]
RateIsOfWindow ==
    metrics # NoMetrics => metrics[2] = metrics[1] - InEffect(time - Window)

(* A stream that has died without a word is found out: the metrics do not   *)
(* stand for ever (the 35 seconds of follow).                               *)
LossNoticed == (link = "dead") ~> (metrics = NoMetrics)

(* Metrics come back after every loss.                                      *)
MetricsReturn == (metrics = NoMetrics) ~> (metrics # NoMetrics)

(* "A client can keep its object list current from `object' and             *)
(* `object-removed' alone": publish_objects reads an object and publishes   *)
(* it later, without the settler's lock, so an old status may be the last.  *)
(* "When the host loses track of the inventory, it starts a fresh rate      *)
(* history": events dropped before the first one it takes are not noticed.  *)
=============================================================================
