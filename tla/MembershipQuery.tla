-------------------------- MODULE MembershipQuery ---------------------------
(***************************************************************************)
(* The driver asks the synchronizer which objects were created and which   *)
(* nullifiers are on chain (fetch_membership_with_nullifiers, in batches)  *)
(* and for the grounding of a transaction's inputs                         *)
(* (fetch_grounding_witness), while the synchronizer commits and rolls     *)
(* back slots.  An answer takes the head and the created index from one    *)
(* Postgres snapshot, and then reads the containers at that head's roots.  *)
(*                                                                         *)
(* chain[n] is the state derived at block n; the Synchronizer module       *)
(* models how it gets there.                                               *)
(***************************************************************************)
EXTENDS Naturals, Sequences

CONSTANTS
    Objs, Nulls,          \* object commitments and nullifiers
    Queries,              \* what is asked: pairs of a sequence of Objs and one of Nulls
    HASH_BATCH_LIMIT,     \* of the client
    MAX_HASH_QUERY_ITEMS, \* of the server
    MaxBlocks, MaxRollbacks, MaxFails   \* bounds

VARIABLES
    chain,     \* Postgres and RocksDB: the states derived, by block
    index,     \* Postgres: created_index, 0 where there is no row
    query,     \* the driver's query, with what it has gathered
    request,   \* the request under way and what the server read for it
    rollbacks, fails

vars == <<chain, index, query, request, rollbacks, fails>>

Contents(s) == {s[k] : k \in DOMAIN s}
EmptyState == [created |-> <<>>, nullifiers |-> {}]
AtHead == IF chain = <<>> THEN EmptyState ELSE chain[Len(chain)]
-----------------------------------------------------------------------------
(* The synchronizer: a slot's rows and its created_index rows are one      *)
(* transaction.                                                            *)

\* A slot creates an object, nullifies one, or does neither.
commit_slot ==
    /\ Len(chain) < MaxBlocks
    /\ \/ chain' = Append(chain, AtHead) /\ UNCHANGED index
       \/ \E o \in Objs \ Contents(AtHead.created) :
             /\ chain' = Append(chain, [AtHead EXCEPT !.created = Append(@, o)])
             /\ index' = [index EXCEPT ![o] = Len(AtHead.created) + 1]
       \/ \E n \in Nulls \ AtHead.nullifiers :
             /\ chain' = Append(chain, [AtHead EXCEPT !.nullifiers = @ \cup {n}])
             /\ UNCHANGED index
    /\ UNCHANGED <<query, request, rollbacks, fails>>

\* Later index rows go with the slots.
rollback_to_slot ==
    /\ rollbacks < MaxRollbacks
    /\ \E keep \in 1 .. Len(chain) - 1 :
       /\ chain' = SubSeq(chain, 1, keep)
       /\ index' = [o \in Objs |->
                       IF index[o] > Len(chain[keep].created) THEN 0 ELSE index[o]]
    /\ rollbacks' = rollbacks + 1
    /\ query' = [query EXCEPT !.rolled = TRUE]
    /\ UNCHANGED <<request, fails>>
-----------------------------------------------------------------------------
(* The driver *)

\* `at' and `then' are how many of objs and nulls have been asked for; `block' is
\* the oldest head of an answer.  `rolled' and `first' are for the properties: has
\* the chain been rolled back since the query began, and the head it began at.
NoQuery == [pc |-> "idle", kind |-> "none", objs |-> <<>>, nulls |-> <<>>, at |-> 0, then |-> 0,
            created |-> {}, onChain |-> {}, block |-> 0, rolled |-> FALSE, first |-> EmptyState]
NoRequest == [pc |-> "none", objs |-> <<>>, nulls |-> <<>>, head |-> EmptyState, block |-> 0,
              indices |-> [o \in Objs |-> 0]]

Begin ==
    /\ query.pc \in {"idle", "done", "unsynced", "error"}
    /\ \E q \in Queries, kind \in {"membership", "grounding"} :
       query' = [NoQuery EXCEPT !.pc = "ask", !.kind = kind, !.objs = q[1],
                    !.nulls = IF kind = "grounding" THEN <<>> ELSE q[2], !.first = AtHead]
    /\ UNCHANGED <<chain, index, request, rollbacks, fails>>

Smaller(a, b) == IF a < b THEN a ELSE b
obj_take == Smaller(Len(query.objs) - query.at, HASH_BATCH_LIMIT)
null_take == Smaller(Len(query.nulls) - query.then, HASH_BATCH_LIMIT - obj_take)

\* The next batch of fetch_membership_with_nullifiers.
Batch ==
    [NoRequest EXCEPT !.objs = SubSeq(query.objs, query.at + 1, query.at + obj_take),
                      !.nulls = SubSeq(query.nulls, query.then + 1, query.then + null_take)]

\* A grounding asks for all of its inputs at once.
fetch_grounding_witness == [NoRequest EXCEPT !.objs = query.objs]

Ask ==
    /\ query.pc = "ask" /\ query' = [query EXCEPT !.pc = "wait"]
    /\ request' = [(IF query.kind = "grounding" THEN fetch_grounding_witness ELSE Batch)
                      EXCEPT !.pc = "asked"]
    /\ UNCHANGED <<chain, index, rollbacks, fails>>

\* A request or its answer is lost: the whole query is an error.
Lost ==
    /\ query.pc = "wait" /\ fails < MaxFails /\ fails' = fails + 1
    /\ query' = [query EXCEPT !.pc = "error"] /\ request' = NoRequest
    /\ UNCHANGED <<chain, index, rollbacks>>
-----------------------------------------------------------------------------
(* The server *)

ensure_membership_query_limit == Len(request.objs) + Len(request.nulls) <= MAX_HASH_QUERY_ITEMS

\* Too many items (400), or no genesis state yet (503).
Refuse ==
    /\ request.pc = "asked" /\ (~ensure_membership_query_limit \/ chain = <<>>)
    /\ query' = [query EXCEPT !.pc = "error"] /\ request' = NoRequest
    /\ UNCHANGED <<chain, index, rollbacks, fails>>

slot_state_at_head_with_created_indices ==
    /\ request.pc = "asked" /\ ensure_membership_query_limit /\ chain # <<>>
    /\ request' = [request EXCEPT !.pc = "pinned", !.head = AtHead, !.block = Len(chain),
                                  !.indices = index]
    /\ UNCHANGED <<chain, index, query, rollbacks, fails>>

\* The leaf at the index authenticates it.
created_exists_for ==
    {o \in Contents(request.objs) :
        LET k == request.indices[o] IN k \in DOMAIN request.head.created /\ request.head.created[k] = o}
nullifier_exists_batch == Contents(request.nulls) \cap request.head.nullifiers

load_membership ==
    [created |-> created_exists_for, onChain |-> nullifier_exists_batch, block |-> request.block]

\* An answer to a batch, as the driver gathers it.
Gathered(answer) ==
    LET q == [query EXCEPT !.created = @ \cup answer.created, !.onChain = @ \cup answer.onChain,
                           !.block = IF @ = 0 THEN answer.block ELSE Smaller(@, answer.block),
                           !.at = @ + Len(request.objs), !.then = @ + Len(request.nulls)]
    IN [q EXCEPT !.pc = IF q.at >= Len(q.objs) /\ q.then >= Len(q.nulls) THEN "done" ELSE "ask"]

post_state_membership ==
    /\ request.pc = "pinned" /\ query.kind = "membership"
    /\ query' = Gathered(load_membership) /\ request' = NoRequest
    /\ UNCHANGED <<chain, index, rollbacks, fails>>

\* A requested object without a proof is not yet synchronized.
collect_created_proofs(proofs) ==
    [query EXCEPT !.created = proofs, !.block = request.block,
                  !.pc = IF Contents(query.objs) \subseteq proofs THEN "done" ELSE "unsynced"]

post_grounding_witness ==
    /\ request.pc = "pinned" /\ query.kind = "grounding"
    /\ query' = collect_created_proofs(created_exists_for) /\ request' = NoRequest
    /\ UNCHANGED <<chain, index, rollbacks, fails>>

Init ==
    /\ chain = <<>> /\ index = [o \in Objs |-> 0] /\ query = NoQuery /\ request = NoRequest
    /\ rollbacks = 0 /\ fails = 0

Next ==
    \/ commit_slot \/ rollback_to_slot
    \/ Begin \/ Ask \/ Lost
    \/ Refuse \/ slot_state_at_head_with_created_indices \/ post_state_membership
    \/ post_grounding_witness

Spec == Init /\ [][Next]_vars
-----------------------------------------------------------------------------
TypeOK ==
    /\ query.pc \in {"idle", "ask", "wait", "done", "unsynced", "error"}
    /\ request.pc \in {"none", "asked", "pinned"} /\ (request.pc = "none" <=> query.pc # "wait")
    /\ query.at <= Len(query.objs) /\ query.then <= Len(query.nulls) /\ query.block <= MaxBlocks
    /\ Len(chain) <= MaxBlocks /\ index \in [Objs -> 0 .. MaxBlocks]

\* What the batches together say is true of the block they are said of, unless the
\* chain was rolled back meanwhile: all that is there at the oldest head is
\* reported, and what is reported is there now (SynchronizerMembership).
MembershipSound ==
    query.pc = "done" /\ query.kind = "membership" /\ ~query.rolled =>
        /\ Contents(query.objs) \cap Contents(chain[query.block].created) \subseteq query.created
        /\ query.created \subseteq Contents(query.objs) \cap Contents(AtHead.created)
        /\ Contents(query.nulls) \cap chain[query.block].nullifiers \subseteq query.onChain
        /\ query.onChain \subseteq Contents(query.nulls) \cap AtHead.nullifiers

\* Inputs that were created before the query began are grounded, whatever is
\* committed meanwhile and also after a rollback before the query: an index row is
\* never behind the head it is read with (slot_state_at_head_with_created_indices).
InputsGround ==
    query.pc = "unsynced" /\ ~query.rolled =>
        ~(Contents(query.objs) \subseteq Contents(query.first.created))

\* No batch of the driver is refused for its size (HASH_BATCH_LIMIT).
BatchesFit == request.pc = "asked" /\ query.kind = "membership" => ensure_membership_query_limit
=============================================================================
