----------------------------- MODULE MCServices -----------------------------
(***************************************************************************)
(* The relayer, and the daemon's settings under requests that overlap, for *)
(* TLC.  A behaviour is one of a single part, named by `part'; what        *)
(* belongs to the other stays as it starts.                                *)
(***************************************************************************)
EXTENDS Naturals

CONSTANTS j1, j2, NoJob, w1, w2

VARIABLES
    part,
    row, order, phase, id, hand, use, offer, got, lapse, txs, base, served, faults, evictions,
    up, file, port, server, lock, cpu, pc, req, left

relayer == <<row, order, phase, id, hand, use, offer, got, lapse, txs, base, served, faults,
             evictions>>
settings == <<up, file, port, server, lock, cpu, pc, req, left>>
vars == <<part, relayer, settings>>
-----------------------------------------------------------------------------
\* Two jobs; one whose passes take time, while the network's fees double between
\* two requests, or stay; and one that must end.
Faults == INSTANCE Relayer WITH Jobs <- {j1, j2}, MaxAttempts <- 2, RetryInitial <- 1,
    RetryMax <- 2, Poll <- 1, Timeout <- 2, BumpAfter <- 1, BumpPct <- 100, BumpMax <- 1,
    NetFees <- {<<2, 1>>}, BlobFee <- 3, MaxFaults <- 1, MaxEvictions <- 1, MaxLapse <- 0,
    MaxLate <- 0, MaxTime <- 2
Slow == INSTANCE Relayer WITH Jobs <- {j1}, MaxAttempts <- 2, RetryInitial <- 1,
    RetryMax <- 2, Poll <- 1, Timeout <- 3, BumpAfter <- 1, BumpPct <- 100, BumpMax <- 2,
    NetFees <- {<<2, 1>>, <<5, 2>>}, BlobFee <- 3, MaxFaults <- 1, MaxEvictions <- 1,
    MaxLapse <- 1, MaxLate <- 1, MaxTime <- 3
Ending == INSTANCE Relayer WITH Jobs <- {j1}, MaxAttempts <- 2, RetryInitial <- 1,
    RetryMax <- 2, Poll <- 1, Timeout <- 3, BumpAfter <- 1, BumpPct <- 100, BumpMax <- 1,
    NetFees <- {<<2, 1>>}, BlobFee <- 3, MaxFaults <- 2, MaxEvictions <- 1, MaxLapse <- 1,
    MaxLate <- 1, MaxTime <- 3

\* The configurations are ones load_config accepts, on a clock of whole seconds.
ASSUME
    /\ Faults!load_config /\ Slow!load_config /\ Ending!load_config
    /\ Faults!Clock /\ Slow!Clock /\ Ending!Clock

Busy == INSTANCE McpSettings WITH Writers <- {w1, w2}, Kinds <- {"put", "mcp"}, Overlap <- TRUE,
    MaxKills <- 0, MaxTaken <- 1

Init ==
    /\ part \in {"faults", "slow", "ending", "busy"}
    /\ IF part = "faults" THEN Faults!Init ELSE Slow!Init
    /\ Busy!Init
    /\ part # "busy" => file = [mcp |-> "off", cpu |-> 1]

Next ==
    \/ part = "faults" /\ Faults!Next /\ UNCHANGED <<part, settings>>
    \/ part = "slow" /\ Slow!Next /\ UNCHANGED <<part, settings>>
    \/ part = "ending" /\ Ending!Next /\ UNCHANGED <<part, settings>>
    \/ part = "busy" /\ Busy!Next /\ UNCHANGED <<part, relayer>>

\* The fairness of the modules, for the part that runs.
On(p, A) == part = p /\ A
Fairness ==
    /\ WF_relayer(On("ending", Ending!Worker)) /\ WF_relayer(On("ending", Ending!Start))
    /\ WF_relayer(On("ending", Ending!Tick)) /\ WF_relayer(On("ending", Ending!Serve))
    /\ \A x \in {w1, w2} :
          /\ WF_settings(On("busy", \/ Busy!Load(x) \/ Busy!Truncate(x) \/ Busy!Write(x)
                                    \/ Busy!Level(x) \/ Busy!AsWanted(x) \/ Busy!Enable(x)
                                    \/ Busy!Cancel(x)))
          /\ WF_settings(On("busy", Busy!Drained(x, TRUE)))

Spec == Init /\ [][Next]_vars /\ Fairness
-----------------------------------------------------------------------------
(* The properties are those of the parts, whose modules say what they mean.  *)

\* A payload uses a nonce per stored attempt (send_queued_job).
NoncesAccounted ==
    /\ part = "faults" => Faults!TypeOK /\ Faults!NoncesAccounted
    /\ part = "ending" => Ending!TypeOK

\* A fee bump replaces a transaction of its own job (try_fee_bump), with caps that
\* double those of the pool's transaction (bumped_fees).
ReplacesOwn ==
    /\ part = "faults" => Faults!ReplacesOwn
    /\ part = "slow" => Slow!BumpReplaces

\* A confirmed job names its mined transaction (poll_submitted_job).
ConfirmedIsMined ==
    /\ part = "slow" => Slow!ConfirmedIsMined
    /\ part = "ending" => Ending!ConfirmedIsMined

\* Rows, attempts and hashes are not forgotten (insert_job, update_job).
HistoryKept == [][part = "slow" => Slow!KeepsHistory]_relayer

\* With a receipt timeout every job ends (poll_submitted_job).  Every write of the
\* settings is answered (SHUTDOWN_GRACE), and enabling MCP never runs into the
\* daemon's own port (McpRuntime::apply).
JobsEnd ==
    /\ part = "ending" => Ending!JobsEnd
    /\ part = "busy" => Busy!AnswerComes
    /\ [](part = "busy" => Busy!NoSelfConflict)
=============================================================================
