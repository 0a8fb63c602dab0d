------------------------------ MODULE MCDobjd -------------------------------
(***************************************************************************)
(* The daemon's runs and retries, and its settings, for TLC.  A behaviour  *)
(* is one of a single part, named by `part'; what belongs to the other     *)
(* stays as it starts.                                                     *)
(***************************************************************************)
EXTENDS Naturals, TLC

CONSTANTS t0, t1, t2, v1, w1, w2

VARIABLES
    part,
    rec, lives, told, faults, crashes, run, left, queue, lagged, pc, copy, lock, deleted, pass,
    phase, syncing, asked, out, gone, busy, due, permit, published, retry, view, vqueue, vlagged,
    up, file, port, server, holder, cpu, at, req, spare

daemon == <<rec, lives, told, faults, crashes, run, left, queue, lagged, pc, copy, lock, deleted,
            pass, phase, syncing, asked, out, gone, busy, due, permit, published, retry, view,
            vqueue, vlagged>>
settings == <<up, file, port, server, holder, cpu, at, req, spare>>
vars == <<part, daemon, settings>>
-----------------------------------------------------------------------------
\* One transaction with everything that can be asked for it; one that a client
\* mirrors; and two, exchangeable, that compete for the retries.
Runs == INSTANCE Dobjd WITH Txs <- {t0}, Viewers <- {}, Capacity <- 1, MaxRetries <- 1,
    Preflight <- 1, MaxLives <- 1, MaxFaults <- 1, MaxCrashes <- 1,
    Requests <- {"submit", "delete", "sync"}
Mirror == INSTANCE Dobjd WITH Txs <- {t0}, Viewers <- {v1}, Capacity <- 1, MaxRetries <- 1,
    Preflight <- 0, MaxLives <- 1, MaxFaults <- 0, MaxCrashes <- 0, Requests <- {"delete"}
Retries == INSTANCE Dobjd WITH Txs <- {t1, t2}, Viewers <- {}, Capacity <- 1, MaxRetries <- 1,
    Preflight <- 0, MaxLives <- 1, MaxFaults <- 0, MaxCrashes <- 0, Requests <- {}

Exchangeable == Permutations({t1, t2})

\* Writes of the settings, one after the other.
Serial == INSTANCE McpSettings WITH Writers <- {w1, w2}, Kinds <- {"put"}, Overlap <- FALSE,
    MaxKills <- 1, MaxTaken <- 1, lock <- holder, pc <- at, left <- spare

Init ==
    /\ part \in {"runs", "mirror", "retries", "serial"}
    /\ CASE part = "mirror" -> Mirror!Init
         [] part = "retries" -> Retries!Init
         [] OTHER -> Runs!Init
    /\ Serial!Init
    /\ part # "serial" => file = [mcp |-> "off", cpu |-> 1]

Next ==
    \/ part = "runs" /\ Runs!Next /\ UNCHANGED <<part, settings>>
    \/ part = "mirror" /\ Mirror!Next /\ UNCHANGED <<part, settings>>
    \/ part = "retries" /\ Retries!Next /\ UNCHANGED <<part, settings>>
    \/ part = "serial" /\ Serial!Next /\ UNCHANGED <<part, daemon>>

Spec == Init /\ [][Next]_vars
-----------------------------------------------------------------------------
(* The properties are those of the parts, whose modules say what they mean.  *)

\* A finished run agrees with the record (follow of runs.rs).
RunTruthful ==
    /\ part = "runs" => Runs!TypeOK /\ Runs!RunTruthful
    /\ part = "mirror" => Mirror!TypeOK

\* The loop never sleeps on an open record (run_loop); retries are bounded and
\* only of stored attempts (SubmissionRetries); and saved settings are in effect
\* (put_settings).
NeverSleepsOnOpen ==
    /\ part = "runs" => Runs!NeverSleepsOnOpen
    /\ part = "retries" => Retries!RetriesBounded
    /\ part = "serial" => Serial!TypeOK /\ Serial!InEffect
=============================================================================
