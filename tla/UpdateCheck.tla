---------------------------- MODULE UpdateCheck -----------------------------
(***************************************************************************)
(* How the CLI learns of a newer release: the notice printed by            *)
(* `dobj start' and `dobj status', and `dobj update --check', share a      *)
(* cache file that throttles their requests.  Tags are numbered in release *)
(* order; the clock counts hours.                                          *)
(***************************************************************************)
EXTENDS Naturals, FiniteSetsExt

CONSTANTS
    Calls,       \* commands that check, at most one of each at a time
    Passive,     \* the ones that only print a notice
    LastTag,     \* bound on the releases
    Hours,       \* bound on the clock
    UPDATE_CHECK_INTERVAL, UPDATE_RETRY_AFTER_FAILURE

VARIABLES
    clock,      \* the hour; it starts long after the epoch
    published,  \* the hour each release was published, or Never
    cache,      \* the contents of update-check.json, or NoCache
    call,       \* the calls of resolve_latest_cached
    failed      \* the hours in which a fetch that failed began

vars == <<clock, published, cache, call, failed>>

Tags == 1 .. LastTag
NoTag == 0
Start == UPDATE_CHECK_INTERVAL
Never == Start + Hours + 1
NoCache == [checked_at |-> Never, latest |-> NoTag, last_attempt |-> Never]
DefaultCache == [checked_at |-> 0, latest |-> NoTag, last_attempt |-> 0]

\* The newest release published by hour h.
Released(h) == Max({t \in Tags : published[t] <= h} \cup {NoTag})

\* Whether ts is less than window before now; a clock set back counts.
within(ts, now, window) == ts + window > now

Done(now, tag) == [pc |-> "done", now |-> now, cached |-> NoCache, tag |-> tag]
Fresh == Done(Start, NoTag)

\* The cache is read; a notice makes do with it while it is recent, or while a
\* failed attempt is.
resolve_latest_cached(p) ==
    /\ call[p].pc = "done"
    /\ call' = [call EXCEPT ![p] =
          IF /\ p \in Passive /\ cache # NoCache
             /\ \/ within(cache.checked_at, clock, UPDATE_CHECK_INTERVAL)
                \/ within(cache.last_attempt, clock, UPDATE_RETRY_AFTER_FAILURE)
          THEN Done(clock, cache.latest)
          ELSE [pc |-> "fetch", now |-> clock, cached |-> cache, tag |-> NoTag]]
    /\ UNCHANGED <<clock, published, cache, failed>>

\* The release host answers, and the cache is replaced.
Fetched(p) ==
    /\ call[p].pc = "fetch" /\ Released(clock) # NoTag
    /\ LET tag == Released(clock) IN
          /\ cache' = [checked_at |-> call[p].now, latest |-> tag, last_attempt |-> call[p].now]
          /\ call' = [call EXCEPT ![p] = Done(call[p].now, tag)]
    /\ UNCHANGED <<clock, published, failed>>

\* It does not: what was read is written back with the attempt's time.
FetchFailed(p) ==
    /\ call[p].pc = "fetch"
    /\ LET prev == IF call[p].cached = NoCache THEN DefaultCache ELSE call[p].cached IN
          /\ cache' = [prev EXCEPT !.last_attempt = call[p].now]
          /\ call' = [call EXCEPT ![p] = Done(call[p].now, prev.latest)]
    /\ failed' = failed \cup {call[p].now}
    /\ UNCHANGED <<clock, published>>

\* A write that does not complete leaves a file that does not parse.
WriteFails(p) ==
    /\ call[p].pc = "fetch" /\ Released(clock) # NoTag
    /\ cache' = NoCache
    /\ call' = [call EXCEPT ![p] = Done(call[p].now, Released(clock))]
    /\ UNCHANGED <<clock, published, failed>>

\* A fetch is bounded by seconds: it may see the hour change once.
Tick ==
    /\ \A p \in Calls : call[p].pc = "fetch" => call[p].now = clock
    /\ clock < Start + Hours /\ clock' = clock + 1
    /\ UNCHANGED <<published, cache, call, failed>>

Publish ==
    /\ \E t \in Tags : /\ published[t] = Never /\ \A u \in 1 .. t - 1 : published[u] # Never
                       /\ published' = [published EXCEPT ![t] = clock]
    /\ UNCHANGED <<clock, cache, call, failed>>

Init ==
    /\ clock = Start /\ cache = NoCache /\ failed = {}
    /\ published = [t \in Tags |-> Never]
    /\ call = [p \in Calls |-> Fresh]

Next ==
    \/ \E p \in Calls : resolve_latest_cached(p) \/ Fetched(p) \/ FetchFailed(p) \/ WriteFails(p)
    \/ Tick \/ Publish

Spec == Init /\ [][Next]_vars
-----------------------------------------------------------------------------
\* A check never answers with a tag more than UPDATE_CHECK_INTERVAL out of date,
\* unless a fetch failed within the retry window (or, for `--check', failed just
\* now), even when commands share the cache.
AnswersFresh ==
    \A p \in Calls :
        call[p].pc = "done" =>
            \/ call[p].tag >= Released(call[p].now - UPDATE_CHECK_INTERVAL)
            \/ \E f \in failed :
                  f <= call[p].now /\ within(f, call[p].now, UPDATE_RETRY_AFTER_FAILURE)
=============================================================================
