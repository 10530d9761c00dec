--------------------------- MODULE ResilientClient ---------------------------
(***************************************************************************)
(* One target of ResilientPool (packages/resilient-client): the calls that *)
(* ResilientClient.request takes through its cache, coalescing, opossum    *)
(* breaker, Bottleneck limiter, adaptive limiter and retries, and the      *)
(* shutdown of the pool.                                                   *)
(*                                                                         *)
(* A call has one execution (#executeRequest).  It may outlive its call: a *)
(* stale answer is served before the execution that refreshes it, and the  *)
(* breaker's timeout answers the call and leaves the action running.       *)
(* The promise of a coalesced execution has a finally() nobody looks at:   *)
(* when it fails, that is an unhandled rejection, which ends the process.  *)
(***************************************************************************)
EXTENDS Naturals, Sequences, FiniteSets

CONSTANTS
    Calls,
    Configs,   \* the ResilientClientConfigs to look at: see Config
    None

Config == [cache : BOOLEAN, coalesce : BOOLEAN,
           keyless : SUBSET Calls,  \* calls that are neither GET nor HEAD, the rest ask the same
           budgeted : SUBSET Calls, \* calls made within a request's budget
           signalled : SUBSET Calls, \* calls with an AbortSignal.timeout of their caller's
           fallback : BOOLEAN,      \* there is one
           passthrough4xx : BOOLEAN,
           trips : BOOLEAN,         \* the traffic can reach the breaker's volumeThreshold
           retries : Nat,           \* retry.maxRetries
           concurrent : Nat \ {0},  \* rateLimit.maxConcurrent
           initial : Nat, min : Nat, max : Nat]   \* adaptiveConcurrency

ASSUME ClientAssumption ==
    /\ Configs \subseteq Config /\ None \notin Calls
    /\ \A c \in Configs : 0 < c.min /\ c.min <= c.initial /\ c.initial <= c.max

VARIABLES
    cfg,
    at,       \* where each call is; behind: answered, and the cache is refreshed behind it
    result,   \* what it ended with: a response, or an error
    job,      \* where its execution is
    tries,    \* attempts of it
    spent,    \* the calls whose budget has run out (getRemainingMs)
    expired,  \* the calls whose caller's signal has timed out
    limit, inFlight, waiters,  \* AdaptiveConcurrencyLimiter
    woken,    \* those in acquire() whose promise it has resolved
    breaker,  \* opossum; probe: half open with the one call on its way
    entry,    \* what the cache holds of the key
    flight,   \* #inflightMap: the call whose promise it has
    shut,     \* ResilientPool.shutdown
    process   \* crashing: what handleCrash does before process.exit

limiter == <<limit, inFlight, waiters, woken>>
call == <<at, result, flight, process>>
time == <<spent, expired>>
vars == <<cfg, call, job, tries, time, limiter, breaker, entry, shut>>

\* OutboundError: those that may be tried again (circuit_open, network,
\* retries_exhausted), and those that may not (client_error, shutting_down; and the
\* deadline).
Fatal  == {"fatal", "deadline_exceeded"}
Errors == Fatal \union {"transient"}

Phases == {"none", "fired", "queued", "held", "sent", "backoff", "body"}

TypeOK ==
    /\ cfg \in Configs
    /\ at \in [Calls -> {"new", "lookup", "joined", "own", "behind", "fallback", "over"}]
    /\ result \in [Calls -> Errors \union {"response", None}]
    /\ job \in [Calls -> Phases] /\ tries \in [Calls -> Nat]
    /\ spent \subseteq Calls /\ expired \subseteq Calls /\ woken \subseteq Calls
    /\ limit \in cfg.min .. cfg.max /\ inFlight \in Nat /\ waiters \in Seq(Calls)
    /\ breaker \in {"closed", "open", "halfOpen", "probe"}
    /\ entry \in {"none", "fresh", "stale", "expired"}
    /\ flight \in Calls \union {None}
    /\ shut \in {"up", "draining", "closing", "closed"}
    /\ process \in {"up", "crashing", "gone"}

Init ==
    /\ cfg \in Configs
    /\ at = [c \in Calls |-> "new"] /\ result = [c \in Calls |-> None] /\ job = [c \in Calls |-> "none"]
    /\ tries = [c \in Calls |-> 0] /\ spent = {} /\ expired = {}
    /\ limit = cfg.initial /\ inFlight = 0 /\ waiters = <<>> /\ woken = {}
    /\ breaker = "closed" /\ entry = "none" /\ flight = None /\ shut = "up"
    /\ process = "up"

Holds(c, phases) == job[c] \in phases
Turns(c, phase) == job' = [job EXCEPT ![c] = phase]

\* The jobs Bottleneck has running.
Scheduled == {c \in Calls : Holds(c, {"queued", "held", "sent", "backoff"})}

------------------------------------------------------------------------------
(* Time and the cache's age.                                               *)

BudgetRunsOut(c) ==
    /\ c \in cfg.budgeted \ spent /\ job[c] # "none"
    /\ spent' = spent \union {c}
    /\ UNCHANGED <<cfg, call, job, tries, expired, limiter, breaker, entry, shut>>

\* The signal a caller has put into options, as resilientFetch does.
SignalTimesOut(c) ==
    /\ c \in cfg.signalled \ expired /\ job[c] # "none"
    /\ expired' = expired \union {c}
    /\ UNCHANGED <<cfg, call, job, tries, spent, limiter, breaker, entry, shut>>

\* Past its time an entry stays until it is looked at (MemoryCache), is swept out
\* (evictExpired), or is gone with its EX (ValkeyCache).
Ages ==
    /\ \/ entry = "fresh" /\ entry' \in {"stale", "expired", "none"}
       \/ entry = "stale" /\ entry' \in {"expired", "none"}
       \/ entry = "expired" /\ entry' = "none"
    /\ UNCHANGED <<cfg, call, job, tries, time, limiter, breaker, shut>>

\* resetTimeout.
HalfOpens ==
    /\ breaker = "open" /\ shut # "closed"
    /\ breaker' = "halfOpen"
    /\ UNCHANGED <<cfg, call, job, tries, time, limiter, entry, shut>>

------------------------------------------------------------------------------
(* request(), as far as the execution it starts.                           *)

Keyed(c) == c \notin cfg.keyless /\ (cfg.cache \/ cfg.coalesce)

\* Mutant: a call does not look whether another is on its way.
NeverJoins(c) == FALSE

Joins(c) == Keyed(c) /\ cfg.coalesce /\ flight # None

\* breaker.opened, fire() and limiter.schedule() let the action start.
Fires == breaker \in {"closed", "halfOpen"} /\ shut \in {"up", "draining"}

\* How the promise of c, or of a call that has none, ends: r is thrown, the owner asks
\* its fallback, the calls that joined do not; or it is returned.
Ending(c, r) == IF cfg.fallback /\ at[c] # "behind" /\ r # "response" THEN "fallback" ELSE "over"
Told(c, r)   == result' = [result EXCEPT ![c] = r]
Ends(c, r)   == at' = [at EXCEPT ![c] = Ending(c, r)] /\ Told(c, r)

\* promise.finally(...) with no catch behind it: unhandledRejection.
Rejects(coalesced) == process' = IF coalesced THEN "crashing" ELSE process

\* Everybody that waits for it goes on, it leaves the map, and a failure goes unhandled.
Settles(c, r) ==
    LET joined(d) == at[d] = "joined" /\ flight = c
    IN  /\ Rejects(flight = c /\ r # "response")
        /\ at' = [d \in Calls |-> IF d = c THEN Ending(c, r) ELSE IF joined(d) THEN "over" ELSE at[d]]
        /\ result' = [d \in Calls |-> IF joined(d) \/ (d = c /\ at[c] = "own") THEN r ELSE result[d]]
        /\ flight' = IF flight = c THEN None ELSE flight

Trips == \/ cfg.trips /\ breaker' = "open"
         \/ breaker = "closed" /\ UNCHANGED breaker

\* The breaker is open or has its one call on its way; or the limiter has been stopped,
\* which the breaker takes for a failure.
Refuses  == IF breaker \in {"closed", "halfOpen"} /\ shut = "closing" THEN Trips ELSE UNCHANGED breaker

\* The promise of another call, or #executeRequest: coalescing looks and registers
\* in one go.
Issues(c) ==
    IF Joins(c) THEN /\ at' = [at EXCEPT ![c] = "joined"]
                     /\ UNCHANGED <<result, job, breaker, flight, process>>
    ELSE IF Fires THEN
         /\ at' = [at EXCEPT ![c] = "own"] /\ Turns(c, "fired")
         /\ flight' = IF Keyed(c) /\ cfg.coalesce THEN c ELSE flight
         /\ breaker' = IF breaker = "halfOpen" THEN "probe" ELSE breaker
         /\ UNCHANGED <<result, process>>
    ELSE /\ Ends(c, "transient") /\ Refuses /\ Rejects(Keyed(c) /\ cfg.coalesce)
         /\ UNCHANGED <<job, flight>>

\* ResilientPool.send: shutting down, or the request starts, with the cache if it can.
Begins(c) ==
    /\ at[c] = "new"
    /\ IF shut # "up"
       THEN at' = [at EXCEPT ![c] = "over"] /\ Told(c, "fatal")
            /\ UNCHANGED <<job, breaker, flight, process>>
       ELSE IF Keyed(c) /\ cfg.cache
       THEN at' = [at EXCEPT ![c] = "lookup"] /\ UNCHANGED <<result, job, breaker, flight, process>>
       ELSE Issues(c)
    /\ UNCHANGED <<cfg, tries, time, limiter, entry, shut>>

\* #tryCacheHit: a fresh entry, no entry, or adapter.get failed; one past the stale
\* window is deleted.
Looks(c) ==
    /\ at[c] = "lookup"
    /\ \/ entry = "fresh" /\ Ends(c, "response") /\ UNCHANGED <<job, breaker, flight, entry, process>>
       \/ Issues(c) /\ entry' \in IF entry = "expired" THEN {entry, "none"} ELSE {entry}
    /\ UNCHANGED <<cfg, tries, time, limiter, shut>>

\* #revalidate: the stale entry is served, the execution is on its own.
ServesStale(c) ==
    /\ at[c] = "lookup" /\ entry = "stale" /\ Told(c, "response")
    /\ IF Fires
       THEN /\ at' = [at EXCEPT ![c] = "behind"] /\ Turns(c, "fired")
            /\ breaker' = IF breaker = "halfOpen" THEN "probe" ELSE breaker
       ELSE at' = [at EXCEPT ![c] = "over"] /\ Refuses /\ UNCHANGED job
    /\ UNCHANGED <<cfg, tries, time, limiter, entry, flight, shut, process>>

\* What the fallback returns takes the error's place; null or an error of its own does not.
FallsBack(c) ==
    /\ at[c] = "fallback" /\ at' = [at EXCEPT ![c] = "over"]
    /\ \E r \in {result[c], "response"} : Told(c, r)
    /\ UNCHANGED <<cfg, flight, process, job, tries, time, limiter, breaker, entry, shut>>

------------------------------------------------------------------------------
(* AdaptiveConcurrencyLimiter.                                             *)

Woken(q) == {q[i] : i \in 1 .. Len(q)}

\* Mutant: the waiters are looked after before the slot is given back.
DrainsFirst(n, l) ==
    /\ inFlight' = n /\ limit' = l
    /\ IF inFlight < limit THEN waiters' = <<>> /\ woken' = woken \union Woken(waiters)
                           ELSE UNCHANGED <<waiters, woken>>

\* #drainWaiters: as long as there is room everybody is woken, to look again.
Drains(n, l) ==
    /\ inFlight' = n /\ limit' = l
    /\ IF n < l THEN waiters' = <<>> /\ woken' = woken \union Woken(waiters)
                ELSE UNCHANGED <<waiters, woken>>

Grown   == IF limit < cfg.max THEN limit + 1 ELSE cfg.max
Shrunk  == IF (limit + 1) \div 2 > cfg.min THEN (limit + 1) \div 2 ELSE cfg.min

\* release(rtt, failed), with a backoffFactor of a half.
Releases(failed) ==
    \E l \in IF failed THEN {Shrunk} ELSE {Grown, Shrunk} : Drains(inFlight - 1, l)

\* Mutant: cancel() without #drainWaiters.
CancelsQuietly == inFlight' = inFlight - 1 /\ UNCHANGED <<limit, waiters, woken>>

Cancels == Drains(inFlight - 1, limit)

\* acquire(): a slot, or the end of the queue.
Acquires(c) ==
    /\ woken' = woken \ {c} /\ UNCHANGED limit
    /\ IF inFlight < limit
       THEN inFlight' = inFlight + 1 /\ Turns(c, "held") /\ UNCHANGED waiters
       ELSE waiters' = Append(waiters, c) /\ Turns(c, "queued") /\ UNCHANGED inFlight

------------------------------------------------------------------------------
(* #executeWithRetry, within fire().                                       *)

Attached(c) == at[c] \in {"own", "behind"}

\* fire() has the result, unless the breaker has timed out and looks at it no more.
Succeeds == breaker' = IF breaker \in {"halfOpen", "probe"} THEN "closed" ELSE breaker

Fails(c, error) ==
    /\ Turns(c, "none")
    /\ IF Attached(c) THEN Settles(c, error) /\ Trips ELSE UNCHANGED <<call, breaker>>

\* A 2xx goes into the cache.
Returns(c) ==
    IF ~Attached(c) THEN Turns(c, "none") /\ UNCHANGED <<call, breaker>>
    ELSE /\ Succeeds
         /\ \/ Keyed(c) /\ cfg.cache /\ Turns(c, "body") /\ UNCHANGED call
            \/ Turns(c, "none") /\ Settles(c, "response")

\* After a pause of any length, none included.
Slept(c) == job[c] = "backoff"

\* The loop's head: Bottleneck starts the job, or a back-off is over.
Attempts(c) ==
    /\ \/ job[c] = "fired" /\ Cardinality(Scheduled) < cfg.concurrent
       \/ Slept(c)
    /\ tries' = [tries EXCEPT ![c] = @ + 1]
    /\ IF c \in spent THEN Fails(c, "deadline_exceeded") /\ UNCHANGED limiter
       ELSE Acquires(c) /\ UNCHANGED <<call, breaker>>
    /\ UNCHANGED <<cfg, time, entry, shut>>

Wakes(c) ==
    /\ job[c] = "queued" /\ c \in woken
    /\ Acquires(c)
    /\ UNCHANGED <<cfg, call, tries, time, breaker, entry, shut>>

\* Mutant: what is left is not looked at again after the wait for a slot.
Regardless(c) == TRUE

TimeIsLeft(c) == c \notin spent

\* With a slot in hand: dispatcher.request, on a dispatcher that is not closed.
Sends(c) ==
    /\ job[c] = "held" /\ TimeIsLeft(c) /\ shut \in {"up", "draining"}
    /\ Turns(c, "sent")
    /\ UNCHANGED <<cfg, call, tries, time, limiter, breaker, entry, shut>>

NotSent(c) ==
    /\ job[c] = "held" /\ (c \in spent \/ shut \in {"closing", "closed"})
    /\ IF c \in spent THEN Cancels /\ Fails(c, "deadline_exceeded")
                      ELSE Releases(TRUE) /\ Fails(c, "transient")
    /\ UNCHANGED <<cfg, tries, time, entry, shut>>

\* A response that is not to be retried, nor a 4xx that is not passed through.
Answered(c) ==
    /\ job[c] = "sent"
    /\ Releases(FALSE) /\ Returns(c)
    /\ UNCHANGED <<cfg, tries, time, entry, shut>>

\* A status or an error code to be retried, as long as there are attempts.
Retries(c) ==
    /\ job[c] = "sent" /\ tries[c] <= cfg.retries
    /\ Releases(TRUE) /\ Turns(c, "backoff")
    /\ UNCHANGED <<cfg, call, tries, time, breaker, entry, shut>>

\* isTimeoutAbort: withBudget() joins the budget's signal and the caller's, and what is
\* thrown does not tell which of them it was. Without a budget it is any other error.
TimeoutAbort(c) == c \in cfg.budgeted /\ c \in spent \union expired

\* A 4xx; a status to be retried with no attempts left; a signal that aborts it; an error.
Refused(c) ==
    /\ job[c] = "sent"
    /\ \/ ~cfg.passthrough4xx /\ Releases(FALSE) /\ Fails(c, "fatal")
       \/ TimeoutAbort(c) /\ Releases(TRUE) /\ Fails(c, "deadline_exceeded")
       \/ Releases(TRUE) /\ Fails(c, "transient")
    /\ UNCHANGED <<cfg, tries, time, entry, shut>>

\* The breaker's timeout.
TimesOut(c) ==
    /\ Attached(c) /\ Holds(c, Phases \ {"none", "body"})
    /\ Settles(c, "transient") /\ Trips
    /\ UNCHANGED <<cfg, job, tries, time, limiter, entry, shut>>

\* #bufferAndCache: the body is read, and what has come of it is stored, unless the
\* cache fails.
Stores(c) ==
    /\ job[c] = "body"
    /\ Turns(c, "none") /\ Settles(c, "response")
    /\ entry' \in {entry, "fresh"}
    /\ UNCHANGED <<cfg, tries, time, limiter, breaker, shut>>

------------------------------------------------------------------------------
(* ResilientPool.shutdown and ResilientClient.close.                       *)

ShutdownBegins ==
    /\ shut = "up" /\ shut' = "draining"
    /\ UNCHANGED <<cfg, call, job, tries, time, limiter, breaker, entry>>

\* waitFor: nothing in flight, or timeoutMs have passed.
Drained == shut = "draining" /\ shut' = "closing"
           /\ UNCHANGED <<cfg, call, job, tries, time, limiter, breaker, entry>>

\* dispatcher.close() waits for the responses, limiter.stop() for the jobs it has taken.
JobsAreOver == \A c \in Calls : Holds(c, {"none", "body"})

Closes ==
    /\ shut = "closing" /\ JobsAreOver
    /\ shut' = "closed"
    /\ UNCHANGED <<cfg, call, job, tries, time, limiter, breaker, entry>>

------------------------------------------------------------------------------
Runs(c) ==
    \/ Attempts(c) \/ Wakes(c) \/ Sends(c) \/ NotSent(c)
    \/ Answered(c) \/ Retries(c) \/ Refused(c) \/ Stores(c)
Step(c) ==
    /\ process # "gone"
    /\ Begins(c) \/ Looks(c) \/ ServesStale(c) \/ FallsBack(c) \/ Runs(c)
Timer(c)  == process # "gone" /\ (BudgetRunsOut(c) \/ SignalTimesOut(c) \/ TimesOut(c))
ShutsDown == process # "gone" /\ (Drained \/ Closes)
Others    == process # "gone" /\ (Ages \/ HalfOpens \/ ShutdownBegins)

\* process.exit, after the crash report, whose uploads have a timeout.
Exits ==
    /\ process = "crashing" /\ process' = "gone"
    /\ UNCHANGED <<cfg, at, result, flight, job, tries, time, limiter, breaker, entry, shut>>

Next == (\E c \in Calls : Step(c) \/ Timer(c)) \/ Others \/ ShutsDown \/ Exits

Spec == Init /\ [][Next]_vars

\* The event loop runs what is ready, an attempt ends (undici's timeouts), the
\* shutdown's own timeout passes, and a process that crashes exits.
Fairness == (\A c \in Calls : WF_vars(Step(c))) /\ WF_vars(ShutsDown) /\ WF_vars(Exits)
FairSpec == Spec /\ Fairness

------------------------------------------------------------------------------
(* Properties.                                                             *)

\* The adaptive limiter counts what is out, never lets more than maxLimit out, and
\* forgets nobody: whoever waits has been woken or is in the queue, and nobody is in the
\* queue while there is room.
LimiterIsSound ==
    /\ inFlight = Cardinality({c \in Calls : Holds(c, {"held", "sent"})})
    /\ inFlight <= cfg.max
    /\ \A c \in Calls : Holds(c, {"queued"}) => c \in woken \union Woken(waiters)
    /\ waiters # <<>> => inFlight >= limit

\* Coalesced calls share one execution: there are not two that callers wait for, and a
\* call that joined one has it still before it.
OneInFlight ==
    cfg.coalesce =>
        /\ Cardinality({c \in Calls : at[c] = "own" /\ Keyed(c)}) <= 1
        /\ \A c \in Calls : at[c] = "joined" => flight # None /\ at[flight] = "own"

\* An attempt goes out only within its caller's budget, and none is on the wire or
\* about to be when close() has returned. A caller is told that a deadline has passed
\* only when the one whose execution it waited for had a budget, and ran out of it or
\* was aborted by a timeout of its own; when it is told not to try again nothing of its
\* own is still on its way.
AttemptsKeepToTheirTime ==
    [][/\ \A c \in Calls : job[c] = "held" /\ job'[c] = "sent" => c \notin spent
       /\ shut' = "closed" => \A c \in Calls : job'[c] \in {"none", "body"}
       /\ \A c \in Calls : result'[c] # result[c] =>
             /\ result'[c] = "deadline_exceeded" =>
                   TimeoutAbort(IF at[c] = "joined" THEN flight ELSE c)
             /\ result'[c] \in Fatal => job'[c] = "none"]_vars

\* Every call is answered, its execution ends, and a shutdown returns, unless the
\* process exits first; and that it does only where calls are coalesced.
EverythingSettles ==
    /\ \A c \in Calls : <>((at[c] = "over" /\ job[c] = "none") \/ process = "gone")
    /\ shut = "draining" ~> (shut = "closed" \/ process = "gone")
    /\ [](process # "up" => cfg.coalesce)
=============================================================================
