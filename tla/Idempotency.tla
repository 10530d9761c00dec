----------------------------- MODULE Idempotency -----------------------------
(***************************************************************************)
(* IdempotencyInterceptor (packages/idempotency): the HTTP requests that   *)
(* carry one Idempotency-Key, on any replica, and the one entry the store  *)
(* (Valkey, or the table idempotency_keys) has for that key.               *)
(*                                                                         *)
(* Every call to the store and the handler is a step of its own, so the    *)
(* requests interleave between them.  A request whose budget is spent      *)
(* (HTTP_REQUEST_TIMEOUT_MS) sends nothing more to the store: the call is  *)
(* rejected on the spot.  A call that is rejected later may have been sent *)
(* and then still lands, whenever that may be.                             *)
(***************************************************************************)
EXTENDS Naturals, FiniteSets

CONSTANTS
    Requests,            \* the requests with this user and this key
    Bodies,              \* what a fingerprint tells apart: method, path and body
    MaxFaults,           \* bound: failed calls, lost COMMIT answers, crashes, results forgotten
                         \* and locks that expire beneath their request
    Nobody               \* the `by` of an entry no request wrote

ASSUME IdempotencyAssumption ==
    MaxFaults \in Nat /\ Nobody \notin Requests

VARIABLES
    body,      \* what each request asks for
    pc,        \* the call each request waits for, or how it ended
    entry,     \* the store's entry of the key
    late,      \* writes the interceptor gave up on that may still reach the store
    answer,    \* the request whose handler's result a client got
    executed,  \* requests whose handler committed its transaction
    spent,     \* requests whose budget has run out
    evictors,  \* history: requests that found an entry they could not parse
    disturbed, \* history: has a late write reached the store, or a lock expired too early
    faults

vars == <<body, pc, entry, late, answer, executed, spent, evictors, disturbed, faults>>

Free      == [kind |-> "free", by |-> Nobody]
Corrupt   == [kind |-> "corrupt", by |-> Nobody]
Lock(r)   == [kind |-> "lock", by |-> r]
Result(r) == [kind |-> "result", by |-> r]

Calls   == {"get", "evict", "acquire", "save", "release"}
Writes  == Calls \ {"get"}
Working == {"running", "unguarded"}
Ended   == {"conflict", "replayed", "answered", "failed", "dead"}
Holding == {"running", "save", "release"}

TypeOK ==
    /\ body \in [Requests -> Bodies]
    /\ pc \in [Requests -> Calls \union Working \union Ended]
    /\ entry \in [kind : {"free", "corrupt", "lock", "result"}, by : Requests \union {Nobody}]
    /\ entry.kind \in {"lock", "result"} <=> entry.by \in Requests
    /\ late \subseteq Requests \X Writes
    /\ answer \in [Requests -> Requests \union {Nobody}]
    /\ executed \subseteq Requests /\ spent \subseteq Requests /\ evictors \subseteq Requests
    /\ disturbed \in BOOLEAN
    /\ faults \in 0 .. MaxFaults

\* A release that changed the cached entry's schema leaves entries it cannot parse.
Init ==
    /\ body \in [Requests -> Bodies]
    /\ pc = [r \in Requests |-> "get"]
    /\ entry \in {Free, Corrupt}
    /\ late = {} /\ executed = {} /\ spent = {} /\ evictors = {}
    /\ answer = [r \in Requests |-> Nobody]
    /\ disturbed = FALSE
    /\ faults = 0

Fault == faults < MaxFaults /\ faults' = faults + 1

\* r's call of the store returns, and r goes on to `next`.
Returns(r, call, next) ==
    /\ pc[r] = call /\ r \notin spent
    /\ pc' = [pc EXCEPT ![r] = next]
    /\ UNCHANGED <<body, late, executed, spent, disturbed, faults>>

------------------------------------------------------------------------------
(* Step 1: is there an entry for the key?                                  *)

FindsNothing(r) ==
    /\ entry.kind = "free"
    /\ Returns(r, "get", "acquire")
    /\ UNCHANGED <<entry, answer, evictors>>

FindsLock(r) ==
    /\ entry.kind = "lock"
    /\ Returns(r, "get", "conflict")
    /\ UNCHANGED <<entry, answer, evictors>>

\* Mutant: the fingerprint is not compared.
SameKey(r) == TRUE

SameRequest(r) == body[entry.by] = body[r]

\* Mutant: an entry of a different request is taken for a stale one.
EvictsOthers(r) ==
    /\ entry.kind = "result"
    /\ Returns(r, "get", IF SameRequest(r) THEN "replayed" ELSE "evict")
    /\ answer' = IF SameRequest(r) THEN [answer EXCEPT ![r] = entry.by] ELSE answer
    /\ UNCHANGED <<entry, evictors>>

FindsResult(r) ==
    /\ entry.kind = "result"
    /\ Returns(r, "get", IF SameRequest(r) THEN "replayed" ELSE "conflict")
    /\ answer' = IF SameRequest(r) THEN [answer EXCEPT ![r] = entry.by] ELSE answer
    /\ UNCHANGED <<entry, evictors>>

FindsCorrupt(r) ==
    /\ entry.kind = "corrupt"
    /\ Returns(r, "get", "evict")
    /\ evictors' = evictors \union {r}
    /\ UNCHANGED <<entry, answer>>

\* del: whatever the entry is by now.
Evicts(r) ==
    /\ Returns(r, "evict", "acquire")
    /\ entry' = Free
    /\ UNCHANGED <<answer, evictors>>

(* Step 2: the lock, SET NX EX.                                            *)

\* Mutant: a plain SET.
AnyEntry == TRUE

EntryIsFree == entry.kind = "free"

Acquires(r) ==
    /\ EntryIsFree
    /\ Returns(r, "acquire", "running")
    /\ entry' = Lock(r)
    /\ UNCHANGED <<answer, evictors>>

\* Mutant: the lock is released whichever way the request ends.
LosesAndReleases(r) ==
    /\ entry.kind # "free"
    /\ Returns(r, "acquire", "release")
    /\ UNCHANGED <<entry, answer, evictors>>

LosesTheRace(r) ==
    /\ entry.kind # "free"
    /\ Returns(r, "acquire", "conflict")
    /\ UNCHANGED <<entry, answer, evictors>>

------------------------------------------------------------------------------
(* Step 3: the handler, with or without the lock, and what follows it.  A   *)
(* budget that has run out shows at the next call: it is rejected unsent,   *)
(* and so are all that follow, the handler's COMMIT and the clean-up too.   *)

AfterSuccess(r) == IF pc[r] = "running" THEN "save" ELSE "answered"
AfterError(r)   == IF pc[r] = "running" THEN "release" ELSE "failed"

HandlerSucceeds(r) ==
    /\ pc[r] \in Working /\ r \notin spent
    /\ executed' = executed \union {r}
    /\ answer' = [answer EXCEPT ![r] = r]
    /\ pc' = [pc EXCEPT ![r] = AfterSuccess(r)]
    /\ UNCHANGED <<body, entry, late, spent, evictors, disturbed, faults>>

\* A domain error, a failed statement, or the budget ran out in the handler.
HandlerFails(r) ==
    /\ pc[r] \in Working
    /\ pc' = [pc EXCEPT ![r] = AfterError(r)]
    /\ spent' \in {spent, spent \union {r}}
    /\ UNCHANGED <<body, entry, late, answer, executed, evictors, disturbed, faults>>

\* COMMIT succeeds and its answer is lost: the handler throws.
CommitAnswerLost(r) ==
    /\ pc[r] \in Working /\ r \notin spent /\ Fault
    /\ executed' = executed \union {r}
    /\ pc' = [pc EXCEPT ![r] = AfterError(r)]
    /\ UNCHANGED <<body, entry, late, answer, spent, evictors, disturbed>>

Saves(r) ==
    /\ Returns(r, "save", "answered")
    /\ entry' = Result(r)
    /\ UNCHANGED <<answer, evictors>>

Releases(r) ==
    /\ Returns(r, "release", "failed")
    /\ entry' = Free
    /\ UNCHANGED <<answer, evictors>>

\* Where the interceptor goes on when a call of the store is rejected.
OnRejection == [get |-> "unguarded", evict |-> "acquire", acquire |-> "unguarded",
                save |-> "answered", release |-> "failed"]

\* A write that had been sent may be lost or late.
MayStillLand(r) ==
    \/ late' = late
    \/ pc[r] \in Writes /\ r \notin spent /\ late' = late \union {<<r, pc[r]>>}

\* The store or the way to it fails, or the budget runs out before or during
\* the call.
StoreCallRejected(r) ==
    /\ pc[r] \in Calls
    /\ \/ spent' = spent \union {r} /\ UNCHANGED faults
       \/ r \notin spent /\ Fault /\ UNCHANGED spent
    /\ MayStillLand(r)
    /\ pc' = [pc EXCEPT ![r] = OnRejection[pc[r]]]
    /\ UNCHANGED <<body, entry, answer, executed, evictors, disturbed>>

------------------------------------------------------------------------------
(* The clock, the store and the process.                                   *)

\* A late write reaches the store.
Lands(r, call) ==
    /\ <<r, call>> \in late
    /\ late' = late \ {<<r, call>>}
    /\ disturbed' = TRUE
    /\ entry' = CASE call = "save"    -> Result(r)
                  [] call = "acquire" -> IF EntryIsFree THEN Lock(r) ELSE entry
                  [] OTHER            -> Free
    /\ UNCHANGED <<body, pc, answer, executed, spent, evictors, faults>>

\* A lock expires after LOCK_TTL_SECONDS, whatever HTTP_REQUEST_TIMEOUT_MS gives the
\* request that has it.
Expires ==
    /\ entry.kind = "lock"
    /\ IF pc[entry.by] \in Holding THEN Fault /\ disturbed' = TRUE ELSE UNCHANGED <<faults, disturbed>>
    /\ entry' = Free
    /\ UNCHANGED <<body, pc, late, answer, executed, spent, evictors>>

\* IDEMPOTENCY_TTL_SECONDS later the result is forgotten.
ResultExpires ==
    /\ entry.kind = "result" /\ Fault
    /\ entry' = Free
    /\ UNCHANGED <<body, pc, late, answer, executed, spent, evictors, disturbed>>

Crash(r) ==
    /\ pc[r] \in Calls \union Working /\ Fault
    /\ pc' = [pc EXCEPT ![r] = "dead"]
    /\ MayStillLand(r)
    /\ UNCHANGED <<body, entry, answer, executed, spent, evictors, disturbed>>

------------------------------------------------------------------------------
Step1(r) == FindsNothing(r) \/ FindsLock(r) \/ FindsResult(r) \/ FindsCorrupt(r) \/ Evicts(r)
Step2(r) == Acquires(r) \/ LosesTheRace(r)
Step3(r) == HandlerSucceeds(r) \/ HandlerFails(r) \/ Saves(r) \/ Releases(r)

Proceeds(r) == Step1(r) \/ Step2(r) \/ Step3(r) \/ StoreCallRejected(r)

Next ==
    \/ \E r \in Requests : Proceeds(r) \/ CommitAnswerLost(r) \/ Crash(r)
    \/ \E r \in Requests, call \in Writes : Lands(r, call)
    \/ Expires \/ ResultExpires

Spec == Init /\ [][Next]_vars

------------------------------------------------------------------------------
(* Properties.                                                             *)

\* "Safe to retry" (tasks.tsp): the handler runs once for a key, and every run
\* beyond that has its own excuse: a fault, a budget that ran out, an entry
\* that could not be parsed.  No interleaving of requests is an excuse.
ExtraRunsAreExcused ==
    Cardinality(executed) <= 1 + faults + Cardinality(spent) + Cardinality(evictors)

\* A key names one request: no client is handed the response of a different
\* request, nor of one whose transaction did not commit.
ReplaysItsOwnRequest ==
    \A r \in Requests : answer[r] # Nobody =>
        answer[r] \in executed /\ body[answer[r]] = body[r]

\* As long as no entry was evicted, no late write landed and no lock expired beneath
\* its request, the request between its SET NX and its set or del owns the entry: del
\* and set need no fencing token, because nobody's lock is replaced or deleted by
\* another request.
HolderOwnsTheEntry ==
    evictors = {} /\ ~disturbed => \A r \in Requests : pc[r] \in Holding => entry = Lock(r)

\* Of what a client was answered within its budget the store keeps the result: with a
\* store and processes that do not fail, no request that loses a race, fails, runs out
\* of its budget or comes with a different body takes it away again, and every retry
\* is handed it.
AnswerIsKept ==
    faults = 0 /\ evictors = {} /\ ~disturbed =>
        \A r \in Requests : pc[r] = "answered" /\ r \notin spent => entry = Result(r)

\* "Lock released on error so the client can retry" (idempotency.interceptor.ts):
\* with a store and processes that never fail, a request that answered with its
\* handler's error has left no lock behind.
LockReleasedOnError ==
    faults = 0 => \A r \in Requests : pc[r] = "failed" => entry # Lock(r)
==============================================================================
