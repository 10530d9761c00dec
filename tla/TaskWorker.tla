----------------------------- MODULE TaskWorker -----------------------------
(***************************************************************************)
(* The worker: TaskEventsConsumer (apps/worker) hands task.created events  *)
(* to a JobQueue, TaskEventsProcessor works the jobs off.  The queue is    *)
(* BullMQ on Valkey or pg-boss on Postgres (packages/jobs), and the two    *)
(* count, retry and take back jobs differently.                            *)
(*                                                                         *)
(* handle() awaits three times: the queue's depth, unless one not older    *)
(* than a second is cached, the send, and the runner's commit.  Handlers   *)
(* of several partitions share one cached depth.  The group and its        *)
(* commits are those of KafkaConsumer, cut down to who owns a partition.   *)
(***************************************************************************)
EXTENDS Naturals, Sequences, FiniteSets

CONSTANTS
    Workers, Partitions,
    Events,        \* the tasks: an event's id is its task's, and its job's key
    Foreign,       \* what else a record may hold: another event type
    Broken,        \* or a task.created that breaks the contract
    Failing,       \* the tasks whose job always throws
    Deployments,   \* the ways it is run: see Deployed
    MaxWaiting,    \* WORKER_QUEUE_MAX_WAITING
    Attempts,      \* DEFAULT_JOB_OPTIONS.attempts, RETRY_LIMIT + 1
    MaxStalls,     \* maxStalledCount
    NoOne, NoJob

\* VALKEY_URL decides the backend, KAFKA_CONSUMER_PARTITIONS_CONCURRENTLY how many
\* handlers a replica runs; the log may hold a record the relay sent twice.  A bound:
\* how many crashes, shutdowns, outages, lost calls and partitions, slow or
\* forgotten jobs it meets.
Deployed == [backend : {"bullmq", "pgboss"}, replicas : SUBSET Workers, concurrently : Nat \ {0},
             log : [Partitions -> Seq(Events \union {Foreign, Broken})], faults : Nat]

ASSUME WorkerAssumption ==
    /\ Failing \subseteq Events /\ Deployments \subseteq Deployed
    /\ {Foreign, Broken, NoJob} \intersect Events = {} /\ NoOne \notin Workers
    /\ {MaxWaiting, Attempts} \subseteq Nat \ {0}
    /\ MaxStalls \in Nat
ASSUME FiniteAssumption == IsFiniteSet(Workers) /\ IsFiniteSet(Partitions) /\ IsFiniteSet(Events)

VARIABLES
    deployment, queueUp,
    life,       \* booting, up, draining (the consumer stops), closing (the queue)
    owner, position, committed,
    handler,    \* what handle() of each worker and partition awaits
    depth,      \* queueDepth of each worker
    job,        \* the job of each key
    inHand,     \* the job each worker's processor runs
    runs, done, \* history: how often a job was started, and its handler returned
    takenBack,  \* history: how often it was taken back from a worker
    forgotten,  \* history: how often the queue dropped it after it had ended
    accepted,   \* history: the keys the queue has held
    faults

group   == <<owner, position, committed>>
jobs    == <<job, inHand, runs, done, takenBack, forgotten, accepted>>
Log     == deployment.log
history == <<runs, done, takenBack, forgotten>>
vars    == <<deployment, queueUp, life, group, handler, depth, jobs, faults>>

Idle    == [at |-> "idle", offset |-> 0, waiting |-> 0]
NoDepth == [waiting |-> 0, age |-> "unread"]
NoEntry == [state |-> "none", holder |-> NoOne, failed |-> 0, stalled |-> 0]

Depths == 0 .. Cardinality(Events)

TypeOK ==
    /\ deployment \in Deployments /\ queueUp \in BOOLEAN
    /\ life \in [Workers -> {"booting", "up", "draining", "closing"}]
    /\ owner \in [Partitions -> Workers \union {NoOne}]
    /\ position \in [Partitions -> Nat] /\ committed \in [Partitions -> Nat]
    /\ handler \in [Workers -> [Partitions ->
          [at : {"idle", "counting", "counted", "sending", "committing"},
           offset : Nat, waiting : Depths]]]
    /\ depth \in [Workers -> [waiting : Nat, age : {"unread", "fresh", "old"}]]
    /\ job \in [Events -> [state : {"none", "waiting", "active", "delayed", "completed", "failed"},
                           holder : Workers \union {NoOne}, failed : 0 .. Attempts,
                           stalled : 0 .. MaxStalls + 1]]
    /\ inHand \in [Workers -> Events \union {NoJob}]
    /\ runs \in [Events -> Nat] /\ done \in [Events -> Nat] 
    /\ takenBack \in [Events -> Nat] /\ forgotten \in [Events -> Nat]
    /\ accepted \subseteq Events
    /\ faults \in 0 .. deployment.faults

Init ==
    /\ deployment \in Deployments /\ queueUp = TRUE
    /\ life = [w \in Workers |-> "booting"]
    /\ owner = [p \in Partitions |-> NoOne]
    /\ position = [p \in Partitions |-> 0] /\ committed = [p \in Partitions |-> 0]
    /\ handler = [w \in Workers |-> [p \in Partitions |-> Idle]]
    /\ depth = [w \in Workers |-> NoDepth]
    /\ job = [e \in Events |-> NoEntry]
    /\ inHand = [w \in Workers |-> NoJob]
    /\ runs = [e \in Events |-> 0] /\ done = [e \in Events |-> 0]
    /\ takenBack = [e \in Events |-> 0] /\ forgotten = [e \in Events |-> 0]
    /\ accepted = {}
    /\ faults = 0

Fault == faults < deployment.faults /\ faults' = faults + 1

-----------------------------------------------------------------------------
(* The job queue as the port sees it.                                      *)

InState(S) == {e \in Events : job[e].state \in S}

\* waiting(): BullMQ's waiting list leaves out the jobs whose backoff runs, the
\* count(*) on pg-boss takes 'created' and 'retry'.
Waiting == Cardinality(InState(IF deployment.backend = "bullmq" THEN {"waiting"} ELSE {"waiting", "delayed"}))

\* Mutant: jobs without the key.
AddsAgain(e) ==
    /\ job' = [job EXCEPT ![e] = [NoEntry EXCEPT !.state = "waiting"]]
    /\ accepted' = accepted \union {e}

\* send(): a key the queue still holds is dropped.
Adds(e) ==
    /\ job' = [job EXCEPT ![e] = IF @.state = "none" THEN [@ EXCEPT !.state = "waiting"] ELSE @]
    /\ accepted' = accepted \union {e}

-----------------------------------------------------------------------------
(* TaskEventsConsumer.handle, and the runner around it.                    *)

Record(w, p)   == Log[p][handler[w][p].offset + 1]
Busy(w)        == {p \in Partitions : handler[w][p].at # "idle"}
IsAt(w, p, pc) == handler[w][p].at = pc
Mine(w, p)     == owner[p] = w

\* From one await to the next, with the depth read if it still matters.
Moves(w, p, pc, offset, waiting) ==
    handler' = [handler EXCEPT ![w][p] =
        IF pc = "idle" THEN Idle ELSE [at |-> pc, offset |-> offset, waiting |-> waiting]]
Goes(w, p, pc) == Moves(w, p, pc, handler[w][p].offset, 0)

\* ensureQueueRoom with a depth in hand: JobQueueFullError, or on to the send.
AfterDepth(waiting) == IF waiting >= MaxWaiting THEN "idle" ELSE "sending"

\* Mutant: once read, the depth is never read again.
UsableForEver(w) == depth[w].age # "unread"

\* A reading not older than QUEUE_DEPTH_TTL_MS.
Usable(w) == depth[w].age = "fresh"

\* eachMessage: a depth that is no older than a second is taken as it is.
Begins(w, p) ==
    /\ life[w] = "up" /\ Mine(w, p) /\ IsAt(w, p, "idle")
    /\ Cardinality(Busy(w)) < deployment.concurrently /\ position[p] < Len(Log[p])
    /\ Moves(w, p,
             IF Log[p][position[p] + 1] \notin Events THEN "committing"
             ELSE IF Usable(w) THEN AfterDepth(depth[w].waiting)
             ELSE "counting",
             position[p], 0)
    /\ UNCHANGED <<deployment, queueUp, life, group, depth, jobs, faults>>

\* A second has passed since the request the reading is of: at once, if it took long.
Ages(w) ==
    /\ depth[w].age = "fresh"
    /\ depth' = [depth EXCEPT ![w].age = "old"]
    /\ UNCHANGED <<deployment, queueUp, life, group, handler, jobs, faults>>

\* The backend counts...
Counts(w, p) ==
    /\ IsAt(w, p, "counting") /\ queueUp
    /\ Moves(w, p, "counted", handler[w][p].offset, Waiting)
    /\ UNCHANGED <<deployment, queueUp, life, group, depth, jobs, faults>>

\* ... and whatever was cached meanwhile is overwritten with its answer.
Counted(w, p) ==
    /\ IsAt(w, p, "counted")
    /\ depth' = [depth EXCEPT ![w] = [waiting |-> handler[w][p].waiting, age |-> "fresh"]]
    /\ Goes(w, p, AfterDepth(handler[w][p].waiting))
    /\ UNCHANGED <<deployment, queueUp, life, group, jobs, faults>>

\* Mutant: a burst in one second passes on a stale depth.
CountsNothing(w) == UNCHANGED depth

CountsOne(w) == depth' = [depth EXCEPT ![w].waiting = @ + 1]

\* The backend has the job, and handle() counts it, a dropped one too.
Enqueues(w, p) ==
    /\ IsAt(w, p, "sending") /\ queueUp
    /\ Adds(Record(w, p)) /\ CountsOne(w)
    /\ Goes(w, p, "committing")
    /\ UNCHANGED <<deployment, queueUp, life, group, inHand, history, faults>>

\* It has the job, but the answer is lost.
AnswerLost(w, p) ==
    /\ IsAt(w, p, "sending") /\ queueUp /\ Fault
    /\ Adds(Record(w, p))
    /\ Goes(w, p, "idle")
    /\ UNCHANGED <<deployment, queueUp, life, group, depth, inHand, history>>

\* Mutant: the rejected call is swallowed.
CallFailsAndGoesOn(w, p) ==
    /\ handler[w][p].at \in {"counting", "sending"}
    /\ IF queueUp THEN Fault ELSE UNCHANGED faults
    /\ Goes(w, p, "committing")
    /\ UNCHANGED <<deployment, queueUp, life, group, depth, jobs>>

\* JobQueueUnavailableError: waited out.
CallFails(w, p) ==
    /\ handler[w][p].at \in {"counting", "sending"}
    /\ IF queueUp THEN Fault ELSE UNCHANGED faults
    /\ Goes(w, p, "idle")
    /\ UNCHANGED <<deployment, queueUp, life, group, depth, jobs>>

\* The runner commits what handle() took, skipped or parked (Broken); a commit
\* that fails, or is refused to a worker that lost the partition, is not retried.
Commits(w, p) ==
    /\ IsAt(w, p, "committing")
    /\ Goes(w, p, "idle")
    /\ position' = [position EXCEPT ![p] = IF Mine(w, p) THEN handler[w][p].offset + 1 ELSE @]
    /\ \/ committed' = [committed EXCEPT ![p] = IF Mine(w, p) THEN handler[w][p].offset + 1 ELSE @]
          /\ UNCHANGED faults
       \/ Mine(w, p) /\ Fault /\ UNCHANGED committed
    /\ UNCHANGED <<deployment, queueUp, life, owner, depth, jobs>>

-----------------------------------------------------------------------------
(* The processor and the backend's care for its jobs.                      *)

\* One job at a time per process.
Takes(w, e) ==
    /\ life[w] \in {"up", "draining"} /\ inHand[w] = NoJob
    /\ queueUp /\ job[e].state = "waiting"
    /\ job' = [job EXCEPT ![e].state = "active", ![e].holder = w]
    /\ inHand' = [inHand EXCEPT ![w] = e]
    /\ runs' = [runs EXCEPT ![e] = @ + 1]
    /\ UNCHANGED <<deployment, queueUp, life, group, handler, depth, done, takenBack, forgotten,
                   accepted, faults>>

\* Whether the backend takes w's word about e: BullMQ asks for the lock's token,
\* pg-boss for an active job.
Believes(w, e) ==
    /\ queueUp /\ job[e].state = "active"
    /\ deployment.backend = "bullmq" => job[e].holder = w

\* The handler ends; a backend that is away hears nothing of it and takes the job
\* back later.
HandlerEnds(w, returned) ==
    LET e == inHand[w] IN
    /\ e # NoJob
    /\ IF e \in Failing THEN ~returned /\ UNCHANGED faults
       ELSE IF returned THEN UNCHANGED faults ELSE Fault
    /\ inHand' = [inHand EXCEPT ![w] = NoJob]
    /\ done' = [done EXCEPT ![e] = IF returned THEN @ + 1 ELSE @]

\* An attempt more has failed: the job waits out its backoff or is given up.
FailedOnce(e) ==
    LET failed == job[e].failed + 1 IN
    [job[e] EXCEPT !.failed = failed, !.holder = NoOne,
                   !.state = IF failed >= Attempts THEN "failed" ELSE "delayed"]

Finishes(w) ==
    \E returned \in BOOLEAN :
    /\ HandlerEnds(w, returned)
    /\ LET e == inHand[w] IN
       job' = [job EXCEPT ![e] =
           IF ~Believes(w, e) THEN @
           ELSE IF returned THEN [@ EXCEPT !.state = "completed", !.holder = NoOne]
           ELSE FailedOnce(e)]
    /\ UNCHANGED <<deployment, queueUp, life, group, handler, depth, runs, takenBack, forgotten, accepted>>

\* The backoff of a failed attempt is over.
Returns(e) ==
    /\ queueUp /\ job[e].state = "delayed"
    /\ job' = [job EXCEPT ![e].state = "waiting"]
    /\ UNCHANGED <<deployment, queueUp, life, group, handler, depth, inHand, history, accepted, faults>>

Alive(w, e) == w \in Workers /\ inHand[w] = e

\* Nobody has renewed the job's lock for 30 s (BullMQ: a second stall fails it), or
\* it ran into expireInSeconds (pg-boss: a failed attempt).
TakenBack(e) ==
    /\ queueUp /\ job[e].state = "active"
    /\ IF Alive(job[e].holder, e) THEN Fault ELSE UNCHANGED faults
    /\ job' = [job EXCEPT ![e] =
           IF deployment.backend = "pgboss" THEN FailedOnce(e)
           ELSE [@ EXCEPT !.stalled = job[e].stalled + 1, !.holder = NoOne,
                          !.state = IF job[e].stalled + 1 > MaxStalls THEN "failed" ELSE "waiting"]]
    /\ takenBack' = [takenBack EXCEPT ![e] = @ + 1]
    /\ UNCHANGED <<deployment, queueUp, life, group, handler, depth, inHand, runs, done, forgotten, accepted>>

\* A finished job is kept for a day only.
Forgets(e) ==
    /\ job[e].state \in {"completed", "failed"} /\ Fault
    /\ job' = [job EXCEPT ![e] = NoEntry]
    /\ forgotten' = [forgotten EXCEPT ![e] = @ + 1]
    /\ UNCHANGED <<deployment, queueUp, life, group, handler, depth, inHand, runs, done, takenBack, accepted>>

QueueGoesDown ==
    /\ queueUp /\ Fault /\ queueUp' = FALSE
    /\ UNCHANGED <<deployment, life, group, handler, depth, jobs>>
QueueComesBack ==
    /\ ~queueUp /\ queueUp' = TRUE
    /\ UNCHANGED <<deployment, life, group, handler, depth, jobs, faults>>

-----------------------------------------------------------------------------
(* The process.                                                            *)

Free(w) == [p \in Partitions |-> IF Mine(w, p) THEN NoOne ELSE owner[p]]

\* pg-boss creates its queue first; a boot without it fails and the rejected
\* promise PgBossJobQueue keeps goes with the process.
Boots(w) ==
    /\ life[w] = "booting" /\ w \in deployment.replicas
    /\ (deployment.backend = "pgboss" => queueUp)
    /\ life' = [life EXCEPT ![w] = "up"]
    /\ UNCHANGED <<deployment, queueUp, group, handler, depth, jobs, faults>>

\* SIGTERM: the runner takes nothing more and waits for its handlers...
StopBegins(w) ==
    /\ life[w] = "up" /\ Fault
    /\ life' = [life EXCEPT ![w] = "draining"]
    /\ UNCHANGED <<deployment, queueUp, group, handler, depth, jobs>>
\* ... the queues stop their workers after it...
QueueCloses(w) ==
    /\ life[w] = "draining" /\ Busy(w) = {}
    /\ life' = [life EXCEPT ![w] = "closing"]
    /\ owner' = Free(w)
    /\ UNCHANGED <<deployment, queueUp, position, committed, handler, depth, jobs, faults>>
\* ... which finish the job in hand.  The next process starts with nothing cached.
StopEnds(w) ==
    /\ life[w] = "closing" /\ inHand[w] = NoJob
    /\ life' = [life EXCEPT ![w] = "booting"]
    /\ depth' = [depth EXCEPT ![w] = NoDepth]
    /\ UNCHANGED <<deployment, queueUp, group, handler, jobs, faults>>

Crashes(w) ==
    /\ life[w] # "booting" /\ Fault
    /\ life' = [life EXCEPT ![w] = "booting"]
    /\ owner' = Free(w)
    /\ handler' = [handler EXCEPT ![w] = [p \in Partitions |-> Idle]]
    /\ depth' = [depth EXCEPT ![w] = NoDepth]
    /\ inHand' = [inHand EXCEPT ![w] = NoJob]
    /\ UNCHANGED <<deployment, queueUp, position, committed, job, history, accepted>>

Assigns(w, p) ==
    /\ owner[p] = NoOne /\ life[w] = "up" /\ IsAt(w, p, "idle") /\ Len(Log[p]) > 0
    /\ owner' = [owner EXCEPT ![p] = w]
    /\ position' = [position EXCEPT ![p] = committed[p]]
    /\ UNCHANGED <<deployment, queueUp, life, committed, handler, depth, jobs, faults>>

\* A handler in flight of the partition runs on.
Loses(p) ==
    /\ owner[p] # NoOne /\ Fault
    /\ owner' = [owner EXCEPT ![p] = NoOne]
    /\ UNCHANGED <<deployment, queueUp, life, position, committed, handler, depth, jobs>>

-----------------------------------------------------------------------------
Handles(w, p) ==
    \/ Begins(w, p) \/ Counts(w, p) \/ Counted(w, p) \/ Enqueues(w, p) \/ AnswerLost(w, p)
    \/ CallFails(w, p) \/ Commits(w, p)

Next ==
    \/ \E w \in Workers, p \in Partitions : Handles(w, p) \/ Assigns(w, p)
    \/ \E w \in Workers :
         \/ Ages(w) \/ Finishes(w) \/ Boots(w) \/ StopBegins(w) \/ QueueCloses(w) \/ StopEnds(w)
         \/ Crashes(w) \/ \E e \in Events : Takes(w, e)
    \/ \E e \in Events : Returns(e) \/ TakenBack(e) \/ Forgets(e)
    \/ \E p \in Partitions : Loses(p)
    \/ QueueGoesDown \/ QueueComesBack

Spec == Init /\ [][Next]_vars

\* Calls and handlers end, a second passes, the backend retries and takes back, the
\* group assigns, an orchestrator starts the process again.  Nothing brings a
\* backend back.
Works(w)  == Finishes(w) \/ \E e \in Events : Takes(w, e)
Starts(w) == Boots(w) \/ QueueCloses(w) \/ StopEnds(w)

Fairness ==
    /\ \A w \in Workers :
         /\ WF_vars(Ages(w)) /\ WF_vars(Works(w)) /\ WF_vars(Starts(w))
         /\ \A p \in Partitions : WF_vars(Handles(w, p))
    /\ \A p \in Partitions : WF_vars(\E w \in Workers : Assigns(w, p))
    /\ WF_vars(\E e \in Events : Returns(e)) /\ WF_vars(\E e \in Events : TakenBack(e))

FairSpec == Spec /\ Fairness

-----------------------------------------------------------------------------
(* Properties.                                                             *)

\* A record is committed only once the queue has its job: no crash, lost answer or
\* lost partition between the two loses a task.
EnqueuedBeforeCommitted ==
    \A p \in Partitions : \A i \in 1 .. committed[p] : Log[p][i] \in Events => Log[p][i] \in accepted

\* "A redelivered event does not run twice": a job whose handler has returned runs
\* to its end again only after the backend took it back from a worker that was
\* slow, or had forgotten it.
NoSecondCompletion == \A e \in Events : done[e] <= 1 + takenBack[e] + forgotten[e]

\* "3 attempts": however throws, crashes and stalls mix, pg-boss starts a job that
\* often, BullMQ once more for each stall it forgives.
AttemptsAreBounded ==
    \A e \in Events :
        runs[e] <= (1 + forgotten[e]) * (Attempts + IF deployment.backend = "bullmq" THEN MaxStalls ELSE 0)

RunsAreExcused == NoSecondCompletion /\ AttemptsAreBounded

\* "The backlog stays in Kafka": what waits for its first run is bounded, though by
\* more than WORKER_QUEUE_MAX_WAITING.  Each replica goes by a depth of its own.  In
\* one, each of c handlers may hold a reading it took while the queue was empty and
\* overwrite what the others have counted since; each time the handlers that are not
\* held up pass together on the last free place: the sum of MaxWaiting + i - 1 for
\* i of 1 .. c.  And none of them counts an enqueue whose answer was lost.
FirstRuns == {e \in InState({"waiting"}) : job[e].failed + job[e].stalled = 0}
Overshoot(i) == (i * (i - 1)) \div 2
PerReplica   == deployment.concurrently * MaxWaiting + Overshoot(deployment.concurrently)
BacklogIsBounded ==
    Cardinality(FirstRuns) <= Cardinality(deployment.replicas) * PerReplica + faults

\* Back-pressure ends: once the backend stays up, every event of the topic is worked
\* off, or given up after its attempts.
Logged == {e \in Events : \E p \in Partitions : \E i \in 1 .. Len(Log[p]) : Log[p][i] = e}
EveryEventIsWorkedOff ==
    <>[]queueUp => \A e \in Events : e \in Logged => <>(done[e] > 0 \/ job[e].state = "failed")
=============================================================================
