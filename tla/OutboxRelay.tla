----------------------------- MODULE OutboxRelay -----------------------------
(***************************************************************************)
(* The transactional outbox (packages/outbox): business transactions write *)
(* an outbox row with the state change it announces; every replica runs a  *)
(* relay that takes a batch of rows FOR UPDATE SKIP LOCKED, sends them to  *)
(* Kafka and deletes the ones Kafka acknowledged, all in one transaction.  *)
(*                                                                         *)
(* Events are numbered in the order of their INSERTs, as the identity      *)
(* column numbers the rows; the rows commit in any order.  Delays (poll    *)
(* interval, backoff, drain timeout) say when a step happens, so here they *)
(* only say that it may happen; the gauges of refreshStats are left out.   *)
(***************************************************************************)
EXTENDS Naturals, FiniteSets

CONSTANTS
    Relays,       \* the replicas, each running one OutboxRelay
    Keys,         \* record keys: the aggregates the events are about
    NumEvents,    \* bound: how many outbox rows are ever written
    BatchSize,    \* OUTBOX_BATCH_SIZE
    MaxAttempts,  \* OUTBOX_MAX_ATTEMPTS
    Rejected,     \* events Kafka refuses for what they are (kind `rejected`)
    Unroutable,   \* events of a topic nobody provisioned (kind `not_provisioned`)
    MaxFaults,    \* bound: crashes, lost sessions, failed COMMITs, lost acks
    MaxOutages,   \* bound: how often the broker goes away
    MaxOps,       \* bound: shutdowns and operator resets
    None, Orphan  \* a row nobody locks; a row locked by a dead relay's session

Events == 1 .. NumEvents

ASSUME OutboxAssumption ==
    /\ NumEvents \in Nat /\ BatchSize \in Nat \ {0} /\ MaxAttempts \in Nat \ {0}
    /\ MaxFaults \in Nat /\ MaxOutages \in Nat /\ MaxOps \in Nat
    /\ Rejected \subseteq Events /\ Unroutable \subseteq Events
    /\ Rejected \intersect Unroutable = {}
    /\ None \notin Relays \union Keys /\ Orphan \notin Relays /\ Orphan # None

VARIABLES
    tx,         \* the business transaction that writes each event
    key,        \* the key each event was written with
    outbox,     \* ids of the committed rows of table outbox
    attempts,   \* column attempts
    lock,       \* who holds each row's lock
    pc,         \* what each relay is doing
    life,       \* how far each relay's shutdown has come
    session,    \* whether the session of a relay's batch is still there
    outcome,    \* what became of the sends of each relay's batch
    broker,     \* "up" or "down"
    copies,     \* how many records of each event Kafka holds
    disturbed,  \* history: rows with a failed send or a crashed relay
    overtaken,  \* history: rows a later row of their key was published before
    faults, outages, ops

tables  == <<tx, key, outbox, attempts>>
kafka   == <<copies, overtaken>>
budgets == <<faults, outages, ops>>
vars == <<tables, lock, pc, life, session, outcome, broker, kafka, disturbed, budgets>>

TxStates  == {"none", "open", "committed", "aborted"}
Outcomes  == {"none", "pending", "sent", "retry", "poison"}
NoBatch   == [e \in Events |-> "none"]

TypeOK ==
    /\ tx \in [Events -> TxStates]
    /\ key \in [Events -> Keys \union {None}]
    /\ outbox \subseteq Events
    /\ attempts \in [Events -> 0 .. MaxAttempts]
    /\ lock \in [Events -> Relays \union {None, Orphan}]
    /\ pc \in [Relays -> {"idle", "busy", "stopped", "down"}]
    /\ life \in [Relays -> {"running", "draining", "closed"}]
    /\ session \in [Relays -> BOOLEAN]
    /\ outcome \in [Relays -> [Events -> Outcomes]]
    /\ broker \in {"up", "down"}
    /\ copies \in [Events -> Nat]
    /\ disturbed \subseteq Events /\ overtaken \subseteq Events
    /\ faults \in 0 .. MaxFaults /\ outages \in 0 .. MaxOutages /\ ops \in 0 .. MaxOps

Init ==
    /\ tx = [e \in Events |-> "none"]
    /\ key = [e \in Events |-> None]
    /\ outbox = {} /\ disturbed = {} /\ overtaken = {}
    /\ attempts = [e \in Events |-> 0]
    /\ lock = [e \in Events |-> None]
    /\ pc = [r \in Relays |-> "idle"]
    /\ life = [r \in Relays |-> "running"]
    /\ session = [r \in Relays |-> FALSE]
    /\ outcome = [r \in Relays |-> NoBatch]
    /\ broker = "up"
    /\ copies = [e \in Events |-> 0]
    /\ faults = 0 /\ outages = 0 /\ ops = 0

Fault == faults < MaxFaults /\ faults' = faults + 1 /\ UNCHANGED <<outages, ops>>

------------------------------------------------------------------------------
(* The business transaction: uow.runInTransaction(write; outbox.add).      *)

\* The state change and its row, uncommitted.  The change holds the lock of its
\* aggregate until the transaction ends, so two writes of a key do not overlap.
WriteInTransaction(e, k) ==
    /\ tx[e] = "none"
    /\ \A d \in Events : d < e => tx[d] # "none"
    /\ \A d \in Events : tx[d] = "open" => key[d] # k
    /\ tx' = [tx EXCEPT ![e] = "open"]
    /\ key' = [key EXCEPT ![e] = k]
    /\ UNCHANGED <<outbox, attempts, lock, pc, life, session, outcome, broker, kafka,
                   disturbed, budgets>>

CommitTransaction(e) ==
    /\ tx[e] = "open"
    /\ tx' = [tx EXCEPT ![e] = "committed"]
    /\ outbox' = outbox \union {e}
    /\ UNCHANGED <<key, attempts, lock, pc, life, session, outcome, broker, kafka,
                   disturbed, budgets>>

AbortTransaction(e) ==
    /\ tx[e] = "open"
    /\ tx' = [tx EXCEPT ![e] = "aborted"]
    /\ UNCHANGED <<key, outbox, attempts, lock, pc, life, session, outcome, broker, kafka,
                   disturbed, budgets>>

------------------------------------------------------------------------------
(* A relay pass: relayOnce / relayBatch.                                   *)

Batch(r)     == {e \in Events : outcome[r][e] # "none"}
With(r, o)   == {e \in Events : outcome[r][e] = o}
Settled(r)   == pc[r] = "busy" /\ With(r, "pending") = {}

\* Mutants: SKIP LOCKED dropped; WHERE attempts < max dropped.
SelectableLocked == {e \in outbox : attempts[e] < MaxAttempts}
SelectableDead   == {e \in outbox : lock[e] = None}

\* What SELECT ... WHERE attempts < max FOR UPDATE SKIP LOCKED can take.
Selectable == {e \in outbox : attempts[e] < MaxAttempts /\ lock[e] = None}

\* Mutant: ORDER BY id DESC.
LastRows(S) == {e \in S : Cardinality({d \in S : d >= e}) <= BatchSize}

\* ORDER BY id LIMIT batchSize
FirstRows(S) == {e \in S : Cardinality({d \in S : d <= e}) <= BatchSize}

\* The timer fires: BEGIN, take the batch and hand every row to the producer.
SelectBatch(r) ==
    /\ pc[r] = "idle"
    /\ LET rows == FirstRows(Selectable) IN
         /\ lock' = [e \in Events |-> IF e \in rows THEN r ELSE lock[e]]
         /\ outcome' = [outcome EXCEPT ![r] =
                          [e \in Events |-> IF e \in rows THEN "pending" ELSE "none"]]
    /\ pc' = [pc EXCEPT ![r] = "busy"]
    /\ session' = [session EXCEPT ![r] = TRUE]
    /\ UNCHANGED <<tables, life, broker, kafka, disturbed, budgets>>

\* The pending rows of e's key that go before it: the idempotent producer keeps
\* the order of a partition, so e waits for them.
Ahead(r, e) == {d \in With(r, "pending") : d < e /\ key[d] = key[e]}

\* Kafka appends a record of e; rows of its key that were never published and
\* come before e have now been overtaken.
Append1(e) ==
    /\ copies' = [copies EXCEPT ![e] = @ + 1]
    /\ overtaken' = IF copies[e] > 0 THEN overtaken
                    ELSE overtaken \union
                         {d \in outbox : d < e /\ key[d] = key[e] /\ copies[d] = 0}

Sending(r, e) == pc[r] = "busy" /\ outcome[r][e] = "pending"
Reachable(r, e) == broker = "up" /\ Ahead(r, e) = {} /\ e \notin Rejected \union Unroutable
SendEnds(r, e, o) == outcome' = [outcome EXCEPT ![r][e] = o]

\* send() resolves.
Acknowledged(r, e) ==
    /\ Sending(r, e) /\ Reachable(r, e) /\ life[r] # "closed"
    /\ Append1(e)
    /\ SendEnds(r, e, "sent")
    /\ UNCHANGED <<tables, lock, pc, life, session, broker, disturbed, budgets>>

\* send() rejects although Kafka has the record: message.timeout.ms ran out
\* before the ack, or the producer closed.
AckLost(r, e) ==
    /\ Sending(r, e) /\ Reachable(r, e) /\ Fault
    /\ Append1(e)
    /\ SendEnds(r, e, "retry")
    /\ disturbed' = disturbed \union {e}
    /\ UNCHANGED <<tables, lock, pc, life, session, broker>>

\* send() rejects with a retryable kind.
Unavailable(r, e) ==
    /\ Sending(r, e)
    /\ broker = "down" \/ e \in Unroutable \/ life[r] = "closed"
    /\ SendEnds(r, e, "retry")
    /\ disturbed' = disturbed \union {e}
    /\ UNCHANGED <<tables, lock, pc, life, session, broker, kafka, budgets>>

\* send() rejects with kind `rejected`: the row is poison.
RejectedByKafka(r, e) ==
    /\ Sending(r, e) /\ broker = "up" /\ life[r] # "closed" /\ e \in Rejected
    /\ SendEnds(r, e, "poison")
    /\ disturbed' = disturbed \union {e}
    /\ UNCHANGED <<tables, lock, pc, life, session, broker, kafka, budgets>>

SendSettles(r, e) == Acknowledged(r, e) \/ Unavailable(r, e) \/ RejectedByKafka(r, e)

Unlocked(r) == [e \in Events |-> IF lock[e] = r THEN None ELSE lock[e]]

\* Mutant: schedule() without its `stopping` check.
PassEndsAndReschedules(r) ==
    /\ pc' = [pc EXCEPT ![r] = "idle"]
    /\ outcome' = [outcome EXCEPT ![r] = NoBatch]
    /\ session' = [session EXCEPT ![r] = FALSE]
    /\ lock' = Unlocked(r)

\* The end of relayBatch and tick: the client is released, and the next pass is
\* scheduled unless the relay is stopping.
PassEnds(r) ==
    /\ pc' = [pc EXCEPT ![r] = IF life[r] = "running" THEN "idle" ELSE "stopped"]
    /\ outcome' = [outcome EXCEPT ![r] = NoBatch]
    /\ session' = [session EXCEPT ![r] = FALSE]
    /\ lock' = Unlocked(r)

\* Mutant: a pass that sent nothing is an outage even if it has poison rows.
OutageIfNothingSent(r) == With(r, "retry") # {} /\ With(r, "sent") = {}

\* Nothing went out and nothing is the rows' fault.
Outage(r) == With(r, "retry") # {} /\ With(r, "sent") = {} /\ With(r, "poison") = {}

\* The UPDATE that counts one more attempt for the rows in S.
Counted(S) == [e \in Events |-> IF e \in S THEN attempts[e] + 1 ELSE attempts[e]]

\* Mutants: the whole batch is deleted; nothing is deleted when a send failed;
\* every failed send is counted; no failed send is counted.
DeleteBatch(r) ==
    outbox' = outbox \ Batch(r) /\ attempts' = Counted(With(r, "poison")) /\ UNCHANGED <<tx, key>>
DeleteAllOrNothing(r) ==
    /\ outbox' = IF Batch(r) = With(r, "sent") THEN outbox \ Batch(r) ELSE outbox
    /\ attempts' = Counted(With(r, "poison")) /\ UNCHANGED <<tx, key>>
CountEveryFailure(r) ==
    /\ outbox' = outbox \ With(r, "sent")
    /\ attempts' = Counted(With(r, "poison") \union With(r, "retry")) /\ UNCHANGED <<tx, key>>
CountNoFailure(r) == outbox' = outbox \ With(r, "sent") /\ UNCHANGED <<tx, key, attempts>>

\* DELETE the sent rows, UPDATE attempts of the poison ones, COMMIT.
WriteResults(r) ==
    /\ outbox' = outbox \ With(r, "sent")
    /\ attempts' = Counted(With(r, "poison"))
    /\ UNCHANGED <<tx, key>>

CommitBatch(r) ==
    /\ Settled(r) /\ session[r] /\ ~Outage(r)
    /\ WriteResults(r)
    /\ PassEnds(r)
    /\ UNCHANGED <<life, broker, kafka, disturbed, budgets>>

\* ROLLBACK: every send failed, or the session went away and the next statement
\* failed (its ROLLBACK fails too and the connection is destroyed).
RollBackBatch(r) ==
    /\ Settled(r) /\ (Outage(r) \/ ~session[r])
    /\ PassEnds(r)
    /\ UNCHANGED <<tables, life, broker, kafka, disturbed, budgets>>

\* COMMIT fails in Postgres: the sent rows stay.
CommitFails(r) ==
    /\ Settled(r) /\ session[r] /\ ~Outage(r) /\ Fault
    /\ PassEnds(r)
    /\ UNCHANGED <<tables, life, broker, kafka, disturbed>>

\* COMMIT succeeds and its answer is lost: the pass ends as a failed one.
CommitAnswerLost(r) ==
    /\ Settled(r) /\ session[r] /\ ~Outage(r) /\ Fault
    /\ WriteResults(r)
    /\ PassEnds(r)
    /\ UNCHANGED <<life, broker, kafka, disturbed>>

PassFinishes(r) == CommitBatch(r) \/ RollBackBatch(r)

\* Postgres ends the session of a batch that waits for Kafka for too long
\* (idle_in_transaction_session_timeout), or fails over.
SessionKilled(r) ==
    /\ pc[r] = "busy" /\ session[r] /\ Fault
    /\ session' = [session EXCEPT ![r] = FALSE]
    /\ lock' = Unlocked(r)
    /\ UNCHANGED <<tables, pc, life, outcome, broker, kafka, disturbed>>

------------------------------------------------------------------------------
(* Shutdown, crashes, the broker and the operator.                         *)

\* Mutant: the timer is not cleared.
BeginShutdownKeepsTimer(r) ==
    /\ pc[r] \in {"idle", "busy"} /\ life[r] = "running"
    /\ ops < MaxOps /\ ops' = ops + 1
    /\ life' = [life EXCEPT ![r] = "draining"]
    /\ UNCHANGED <<tables, pc, lock, session, outcome, broker, kafka, disturbed, faults, outages>>

\* beforeApplicationShutdown: no further pass; a pass in flight is waited for.
BeginShutdown(r) ==
    /\ pc[r] \in {"idle", "busy"} /\ life[r] = "running"
    /\ ops < MaxOps /\ ops' = ops + 1
    /\ life' = [life EXCEPT ![r] = "draining"]
    /\ pc' = [pc EXCEPT ![r] = IF @ = "idle" THEN "stopped" ELSE @]
    /\ UNCHANGED <<tables, lock, session, outcome, broker, kafka, disturbed, faults, outages>>

\* DRAIN_TIMEOUT_MS is over and the producer's own shutdown rejects what waits.
DrainTimesOut(r) ==
    /\ pc[r] = "busy" /\ life[r] = "draining"
    /\ life' = [life EXCEPT ![r] = "closed"]
    /\ UNCHANGED <<tables, lock, pc, session, outcome, broker, kafka, disturbed, budgets>>

Exit(r) ==
    /\ pc[r] = "stopped"
    /\ pc' = [pc EXCEPT ![r] = "down"]
    /\ life' = [life EXCEPT ![r] = "running"]
    /\ UNCHANGED <<tables, lock, session, outcome, broker, kafka, disturbed, budgets>>

\* The process dies; Postgres has not noticed yet, so its row locks remain.
Crash(r) ==
    /\ pc[r] \in {"idle", "busy"} /\ Fault
    /\ pc' = [pc EXCEPT ![r] = "down"]
    /\ life' = [life EXCEPT ![r] = "running"]
    /\ session' = [session EXCEPT ![r] = FALSE]
    /\ outcome' = [outcome EXCEPT ![r] = NoBatch]
    /\ lock' = [e \in Events |-> IF lock[e] = r THEN Orphan ELSE lock[e]]
    /\ disturbed' = disturbed \union Batch(r)
    /\ UNCHANGED <<tables, broker, kafka>>

\* Postgres ends the sessions of dead processes.
ReapOrphans ==
    /\ \E e \in Events : lock[e] = Orphan
    /\ lock' = [e \in Events |-> IF lock[e] = Orphan THEN None ELSE lock[e]]
    /\ UNCHANGED <<tables, pc, life, session, outcome, broker, kafka, disturbed, budgets>>

\* onApplicationBootstrap of a new process.
Restart(r) ==
    /\ pc[r] = "down"
    /\ pc' = [pc EXCEPT ![r] = "idle"]
    /\ UNCHANGED <<tables, lock, life, session, outcome, broker, kafka, disturbed, budgets>>

BrokerDown ==
    /\ broker = "up" /\ outages < MaxOutages
    /\ broker' = "down" /\ outages' = outages + 1
    /\ UNCHANGED <<tables, lock, pc, life, session, outcome, kafka, disturbed, faults, ops>>

BrokerUp ==
    /\ broker = "down"
    /\ broker' = "up"
    /\ UNCHANGED <<tables, lock, pc, life, session, outcome, kafka, disturbed, budgets>>

\* The runbook's UPDATE outbox SET attempts = 0 of a dead row.
OperatorResets(e) ==
    /\ e \in outbox /\ attempts[e] = MaxAttempts /\ lock[e] = None
    /\ ops < MaxOps /\ ops' = ops + 1
    /\ attempts' = [attempts EXCEPT ![e] = 0]
    /\ UNCHANGED <<tx, key, outbox, lock, pc, life, session, outcome, broker, kafka,
                   disturbed, faults, outages>>

------------------------------------------------------------------------------
WriterStep == \E e \in Events :
    \/ \E k \in Keys : WriteInTransaction(e, k)
    \/ CommitTransaction(e)
    \/ AbortTransaction(e)

SendStep(r) == \E e \in Events :
    Acknowledged(r, e) \/ AckLost(r, e) \/ Unavailable(r, e) \/ RejectedByKafka(r, e)

RelayStep(r) ==
    \/ SelectBatch(r) \/ SendStep(r)
    \/ CommitBatch(r) \/ RollBackBatch(r) \/ CommitFails(r) \/ CommitAnswerLost(r)
    \/ SessionKilled(r)
    \/ BeginShutdown(r) \/ DrainTimesOut(r) \/ Exit(r) \/ Crash(r) \/ Restart(r)

Next ==
    \/ WriterStep
    \/ \E r \in Relays : RelayStep(r)
    \/ ReapOrphans \/ BrokerDown \/ BrokerUp
    \/ \E e \in Events : OperatorResets(e)

Spec == Init /\ [][Next]_vars

\* The event loop runs a timer that is due, a send always settles (librdkafka's
\* message.timeout.ms), a pass then ends, a stopped process exits, a new one is
\* started for it, Postgres notices dead sessions and the broker comes back.
Fairness ==
    /\ \A r \in Relays :
         /\ WF_vars(SelectBatch(r)) /\ WF_vars(PassFinishes(r))
         /\ WF_vars(Exit(r)) /\ WF_vars(Restart(r))
         /\ \A e \in Events : WF_vars(SendSettles(r, e))
    /\ WF_vars(ReapOrphans) /\ WF_vars(BrokerUp)

FairSpec == Spec /\ Fairness

------------------------------------------------------------------------------
(* Properties.                                                             *)

Committed == {e \in Events : tx[e] = "committed"}
Published == {e \in Events : copies[e] > 0}
Sendable  == Events \ (Rejected \union Unroutable)
IsDead(e) == e \in outbox /\ attempts[e] = MaxAttempts

Promise == INSTANCE AtLeastOnce
           WITH accepted <- Committed, pending <- outbox, published <- Published

\* The outbox is an at-least-once channel (outbox.writer.ts, outbox.relay.ts):
\* an event becomes pending with its state change and not otherwise, only
\* pending or once pending events are published, and only published ones leave
\* the table, whatever crashes, rolls back or is sent twice.
DeliversAtLeastOnce == Promise!Spec

\* SKIP LOCKED lets every replica run a relay without two of them sending the
\* same row: of the relays whose session is alive, at most one has a given row.
NoDoubleSend ==
    \A r, s \in Relays : \A e \in Batch(r) \intersect Batch(s) :
        session[r] /\ session[s] => r = s

\* Duplicates come from faults only: without a crash, a lost session, a failed
\* COMMIT or a lost ack every event is published once, and each of those costs an
\* event at most one more record; a partial failure costs none, and a shutdown
\* none unless it loses an ack.
DuplicatesAreBoundedByFaults == \A e \in Events : copies[e] <= 1 + faults

\* No outage or back-pressure can dead-letter an event: attempts counts nothing
\* but rejections, so only a rejected event is ever given up on.
OnlyRejectedRowsAreCounted == \A e \in Events : attempts[e] > 0 => e \in Rejected

\* "Order holds per relay for rows of one key": a row is overtaken by a later row of
\* its key only after one of its own sends failed or its relay crashed, or while
\* another relay than the one whose send goes ahead is still sending it.
OrderHoldsPerRelay ==
    [][\A d \in overtaken' \ (overtaken \union disturbed) :
           \E r, s \in Relays : r # s /\ outcome'[r] # outcome[r] /\ Sending(s, d)]_vars

\* Once its shutdown has begun a relay finishes the pass in flight and starts no other.
NoPassAfterShutdownBegins ==
    [][\A r \in Relays : life[r] # "running" /\ pc[r] # "busy" => pc'[r] # "busy"]_vars

\* Every committed event Kafka can take is published in the end, as long as the
\* rows nobody can route leave room in a batch (Cardinality(Unroutable) < BatchSize).
EveryEventIsPublished == \A e \in Sendable : tx[e] = "committed" ~> copies[e] > 0

\* A rejected event is given up on in the end, instead of being retried forever.
RejectedRowsAreParked == \A e \in Rejected : tx[e] = "committed" ~> IsDead(e)

\* A shutdown ends: a pass in flight does not hold the process up for good.
ShutdownCompletes == \A r \in Relays : life[r] # "running" ~> pc[r] = "down"

\* 0001_init.sql says that a row whose send keeps failing is given up on after
\* OUTBOX_MAX_ATTEMPTS "instead of blocking the batch": no row nobody can route
\* keeps an event Kafka can take from being published.
FailingRowsDoNotBlock ==
    \A d \in Unroutable, e \in Sendable :
        tx[d] = "committed" /\ tx[e] = "committed" ~> copies[e] > 0
==============================================================================
