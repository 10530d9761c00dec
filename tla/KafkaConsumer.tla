---------------------------- MODULE KafkaConsumer ----------------------------
(***************************************************************************)
(* KafkaConsumerRunner (packages/kafka): the members of one consumer group *)
(* that handle the records of a topic, commit them one by one, retry what  *)
(* fails with the partition paused, and park what they give up on in the   *)
(* dead-letter topic.                                                      *)
(*                                                                         *)
(* A handler is known by how it can end for a record: it returns, refuses  *)
(* it (KafkaPermanentError), throws, or reports back-pressure.  The group  *)
(* (who owns a partition, what is committed) is Kafka's.  A member may     *)
(* lose a partition while a handler of it is in flight; its commit is then *)
(* refused.  Backoffs only say when a partition resumes, so here it may.   *)
(***************************************************************************)
EXTENDS Naturals, FiniteSets

CONSTANTS
    Members,        \* the worker replicas, each running one KafkaConsumerRunner
    Partitions,
    LogLen,         \* bound: the records of each partition
    Concurrently,   \* KAFKA_CONSUMER_PARTITIONS_CONCURRENTLY
    MaxRetries,     \* KAFKA_CONSUMER_MAX_RETRIES
    Permanent,      \* offsets of records no handler will ever take
    Failing,        \* offsets of records whose handler always throws
    Unparkable,     \* offsets of records the dead-letter topic never takes
    MaxFaults,      \* bound: crashes, failed commits, lost acks, one-off handler errors
    MaxRebalances,  \* bound: partitions taken away from a member
    MaxOutages,     \* bound: the broker, or what the handler calls, goes down
    MaxStops,       \* bound: graceful shutdowns
    NoOne           \* the owner of a partition nobody has

Offsets == 0 .. LogLen - 1

ASSUME ConsumerAssumption ==
    /\ LogLen \in Nat \ {0} /\ Concurrently \in Nat \ {0} /\ MaxRetries \in Nat
    /\ Permanent \subseteq Offsets /\ Failing \subseteq Offsets /\ Unparkable \subseteq Offsets
    /\ Permanent \intersect Failing = {}
    /\ {MaxFaults, MaxRebalances, MaxOutages, MaxStops} \subseteq Nat
    /\ NoOne \notin Members

VARIABLES
    committed,   \* the group's committed offset of each partition
    owner,       \* the member each partition is assigned to
    position,    \* the offset its owner fetches next
    phase,       \* what each member does with each partition
    current,     \* the offset that is about
    paused,      \* the partitions each member has paused
    attempts,    \* attempts[m][p]: the record being retried, how often it failed
    life,        \* connecting, running, stopping or stopped
    broker,      \* "up" or "down"
    downstream,  \* "up" or "down": what the handler hands its work to
    handled,     \* how often each record's handler returned
    parked,      \* how many copies of each record the dead-letter topic has
    threw,       \* history: how often its handler threw, up to MaxRetries + 1
    faults, rebalances, outages, stops

group   == <<committed, owner, position>>
worker  == <<phase, current, paused>>
world   == <<broker, downstream>>
records == <<handled, parked, threw>>
budgets == <<faults, rebalances, outages, stops>>
vars == <<group, worker, attempts, life, world, records, budgets>>

Phases    == {"idle", "handling", "parking", "committing"}
NoAttempt == [offset |-> 0, failed |-> 0]
NoRetries == [p \in Partitions |-> NoAttempt]
Limit     == MaxRetries + 1

TypeOK ==
    /\ committed \in [Partitions -> 0 .. LogLen]
    /\ owner \in [Partitions -> Members \union {NoOne}]
    /\ position \in [Partitions -> 0 .. LogLen]
    /\ phase \in [Members -> [Partitions -> Phases]]
    /\ current \in [Members -> [Partitions -> Offsets]]
    /\ paused \in [Members -> SUBSET Partitions]
    /\ attempts \in [Members -> [Partitions -> [offset : Offsets, failed : 0 .. Limit]]]
    /\ life \in [Members -> {"connecting", "running", "stopping", "stopped"}]
    /\ broker \in {"up", "down"} /\ downstream \in {"up", "down"}
    /\ handled \in [Partitions -> [Offsets -> Nat]]
    /\ parked \in [Partitions -> [Offsets -> Nat]]
    /\ threw \in [Partitions -> [Offsets -> 0 .. Limit]]
    /\ faults \in 0 .. MaxFaults /\ rebalances \in 0 .. MaxRebalances
    /\ outages \in 0 .. MaxOutages /\ stops \in 0 .. MaxStops

Never == [p \in Partitions |-> [o \in Offsets |-> 0]]

Init ==
    /\ committed = [p \in Partitions |-> 0]
    /\ owner = [p \in Partitions |-> NoOne]
    /\ position = [p \in Partitions |-> 0]
    /\ phase = [m \in Members |-> [p \in Partitions |-> "idle"]]
    /\ current = [m \in Members |-> [p \in Partitions |-> 0]]
    /\ paused = [m \in Members |-> {}]
    /\ attempts = [m \in Members |-> NoRetries]
    /\ life = [m \in Members |-> "connecting"]
    /\ broker = "up" /\ downstream = "up"
    /\ handled = Never /\ parked = Never /\ threw = Never
    /\ faults = 0 /\ rebalances = 0 /\ outages = 0 /\ stops = 0

Fault == faults < MaxFaults /\ faults' = faults + 1 /\ UNCHANGED <<rebalances, outages, stops>>

------------------------------------------------------------------------------
(* A record through the loop: handleMessage, giveUp, retryLater, commit.   *)

InFlight(m) == {p \in Partitions : phase[m][p] # "idle"}

\* eachMessage
Delivers(m, p) ==
    /\ life[m] = "running" /\ owner[p] = m /\ p \notin paused[m]
    /\ phase[m][p] = "idle" /\ Cardinality(InFlight(m)) < Concurrently
    /\ position[p] < LogLen
    /\ phase' = [phase EXCEPT ![m][p] = "handling"]
    /\ current' = [current EXCEPT ![m][p] = position[p]]
    /\ UNCHANGED <<group, paused, attempts, life, world, records, budgets>>

\* commit() forgets the partition's retries before it asks the broker.
GoesToCommit(m, p) ==
    /\ phase' = [phase EXCEPT ![m][p] = "committing"]
    /\ attempts' = [attempts EXCEPT ![m][p] = NoAttempt]
    /\ UNCHANGED paused

\* Mutant: the error is not rethrown, so the next record comes.
SkipsToNext(m, p) ==
    /\ phase' = [phase EXCEPT ![m][p] = "idle"]
    /\ paused' = paused
    /\ position' = [position EXCEPT ![p] = IF owner[p] = m THEN current[m][p] + 1 ELSE @]
    /\ UNCHANGED <<committed, owner, current>>

\* Pause and rethrow: the same record comes again once the partition resumes.
RetriesLater(m, p) ==
    /\ phase' = [phase EXCEPT ![m][p] = "idle"]
    /\ paused' = [paused EXCEPT ![m] = IF owner[p] = m THEN @ \union {p} ELSE @]
    /\ UNCHANGED <<current, group>>

Handling(m, p, S) == phase[m][p] = "handling" /\ current[m][p] \in S

\* handle() resolves.
HandlerReturns(m, p) ==
    /\ Handling(m, p, Offsets \ (Permanent \union Failing)) /\ downstream = "up"
    /\ handled' = [handled EXCEPT ![p][current[m][p]] = @ + 1]
    /\ GoesToCommit(m, p)
    /\ UNCHANGED <<group, current, life, world, parked, threw, budgets>>

\* KafkaBackpressureError: not counted.
BackPressure(m, p) ==
    /\ Handling(m, p, Offsets \ (Permanent \union Failing)) /\ downstream = "down"
    /\ RetriesLater(m, p)
    /\ UNCHANGED <<attempts, life, world, records, budgets>>

\* Mutants: the count is the partition's, whatever record it is of; no record
\* is recognised when it comes again.
AnyRecord(m, p) == TRUE
NewRecord(m, p) == FALSE

SameRecord(m, p) == attempts[m][p].offset = current[m][p]

\* How often the record has failed now, as far as this member knows.
Failed(m, p) ==
    LET before == IF SameRecord(m, p) THEN attempts[m][p].failed ELSE 0
    IN  IF before < Limit THEN before + 1 ELSE Limit

CountsFailure(m, p) ==
    attempts' = [attempts EXCEPT ![m][p] = [offset |-> current[m][p], failed |-> Failed(m, p)]]

Parks(m, p) == phase' = [phase EXCEPT ![m][p] = "parking"] /\ UNCHANGED <<paused, current, group>>

\* Any other error, every time or once: parked past KAFKA_CONSUMER_MAX_RETRIES.
HandlerThrows(m, p) ==
    /\ \/ Handling(m, p, Failing) /\ UNCHANGED budgets
       \/ Handling(m, p, Offsets \ (Failing \union Permanent)) /\ Fault
    /\ CountsFailure(m, p)
    /\ threw' = [threw EXCEPT ![p][current[m][p]] = IF @ < Limit THEN @ + 1 ELSE @]
    /\ IF Failed(m, p) <= MaxRetries THEN RetriesLater(m, p) ELSE Parks(m, p)
    /\ UNCHANGED <<life, world, handled, parked>>

\* KafkaPermanentError: parked at once.
HandlerRefuses(m, p) ==
    /\ Handling(m, p, Permanent)
    /\ CountsFailure(m, p)
    /\ Parks(m, p)
    /\ UNCHANGED <<life, world, records, budgets>>

\* The dead-letter topic can take the record now; never without a producer, with
\* KAFKA_DEAD_LETTER_TOPIC=none, or when Kafka refuses the record with its dlq_
\* headers.
CanPark(m, p) == phase[m][p] = "parking" /\ broker = "up" /\ current[m][p] \notin Unparkable

DeadLetters(p, o) == parked' = [parked EXCEPT ![p][o] = @ + 1]

\* The dead-letter send is acknowledged.
Parked(m, p) ==
    /\ CanPark(m, p) /\ life[m] = "running"
    /\ DeadLetters(p, current[m][p])
    /\ GoesToCommit(m, p)
    /\ UNCHANGED <<group, current, life, world, handled, threw, budgets>>

\* Mutants: the send does not listen to `stopping`; a failed send counts as parked.
ParkFailsUnlessStopping(m, p) ==
    /\ phase[m][p] = "parking" /\ broker = "down" /\ life[m] # "stopping"
    /\ RetriesLater(m, p)
    /\ UNCHANGED <<attempts, life, world, records, budgets>>
ParkFailsAndCommits(m, p) ==
    /\ phase[m][p] = "parking" /\ broker = "down"
    /\ GoesToCommit(m, p)
    /\ UNCHANGED <<group, current, life, world, records, budgets>>

\* It fails, is not even tried, or stop() aborts it: the record keeps its
\* partition ("stuck").
ParkFails(m, p) ==
    /\ phase[m][p] = "parking"
    /\ IF CanPark(m, p) /\ life[m] # "stopping" THEN Fault ELSE UNCHANGED budgets
    /\ RetriesLater(m, p)
    /\ UNCHANGED <<attempts, life, world, records>>

\* It fails although the dead-letter topic has the record.
ParkAckLost(m, p) ==
    /\ CanPark(m, p)
    /\ IF life[m] = "stopping" THEN UNCHANGED budgets ELSE Fault
    /\ DeadLetters(p, current[m][p])
    /\ RetriesLater(m, p)
    /\ UNCHANGED <<attempts, life, world, handled, threw>>

\* Mutant: message.offset + 2.
OffByOne(m, p) == current[m][p] + 2

NextOffset(m, p) == current[m][p] + 1

\* eachMessage returns: the member goes on behind the record.
MovesOn(m, p) ==
    /\ phase' = [phase EXCEPT ![m][p] = "idle"]
    /\ position' = [position EXCEPT ![p] = IF owner[p] = m THEN current[m][p] + 1 ELSE @]
    /\ UNCHANGED <<owner, current, paused, attempts, life, world, records>>

Commits(m, p) ==
    /\ phase[m][p] = "committing" /\ owner[p] = m /\ broker = "up"
    /\ committed' = [committed EXCEPT ![p] = NextOffset(m, p)]
    /\ MovesOn(m, p)
    /\ UNCHANGED budgets

\* Mutant: a failed commit is thrown.
CommitFailsAndThrows(m, p) ==
    /\ phase[m][p] = "committing"
    /\ IF owner[p] = m /\ broker = "up" THEN Fault ELSE UNCHANGED budgets
    /\ RetriesLater(m, p)
    /\ UNCHANGED <<attempts, life, world, records>>

\* The broker is away or refuses a member that has lost the partition: logged.
CommitFails(m, p) ==
    /\ phase[m][p] = "committing"
    /\ IF owner[p] = m /\ broker = "up" THEN Fault ELSE UNCHANGED budgets
    /\ MovesOn(m, p)
    /\ UNCHANGED committed

\* The backoff is over.
Resumes(m, p) ==
    /\ p \in paused[m]
    /\ paused' = [paused EXCEPT ![m] = @ \ {p}]
    /\ UNCHANGED <<group, phase, current, attempts, life, world, records, budgets>>

------------------------------------------------------------------------------
(* The runner's life: start, stop and crash.                               *)

\* connect(): fresh client, subscribe, run; Reconnect tries until it works.
Connects(m) ==
    /\ life[m] = "connecting" /\ broker = "up"
    /\ life' = [life EXCEPT ![m] = "running"]
    /\ UNCHANGED <<group, worker, attempts, world, records, budgets>>

\* stop(): abort the dead-letter sends; a runner still connecting is left alone.
StopBegins(m) ==
    /\ life[m] \in {"connecting", "running"}
    /\ stops < MaxStops /\ stops' = stops + 1
    /\ life' = [life EXCEPT ![m] = IF @ = "running" THEN "stopping" ELSE "stopped"]
    /\ UNCHANGED <<group, worker, attempts, world, records, faults, rebalances, outages>>

Released(m) == [p \in Partitions |-> IF owner[p] = m THEN NoOne ELSE owner[p]]

\* disconnect() has waited for the handlers in flight and leaves the group.
StopEnds(m) ==
    /\ life[m] = "stopping" /\ InFlight(m) = {}
    /\ life' = [life EXCEPT ![m] = "stopped"]
    /\ owner' = Released(m)
    /\ paused' = [paused EXCEPT ![m] = {}]
    /\ UNCHANGED <<committed, position, phase, current, attempts, world, records, budgets>>

\* A new process: nothing is left of what the old one knew.
Restarts(m) ==
    /\ life[m] = "stopped"
    /\ life' = [life EXCEPT ![m] = "connecting"]
    /\ attempts' = [attempts EXCEPT ![m] = NoRetries]
    /\ UNCHANGED <<group, worker, world, records, budgets>>

Crashes(m) ==
    /\ life[m] \in {"running", "stopping"} /\ Fault
    /\ life' = [life EXCEPT ![m] = "connecting"]
    /\ owner' = Released(m)
    /\ phase' = [phase EXCEPT ![m] = [p \in Partitions |-> "idle"]]
    /\ paused' = [paused EXCEPT ![m] = {}]
    /\ attempts' = [attempts EXCEPT ![m] = NoRetries]
    /\ UNCHANGED <<committed, position, current, world, records>>

------------------------------------------------------------------------------
(* Kafka's group and the world outside.                                    *)

\* A member gets a partition it is not still working on, from the committed offset.
Assigns(p, m) ==
    /\ owner[p] = NoOne /\ life[m] = "running" /\ broker = "up" /\ phase[m][p] = "idle"
    /\ owner' = [owner EXCEPT ![p] = m]
    /\ position' = [position EXCEPT ![p] = committed[p]]
    /\ UNCHANGED <<committed, worker, attempts, life, world, records, budgets>>

\* A rebalance takes the partition away, or the group takes the member for dead;
\* a handler in flight runs on and the pause is gone.
Loses(p) ==
    /\ owner[p] # NoOne
    /\ rebalances < MaxRebalances /\ rebalances' = rebalances + 1
    /\ owner' = [owner EXCEPT ![p] = NoOne]
    /\ paused' = [paused EXCEPT ![owner[p]] = @ \ {p}]
    /\ UNCHANGED <<committed, position, phase, current, attempts, life, world, records,
                   faults, outages, stops>>

Outage(b, d) ==
    /\ outages < MaxOutages /\ outages' = outages + 1
    /\ broker' = b /\ downstream' = d
    /\ UNCHANGED <<group, worker, attempts, life, records, faults, rebalances, stops>>

BrokerDown     == broker = "up" /\ Outage("down", downstream)
DownstreamDown == downstream = "up" /\ Outage(broker, "down")

Recovers ==
    /\ "down" \in {broker, downstream}
    /\ broker' = "up" /\ downstream' = "up"
    /\ UNCHANGED <<group, worker, attempts, life, records, budgets>>

------------------------------------------------------------------------------
HandlerEnds(m, p) ==
    HandlerReturns(m, p) \/ BackPressure(m, p) \/ HandlerThrows(m, p) \/ HandlerRefuses(m, p)
ParkingEnds(m, p) == Parked(m, p) \/ ParkFails(m, p) \/ ParkAckLost(m, p)
CommitEnds(m, p)  == Commits(m, p) \/ CommitFails(m, p)

Next ==
    \/ \E m \in Members, p \in Partitions :
         \/ Delivers(m, p) \/ HandlerEnds(m, p) \/ ParkingEnds(m, p) \/ CommitEnds(m, p)
         \/ Resumes(m, p) \/ Assigns(p, m)
    \/ \E m \in Members : Connects(m) \/ StopBegins(m) \/ StopEnds(m) \/ Restarts(m) \/ Crashes(m)
    \/ \E p \in Partitions : Loses(p)
    \/ BrokerDown \/ DownstreamDown \/ Recovers

Spec == Init /\ [][Next]_vars

\* Handlers, sends and commits end, backoffs run out, Reconnect keeps trying, a
\* stopped process is started again and the group assigns every partition.  A
\* partition that keeps failing is paused for its backoff between two attempts, a
\* second at least, so the handler slot it takes comes free for any other that
\* waits (SF): without the backoff one stuck partition could starve the rest.
\* Nothing says that a broker or a downstream that went away comes back.
Fairness ==
    /\ \A m \in Members :
         /\ WF_vars(Connects(m)) /\ WF_vars(StopEnds(m)) /\ WF_vars(Restarts(m))
         /\ \A p \in Partitions :
              /\ SF_vars(Delivers(m, p)) /\ WF_vars(HandlerEnds(m, p))
              /\ WF_vars(ParkingEnds(m, p)) /\ WF_vars(CommitEnds(m, p))
              /\ WF_vars(Resumes(m, p))
    /\ \A p \in Partitions : WF_vars(\E m \in Members : Assigns(p, m))

FairSpec == Spec /\ Fairness

------------------------------------------------------------------------------
(* Properties.                                                             *)

Settled(p, o) == handled[p][o] + parked[p][o] > 0

\* The at-least-once loop: nothing the group has committed was skipped; each
\* such record's handler returned, or the dead-letter topic has it.
NothingIsSkipped == \A p \in Partitions, o \in Offsets : o < committed[p] => Settled(p, o)

\* "Order within a partition (and so per key) holds", across retries, parking
\* and rebalances: a record is settled only after all that precede it.
SettlesInOrder ==
    \A p \in Partitions, o, q \in Offsets : Settled(p, o) /\ q < o => Settled(p, q)

\* A record is settled a second time only when a member lost the partition or
\* went away, or the ack of its dead-letter record was lost, once for each such
\* event: a failed commit or a broker outage alone redelivers nothing.
RedeliveryHasACause ==
    \A p \in Partitions, o \in Offsets :
        handled[p][o] + parked[p][o] <= 1 + faults + rebalances + stops

\* A record that may yet succeed is parked only after KAFKA_CONSUMER_MAX_RETRIES
\* retries of its own, whatever the partition went through before; back-pressure
\* never counts.
RetriedBeforeParked ==
    \A p \in Partitions, o \in Offsets \ Permanent : parked[p][o] > 0 => threw[p][o] = Limit

\* Records that can neither be handled nor parked hold their partition.
Stuck == (Permanent \union Failing) \intersect Unparkable

\* One poison record costs its retries, not the partition, and one that cannot be
\* parked costs its partition, not the others: once the broker and the downstream
\* stay up, every record with no stuck one up to it is settled.
EveryRecordIsSettled ==
    <>[](broker = "up" /\ downstream = "up")
        => \A p \in Partitions, o \in Offsets :
               (\A q \in Stuck : o < q) => <>Settled(p, o)

\* stop() ends even if the broker never comes back: no dead-letter send holds it.
StopCompletes == \A m \in Members : life[m] = "stopping" ~> life[m] # "stopping"
==============================================================================
