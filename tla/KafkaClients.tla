---------------------------- MODULE KafkaClients ----------------------------
(***************************************************************************)
(* The Kafka clients of a process (packages/kafka): KafkaProducerService,  *)
(* its sends, its connect/replace/shutdown, and the start and stop of a    *)
(* KafkaConsumerRunner, each with a Reconnect of its own.                  *)
(*                                                                         *)
(* Every client is an instance of librdkafka that connects at most once.   *)
(* What a caller knows of a send is its KafkaSendError's kind; what Kafka  *)
(* knows is how often it was handed the record.  Durations are left out: a *)
(* backoff ends some time, a budget runs out some time.                    *)
(***************************************************************************)
EXTENDS Naturals

CONSTANTS
    Sends,      \* the calls of send()
    Batches,    \* those of more than one message
    Rejected,   \* those whose record Kafka will never take
    Producers,  \* the client instances there may be at one time
    MaxFaults,  \* bound: outages, fatal errors, lost acks, full queues, aborted callers
    None

ASSUME ClientsAssumption ==
    Batches \subseteq Sends /\ Rejected \subseteq Sends /\ MaxFaults \in Nat /\ None \notin Producers

VARIABLES
    \* KafkaProducerService
    producer, connected,
    closed,     \* the AbortController shutdown aborts
    shutdown,   \* onApplicationShutdown: "no", "flushing", "done"
    instance,   \* each client instance: free, connecting, up, fatal or gone
    \* the Reconnect of the producer and of the consumer
    stopped, timers,
    \* send()
    at, on,     \* where each call is, and the client it waits for
    kind,       \* how it ended
    puts,       \* history: how often the client was given a message of it
    spent,      \* its waitMs, or the request's budget, is over
    aborted,    \* its caller's signal
    \* KafkaConsumerRunner
    joining,    \* what its connect() awaits: nothing, the connect, subscribe and run
    running, consumes, stopping,
    caught,     \* history: stop() came while subscribe or run was awaited
    broker, faults

service  == <<producer, connected, closed, shutdown, instance>>
loops    == <<stopped, timers>>
calls    == <<at, on, kind, puts, spent, aborted>>
consumer == <<joining, running, consumes, stopping, caught>>
vars     == <<service, loops, calls, consumer, broker, faults>>

Owners  == {"producer", "consumer"}
Kinds   == {"ok", "not_connected", "queue_full", "unavailable", "fatal", "rejected"}
Retryable == Kinds \ {"ok", "rejected"}

TypeOK ==
    /\ producer \in Producers \union {None} /\ connected \in BOOLEAN /\ closed \in BOOLEAN
    /\ shutdown \in {"no", "flushing", "done"}
    /\ instance \in [Producers -> {"free", "connecting", "up", "fatal", "gone"}]
    /\ stopped \in [Owners -> BOOLEAN] /\ timers \in [Owners -> Nat]
    /\ at \in [Sends -> {"new", "trying", "sent", "failed", "sleeping", "over"}]
    /\ on \in [Sends -> Producers \union {None}]
    /\ kind \in [Sends -> Kinds \union {None}] /\ puts \in [Sends -> Nat]
    /\ spent \subseteq Sends /\ aborted \subseteq Sends
    /\ joining \in {"no", "connecting", "subscribing"}
    /\ {running, consumes, caught} \subseteq BOOLEAN /\ stopping \in {"no", "leaving", "done"}
    /\ broker \in {"up", "down"} /\ faults \in 0 .. MaxFaults

\* onApplicationBootstrap has started both loops.
Init ==
    /\ producer = None /\ connected = FALSE /\ closed = FALSE /\ shutdown = "no"
    /\ instance = [p \in Producers |-> "free"]
    /\ stopped = [o \in Owners |-> FALSE] /\ timers = [o \in Owners |-> 1]
    /\ at = [s \in Sends |-> "new"] /\ on = [s \in Sends |-> None]
    /\ kind = [s \in Sends |-> None] /\ puts = [s \in Sends |-> 0]
    /\ spent = {} /\ aborted = {}
    /\ joining = "no" /\ running = FALSE /\ consumes = FALSE /\ stopping = "no" /\ caught = FALSE
    /\ broker \in {"up", "down"} /\ faults = 0

Fault == faults < MaxFaults /\ faults' = faults + 1

-----------------------------------------------------------------------------
(* Reconnect: start() and a backoff that is over call #run alike; an       *)
(* attempt that fails sets the next timer, unless stop() came.             *)

Runs(o)      == timers[o] > 0 /\ timers' = [timers EXCEPT ![o] = @ - 1] /\ UNCHANGED stopped
Attempts(o)  == Runs(o) /\ ~stopped[o]
RetryRuns(o) == timers' = [timers EXCEPT ![o] = IF stopped[o] THEN @ ELSE @ + 1] /\ UNCHANGED stopped
Stops(o)     == stopped' = [stopped EXCEPT ![o] = TRUE] /\ timers' = [timers EXCEPT ![o] = 0]

-----------------------------------------------------------------------------
(* KafkaProducerService.connect, replace, onApplicationShutdown.           *)

\* A new client takes the place of one nobody waits for any more.
Reusable(p) == instance[p] \in {"free", "gone"} /\ \A s \in Sends : on[s] # p

\* connect(): this.producer is the new client before it is connected.
Creates(broken) ==
    /\ \E p \in Producers : Reusable(p)
    /\ producer' = CHOOSE p \in Producers : Reusable(p)
    /\ instance' = [p \in Producers |-> IF p = producer' THEN "connecting"
                                        ELSE IF p = broken THEN "gone" ELSE instance[p]]

Connects ==
    /\ Attempts("producer") /\ Creates(None)
    /\ UNCHANGED <<connected, closed, shutdown, calls, consumer, broker, faults>>

\* Mutant: stop() is not looked at again.
ConnectedAnyway(p) ==
    /\ instance[p] = "connecting" /\ broker = "up"
    /\ instance' = [instance EXCEPT ![p] = "up"] /\ connected' = TRUE
    /\ UNCHANGED <<producer, closed, shutdown, loops, calls, consumer, broker, faults>>

Connected(p) ==
    /\ instance[p] = "connecting" /\ broker = "up"
    /\ IF stopped["producer"]
       THEN instance' = [instance EXCEPT ![p] = "gone"] /\ UNCHANGED connected
       ELSE instance' = [instance EXCEPT ![p] = "up"] /\ connected' = TRUE
    /\ UNCHANGED <<producer, closed, shutdown, loops, calls, consumer, broker, faults>>

\* The metadata timeout: a client whose connect() failed is of no more use.
ConnectFails(p) ==
    /\ instance[p] = "connecting" /\ broker = "down"
    /\ instance' = [instance EXCEPT ![p] = "gone"]
    /\ RetryRuns("producer")
    /\ UNCHANGED <<producer, connected, closed, shutdown, calls, consumer, broker, faults>>

\* Mutant: whoever reports a fatal error replaces the producer.
ReplacesAgain(p) == ~stopped["producer"]

Replaces(p) == producer = p /\ ~stopped["producer"]

\* replace(): disconnect the broken client; start() connects a new one at once.
Replace(p) ==
    IF Replaces(p) THEN connected' = FALSE /\ Creates(p) ELSE UNCHANGED <<connected, producer, instance>>

\* librdkafka's idempotent producer breaks.
TurnsFatal(p) ==
    /\ instance[p] = "up" /\ Fault
    /\ instance' = [instance EXCEPT ![p] = "fatal"]
    /\ UNCHANGED <<producer, connected, closed, shutdown, loops, calls, consumer, broker>>

\* onApplicationShutdown, after the consumer's (the module that imports KafkaModule
\* closes first): the disconnect flushes what is on its way; without a connected
\* client there is nothing to wait for.
ShutdownBegins ==
    /\ shutdown = "no" /\ stopping = "done"
    /\ Stops("producer")
    /\ connected' = FALSE
    /\ IF connected THEN shutdown' = "flushing" /\ UNCHANGED closed
                    ELSE shutdown' = "done" /\ closed' = TRUE
    /\ UNCHANGED <<producer, instance, calls, consumer, broker, faults>>

InFlight(p) == {s \in Sends : on[s] = p}

\* The flush ends with the sends, or fails and is logged: closed.abort() either way.
ShutdownEnds ==
    /\ shutdown = "flushing"
    /\ InFlight(producer) = {} \/ broker = "down"
    /\ shutdown' = "done" /\ closed' = TRUE
    /\ instance' = [instance EXCEPT ![producer] = "gone"]
    /\ UNCHANGED <<producer, connected, loops, calls, consumer, broker, faults>>

-----------------------------------------------------------------------------
(* send(): sendWaiting's loop around sendOnce.                             *)

Aborted(s) == closed \/ s \in aborted

Step(s, pc, client, k) ==
    /\ at' = [at EXCEPT ![s] = pc]
    /\ on' = [on EXCEPT ![s] = client]
    /\ kind' = [kind EXCEPT ![s] = k]

Calls(s) ==
    /\ at[s] = "new"
    /\ Step(s, "trying", None, None)
    /\ UNCHANGED <<service, loops, puts, spent, aborted, consumer, broker, faults>>

\* Mutant: a message of a batch is in the queue, the next does not fit, and the
\* whole batch is tried again.
WaitsOutAny(s, k) == k \in {"not_connected", "queue_full"}

Waitable(s, k) == k = "not_connected" \/ (k = "queue_full" /\ s \notin Batches)

\* Mutant: the loop waits for a connection only, whatever happens meanwhile.
WaitsOn(s, k) ==
    IF ~Waitable(s, k) THEN Step(s, "over", None, k) ELSE Step(s, "sleeping", None, k)

\* catch: wait and try again, or throw.
Fails(s, k) ==
    IF ~Waitable(s, k) \/ s \in spent \/ Aborted(s)
    THEN Step(s, "over", None, k) ELSE Step(s, "sleeping", None, k)

\* sendOnce without a producer it may use.
NotConnected(s) ==
    /\ at[s] = "trying" /\ (~connected \/ Aborted(s))
    /\ Fails(s, "not_connected")
    /\ UNCHANGED <<service, loops, puts, spent, aborted, consumer, broker, faults>>

\* The client takes the record; of a batch perhaps a first part only.
Puts(s) ==
    /\ at[s] = "trying" /\ connected /\ ~Aborted(s)
    /\ Step(s, "sent", producer, None)
    /\ puts' = [puts EXCEPT ![s] = @ + 1]
    /\ UNCHANGED <<service, loops, spent, aborted, consumer, broker, faults>>
QueueFull(s) ==
    /\ at[s] = "trying" /\ connected /\ ~Aborted(s) /\ Fault
    /\ puts' = [puts EXCEPT ![s] = IF s \in Batches THEN @ + 1 ELSE @]
    /\ Fails(s, "queue_full")
    /\ UNCHANGED <<service, loops, spent, aborted, consumer, broker>>

\* The delivery report, by the registry of KAFKA_SEND_ERRORS: acknowledged,
\* refused for good, or not acknowledged in message.timeout.ms; a client that was
\* disconnected drops what it holds.
Reports(s) ==
    /\ at[s] = "sent"
    /\ LET live == instance[on[s]] = "up" /\ broker = "up" IN
       \/ live /\ UNCHANGED faults
            /\ Step(s, "over", None, IF s \in Rejected THEN "rejected" ELSE "ok")
       \/ (IF live THEN Fault ELSE UNCHANGED faults)
            /\ Step(s, "over", None, "unavailable")
    /\ UNCHANGED <<service, loops, puts, spent, aborted, consumer, broker>>

\* A client that broke fails all it holds; a fatal error wins over its code.
ReportsFatal(s) ==
    /\ at[s] = "sent" /\ instance[on[s]] \in {"fatal", "gone"}
    /\ Replace(on[s])
    /\ Step(s, "over", None, "fatal")
    /\ UNCHANGED <<closed, shutdown, loops, puts, spent, aborted, consumer, broker, faults>>

\* unlessAborted: not_connected, while the record may still go out.
GivesUp(s) ==
    /\ at[s] = "sent" /\ Aborted(s)
    /\ Fails(s, "not_connected")
    /\ UNCHANGED <<service, loops, puts, spent, aborted, consumer, broker, faults>>

WakesUp(s) ==
    /\ at[s] = "sleeping"
    /\ Step(s, "trying", None, None)
    /\ UNCHANGED <<service, loops, puts, spent, aborted, consumer, broker, faults>>

BudgetRunsOut(s) ==
    /\ at[s] \in {"trying", "sent", "sleeping"} /\ s \notin spent
    /\ spent' = spent \union {s}
    /\ UNCHANGED <<service, loops, at, on, kind, puts, aborted, consumer, broker, faults>>
CallerAborts(s) ==
    /\ at[s] \in {"trying", "sent", "sleeping"} /\ s \notin aborted /\ Fault
    /\ aborted' = aborted \union {s}
    /\ UNCHANGED <<service, loops, at, on, kind, puts, spent, consumer, broker>>

-----------------------------------------------------------------------------
(* KafkaConsumerRunner.connect and stop.                                   *)

Joins ==
    /\ Attempts("consumer")
    /\ joining' = "connecting"
    /\ UNCHANGED <<service, calls, running, consumes, stopping, caught, broker, faults>>

\* connect() has worked: a stopped runner disconnects again, else it subscribes.
Joined ==
    /\ joining = "connecting" /\ broker = "up"
    /\ joining' = IF stopped["consumer"] THEN "no" ELSE "subscribing"
    /\ UNCHANGED <<service, loops, calls, running, consumes, stopping, caught, broker, faults>>

\* run() has: records come.  Nobody looks at `stopped` again.
Consumes ==
    /\ joining = "subscribing" /\ broker = "up"
    /\ joining' = "no" /\ running' = TRUE /\ consumes' = TRUE
    /\ UNCHANGED <<service, loops, calls, stopping, caught, broker, faults>>

JoinFails ==
    /\ joining # "no" /\ broker = "down"
    /\ joining' = "no"
    /\ RetryRuns("consumer")
    /\ UNCHANGED <<service, calls, running, consumes, stopping, caught, broker, faults>>

\* stop(): leave the group, if the runner runs; one still connecting is left alone.
StopBegins ==
    /\ stopping = "no"
    /\ Stops("consumer")
    /\ stopping' = IF running THEN "leaving" ELSE "done"
    /\ caught' = (joining = "subscribing")
    /\ UNCHANGED <<service, calls, joining, running, consumes, broker, faults>>
StopEnds ==
    /\ stopping = "leaving"
    /\ stopping' = "done" /\ running' = FALSE /\ consumes' = FALSE
    /\ UNCHANGED <<service, loops, calls, joining, caught, broker, faults>>

-----------------------------------------------------------------------------
BrokerGoesDown ==
    /\ broker = "up" /\ Fault /\ broker' = "down"
    /\ UNCHANGED <<service, loops, calls, consumer>>
BrokerComesBack ==
    /\ broker = "down" /\ broker' = "up"
    /\ UNCHANGED <<service, loops, calls, consumer, faults>>

SendGoesOn(s) ==
    \/ NotConnected(s) \/ Puts(s) \/ QueueFull(s) \/ Reports(s) \/ ReportsFatal(s)
    \/ GivesUp(s) \/ WakesUp(s)

ClientGoesOn(p) == Connected(p) \/ ConnectFails(p)
RunnerGoesOn    == Joins \/ Joined \/ Consumes \/ JoinFails

Next ==
    \/ \E s \in Sends : Calls(s) \/ SendGoesOn(s) \/ BudgetRunsOut(s) \/ CallerAborts(s)
    \/ \E p \in Producers : ClientGoesOn(p) \/ TurnsFatal(p)
    \/ Connects \/ ShutdownBegins \/ ShutdownEnds
    \/ RunnerGoesOn \/ StopBegins \/ StopEnds
    \/ BrokerGoesDown \/ BrokerComesBack

Spec == Init /\ [][Next]_vars

\* Calls and connects end, backoffs and budgets run out, close hooks go on.
\* Nothing brings a broker back.
Fairness ==
    /\ \A s \in Sends : WF_vars(SendGoesOn(s)) /\ WF_vars(BudgetRunsOut(s))
    /\ \A p \in Producers : WF_vars(ClientGoesOn(p))
    /\ WF_vars(Connects) /\ WF_vars(RunnerGoesOn)
    /\ WF_vars(StopEnds) /\ WF_vars(ShutdownBegins) /\ WF_vars(ShutdownEnds)

FairSpec == Spec /\ Fairness

-----------------------------------------------------------------------------
(* Properties.                                                             *)

Linked == {p \in Producers : instance[p] \in {"up", "fatal"}}
Live   == Linked \union {p \in Producers : instance[p] = "connecting"}

\* However many sends report the same broken client, and whatever connect was under
\* way: there is no client, connected or still connecting, beside the one the service
\* holds, and the service takes a record only when that one is connected.
OneProducer == Live \subseteq {producer} /\ (connected => producer \in Linked)

\* "Nothing was enqueued, safe to wait": the retries of one send never hand the
\* client a message twice.
PutOnce == \A s \in Sends : puts[s] <= 1

\* After the close hooks nothing stays connected and nothing will connect: no timer of
\* a stopped loop is set, and no attempt that was in flight sets another or leaves its
\* client connected. The exception is a consumer whose stop() came between its last
\* look at `stopped` and run(), which consumes until the process ends.
NothingLeftBehind ==
    /\ \A o \in Owners : stopped[o] => timers[o] = 0
    /\ shutdown = "done" => Linked = {} /\ ~connected
    /\ stopping = "done" /\ consumes => caught

\* send() rejects or resolves: at the latest when its budget is over, for a caller's
\* abort or a shutdown at once, for a record on its way when the client gives it up.
EverySendSettles == \A s \in Sends : at[s] # "new" ~> at[s] = "over"

\* One failed connect is not the last: with the broker back, and fatal errors over,
\* a process that is not stopping has its clients connected again.
ClientsComeBack ==
    <>[](broker = "up") =>
        /\ []<>(connected \/ stopped["producer"])
        /\ []<>(running \/ stopped["consumer"])

\* The close hooks return, broker or not: the consumer leaves, then the producer's
\* flush ends with the sends that are on their way, or fails.
ShutdownReturns == stopping # "no" ~> shutdown = "done"

ClientsMakeProgress == EverySendSettles /\ ClientsComeBack /\ ShutdownReturns
=============================================================================
