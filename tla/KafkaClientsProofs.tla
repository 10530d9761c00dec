------------------------- MODULE KafkaClientsProofs -------------------------
(***************************************************************************)
(* Theorems about KafkaClients for any number of sends, client instances   *)
(* and faults.                                                             *)
(***************************************************************************)
EXTENDS KafkaClients, TLAPS

\* A client that is connecting or connected is the service's producer, and while a
\* timer of the producer's loop is set there is none.
OneLiveClient ==
    /\ \A p \in Producers : instance[p] \in {"connecting", "up", "fatal"} => p = producer
    /\ timers["producer"] \in {0, 1}
    /\ timers["producer"] = 1 => \A p \in Producers : instance[p] \in {"free", "gone"}
    /\ connected => producer \in Producers /\ instance[producer] \in {"up", "fatal"}

\* A send waits for a client that was connected when it took the record; that it is
\* gone says that it was replaced or shut down.
WaitsForAClient ==
    \A s \in Sends :
        /\ at[s] = "sent" => on[s] # None
        /\ on[s] # None =>
            /\ instance[on[s]] \in {"up", "fatal", "gone"}
            /\ on[s] = producer /\ ~stopped["producer"] => instance[producer] # "gone"

\* What the close hooks have stopped, and what they have left connected.
Closing ==
    /\ stopped["producer"] <=> shutdown # "no"
    /\ stopped["producer"] => timers["producer"] = 0
    /\ shutdown = "no" /\ ~connected => \A p \in Producers : instance[p] \notin {"up", "fatal"}
    /\ shutdown # "no" => ~connected
    /\ shutdown = "done" => \A p \in Producers : instance[p] \notin {"up", "fatal"}

RunnerStops ==
    /\ stopped["consumer"] <=> stopping # "no"
    /\ stopped["consumer"] => timers["consumer"] = 0
    /\ consumes = running
    /\ stopping # "no" /\ joining = "subscribing" => caught
    /\ stopping = "done" /\ consumes => caught

\* Nothing was put for a send that may still try.
PutsAreOver ==
    \A s \in Sends : puts[s] <= 1 /\ (at[s] \in {"new", "trying", "sleeping"} => puts[s] = 0)

CInv == TypeOK /\ OneLiveClient /\ WaitsForAClient /\ Closing /\ RunnerStops /\ PutsAreOver

LEMMA InitCInv == Init => CInv
  <1> SUFFICES ASSUME Init PROVE CInv
    OBVIOUS
  <1>0. puts = [s \in Sends |-> 0]
    BY DEF Init
  <1>4. PutsAreOver
    <2> SUFFICES ASSUME NEW s \in Sends
                 PROVE  puts[s] <= 1 /\ (at[s] \in {"new", "trying", "sleeping"} => puts[s] = 0)
      BY DEF PutsAreOver
    <2>1. puts[s] = 0
      BY <1>0
    <2> QED BY <2>1
  <1> USE ClientsAssumption DEF Init
  <1>1. TypeOK
    <2>1. {running, consumes, caught} \subseteq BOOLEAN
      OBVIOUS
    <2>2. stopped \in [Owners -> BOOLEAN] /\ timers \in [Owners -> Nat]
      OBVIOUS
    <2>3. /\ at \in [Sends -> {"new", "trying", "sent", "failed", "sleeping", "over"}]
          /\ on \in [Sends -> Producers \union {None}]
          /\ kind \in [Sends -> Kinds \union {None}] /\ puts \in [Sends -> Nat]
      OBVIOUS
    <2>4. instance \in [Producers -> {"free", "connecting", "up", "fatal", "gone"}]
      OBVIOUS
    <2>5. spent \subseteq Sends /\ aborted \subseteq Sends /\ faults \in 0 .. MaxFaults
      OBVIOUS
    <2> QED BY <2>1, <2>2, <2>3, <2>4, <2>5 DEF TypeOK
  <1>2. OneLiveClient /\ WaitsForAClient /\ Closing
    BY DEF OneLiveClient, WaitsForAClient, Closing, Owners
  <1>3. RunnerStops
    BY DEF RunnerStops, Owners
  <1> QED BY <1>1, <1>2, <1>3, <1>4 DEF CInv

-----------------------------------------------------------------------------
(* The producer's clients.                                                 *)

\* A new client is one nobody waits for.
LEMMA NewClient ==
    ASSUME NEW broken, Creates(broken)
    PROVE  /\ producer' \in Producers /\ Reusable(producer')
           /\ instance' = [p \in Producers |-> IF p = producer' THEN "connecting"
                                              ELSE IF p = broken THEN "gone" ELSE instance[p]]
  <1>1. PICK q \in Producers : Reusable(q)
    BY DEF Creates
  <1>2. producer' \in Producers /\ Reusable(producer')
    BY <1>1, Zenon DEF Creates
  <1> QED BY <1>2 DEF Creates

LEMMA ConnectsCInv == ASSUME CInv, Connects PROVE CInv'
  <1> USE ClientsAssumption DEF CInv, Connects, Attempts, Runs, service, calls, consumer
  <1>0. Creates(None)
    OBVIOUS
  <1>1. /\ producer' \in Producers /\ Reusable(producer')
        /\ instance' = [p \in Producers |-> IF p = producer' THEN "connecting" ELSE instance[p]]
    BY <1>0, NewClient
  <1>2. timers["producer"] = 1 /\ timers'["producer"] = 0 /\ timers' \in [Owners -> Nat]
    BY DEF OneLiveClient, TypeOK, Owners
  <1>3. TypeOK'
    BY <1>1, <1>2 DEF TypeOK
  <1>4. OneLiveClient'
    BY <1>1, <1>2 DEF OneLiveClient, TypeOK
  <1>5. WaitsForAClient'
    BY <1>1 DEF WaitsForAClient, TypeOK, Reusable
  <1>6. Closing'
    BY <1>1 DEF Closing
  <1>7. RunnerStops' /\ PutsAreOver'
    BY DEF RunnerStops, PutsAreOver
  <1> QED BY <1>3, <1>4, <1>5, <1>6, <1>7

LEMMA ClientCInv ==
    ASSUME CInv, NEW p \in Producers, ClientGoesOn(p) \/ TurnsFatal(p)
    PROVE  CInv'
  <1> USE ClientsAssumption DEF CInv, loops, calls, consumer, Fault
  <1>1. CASE Connected(p)
    <2> USE <1>1 DEF Connected
    <2>1. TypeOK'
      BY DEF TypeOK
    <2>2. OneLiveClient'
      BY DEF OneLiveClient, TypeOK
    <2>3. WaitsForAClient' /\ Closing'
      BY DEF WaitsForAClient, Closing, TypeOK, OneLiveClient
    <2>4. RunnerStops' /\ PutsAreOver'
      BY DEF RunnerStops, PutsAreOver
    <2> QED BY <2>1, <2>2, <2>3, <2>4
  <1>2. CASE ConnectFails(p)
    <2> USE <1>2 DEF ConnectFails, RetryRuns
    <2>0. p = producer /\ timers["producer"] = 0 /\ timers'["producer"] \in {0, 1}
      BY DEF OneLiveClient, TypeOK, Owners
    <2>1. TypeOK'
      BY DEF TypeOK, Owners
    <2>2. OneLiveClient'
      BY <2>0 DEF OneLiveClient, TypeOK
    <2>3. WaitsForAClient' /\ Closing'
      BY <2>0 DEF WaitsForAClient, Closing, TypeOK
    <2>4. RunnerStops' /\ PutsAreOver'
      BY DEF RunnerStops, PutsAreOver
    <2> QED BY <2>1, <2>2, <2>3, <2>4
  <1>3. CASE TurnsFatal(p)
    <2> USE <1>3 DEF TurnsFatal
    <2>1. TypeOK'
      BY DEF TypeOK
    <2>2. OneLiveClient'
      BY DEF OneLiveClient, TypeOK
    <2>3. WaitsForAClient' /\ Closing'
      BY DEF WaitsForAClient, Closing, TypeOK
    <2>4. RunnerStops' /\ PutsAreOver'
      BY DEF RunnerStops, PutsAreOver
    <2> QED BY <2>1, <2>2, <2>3, <2>4
  <1> QED BY <1>1, <1>2, <1>3 DEF ClientGoesOn

LEMMA ShutdownCInv == ASSUME CInv, ShutdownBegins \/ ShutdownEnds PROVE CInv'
  <1> USE ClientsAssumption DEF CInv, loops, calls, consumer
  <1>1. CASE ShutdownBegins
    <2> USE <1>1 DEF ShutdownBegins, Stops
    <2>1. TypeOK'
      BY DEF TypeOK, Owners
    <2>2. OneLiveClient' /\ WaitsForAClient'
      BY DEF OneLiveClient, WaitsForAClient, TypeOK, Owners
    <2>3. Closing'
      BY DEF Closing, TypeOK, Owners
    <2>4. RunnerStops' /\ PutsAreOver'
      BY DEF RunnerStops, PutsAreOver, TypeOK, Owners
    <2> QED BY <2>1, <2>2, <2>3, <2>4
  <1>2. CASE ShutdownEnds
    <2> USE <1>2 DEF ShutdownEnds
    <2>1. TypeOK'
      BY DEF TypeOK
    <2>2. OneLiveClient'
      BY DEF OneLiveClient, Closing, TypeOK
    <2>3. WaitsForAClient' /\ Closing'
      BY DEF WaitsForAClient, Closing, OneLiveClient, TypeOK
    <2>4. RunnerStops' /\ PutsAreOver'
      BY DEF RunnerStops, PutsAreOver
    <2> QED BY <2>1, <2>2, <2>3, <2>4
  <1> QED BY <1>1, <1>2

-----------------------------------------------------------------------------
(* A send.                                                                 *)

\* Whatever the loop's next step is: the call is over, or sleeps with a cause for
\* which nothing was put.
LEMMA FailsTo ==
    ASSUME NEW s \in Sends, NEW k \in Kinds, Fails(s, k)
    PROVE  \E pc \in {"over", "sleeping"} :
               /\ Step(s, pc, None, k)
               /\ pc = "sleeping" => Waitable(s, k) /\ ~Aborted(s)
  BY DEF Fails

\* A step of a call that leaves the clients alone and puts nothing, or puts for a
\* call that will not try again.
LEMMA StepCInv ==
    ASSUME CInv, NEW s \in Sends,
           NEW pc \in {"trying", "sent", "sleeping", "over"}, NEW c \in {None, producer},
           NEW k \in Kinds \union {None}, Step(s, pc, c, k),
           c # None => connected, pc = "sent" => c = producer /\ connected,
           puts' \in [Sends -> Nat],
           \A r \in Sends : puts'[r] = puts[r] \/ (r = s /\ puts[s] = 0 /\ puts'[s] = 1),
           pc \in {"trying", "sleeping"} => puts'[s] = 0,
           UNCHANGED <<service, loops, spent, aborted, consumer, broker>>,
           faults' \in 0 .. MaxFaults
    PROVE  CInv'
  <1> USE ClientsAssumption DEF CInv, service, loops, consumer, Step
  <1>1. TypeOK'
    BY ZenonT(60) DEF TypeOK
  <1>2. OneLiveClient' /\ Closing' /\ RunnerStops'
    BY DEF OneLiveClient, Closing, RunnerStops
  <1>3. WaitsForAClient'
    BY DEF WaitsForAClient, TypeOK, OneLiveClient
  <1>4. PutsAreOver'
    BY DEF PutsAreOver, TypeOK
  <1> QED BY <1>1, <1>2, <1>3, <1>4

LEMMA PutsCInv ==
    ASSUME CInv, NEW s \in Sends, Puts(s) \/ QueueFull(s)
    PROVE  CInv'
  <1>0. at[s] = "trying"
    BY DEF Puts, QueueFull
  <1>1. puts \in [Sends -> Nat] /\ puts[s] = 0 /\ faults \in 0 .. MaxFaults /\ MaxFaults \in Nat
    BY <1>0, ClientsAssumption DEF CInv, TypeOK, PutsAreOver
  <1>2. CASE Puts(s)
    <2>1. /\ puts' \in [Sends -> Nat]
          /\ \A r \in Sends : puts'[r] = puts[r] \/ (r = s /\ puts[s] = 0 /\ puts'[s] = 1)
      BY <1>1, <1>2 DEF Puts
    <2>2. Step(s, "sent", producer, None) /\ connected
      BY <1>2 DEF Puts
    <2>3. UNCHANGED <<service, loops, spent, aborted, consumer, broker>> /\ faults' \in 0 .. MaxFaults
      BY <1>1, <1>2 DEF Puts
    <2> QED BY <2>1, <2>2, <2>3, StepCInv
  <1>3. CASE QueueFull(s)
    <2>1. /\ puts' \in [Sends -> Nat]
          /\ \A r \in Sends : puts'[r] = puts[r] \/ (r = s /\ puts[s] = 0 /\ puts'[s] = 1)
          /\ s \notin Batches => puts'[s] = 0
      BY <1>1, <1>3 DEF QueueFull
    <2>2. PICK pc \in {"over", "sleeping"} :
            /\ Step(s, pc, None, "queue_full")
            /\ pc = "sleeping" => Waitable(s, "queue_full")
      BY <1>3, FailsTo DEF QueueFull, Kinds
    <2>3. pc = "sleeping" => puts'[s] = 0
      BY <2>1, <2>2 DEF Waitable
    <2>4. UNCHANGED <<service, loops, spent, aborted, consumer, broker>> /\ faults' \in 0 .. MaxFaults
      BY <1>1, <1>3 DEF QueueFull, Fault
    <2>5. "queue_full" \in Kinds
      BY DEF Kinds
    <2> QED BY <2>1, <2>2, <2>3, <2>4, <2>5, StepCInv
  <1> QED BY <1>2, <1>3

\* The steps of send() that put nothing and change nothing but the call.
LEMMA SendCInv ==
    ASSUME CInv, NEW s \in Sends,
           Calls(s) \/ NotConnected(s) \/ Reports(s) \/ GivesUp(s) \/ WakesUp(s)
    PROVE  CInv'
  <1>1. /\ puts \in [Sends -> Nat] /\ faults \in 0 .. MaxFaults /\ MaxFaults \in Nat
        /\ at[s] \in {"new", "trying", "sleeping"} => puts[s] = 0
    BY ClientsAssumption DEF CInv, TypeOK, PutsAreOver
  <1>2. UNCHANGED <<service, loops, puts, spent, aborted, consumer, broker>> /\ faults' \in 0 .. MaxFaults
    BY <1>1 DEF Calls, NotConnected, Reports, GivesUp, WakesUp, Fault
  <1>3. PICK pc \in {"trying", "sleeping", "over"}, k \in Kinds \union {None} :
          /\ Step(s, pc, None, k)
          /\ pc \in {"trying", "sleeping"} => puts'[s] = 0
    <2>1. CASE Calls(s) \/ WakesUp(s)
      BY <1>1, <2>1 DEF Calls, WakesUp
    <2>2. CASE NotConnected(s)
      BY <1>1, <2>2, FailsTo DEF NotConnected, Kinds
    <2>3. CASE Reports(s)
      BY <2>3 DEF Reports, Kinds
    <2>4. CASE GivesUp(s)
      BY <2>4, FailsTo DEF GivesUp, Kinds
    <2> QED BY <2>1, <2>2, <2>3, <2>4
  <1>4. puts' = puts
    BY <1>2
  <1> QED BY <1>1, <1>2, <1>3, <1>4, StepCInv

\* The one step of a send that replaces the producer.
LEMMA ReportsFatalCInv == ASSUME CInv, NEW s \in Sends, ReportsFatal(s) PROVE CInv'
  <1> DEFINE p == on[s]
  <1> USE ClientsAssumption DEF CInv, loops, consumer, ReportsFatal, Step
  <1>1. CASE ~Replaces(p)
    <2> USE <1>1 DEF Replace
    <2>1. TypeOK'
      BY DEF TypeOK, Kinds
    <2>2. OneLiveClient' /\ Closing' /\ RunnerStops'
      BY DEF OneLiveClient, Closing, RunnerStops
    <2>3. WaitsForAClient' /\ PutsAreOver'
      BY DEF WaitsForAClient, PutsAreOver, TypeOK
    <2> QED BY <2>1, <2>2, <2>3
  <1>2. CASE Replaces(p)
    <2>1. Creates(p) /\ connected' = FALSE /\ p = producer /\ ~stopped["producer"]
      BY <1>2 DEF Replace, Replaces
    <2>2. /\ producer' \in Producers /\ Reusable(producer')
          /\ instance' = [q \in Producers |-> IF q = producer' THEN "connecting"
                                             ELSE IF q = p THEN "gone" ELSE instance[q]]
      BY <2>1, NewClient
    <2>3. p # producer' /\ on[s] # None
      BY <2>2 DEF Reusable, WaitsForAClient
    <2>4. TypeOK'
      BY <2>1, <2>2 DEF TypeOK, Kinds
    <2>5. instance[p] = "fatal" /\ timers["producer"] = 0
      BY <2>1, <2>3 DEF WaitsForAClient, OneLiveClient, TypeOK
    <2>6. OneLiveClient'
      BY <2>1, <2>2, <2>3, <2>5 DEF OneLiveClient
    <2>7. WaitsForAClient'
      BY <2>1, <2>2, <2>3 DEF WaitsForAClient, TypeOK, Reusable
    <2>8. Closing'
      BY <2>1, <2>2, <2>3 DEF Closing, OneLiveClient
    <2>9. RunnerStops' /\ PutsAreOver'
      BY DEF RunnerStops, PutsAreOver, TypeOK
    <2> QED BY <2>4, <2>6, <2>7, <2>8, <2>9
  <1> QED BY <1>1, <1>2

-----------------------------------------------------------------------------
(* The consumer's runner, and the world.                                   *)

LEMMA RunnerCInv == ASSUME CInv, RunnerGoesOn \/ StopBegins \/ StopEnds PROVE CInv'
  <1> USE ClientsAssumption DEF CInv, service, loops, calls, RunnerGoesOn, Attempts, Runs, RetryRuns,
          Stops, Joins, Joined, Consumes, JoinFails, StopBegins, StopEnds
  <1>1. TypeOK'
    <2>1. {running', consumes', caught'} \subseteq BOOLEAN
      BY DEF TypeOK
    <2>2. stopped' \in [Owners -> BOOLEAN] /\ timers' \in [Owners -> Nat]
      <3>1. "consumer" \in Owners /\ timers["consumer"] \in Nat
        BY DEF TypeOK, Owners
      <3>2. CASE Joins
        BY <3>1, <3>2 DEF TypeOK
      <3>3. CASE Joined \/ Consumes \/ StopEnds
        BY <3>3 DEF TypeOK
      <3>4. CASE JoinFails
        BY <3>1, <3>4 DEF TypeOK
      <3>5. CASE StopBegins
        BY <3>1, <3>5 DEF TypeOK
      <3> QED BY <3>2, <3>3, <3>4, <3>5
    <2>3. joining' \in {"no", "connecting", "subscribing"} /\ stopping' \in {"no", "leaving", "done"}
      BY DEF TypeOK
    <2> QED BY <2>1, <2>2, <2>3 DEF TypeOK
  <1>2. OneLiveClient' /\ WaitsForAClient' /\ Closing'
    <2>1. timers'["producer"] = timers["producer"] /\ stopped'["producer"] = stopped["producer"]
      BY DEF TypeOK, Owners
    <2> QED BY <2>1 DEF OneLiveClient, WaitsForAClient, Closing
  <1>3. RunnerStops'
    <2>1. CASE StopBegins
      BY <2>1 DEF RunnerStops, TypeOK, Owners
    <2>2. CASE StopEnds
      BY <2>2 DEF RunnerStops
    <2>3. CASE RunnerGoesOn
      <3>1. stopped' = stopped /\ stopping' = stopping /\ caught' = caught
        BY <2>3
      <3>2. CASE Joins
        BY <3>1, <3>2 DEF RunnerStops
      <3>3. CASE Joined
        BY <3>1, <3>3 DEF RunnerStops
      <3>4. CASE Consumes
        BY <3>1, <3>4 DEF RunnerStops
      <3>5. CASE JoinFails
        BY <3>1, <3>5 DEF RunnerStops
      <3> QED BY <2>3, <3>2, <3>3, <3>4, <3>5
    <2> QED BY <2>1, <2>2, <2>3
  <1>4. PutsAreOver'
    BY DEF PutsAreOver
  <1> QED BY <1>1, <1>2, <1>3, <1>4

LEMMA WorldCInv ==
    ASSUME CInv,
           \/ BrokerGoesDown \/ BrokerComesBack \/ UNCHANGED vars
           \/ \E s \in Sends : BudgetRunsOut(s) \/ CallerAborts(s)
    PROVE  CInv'
  <1> USE ClientsAssumption DEF CInv, vars, service, loops, calls, consumer, Fault,
          BrokerGoesDown, BrokerComesBack, BudgetRunsOut, CallerAborts
  <1>1. TypeOK'
    BY DEF TypeOK
  <1>2. OneLiveClient' /\ WaitsForAClient' /\ Closing' /\ RunnerStops' /\ PutsAreOver'
    BY DEF OneLiveClient, WaitsForAClient, Closing, RunnerStops, PutsAreOver
  <1> QED BY <1>1, <1>2

LEMMA NextCInv == ASSUME CInv, [Next]_vars PROVE CInv'
  <1>1. ASSUME NEW s \in Sends, SendGoesOn(s) PROVE CInv'
    BY <1>1, PutsCInv, SendCInv, ReportsFatalCInv DEF SendGoesOn
  <1> QED BY <1>1, SendCInv, ClientCInv, ConnectsCInv, ShutdownCInv, RunnerCInv, WorldCInv DEF Next

-----------------------------------------------------------------------------
(* Theorems.                                                               *)

LEMMA SpecCInv == Spec => []CInv
  BY InitCInv, NextCInv, PTL DEF Spec

\* Types of the Kafka clients: faults stay within their bound, and every timer,
\* client instance and call is in a state the code has a name for.
THEOREM ClientsTypeCorrect == Spec => []TypeOK
  BY SpecCInv, PTL DEF CInv

\* There is never a client, connected or connecting, beside the one that
\* KafkaProducerService holds, however many sends report the same broken one and
\* whatever connect() is under way when it is replaced or shut down; sendOnce finds a
\* connected client behind `connected`.
THEOREM NeverTwoProducers == Spec => []OneProducer
  <1>1. ASSUME CInv PROVE OneProducer
    <2>1. Live \subseteq {producer}
      BY <1>1 DEF Live, Linked, CInv, OneLiveClient
    <2>2. connected => producer \in Linked
      BY <1>1 DEF Linked, CInv, OneLiveClient
    <2> QED BY <2>1, <2>2 DEF OneProducer
  <1> QED BY <1>1, SpecCInv, PTL

\* sendWaiting's retries hand the client a message at most once: it waits and tries
\* again only when sendOnce failed with nothing enqueued.
THEOREM NeverPutTwice == Spec => []PutOnce
  <1>1. ASSUME CInv PROVE PutOnce
    BY <1>1 DEF CInv, PutsAreOver, PutOnce
  <1> QED BY <1>1, SpecCInv, PTL

\* A Reconnect that was stopped has no timer and gets none; after
\* onApplicationShutdown no producer is connected, not even one whose connect() ends
\* later; a stopped consumer consumes only if stop() came while subscribe or run was
\* awaited.
THEOREM ShutdownLeavesNothing == Spec => []NothingLeftBehind
  <1>1. ASSUME CInv PROVE NothingLeftBehind
    <2>1. \A o \in Owners : stopped[o] => timers[o] = 0
      BY <1>1 DEF CInv, Closing, RunnerStops, Owners
    <2> QED BY <1>1, <2>1 DEF CInv, Closing, RunnerStops, NothingLeftBehind, Linked
  <1> QED BY <1>1, SpecCInv, PTL
=============================================================================
