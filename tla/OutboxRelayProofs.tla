-------------------------- MODULE OutboxRelayProofs --------------------------
(***************************************************************************)
(* Theorems about OutboxRelay for any number of replicas, keys and events, *)
(* any batch size and attempt limit and any number of faults.              *)
(***************************************************************************)
EXTENDS OutboxRelay, FiniteSetTheorems, TLAPS

\* A row in a relay's batch: while the session lives the relay holds its lock,
\* so nobody else deletes it or counts an attempt for it.
RowInv(r, e) ==
    outcome[r][e] # "none" =>
        /\ pc[r] = "busy" /\ tx[e] = "committed"
        /\ session[r] => lock[e] = r /\ e \in outbox /\ attempts[e] < MaxAttempts
        /\ outcome[r][e] = "sent" => copies[e] > 0
        /\ outcome[r][e] = "poison" => e \in Rejected

\* The table and the topic agree with the transactions that wrote them.
EventInv(e) ==
    /\ e \in outbox => tx[e] = "committed"
    /\ copies[e] > 0 => tx[e] = "committed"
    /\ tx[e] = "committed" => e \in outbox \/ copies[e] > 0
    /\ attempts[e] > 0 => e \in Rejected

\* A relay that is shutting down is in its last pass or past it.
ShutdownInv(r) == life[r] = "running" \/ pc[r] \in {"busy", "stopped"}

IInv ==
    /\ TypeOK
    /\ \A r \in Relays, e \in Events : RowInv(r, e)
    /\ \A e \in Events : EventInv(e)
    /\ \A r \in Relays : ShutdownInv(r)

\* FirstRows takes a part of the rows it is given.
LEMMA FirstRowsSubset == ASSUME NEW S PROVE FirstRows(S) \subseteq S
  BY DEF FirstRows

\* The invariant holds before anything has been written.
LEMMA InitIInv == Init => IInv
  BY OutboxAssumption
  DEF Init, IInv, TypeOK, RowInv, EventInv, ShutdownInv, NoBatch, TxStates, Outcomes

------------------------------------------------------------------------------
(* Every step preserves the invariant; one lemma per kind of step.         *)

LEMMA WriterStepIInv == IInv /\ WriterStep => IInv'
  <1> SUFFICES ASSUME IInv, NEW e \in Events,
                      \/ \E k \in Keys : WriteInTransaction(e, k)
                      \/ CommitTransaction(e)
                      \/ AbortTransaction(e)
               PROVE  IInv'
    BY DEF WriterStep
  <1> USE OutboxAssumption DEF IInv, TypeOK, RowInv, EventInv, ShutdownInv, TxStates, Outcomes,
                               kafka, budgets
  <1>1. ASSUME NEW k \in Keys, WriteInTransaction(e, k) PROVE IInv'
    BY <1>1 DEF WriteInTransaction
  <1>2. CASE CommitTransaction(e)
    BY <1>2 DEF CommitTransaction
  <1>3. CASE AbortTransaction(e)
    BY <1>3 DEF AbortTransaction
  <1> QED BY <1>1, <1>2, <1>3

LEMMA SelectBatchIInv == ASSUME IInv, NEW r \in Relays, SelectBatch(r) PROVE IInv'
  <1> DEFINE rows == FirstRows(Selectable)
  <1>1. /\ rows \subseteq outbox
        /\ \A e \in rows : e \in Events /\ attempts[e] < MaxAttempts /\ lock[e] = None
    BY FirstRowsSubset DEF Selectable, IInv, TypeOK
  <1> HIDE DEF rows
  <1>2. /\ lock' = [e \in Events |-> IF e \in rows THEN r ELSE lock[e]]
        /\ outcome' = [outcome EXCEPT ![r] =
                         [e \in Events |-> IF e \in rows THEN "pending" ELSE "none"]]
        /\ pc' = [pc EXCEPT ![r] = "busy"] /\ session' = [session EXCEPT ![r] = TRUE]
        /\ pc[r] = "idle"
        /\ UNCHANGED <<tables, life, broker, kafka, disturbed, budgets>>
    BY DEF SelectBatch, rows
  <1> USE OutboxAssumption, <1>1, <1>2
      DEF IInv, TypeOK, EventInv, ShutdownInv, tables, kafka, budgets
  <1>3. TypeOK'
    BY DEF Outcomes
  <1>4. ASSUME NEW s \in Relays, NEW e \in Events PROVE RowInv(s, e)'
    <2>1. CASE s = r
      BY <2>1 DEF RowInv
    <2>2. CASE s # r
      BY <2>2 DEF RowInv
    <2> QED BY <2>1, <2>2
  <1>5. \A e \in Events : EventInv(e)'
    OBVIOUS
  <1>6. \A s \in Relays : ShutdownInv(s)'
    OBVIOUS
  <1> QED BY <1>3, <1>4, <1>5, <1>6

LEMMA SendStepIInv == ASSUME IInv, NEW r \in Relays, SendStep(r) PROVE IInv'
  <1> SUFFICES ASSUME NEW e \in Events,
                      \/ Acknowledged(r, e) \/ AckLost(r, e)
                      \/ Unavailable(r, e) \/ RejectedByKafka(r, e)
               PROVE  IInv'
    BY DEF SendStep
  <1> USE OutboxAssumption
      DEF IInv, TypeOK, RowInv, EventInv, ShutdownInv, tables, kafka, budgets, Outcomes,
          Sending, SendEnds, Append1, Fault
  <1>1. CASE Acknowledged(r, e)
    BY <1>1 DEF Acknowledged
  <1>2. CASE AckLost(r, e)
    BY <1>2 DEF AckLost
  <1>3. CASE Unavailable(r, e)
    BY <1>3 DEF Unavailable
  <1>4. CASE RejectedByKafka(r, e)
    BY <1>4 DEF RejectedByKafka
  <1> QED BY <1>1, <1>2, <1>3, <1>4

\* The end of a pass that wrote its results: by RowInv every row it touches is
\* its own.
LEMMA WriteResultsIInv ==
    ASSUME IInv, NEW r \in Relays, session[r], WriteResults(r), PassEnds(r),
           UNCHANGED <<life, broker, kafka, disturbed, outages, ops>>, faults' \in 0 .. MaxFaults
    PROVE  IInv'
  <1> USE OutboxAssumption
      DEF IInv, TypeOK, RowInv, EventInv, ShutdownInv, kafka, Outcomes, PassEnds, WriteResults,
          Counted, With, Unlocked, NoBatch
  <1>1. TypeOK'
    OBVIOUS
  <1>2. ASSUME NEW s \in Relays, NEW e \in Events PROVE RowInv(s, e)'
    <2>1. CASE s = r
      BY <2>1
    <2>2. CASE s # r
      <3>1. session[s] /\ outcome[s][e] # "none" => outcome[r][e] = "none"
        BY <2>2
      <3> QED BY <2>2, <3>1
    <2> QED BY <2>1, <2>2
  <1>3. ASSUME NEW e \in Events PROVE EventInv(e)'
    OBVIOUS
  <1>4. ASSUME NEW s \in Relays PROVE ShutdownInv(s)'
    OBVIOUS
  <1> QED BY <1>1, <1>2, <1>3, <1>4

\* The end of a pass that wrote nothing.
LEMMA NoResultsIInv ==
    ASSUME IInv, NEW r \in Relays, PassEnds(r),
           UNCHANGED <<tables, life, broker, kafka, disturbed, outages, ops>>,
           faults' \in 0 .. MaxFaults
    PROVE  IInv'
  BY OutboxAssumption
  DEF IInv, TypeOK, RowInv, EventInv, ShutdownInv, tables, kafka, Outcomes, PassEnds, Unlocked,
      NoBatch

LEMMA PassEndStepIInv ==
    ASSUME IInv, NEW r \in Relays,
           \/ CommitBatch(r) \/ RollBackBatch(r) \/ CommitFails(r) \/ CommitAnswerLost(r)
    PROVE  IInv'
  <1>1. faults \in 0 .. MaxFaults /\ (Fault => faults' \in 0 .. MaxFaults)
    BY OutboxAssumption DEF IInv, TypeOK, Fault
  <1>2. CASE CommitBatch(r)
    BY <1>1, <1>2, WriteResultsIInv DEF CommitBatch, budgets
  <1>3. CASE RollBackBatch(r)
    BY <1>1, <1>3, NoResultsIInv DEF RollBackBatch, budgets
  <1>4. CASE CommitFails(r)
    BY <1>1, <1>4, NoResultsIInv DEF CommitFails, Fault
  <1>5. CASE CommitAnswerLost(r)
    BY <1>1, <1>5, WriteResultsIInv DEF CommitAnswerLost, Fault
  <1> QED BY <1>2, <1>3, <1>4, <1>5

LEMMA ProcessStepIInv ==
    ASSUME IInv, NEW r \in Relays,
           \/ SessionKilled(r) \/ BeginShutdown(r) \/ DrainTimesOut(r) \/ Exit(r)
           \/ Crash(r) \/ Restart(r)
    PROVE  IInv'
  <1> USE OutboxAssumption
      DEF IInv, TypeOK, RowInv, EventInv, ShutdownInv, tables, kafka, budgets, Outcomes
  <1>1. CASE SessionKilled(r)
    BY <1>1 DEF SessionKilled, Fault, Unlocked
  <1>2. CASE BeginShutdown(r)
    BY <1>2 DEF BeginShutdown
  <1>3. CASE DrainTimesOut(r)
    BY <1>3 DEF DrainTimesOut
  <1>4. CASE Exit(r)
    BY <1>4 DEF Exit
  <1>5. CASE Crash(r)
    BY <1>5 DEF Crash, Fault, NoBatch, Batch
  <1>6. CASE Restart(r)
    BY <1>6 DEF Restart
  <1> QED BY <1>1, <1>2, <1>3, <1>4, <1>5, <1>6

LEMMA EnvironmentStepIInv ==
    ASSUME IInv,
           ReapOrphans \/ BrokerDown \/ BrokerUp \/ \E e \in Events : OperatorResets(e)
    PROVE  IInv'
  <1> USE OutboxAssumption
      DEF IInv, TypeOK, RowInv, EventInv, ShutdownInv, tables, kafka, budgets, Outcomes
  <1>1. CASE ReapOrphans
    BY <1>1 DEF ReapOrphans
  <1>2. CASE BrokerDown
    BY <1>2 DEF BrokerDown
  <1>3. CASE BrokerUp
    BY <1>3 DEF BrokerUp
  <1>4. ASSUME NEW e \in Events, OperatorResets(e) PROVE IInv'
    BY <1>4 DEF OperatorResets
  <1> QED BY <1>1, <1>2, <1>3, <1>4

LEMMA StutterIInv == IInv /\ UNCHANGED vars => IInv'
  BY DEF vars, tables, kafka, budgets, IInv, TypeOK, RowInv, EventInv, ShutdownInv, Outcomes

LEMMA NextIInv == IInv /\ [Next]_vars => IInv'
  <1> SUFFICES ASSUME IInv, Next PROVE IInv'
    BY StutterIInv
  <1>1. CASE WriterStep
    BY <1>1, WriterStepIInv
  <1>2. ASSUME NEW r \in Relays, RelayStep(r) PROVE IInv'
    BY <1>2, SelectBatchIInv, SendStepIInv, PassEndStepIInv, ProcessStepIInv DEF RelayStep
  <1>3. CASE ReapOrphans \/ BrokerDown \/ BrokerUp \/ \E e \in Events : OperatorResets(e)
    BY <1>3, EnvironmentStepIInv
  <1> QED BY <1>1, <1>2, <1>3 DEF Next

\* Every reachable state satisfies the inductive invariant.
LEMMA Invariance == Spec => []IInv
  BY InitIInv, NextIInv, PTL DEF Spec

------------------------------------------------------------------------------
(* The theorems.                                                           *)

\* The variables keep their types; above all no row's attempts ever exceed
\* OUTBOX_MAX_ATTEMPTS, which needs the row locks: a relay counts an attempt only
\* for a row it alone may touch.
THEOREM TypeCorrect == Spec => []TypeOK
  <1>1. IInv => TypeOK
    BY DEF IInv
  <1> QED BY <1>1, Invariance, PTL

\* No two relays with a live session ever send the same row.
THEOREM SkipLockedIsExclusive == Spec => []NoDoubleSend
  <1>1. IInv => NoDoubleSend
    BY DEF IInv, RowInv, NoDoubleSend, Batch
  <1> QED BY <1>1, Invariance, PTL

\* No outage can dead-letter an event.
THEOREM OutagesParkNothing == Spec => []OnlyRejectedRowsAreCounted
  <1>1. IInv => OnlyRejectedRowsAreCounted
    BY DEF IInv, EventInv, OnlyRejectedRowsAreCounted
  <1> QED BY <1>1, Invariance, PTL

\* A relay whose shutdown has begun starts no further pass.
THEOREM ShutdownStartsNoPass == Spec => NoPassAfterShutdownBegins
  <1>1. ASSUME IInv, Next, NEW r \in Relays, life[r] # "running", pc[r] # "busy"
        PROVE  pc'[r] # "busy"
    <2> USE <1>1 DEF IInv, TypeOK, ShutdownInv
    <2>1. pc[r] = "stopped"
      OBVIOUS
    <2>2. CASE WriterStep
      BY <2>1, <2>2 DEF WriterStep, WriteInTransaction, CommitTransaction, AbortTransaction
    <2>3. ASSUME NEW s \in Relays, RelayStep(s) PROVE pc'[r] # "busy"
      BY <2>1, <2>3
      DEF RelayStep, SelectBatch, SendStep, Acknowledged, AckLost, Unavailable, RejectedByKafka,
          CommitBatch, RollBackBatch, CommitFails, CommitAnswerLost, PassEnds, SessionKilled,
          BeginShutdown, DrainTimesOut, Exit, Crash, Restart
    <2>4. CASE ReapOrphans \/ BrokerDown \/ BrokerUp \/ \E e \in Events : OperatorResets(e)
      BY <2>1, <2>4 DEF ReapOrphans, BrokerDown, BrokerUp, OperatorResets
    <2> QED BY <2>2, <2>3, <2>4 DEF Next
  <1>2. IInv /\ [Next]_vars =>
          [\A r \in Relays : life[r] # "running" /\ pc[r] # "busy" => pc'[r] # "busy"]_vars
    BY <1>1
  <1> QED BY <1>2, Invariance, PTL DEF Spec, NoPassAfterShutdownBegins

------------------------------------------------------------------------------
(* The refinement: what the outbox does is what AtLeastOnce promises.      *)

LEMMA RefinementInit == Init => Promise!Init
  BY DEF Init, Promise!Init, Committed, Published

\* A step of a business transaction accepts its event or changes nothing.
LEMMA WriterRefines ==
    ASSUME IInv, WriterStep PROVE Promise!Next \/ UNCHANGED Promise!vars
  <1> SUFFICES ASSUME NEW e \in Events,
                      \/ \E k \in Keys : WriteInTransaction(e, k)
                      \/ CommitTransaction(e)
                      \/ AbortTransaction(e)
               PROVE  Promise!Next \/ UNCHANGED Promise!vars
    BY DEF WriterStep
  <1> USE DEF IInv, TypeOK, Committed, Published, kafka, Promise!vars
  <1>1. ASSUME NEW k \in Keys, WriteInTransaction(e, k) PROVE UNCHANGED Promise!vars
    BY <1>1 DEF WriteInTransaction
  <1>2. ASSUME CommitTransaction(e) PROVE Promise!Accept(e)
    BY <1>2 DEF CommitTransaction, Promise!Accept
  <1>3. ASSUME AbortTransaction(e) PROVE UNCHANGED Promise!vars
    BY <1>3 DEF AbortTransaction
  <1> QED BY <1>1, <1>2, <1>3 DEF Promise!Next

\* A record Kafka appends is one of an accepted event.
LEMMA SendRefines ==
    ASSUME IInv, NEW r \in Relays, SendStep(r) PROVE Promise!Next \/ UNCHANGED Promise!vars
  <1> SUFFICES ASSUME NEW e \in Events,
                      \/ Acknowledged(r, e) \/ AckLost(r, e)
                      \/ Unavailable(r, e) \/ RejectedByKafka(r, e)
               PROVE  Promise!Next \/ UNCHANGED Promise!vars
    BY DEF SendStep
  <1> USE DEF IInv, TypeOK, RowInv, Committed, Published, kafka, tables, Promise!vars
  <1>1. ASSUME Acknowledged(r, e) \/ AckLost(r, e) PROVE Promise!Publish(e)
    BY <1>1 DEF Acknowledged, AckLost, Sending, Append1, Promise!Publish
  <1>2. ASSUME Unavailable(r, e) \/ RejectedByKafka(r, e) PROVE UNCHANGED Promise!vars
    BY <1>2 DEF Unavailable, RejectedByKafka
  <1> QED BY <1>1, <1>2 DEF Promise!Next

\* What a pass deletes was published: by RowInv its rows are pending and the ones
\* it counts as sent are in Kafka.
LEMMA WriteResultsRefines ==
    ASSUME IInv, NEW r \in Relays, session[r], WriteResults(r), UNCHANGED kafka
    PROVE  Promise!Next
  <1> USE DEF IInv, TypeOK, RowInv, Committed, Published, kafka, With
  <1>1. With(r, "sent") \subseteq outbox \intersect Published
    OBVIOUS
  <1>2. Promise!Retire(With(r, "sent"))
    BY <1>1 DEF WriteResults, Promise!Retire
  <1>3. With(r, "sent") \in SUBSET Events
    OBVIOUS
  <1> QED BY <1>2, <1>3 DEF Promise!Next

LEMMA OtherStepsRefine ==
    ASSUME IInv, UNCHANGED <<tx, outbox, copies>> PROVE UNCHANGED Promise!vars
  BY DEF Committed, Published, Promise!vars

LEMMA StepRefines == IInv /\ [Next]_vars => [Promise!Next]_(Promise!vars)
  <1> SUFFICES ASSUME IInv, [Next]_vars PROVE Promise!Next \/ UNCHANGED Promise!vars
    OBVIOUS
  <1>1. CASE WriterStep
    BY <1>1, WriterRefines
  <1>2. ASSUME NEW r \in Relays, RelayStep(r) PROVE Promise!Next \/ UNCHANGED Promise!vars
    <2>1. CASE SendStep(r)
      BY <2>1, SendRefines
    <2>2. CASE CommitBatch(r) \/ CommitAnswerLost(r)
      BY <2>2, WriteResultsRefines DEF CommitBatch, CommitAnswerLost
    <2>3. CASE \/ SelectBatch(r) \/ RollBackBatch(r) \/ CommitFails(r) \/ SessionKilled(r)
               \/ BeginShutdown(r) \/ DrainTimesOut(r) \/ Exit(r) \/ Crash(r) \/ Restart(r)
      <3>1. UNCHANGED <<tx, outbox, copies>>
        BY <2>3 DEF SelectBatch, RollBackBatch, CommitFails, SessionKilled, BeginShutdown,
                    DrainTimesOut, Exit, Crash, Restart, tables, kafka
      <3> QED BY <3>1, OtherStepsRefine
    <2> QED BY <1>2, <2>1, <2>2, <2>3 DEF RelayStep
  <1>3. CASE \/ ReapOrphans \/ BrokerDown \/ BrokerUp
             \/ \E e \in Events : OperatorResets(e)
    <2>1. UNCHANGED <<tx, outbox, copies>>
      BY <1>3 DEF ReapOrphans, BrokerDown, BrokerUp, OperatorResets, tables, kafka
    <2> QED BY <2>1, OtherStepsRefine
  <1>4. CASE UNCHANGED vars
    BY <1>4, OtherStepsRefine DEF vars, tables, kafka
  <1> QED BY <1>1, <1>2, <1>3, <1>4 DEF Next

\* The outbox implements at-least-once delivery: no committed event is lost and
\* none is published for a write that did not commit, through any crash, lost
\* session, failed COMMIT, lost acknowledgement or outage of any replica.
THEOREM OutboxDeliversAtLeastOnce == Spec => DeliversAtLeastOnce
  BY RefinementInit, StepRefines, Invariance, PTL DEF Spec, DeliversAtLeastOnce, Promise!Spec

\* In the words of the abstract channel: a committed event is in the outbox or
\* in Kafka, whatever has happened to it on the way.
THEOREM OutboxLosesNothing == Spec => []Promise!NothingLost
  <1>1. Promise!Init => Promise!NothingLost
    BY DEF Promise!Init, Promise!NothingLost
  <1>2. Promise!NothingLost /\ [Promise!Next]_(Promise!vars) => Promise!NothingLost'
    <2> SUFFICES ASSUME Promise!NothingLost, [Promise!Next]_(Promise!vars)
                 PROVE  Promise!NothingLost'
      OBVIOUS
    <2>1. ASSUME NEW e \in Events, Promise!Accept(e) \/ Promise!Publish(e)
          PROVE  Promise!NothingLost'
      BY <2>1 DEF Promise!Accept, Promise!Publish, Promise!NothingLost
    <2>2. ASSUME NEW S \in SUBSET Events, Promise!Retire(S) PROVE Promise!NothingLost'
      BY <2>2 DEF Promise!Retire, Promise!NothingLost
    <2>3. CASE UNCHANGED Promise!vars
      BY <2>3 DEF Promise!vars, Promise!NothingLost
    <2> QED BY <2>1, <2>2, <2>3 DEF Promise!Next
  <1> QED
    BY <1>1, <1>2, OutboxDeliversAtLeastOnce, PTL DEF DeliversAtLeastOnce, Promise!Spec

------------------------------------------------------------------------------
(* What a record of an event costs.                                        *)

\* Relays that still send an event although Postgres has ended their session.
Zombies(e) == {r \in Relays : outcome[r][e] = "pending" /\ ~session[r]}

\* A batch whose session lives, now or later, may send the event: it is not yet
\* deleted, and no such batch has its acknowledgement.
Open(e) ==
    /\ ~(tx[e] = "committed" /\ e \notin outbox)
    /\ \A r \in Relays : session[r] => outcome[r][e] # "sent"

One(b) == IF b THEN 1 ELSE 0

\* An event's records, and those that may come without another fault.
Charged(e) ==
    IsFiniteSet(Zombies(e)) /\ copies[e] + One(Open(e)) + Cardinality(Zombies(e)) <= 1 + faults

DInv == IInv /\ \A e \in Events : Charged(e)

LEMMA InitDInv == Init => DInv
  <1> SUFFICES ASSUME Init PROVE DInv
    OBVIOUS
  <1>1. ASSUME NEW e \in Events PROVE Charged(e)
    <2>1. Zombies(e) = {}
      BY <1>1 DEF Init, Zombies, NoBatch
    <2>2. IsFiniteSet(Zombies(e)) /\ Cardinality(Zombies(e)) = 0
      BY <2>1, FS_EmptySet
    <2>3. copies[e] = 0 /\ faults = 0
      BY DEF Init
    <2> QED BY <2>2, <2>3 DEF Charged, One
  <1> QED BY <1>1, InitIInv DEF DInv

\* The ways a step keeps the account of an event: nothing more is open; the live
\* batch's or a zombie's send has been made; a fault adds one to it.
Sends(e) == copies'[e] = copies[e] + 1
Keeps(e) == copies'[e] = copies[e]

Paid(e) ==
    \/ /\ faults' \in {faults, faults + 1} /\ Zombies(e)' \subseteq Zombies(e)
       /\ \/ Keeps(e) /\ (Open(e)' => Open(e))
          \/ Sends(e) /\ Open(e) /\ ~Open(e)'
    \/ /\ faults' = faults /\ Sends(e) /\ (Open(e)' => Open(e))
       /\ \E r \in Zombies(e) : Zombies(e)' \subseteq Zombies(e) \ {r}
    \/ /\ faults' = faults + 1 /\ Keeps(e)
       /\ \/ Zombies(e)' \subseteq Zombies(e)
          \/ (Open(e)' => Open(e)) /\ \E r \in Relays : Zombies(e)' \subseteq Zombies(e) \union {r}
    \/ /\ faults' = faults + 1 /\ Sends(e) /\ (Open(e)' => Open(e))
       /\ Zombies(e)' \subseteq Zombies(e)

LEMMA FewerOrOneMore ==
    ASSUME NEW T, IsFiniteSet(T), NEW U, NEW x
    PROVE  /\ Cardinality(T) \in Nat
           /\ U \subseteq T => IsFiniteSet(U) /\ Cardinality(U) \in Nat /\ Cardinality(U) <= Cardinality(T)
           /\ U \subseteq T \ {x} /\ x \in T
                => IsFiniteSet(U) /\ Cardinality(U) \in Nat /\ Cardinality(U) + 1 <= Cardinality(T)
           /\ U \subseteq T \union {x}
                => IsFiniteSet(U) /\ Cardinality(U) \in Nat /\ Cardinality(U) <= Cardinality(T) + 1
  <1>1. Cardinality(T) \in Nat
    BY FS_CardinalityType
  <1>2. ASSUME NEW V, IsFiniteSet(V), NEW W, W \subseteq V
        PROVE  IsFiniteSet(W) /\ Cardinality(W) \in Nat /\ Cardinality(W) <= Cardinality(V)
    BY <1>2, FS_Subset, FS_CardinalityType
  <1>3. ASSUME x \in T
        PROVE  IsFiniteSet(T \ {x}) /\ Cardinality(T \ {x}) \in Nat
               /\ Cardinality(T \ {x}) = Cardinality(T) - 1
    BY <1>3, FS_RemoveElement, FS_CardinalityType
  <1>4. IsFiniteSet(T \union {x}) /\ Cardinality(T \union {x}) \in Nat
        /\ Cardinality(T \union {x}) <= Cardinality(T) + 1
    <2>1. IsFiniteSet(T \union {x}) /\ Cardinality(T \union {x}) \in Nat
      BY FS_AddElement, FS_CardinalityType
    <2>2. \/ Cardinality(T \union {x}) = Cardinality(T)
          \/ Cardinality(T \union {x}) = Cardinality(T) + 1
      BY FS_AddElement
    <2> QED BY <1>1, <2>1, <2>2
  <1>5. U \subseteq T => IsFiniteSet(U) /\ Cardinality(U) \in Nat /\ Cardinality(U) <= Cardinality(T)
    BY <1>2
  <1>6. ASSUME U \subseteq T \ {x}, x \in T
        PROVE  IsFiniteSet(U) /\ Cardinality(U) \in Nat /\ Cardinality(U) + 1 <= Cardinality(T)
    <2>1. IsFiniteSet(U) /\ Cardinality(U) \in Nat /\ Cardinality(U) <= Cardinality(T \ {x})
      BY <1>2, <1>3, <1>6
    <2> QED BY <1>1, <1>3, <1>6, <2>1
  <1>7. ASSUME U \subseteq T \union {x}
        PROVE  IsFiniteSet(U) /\ Cardinality(U) \in Nat /\ Cardinality(U) <= Cardinality(T) + 1
    <2>1. IsFiniteSet(U) /\ Cardinality(U) \in Nat /\ Cardinality(U) <= Cardinality(T \union {x})
      BY <1>2, <1>4, <1>7
    <2> QED BY <1>1, <1>4, <2>1
  <1> QED BY <1>1, <1>5, <1>6, <1>7

LEMMA PaidIsCharged ==
    ASSUME TypeOK, NEW e \in Events, Charged(e), Paid(e)
    PROVE  Charged(e)'
  <1> DEFINE T == Zombies(e)
  <1>1. PICK c \in Nat, f \in Nat : c = copies[e] /\ f = faults
    BY OutboxAssumption DEF TypeOK
  <1>2. PICK U : U = Zombies(e)'
    OBVIOUS
  <1>3. IsFiniteSet(T)
    BY DEF Charged
  <1>4. \/ U \subseteq T
        \/ \E r \in T : U \subseteq T \ {r}
        \/ \E r : U \subseteq T \union {r}
    BY <1>2 DEF Paid
  <1>5. IsFiniteSet(U) /\ Cardinality(U) \in Nat /\ Cardinality(T) \in Nat
    BY <1>3, <1>4, FewerOrOneMore
  <1>6. PICK k \in Nat, k2 \in Nat : k = Cardinality(T) /\ k2 = Cardinality(U)
    BY <1>5
  <1>7. /\ U \subseteq T => k2 <= k
        /\ (\E r \in T : U \subseteq T \ {r}) => k2 + 1 <= k
        /\ (\E r \in Relays : U \subseteq T \union {r}) => k2 <= k + 1
    BY <1>3, <1>6, FewerOrOneMore
  <1>8. PICK a \in {0, 1}, a2 \in {0, 1} : a = One(Open(e)) /\ a2 = One(Open(e)')
    BY DEF One
  <1>9. /\ (Open(e)' => Open(e)) => a2 <= a
        /\ Open(e) /\ ~Open(e)' => a2 + 1 <= a
    BY <1>8 DEF One
  <1>10. c + a + k <= 1 + f
    BY <1>1, <1>6, <1>8 DEF Charged
  <1>11. PICK c2 \in Nat, f2 \in Nat : c2 = copies'[e] /\ f2 = faults'
    BY <1>1 DEF Paid, Keeps, Sends
  <1>12. \/ f <= f2 /\ k2 <= k /\ c2 = c /\ a2 <= a
         \/ f <= f2 /\ k2 <= k /\ c2 = c + 1 /\ a2 + 1 <= a
         \/ f2 = f /\ c2 = c + 1 /\ a2 <= a /\ k2 + 1 <= k
         \/ f2 = f + 1 /\ c2 = c /\ (k2 <= k \/ (a2 <= a /\ k2 <= k + 1))
         \/ f2 = f + 1 /\ c2 = c + 1 /\ a2 <= a /\ k2 <= k
    BY <1>1, <1>2, <1>7, <1>9, <1>11 DEF Paid, Keeps, Sends
  <1>13. c2 + a2 + k2 <= 1 + f2
    BY <1>10, <1>12
  <1> QED BY <1>2, <1>5, <1>6, <1>8, <1>11, <1>13 DEF Charged, One

\* A send pays for its own event and leaves the others alone.
LEMMA SendPays ==
    ASSUME IInv, NEW r \in Relays, NEW d \in Events,
           Acknowledged(r, d) \/ AckLost(r, d) \/ Unavailable(r, d) \/ RejectedByKafka(r, d),
           NEW e \in Events
    PROVE  Paid(e)
  <1>0. TypeOK /\ RowInv(r, d)
    BY DEF IInv
  <1>1. /\ outcome[r][d] = "pending" /\ tx' = tx /\ outbox' = outbox /\ session' = session
        /\ faults' \in {faults, faults + 1}
        /\ \A s \in Relays, f \in Events : s # r \/ f # d => outcome'[s][f] = outcome[s][f]
        /\ \A f \in Events : f # d => copies'[f] = copies[f]
    BY <1>0 DEF Acknowledged, AckLost, Unavailable, RejectedByKafka, Sending, SendEnds, Append1,
                Fault, tables, kafka, budgets, TypeOK
  <1>2. outcome'[r][d] # "pending"
    BY <1>0 DEF Acknowledged, AckLost, Unavailable, RejectedByKafka, SendEnds, TypeOK
  <1>3. Zombies(e)' \subseteq Zombies(e)
    BY <1>1, <1>2 DEF Zombies
  <1>4. CASE e # d
    BY <1>1, <1>3, <1>4 DEF Paid, Open, Keeps
  <1>5. CASE e = d /\ Acknowledged(r, d)
    <2>1. Sends(e) /\ faults' = faults /\ outcome'[r][e] = "sent"
      BY <1>0, <1>5 DEF Acknowledged, Append1, Sends, SendEnds, budgets, TypeOK
    <2>2. CASE session[r]
      <3>1. e \in outbox
        BY <1>0, <1>1, <1>5, <2>2 DEF RowInv
      <3>2. ASSUME NEW s \in Relays, session[s] PROVE outcome[s][e] # "sent"
        BY <1>1, <1>5, <2>2, <3>2 DEF IInv, RowInv
      <3>3. Open(e) /\ ~Open(e)'
        BY <1>1, <1>5, <2>1, <2>2, <3>1, <3>2 DEF Open
      <3> QED BY <1>3, <2>1, <3>3 DEF Paid
    <2>3. CASE ~session[r]
      <3>1. r \in Zombies(e) /\ r \notin Zombies(e)'
        BY <1>1, <1>2, <1>5, <2>3 DEF Zombies
      <3>2. Open(e)' => Open(e)
        BY <1>1, <1>5, <2>3 DEF Open
      <3>3. Zombies(e)' \subseteq Zombies(e) \ {r}
        BY <1>3, <3>1
      <3> QED BY <2>1, <3>1, <3>2, <3>3 DEF Paid
    <2> QED BY <2>2, <2>3
  <1>6. CASE e = d /\ (AckLost(r, d) \/ Unavailable(r, d) \/ RejectedByKafka(r, d))
    <2>1. Open(e)' => Open(e)
      BY <1>1, <1>6 DEF Open
    <2>2. \/ Sends(e) /\ faults' = faults + 1
          \/ Keeps(e)
      BY <1>0, <1>6 DEF AckLost, Unavailable, RejectedByKafka, Append1, Fault, Sends, Keeps, kafka, TypeOK
    <2> QED BY <1>1, <1>3, <2>1, <2>2 DEF Paid
  <1> QED BY <1>4, <1>5, <1>6

\* A pass that deletes what it sent opens nothing; one whose COMMIT fails is a fault.
LEMMA PassEndPays ==
    ASSUME IInv, NEW r \in Relays,
           CommitBatch(r) \/ RollBackBatch(r) \/ CommitFails(r) \/ CommitAnswerLost(r),
           NEW e \in Events
    PROVE  Paid(e)
  <1>0. TypeOK /\ RowInv(r, e)
    BY DEF IInv
  <1>1. /\ PassEnds(r) /\ copies' = copies /\ tx' = tx
        /\ outbox' \subseteq outbox
        /\ faults' \in {faults, faults + 1}
    BY DEF CommitBatch, RollBackBatch, CommitFails, CommitAnswerLost, WriteResults, Fault, tables,
           kafka, budgets
  <1>2. /\ \A s \in Relays : s # r => outcome'[s] = outcome[s] /\ session'[s] = session[s]
        /\ outcome'[r][e] = "none" /\ ~session'[r]
    BY <1>0, <1>1 DEF PassEnds, NoBatch, TypeOK
  <1>3. Zombies(e)' \subseteq Zombies(e) /\ Keeps(e)
    BY <1>1, <1>2 DEF Zombies, Keeps
  <1>4. CASE CommitFails(r)
    BY <1>3, <1>4 DEF Paid, CommitFails, Fault
  <1>5. CASE RollBackBatch(r)
    <2>1. session[r] => outcome[r][e] # "sent"
      BY <1>5 DEF RollBackBatch, Outage, With
    <2>2. outbox' = outbox
      BY <1>5 DEF RollBackBatch, tables
    <2>3. Open(e)' => Open(e)
      BY <1>1, <1>2, <2>1, <2>2 DEF Open
    <2> QED BY <1>1, <1>3, <2>3 DEF Paid
  <1>6. CASE CommitBatch(r) \/ CommitAnswerLost(r)
    <2>1. session[r] /\ outbox' = outbox \ With(r, "sent")
      BY <1>6 DEF CommitBatch, CommitAnswerLost, WriteResults
    <2>2. outcome[r][e] = "sent" => e \notin outbox' /\ tx[e] = "committed"
      BY <1>0, <2>1 DEF With, RowInv
    <2>3. Open(e)' => Open(e)
      BY <1>1, <1>2, <2>1, <2>2 DEF Open
    <2> QED BY <1>1, <1>3, <2>3 DEF Paid
  <1> QED BY <1>4, <1>5, <1>6

\* The session's end or the relay's death is the fault that pays for what its
\* batch has sent or will.
LEMMA ProcessPays ==
    ASSUME IInv, NEW r \in Relays,
           \/ SelectBatch(r) \/ SessionKilled(r) \/ BeginShutdown(r) \/ DrainTimesOut(r)
           \/ Exit(r) \/ Crash(r) \/ Restart(r),
           NEW e \in Events
    PROVE  Paid(e)
  <1>0. TypeOK /\ RowInv(r, e)
    BY DEF IInv
  <1>1. copies' = copies /\ tx' = tx /\ outbox' = outbox /\ Keeps(e)
    BY DEF SelectBatch, SessionKilled, BeginShutdown, DrainTimesOut, Exit, Crash, Restart, tables,
           kafka, Keeps
  <1>2. CASE SelectBatch(r)
    <2>1. \A s \in Relays : s # r => outcome'[s] = outcome[s] /\ session'[s] = session[s]
      BY <1>0, <1>2 DEF SelectBatch, TypeOK
    <2>2. session'[r] /\ outcome[r][e] = "none" /\ faults' = faults
      BY <1>0, <1>2 DEF SelectBatch, RowInv, budgets, TypeOK
    <2>3. Zombies(e)' \subseteq Zombies(e)
      BY <2>1, <2>2 DEF Zombies
    <2>4. Open(e)' => Open(e)
      BY <1>1, <2>1, <2>2 DEF Open
    <2> QED BY <1>1, <2>2, <2>3, <2>4 DEF Paid
  <1>3. CASE SessionKilled(r)
    <2>1. /\ outcome' = outcome /\ faults' = faults + 1 /\ session[r] /\ ~session'[r]
          /\ \A s \in Relays : s # r => session'[s] = session[s]
      BY <1>0, <1>3 DEF SessionKilled, Fault, TypeOK
    <2>2. CASE outcome[r][e] = "pending"
      <3>1. Zombies(e)' \subseteq Zombies(e) \union {r}
        BY <2>1 DEF Zombies
      <3>2. Open(e)' => Open(e)
        BY <1>1, <2>1, <2>2 DEF Open
      <3> QED BY <1>1, <2>1, <3>1, <3>2 DEF Paid
    <2>3. CASE outcome[r][e] # "pending"
      <3>1. Zombies(e)' \subseteq Zombies(e)
        BY <2>1, <2>3 DEF Zombies
      <3> QED BY <1>1, <2>1, <3>1 DEF Paid
    <2> QED BY <2>2, <2>3
  <1>4. CASE Crash(r)
    <2>1. /\ faults' = faults + 1 /\ outcome'[r][e] = "none"
          /\ \A s \in Relays : s # r => outcome'[s] = outcome[s] /\ session'[s] = session[s]
      BY <1>0, <1>4 DEF Crash, Fault, NoBatch, TypeOK
    <2>2. Zombies(e)' \subseteq Zombies(e)
      BY <2>1 DEF Zombies
    <2> QED BY <1>1, <2>1, <2>2 DEF Paid
  <1>5. CASE BeginShutdown(r) \/ DrainTimesOut(r) \/ Exit(r) \/ Restart(r)
    <2>1. outcome' = outcome /\ session' = session /\ faults' = faults
      BY <1>5 DEF BeginShutdown, DrainTimesOut, Exit, Restart, budgets
    <2> QED BY <1>1, <2>1 DEF Paid, Open, Zombies
  <1> QED BY <1>2, <1>3, <1>4, <1>5

LEMMA OthersPay ==
    ASSUME IInv, NEW e \in Events,
           \/ WriterStep \/ ReapOrphans \/ BrokerDown \/ BrokerUp \/ UNCHANGED vars
           \/ \E d \in Events : OperatorResets(d)
    PROVE  Paid(e)
  <1>1. copies' = copies /\ outcome' = outcome /\ session' = session /\ faults' = faults
    BY DEF WriterStep, WriteInTransaction, CommitTransaction, AbortTransaction, ReapOrphans,
           BrokerDown, BrokerUp, OperatorResets, vars, kafka, budgets
  <1>2. tx[e] = "committed" /\ e \notin outbox => tx'[e] = "committed" /\ e \notin outbox'
    BY DEF WriterStep, WriteInTransaction, CommitTransaction, AbortTransaction, ReapOrphans,
           BrokerDown, BrokerUp, OperatorResets, vars, tables, IInv, TypeOK
  <1>3. (Open(e)' => Open(e)) /\ Zombies(e)' \subseteq Zombies(e)
    BY <1>1, <1>2 DEF Open, Zombies
  <1> QED BY <1>1, <1>3 DEF Paid, Keeps

LEMMA NextDInv == DInv /\ [Next]_vars => DInv'
  <1> SUFFICES ASSUME DInv, [Next]_vars PROVE DInv'
    OBVIOUS
  <1>1. IInv /\ TypeOK
    BY DEF DInv, IInv
  <1>2. ASSUME NEW e \in Events PROVE Charged(e)'
    <2>1. Paid(e)
      BY <1>1, SendPays, PassEndPays, ProcessPays, OthersPay DEF Next, RelayStep, SendStep
    <2> QED BY <1>1, <2>1, PaidIsCharged DEF DInv
  <1> QED BY <1>1, <1>2, NextIInv DEF DInv

\* Every record of an event beyond the first has its own crash, lost session, failed
\* COMMIT or lost ack, whatever the replicas, batches and shutdowns do between them.
THEOREM DuplicatesHaveFaults == Spec => []DuplicatesAreBoundedByFaults
  <1>1. DInv => DuplicatesAreBoundedByFaults
    <2> SUFFICES ASSUME DInv, NEW e \in Events PROVE copies[e] <= 1 + faults
      BY DEF DuplicatesAreBoundedByFaults
    <2>1. Charged(e) /\ copies[e] \in Nat /\ faults \in Nat
      BY OutboxAssumption DEF DInv, IInv, TypeOK
    <2>2. PICK k \in Nat, a \in {0, 1} : k = Cardinality(Zombies(e)) /\ a = One(Open(e))
      BY <2>1, FS_CardinalityType DEF Charged, One
    <2> QED BY <2>1, <2>2 DEF Charged
  <1> QED BY InitDInv, NextDInv, <1>1, PTL DEF Spec

------------------------------------------------------------------------------
(* The order of a key.                                                     *)

\* A row that is locked is in its relay's batch, and one that a relay failed to
\* send, or to finish with, is disturbed.
BlameInv(e) ==
    /\ attempts[e] > 0 => e \in disturbed
    /\ lock[e] = Orphan => e \in disturbed
    /\ \A r \in Relays : outcome[r][e] \in {"retry", "poison"} => e \in disturbed
    /\ \A r \in Relays : lock[e] = r => outcome[r][e] # "none"

\* Rows are written in the order of their ids, and those of a key one after another.
WrittenInv(d, e) ==
    d < e /\ tx[e] # "none" => tx[d] # "none" /\ (key[d] = key[e] => tx[d] # "open")

\* As long as a batch has a row, every earlier row of its key that is still to be sent
\* is being sent too, by the batch's relay or by another one.
BatchInv(r, d, e) ==
    LET follows == outcome[r][e] # "none" /\ d < e /\ key[d] = key[e]
        waits   == d \in outbox /\ copies[d] = 0 /\ d \notin disturbed
    IN  follows /\ waits => \E s \in Relays : outcome[s][d] = "pending"

OInv ==
    /\ IInv
    /\ \A e \in Events : BlameInv(e)
    /\ \A d, e \in Events : WrittenInv(d, e)
    /\ \A r \in Relays, d, e \in Events : BatchInv(r, d, e)

\* The rows a batch takes are the first ones: with a row it takes every earlier one.
LEMMA FirstRowsPrefix ==
    ASSUME NEW S \in SUBSET Events, NEW e \in FirstRows(S), NEW d \in S, d < e
    PROVE  d \in FirstRows(S)
  <1> DEFINE UpTo(x) == {y \in S : y <= x}
  <1>1. IsFiniteSet(Events)
    BY FS_Interval, OutboxAssumption DEF Events
  <1>2. IsFiniteSet(UpTo(e))
    BY <1>1, FS_Subset
  <1>3. UpTo(d) \subseteq UpTo(e)
    <2>1. \A y \in S : y \in Nat
      BY OutboxAssumption DEF Events
    <2>2. d \in Nat /\ e \in Nat
      BY <2>1 DEF FirstRows
    <2>3. ASSUME NEW y \in S, y <= d PROVE y <= e
      <3>1. PICK i \in Nat, j \in Nat, k \in Nat : i = y /\ j = d /\ k = e
        BY <2>1, <2>2
      <3> QED BY <2>3, <3>1
    <2> QED BY <2>3
  <1>4. Cardinality(UpTo(d)) <= Cardinality(UpTo(e)) /\ IsFiniteSet(UpTo(d))
    BY <1>2, <1>3, FS_Subset
  <1>5. Cardinality(UpTo(d)) \in Nat /\ Cardinality(UpTo(e)) \in Nat
    BY <1>2, <1>4, FS_CardinalityType
  <1>6. Cardinality(UpTo(e)) <= BatchSize
    BY DEF FirstRows
  <1>7. Cardinality(UpTo(d)) <= BatchSize
    BY <1>4, <1>5, <1>6, OutboxAssumption
  <1> QED BY <1>7 DEF FirstRows

LEMMA InitOInv == Init => OInv
  <1> SUFFICES ASSUME Init PROVE OInv
    OBVIOUS
  <1>1. \A e \in Events : BlameInv(e)
    BY OutboxAssumption DEF Init, BlameInv, NoBatch
  <1>2. \A d, e \in Events : WrittenInv(d, e)
    BY DEF Init, WrittenInv
  <1>3. \A r \in Relays, d, e \in Events : BatchInv(r, d, e)
    BY DEF Init, BatchInv, NoBatch
  <1> QED BY <1>1, <1>2, <1>3, InitIInv DEF OInv

LEMMA WriterOrder ==
    ASSUME OInv, WriterStep
    PROVE  /\ \A d, e \in Events : WrittenInv(d, e)'
           /\ \A r \in Relays, d, e \in Events : BatchInv(r, d, e)'
  <1> SUFFICES ASSUME NEW c \in Events,
                      \/ \E k \in Keys : WriteInTransaction(c, k)
                      \/ CommitTransaction(c)
                      \/ AbortTransaction(c)
               PROVE  /\ \A d, e \in Events : WrittenInv(d, e)'
                      /\ \A r \in Relays, d, e \in Events : BatchInv(r, d, e)'
    BY DEF WriterStep
  <1>0. TypeOK /\ \A d, e \in Events : WrittenInv(d, e)
    BY DEF OInv, IInv
  <1>1. Events \subseteq Nat
    BY OutboxAssumption DEF Events
  <1>2. ASSUME NEW k \in Keys, WriteInTransaction(c, k), NEW d \in Events, NEW e \in Events
        PROVE  WrittenInv(d, e)'
    <2>1. /\ tx[c] = "none" /\ tx'[c] = "open" /\ key'[c] = k
          /\ \A f \in Events : f # c => tx'[f] = tx[f] /\ key'[f] = key[f]
          /\ \A f \in Events : f < c => tx[f] # "none"
          /\ \A f \in Events : tx[f] = "open" => key[f] # k
      BY <1>0, <1>2 DEF WriteInTransaction, TypeOK
    <2>2. CASE e = c
      BY <1>1, <2>1, <2>2 DEF WrittenInv
    <2>3. CASE e # c /\ d = c
      BY <1>0, <2>1, <2>3 DEF WrittenInv
    <2>4. CASE e # c /\ d # c
      BY <1>0, <2>1, <2>4 DEF WrittenInv
    <2> QED BY <2>2, <2>3, <2>4
  <1>3. ASSUME CommitTransaction(c) \/ AbortTransaction(c), NEW d \in Events, NEW e \in Events
        PROVE  WrittenInv(d, e)'
    BY <1>0, <1>3 DEF CommitTransaction, AbortTransaction, WrittenInv, TypeOK
  <1>4. ASSUME NEW r \in Relays, NEW d \in Events, NEW e \in Events PROVE BatchInv(r, d, e)'
    <2>1. outcome' = outcome /\ copies' = copies /\ disturbed' = disturbed
      BY DEF WriteInTransaction, CommitTransaction, AbortTransaction, kafka
    <2>2. SUFFICES ASSUME outcome[r][e] # "none", d < e, key'[d] = key'[e], d \in outbox',
                          copies[d] = 0, d \notin disturbed
                   PROVE  \E s \in Relays : outcome[s][d] = "pending"
      BY <2>1 DEF BatchInv
    <2>3. tx[e] = "committed" /\ WrittenInv(d, e) /\ BatchInv(r, d, e) /\ EventInv(d)
      BY <2>2 DEF OInv, IInv, RowInv
    <2>4. key'[e] = key[e] /\ key'[d] = key[d]
      BY <1>0, <2>2, <2>3 DEF WriteInTransaction, CommitTransaction, AbortTransaction, tables,
                              TypeOK, WrittenInv
    <2>5. d \in outbox
      BY <1>0, <2>2, <2>3, <2>4 DEF WriteInTransaction, CommitTransaction, AbortTransaction, WrittenInv
    <2> QED BY <2>2, <2>3, <2>4, <2>5 DEF BatchInv
  <1> QED BY <1>2, <1>3, <1>4

LEMMA SelectOrder ==
    ASSUME OInv, NEW r \in Relays, SelectBatch(r)
    PROVE  /\ \A e \in Events : BlameInv(e)'
           /\ \A s \in Relays, d, e \in Events : BatchInv(s, d, e)'
  <1> DEFINE rows == FirstRows(Selectable)
  <1>0. TypeOK /\ \A e \in Events : BlameInv(e) /\ RowInv(r, e)
    BY DEF OInv, IInv
  <1>1. rows \subseteq Selectable /\ Selectable \subseteq Events
    BY <1>0, FirstRowsSubset DEF Selectable, TypeOK
  <1>2. \A e \in rows, d \in Selectable : d < e => d \in rows
    BY <1>1, FirstRowsPrefix
  <1> HIDE DEF rows
  <1>3. /\ \A e \in Events : lock'[e] = IF e \in rows THEN r ELSE lock[e]
        /\ \A e \in Events : outcome'[r][e] = IF e \in rows THEN "pending" ELSE "none"
        /\ attempts' = attempts /\ disturbed' = disturbed /\ key' = key /\ outbox' = outbox
        /\ copies' = copies /\ pc[r] = "idle"
    BY <1>0 DEF SelectBatch, rows, tables, kafka, TypeOK
  <1>4. \A s \in Relays : s # r => outcome'[s] = outcome[s]
    BY <1>0 DEF SelectBatch, TypeOK
  <1>5. \A e \in Events : outcome[r][e] = "none" /\ lock[e] # r
    BY <1>0, <1>3 DEF RowInv, BlameInv
  <1>6. ASSUME NEW e \in Events PROVE BlameInv(e)'
    <2>1. lock'[e] = Orphan => lock[e] = Orphan
      BY <1>3, OutboxAssumption
    <2> QED BY <1>0, <1>3, <1>4, <1>5, <2>1 DEF BlameInv
  <1>7. ASSUME NEW s \in Relays, NEW d \in Events, NEW e \in Events PROVE BatchInv(s, d, e)'
    <2>1. \A x \in Relays : outcome[x][d] = "pending" => outcome'[x][d] = "pending"
      BY <1>4, <1>5
    <2>2. CASE s # r
      BY <1>3, <1>4, <2>1, <2>2 DEF OInv, BatchInv
    <2>3. CASE s = r
      <3>1. SUFFICES ASSUME e \in rows, d < e, d \in outbox, copies[d] = 0, d \notin disturbed,
                            d \notin rows
                     PROVE  \E x \in Relays : outcome[x][d] = "pending"
        BY <1>3, <2>1, <2>3 DEF BatchInv
      <3>2. attempts[d] \in Nat
        BY <1>0, OutboxAssumption DEF TypeOK
      <3>3. attempts[d] = 0 /\ lock[d] # Orphan
        BY <1>0, <3>1, <3>2 DEF BlameInv
      <3>4. lock[d] # None
        BY <1>2, <3>1, <3>3, OutboxAssumption DEF Selectable
      <3>5. lock[d] \in Relays
        BY <1>0, <3>3, <3>4 DEF TypeOK
      <3>6. PICK x \in Relays : lock[d] = x
        BY <3>5
      <3>7. outcome[x][d] \notin {"none", "retry", "poison"}
        BY <1>0, <3>1, <3>6 DEF BlameInv
      <3>8. outcome[x][d] # "sent"
        <4>1. copies[d] \in Nat /\ (outcome[x][d] = "sent" => copies[d] > 0)
          BY <1>0 DEF TypeOK, OInv, IInv, RowInv
        <4> QED BY <3>1, <4>1
      <3>9. outcome[x][d] \in Outcomes
        BY <1>0 DEF TypeOK
      <3> QED BY <3>7, <3>8, <3>9 DEF Outcomes
    <2> QED BY <2>2, <2>3
  <1> QED BY <1>6, <1>7

LEMMA SendOrder ==
    ASSUME OInv, NEW r \in Relays, NEW c \in Events,
           Acknowledged(r, c) \/ AckLost(r, c) \/ Unavailable(r, c) \/ RejectedByKafka(r, c)
    PROVE  /\ \A e \in Events : BlameInv(e)'
           /\ \A s \in Relays, d, e \in Events : BatchInv(s, d, e)'
  <1>0. TypeOK /\ (\A e \in Events : BlameInv(e))
        /\ \A s \in Relays, d, e \in Events : BatchInv(s, d, e)
    BY DEF OInv, IInv
  <1>1. /\ outcome[r][c] = "pending" /\ lock' = lock /\ attempts' = attempts /\ key' = key
        /\ outbox' = outbox
        /\ \A e \in Events : e # c => outcome'[r][e] = outcome[r][e] /\ copies'[e] = copies[e]
        /\ disturbed \subseteq disturbed'
    BY <1>0 DEF Acknowledged, AckLost, Unavailable, RejectedByKafka, Sending, SendEnds, Append1,
                tables, kafka, TypeOK
  <1>2. \/ outcome'[r][c] = "sent" /\ copies'[c] = copies[c] + 1
        \/ outcome'[r][c] \in {"retry", "poison"} /\ c \in disturbed'
    BY <1>0 DEF Acknowledged, AckLost, Unavailable, RejectedByKafka, SendEnds, Append1, TypeOK
  <1>3. \A s \in Relays : s # r => outcome'[s] = outcome[s]
    BY <1>0 DEF Acknowledged, AckLost, Unavailable, RejectedByKafka, SendEnds, TypeOK
  <1>4. ASSUME NEW e \in Events PROVE BlameInv(e)'
    <2>1. CASE e = c
      BY <1>0, <1>1, <1>2, <1>3, <2>1 DEF BlameInv
    <2>2. CASE e # c
      BY <1>0, <1>1, <1>3, <2>2 DEF BlameInv
    <2> QED BY <2>1, <2>2
  <1>5. ASSUME NEW s \in Relays, NEW d \in Events, NEW e \in Events PROVE BatchInv(s, d, e)'
    <2>1. copies[c] \in Nat /\ copies[c] + 1 # 0 /\ (outcome'[s][e] # "none" => outcome[s][e] # "none")
      <3>1. copies[c] \in Nat /\ copies[c] + 1 # 0
        BY <1>0 DEF TypeOK
      <3>2. CASE s = r
        BY <1>1, <3>1, <3>2
      <3>3. CASE s # r
        BY <1>3, <3>1, <3>3
      <3> QED BY <3>2, <3>3
    <2>2. CASE d = c
      <3>1. c \in disturbed' \/ copies'[c] # 0 \/ \E x \in Relays : outcome'[x][c] = "pending"
        BY <1>2, <2>1
      <3> QED BY <2>2, <3>1 DEF BatchInv
    <2>3. CASE d # c
      <3>1. \A x \in Relays : outcome[x][d] = "pending" => outcome'[x][d] = "pending"
        BY <1>1, <1>3, <2>3
      <3> QED BY <1>0, <1>1, <2>1, <2>3, <3>1 DEF BatchInv
    <2> QED BY <2>2, <2>3
  <1> QED BY <1>4, <1>5

LEMMA PassEndOrder ==
    ASSUME OInv, NEW r \in Relays,
           CommitBatch(r) \/ RollBackBatch(r) \/ CommitFails(r) \/ CommitAnswerLost(r)
    PROVE  /\ \A e \in Events : BlameInv(e)'
           /\ \A s \in Relays, d, e \in Events : BatchInv(s, d, e)'
  <1>0. TypeOK /\ \A e \in Events : BlameInv(e)
    BY DEF OInv, IInv
  <1>1. PassEnds(r) /\ disturbed' = disturbed /\ copies' = copies /\ key' = key
        /\ outbox' \subseteq outbox
        /\ (attempts' = attempts \/ attempts' = Counted(With(r, "poison")))
    BY DEF CommitBatch, RollBackBatch, CommitFails, CommitAnswerLost, WriteResults, tables, kafka
  <1>2. \A e \in Events : outcome'[r][e] = "none" /\ (lock'[e] = lock[e] \/ lock'[e] = None)
                          /\ lock'[e] # r
    BY <1>0, <1>1, OutboxAssumption DEF PassEnds, NoBatch, Unlocked, TypeOK
  <1>3. \A s \in Relays : s # r => outcome'[s] = outcome[s]
    BY <1>0, <1>1 DEF PassEnds, TypeOK
  <1>4. \A e \in Events : outcome[r][e] # "pending"
    BY DEF CommitBatch, RollBackBatch, CommitFails, CommitAnswerLost, Settled, With
  <1>5. ASSUME NEW e \in Events PROVE BlameInv(e)'
    <2>1. attempts'[e] > 0 => attempts[e] > 0 \/ e \in With(r, "poison")
      BY <1>0, <1>1 DEF Counted
    <2>2. e \in With(r, "poison") => e \in disturbed
      BY <1>0 DEF With, BlameInv
    <2>3. lock'[e] = Orphan => lock[e] = Orphan
      BY <1>2, OutboxAssumption
    <2>4. ASSUME NEW s \in Relays, lock'[e] = s PROVE lock[e] = s
      BY <1>2, <2>4, OutboxAssumption
    <2> QED BY <1>0, <1>1, <1>2, <1>3, <2>1, <2>2, <2>3, <2>4 DEF BlameInv
  <1>6. ASSUME NEW s \in Relays, NEW d \in Events, NEW e \in Events PROVE BatchInv(s, d, e)'
    <2>1. \A x \in Relays : outcome[x][d] = "pending" => outcome'[x][d] = "pending"
      BY <1>3, <1>4
    <2>2. CASE s = r
      BY <1>2, <2>2 DEF BatchInv
    <2>3. CASE s # r
      BY <1>1, <1>3, <2>1, <2>3 DEF OInv, BatchInv
    <2> QED BY <2>2, <2>3
  <1> QED BY <1>5, <1>6

LEMMA ProcessOrder ==
    ASSUME OInv, NEW r \in Relays,
           \/ SessionKilled(r) \/ BeginShutdown(r) \/ DrainTimesOut(r) \/ Exit(r)
           \/ Crash(r) \/ Restart(r)
    PROVE  /\ \A e \in Events : BlameInv(e)'
           /\ \A s \in Relays, d, e \in Events : BatchInv(s, d, e)'
  <1>0. TypeOK /\ (\A e \in Events : BlameInv(e))
        /\ \A s \in Relays, d, e \in Events : BatchInv(s, d, e)
    BY DEF OInv, IInv
  <1>1. attempts' = attempts /\ key' = key /\ outbox' = outbox /\ copies' = copies
    BY DEF SessionKilled, BeginShutdown, DrainTimesOut, Exit, Crash, Restart, tables, kafka
  <1>2. CASE Crash(r)
    <2>1. /\ \A e \in Events : outcome'[r][e] = "none"
          /\ \A s \in Relays : s # r => outcome'[s] = outcome[s]
          /\ \A e \in Events : lock'[e] = IF lock[e] = r THEN Orphan ELSE lock[e]
          /\ disturbed' = disturbed \union Batch(r)
      BY <1>0, <1>2 DEF Crash, NoBatch, TypeOK
    <2>2. ASSUME NEW e \in Events PROVE BlameInv(e)'
      <3>1. lock'[e] = Orphan => e \in disturbed'
        BY <1>0, <2>1 DEF BlameInv, Batch
      <3>2. lock'[e] # r
        BY <2>1, OutboxAssumption
      <3>3. ASSUME NEW s \in Relays, lock'[e] = s PROVE s # r /\ lock[e] = s
        BY <2>1, <3>2, <3>3, OutboxAssumption
      <3> QED BY <1>0, <1>1, <2>1, <3>1, <3>3 DEF BlameInv
    <2>3. ASSUME NEW s \in Relays, NEW d \in Events, NEW e \in Events PROVE BatchInv(s, d, e)'
      <3>1. CASE s = r
        BY <2>1, <3>1 DEF BatchInv
      <3>2. CASE s # r
        <4>1. \A x \in Relays : outcome[x][d] = "pending" => outcome'[x][d] = "pending" \/ d \in disturbed'
          BY <2>1 DEF Batch
        <4> QED BY <1>0, <1>1, <2>1, <3>2, <4>1 DEF BatchInv
      <3> QED BY <3>1, <3>2
    <2> QED BY <2>2, <2>3
  <1>3. CASE SessionKilled(r)
    <2>1. /\ outcome' = outcome /\ disturbed' = disturbed
          /\ \A e \in Events : lock'[e] = lock[e] \/ lock'[e] = None
      BY <1>0, <1>3 DEF SessionKilled, Unlocked, TypeOK
    <2>2. \A e \in Events : BlameInv(e)'
      BY <1>0, <1>1, <2>1, OutboxAssumption DEF BlameInv
    <2> QED BY <1>0, <1>1, <2>1, <2>2 DEF BatchInv
  <1>4. CASE BeginShutdown(r) \/ DrainTimesOut(r) \/ Exit(r) \/ Restart(r)
    <2>1. outcome' = outcome /\ disturbed' = disturbed /\ lock' = lock
      BY <1>4 DEF BeginShutdown, DrainTimesOut, Exit, Restart
    <2> QED BY <1>0, <1>1, <2>1 DEF BlameInv, BatchInv
  <1> QED BY <1>2, <1>3, <1>4

LEMMA NextOInv == OInv /\ [Next]_vars => OInv'
  <1> SUFFICES ASSUME OInv, [Next]_vars PROVE OInv'
    OBVIOUS
  <1>0. IInv' /\ TypeOK /\ TypeOK'
    BY NextIInv DEF OInv, IInv
  <1>1. CASE WriterStep
    <2>1. UNCHANGED <<attempts, lock, outcome, disturbed>>
      BY <1>1 DEF WriterStep, WriteInTransaction, CommitTransaction, AbortTransaction
    <2>2. \A e \in Events : BlameInv(e)'
      BY <2>1 DEF OInv, BlameInv
    <2> QED BY <1>0, <1>1, <2>2, WriterOrder DEF OInv
  <1>2. ASSUME UNCHANGED <<tx, key>> PROVE \A d, e \in Events : WrittenInv(d, e)'
    BY <1>2 DEF OInv, WrittenInv
  <1>3. ASSUME NEW r \in Relays, SendStep(r) PROVE OInv'
    <2>1. UNCHANGED <<tx, key>>
      BY <1>3 DEF SendStep, Acknowledged, AckLost, Unavailable, RejectedByKafka, tables
    <2> QED BY <1>0, <1>2, <1>3, <2>1, SendOrder DEF SendStep, OInv
  <1>4. ASSUME NEW r \in Relays, SelectBatch(r) PROVE OInv'
    <2>1. UNCHANGED <<tx, key>>
      BY <1>4 DEF SelectBatch, tables
    <2> QED BY <1>0, <1>2, <1>4, <2>1, SelectOrder DEF OInv
  <1>5. ASSUME NEW r \in Relays,
               CommitBatch(r) \/ RollBackBatch(r) \/ CommitFails(r) \/ CommitAnswerLost(r)
        PROVE  OInv'
    <2>1. UNCHANGED <<tx, key>>
      BY <1>5 DEF CommitBatch, RollBackBatch, CommitFails, CommitAnswerLost, WriteResults, tables
    <2> QED BY <1>0, <1>2, <1>5, <2>1, PassEndOrder DEF OInv
  <1>6. ASSUME NEW r \in Relays,
               \/ SessionKilled(r) \/ BeginShutdown(r) \/ DrainTimesOut(r) \/ Exit(r)
               \/ Crash(r) \/ Restart(r)
        PROVE  OInv'
    <2>1. UNCHANGED <<tx, key>>
      BY <1>6 DEF SessionKilled, BeginShutdown, DrainTimesOut, Exit, Crash, Restart, tables
    <2> QED BY <1>0, <1>2, <1>6, <2>1, ProcessOrder DEF OInv
  <1>7. CASE \/ ReapOrphans \/ BrokerDown \/ BrokerUp \/ UNCHANGED vars
             \/ \E e \in Events : OperatorResets(e)
    <2>1. UNCHANGED <<tx, key, outbox, disturbed, copies, outcome>>
      BY <1>7 DEF ReapOrphans, BrokerDown, BrokerUp, OperatorResets, vars, tables, kafka
    <2>2. \A e \in Events : lock'[e] = lock[e] \/ lock'[e] = None
      BY <1>0, <1>7 DEF ReapOrphans, BrokerDown, BrokerUp, OperatorResets, vars, TypeOK
    <2>3. \A e \in Events : attempts'[e] > 0 => attempts[e] > 0
      BY <1>0, <1>7, OutboxAssumption
      DEF ReapOrphans, BrokerDown, BrokerUp, OperatorResets, vars, tables, TypeOK
    <2>4. \A e \in Events : BlameInv(e)'
      BY <2>1, <2>2, <2>3, OutboxAssumption DEF OInv, BlameInv
    <2>5. \A s \in Relays, d, e \in Events : BatchInv(s, d, e)'
      BY <2>1 DEF OInv, BatchInv
    <2> QED BY <1>0, <1>2, <2>1, <2>4, <2>5 DEF OInv
  <1> QED BY <1>1, <1>3, <1>4, <1>5, <1>6, <1>7 DEF Next, RelayStep

\* A send that goes ahead of a row no mishap has befallen meets another relay's send.
OvertakesARival ==
    \A d \in overtaken' \ (overtaken \union disturbed) :
        \E r, s \in Relays : r # s /\ outcome'[r] # outcome[r] /\ Sending(s, d)

LEMMA StepKeepsOrder == OInv /\ [Next]_vars => OvertakesARival
  <1> SUFFICES ASSUME OInv, [Next]_vars PROVE OvertakesARival
    OBVIOUS
  <1>0. TypeOK
    BY DEF OInv, IInv
  <1>1. ASSUME NEW r \in Relays, NEW c \in Events, Acknowledged(r, c) \/ AckLost(r, c)
        PROVE  OvertakesARival
    <2>1. Ahead(r, c) = {} /\ outcome[r][c] = "pending" /\ outcome'[r][c] # "pending"
      BY <1>0, <1>1 DEF Acknowledged, AckLost, Reachable, Sending, SendEnds, TypeOK
    <2>2. SUFFICES ASSUME NEW d \in overtaken', d \notin overtaken, d \notin disturbed
                   PROVE  \E s \in Relays : s # r /\ Sending(s, d)
      BY <2>1 DEF OvertakesARival
    <2>3. d \in outbox /\ d < c /\ key[d] = key[c] /\ copies[d] = 0
      BY <1>1, <2>2 DEF Acknowledged, AckLost, Append1
    <2>4. d \in Events /\ BatchInv(r, d, c)
      BY <1>0, <2>3 DEF OInv, TypeOK
    <2>5. PICK s \in Relays : outcome[s][d] = "pending"
      BY <2>1, <2>2, <2>3, <2>4 DEF BatchInv
    <2>6. s # r
      BY <2>1, <2>3, <2>4, <2>5 DEF Ahead, With
    <2>7. pc[s] = "busy"
      BY <2>4, <2>5 DEF OInv, IInv, RowInv
    <2> QED BY <2>5, <2>6, <2>7 DEF Sending
  <1>2. CASE ~\E r \in Relays, c \in Events : Acknowledged(r, c) \/ AckLost(r, c)
    <2>1. overtaken' = overtaken
      BY <1>2 DEF Next, WriterStep, RelayStep, SendStep, WriteInTransaction, CommitTransaction,
                  AbortTransaction, SelectBatch, Unavailable, RejectedByKafka, CommitBatch,
                  RollBackBatch, CommitFails, CommitAnswerLost, SessionKilled, BeginShutdown,
                  DrainTimesOut, Exit, Crash, Restart, ReapOrphans, BrokerDown, BrokerUp,
                  OperatorResets, kafka, vars
    <2> QED BY <2>1 DEF OvertakesARival
  <1> QED BY <1>1, <1>2

\* "Order holds per relay for rows of one key": however many relays share the table and
\* whatever crashes, lost sessions and outages do, a row whose own sends were never cut
\* short is overtaken only by another relay than the one that is sending it.
THEOREM OrderIsKeptPerRelay == Spec => OrderHoldsPerRelay
  <1>1. OInv /\ [Next]_vars =>
          [\A d \in overtaken' \ (overtaken \union disturbed) :
               \E r, s \in Relays : r # s /\ outcome'[r] # outcome[r] /\ Sending(s, d)]_vars
    BY StepKeepsOrder DEF OvertakesARival
  <1> QED BY InitOInv, NextOInv, <1>1, PTL DEF Spec, OrderHoldsPerRelay

\* With one relay the order of a key is kept by all rows but those whose own sends
\* failed or whose relay died with them.
THEOREM OneRelayKeepsOrder ==
    (\A r, s \in Relays : r = s) => (Spec => [](overtaken \subseteq disturbed))
  <1> SUFFICES ASSUME \A r, s \in Relays : r = s PROVE Spec => [](overtaken \subseteq disturbed)
    OBVIOUS
  <1>1. Init => overtaken \subseteq disturbed
    BY DEF Init
  <1>2. ASSUME OInv, overtaken \subseteq disturbed, [Next]_vars PROVE (overtaken \subseteq disturbed)'
    <2>1. overtaken' \subseteq overtaken \union disturbed
      BY <1>2, StepKeepsOrder DEF OvertakesARival
    <2>2. disturbed \subseteq disturbed'
      BY <1>2 DEF Next, WriterStep, RelayStep, SendStep, WriteInTransaction, CommitTransaction,
                  AbortTransaction, SelectBatch, Acknowledged, AckLost, Unavailable,
                  RejectedByKafka, CommitBatch, RollBackBatch, CommitFails, CommitAnswerLost,
                  SessionKilled, BeginShutdown, DrainTimesOut, Exit, Crash, Restart, ReapOrphans,
                  BrokerDown, BrokerUp, OperatorResets, vars
    <2> QED BY <1>2, <2>1, <2>2
  <1> QED BY InitOInv, NextOInv, <1>1, <1>2, PTL DEF Spec
==============================================================================
