------------------------- MODULE KafkaConsumerProofs -------------------------
(***************************************************************************)
(* Theorems about KafkaConsumer for any number of members, partitions,     *)
(* records, retries and faults.                                            *)
(***************************************************************************)
EXTENDS KafkaConsumer, FiniteSetTheorems, TLAPS

\* Every record of p before offset n is settled.
Prefix(p, n) == \A o \in Offsets : o < n => Settled(p, o)

\* What a member works on starts where the settled records end.
WorkInv(m, p) ==
    /\ phase[m][p] # "idle" => Prefix(p, current[m][p])
    /\ phase[m][p] = "committing" => Settled(p, current[m][p])

\* Everything before a committed offset or an owner's position is settled, and
\* a settled record has no unsettled one before it.
LogInv(p) ==
    /\ Prefix(p, committed[p])
    /\ Prefix(p, position[p])
    /\ \A o \in Offsets : Settled(p, o) => Prefix(p, o)

IInv ==
    /\ TypeOK
    /\ \A m \in Members, p \in Partitions : WorkInv(m, p)
    /\ \A p \in Partitions : LogInv(p)

LEMMA OffsetsFact == Offsets \subseteq Nat /\ 0 \in Offsets
                     /\ \A o \in Offsets : o + 1 \in 0 .. LogLen /\ o < LogLen
  BY ConsumerAssumption DEF Offsets

LEMMA LimitFact == Limit \in Nat \ {0}
  BY ConsumerAssumption DEF Limit

LEMMA InitTypeOK == Init => TypeOK
  BY ConsumerAssumption, OffsetsFact, LimitFact
  DEF Init, TypeOK, Never, NoRetries, NoAttempt, Phases

\* Before the first record nothing is settled, and nothing needs to be.
LEMMA InitIInv == Init => IInv
  <1> SUFFICES ASSUME Init PROVE IInv
    OBVIOUS
  <1>1. \A p \in Partitions, o \in Offsets : ~Settled(p, o)
    BY DEF Init, Settled, Never
  <1>2. \A p \in Partitions : LogInv(p)
    BY <1>1, OffsetsFact DEF LogInv, Prefix, Init
  <1>3. \A m \in Members, p \in Partitions : WorkInv(m, p)
    BY DEF WorkInv, Init
  <1> QED BY InitTypeOK, <1>2, <1>3 DEF IInv

------------------------------------------------------------------------------
(* Types, one group of variables at a time.                                *)

GroupTypes ==
    /\ committed \in [Partitions -> 0 .. LogLen]
    /\ owner \in [Partitions -> Members \union {NoOne}]
    /\ position \in [Partitions -> 0 .. LogLen]

WorkTypes ==
    /\ phase \in [Members -> [Partitions -> Phases]]
    /\ current \in [Members -> [Partitions -> Offsets]]
    /\ paused \in [Members -> SUBSET Partitions]

RetryTypes == attempts \in [Members -> [Partitions -> [offset : Offsets, failed : 0 .. Limit]]]

RecordTypes ==
    /\ handled \in [Partitions -> [Offsets -> Nat]]
    /\ parked \in [Partitions -> [Offsets -> Nat]]
    /\ threw \in [Partitions -> [Offsets -> 0 .. Limit]]

WorldTypes ==
    /\ life \in [Members -> {"connecting", "running", "stopping", "stopped"}]
    /\ broker \in {"up", "down"} /\ downstream \in {"up", "down"}

BudgetTypes ==
    /\ faults \in 0 .. MaxFaults /\ rebalances \in 0 .. MaxRebalances
    /\ outages \in 0 .. MaxOutages /\ stops \in 0 .. MaxStops

LEMMA TypeGroups ==
    TypeOK <=> GroupTypes /\ WorkTypes /\ RetryTypes /\ RecordTypes /\ WorldTypes /\ BudgetTypes
  BY DEF TypeOK, GroupTypes, WorkTypes, RetryTypes, RecordTypes, WorldTypes, BudgetTypes

\* A function that is updated at one place, or at one place of one of its values.
LEMMA Updated ==
    ASSUME NEW A, NEW B, NEW f \in [A -> B], NEW a \in A, NEW b \in B
    PROVE  [f EXCEPT ![a] = b] \in [A -> B]
  OBVIOUS

LEMMA Updated2 ==
    ASSUME NEW A, NEW B, NEW C, NEW f \in [A -> [B -> C]], NEW a \in A, NEW b \in B, NEW c \in C
    PROVE  [f EXCEPT ![a][b] = c] \in [A -> [B -> C]]
  OBVIOUS

LEMMA CountedUp ==
    ASSUME NEW A, NEW B, NEW f \in [A -> [B -> Nat]], NEW a \in A, NEW b \in B
    PROVE  [f EXCEPT ![a][b] = @ + 1] \in [A -> [B -> Nat]]
  <1>1. f[a][b] + 1 \in Nat
    OBVIOUS
  <1> QED BY <1>1

\* What each step of a member does to the variables of the group.
LEMMA GroupStep ==
    ASSUME TypeOK, [Next]_vars PROVE GroupTypes'
  <1> USE OffsetsFact, TypeGroups DEF GroupTypes, WorkTypes, group
  <1>1. ASSUME NEW m \in Members, NEW p \in Partitions, Commits(m, p) \/ CommitFails(m, p)
        PROVE  GroupTypes'
    <2>1. current[m][p] + 1 \in 0 .. LogLen
      BY OffsetsFact
    <2>2. \/ committed' = committed
          \/ committed' = [committed EXCEPT ![p] = current[m][p] + 1]
      BY <1>1 DEF Commits, CommitFails, NextOffset
    <2>3. /\ owner' = owner
          /\ position' = [position EXCEPT ![p] = IF owner[p] = m THEN current[m][p] + 1 ELSE @]
      BY <1>1 DEF Commits, CommitFails, MovesOn
    <2> QED BY <2>1, <2>2, <2>3
  <1>2. ASSUME NEW m \in Members, StopEnds(m) \/ Crashes(m) PROVE GroupTypes'
    BY <1>2 DEF StopEnds, Crashes, Released
  <1>3. ASSUME NEW m \in Members, NEW p \in Partitions, Assigns(p, m) PROVE GroupTypes'
    BY <1>3 DEF Assigns
  <1>4. ASSUME NEW p \in Partitions, Loses(p) PROVE GroupTypes'
    BY <1>4 DEF Loses
  <1>5. CASE UNCHANGED group
    BY <1>5
  <1> HIDE DEF group
  <1>6. \/ UNCHANGED group
        \/ \E m \in Members, p \in Partitions :
             Commits(m, p) \/ CommitFails(m, p) \/ Assigns(p, m)
        \/ \E m \in Members : StopEnds(m) \/ Crashes(m)
        \/ \E p \in Partitions : Loses(p)
    BY DEF Next, vars, Delivers, HandlerEnds, HandlerReturns, BackPressure, HandlerThrows,
           HandlerRefuses, ParkingEnds, Parked, CanPark, ParkFails, ParkAckLost, Parks, RetriesLater,
           CommitEnds, Resumes, Connects, StopBegins, Restarts, BrokerDown, DownstreamDown,
           Outage, Recovers
  <1> QED BY <1>1, <1>2, <1>3, <1>4, <1>5, <1>6

\* Who changes a phase, and to what.
LEMMA WorkStep ==
    ASSUME TypeOK, [Next]_vars PROVE WorkTypes'
  <1> USE OffsetsFact, TypeGroups DEF WorkTypes, Phases, worker
  <1>1. ASSUME NEW m \in Members, NEW p \in Partitions, Delivers(m, p) PROVE WorkTypes'
    <2>1. position[p] \in Offsets
      BY <1>1, ConsumerAssumption DEF Delivers, GroupTypes, Offsets
    <2> QED BY <1>1, <2>1, Updated2 DEF Delivers
  <1>2. ASSUME NEW m \in Members, NEW p \in Partitions, NEW ph \in Phases,
               phase' = [phase EXCEPT ![m][p] = ph], current' = current,
               \/ paused' = paused
               \/ paused' = [paused EXCEPT ![m] = IF owner[p] = m THEN @ \union {p} ELSE @]
        PROVE  WorkTypes'
    <2>1. phase' \in [Members -> [Partitions -> Phases]]
      BY <1>2, Updated2
    <2>2. paused' \in [Members -> SUBSET Partitions]
      BY <1>2
    <2> QED BY <1>2, <2>1, <2>2
  <1>3. ASSUME NEW m \in Members, NEW p \in Partitions,
               HandlerEnds(m, p) \/ ParkingEnds(m, p) \/ CommitEnds(m, p)
        PROVE  WorkTypes'
    <2>1. /\ \E ph \in Phases : phase' = [phase EXCEPT ![m][p] = ph]
          /\ current' = current
          /\ \/ paused' = paused
             \/ paused' = [paused EXCEPT ![m] = IF owner[p] = m THEN @ \union {p} ELSE @]
      BY <1>3 DEF HandlerEnds, HandlerReturns, BackPressure, HandlerThrows, HandlerRefuses,
                  ParkingEnds, Parked, CanPark, ParkFails, ParkAckLost, Parks, RetriesLater, GoesToCommit,
                  CommitEnds, Commits, CommitFails, MovesOn
    <2> QED BY <2>1, <1>2
  <1>4. ASSUME NEW m \in Members, NEW p \in Partitions, Resumes(m, p) PROVE WorkTypes'
    BY <1>4 DEF Resumes
  <1>5. ASSUME NEW m \in Members, StopEnds(m) \/ Crashes(m) PROVE WorkTypes'
    <2>1. [p \in Partitions |-> "idle"] \in [Partitions -> Phases]
      OBVIOUS
    <2>2. phase' \in [Members -> [Partitions -> Phases]]
      BY <1>5, <2>1 DEF StopEnds, Crashes
    <2>3. paused' \in [Members -> SUBSET Partitions] /\ current' = current
      BY <1>5 DEF StopEnds, Crashes
    <2> QED BY <2>2, <2>3
  <1>6. ASSUME NEW p \in Partitions, Loses(p) PROVE WorkTypes'
    BY <1>6 DEF Loses, GroupTypes
  <1>7. CASE UNCHANGED worker
    BY <1>7
  <1> HIDE DEF worker
  <1>8. \/ UNCHANGED worker
        \/ \E m \in Members, p \in Partitions :
             \/ Delivers(m, p) \/ HandlerEnds(m, p) \/ ParkingEnds(m, p) \/ CommitEnds(m, p)
             \/ Resumes(m, p)
        \/ \E m \in Members : StopEnds(m) \/ Crashes(m)
        \/ \E p \in Partitions : Loses(p)
    BY DEF Next, vars, Connects, StopBegins, Restarts, Assigns, BrokerDown, DownstreamDown,
           Outage, Recovers
  <1> QED BY <1>1, <1>3, <1>4, <1>5, <1>6, <1>7, <1>8

LEMMA FailedFact ==
    ASSUME TypeOK, NEW m \in Members, NEW p \in Partitions PROVE Failed(m, p) \in 0 .. Limit
  BY LimitFact DEF TypeOK, Failed

LEMMA RetryStep ==
    ASSUME TypeOK, [Next]_vars PROVE RetryTypes'
  <1> USE TypeGroups DEF RetryTypes
  <1>1. NoAttempt \in [offset : Offsets, failed : 0 .. Limit]
    BY OffsetsFact, LimitFact DEF NoAttempt
  <1>2. NoRetries \in [Partitions -> [offset : Offsets, failed : 0 .. Limit]]
    BY <1>1 DEF NoRetries
  <1>3. ASSUME NEW m \in Members, NEW p \in Partitions, NEW a \in [offset : Offsets, failed : 0 .. Limit],
               attempts' = [attempts EXCEPT ![m][p] = a]
        PROVE  RetryTypes'
    BY <1>3, Updated2
  <1>4. ASSUME NEW m \in Members, NEW p \in Partitions, CountsFailure(m, p) PROVE RetryTypes'
    <2> current[m][p] \in Offsets
      BY DEF WorkTypes
    <2>1. [offset |-> current[m][p], failed |-> Failed(m, p)] \in [offset : Offsets, failed : 0 .. Limit]
      BY FailedFact
    <2> QED BY <1>3, <1>4, <2>1 DEF CountsFailure
  <1>5. ASSUME NEW m \in Members, NEW p \in Partitions, GoesToCommit(m, p) PROVE RetryTypes'
    BY <1>1, <1>3, <1>5 DEF GoesToCommit
  <1>6. ASSUME NEW m \in Members, attempts' = [attempts EXCEPT ![m] = NoRetries] PROVE RetryTypes'
    BY <1>2, <1>6, Updated
  <1>7. \/ attempts' = attempts
        \/ \E m \in Members, p \in Partitions : CountsFailure(m, p) \/ GoesToCommit(m, p)
        \/ \E m \in Members : attempts' = [attempts EXCEPT ![m] = NoRetries]
    BY DEF Next, vars, Delivers, HandlerEnds, HandlerReturns, BackPressure, HandlerThrows,
           HandlerRefuses, ParkingEnds, Parked, CanPark, ParkFails, ParkAckLost, CommitEnds, Commits,
           CommitFails, MovesOn, Resumes, Assigns, Connects, StopBegins, StopEnds, Restarts,
           Crashes, Loses, BrokerDown, DownstreamDown, Outage, Recovers
  <1> QED BY <1>4, <1>5, <1>6, <1>7

LEMMA RecordStep ==
    ASSUME TypeOK, [Next]_vars PROVE RecordTypes'
  <1> USE OffsetsFact, LimitFact, TypeGroups DEF RecordTypes, records
  <1>1. ASSUME NEW m \in Members, NEW p \in Partitions,
               HandlerReturns(m, p) \/ Parked(m, p) \/ ParkAckLost(m, p)
        PROVE  RecordTypes'
    <2> current[m][p] \in Offsets
      BY DEF WorkTypes
    <2>2. threw' = threw
      BY <1>1 DEF HandlerReturns, Parked, ParkAckLost
    <2>3. \/ handled' = [handled EXCEPT ![p][current[m][p]] = @ + 1] /\ parked' = parked
          \/ parked' = [parked EXCEPT ![p][current[m][p]] = @ + 1] /\ handled' = handled
      BY <1>1 DEF HandlerReturns, CanPark, Parked, ParkAckLost, DeadLetters
    <2> HIDE TypeGroups, OffsetsFact, LimitFact
    <2>4. handled \in [Partitions -> [Offsets -> Nat]] /\ parked \in [Partitions -> [Offsets -> Nat]]
      BY TypeGroups
    <2>5. ASSUME NEW f \in [Partitions -> [Offsets -> Nat]], NEW o \in Offsets
          PROVE  [f EXCEPT ![p][o] = @ + 1] \in [Partitions -> [Offsets -> Nat]]
      BY CountedUp
    <2>6. /\ [handled EXCEPT ![p][current[m][p]] = @ + 1] \in [Partitions -> [Offsets -> Nat]]
          /\ [parked EXCEPT ![p][current[m][p]] = @ + 1] \in [Partitions -> [Offsets -> Nat]]
      BY <2>4, <2>5
    <2> QED BY <2>2, <2>3, <2>4, <2>6, TypeGroups
  <1>2. ASSUME NEW m \in Members, NEW p \in Partitions, HandlerThrows(m, p) PROVE RecordTypes'
    <2> current[m][p] \in Offsets
      BY DEF WorkTypes
    <2>1. (IF threw[p][current[m][p]] < Limit THEN threw[p][current[m][p]] + 1
           ELSE threw[p][current[m][p]]) \in 0 .. Limit
      <3>1. threw[p][current[m][p]] \in 0 .. Limit
        OBVIOUS
      <3> QED BY <3>1
    <2>2. threw' \in [Partitions -> [Offsets -> 0 .. Limit]]
      BY <1>2, <2>1, Updated2 DEF HandlerThrows, WorkTypes
    <2> QED BY <1>2, <2>2 DEF HandlerThrows
  <1>3. CASE UNCHANGED records
    BY <1>3
  <1> HIDE DEF records
  <1>4. \/ UNCHANGED records
        \/ \E m \in Members, p \in Partitions :
             HandlerReturns(m, p) \/ HandlerThrows(m, p) \/ Parked(m, p) \/ ParkAckLost(m, p)
    BY DEF Next, vars, Delivers, HandlerEnds, BackPressure, HandlerRefuses, ParkingEnds,
           CanPark, ParkFails, CommitEnds, Commits, CommitFails, MovesOn, Resumes, Assigns, Connects,
           StopBegins, StopEnds, Restarts, Crashes, Loses, BrokerDown, DownstreamDown, Outage,
           Recovers
  <1> QED BY <1>1, <1>2, <1>3, <1>4

LEMMA WorldStep ==
    ASSUME TypeOK, [Next]_vars PROVE WorldTypes'
  <1> USE TypeGroups DEF WorldTypes, world
  <1>1. ASSUME NEW m \in Members,
               Connects(m) \/ StopBegins(m) \/ StopEnds(m) \/ Restarts(m) \/ Crashes(m)
        PROVE  WorldTypes'
    BY <1>1 DEF Connects, StopBegins, StopEnds, Restarts, Crashes
  <1>2. CASE BrokerDown \/ DownstreamDown \/ Recovers
    BY <1>2 DEF BrokerDown, DownstreamDown, Outage, Recovers
  <1>3. CASE UNCHANGED <<life, broker, downstream>>
    BY <1>3
  <1>4. \/ UNCHANGED <<life, broker, downstream>>
        \/ \E m \in Members :
             Connects(m) \/ StopBegins(m) \/ StopEnds(m) \/ Restarts(m) \/ Crashes(m)
        \/ BrokerDown \/ DownstreamDown \/ Recovers
    BY DEF Next, vars, Delivers, HandlerEnds, HandlerReturns, BackPressure, HandlerThrows,
           HandlerRefuses, ParkingEnds, Parked, CanPark, ParkFails, ParkAckLost, CommitEnds, Commits,
           CommitFails, MovesOn, Resumes, Assigns, Loses
  <1> QED BY <1>1, <1>2, <1>3, <1>4

LEMMA BudgetStep ==
    ASSUME TypeOK, [Next]_vars PROVE BudgetTypes'
  <1> USE ConsumerAssumption, TypeGroups DEF BudgetTypes, budgets
  <1>1. CASE Fault
    BY <1>1 DEF Fault
  <1>2. ASSUME NEW m \in Members, StopBegins(m) PROVE BudgetTypes'
    BY <1>2 DEF StopBegins
  <1>3. ASSUME NEW p \in Partitions, Loses(p) PROVE BudgetTypes'
    BY <1>3 DEF Loses
  <1>4. CASE BrokerDown \/ DownstreamDown
    BY <1>4 DEF BrokerDown, DownstreamDown, Outage
  <1>5. CASE UNCHANGED budgets
    BY <1>5
  <1> HIDE DEF budgets
  <1>6. \/ UNCHANGED budgets \/ Fault
        \/ \E m \in Members : StopBegins(m)
        \/ \E p \in Partitions : Loses(p)
        \/ BrokerDown \/ DownstreamDown
    BY DEF Next, vars, Delivers, HandlerEnds, HandlerReturns, BackPressure, HandlerThrows,
           HandlerRefuses, ParkingEnds, Parked, CanPark, ParkFails, ParkAckLost, CommitEnds, Commits,
           CommitFails, Resumes, Assigns, Connects, StopEnds, Restarts, Crashes, Recovers
  <1> QED BY <1>1, <1>2, <1>3, <1>4, <1>5, <1>6

LEMMA NextTypes == TypeOK /\ [Next]_vars => TypeOK'
  <1> SUFFICES ASSUME TypeOK, [Next]_vars PROVE TypeOK'
    OBVIOUS
  <1>1. (GroupTypes /\ WorkTypes /\ RetryTypes /\ RecordTypes /\ WorldTypes /\ BudgetTypes)'
    BY GroupStep, WorkStep, RetryStep, RecordStep, WorldStep, BudgetStep
  <1> QED BY <1>1 DEF TypeOK, GroupTypes, WorkTypes, RetryTypes, RecordTypes, WorldTypes, BudgetTypes

\* The type invariant of the group and its members.
THEOREM ConsumerTypeCorrect == Spec => []TypeOK
  BY InitTypeOK, NextTypes, PTL DEF Spec

------------------------------------------------------------------------------
(* Offsets and what is settled.                                            *)

\* Nothing is ever unsettled.
LEMMA Monotone ==
    ASSUME TypeOK, [Next]_vars, NEW p \in Partitions, NEW o \in Offsets, Settled(p, o)
    PROVE  Settled(p, o)'
  <1> USE OffsetsFact DEF TypeOK, Settled, records
  <1>1. ASSUME NEW m \in Members, NEW q \in Partitions,
               HandlerReturns(m, q) \/ Parked(m, q) \/ ParkAckLost(m, q)
        PROVE  Settled(p, o)'
    BY <1>1 DEF HandlerReturns, CanPark, Parked, ParkAckLost, DeadLetters
  <1>2. CASE UNCHANGED <<handled, parked>>
    BY <1>2
  <1>3. \/ UNCHANGED <<handled, parked>>
        \/ \E m \in Members, q \in Partitions :
             HandlerReturns(m, q) \/ Parked(m, q) \/ ParkAckLost(m, q)
    BY DEF Next, vars, Delivers, HandlerEnds, BackPressure, HandlerThrows, HandlerRefuses,
           ParkingEnds, CanPark, ParkFails, CommitEnds, Commits, CommitFails, MovesOn, Resumes, Assigns,
           Connects, StopBegins, StopEnds, Restarts, Crashes, Loses, BrokerDown, DownstreamDown,
           Outage, Recovers
  <1> QED BY <1>1, <1>2, <1>3

\* Only a handler in flight or a dead-letter send settles a record: the one it is about.
LEMMA WhoSettles ==
    ASSUME TypeOK, [Next]_vars, NEW p \in Partitions, NEW o \in Offsets, ~Settled(p, o), Settled(p, o)'
    PROVE  \E m \in Members : phase[m][p] # "idle" /\ current[m][p] = o
  <1> USE OffsetsFact DEF TypeOK, Settled, records
  <1>1. ASSUME NEW m \in Members, NEW q \in Partitions,
               HandlerReturns(m, q) \/ Parked(m, q) \/ ParkAckLost(m, q)
        PROVE  phase[m][p] # "idle" /\ current[m][p] = o
    <2>1. phase[m][q] # "idle"
      BY <1>1 DEF HandlerReturns, Handling, CanPark, Parked, ParkAckLost
    <2>2. \/ handled' = [handled EXCEPT ![q][current[m][q]] = @ + 1] /\ parked' = parked
          \/ parked' = [parked EXCEPT ![q][current[m][q]] = @ + 1] /\ handled' = handled
      BY <1>1 DEF HandlerReturns, CanPark, Parked, ParkAckLost, DeadLetters
    <2>3. p = q /\ current[m][q] = o
      BY <2>2
    <2> QED BY <2>1, <2>3
  <1>2. \/ UNCHANGED <<handled, parked>>
        \/ \E m \in Members, q \in Partitions :
             HandlerReturns(m, q) \/ Parked(m, q) \/ ParkAckLost(m, q)
    BY DEF Next, vars, Delivers, HandlerEnds, BackPressure, HandlerThrows, HandlerRefuses,
           ParkingEnds, CanPark, ParkFails, CommitEnds, Commits, CommitFails, MovesOn, Resumes, Assigns,
           Connects, StopBegins, StopEnds, Restarts, Crashes, Loses, BrokerDown, DownstreamDown,
           Outage, Recovers
  <1> QED BY <1>1, <1>2

------------------------------------------------------------------------------
(* The invariant.                                                          *)

\* What a step of a member does to a phase and the offset it is about.
LEMMA WorkPreserved ==
    ASSUME IInv, [Next]_vars, TypeOK', NEW m \in Members, NEW p \in Partitions
    PROVE  WorkInv(m, p)'
  <1>1. \A o \in Offsets : Settled(p, o) => Settled(p, o)'
    BY Monotone DEF IInv
  <1>2. WorkInv(m, p) /\ LogInv(p) /\ TypeOK
    BY DEF IInv
  <1>3. CASE phase'[m][p] = "idle"
    BY <1>3 DEF WorkInv
  <1>4. CASE phase[m][p] # "idle" /\ current'[m][p] = current[m][p]
             /\ (phase'[m][p] = "committing" => phase[m][p] = "committing"
                                                \/ Settled(p, current[m][p])')
    BY <1>1, <1>2, <1>4 DEF WorkInv, Prefix, TypeOK
  <1>5. CASE phase'[m][p] = "handling" /\ current'[m][p] = position[p]
    BY <1>1, <1>2, <1>5 DEF WorkInv, LogInv, Prefix
  <1> DEFINE Goal ==
        \/ phase'[m][p] = "idle"
        \/ phase[m][p] # "idle" /\ current'[m][p] = current[m][p]
           /\ (phase'[m][p] = "committing" => phase[m][p] = "committing"
                                              \/ Settled(p, current[m][p])')
        \/ phase'[m][p] = "handling" /\ current'[m][p] = position[p]
  <1>6. ASSUME NEW n \in Members, NEW q \in Partitions, Delivers(n, q) PROVE Goal
    BY <1>2, <1>6 DEF Delivers, TypeOK
  <1>7. ASSUME NEW n \in Members, NEW q \in Partitions,
               HandlerEnds(n, q) \/ ParkingEnds(n, q) \/ CommitEnds(n, q)
        PROVE  Goal
    <2>1. \E ph \in Phases : /\ phase' = [phase EXCEPT ![n][q] = ph]
                             /\ phase[n][q] # "idle" /\ current' = current
                             /\ ph = "committing" => Settled(q, current[n][q])'
      <3>1. CASE HandlerReturns(n, q) \/ Parked(n, q)
        <4>1. /\ phase' = [phase EXCEPT ![n][q] = "committing"]
              /\ phase[n][q] # "idle" /\ current' = current
          BY <3>1 DEF HandlerReturns, Handling, CanPark, Parked, GoesToCommit
        <4>2. Settled(q, current[n][q])'
          <5>1. \/ handled' = [handled EXCEPT ![q][current[n][q]] = @ + 1] /\ parked' = parked
                \/ parked' = [parked EXCEPT ![q][current[n][q]] = @ + 1] /\ handled' = handled
            BY <3>1 DEF HandlerReturns, Parked, DeadLetters
          <5> QED BY <1>2, <4>1, <5>1 DEF Settled, TypeOK
        <4> QED BY <4>1, <4>2 DEF Phases
      <3>2. CASE BackPressure(n, q) \/ HandlerThrows(n, q) \/ HandlerRefuses(n, q)
                 \/ ParkFails(n, q) \/ ParkAckLost(n, q) \/ CommitEnds(n, q)
        <4>1. /\ \/ phase' = [phase EXCEPT ![n][q] = "idle"]
                 \/ phase' = [phase EXCEPT ![n][q] = "parking"]
              /\ phase[n][q] # "idle" /\ current' = current
          BY <3>2 DEF BackPressure, HandlerThrows, HandlerRefuses, Handling, CanPark, ParkFails,
                      ParkAckLost, CommitEnds, Commits, CommitFails, MovesOn, RetriesLater, Parks
        <4> QED BY <4>1 DEF Phases
      <3> QED BY <1>7, <3>1, <3>2 DEF HandlerEnds, ParkingEnds
    <2> QED BY <1>2, <2>1 DEF TypeOK
  <1>8. ASSUME NEW n \in Members, Crashes(n) PROVE Goal
    BY <1>2, <1>8 DEF Crashes, TypeOK
  <1>9. ASSUME UNCHANGED <<phase, current>> PROVE Goal
    BY <1>9
  <1>10. \/ UNCHANGED <<phase, current>>
         \/ \E n \in Members, q \in Partitions :
              Delivers(n, q) \/ HandlerEnds(n, q) \/ ParkingEnds(n, q) \/ CommitEnds(n, q)
         \/ \E n \in Members : Crashes(n)
    BY DEF Next, vars, worker, Resumes, Assigns, Connects, StopBegins, StopEnds, Restarts,
           Loses, BrokerDown, DownstreamDown, Outage, Recovers
  <1>11. Goal
    BY <1>6, <1>7, <1>8, <1>9, <1>10
  <1> QED BY <1>3, <1>4, <1>5, <1>11

\* A commit and an owner's progress stay behind what is settled.
LEMMA LogPreserved ==
    ASSUME IInv, [Next]_vars, TypeOK', NEW p \in Partitions
    PROVE  LogInv(p)'
  <1>1. \A o \in Offsets : Settled(p, o) => Settled(p, o)'
    BY Monotone DEF IInv
  <1>2. TypeOK /\ LogInv(p) /\ \A m \in Members : WorkInv(m, p)
    BY DEF IInv
  <1> DEFINE Settles(n) == \A o \in Offsets : o < n => Settled(p, o)'
  <1>3. Settles(committed[p]) /\ Settles(position[p])
    BY <1>1, <1>2 DEF LogInv, Prefix
  <1>4. Settles(committed'[p]) /\ Settles(position'[p])
    <2>1. ASSUME NEW m \in Members, CommitEnds(m, p) PROVE Settles(current[m][p] + 1)
      <3>1. phase[m][p] = "committing" /\ current[m][p] \in Offsets
        BY <1>2, <2>1 DEF CommitEnds, Commits, CommitFails, TypeOK
      <3>2. \A o \in Offsets : o < current[m][p] \/ o = current[m][p] => Settled(p, o)
        BY <1>2, <3>1 DEF WorkInv, Prefix
      <3>3. \A o \in Offsets : o < current[m][p] + 1 => o < current[m][p] \/ o = current[m][p]
        BY <3>1, ConsumerAssumption DEF Offsets
      <3> QED BY <1>1, <3>2, <3>3
    <2> DEFINE Moves ==
          /\ \/ committed'[p] = committed[p]
             \/ \E m \in Members : CommitEnds(m, p) /\ committed'[p] = current[m][p] + 1
          /\ \/ position'[p] \in {position[p], committed[p]}
             \/ \E m \in Members : CommitEnds(m, p) /\ position'[p] = current[m][p] + 1
    <2>2. Moves
      <3>1. CASE UNCHANGED <<committed, position>>
        BY <3>1
      <3>2. ASSUME NEW m \in Members, NEW q \in Partitions, CommitEnds(m, q)
            PROVE  Moves
        <4>1. /\ \/ committed' = committed
                 \/ committed' = [committed EXCEPT ![q] = current[m][q] + 1]
              /\ position' = [position EXCEPT ![q] = IF owner[q] = m THEN current[m][q] + 1 ELSE @]
          BY <3>2 DEF CommitEnds, Commits, CommitFails, MovesOn, NextOffset
        <4>2. CASE q # p
          BY <1>2, <4>1, <4>2 DEF TypeOK
        <4>3. CASE q = p
          BY <1>2, <3>2, <4>1, <4>3 DEF TypeOK
        <4> QED BY <4>2, <4>3
      <3>3. ASSUME NEW m \in Members, NEW q \in Partitions, Assigns(q, m) PROVE Moves
        BY <1>2, <3>3 DEF Assigns, TypeOK
      <3>4. \/ UNCHANGED <<committed, position>>
            \/ \E m \in Members, q \in Partitions : CommitEnds(m, q) \/ Assigns(q, m)
        BY DEF Next, vars, group, Delivers, HandlerEnds, HandlerReturns, BackPressure,
               HandlerThrows, HandlerRefuses, ParkingEnds, Parked, CanPark, ParkFails, ParkAckLost, Parks,
               RetriesLater, Resumes, Connects, StopBegins, StopEnds, Restarts, Crashes, Loses,
               BrokerDown, DownstreamDown, Outage, Recovers
      <3> QED BY <3>1, <3>2, <3>3, <3>4
    <2> QED BY <1>3, <2>1, <2>2
  <1>5. ASSUME NEW o \in Offsets, Settled(p, o)' PROVE Settles(o)
    <2>1. CASE Settled(p, o)
      BY <1>1, <1>2, <2>1 DEF LogInv, Prefix
    <2>2. CASE ~Settled(p, o)
      <3>1. PICK m \in Members : phase[m][p] # "idle" /\ current[m][p] = o
        BY <1>2, <1>5, <2>2, WhoSettles
      <3> QED BY <1>1, <1>2, <3>1 DEF WorkInv, Prefix
    <2> QED BY <2>1, <2>2
  <1> QED BY <1>4, <1>5 DEF LogInv, Prefix

LEMMA NextIInv == IInv /\ [Next]_vars => IInv'
  <1> SUFFICES ASSUME IInv, [Next]_vars PROVE IInv'
    OBVIOUS
  <1>1. TypeOK'
    BY NextTypes DEF IInv
  <1> QED BY <1>1, WorkPreserved, LogPreserved DEF IInv

\* What the group has committed was handled or is in the dead-letter topic, for
\* whatever crashes, rebalances, lost acks and failed commits do.
THEOREM ConsumerSkipsNothing == Spec => []NothingIsSkipped
  <1>1. IInv => NothingIsSkipped
    BY DEF IInv, LogInv, Prefix, NothingIsSkipped
  <1> QED BY InitIInv, NextIInv, <1>1, PTL DEF Spec

\* Records of a partition are settled in the order of their offsets.
THEOREM ConsumerKeepsOrder == Spec => []SettlesInOrder
  <1>1. IInv => SettlesInOrder
    BY DEF IInv, LogInv, Prefix, SettlesInOrder
  <1> QED BY InitIInv, NextIInv, <1>1, PTL DEF Spec

------------------------------------------------------------------------------
(* Why a record is parked.                                                 *)

\* No member counts more failures of a record than its handler had, and a record
\* it is about to park has used up its retries, unless no handler will ever take it.
RetryInv(m, p) ==
    /\ attempts[m][p].offset \notin Permanent
          => attempts[m][p].failed <= threw[p][attempts[m][p].offset]
    /\ phase[m][p] = "parking" /\ current[m][p] \notin Permanent
          => threw[p][current[m][p]] = Limit

ParkInv(p) == \A o \in Offsets \ Permanent : parked[p][o] > 0 => threw[p][o] = Limit

TInv ==
    /\ TypeOK
    /\ \A m \in Members, p \in Partitions : RetryInv(m, p)
    /\ \A p \in Partitions : ParkInv(p)

LEMMA InitTInv == Init => TInv
  <1> SUFFICES ASSUME Init PROVE TInv
    OBVIOUS
  <1>1. \A m \in Members, p \in Partitions : RetryInv(m, p)
    BY OffsetsFact DEF Init, RetryInv, NoRetries, NoAttempt, Never
  <1>2. \A p \in Partitions : ParkInv(p)
    BY DEF Init, ParkInv, Never
  <1> QED BY InitTypeOK, <1>1, <1>2 DEF TInv

\* The count of a record's failures only grows, up to the limit.
LEMMA ThrewGrows ==
    ASSUME TypeOK, [Next]_vars, NEW p \in Partitions, NEW o \in Offsets
    PROVE  threw[p][o] <= threw'[p][o] /\ (threw[p][o] = Limit => threw'[p][o] = Limit)
  <1>1. threw[p][o] \in 0 .. Limit
    BY DEF TypeOK
  <1>2. CASE UNCHANGED threw
    BY <1>1, <1>2, LimitFact
  <1>3. ASSUME NEW m \in Members, NEW q \in Partitions, HandlerThrows(m, q)
        PROVE  threw[p][o] <= threw'[p][o] /\ (threw[p][o] = Limit => threw'[p][o] = Limit)
    <2>1. \/ threw'[p][o] = threw[p][o]
          \/ threw'[p][o] = IF threw[p][o] < Limit THEN threw[p][o] + 1 ELSE threw[p][o]
      BY <1>3 DEF HandlerThrows, TypeOK
    <2> QED BY <1>1, <2>1, LimitFact
  <1>4. \/ UNCHANGED threw
        \/ \E m \in Members, q \in Partitions : HandlerThrows(m, q)
    BY DEF Next, vars, records, Delivers, HandlerEnds, HandlerReturns, BackPressure, HandlerRefuses,
           ParkingEnds, Parked, ParkFails, ParkAckLost, CommitEnds, Commits, CommitFails, MovesOn,
           Resumes, Assigns, Connects, StopBegins, StopEnds, Restarts, Crashes, Loses, BrokerDown,
           DownstreamDown, Outage, Recovers
  <1> QED BY <1>2, <1>3, <1>4

\* What a handler that throws does to both counts of its record.
LEMMA ThrowCounts ==
    ASSUME TInv, NEW m \in Members, NEW p \in Partitions, HandlerThrows(m, p)
    PROVE  /\ current[m][p] \in Offsets \ Permanent
           /\ Failed(m, p) <= threw'[p][current[m][p]]
           /\ Failed(m, p) > MaxRetries => threw'[p][current[m][p]] = Limit
  <1>1. current[m][p] \in Offsets \ Permanent
    BY ConsumerAssumption DEF HandlerThrows, Handling, TInv, TypeOK
  <1> DEFINE before == IF SameRecord(m, p) THEN attempts[m][p].failed ELSE 0
  <1>2. before \in 0 .. Limit /\ threw[p][current[m][p]] \in 0 .. Limit
    BY <1>1, LimitFact DEF TInv, TypeOK
  <1>3. before <= threw[p][current[m][p]]
    <2>1. CASE SameRecord(m, p)
      BY <1>1, <2>1 DEF TInv, RetryInv, SameRecord
    <2>2. CASE ~SameRecord(m, p)
      BY <1>2, <2>2
    <2> QED BY <2>1, <2>2
  <1>4. Failed(m, p) = IF before < Limit THEN before + 1 ELSE Limit
    BY DEF Failed
  <1>5. threw'[p][current[m][p]] = IF threw[p][current[m][p]] < Limit
                                   THEN threw[p][current[m][p]] + 1 ELSE threw[p][current[m][p]]
    BY <1>1 DEF HandlerThrows, TInv, TypeOK
  <1> HIDE DEF before
  <1>6. PICK b \in Nat, t \in Nat : b = before /\ t = threw[p][current[m][p]]
    BY <1>2, LimitFact
  <1>7. b <= t /\ t <= Limit /\ Limit \in Nat /\ MaxRetries \in Nat /\ Limit = MaxRetries + 1
    BY <1>2, <1>3, <1>6, LimitFact, ConsumerAssumption DEF Limit
  <1>8. Failed(m, p) <= threw'[p][current[m][p]]
    BY <1>4, <1>5, <1>6, <1>7
  <1>9. Failed(m, p) > MaxRetries => threw'[p][current[m][p]] = Limit
    BY <1>4, <1>5, <1>6, <1>7
  <1> QED BY <1>1, <1>8, <1>9

LEMMA RetriesPreserved ==
    ASSUME TInv, [Next]_vars, TypeOK', NEW m \in Members, NEW p \in Partitions
    PROVE  RetryInv(m, p)'
  <1>1. TypeOK /\ RetryInv(m, p)
    BY DEF TInv
  <1>2. /\ current[m][p] \in Offsets /\ attempts[m][p].offset \in Offsets
        /\ attempts[m][p].failed \in Nat
    BY <1>1, LimitFact DEF TypeOK
  <1>3. ASSUME NEW o \in Offsets
        PROVE  /\ threw[p][o] \in Nat /\ threw'[p][o] \in Nat
               /\ threw[p][o] <= threw'[p][o] /\ (threw[p][o] = Limit => threw'[p][o] = Limit)
    <2>1. threw[p][o] \in Nat /\ threw'[p][o] \in Nat
      BY <1>1, LimitFact DEF TypeOK
    <2> QED BY <1>1, <2>1, ThrewGrows
  <1>4. ASSUME HandlerThrows(m, p)
        PROVE  /\ attempts'[m][p] = [offset |-> current[m][p], failed |-> Failed(m, p)]
               /\ current' = current
               /\ phase'[m][p] = "parking" => Failed(m, p) > MaxRetries
    <2>1. attempts'[m][p] = [offset |-> current[m][p], failed |-> Failed(m, p)]
      BY <1>1, <1>4 DEF HandlerThrows, CountsFailure, TypeOK
    <2>2. current' = current
      BY <1>4 DEF HandlerThrows, RetriesLater, Parks
    <2>3. Failed(m, p) <= MaxRetries => phase'[m][p] = "idle"
      BY <1>1, <1>4 DEF HandlerThrows, RetriesLater, TypeOK
    <2>4. Failed(m, p) <= MaxRetries \/ Failed(m, p) > MaxRetries
      BY <1>1, FailedFact, ConsumerAssumption, LimitFact
    <2> QED BY <2>1, <2>2, <2>3, <2>4
  <1>5. ASSUME HandlerRefuses(m, p)
        PROVE  attempts'[m][p].offset \in Permanent /\ current'[m][p] \in Permanent
    BY <1>1, <1>5 DEF HandlerRefuses, Handling, CountsFailure, Parks, TypeOK
  <1>6. ASSUME attempts'[m][p].offset \notin Permanent
        PROVE  attempts'[m][p].failed <= threw'[p][attempts'[m][p].offset]
    <2>1. CASE attempts'[m][p] = attempts[m][p]
      <3>1. attempts[m][p].failed <= threw[p][attempts[m][p].offset]
        BY <1>1, <1>6, <2>1 DEF RetryInv
      <3>2. /\ threw[p][attempts[m][p].offset] <= threw'[p][attempts[m][p].offset]
            /\ threw[p][attempts[m][p].offset] \in Nat /\ threw'[p][attempts[m][p].offset] \in Nat
        BY <1>2, <1>3
      <3> QED BY <1>2, <2>1, <3>1, <3>2
    <2>2. CASE attempts'[m][p] = NoAttempt
      BY <1>3, <2>2, OffsetsFact DEF NoAttempt
    <2>3. CASE HandlerThrows(m, p)
      BY <1>4, <2>3, ThrowCounts
    <2>4. CASE HandlerRefuses(m, p)
      BY <1>5, <1>6, <2>4
    <2>5. \/ attempts' = attempts
          \/ \E n \in Members, q \in Partitions : CountsFailure(n, q)
                                                  /\ (HandlerThrows(n, q) \/ HandlerRefuses(n, q))
          \/ \E n \in Members, q \in Partitions : GoesToCommit(n, q)
          \/ \E n \in Members : attempts' = [attempts EXCEPT ![n] = NoRetries]
      BY DEF Next, vars, Delivers, HandlerEnds, HandlerReturns, BackPressure, HandlerThrows,
             HandlerRefuses, ParkingEnds, Parked, ParkFails, ParkAckLost, CommitEnds, Commits,
             CommitFails, MovesOn, Resumes, Assigns, Connects, StopBegins, StopEnds, Restarts,
             Crashes, Loses, BrokerDown, DownstreamDown, Outage, Recovers
    <2>6. \/ attempts'[m][p] \in {attempts[m][p], NoAttempt}
          \/ HandlerThrows(m, p) \/ HandlerRefuses(m, p)
      <3>1. ASSUME NEW n \in Members, NEW q \in Partitions,
                   CountsFailure(n, q), HandlerThrows(n, q) \/ HandlerRefuses(n, q)
            PROVE  \/ attempts'[m][p] = attempts[m][p]
                   \/ HandlerThrows(m, p) \/ HandlerRefuses(m, p)
        <4>1. CASE n = m /\ q = p
          BY <3>1, <4>1
        <4>2. CASE n # m \/ q # p
          BY <1>1, <3>1, <4>2 DEF CountsFailure, TypeOK
        <4> QED BY <4>1, <4>2
      <3>2. ASSUME NEW n \in Members, NEW q \in Partitions, GoesToCommit(n, q)
            PROVE  attempts'[m][p] \in {attempts[m][p], NoAttempt}
        BY <1>1, <3>2 DEF GoesToCommit, TypeOK
      <3>3. ASSUME NEW n \in Members, attempts' = [attempts EXCEPT ![n] = NoRetries]
            PROVE  attempts'[m][p] \in {attempts[m][p], NoAttempt}
        BY <1>1, <3>3 DEF NoRetries, TypeOK
      <3> QED BY <2>5, <3>1, <3>2, <3>3
    <2> QED BY <2>1, <2>2, <2>3, <2>4, <2>6
  <1>7. ASSUME phase'[m][p] = "parking", current'[m][p] \notin Permanent
        PROVE  threw'[p][current'[m][p]] = Limit
    <2>1. CASE phase[m][p] = "parking" /\ current' = current
      BY <1>1, <1>2, <1>3, <1>7, <2>1 DEF RetryInv
    <2>2. CASE HandlerThrows(m, p)
      BY <1>4, <1>7, <2>2, ThrowCounts
    <2>3. CASE HandlerRefuses(m, p)
      BY <1>5, <1>7, <2>3
    <2>4. \/ UNCHANGED <<phase, current>>
          \/ \E n \in Members, q \in Partitions : HandlerThrows(n, q) \/ HandlerRefuses(n, q)
          \/ \E n \in Members, q \in Partitions, ph \in {"idle", "committing"} :
               phase' = [phase EXCEPT ![n][q] = ph] /\ current' = current
          \/ \E n \in Members, q \in Partitions : Delivers(n, q)
          \/ \E n \in Members : Crashes(n)
      BY DEF Next, vars, worker, HandlerEnds, HandlerReturns, BackPressure, RetriesLater,
             GoesToCommit, ParkingEnds, Parked, ParkFails, ParkAckLost, CommitEnds, Commits,
             CommitFails, MovesOn, Resumes, Assigns, Connects, StopBegins, StopEnds, Restarts,
             Loses, BrokerDown, DownstreamDown, Outage, Recovers
    <2>5. ASSUME NEW n \in Members, NEW q \in Partitions,
                 HandlerThrows(n, q) \/ HandlerRefuses(n, q), n # m \/ q # p
          PROVE  phase'[m][p] = phase[m][p] /\ current' = current
      BY <1>1, <2>5 DEF HandlerThrows, HandlerRefuses, RetriesLater, Parks, TypeOK
    <2>6. ASSUME NEW n \in Members, NEW q \in Partitions, Delivers(n, q)
          PROVE  phase[m][p] = "parking" /\ current'[m][p] = current[m][p]
      BY <1>1, <1>7, <2>6 DEF Delivers, TypeOK
    <2>7. ASSUME NEW n \in Members, Crashes(n)
          PROVE  phase[m][p] = "parking" /\ current' = current
      BY <1>1, <1>7, <2>7 DEF Crashes, TypeOK
    <2>8. ASSUME NEW n \in Members, NEW q \in Partitions, NEW ph \in {"idle", "committing"},
                 phase' = [phase EXCEPT ![n][q] = ph]
          PROVE  phase[m][p] = "parking"
      BY <1>1, <1>7, <2>8 DEF TypeOK
    <2>9. CASE phase[m][p] = "parking" /\ current'[m][p] = current[m][p]
      BY <1>1, <1>2, <1>3, <1>7, <2>9 DEF RetryInv
    <2> QED BY <1>7, <2>1, <2>2, <2>3, <2>4, <2>5, <2>6, <2>7, <2>8, <2>9
  <1> QED BY <1>6, <1>7 DEF RetryInv

LEMMA ParkedPreserved ==
    ASSUME TInv, [Next]_vars, NEW p \in Partitions
    PROVE  ParkInv(p)'
  <1>1. TypeOK /\ ParkInv(p) /\ \A m \in Members : RetryInv(m, p)
    BY DEF TInv
  <1> SUFFICES ASSUME NEW o \in Offsets \ Permanent, parked'[p][o] > 0 PROVE threw'[p][o] = Limit
    BY DEF ParkInv
  <1>2. threw[p][o] = Limit => threw'[p][o] = Limit
    BY <1>1, ThrewGrows
  <1>3. CASE parked'[p][o] = parked[p][o]
    BY <1>1, <1>2, <1>3 DEF ParkInv
  <1>4. ASSUME NEW m \in Members, NEW q \in Partitions, Parked(m, q) \/ ParkAckLost(m, q),
               parked'[p][o] # parked[p][o]
        PROVE  threw[p][o] = Limit
    <2>1. phase[m][q] = "parking" /\ DeadLetters(q, current[m][q])
      BY <1>4 DEF Parked, ParkAckLost, CanPark
    <2>2. q = p /\ current[m][q] = o
      BY <1>1, <1>4, <2>1 DEF DeadLetters, TypeOK
    <2> QED BY <1>1, <2>1, <2>2 DEF RetryInv
  <1>5. \/ parked' = parked
        \/ \E m \in Members, q \in Partitions : Parked(m, q) \/ ParkAckLost(m, q)
    BY DEF Next, vars, records, Delivers, HandlerEnds, HandlerReturns, BackPressure, HandlerThrows,
           HandlerRefuses, ParkingEnds, ParkFails, CommitEnds, Commits, CommitFails, MovesOn,
           Resumes, Assigns, Connects, StopBegins, StopEnds, Restarts, Crashes, Loses, BrokerDown,
           DownstreamDown, Outage, Recovers
  <1> QED BY <1>2, <1>3, <1>4, <1>5

LEMMA NextTInv == TInv /\ [Next]_vars => TInv'
  <1> SUFFICES ASSUME TInv, [Next]_vars PROVE TInv'
    OBVIOUS
  <1>1. TypeOK'
    BY NextTypes DEF TInv
  <1> QED BY <1>1, RetriesPreserved, ParkedPreserved DEF TInv

\* A record that some handler may take reaches the dead-letter topic only after
\* its own handler failed KAFKA_CONSUMER_MAX_RETRIES + 1 times, whatever the
\* partition and its members went through in between.
THEOREM ConsumerRetriesFirst == Spec => []RetriedBeforeParked
  <1>1. TInv => RetriedBeforeParked
    BY DEF TInv, ParkInv, RetriedBeforeParked
  <1> QED BY InitTInv, NextTInv, <1>1, PTL DEF Spec

------------------------------------------------------------------------------
(* Who may still settle a record, and what has been paid for it.           *)

\* Members that lost the partition and still have the record in their hands.
Strays(p, o) == {m \in Members : /\ m # owner[p] /\ current[m][p] = o
                                 /\ phase[m][p] \in {"handling", "parking"}}

\* The partition's owner, or its next one, will be given the record (again).
Coming(p, o) ==
    \/ owner[p] = NoOne
    \/ position[p] <= o /\ ~(phase[owner[p]][p] = "committing" /\ current[owner[p]][p] = o)

\* The owner is leaving and has not yet handed the record on to the next one.
Leaving(p, o) ==
    /\ owner[p] # NoOne /\ life[owner[p]] = "stopping"
    /\ ~(phase[owner[p]][p] = "idle" /\ position[p] <= o)

One(b) == IF b THEN 1 ELSE 0

Copies(p, o) == handled[p][o] + parked[p][o]
Causes == 1 + faults + rebalances + stops

\* A record's copies, and whoever may still make another one, have each a cause.
Charged(p, o) ==
    /\ IsFiniteSet(Strays(p, o))
    /\ Copies(p, o) + One(Coming(p, o)) + One(Leaving(p, o)) + Cardinality(Strays(p, o)) <= Causes

\* What an owner works on is where it stands.
AtPosition(p) == \A m \in Members : owner[p] = m /\ phase[m][p] # "idle" => current[m][p] = position[p]

CInv ==
    /\ TypeOK
    /\ \A p \in Partitions : AtPosition(p)
    /\ \A p \in Partitions, o \in Offsets : Charged(p, o)

LEMMA InitCInv == Init => CInv
  <1> SUFFICES ASSUME Init PROVE CInv
    OBVIOUS
  <1>1. \A p \in Partitions : AtPosition(p)
    BY DEF Init, AtPosition
  <1>2. ASSUME NEW p \in Partitions, NEW o \in Offsets PROVE Charged(p, o)
    <2>1. Strays(p, o) = {}
      BY <1>2 DEF Init, Strays
    <2>2. IsFiniteSet(Strays(p, o)) /\ Cardinality(Strays(p, o)) = 0
      BY <2>1, FS_EmptySet
    <2>3. Coming(p, o) /\ ~Leaving(p, o) /\ Copies(p, o) = 0 /\ Causes = 1
      BY DEF Init, Coming, Leaving, Copies, Never, Causes
    <2> QED BY <2>2, <2>3 DEF Charged, One
  <1> QED BY InitTypeOK, <1>1, <1>2 DEF CInv

\* The ways a step keeps the account of a record: nothing more is open than before;
\* the owner's or a stray's turn is used up; a leaving owner hands its turn on or
\* repeats a record it has parked; or a cause is added.
Settles(p, o) == Copies(p, o)' = Copies(p, o) + 1
Keeps(p, o)   == Copies(p, o)' = Copies(p, o)

Paid(p, o) ==
    /\ Causes' \in Nat /\ Copies(p, o)' \in Nat
    /\ \/ /\ Causes <= Causes' /\ (Leaving(p, o)' => Leaving(p, o))
          /\ \/ Keeps(p, o) /\ (Coming(p, o)' => Coming(p, o)) /\ Strays(p, o)' \subseteq Strays(p, o)
             \/ Settles(p, o) /\ Coming(p, o) /\ ~Coming(p, o)' /\ Strays(p, o)' \subseteq Strays(p, o)
             \/ /\ Settles(p, o) /\ (Coming(p, o)' => Coming(p, o))
                /\ \E m \in Strays(p, o) : Strays(p, o)' \subseteq Strays(p, o) \ {m}
       \/ /\ Causes <= Causes' /\ Leaving(p, o) /\ ~Leaving(p, o)'
          /\ Strays(p, o)' \subseteq Strays(p, o)
          /\ Keeps(p, o) \/ (Settles(p, o) /\ (Coming(p, o)' => Coming(p, o)))
       \/ /\ Causes' = Causes + 1 /\ Keeps(p, o)
          /\ \/ (Coming(p, o)' => Coming(p, o)) \/ (Leaving(p, o)' => Leaving(p, o))
          /\ Strays(p, o)' \subseteq Strays(p, o)
       \/ /\ Causes' = Causes + 1 /\ Keeps(p, o) /\ Coming(p, o) /\ (Leaving(p, o)' => Leaving(p, o))
          /\ \E m \in Members : Strays(p, o)' \subseteq Strays(p, o) \union {m}
       \/ /\ Causes' = Causes + 1 /\ Settles(p, o)
          /\ (Coming(p, o)' => Coming(p, o)) /\ (Leaving(p, o)' => Leaving(p, o))
          /\ Strays(p, o)' \subseteq Strays(p, o)

LEMMA FewerOrOneMore ==
    ASSUME NEW T, IsFiniteSet(T), NEW U, NEW x
    PROVE  /\ Cardinality(T) \in Nat
           /\ U \subseteq T => IsFiniteSet(U) /\ Cardinality(U) \in Nat /\ Cardinality(U) <= Cardinality(T)
           /\ U \subseteq T \ {x} /\ x \in T
                => IsFiniteSet(U) /\ Cardinality(U) \in Nat /\ Cardinality(U) + 1 <= Cardinality(T)
           /\ U \subseteq T \union {x}
                => IsFiniteSet(U) /\ Cardinality(U) \in Nat /\ Cardinality(U) <= Cardinality(T) + 1
  <1>1. Cardinality(T) \in Nat
    BY FS_CardinalityType
  <1>2. ASSUME NEW V, IsFiniteSet(V), NEW W, W \subseteq V
        PROVE  IsFiniteSet(W) /\ Cardinality(W) \in Nat /\ Cardinality(W) <= Cardinality(V)
    BY <1>2, FS_Subset, FS_CardinalityType
  <1>3. ASSUME x \in T
        PROVE  IsFiniteSet(T \ {x}) /\ Cardinality(T \ {x}) \in Nat
               /\ Cardinality(T \ {x}) = Cardinality(T) - 1
    BY <1>3, FS_RemoveElement, FS_CardinalityType
  <1>4. IsFiniteSet(T \union {x}) /\ Cardinality(T \union {x}) \in Nat
        /\ Cardinality(T \union {x}) <= Cardinality(T) + 1
    <2>1. IsFiniteSet(T \union {x}) /\ Cardinality(T \union {x}) \in Nat
      BY FS_AddElement, FS_CardinalityType
    <2>2. \/ Cardinality(T \union {x}) = Cardinality(T)
          \/ Cardinality(T \union {x}) = Cardinality(T) + 1
      BY FS_AddElement
    <2> QED BY <1>1, <2>1, <2>2
  <1>5. U \subseteq T => IsFiniteSet(U) /\ Cardinality(U) \in Nat /\ Cardinality(U) <= Cardinality(T)
    BY <1>2
  <1>6. ASSUME U \subseteq T \ {x}, x \in T
        PROVE  IsFiniteSet(U) /\ Cardinality(U) \in Nat /\ Cardinality(U) + 1 <= Cardinality(T)
    <2>1. IsFiniteSet(U) /\ Cardinality(U) \in Nat /\ Cardinality(U) <= Cardinality(T \ {x})
      BY <1>2, <1>3, <1>6
    <2> QED BY <1>1, <1>3, <1>6, <2>1
  <1>7. ASSUME U \subseteq T \union {x}
        PROVE  IsFiniteSet(U) /\ Cardinality(U) \in Nat /\ Cardinality(U) <= Cardinality(T) + 1
    <2>1. IsFiniteSet(U) /\ Cardinality(U) \in Nat /\ Cardinality(U) <= Cardinality(T \union {x})
      BY <1>2, <1>4, <1>7
    <2> QED BY <1>1, <1>4, <2>1
  <1> QED BY <1>1, <1>5, <1>6, <1>7

LEMMA PaidIsCharged ==
    ASSUME TypeOK, NEW p \in Partitions, NEW o \in Offsets, Charged(p, o), Paid(p, o)
    PROVE  Charged(p, o)'
  <1> DEFINE T == Strays(p, o)
  <1>0. /\ Copies(p, o) \in Nat /\ Causes \in Nat
        /\ Copies(p, o)' \in Nat /\ Causes' \in Nat
    <2>1. handled[p][o] \in Nat /\ parked[p][o] \in Nat
      BY DEF TypeOK
    <2>2. faults \in Nat /\ rebalances \in Nat /\ stops \in Nat
      BY ConsumerAssumption DEF TypeOK
    <2> QED BY <2>1, <2>2 DEF Copies, Causes, Paid
  <1>1. PICK c \in Nat, b \in Nat, c2 \in Nat, b2 \in Nat :
            c = Copies(p, o) /\ b = Causes /\ c2 = Copies(p, o)' /\ b2 = Causes'
    BY <1>0
  <1>2. PICK U : U = Strays(p, o)'
    OBVIOUS
  <1>3. IsFiniteSet(T)
    BY DEF Charged
  <1>4. \/ U \subseteq T
        \/ \E m \in T : U \subseteq T \ {m}
        \/ \E m : U \subseteq T \union {m}
    BY <1>2 DEF Paid
  <1>5. IsFiniteSet(U) /\ Cardinality(U) \in Nat /\ Cardinality(T) \in Nat
    BY <1>3, <1>4, FewerOrOneMore
  <1>6. PICK k \in Nat, k2 \in Nat : k = Cardinality(T) /\ k2 = Cardinality(U)
    BY <1>5
  <1>7. /\ U \subseteq T => k2 <= k
        /\ (\E m \in T : U \subseteq T \ {m}) => k2 + 1 <= k
        /\ (\E m \in Members : U \subseteq T \union {m}) => k2 <= k + 1
    BY <1>3, <1>6, FewerOrOneMore
  <1>8. PICK a \in {0, 1}, a2 \in {0, 1}, l \in {0, 1}, l2 \in {0, 1} :
            /\ a = One(Coming(p, o)) /\ a2 = One(Coming(p, o)')
            /\ l = One(Leaving(p, o)) /\ l2 = One(Leaving(p, o)')
    BY DEF One
  <1>9. /\ (Coming(p, o)' => Coming(p, o)) => a2 <= a
        /\ Coming(p, o) /\ ~Coming(p, o)' => a2 + 1 <= a
        /\ (Leaving(p, o)' => Leaving(p, o)) => l2 <= l
        /\ Leaving(p, o) /\ ~Leaving(p, o)' => l2 + 1 <= l
        /\ Coming(p, o) => a2 <= a
    BY <1>8 DEF One
  <1>10. c + a + l + k <= b
    BY <1>1, <1>6, <1>8 DEF Charged
  <1>11. \/ /\ b <= b2 /\ l2 <= l
            /\ \/ c2 = c /\ a2 <= a /\ k2 <= k
               \/ c2 = c + 1 /\ a2 + 1 <= a /\ k2 <= k
               \/ c2 = c + 1 /\ a2 <= a /\ k2 + 1 <= k
         \/ b <= b2 /\ l2 + 1 <= l /\ k2 <= k /\ (c2 = c \/ (c2 = c + 1 /\ a2 <= a))
         \/ b2 = b + 1 /\ c2 = c /\ (a2 <= a \/ l2 <= l) /\ k2 <= k
         \/ b2 = b + 1 /\ c2 = c /\ a2 <= a /\ l2 <= l /\ k2 <= k + 1
         \/ b2 = b + 1 /\ c2 = c + 1 /\ a2 <= a /\ l2 <= l /\ k2 <= k
    BY <1>1, <1>2, <1>7, <1>9 DEF Paid, Keeps, Settles
  <1>12. c2 + a2 + l2 + k2 <= b2
    BY <1>10, <1>11
  <1> QED BY <1>1, <1>2, <1>5, <1>6, <1>8, <1>12 DEF Charged, One

LEMMA CausesFact ==
    ASSUME TypeOK, TypeOK', NEW p \in Partitions, NEW o \in Offsets
    PROVE  /\ Causes \in Nat /\ Causes' \in Nat /\ Copies(p, o) \in Nat /\ Copies(p, o)' \in Nat
           /\ UNCHANGED budgets => Causes' = Causes
           /\ Fault => Causes' = Causes + 1
  <1>1. handled[p][o] \in Nat /\ parked[p][o] \in Nat /\ handled'[p][o] \in Nat /\ parked'[p][o] \in Nat
    BY DEF TypeOK
  <1>2. /\ faults \in Nat /\ rebalances \in Nat /\ stops \in Nat
        /\ faults' \in Nat /\ rebalances' \in Nat /\ stops' \in Nat
    BY ConsumerAssumption DEF TypeOK
  <1>3. Causes \in Nat /\ Causes' \in Nat /\ Copies(p, o) \in Nat /\ Copies(p, o)' \in Nat
    <2>1. ASSUME NEW i \in Nat, NEW j \in Nat, NEW k \in Nat PROVE 1 + i + j + k \in Nat
      OBVIOUS
    <2>3. Causes \in Nat
      BY <1>2, <2>1 DEF Causes
    <2>4. Causes' \in Nat
      BY <1>2, <2>1 DEF Causes
    <2>2. Copies(p, o) \in Nat /\ Copies(p, o)' \in Nat
      BY <1>1 DEF Copies
    <2> QED BY <2>2, <2>3, <2>4
  <1>4. UNCHANGED budgets => Causes' = Causes
    BY <1>2 DEF budgets, Causes
  <1>5. Fault => Causes' = Causes + 1
    BY <1>2 DEF Fault, Causes
  <1> QED BY <1>3, <1>4, <1>5

\* The accounts a member's own step settles.
LEMMA WaysToPay ==
    ASSUME NEW p, NEW o, Causes' \in Nat, Copies(p, o)' \in Nat, Causes <= Causes',
           Strays(p, o)' \subseteq Strays(p, o)
    PROVE  /\ Keeps(p, o) /\ (Coming(p, o)' => Coming(p, o)) /\ (Leaving(p, o)' => Leaving(p, o))
                => Paid(p, o)
           /\ Settles(p, o) /\ Coming(p, o) /\ ~Coming(p, o)' /\ (Leaving(p, o)' => Leaving(p, o))
                => Paid(p, o)
           /\ Settles(p, o) /\ (Coming(p, o)' => Coming(p, o)) /\ Leaving(p, o) /\ ~Leaving(p, o)'
                => Paid(p, o)
           /\ Settles(p, o) /\ (Coming(p, o)' => Coming(p, o)) /\ (Leaving(p, o)' => Leaving(p, o))
                             /\ Causes' = Causes + 1
                => Paid(p, o)
           /\ Keeps(p, o) /\ Leaving(p, o) /\ ~Leaving(p, o)' => Paid(p, o)
  <1>1. Keeps(p, o) /\ (Coming(p, o)' => Coming(p, o)) /\ (Leaving(p, o)' => Leaving(p, o))
            => Paid(p, o)
    BY DEF Paid
  <1>2. Settles(p, o) /\ Coming(p, o) /\ ~Coming(p, o)' /\ (Leaving(p, o)' => Leaving(p, o))
            => Paid(p, o)
    BY DEF Paid
  <1>3. Settles(p, o) /\ (Coming(p, o)' => Coming(p, o)) /\ Leaving(p, o) /\ ~Leaving(p, o)'
            => Paid(p, o)
    BY DEF Paid
  <1>4. Settles(p, o) /\ (Coming(p, o)' => Coming(p, o)) /\ (Leaving(p, o)' => Leaving(p, o))
                      /\ Causes' = Causes + 1
            => Paid(p, o)
    BY DEF Paid
  <1>5. Keeps(p, o) /\ Leaving(p, o) /\ ~Leaving(p, o)' => Paid(p, o)
    BY DEF Paid
  <1> QED BY <1>1, <1>2, <1>3, <1>4, <1>5

LEMMA StraySettles ==
    ASSUME NEW p, NEW o, Causes' \in Nat, Copies(p, o)' \in Nat, Causes <= Causes',
           Strays(p, o)' \subseteq Strays(p, o), Settles(p, o),
           Coming(p, o)' => Coming(p, o), Leaving(p, o)' => Leaving(p, o),
           NEW m, m \in Strays(p, o), m \notin Strays(p, o)'
    PROVE  Paid(p, o)
  <1>1. Strays(p, o)' \subseteq Strays(p, o) \ {m}
    OBVIOUS
  <1> QED BY <1>1 DEF Paid

\* A step that leaves the partition and the record alone.
LEMMA QuietPays ==
    ASSUME TypeOK, TypeOK', NEW p \in Partitions, NEW o \in Offsets,
           Keeps(p, o), Causes <= Causes',
           owner'[p] = owner[p], position'[p] = position[p],
           \A m \in Members : /\ phase'[m][p] = phase[m][p] /\ current'[m][p] = current[m][p]
                              /\ life'[m] = "stopping" => life[m] = "stopping"
    PROVE  Paid(p, o)
  <1>1. Strays(p, o)' \subseteq Strays(p, o)
    BY DEF Strays
  <1>2. owner[p] # NoOne => owner[p] \in Members
    BY DEF TypeOK
  <1>3. (Coming(p, o)' => Coming(p, o)) /\ (Leaving(p, o)' => Leaving(p, o))
    BY <1>2 DEF Coming, Leaving
  <1> QED BY <1>1, <1>3, CausesFact DEF Paid

\* What a member that works on a partition leaves as it is.
LEMMA MemberStep ==
    ASSUME TypeOK, NEW m \in Members, NEW p \in Partitions,
           HandlerEnds(m, p) \/ ParkingEnds(m, p) \/ CommitEnds(m, p)
    PROVE  /\ owner' = owner /\ life' = life /\ current' = current
           /\ \A n \in Members, q \in Partitions : n # m \/ q # p => phase'[n][q] = phase[n][q]
           /\ \A q \in Partitions : owner[q] # m \/ q # p => position'[q] = position[q]
           /\ \A q \in Partitions, o \in Offsets :
                q # p \/ o # current[m][p] => handled'[q][o] = handled[q][o] /\ parked'[q][o] = parked[q][o]
           /\ UNCHANGED budgets \/ Fault
  <1>1. owner' = owner /\ life' = life /\ current' = current /\ (UNCHANGED budgets \/ Fault)
    BY DEF HandlerEnds, HandlerReturns, BackPressure, HandlerThrows, HandlerRefuses, ParkingEnds,
           Parked, CanPark, ParkFails, ParkAckLost, Parks, RetriesLater, GoesToCommit, CommitEnds,
           Commits, CommitFails, MovesOn, group
  <1>2. \E ph \in Phases : phase' = [phase EXCEPT ![m][p] = ph]
    BY DEF HandlerEnds, HandlerReturns, BackPressure, HandlerThrows, HandlerRefuses, ParkingEnds,
           Parked, CanPark, ParkFails, ParkAckLost, Parks, RetriesLater, GoesToCommit, CommitEnds,
           Commits, CommitFails, MovesOn, Phases
  <1>3. \/ position' = position
        \/ position' = [position EXCEPT ![p] = IF owner[p] = m THEN current[m][p] + 1 ELSE position[p]]
    BY DEF HandlerEnds, HandlerReturns, BackPressure, HandlerThrows, HandlerRefuses, ParkingEnds,
           Parked, CanPark, ParkFails, ParkAckLost, Parks, RetriesLater, GoesToCommit, CommitEnds,
           Commits, CommitFails, MovesOn, group
  <1>4. /\ handled' = handled \/ handled' = [handled EXCEPT ![p][current[m][p]] = @ + 1]
        /\ parked' = parked \/ parked' = [parked EXCEPT ![p][current[m][p]] = @ + 1]
    BY DEF HandlerEnds, HandlerReturns, BackPressure, HandlerThrows, HandlerRefuses, ParkingEnds,
           Parked, CanPark, ParkFails, ParkAckLost, Parks, RetriesLater, GoesToCommit, CommitEnds,
           Commits, CommitFails, MovesOn, records, DeadLetters
  <1>5. \A n \in Members, q \in Partitions : n # m \/ q # p => phase'[n][q] = phase[n][q]
    BY <1>2 DEF TypeOK
  <1>6. \A q \in Partitions : owner[q] # m \/ q # p => position'[q] = position[q]
    BY <1>3 DEF TypeOK
  <1>7. \A q \in Partitions, o \in Offsets :
          q # p \/ o # current[m][p] => handled'[q][o] = handled[q][o] /\ parked'[q][o] = parked[q][o]
    BY <1>4 DEF TypeOK
  <1> QED BY <1>1, <1>5, <1>6, <1>7

\* How the work on a record ends: settled, to be tried again, parked but not known
\* to be, or behind the member.
LEMMA MemberEnds ==
    ASSUME TypeOK, NEW m \in Members, NEW p \in Partitions, NEW o \in Offsets, o = current[m][p],
           HandlerEnds(m, p) \/ ParkingEnds(m, p) \/ CommitEnds(m, p)
    PROVE  \/ /\ phase[m][p] \in {"handling", "parking"} /\ phase'[m][p] = "committing"
              /\ position' = position /\ Settles(p, o)
           \/ /\ phase[m][p] \in {"handling", "parking"} /\ phase'[m][p] \in {"idle", "parking"}
              /\ position' = position /\ Keeps(p, o)
           \/ /\ phase[m][p] \in {"handling", "parking"} /\ phase'[m][p] = "idle"
              /\ position' = position /\ Settles(p, o) /\ (life[m] = "stopping" \/ Fault)
           \/ /\ phase[m][p] = "committing" /\ phase'[m][p] = "idle" /\ Keeps(p, o)
              /\ owner[p] = m => position'[p] = o + 1
  <1>0. handled[p][o] \in Nat /\ parked[p][o] \in Nat
    BY DEF TypeOK
  <1>1. ASSUME \/ handled' = [handled EXCEPT ![p][o] = @ + 1] /\ parked' = parked
               \/ parked' = [parked EXCEPT ![p][o] = @ + 1] /\ handled' = handled
        PROVE  Settles(p, o)
    <2>1. \/ handled'[p][o] = handled[p][o] + 1 /\ parked'[p][o] = parked[p][o]
          \/ parked'[p][o] = parked[p][o] + 1 /\ handled'[p][o] = handled[p][o]
      BY <1>1 DEF TypeOK
    <2> QED BY <1>0, <2>1 DEF Settles, Copies
  <1>2. UNCHANGED <<handled, parked>> => Keeps(p, o)
    BY DEF Keeps, Copies
  <1>3. ASSUME NEW ph \in Phases, phase' = [phase EXCEPT ![m][p] = ph]
        PROVE  phase'[m][p] = ph
    BY <1>3 DEF TypeOK
  <1>4. CASE HandlerReturns(m, p) \/ Parked(m, p)
    BY <1>1, <1>3, <1>4 DEF HandlerReturns, Handling, Parked, CanPark, GoesToCommit, DeadLetters,
                            group, Phases
  <1>5. CASE BackPressure(m, p) \/ HandlerThrows(m, p) \/ HandlerRefuses(m, p) \/ ParkFails(m, p)
    BY <1>2, <1>3, <1>5 DEF BackPressure, HandlerThrows, HandlerRefuses, ParkFails, Handling,
                            RetriesLater, Parks, group, records, Phases
  <1>6. CASE ParkAckLost(m, p)
    BY <1>1, <1>3, <1>6 DEF ParkAckLost, CanPark, RetriesLater, DeadLetters, group, Phases
  <1>7. CASE CommitEnds(m, p)
    <2>1. phase[m][p] = "committing" /\ phase'[m][p] = "idle" /\ Keeps(p, o)
      BY <1>2, <1>3, <1>7 DEF CommitEnds, Commits, CommitFails, MovesOn, records, Phases
    <2>2. owner[p] = m => position'[p] = o + 1
      BY <1>7 DEF CommitEnds, Commits, CommitFails, MovesOn, TypeOK
    <2> QED BY <2>1, <2>2
  <1> QED BY <1>4, <1>5, <1>6, <1>7 DEF HandlerEnds, ParkingEnds

\* A member's turn with a record pays for what it does to that record, and to others.
LEMMA MemberPays ==
    ASSUME CInv, TypeOK', NEW m \in Members, NEW p \in Partitions,
           HandlerEnds(m, p) \/ ParkingEnds(m, p) \/ CommitEnds(m, p),
           NEW q \in Partitions, NEW o \in Offsets
    PROVE  Paid(q, o)
  <1>1. TypeOK /\ AtPosition(p)
    BY DEF CInv
  <1>2. Causes <= Causes' /\ Causes \in Nat /\ Causes' \in Nat /\ Copies(q, o)' \in Nat
        /\ (Fault => Causes' = Causes + 1)
    BY <1>1, CausesFact, MemberStep
  <1>3. q # p \/ o # current[m][p] => Keeps(q, o)
    BY <1>1, MemberStep DEF Keeps, Copies
  <1>4. CASE q # p
    BY <1>1, <1>2, <1>3, <1>4, MemberStep, QuietPays
  <1>5. ASSUME q = p, owner[p] = m PROVE Paid(p, o)
    <2>1. owner'[p] = m /\ m # NoOne /\ life'[m] = life[m] /\ current'[m][p] = current[m][p]
      BY <1>1, <1>5, MemberStep, ConsumerAssumption
    <2>2. Strays(p, o)' \subseteq Strays(p, o)
      BY <1>1, <1>5, <2>1, MemberStep DEF Strays
    <2>3. phase[m][p] # "idle" /\ current[m][p] = position[p]
      <3>1. phase[m][p] # "idle"
        BY DEF HandlerEnds, HandlerReturns, BackPressure, HandlerThrows, HandlerRefuses, Handling,
               ParkingEnds, Parked, CanPark, ParkFails, ParkAckLost, CommitEnds, Commits, CommitFails
      <3> QED BY <1>1, <1>5, <3>1 DEF AtPosition
    <2>4. Leaving(p, o) <=> life[m] = "stopping"
      BY <1>5, <2>1, <2>3 DEF Leaving
    <2>5. Leaving(p, o)' => Leaving(p, o)
      BY <2>1, <2>4 DEF Leaving
    <2>6. /\ Coming(p, o) <=> position[p] <= o /\ ~(phase[m][p] = "committing" /\ current[m][p] = o)
          /\ Coming(p, o)' <=> position'[p] <= o /\ ~(phase'[m][p] = "committing" /\ current[m][p] = o)
      BY <1>5, <2>1 DEF Coming
    <2>7. PICK c \in Offsets : c = current[m][p]
      BY <1>1 DEF TypeOK
    <2>8. c \in Nat /\ o \in Nat
      BY <2>7, OffsetsFact
    <2>9. CASE phase[m][p] \in {"handling", "parking"} /\ phase'[m][p] = "committing"
               /\ position' = position /\ Settles(p, c)
      <3>1. CASE o = c
        <4>1. Coming(p, o) /\ ~Coming(p, o)'
          BY <2>3, <2>6, <2>7, <2>8, <2>9, <3>1
        <4> QED BY <1>2, <1>5, <2>2, <2>5, <2>9, <3>1, <4>1, WaysToPay
      <3>2. CASE o # c
        <4>1. Keeps(p, o) /\ (Coming(p, o)' => Coming(p, o))
          BY <1>3, <1>5, <2>6, <2>7, <2>9, <3>2
        <4> QED BY <1>2, <1>5, <2>2, <2>5, <4>1, WaysToPay
      <3> QED BY <3>1, <3>2
    <2>10. CASE phase[m][p] \in {"handling", "parking"} /\ phase'[m][p] \in {"idle", "parking"}
                /\ position' = position /\ Keeps(p, c)
      <3>1. Keeps(p, o)
        BY <1>3, <1>5, <2>7, <2>10
      <3>2. Coming(p, o)' => Coming(p, o)
        BY <2>6, <2>10
      <3> QED BY <1>2, <1>5, <2>2, <2>5, <3>1, <3>2, WaysToPay
    <2>11. CASE phase[m][p] \in {"handling", "parking"} /\ phase'[m][p] = "idle"
                /\ position' = position /\ Settles(p, c) /\ (life[m] = "stopping" \/ Fault)
      <3>1. Coming(p, o)' => Coming(p, o)
        BY <2>6, <2>11
      <3>2. CASE o # c
        BY <1>2, <1>3, <1>5, <2>2, <2>5, <2>7, <3>1, <3>2, WaysToPay
      <3>3. CASE o = c /\ life[m] = "stopping"
        <4>1. position'[p] <= o
          BY <2>3, <2>7, <2>8, <2>11, <3>3
        <4>2. ~Leaving(p, o)'
          BY <2>1, <2>11, <4>1 DEF Leaving
        <4>3. Leaving(p, o) /\ Settles(p, o)
          BY <2>4, <2>11, <3>3
        <4> QED BY <1>2, <1>5, <2>2, <3>1, <4>2, <4>3, WaysToPay
      <3>4. CASE o = c /\ Fault
        <4>1. Settles(p, o)
          BY <2>11, <3>4
        <4> QED BY <1>2, <1>5, <2>2, <2>5, <3>1, <3>4, <4>1, WaysToPay
      <3> QED BY <2>11, <3>2, <3>3, <3>4
    <2>12. CASE phase[m][p] = "committing" /\ phase'[m][p] = "idle" /\ Keeps(p, c)
                /\ (owner[p] = m => position'[p] = c + 1)
      <3>1. Keeps(p, o)
        BY <1>3, <1>5, <2>7, <2>12
      <3>2. Coming(p, o)' => Coming(p, o)
        BY <1>5, <2>3, <2>6, <2>7, <2>8, <2>12
      <3> QED BY <1>2, <1>5, <2>2, <2>5, <3>1, <3>2, WaysToPay
    <2> QED BY <1>1, <2>7, <2>9, <2>10, <2>11, <2>12, MemberEnds
  <1>6. ASSUME q = p, owner[p] # m PROVE Paid(p, o)
    <2>1. /\ owner'[p] = owner[p] /\ position'[p] = position[p] /\ life' = life /\ current' = current
          /\ \A n \in Members : n # m => phase'[n][p] = phase[n][p]
      BY <1>1, <1>6, MemberStep
    <2>2. owner[p] # NoOne => owner[p] \in Members
      BY <1>1 DEF TypeOK
    <2>3. (Coming(p, o)' => Coming(p, o)) /\ (Leaving(p, o)' => Leaving(p, o))
      BY <1>6, <2>1, <2>2 DEF Coming, Leaving
    <2>4. PICK c \in Offsets : c = current[m][p]
      BY <1>1 DEF TypeOK
    <2>5. /\ \/ phase[m][p] \in {"handling", "parking"}
             \/ phase'[m][p] = "idle"
          /\ \/ Keeps(p, o)
             \/ /\ o = c /\ Settles(p, o) /\ phase[m][p] \in {"handling", "parking"}
                /\ phase'[m][p] \in {"idle", "committing"}
      <3>1. o # c => Keeps(p, o)
        BY <1>3, <1>6, <2>4
      <3> QED BY <1>1, <2>4, <3>1, MemberEnds
    <2>6. Strays(p, o)' \subseteq Strays(p, o)
      BY <2>1, <2>5 DEF Strays
    <2>7. CASE Keeps(p, o)
      BY <1>2, <1>6, <2>3, <2>6, <2>7, WaysToPay
    <2>8. CASE o = c /\ Settles(p, o) /\ phase[m][p] \in {"handling", "parking"}
               /\ phase'[m][p] \in {"idle", "committing"}
      <3>1. m \in Strays(p, o) /\ m \notin Strays(p, o)'
        BY <1>6, <2>4, <2>8 DEF Strays
      <3>2. Settles(p, o)
        BY <2>8
      <3>3. Copies(p, o)' \in Nat
        BY <1>2, <1>6
      <3> QED BY <1>2, <2>3, <2>6, <3>1, <3>2, <3>3, StraySettles
    <2> QED BY <2>5, <2>7, <2>8
  <1> QED BY <1>4, <1>5, <1>6

LEMMA DeliversPays ==
    ASSUME TypeOK, TypeOK', NEW m \in Members, NEW p \in Partitions, Delivers(m, p),
           NEW q \in Partitions, NEW o \in Offsets
    PROVE  Paid(q, o)
  <1>1. /\ owner' = owner /\ position' = position /\ life' = life
        /\ \A n \in Members, r \in Partitions :
             n # m \/ r # p => phase'[n][r] = phase[n][r] /\ current'[n][r] = current[n][r]
        /\ life[m] = "running" /\ owner[p] = m /\ phase[m][p] = "idle" /\ phase'[m][p] = "handling"
        /\ UNCHANGED budgets /\ Keeps(q, o)
    BY DEF Delivers, group, records, Keeps, Copies, TypeOK
  <1>2. Causes' = Causes /\ Causes \in Nat /\ Causes' \in Nat /\ Copies(q, o)' \in Nat
    BY <1>1, CausesFact
  <1>3. Causes <= Causes'
    BY <1>2
  <1>4. CASE q # p
    BY <1>1, <1>3, <1>4, QuietPays
  <1>5. CASE q = p
    <2>1. Strays(q, o)' \subseteq Strays(q, o)
      BY <1>1, <1>5 DEF Strays
    <2>2. (Coming(q, o)' => Coming(q, o)) /\ ~Leaving(q, o)'
      BY <1>1, <1>5 DEF Coming, Leaving
    <2> QED BY <1>1, <1>2, <1>3, <2>1, <2>2, WaysToPay
  <1> QED BY <1>4, <1>5

LEMMA AssignsPays ==
    ASSUME TypeOK, TypeOK', NEW m \in Members, NEW p \in Partitions, Assigns(p, m),
           NEW q \in Partitions, NEW o \in Offsets
    PROVE  Paid(q, o)
  <1>1. /\ phase' = phase /\ current' = current /\ life' = life
        /\ \A r \in Partitions : r # p => owner'[r] = owner[r] /\ position'[r] = position[r]
        /\ owner[p] = NoOne /\ owner'[p] = m /\ life[m] = "running"
        /\ UNCHANGED budgets /\ Keeps(q, o)
    BY DEF Assigns, worker, records, Keeps, Copies, TypeOK
  <1>2. Causes' = Causes /\ Causes \in Nat /\ Causes' \in Nat /\ Copies(q, o)' \in Nat
    BY <1>1, CausesFact
  <1>3. Causes <= Causes'
    BY <1>2
  <1>4. CASE q # p
    BY <1>1, <1>3, <1>4, QuietPays
  <1>5. CASE q = p
    <2>1. Strays(q, o)' \subseteq Strays(q, o)
      BY <1>1, <1>5, ConsumerAssumption DEF Strays
    <2>2. Coming(q, o) /\ ~Leaving(q, o)'
      BY <1>1, <1>5 DEF Coming, Leaving
    <2> QED BY <1>1, <1>2, <1>3, <2>1, <2>2, WaysToPay
  <1> QED BY <1>4, <1>5

LEMMA StopBeginsPays ==
    ASSUME TypeOK, TypeOK', NEW m \in Members, StopBegins(m), NEW q \in Partitions, NEW o \in Offsets
    PROVE  Paid(q, o)
  <1>1. /\ phase' = phase /\ current' = current /\ owner' = owner /\ position' = position
        /\ Keeps(q, o)
    BY DEF StopBegins, group, worker, records, Keeps, Copies
  <1>2. stops' = stops + 1 /\ faults' = faults /\ rebalances' = rebalances
        /\ stops \in Nat /\ faults \in Nat /\ rebalances \in Nat
    BY ConsumerAssumption DEF StopBegins, TypeOK
  <1>3. Causes' = Causes + 1
    BY <1>2 DEF Causes
  <1>4. Causes' \in Nat /\ Copies(q, o)' \in Nat
    BY CausesFact
  <1>5. Strays(q, o)' \subseteq Strays(q, o) /\ (Coming(q, o)' => Coming(q, o))
    BY <1>1 DEF Strays, Coming
  <1> QED BY <1>1, <1>3, <1>4, <1>5 DEF Paid

LEMMA StopEndsPays ==
    ASSUME TypeOK, TypeOK', NEW m \in Members, StopEnds(m), NEW q \in Partitions, NEW o \in Offsets
    PROVE  Paid(q, o)
  <1>1. /\ phase' = phase /\ current' = current /\ position' = position
        /\ owner'[q] = IF owner[q] = m THEN NoOne ELSE owner[q]
        /\ \A n \in Members : life'[n] = "stopping" => life[n] = "stopping"
        /\ life[m] = "stopping" /\ phase[m][q] = "idle"
        /\ UNCHANGED budgets /\ Keeps(q, o)
    BY DEF StopEnds, Released, InFlight, records, Keeps, Copies, TypeOK
  <1>2. Causes' = Causes /\ Causes \in Nat /\ Causes' \in Nat /\ Copies(q, o)' \in Nat
    BY <1>1, CausesFact
  <1>3. Causes <= Causes'
    BY <1>2
  <1>4. CASE owner[q] # m
    <2>1. owner'[q] = owner[q] /\ position'[q] = position[q]
      BY <1>1, <1>4
    <2> QED BY <1>1, <1>3, <2>1, QuietPays
  <1>5. CASE owner[q] = m
    <2>1. Strays(q, o)' \subseteq Strays(q, o)
      BY <1>1, <1>5 DEF Strays
    <2>2. owner'[q] = NoOne /\ m # NoOne
      BY <1>1, <1>5, ConsumerAssumption
    <2>3. ~Leaving(q, o)'
      BY <2>2 DEF Leaving
    <2>4. CASE position[q] <= o
      <3>1. Coming(q, o)
        BY <1>1, <1>5, <2>4 DEF Coming
      <3> QED BY <1>1, <1>2, <1>3, <2>1, <2>3, <3>1, WaysToPay
    <2>5. CASE ~(position[q] <= o)
      <3>1. Leaving(q, o)
        BY <1>1, <1>5, <2>2, <2>5 DEF Leaving
      <3> QED BY <1>1, <1>2, <1>3, <2>1, <2>3, <3>1, WaysToPay
    <2> QED BY <2>4, <2>5
  <1> QED BY <1>4, <1>5

LEMMA CrashesPays ==
    ASSUME TypeOK, TypeOK', NEW m \in Members, Crashes(m), NEW q \in Partitions, NEW o \in Offsets
    PROVE  Paid(q, o)
  <1>1. /\ current' = current /\ position' = position
        /\ phase'[m][q] = "idle"
        /\ \A n \in Members : n # m => phase'[n][q] = phase[n][q] /\ life'[n] = life[n]
        /\ owner'[q] = IF owner[q] = m THEN NoOne ELSE owner[q]
        /\ Keeps(q, o)
    BY DEF Crashes, Released, records, Keeps, Copies, TypeOK
  <1>2. Causes' = Causes + 1 /\ Causes' \in Nat /\ Copies(q, o)' \in Nat
    BY CausesFact DEF Crashes
  <1>3. Strays(q, o)' \subseteq Strays(q, o)
    BY <1>1 DEF Strays
  <1>4. owner[q] # NoOne => owner[q] \in Members
    BY DEF TypeOK
  <1>5. Leaving(q, o)' => Leaving(q, o)
    BY <1>1, <1>4 DEF Leaving
  <1> QED BY <1>1, <1>2, <1>3, <1>5 DEF Paid

LEMMA LosesPays ==
    ASSUME CInv, TypeOK', NEW p \in Partitions, Loses(p), NEW q \in Partitions, NEW o \in Offsets
    PROVE  Paid(q, o)
  <1>0. TypeOK /\ AtPosition(p)
    BY DEF CInv
  <1>1. /\ phase' = phase /\ current' = current /\ position' = position /\ life' = life
        /\ \A r \in Partitions : r # p => owner'[r] = owner[r]
        /\ owner'[p] = NoOne /\ owner[p] # NoOne /\ owner[p] \in Members
        /\ Keeps(q, o)
    BY <1>0 DEF Loses, records, Keeps, Copies, TypeOK
  <1>2. rebalances' = rebalances + 1 /\ faults' = faults /\ stops' = stops
        /\ stops \in Nat /\ faults \in Nat /\ rebalances \in Nat
    BY <1>0, ConsumerAssumption DEF Loses, TypeOK
  <1>3. Causes' = Causes + 1
    BY <1>2 DEF Causes
  <1>4. Causes \in Nat /\ Causes' \in Nat /\ Copies(q, o)' \in Nat
    BY <1>0, CausesFact
  <1>5. CASE q # p
    BY <1>0, <1>1, <1>3, <1>4, <1>5, QuietPays
  <1>6. CASE q = p
    <2>1. ~Leaving(q, o)'
      BY <1>1, <1>6 DEF Leaving
    <2>2. Strays(q, o)' \subseteq Strays(q, o) \union {owner[p]}
      BY <1>1, <1>6 DEF Strays
    <2>3. CASE owner[p] \in Strays(q, o)'
      <3>1. phase[owner[p]][p] \in {"handling", "parking"} /\ current[owner[p]][p] = o
        BY <1>1, <1>6, <2>3 DEF Strays
      <3>2. position[p] = o /\ o \in Nat
        BY <1>0, <1>1, <3>1, OffsetsFact DEF AtPosition
      <3>3. Coming(q, o)
        BY <1>6, <3>1, <3>2 DEF Coming
      <3> QED BY <1>1, <1>3, <1>4, <2>1, <2>2, <3>3 DEF Paid
    <2>4. CASE owner[p] \notin Strays(q, o)'
      <3>1. Strays(q, o)' \subseteq Strays(q, o)
        BY <2>2, <2>4
      <3> QED BY <1>1, <1>3, <1>4, <2>1, <3>1 DEF Paid
    <2> QED BY <2>3, <2>4
  <1> QED BY <1>5, <1>6

\* Steps that touch neither a record nor who may still settle one.
LEMMA OthersPay ==
    ASSUME TypeOK, TypeOK', NEW q \in Partitions, NEW o \in Offsets,
           \/ UNCHANGED vars
           \/ BrokerDown \/ DownstreamDown \/ Recovers
           \/ \E m \in Members : Connects(m) \/ Restarts(m) \/ \E p \in Partitions : Resumes(m, p)
    PROVE  Paid(q, o)
  <1>1. /\ phase' = phase /\ current' = current /\ owner' = owner /\ position' = position
        /\ handled' = handled /\ parked' = parked
        /\ faults' = faults /\ rebalances' = rebalances /\ stops' = stops
    BY DEF vars, group, worker, records, budgets, BrokerDown, DownstreamDown, Outage, Recovers,
           Connects, Restarts, Resumes
  <1>2. \A n \in Members : life'[n] = "stopping" => life[n] = "stopping"
    BY DEF vars, BrokerDown, DownstreamDown, Outage, Recovers, Connects, Restarts, Resumes, TypeOK
  <1>3. Keeps(q, o) /\ Causes' = Causes
    BY <1>1 DEF Keeps, Copies, Causes
  <1>4. Causes <= Causes'
    BY <1>3, CausesFact
  <1> QED BY <1>1, <1>2, <1>3, <1>4, QuietPays

LEMMA PositionPreserved ==
    ASSUME CInv, [Next]_vars, TypeOK', NEW p \in Partitions
    PROVE  AtPosition(p)'
  <1>0. TypeOK /\ AtPosition(p)
    BY DEF CInv
  <1> SUFFICES ASSUME NEW m \in Members, owner'[p] = m, phase'[m][p] # "idle"
               PROVE  current'[m][p] = position'[p]
    BY DEF AtPosition
  <1>1. ASSUME NEW n \in Members, NEW q \in Partitions, Delivers(n, q)
        PROVE  current'[m][p] = position'[p]
    <2>1. CASE n = m /\ q = p
      BY <1>0, <1>1, <2>1 DEF Delivers, group, TypeOK
    <2>2. CASE n # m \/ q # p
      <3>1. phase'[m][p] = phase[m][p] /\ current'[m][p] = current[m][p]
        BY <1>0, <1>1, <2>2 DEF Delivers, TypeOK
      <3> QED BY <1>0, <1>1, <3>1 DEF Delivers, group, AtPosition
    <2> QED BY <2>1, <2>2
  <1>2. ASSUME NEW n \in Members, NEW q \in Partitions,
               HandlerEnds(n, q) \/ ParkingEnds(n, q) \/ CommitEnds(n, q)
        PROVE  current'[m][p] = position'[p]
    <2>1. owner[p] = m /\ current'[m][p] = current[m][p]
      BY <1>0, <1>2, MemberStep
    <2>2. CASE n # m \/ q # p
      <3>1. phase'[m][p] = phase[m][p] /\ position'[p] = position[p]
        BY <1>0, <1>2, <2>1, <2>2, MemberStep
      <3> QED BY <1>0, <2>1, <3>1 DEF AtPosition
    <2>3. CASE n = m /\ q = p
      <3>1. current[m][p] \in Offsets
        BY <1>0 DEF TypeOK
      <3>2. phase[m][p] # "idle" /\ position' = position
        BY <1>0, <1>2, <2>3, <3>1, MemberEnds
      <3> QED BY <1>0, <2>1, <3>2 DEF AtPosition
    <2> QED BY <2>2, <2>3
  <1>3. ASSUME NEW n \in Members, NEW q \in Partitions, Assigns(q, n)
        PROVE  current'[m][p] = position'[p]
    BY <1>0, <1>3, ConsumerAssumption DEF Assigns, worker, AtPosition, TypeOK
  <1>4. ASSUME NEW n \in Members, StopEnds(n) \/ Crashes(n)
        PROVE  current'[m][p] = position'[p]
    <2>1. owner[p] = m /\ current' = current /\ position' = position
      BY <1>0, <1>4, ConsumerAssumption DEF StopEnds, Crashes, Released, TypeOK
    <2>2. phase'[m][p] = phase[m][p]
      BY <1>0, <1>4 DEF StopEnds, Crashes, TypeOK
    <2> QED BY <1>0, <2>1, <2>2 DEF AtPosition
  <1>5. ASSUME NEW q \in Partitions, Loses(q) PROVE current'[m][p] = position'[p]
    <2>1. owner[p] = m /\ current' = current /\ position' = position /\ phase' = phase
      BY <1>0, <1>5, ConsumerAssumption DEF Loses, TypeOK
    <2> QED BY <1>0, <2>1 DEF AtPosition
  <1>6. CASE UNCHANGED <<owner, position, phase, current>>
    BY <1>0, <1>6 DEF AtPosition
  <1>7. \/ UNCHANGED <<owner, position, phase, current>>
        \/ \E n \in Members, q \in Partitions :
             \/ Delivers(n, q) \/ Assigns(q, n)
             \/ HandlerEnds(n, q) \/ ParkingEnds(n, q) \/ CommitEnds(n, q)
        \/ \E n \in Members : StopEnds(n) \/ Crashes(n)
        \/ \E q \in Partitions : Loses(q)
    BY DEF Next, vars, group, worker, Resumes, Connects, StopBegins, Restarts, BrokerDown,
           DownstreamDown, Outage, Recovers
  <1> QED BY <1>1, <1>2, <1>3, <1>4, <1>5, <1>6, <1>7

LEMMA NextCInv == CInv /\ [Next]_vars => CInv'
  <1> SUFFICES ASSUME CInv, [Next]_vars PROVE CInv'
    OBVIOUS
  <1>1. TypeOK /\ TypeOK'
    BY NextTypes DEF CInv
  <1>2. \A p \in Partitions : AtPosition(p)'
    BY <1>1, PositionPreserved
  <1>3. ASSUME NEW p \in Partitions, NEW o \in Offsets PROVE Charged(p, o)'
    <2>1. Paid(p, o)
      BY <1>1, DeliversPays, MemberPays, AssignsPays, StopBeginsPays, StopEndsPays, CrashesPays,
         LosesPays, OthersPay DEF Next
    <2> QED BY <1>1, <2>1, PaidIsCharged DEF CInv
  <1> QED BY <1>1, <1>2, <1>3 DEF CInv

\* A record is handled or parked again at most once for each crash, failed commit,
\* lost ack, rebalance or stop, for any number of members: what a member that lost
\* the partition still does, and what the next owner will, is paid for by then.
THEOREM ConsumerRedeliversForACause == Spec => []RedeliveryHasACause
  <1>1. CInv => RedeliveryHasACause
    <2> SUFFICES ASSUME CInv, NEW p \in Partitions, NEW o \in Offsets
                 PROVE  handled[p][o] + parked[p][o] <= 1 + faults + rebalances + stops
      BY DEF RedeliveryHasACause
    <2>1. handled[p][o] \in Nat /\ parked[p][o] \in Nat /\ faults \in Nat /\ rebalances \in Nat
          /\ stops \in Nat
      BY ConsumerAssumption DEF CInv, TypeOK
    <2>2. Charged(p, o)
      BY DEF CInv
    <2>3. Cardinality(Strays(p, o)) \in Nat
      BY <2>2, FS_CardinalityType DEF Charged
    <2>4. PICK k \in Nat, a \in {0, 1}, l \in {0, 1} :
              k = Cardinality(Strays(p, o)) /\ a = One(Coming(p, o)) /\ l = One(Leaving(p, o))
      BY <2>3 DEF One
    <2>5. handled[p][o] + parked[p][o] + a + l + k <= 1 + faults + rebalances + stops
      BY <2>2, <2>4 DEF Charged, Copies, Causes
    <2> QED BY <2>1, <2>4, <2>5
  <1> QED BY InitCInv, NextCInv, <1>1, PTL DEF Spec
==============================================================================
