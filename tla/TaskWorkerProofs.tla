-------------------------- MODULE TaskWorkerProofs --------------------------
(***************************************************************************)
(* Theorems about TaskWorker for any number of workers, partitions, tasks  *)
(* and deployments.                                                        *)
(***************************************************************************)
EXTENDS TaskWorker, FiniteSetTheorems, TLAPS

\* TypeOK in its two halves: who has which record in hand, and the job queue.
GroupTypes ==
    /\ deployment \in Deployments /\ queueUp \in BOOLEAN
    /\ life \in [Workers -> {"booting", "up", "draining", "closing"}]
    /\ owner \in [Partitions -> Workers \union {NoOne}]
    /\ position \in [Partitions -> Nat] /\ committed \in [Partitions -> Nat]
    /\ handler \in [Workers -> [Partitions ->
          [at : {"idle", "counting", "counted", "sending", "committing"},
           offset : Nat, waiting : Depths]]]
    /\ depth \in [Workers -> [waiting : Nat, age : {"unread", "fresh", "old"}]]
    /\ accepted \subseteq Events
    /\ faults \in 0 .. deployment.faults

JobTypes ==
    /\ job \in [Events -> [state : {"none", "waiting", "active", "delayed", "completed", "failed"},
                           holder : Workers \union {NoOne}, failed : 0 .. Attempts,
                           stalled : 0 .. MaxStalls + 1]]
    /\ inHand \in [Workers -> Events \union {NoJob}]
    /\ runs \in [Events -> Nat] /\ done \in [Events -> Nat]
    /\ takenBack \in [Events -> Nat] /\ forgotten \in [Events -> Nat]

\* The queue has held every task among the first n records of p.
Enqueued(p, n) == \A i \in 1 .. n : Log[p][i] \in Events => Log[p][i] \in accepted

\* The group's position and every handler stand behind records the queue has held; a
\* handler that counts or sends has a task, one that commits is through with its record.
Behind ==
    /\ \A p \in Partitions : Enqueued(p, position[p]) /\ Enqueued(p, committed[p])
    /\ \A w \in Workers, p \in Partitions :
         /\ Enqueued(p, handler[w][p].offset)
         /\ handler[w][p].at \in {"counting", "counted", "sending"} => Record(w, p) \in Events
         /\ handler[w][p].at = "committing" => Enqueued(p, handler[w][p].offset + 1)

HInv == GroupTypes /\ Behind

\* How often a job may fail before it is given up.
Tries == Attempts + IF deployment.backend = "bullmq" THEN MaxStalls ELSE 0

\* Each start of a job is the one that is under way, or ended in a failed attempt or a
\* stall that the job or one that was forgotten has counted.
Starts1(j, ran, lost) ==
    /\ j.state = "none" => j.failed = 0 /\ j.stalled = 0
    /\ j.state = "delayed" => j.failed > 0
    /\ j.state # "failed" => j.failed < Attempts /\ j.stalled <= MaxStalls
    /\ j.failed + j.stalled <= Tries
    /\ deployment.backend = "pgboss" => j.stalled = 0
    /\ ran <= lost * Tries + j.failed + j.stalled + (IF j.state \in {"active", "completed"} THEN 1 ELSE 0)
StartsAreCounted == \A e \in Events : Starts1(job[e], runs[e], forgotten[e])

\* Each worker that has a job in hand may still return from it; a job that is free for
\* the taking may be returned from once more.
Hands(e) == {w \in Workers : inHand[w] = e}
Ends1(j, ended, hands, back, lost) ==
    ended + hands + (IF j.state \in {"none", "waiting", "delayed"} THEN 1 ELSE 0) <= 1 + back + lost
EndsAreCounted ==
    \A e \in Events : Ends1(job[e], done[e], Cardinality(Hands(e)), takenBack[e], forgotten[e])

JInv == JobTypes /\ StartsAreCounted /\ EndsAreCounted

WInv == HInv /\ JInv

\* A replica runs so many handlers.
BusyInv ==
    \A w \in Workers :
        /\ Cardinality(Busy(w)) <= deployment.concurrently
        /\ life[w] # "booting" \/ Busy(w) # {} => w \in deployment.replicas

\* The handlers that hold a reading with room, the places it shows them, and the
\* handlers that have passed.
Holders(w) == {p \in Partitions : IsAt(w, p, "counted") /\ handler[w][p].waiting < MaxWaiting}
Places(w)  == {t \in Partitions \X (1 .. MaxWaiting) : t[1] \in Holders(w) /\ t[2] > handler[w][t[1]].waiting}
Passed(w)  == {p \in Partitions : IsAt(w, p, "sending")}

\* How much w may still enqueue, whatever it reads from now on.  Those that hold no
\* reading go by the cached depth: up to MaxWaiting, and past it as many as pass
\* together on the last place; without a depth that shows room, those that have
\* passed.  Each reading that is held shows its places to one handler more.
Cached(c, held, passed, usable, d) ==
    IF usable /\ d < MaxWaiting /\ held < c THEN MaxWaiting - d + (c - held) - 1 ELSE passed
RoomOf(c, held, passed, places, usable, d) ==
    Cached(c, held, passed, usable, d) + places + Overshoot(c) - Overshoot(c - held)
Room(w) == RoomOf(deployment.concurrently, Cardinality(Holders(w)), Cardinality(Passed(w)),
                  Cardinality(Places(w)), Usable(w), depth[w].waiting)

\* Each job that waits for its first run was sent by some replica, or is one whose
\* answer was lost; no replica has sent more than it had room for.
From(sender, w) == {e \in FirstRuns : sender[e] = w}
Attributed(sender) ==
    /\ \A e \in FirstRuns : sender[e] \in deployment.replicas \union {NoOne}
    /\ Cardinality(From(sender, NoOne)) <= faults
    /\ \A w \in Workers : Cardinality(From(sender, w)) + Room(w) <= PerReplica

BInv == BusyInv /\ \E sender \in [Events -> Workers \union {NoOne}] : Attributed(sender)

-----------------------------------------------------------------------------
(* The parts of a deployment, and counting.                                *)

LEMMA DepthIsFinite == Cardinality(Events) \in Nat /\ 0 \in Depths
  BY FiniteAssumption, FS_CardinalityType DEF Depths

LEMMA DeployedTypes ==
    ASSUME deployment \in Deployments
    PROVE  /\ deployment.backend \in {"bullmq", "pgboss"} /\ deployment.replicas \subseteq Workers
           /\ deployment.concurrently \in Nat \ {0} /\ deployment.faults \in Nat
           /\ Log \in [Partitions -> Seq(Events \union {Foreign, Broken})]
           /\ Tries \in Nat \ {0} /\ Attempts \in Nat \ {0} /\ MaxStalls \in Nat
  <1>1. deployment \in Deployed
    BY WorkerAssumption
  <1> QED BY <1>1, WorkerAssumption DEF Deployed, Log, Tries

LEMMA WaitingIsADepth == Waiting \in Depths
  <1>1. ASSUME NEW S PROVE Cardinality(InState(S)) \in Depths
    <2>1. InState(S) \in SUBSET Events
      BY DEF InState
    <2>2. Cardinality(InState(S)) \in Nat /\ Cardinality(InState(S)) <= Cardinality(Events)
      BY <2>1, FiniteAssumption, FS_Subset, FS_CardinalityType
    <2> QED BY <2>2, DepthIsFinite DEF Depths
  <1> QED BY <1>1 DEF Waiting

-----------------------------------------------------------------------------
(* handle() and the group.                                                 *)

HandlerStates == {"idle", "counting", "counted", "sending", "committing"}

\* A step of one handler leaves the others where they are.
LEMMA MovesOne ==
    ASSUME GroupTypes, NEW w \in Workers, NEW p \in Partitions,
           NEW pc \in HandlerStates, NEW offset \in Nat, NEW waiting \in Depths,
           Moves(w, p, pc, offset, waiting)
    PROVE  /\ handler' \in [Workers -> [Partitions -> [at : HandlerStates, offset : Nat, waiting : Depths]]]
           /\ handler'[w][p] = IF pc = "idle" THEN Idle ELSE [at |-> pc, offset |-> offset, waiting |-> waiting]
           /\ \A v \in Workers, q \in Partitions : <<v, q>> # <<w, p>> => handler'[v][q] = handler[v][q]
  BY DepthIsFinite DEF GroupTypes, Moves, Idle, HandlerStates

LEMMA MovesHInv ==
    ASSUME HInv, NEW w \in Workers, NEW p \in Partitions,
           NEW pc \in HandlerStates, NEW offset \in Nat, NEW waiting \in Depths,
           Moves(w, p, pc, offset, waiting),
           UNCHANGED <<deployment, group>>,
           accepted \subseteq accepted', accepted' \subseteq Events,
           queueUp' \in BOOLEAN, life' = life, faults' \in 0 .. deployment.faults,
           depth' \in [Workers -> [waiting : Nat, age : {"unread", "fresh", "old"}]],
           pc # "idle" => Enqueued(p, offset),
           pc \in {"counting", "counted", "sending"} => Log[p][offset + 1] \in Events,
           pc = "committing" => \A i \in 1 .. offset + 1 : Log[p][i] \in Events => Log[p][i] \in accepted'
    PROVE  HInv'
  <1> USE DEF HInv, group
  <1>1. /\ handler' \in [Workers -> [Partitions -> [at : HandlerStates, offset : Nat, waiting : Depths]]]
        /\ handler'[w][p] = IF pc = "idle" THEN Idle ELSE [at |-> pc, offset |-> offset, waiting |-> waiting]
        /\ \A v \in Workers, q \in Partitions : <<v, q>> # <<w, p>> => handler'[v][q] = handler[v][q]
    BY MovesOne
  <1>2. GroupTypes'
    BY <1>1 DEF GroupTypes, HandlerStates
  <1>3. ASSUME NEW q \in Partitions, NEW n, Enqueued(q, n) PROVE Enqueued(q, n)'
    BY <1>3 DEF Enqueued, Log
  <1>4. \A q \in Partitions : Enqueued(q, position[q])' /\ Enqueued(q, committed[q])'
    <2> SUFFICES ASSUME NEW q \in Partitions PROVE Enqueued(q, position[q])' /\ Enqueued(q, committed[q])'
      OBVIOUS
    <2>1. Enqueued(q, position[q]) /\ Enqueued(q, committed[q])
      BY DEF Behind
    <2> QED BY <2>1 DEF Enqueued, Log
  <1>5. ASSUME NEW v \in Workers, NEW q \in Partitions
        PROVE  /\ Enqueued(q, handler[v][q].offset)'
               /\ handler'[v][q].at \in {"counting", "counted", "sending"} => Record(v, q)' \in Events
               /\ handler'[v][q].at = "committing" => Enqueued(q, handler[v][q].offset + 1)'
    <2>1. CASE <<v, q>> # <<w, p>>
      <3>1. handler'[v][q] = handler[v][q]
        BY <1>1, <2>1
      <3>2. /\ Enqueued(q, handler[v][q].offset)
            /\ handler[v][q].at \in {"counting", "counted", "sending"} => Record(v, q) \in Events
            /\ handler[v][q].at = "committing" => Enqueued(q, handler[v][q].offset + 1)
        BY DEF Behind
      <3> QED BY <3>1, <3>2 DEF Enqueued, Log, Record
    <2>2. CASE <<v, q>> = <<w, p>> /\ pc = "idle"
      <3>1. handler'[v][q] = [at |-> "idle", offset |-> 0, waiting |-> 0]
        BY <1>1, <2>2 DEF Idle
      <3> QED BY <3>1 DEF Enqueued
    <2>3. CASE <<v, q>> = <<w, p>> /\ pc # "idle"
      <3>1. handler'[v][q] = [at |-> pc, offset |-> offset, waiting |-> waiting]
        BY <1>1, <2>3
      <3> QED BY <3>1, <2>3, <1>3 DEF Enqueued, Log, Record
    <2> QED BY <2>1, <2>2, <2>3
  <1>6. Behind'
    BY <1>4, <1>5 DEF Behind
  <1> QED BY <1>2, <1>6

LEMMA HandlesHInv ==
    ASSUME HInv, NEW w \in Workers, NEW p \in Partitions, Handles(w, p)
    PROVE  HInv'
  <1> DEFINE h == handler[w][p]
  <1>1. /\ h \in [at : HandlerStates, offset : Nat, waiting : Depths]
        /\ position[p] \in Nat /\ accepted \subseteq Events
        /\ queueUp \in BOOLEAN /\ faults \in 0 .. deployment.faults
        /\ deployment.faults \in Nat /\ 0 \in Depths
        /\ depth \in [Workers -> [waiting : Nat, age : {"unread", "fresh", "old"}]]
    BY DeployedTypes, DepthIsFinite DEF HInv, GroupTypes, HandlerStates
  <1>2. /\ Enqueued(p, position[p]) /\ Enqueued(p, h.offset)
        /\ h.at \in {"counting", "counted", "sending"} => Log[p][h.offset + 1] \in Events
        /\ h.at = "committing" => Enqueued(p, h.offset + 1)
    BY DEF HInv, Behind, Record
  <1>3. ASSUME NEW n \in Nat, Enqueued(p, n), Log[p][n + 1] \notin Events \/ Log[p][n + 1] \in accepted
        PROVE  Enqueued(p, n + 1)
    BY <1>3 DEF Enqueued
  <1>4. CASE Begins(w, p)
    <2> DEFINE pc == IF Log[p][position[p] + 1] \notin Events THEN "committing"
                     ELSE IF Usable(w) THEN AfterDepth(depth[w].waiting) ELSE "counting"
    <2>1. Moves(w, p, pc, position[p], 0) /\ UNCHANGED <<deployment, queueUp, life, group, depth, jobs, faults>>
      BY <1>4 DEF Begins
    <2>2. pc \in HandlerStates
      BY DEF AfterDepth, HandlerStates
    <2>3. pc \in {"counting", "counted", "sending"} => Log[p][position[p] + 1] \in Events
      OBVIOUS
    <2>4. pc = "committing" => Enqueued(p, position[p] + 1)
      BY <1>1, <1>2, <1>3 DEF AfterDepth
    <2>5. pc = "committing" =>
              \A i \in 1 .. position[p] + 1 : Log[p][i] \in Events => Log[p][i] \in accepted'
      BY <2>1, <2>4 DEF Enqueued, jobs
    <2> HIDE DEF pc
    <2> QED BY <1>1, <1>2, <2>1, <2>2, <2>3, <2>5, MovesHInv DEF jobs, group
  <1>5. CASE Counts(w, p)
    <2>1. Waiting \in Depths /\ "counted" \in HandlerStates
      BY WaitingIsADepth DEF HandlerStates
    <2>2. /\ Moves(w, p, "counted", h.offset, Waiting) /\ h.at = "counting"
          /\ UNCHANGED <<deployment, queueUp, life, group, depth, jobs, faults>>
      BY <1>5 DEF Counts, IsAt
    <2> QED BY <1>1, <1>2, <2>1, <2>2, MovesHInv DEF jobs
  <1>6. CASE Counted(w, p)
    <2> DEFINE pc == AfterDepth(h.waiting)
    <2>1. pc \in {"idle", "sending"}
      BY DEF AfterDepth
    <2>2. Moves(w, p, pc, h.offset, 0)
      BY <1>6 DEF Counted, Goes
    <2>3. /\ depth' \in [Workers -> [waiting : Nat, age : {"unread", "fresh", "old"}]]
          /\ UNCHANGED <<deployment, queueUp, life, group, jobs, faults>> /\ h.at = "counted"
      BY <1>1, <1>6, DepthIsFinite DEF Counted, Depths, IsAt
    <2> HIDE DEF pc
    <2> QED BY <1>1, <1>2, <2>1, <2>2, <2>3, MovesHInv DEF jobs, HandlerStates
  <1>7. CASE Enqueues(w, p)
    <2>1. /\ Moves(w, p, "committing", h.offset, 0) /\ h.at = "sending"
          /\ UNCHANGED <<deployment, queueUp, life, group, faults>>
          /\ accepted' = accepted \union {Log[p][h.offset + 1]}
          /\ depth' = [depth EXCEPT ![w].waiting = @ + 1]
      BY <1>7 DEF Enqueues, Goes, Adds, CountsOne, IsAt, Record
    <2>2. ASSUME NEW i \in 1 .. h.offset + 1, Log[p][i] \in Events PROVE Log[p][i] \in accepted'
      <3>1. CASE i = h.offset + 1
        BY <2>1, <3>1
      <3>2. CASE i # h.offset + 1
        <4>1. h.offset \in Nat
          BY <1>1
        <4>2. i \in 1 .. h.offset
          BY <3>2, <4>1
        <4>3. Log[p][i] \in accepted
          BY <1>2, <2>2, <4>2 DEF Enqueued
        <4> QED BY <2>1, <4>3
      <3> QED BY <3>1, <3>2
    <2>3. accepted' \subseteq Events /\ accepted \subseteq accepted'
      BY <1>1, <1>2, <2>1
    <2>4. depth' \in [Workers -> [waiting : Nat, age : {"unread", "fresh", "old"}]]
      BY <1>1, <2>1
    <2> QED BY <1>1, <1>2, <2>1, <2>2, <2>3, <2>4, MovesHInv DEF HandlerStates
  <1>8. CASE AnswerLost(w, p)
    <2>1. /\ Moves(w, p, "idle", h.offset, 0) /\ h.at = "sending"
          /\ UNCHANGED <<deployment, queueUp, life, group, depth>> /\ Fault
          /\ accepted' = accepted \union {Log[p][h.offset + 1]}
      BY <1>8 DEF AnswerLost, Goes, Adds, IsAt, Record
    <2>2. accepted' \subseteq Events /\ accepted \subseteq accepted' /\ faults' \in 0 .. deployment.faults
      BY <1>1, <1>2, <2>1 DEF Fault
    <2> QED BY <1>1, <1>2, <2>1, <2>2, MovesHInv DEF HandlerStates
  <1>9. CASE CallFails(w, p)
    <2>1. /\ Moves(w, p, "idle", h.offset, 0)
          /\ UNCHANGED <<deployment, queueUp, life, group, depth, jobs>> /\ faults' \in 0 .. deployment.faults
      BY <1>1, <1>9 DEF CallFails, Goes, Fault
    <2> QED BY <1>1, <1>2, <2>1, MovesHInv DEF HandlerStates, jobs
  <1>10. CASE Commits(w, p)
    <2>1. /\ Moves(w, p, "idle", h.offset, 0) /\ h.at = "committing"
          /\ UNCHANGED <<deployment, queueUp, life, owner, depth, jobs>>
          /\ position' = [position EXCEPT ![p] = IF Mine(w, p) THEN h.offset + 1 ELSE @]
          /\ \/ committed' = [committed EXCEPT ![p] = IF Mine(w, p) THEN h.offset + 1 ELSE @]
             \/ committed' = committed
          /\ faults' \in 0 .. deployment.faults
      BY <1>1, <1>10 DEF Commits, Goes, IsAt, Fault
    <2>2. /\ handler' \in [Workers -> [Partitions -> [at : HandlerStates, offset : Nat, waiting : Depths]]]
          /\ handler'[w][p] = Idle
          /\ \A v \in Workers, q \in Partitions : <<v, q>> # <<w, p>> => handler'[v][q] = handler[v][q]
      BY <1>1, <2>1, MovesOne DEF HInv, HandlerStates
    <2>3. GroupTypes'
      BY <1>1, <2>1, <2>2 DEF HInv, GroupTypes, HandlerStates, jobs
    <2>4. ASSUME NEW q \in Partitions
          PROVE  Enqueued(q, position[q])' /\ Enqueued(q, committed[q])'
      <3>1. /\ position'[q] = position[q] \/ (q = p /\ position'[q] = h.offset + 1)
            /\ committed'[q] = committed[q] \/ (q = p /\ committed'[q] = h.offset + 1)
        BY <2>1 DEF HInv, GroupTypes
      <3>2. Enqueued(q, position[q]) /\ Enqueued(q, committed[q])
        BY DEF HInv, Behind
      <3>3. Enqueued(p, h.offset + 1)
        BY <1>2, <2>1
      <3> QED BY <2>1, <3>1, <3>2, <3>3 DEF Enqueued, Log, jobs
    <2>5. ASSUME NEW v \in Workers, NEW q \in Partitions
          PROVE  /\ Enqueued(q, handler[v][q].offset)'
                 /\ handler'[v][q].at \in {"counting", "counted", "sending"} => Record(v, q)' \in Events
                 /\ handler'[v][q].at = "committing" => Enqueued(q, handler[v][q].offset + 1)'
      <3>1. CASE handler'[v][q] = handler[v][q]
        <4>1. /\ Enqueued(q, handler[v][q].offset)
              /\ handler[v][q].at \in {"counting", "counted", "sending"} => Record(v, q) \in Events
              /\ handler[v][q].at = "committing" => Enqueued(q, handler[v][q].offset + 1)
          BY DEF HInv, Behind
        <4> QED BY <2>1, <3>1, <4>1 DEF Enqueued, Log, Record, jobs
      <3>2. CASE handler'[v][q] = Idle
        BY <3>2 DEF Idle, Enqueued
      <3> QED BY <2>2, <3>1, <3>2
    <2> QED BY <2>3, <2>4, <2>5 DEF HInv, Behind
  <1> QED BY <1>4, <1>5, <1>6, <1>7, <1>8, <1>9, <1>10 DEF Handles

\* What becomes of a process, its partitions and what it has in hand.
LEMMA ProcessHInv ==
    ASSUME HInv, NEW w \in Workers,
           Ages(w) \/ Boots(w) \/ StopBegins(w) \/ QueueCloses(w) \/ StopEnds(w) \/ Crashes(w)
    PROVE  HInv'
  <1>1. deployment.faults \in Nat /\ 0 \in Depths
    BY DeployedTypes, DepthIsFinite DEF HInv, GroupTypes
  <1>2. /\ UNCHANGED <<deployment, queueUp, position, committed, accepted>>
        /\ handler' = handler \/ handler' = [handler EXCEPT ![w] = [p \in Partitions |-> Idle]]
    BY DEF Ages, Boots, StopBegins, QueueCloses, StopEnds, Crashes, group, jobs
  <1>3. owner' = owner \/ owner' = Free(w)
    BY DEF Ages, Boots, StopBegins, QueueCloses, StopEnds, Crashes, group
  <1>4. faults' \in 0 .. deployment.faults
    BY <1>1 DEF Ages, Boots, StopBegins, QueueCloses, StopEnds, Crashes, Fault, HInv, GroupTypes
  <1>5. /\ depth' \in [Workers -> [waiting : Nat, age : {"unread", "fresh", "old"}]]
        /\ life' \in [Workers -> {"booting", "up", "draining", "closing"}]
    <2>1. depth' = depth \/ depth' = [depth EXCEPT ![w].age = "old"] \/ depth' = [depth EXCEPT ![w] = NoDepth]
      BY DEF Ages, Boots, StopBegins, QueueCloses, StopEnds, Crashes
    <2>2. life' = life \/ \E l \in {"booting", "up", "draining", "closing"} : life' = [life EXCEPT ![w] = l]
      BY DEF Ages, Boots, StopBegins, QueueCloses, StopEnds, Crashes
    <2>3. depth \in [Workers -> [waiting : Nat, age : {"unread", "fresh", "old"}]]
      BY DEF HInv, GroupTypes
    <2>4. depth' \in [Workers -> [waiting : Nat, age : {"unread", "fresh", "old"}]]
      BY <2>1, <2>3 DEF NoDepth
    <2>5. life' \in [Workers -> {"booting", "up", "draining", "closing"}]
      BY <2>2 DEF HInv, GroupTypes
    <2> QED BY <2>4, <2>5
  <1>6. /\ handler' \in [Workers -> [Partitions -> [at : HandlerStates, offset : Nat, waiting : Depths]]]
        /\ \A v \in Workers, q \in Partitions : handler'[v][q] = handler[v][q] \/ handler'[v][q] = Idle
    <2>1. handler \in [Workers -> [Partitions -> [at : HandlerStates, offset : Nat, waiting : Depths]]]
      BY DEF HInv, GroupTypes, HandlerStates
    <2>2. Idle \in [at : HandlerStates, offset : Nat, waiting : Depths]
      BY <1>1 DEF Idle, HandlerStates
    <2> HIDE DEF Idle
    <2> DEFINE H == [at : HandlerStates, offset : Nat, waiting : Depths]
    <2>3. handler \in [Workers -> [Partitions -> H]] /\ Idle \in H
      BY <2>1, <2>2
    <2> HIDE DEF H
    <2>4. CASE handler' = handler
      BY <2>3, <2>4 DEF H
    <2>5. CASE handler' = [handler EXCEPT ![w] = [p \in Partitions |-> Idle]]
      <3>1. handler' \in [Workers -> [Partitions -> H]]
        BY <2>3, <2>5
      <3>2. \A v \in Workers, q \in Partitions : handler'[v][q] = handler[v][q] \/ handler'[v][q] = Idle
        BY <2>3, <2>5
      <3> QED BY <3>1, <3>2 DEF H
    <2> QED BY <1>2, <2>4, <2>5
  <1>7. GroupTypes'
    BY <1>2, <1>3, <1>4, <1>5, <1>6 DEF HInv, GroupTypes, HandlerStates, Free
  <1>8. ASSUME NEW q \in Partitions
        PROVE  Enqueued(q, position[q])' /\ Enqueued(q, committed[q])'
    BY <1>2 DEF HInv, Behind, Enqueued, Log
  <1>9. ASSUME NEW v \in Workers, NEW q \in Partitions
        PROVE  /\ Enqueued(q, handler[v][q].offset)'
               /\ handler'[v][q].at \in {"counting", "counted", "sending"} => Record(v, q)' \in Events
               /\ handler'[v][q].at = "committing" => Enqueued(q, handler[v][q].offset + 1)'
    <2>1. CASE handler'[v][q] = handler[v][q]
      <3>1. /\ Enqueued(q, handler[v][q].offset)
            /\ handler[v][q].at \in {"counting", "counted", "sending"} => Record(v, q) \in Events
            /\ handler[v][q].at = "committing" => Enqueued(q, handler[v][q].offset + 1)
        BY DEF HInv, Behind
      <3> QED BY <1>2, <2>1, <3>1 DEF Enqueued, Log, Record
    <2>2. CASE handler'[v][q] = Idle
      BY <2>2 DEF Idle, Enqueued
    <2> QED BY <1>6, <2>1, <2>2
  <1> QED BY <1>7, <1>8, <1>9 DEF HInv, Behind

LEMMA GroupHInv ==
    ASSUME HInv, NEW p \in Partitions, Loses(p) \/ \E w \in Workers : Assigns(w, p)
    PROVE  HInv'
  <1>1. deployment.faults \in Nat
    BY DeployedTypes DEF HInv, GroupTypes
  <1>2. /\ UNCHANGED <<deployment, queueUp, life, committed, handler, depth, jobs>>
        /\ owner' \in [Partitions -> Workers \union {NoOne}]
        /\ position' = position \/ position' = [position EXCEPT ![p] = committed[p]]
        /\ faults' \in 0 .. deployment.faults
    <2>1. /\ UNCHANGED <<deployment, queueUp, life, committed, handler, depth, jobs>>
          /\ \E w \in Workers \union {NoOne} : owner' = [owner EXCEPT ![p] = w]
          /\ position' = position \/ position' = [position EXCEPT ![p] = committed[p]]
      BY DEF Loses, Assigns
    <2>2. faults' = faults \/ Fault
      BY DEF Loses, Assigns
    <2> QED BY <1>1, <2>1, <2>2 DEF Fault, HInv, GroupTypes
  <1>3. GroupTypes'
    BY <1>2 DEF HInv, GroupTypes, jobs
  <1>4. ASSUME NEW q \in Partitions
        PROVE  Enqueued(q, position[q])' /\ Enqueued(q, committed[q])'
    <2>1. Enqueued(q, position[q]) /\ Enqueued(q, committed[q])
      BY DEF HInv, Behind
    <2>2. position'[q] \in {position[q], committed[q]}
      BY <1>2 DEF HInv, GroupTypes
    <2> QED BY <1>2, <2>1, <2>2 DEF Enqueued, Log, jobs
  <1>5. ASSUME NEW v \in Workers, NEW q \in Partitions
        PROVE  /\ Enqueued(q, handler[v][q].offset)'
               /\ handler'[v][q].at \in {"counting", "counted", "sending"} => Record(v, q)' \in Events
               /\ handler'[v][q].at = "committing" => Enqueued(q, handler[v][q].offset + 1)'
    BY <1>2 DEF HInv, Behind, Enqueued, Log, Record, jobs
  <1> QED BY <1>3, <1>4, <1>5 DEF HInv, Behind

\* The backend and the processor leave the group and the handlers alone.
LEMMA OthersHInv ==
    ASSUME HInv,
           \/ QueueGoesDown \/ QueueComesBack \/ UNCHANGED vars
           \/ \E w \in Workers : Finishes(w) \/ \E e \in Events : Takes(w, e)
           \/ \E e \in Events : Returns(e) \/ TakenBack(e) \/ Forgets(e)
    PROVE  HInv'
  <1>1. deployment.faults \in Nat
    BY DeployedTypes DEF HInv, GroupTypes
  <1>2. UNCHANGED <<deployment, life, group, handler, depth, accepted>> /\ queueUp' \in BOOLEAN
    BY DEF QueueGoesDown, QueueComesBack, vars, Finishes, Takes, Returns, TakenBack, Forgets, jobs,
           HInv, GroupTypes
  <1>3. faults' \in 0 .. deployment.faults
    <2>1. faults' = faults \/ Fault
      BY DEF QueueGoesDown, QueueComesBack, vars, Finishes, HandlerEnds, Takes, Returns, TakenBack, Forgets
    <2> QED BY <1>1, <2>1 DEF Fault, HInv, GroupTypes
  <1>4. GroupTypes'
    BY <1>2, <1>3 DEF HInv, GroupTypes, group
  <1>5. Behind'
    BY <1>2 DEF HInv, Behind, Enqueued, Log, Record, group
  <1> QED BY <1>4, <1>5 DEF HInv

LEMMA NextHInv == ASSUME HInv, [Next]_vars PROVE HInv'
  BY HandlesHInv, ProcessHInv, GroupHInv, OthersHInv DEF Next

LEMMA InitHInv == Init => HInv
  <1> SUFFICES ASSUME Init PROVE HInv
    OBVIOUS
  <1>1. deployment.faults \in Nat /\ 0 \in Depths
    BY DeployedTypes, DepthIsFinite DEF Init
  <1>2. GroupTypes
    BY <1>1 DEF Init, GroupTypes, Idle, NoDepth
  <1>3. Behind
    BY DEF Init, Behind, Enqueued, Idle
  <1> QED BY <1>2, <1>3 DEF HInv

-----------------------------------------------------------------------------
(* The jobs.                                                               *)

LEMMA InitJInv == Init => JInv
  <1> SUFFICES ASSUME Init PROVE JInv
    OBVIOUS
  <1>1. Attempts \in Nat \ {0} /\ MaxStalls \in Nat /\ Tries \in Nat \ {0}
    BY DeployedTypes DEF Init
  <1>2. JobTypes
    BY <1>1 DEF Init, JobTypes, NoEntry
  <1>3. StartsAreCounted
    BY <1>1 DEF Init, StartsAreCounted, Starts1, NoEntry
  <1>4. ASSUME NEW e \in Events PROVE Hands(e) = {}
    BY WorkerAssumption DEF Init, Hands
  <1>5. \A e \in Events : Cardinality(Hands(e)) = 0
    BY <1>4, FS_EmptySet
  <1>6. EndsAreCounted
    BY <1>5 DEF Init, EndsAreCounted, Ends1, NoEntry
  <1> QED BY <1>2, <1>3, <1>6 DEF JInv

LEMMA HandsAreFinite == ASSUME NEW e PROVE IsFiniteSet(Hands(e)) /\ Cardinality(Hands(e)) \in Nat
  <1>1. Hands(e) \in SUBSET Workers
    BY DEF Hands
  <1> QED BY <1>1, FiniteAssumption, FS_Subset, FS_CardinalityType

\* A worker that drops what it has in hand.
LEMMA HandsDrop ==
    ASSUME JobTypes, NEW w \in Workers, NEW e \in Events,
           inHand' = [inHand EXCEPT ![w] = NoJob]
    PROVE  /\ Cardinality(Hands(e)') \in Nat
           /\ Cardinality(Hands(e)') = Cardinality(Hands(e)) - IF inHand[w] = e THEN 1 ELSE 0
  <1>1. Hands(e)' = Hands(e) \ {w}
    BY WorkerAssumption DEF Hands, JobTypes
  <1>2. w \in Hands(e) <=> inHand[w] = e
    BY DEF Hands
  <1>3. IsFiniteSet(Hands(e)) /\ Cardinality(Hands(e)) \in Nat
    BY HandsAreFinite
  <1>4. IsFiniteSet(Hands(e) \ {w}) /\ Cardinality(Hands(e) \ {w}) \in Nat
    BY <1>3, FS_RemoveElement, FS_CardinalityType
  <1>5. Cardinality(Hands(e) \ {w}) = IF w \in Hands(e) THEN Cardinality(Hands(e)) - 1 ELSE Cardinality(Hands(e))
    BY <1>3, FS_RemoveElement
  <1> QED BY <1>1, <1>2, <1>3, <1>4, <1>5

\* A worker without a job that takes one.
LEMMA HandsTake ==
    ASSUME JobTypes, NEW w \in Workers, NEW d \in Events, NEW e \in Events,
           inHand[w] = NoJob, inHand' = [inHand EXCEPT ![w] = d]
    PROVE  /\ Cardinality(Hands(e)') \in Nat
           /\ Cardinality(Hands(e)') = Cardinality(Hands(e)) + IF d = e THEN 1 ELSE 0
  <1>1. Hands(e)' = IF d = e THEN Hands(e) \union {w} ELSE Hands(e)
    BY WorkerAssumption DEF Hands, JobTypes
  <1>2. w \notin Hands(e)
    BY WorkerAssumption DEF Hands
  <1>3. IsFiniteSet(Hands(e)) /\ Cardinality(Hands(e)) \in Nat
    BY HandsAreFinite
  <1>4. Cardinality(Hands(e) \union {w}) = Cardinality(Hands(e)) + 1
    BY <1>2, <1>3, FS_AddElement
  <1> QED BY <1>1, <1>3, <1>4

JobStates == {"none", "waiting", "active", "delayed", "completed", "failed"}
Entries   == [state : JobStates, holder : Workers \union {NoOne}, failed : 0 .. Attempts,
              stalled : 0 .. MaxStalls + 1]

\* What a step of one job has to keep.
LEMMA JobStep ==
    ASSUME JInv, NEW e \in Events, NEW j \in Entries, job' = [job EXCEPT ![e] = j],
           UNCHANGED deployment, deployment \in Deployments,
           inHand' \in [Workers -> Events \union {NoJob}],
           runs' \in [Events -> Nat], done' \in [Events -> Nat],
           takenBack' \in [Events -> Nat], forgotten' \in [Events -> Nat],
           Starts1(j, runs'[e], forgotten'[e]),
           Ends1(j, done'[e], Cardinality(Hands(e)'), takenBack'[e], forgotten'[e]),
           \A d \in Events \ {e} :
               /\ runs'[d] = runs[d] /\ done'[d] = done[d]
               /\ takenBack'[d] = takenBack[d] /\ forgotten'[d] = forgotten[d]
               /\ Cardinality(Hands(d)') = Cardinality(Hands(d))
    PROVE  JInv'
  <1>1. job \in [Events -> Entries] /\ job' \in [Events -> Entries]
    BY DEF JInv, JobTypes, Entries, JobStates
  <1>2. JobTypes'
    BY <1>1 DEF JobTypes, Entries, JobStates
  <1>3. ASSUME NEW d \in Events
        PROVE  Starts1(job[d], runs[d], forgotten[d])'
    <2>1. CASE d = e
      <3>1. job'[d] = j
        BY <1>1, <2>1
      <3> QED BY <2>1, <3>1 DEF Starts1, Tries
    <2>2. CASE d # e
      <3>1. job'[d] = job[d] /\ runs'[d] = runs[d] /\ forgotten'[d] = forgotten[d]
        BY <1>1, <2>2
      <3>2. Starts1(job[d], runs[d], forgotten[d])
        BY DEF JInv, StartsAreCounted
      <3> QED BY <3>1, <3>2 DEF Starts1, Tries
    <2> QED BY <2>1, <2>2
  <1>4. ASSUME NEW d \in Events
        PROVE  Ends1(job[d], done[d], Cardinality(Hands(d)), takenBack[d], forgotten[d])'
    <2>1. CASE d = e
      <3>1. job'[d] = j
        BY <1>1, <2>1
      <3> QED BY <2>1, <3>1 DEF Ends1
    <2>2. CASE d # e
      <3>1. job'[d] = job[d]
        BY <1>1, <2>2
      <3>2. Ends1(job[d], done[d], Cardinality(Hands(d)), takenBack[d], forgotten[d])
        BY DEF JInv, EndsAreCounted
      <3> QED BY <2>2, <3>1, <3>2 DEF Ends1
    <2> QED BY <2>1, <2>2
  <1> QED BY <1>2, <1>3, <1>4 DEF JInv, StartsAreCounted, EndsAreCounted

LEMMA EntryUpdate ==
    ASSUME NEW j \in Entries, NEW s \in JobStates, NEW f \in 0 .. Attempts, NEW t \in 0 .. MaxStalls + 1
    PROVE  /\ [j EXCEPT !.failed = f, !.holder = NoOne, !.state = s] \in Entries
           /\ [j EXCEPT !.stalled = t, !.holder = NoOne, !.state = s] \in Entries
  BY DEF Entries

\* What is known of one job.
LEMMA JobFacts ==
    ASSUME JInv, NEW e \in Events
    PROVE  /\ job[e] \in Entries /\ Starts1(job[e], runs[e], forgotten[e])
           /\ Ends1(job[e], done[e], Cardinality(Hands(e)), takenBack[e], forgotten[e])
           /\ runs[e] \in Nat /\ done[e] \in Nat /\ takenBack[e] \in Nat /\ forgotten[e] \in Nat
           /\ Cardinality(Hands(e)) \in Nat
           /\ runs \in [Events -> Nat] /\ done \in [Events -> Nat]
           /\ takenBack \in [Events -> Nat] /\ forgotten \in [Events -> Nat]
           /\ inHand \in [Workers -> Events \union {NoJob}]
  BY HandsAreFinite DEF JInv, JobTypes, StartsAreCounted, EndsAreCounted, Entries, JobStates

\* A failed attempt uses up one of the job's tries.
LEMMA FailedOnceStarts ==
    ASSUME deployment \in Deployments, JInv, NEW e \in Events, job[e].state = "active"
    PROVE  /\ FailedOnce(e) \in Entries /\ Starts1(FailedOnce(e), runs[e], forgotten[e])
           /\ FailedOnce(e).state \in {"delayed", "failed"}
  <1>1. /\ Attempts \in Nat \ {0} /\ MaxStalls \in Nat
        /\ Tries = Attempts + (IF deployment.backend = "bullmq" THEN MaxStalls ELSE 0)
        /\ deployment.backend \in {"bullmq", "pgboss"} /\ Tries \in Nat
    BY DeployedTypes DEF Tries
  <1>2. /\ job[e] \in Entries /\ Starts1(job[e], runs[e], forgotten[e])
        /\ runs[e] \in Nat /\ forgotten[e] \in Nat
    BY JobFacts
  <1>3. forgotten[e] * Tries \in Nat
    BY <1>1, <1>2
  <1>4. /\ FailedOnce(e).state = IF job[e].failed + 1 >= Attempts THEN "failed" ELSE "delayed"
        /\ FailedOnce(e).failed = job[e].failed + 1 /\ FailedOnce(e).stalled = job[e].stalled
    BY <1>1, <1>2 DEF FailedOnce, Entries
  <1>5. job[e].failed \in 0 .. Attempts - 1 /\ job[e].stalled \in 0 .. MaxStalls
    BY <1>1, <1>2 DEF Starts1, Entries
  <1>6. FailedOnce(e) \in Entries /\ FailedOnce(e).state \in {"delayed", "failed"}
    <2>1. FailedOnce(e) \in Entries
      <3>1. job[e].failed + 1 \in 0 .. Attempts
        BY <1>1, <1>5
      <3>2. ASSUME NEW s \in {"failed", "delayed"}
            PROVE  [job[e] EXCEPT !.failed = job[e].failed + 1, !.holder = NoOne, !.state = s] \in Entries
        <4>1. s \in JobStates /\ job[e].stalled \in 0 .. MaxStalls + 1
          BY <1>1, <1>5 DEF JobStates
        <4> QED BY <1>2, <3>1, <4>1, EntryUpdate
      <3> QED BY <3>2 DEF FailedOnce
    <2> QED BY <1>4, <2>1
  <1>7. Starts1(FailedOnce(e), runs[e], forgotten[e])
    <2> DEFINE base == forgotten[e] * Tries
    <2>1. runs[e] <= base + job[e].failed + job[e].stalled + 1 /\ base \in Nat
      BY <1>2, <1>3 DEF Starts1
    <2>2. deployment.backend = "pgboss" => job[e].stalled = 0
      BY <1>2 DEF Starts1
    <2> HIDE DEF base
    <2>3. runs[e] <= base + (job[e].failed + 1) + job[e].stalled + 0
      BY <1>2, <1>5, <2>1
    <2> QED BY <1>1, <1>4, <1>5, <2>2, <2>3 DEF Starts1, base
  <1> QED BY <1>6, <1>7

LEMMA TakesJInv ==
    ASSUME HInv, JInv, NEW w \in Workers, NEW e \in Events, Takes(w, e)
    PROVE  JInv'
  <1> DEFINE j == [job[e] EXCEPT !.state = "active", !.holder = w]
  <1>1. /\ job[e] \in Entries /\ Starts1(job[e], runs[e], forgotten[e])
        /\ Ends1(job[e], done[e], Cardinality(Hands(e)), takenBack[e], forgotten[e])
        /\ runs[e] \in Nat /\ done[e] \in Nat /\ takenBack[e] \in Nat /\ forgotten[e] \in Nat
        /\ Cardinality(Hands(e)) \in Nat
        /\ inHand \in [Workers -> Events \union {NoJob}] /\ JobTypes
    BY JobFacts DEF JInv
  <1>2. /\ deployment \in Deployments /\ UNCHANGED <<deployment, done, takenBack, forgotten>>
        /\ inHand[w] = NoJob /\ inHand' = [inHand EXCEPT ![w] = e] /\ job[e].state = "waiting"
        /\ runs' = [runs EXCEPT ![e] = @ + 1]
    BY DEF Takes, HInv, GroupTypes
  <1>3. Tries \in Nat /\ Attempts \in Nat /\ MaxStalls \in Nat
    BY <1>2, DeployedTypes
  <1>4. j \in Entries /\ j.state = "active" /\ j.failed = job[e].failed /\ j.stalled = job[e].stalled
    BY <1>1 DEF Entries, JobStates
  <1>5. job' = [job EXCEPT ![e] = j]
    BY DEF Takes, JInv, JobTypes
  <1>6. \A d \in Events : Cardinality(Hands(d)') = Cardinality(Hands(d)) + IF e = d THEN 1 ELSE 0
    BY <1>1, <1>2, HandsTake
  <1>7. inHand' \in [Workers -> Events \union {NoJob}] /\ runs' \in [Events -> Nat] /\ runs'[e] = runs[e] + 1
        /\ \A d \in Events \ {e} : runs'[d] = runs[d]
    BY <1>1, <1>2 DEF JobTypes
  <1>8. \A d \in Events \ {e} : Cardinality(Hands(d)') = Cardinality(Hands(d))
    BY <1>6, HandsAreFinite
  <1>9. Starts1(j, runs'[e], forgotten'[e])
    <2>1. forgotten[e] * Tries \in Nat
      BY <1>1, <1>3
    <2> QED BY <1>1, <1>2, <1>3, <1>4, <1>7, <2>1 DEF Starts1, Entries
  <1>10. Ends1(j, done'[e], Cardinality(Hands(e)'), takenBack'[e], forgotten'[e])
    BY <1>1, <1>2, <1>4, <1>6 DEF Ends1
  <1> HIDE DEF j
  <1> QED BY <1>1, <1>2, <1>4, <1>5, <1>7, <1>8, <1>9, <1>10, JobStep DEF JobTypes

LEMMA FinishesJInv ==
    ASSUME HInv, JInv, NEW w \in Workers, Finishes(w)
    PROVE  JInv'
  <1>0. PICK e \in Events : e = inHand[w]
    BY DEF Finishes, HandlerEnds, JInv, JobTypes
  <1>1. PICK returned \in BOOLEAN :
          /\ e # NoJob
          /\ inHand' = [inHand EXCEPT ![w] = NoJob]
          /\ done' = [done EXCEPT ![e] = IF returned THEN @ + 1 ELSE @]
          /\ job' = [job EXCEPT ![e] =
               IF ~Believes(w, e) THEN @
               ELSE IF returned THEN [@ EXCEPT !.state = "completed", !.holder = NoOne]
               ELSE FailedOnce(e)]
          /\ UNCHANGED <<deployment, runs, takenBack, forgotten>>
    BY <1>0 DEF Finishes, HandlerEnds
  <1>2. e \in Events /\ JobTypes /\ deployment \in Deployments
    BY <1>1 DEF JInv, JobTypes, HInv, GroupTypes
  <1>3. /\ job[e] \in Entries /\ Starts1(job[e], runs[e], forgotten[e])
        /\ Ends1(job[e], done[e], Cardinality(Hands(e)), takenBack[e], forgotten[e])
        /\ runs[e] \in Nat /\ done[e] \in Nat /\ takenBack[e] \in Nat /\ forgotten[e] \in Nat
        /\ Cardinality(Hands(e)) \in Nat
        /\ runs \in [Events -> Nat] /\ done \in [Events -> Nat]
        /\ takenBack \in [Events -> Nat] /\ forgotten \in [Events -> Nat]
        /\ inHand \in [Workers -> Events \union {NoJob}]
    BY <1>2, JobFacts
  <1> DEFINE completed == [job[e] EXCEPT !.state = "completed", !.holder = NoOne]
             j == IF ~Believes(w, e) THEN job[e] ELSE IF returned THEN completed ELSE FailedOnce(e)
  <1>4. /\ j \in Entries /\ Starts1(j, runs[e], forgotten[e])
        /\ j = job[e] \/ j.state \in {"completed", "failed"} \/ (~returned /\ job[e].state = "active")
    <2>1. CASE ~Believes(w, e)
      BY <1>3, <2>1
    <2>2. CASE Believes(w, e) /\ returned
      <3>1. job[e].state = "active" /\ j = completed
        BY <2>2 DEF Believes
      <3>2. /\ completed \in Entries /\ completed.state = "completed"
            /\ completed.failed = job[e].failed /\ completed.stalled = job[e].stalled
        BY <1>3 DEF Entries, JobStates
      <3>3. Starts1(completed, runs[e], forgotten[e])
        BY <1>3, <3>1, <3>2 DEF Starts1
      <3> QED BY <3>1, <3>2, <3>3
    <2>3. CASE Believes(w, e) /\ ~returned
      BY <1>2, <2>3, FailedOnceStarts DEF Believes
    <2> QED BY <2>1, <2>2, <2>3
  <1>5. \A d \in Events : /\ Cardinality(Hands(d)') \in Nat
                         /\ Cardinality(Hands(d)') = Cardinality(Hands(d)) - IF e = d THEN 1 ELSE 0
    BY <1>0, <1>1, <1>2, HandsDrop
  <1>6. \A d \in Events \ {e} : Cardinality(Hands(d)') = Cardinality(Hands(d)) /\ done'[d] = done[d]
    BY <1>1, <1>3, <1>5, HandsAreFinite
  <1>7. done' \in [Events -> Nat] /\ done'[e] = done[e] + (IF returned THEN 1 ELSE 0)
    BY <1>1, <1>2, <1>3
  <1>8. Ends1(j, done'[e], Cardinality(Hands(e)'), takenBack[e], forgotten[e])
    <2>1. Cardinality(Hands(e)') = Cardinality(Hands(e)) - 1
      BY <1>2, <1>5
    <2> HIDE DEF j
    <2> QED BY <1>3, <1>4, <1>7, <2>1 DEF Ends1
  <1>9. job' = [job EXCEPT ![e] = j] /\ inHand' \in [Workers -> Events \union {NoJob}]
    BY <1>1, <1>2 DEF JobTypes
  <1> HIDE DEF j
  <1> QED BY <1>1, <1>2, <1>3, <1>4, <1>6, <1>7, <1>8, <1>9, JobStep

\* The backend's own steps: the hands of the workers stay as they are.
LEMMA BackendStep ==
    ASSUME HInv, JInv, NEW e \in Events, NEW j \in Entries, job' = [job EXCEPT ![e] = j],
           deployment' = deployment, inHand' = inHand, runs' = runs, done' = done,
           takenBack' \in [Events -> Nat], forgotten' \in [Events -> Nat],
           \A d \in Events \ {e} : takenBack'[d] = takenBack[d] /\ forgotten'[d] = forgotten[d],
           takenBack'[e] >= takenBack[e], forgotten'[e] >= forgotten[e],
           Starts1(j, runs[e], forgotten'[e]),
           j.state \in {"none", "waiting", "delayed"} =>
               \/ job[e].state \in {"none", "waiting", "delayed"}
               \/ takenBack'[e] + forgotten'[e] > takenBack[e] + forgotten[e]
    PROVE  JInv'
  <1>1. /\ Ends1(job[e], done[e], Cardinality(Hands(e)), takenBack[e], forgotten[e])
        /\ done[e] \in Nat /\ takenBack[e] \in Nat /\ forgotten[e] \in Nat
        /\ Cardinality(Hands(e)) \in Nat
        /\ runs \in [Events -> Nat] /\ done \in [Events -> Nat]
        /\ takenBack \in [Events -> Nat] /\ forgotten \in [Events -> Nat]
        /\ inHand \in [Workers -> Events \union {NoJob}]
    BY JobFacts
  <1>2. \A d \in Events : Hands(d)' = Hands(d)
    BY DEF Hands
  <1>3. takenBack'[e] \in Nat /\ forgotten'[e] \in Nat
    OBVIOUS
  <1>4. Ends1(j, done'[e], Cardinality(Hands(e)'), takenBack'[e], forgotten'[e])
    BY <1>1, <1>2, <1>3 DEF Ends1
  <1>5. deployment \in Deployments
    BY DEF HInv, GroupTypes
  <1> QED BY <1>1, <1>2, <1>3, <1>4, <1>5, JobStep

LEMMA BackendJInv ==
    ASSUME HInv, JInv, NEW e \in Events,
           \/ Returns(e) \/ TakenBack(e) \/ Forgets(e)
           \/ Adds(e) /\ UNCHANGED <<deployment, inHand, history>>
    PROVE  JInv'
  <1>1. /\ job[e] \in Entries /\ Starts1(job[e], runs[e], forgotten[e])
        /\ runs[e] \in Nat /\ forgotten[e] \in Nat
        /\ job \in [Events -> Entries]
        /\ takenBack \in [Events -> Nat] /\ forgotten \in [Events -> Nat]
    BY JobFacts DEF JInv, JobTypes, Entries, JobStates
  <1>2. deployment \in Deployments
    BY DEF HInv, GroupTypes
  <1>3. /\ Attempts \in Nat \ {0} /\ MaxStalls \in Nat /\ Tries \in Nat
        /\ Tries = Attempts + (IF deployment.backend = "bullmq" THEN MaxStalls ELSE 0)
        /\ deployment.backend \in {"bullmq", "pgboss"}
    BY <1>2, DeployedTypes DEF Tries
  <1>4. forgotten[e] * Tries \in Nat
    BY <1>1, <1>3
  <1>5. takenBack[e] \in Nat
    BY <1>1
  <1>6. CASE Returns(e) \/ (Adds(e) /\ UNCHANGED <<deployment, inHand, history>>)
    <2> DEFINE j == IF Returns(e) \/ job[e].state = "none" THEN [job[e] EXCEPT !.state = "waiting"] ELSE job[e]
    <2>1. job' = [job EXCEPT ![e] = j] /\ UNCHANGED <<deployment, inHand, history>>
      BY <1>1, <1>6 DEF Returns, Adds
    <2>2. /\ j.failed = job[e].failed /\ j.stalled = job[e].stalled /\ j \in Entries
          /\ j = job[e] \/ (j.state = "waiting" /\ job[e].state \in {"none", "delayed"})
      BY <1>1 DEF Entries, JobStates, Returns
    <2>3. Starts1(j, runs[e], forgotten[e])
      BY <1>1, <1>3, <1>4, <2>2 DEF Starts1, Entries
    <2>4. /\ deployment' = deployment /\ inHand' = inHand /\ runs' = runs /\ done' = done
          /\ takenBack' = takenBack /\ forgotten' = forgotten
      BY <2>1 DEF history
    <2>5. Starts1(j, runs[e], forgotten'[e]) /\ takenBack[e] >= takenBack[e] /\ forgotten[e] >= forgotten[e]
      BY <1>1, <1>5, <2>3, <2>4
    <2>6. j.state \in {"none", "waiting", "delayed"} => job[e].state \in {"none", "waiting", "delayed"}
      BY <2>2
    <2> HIDE DEF j
    <2> QED BY <1>1, <2>1, <2>2, <2>4, <2>5, <2>6, BackendStep
  <1>7. CASE TakenBack(e)
    <2> DEFINE stalled == [job[e] EXCEPT !.stalled = job[e].stalled + 1, !.holder = NoOne,
                              !.state = IF job[e].stalled + 1 > MaxStalls THEN "failed" ELSE "waiting"]
               j == IF deployment.backend = "pgboss" THEN FailedOnce(e) ELSE stalled
    <2>0. /\ UNCHANGED <<deployment, inHand, runs, done, forgotten>>
          /\ takenBack' = [takenBack EXCEPT ![e] = @ + 1] /\ job[e].state = "active"
      BY <1>7 DEF TakenBack
    <2>1. job' = [job EXCEPT ![e] = j]
      BY <1>7, Zenon DEF TakenBack
    <2>2. j \in Entries /\ Starts1(j, runs[e], forgotten[e])
      <3>1. CASE deployment.backend = "pgboss"
        BY <1>2, <2>0, <3>1, FailedOnceStarts
      <3>2. CASE deployment.backend # "pgboss"
        <4>0. job[e].failed \in 0 .. Attempts - 1 /\ job[e].stalled \in 0 .. MaxStalls
          BY <1>1, <1>3, <2>0 DEF Entries, Starts1
        <4>1. /\ stalled.state = IF job[e].stalled + 1 > MaxStalls THEN "failed" ELSE "waiting"
              /\ stalled.failed = job[e].failed /\ stalled.stalled = job[e].stalled + 1
          BY <1>1 DEF Entries
        <4>2. j = stalled /\ stalled \in Entries
          <5>1. job[e].stalled + 1 \in 0 .. MaxStalls + 1
            BY <1>3, <4>0
          <5>2. ASSUME NEW s \in {"failed", "waiting"}
                PROVE  [job[e] EXCEPT !.stalled = job[e].stalled + 1, !.holder = NoOne, !.state = s] \in Entries
            <6>1. s \in JobStates /\ job[e].failed \in 0 .. Attempts
              BY <1>3, <4>0 DEF JobStates
            <6> QED BY <1>1, <5>1, <6>1, EntryUpdate
          <5> QED BY <3>2, <5>2
        <4>3. runs[e] <= forgotten[e] * Tries + job[e].failed + job[e].stalled + 1
          BY <1>1, <2>0 DEF Starts1
        <4>4. runs[e] <= forgotten[e] * Tries + job[e].failed + (job[e].stalled + 1) + 0
          BY <1>1, <1>4, <4>0, <4>3
        <4> HIDE DEF stalled
        <4> QED BY <1>1, <1>3, <3>2, <4>0, <4>1, <4>2, <4>4 DEF Starts1
      <3> QED BY <3>1, <3>2
    <2>3. /\ takenBack' \in [Events -> Nat] /\ takenBack'[e] = takenBack[e] + 1
          /\ \A d \in Events \ {e} : takenBack'[d] = takenBack[d]
      BY <1>1, <2>0
    <2>4. /\ deployment' = deployment /\ inHand' = inHand /\ runs' = runs /\ done' = done
          /\ forgotten' = forgotten
      BY <2>0
    <2>5. /\ Starts1(j, runs[e], forgotten'[e]) /\ takenBack'[e] >= takenBack[e] /\ forgotten'[e] >= forgotten[e]
          /\ takenBack'[e] + forgotten'[e] > takenBack[e] + forgotten[e]
      BY <1>1, <1>5, <2>2, <2>3, <2>4
    <2> HIDE DEF j
    <2> QED BY <1>1, <2>1, <2>2, <2>3, <2>4, <2>5, BackendStep
  <1>8. CASE Forgets(e)
    <2>1. /\ job' = [job EXCEPT ![e] = NoEntry] /\ UNCHANGED <<deployment, inHand, runs, done, takenBack>>
          /\ forgotten' = [forgotten EXCEPT ![e] = @ + 1] /\ job[e].state \in {"completed", "failed"}
      BY <1>8 DEF Forgets
    <2>2. NoEntry \in Entries
      BY <1>3 DEF NoEntry, Entries, JobStates
    <2>3. runs[e] <= forgotten[e] * Tries + Tries
      BY <1>1, <1>3, <1>4, <2>1 DEF Starts1, Entries
    <2>4. (forgotten[e] + 1) * Tries = forgotten[e] * Tries + Tries
      BY <1>1, <1>3
    <2>5. Starts1(NoEntry, runs[e], forgotten[e] + 1)
      BY <1>1, <1>3, <1>4, <2>3, <2>4 DEF Starts1, NoEntry
    <2>6. /\ forgotten' \in [Events -> Nat] /\ forgotten'[e] = forgotten[e] + 1
          /\ \A d \in Events \ {e} : forgotten'[d] = forgotten[d]
      BY <1>1, <2>1
    <2>7. deployment' = deployment /\ inHand' = inHand /\ runs' = runs /\ done' = done /\ takenBack' = takenBack
      BY <2>1
    <2>8. /\ Starts1(NoEntry, runs[e], forgotten'[e]) /\ takenBack'[e] >= takenBack[e]
          /\ forgotten'[e] >= forgotten[e] /\ takenBack'[e] + forgotten'[e] > takenBack[e] + forgotten[e]
      BY <1>1, <1>5, <2>5, <2>6, <2>7
    <2> QED BY <1>1, <2>1, <2>2, <2>6, <2>7, <2>8, BackendStep
  <1> QED BY <1>6, <1>7, <1>8

LEMMA CrashesJInv == ASSUME HInv, JInv, NEW w \in Workers, Crashes(w) PROVE JInv'
  <1>1. /\ inHand' = [inHand EXCEPT ![w] = NoJob] /\ deployment' = deployment /\ job' = job
        /\ runs' = runs /\ done' = done /\ takenBack' = takenBack /\ forgotten' = forgotten
    BY DEF Crashes, history
  <1>2. JobTypes
    BY DEF JInv
  <1>3. JobTypes'
    BY <1>1, <1>2 DEF JobTypes
  <1>4. StartsAreCounted'
    BY <1>1 DEF JInv, StartsAreCounted, Starts1, Tries
  <1>5. ASSUME NEW e \in Events
        PROVE  Ends1(job[e], done[e], Cardinality(Hands(e)), takenBack[e], forgotten[e])'
    <2>1. /\ Ends1(job[e], done[e], Cardinality(Hands(e)), takenBack[e], forgotten[e])
          /\ Cardinality(Hands(e)) \in Nat /\ done[e] \in Nat /\ takenBack[e] \in Nat /\ forgotten[e] \in Nat
      BY JobFacts
    <2>2. Cardinality(Hands(e)') \in Nat /\ Cardinality(Hands(e)') <= Cardinality(Hands(e))
      <3>1. /\ Cardinality(Hands(e)') \in Nat
            /\ Cardinality(Hands(e)') = Cardinality(Hands(e)) - IF inHand[w] = e THEN 1 ELSE 0
        BY <1>1, <1>2, HandsDrop
      <3> QED BY <2>1, <3>1
    <2> QED BY <1>1, <2>1, <2>2 DEF Ends1
  <1> QED BY <1>3, <1>4, <1>5 DEF JInv, EndsAreCounted

LEMMA SameJobs == ASSUME JInv, UNCHANGED <<deployment, job, inHand, history>> PROVE JInv'
  <1>1. \A e \in Events : Hands(e)' = Hands(e)
    BY DEF Hands
  <1> QED BY <1>1 DEF JInv, JobTypes, StartsAreCounted, Starts1, EndsAreCounted, Ends1, Tries, history

LEMMA NextJInv == ASSUME HInv, JInv, [Next]_vars PROVE JInv'
  <1>1. ASSUME NEW w \in Workers, NEW p \in Partitions, Enqueues(w, p) \/ AnswerLost(w, p)
        PROVE  JInv'
    <2>1. Record(w, p) \in Events
      BY <1>1 DEF Enqueues, AnswerLost, IsAt, HInv, Behind
    <2>2. Adds(Record(w, p)) /\ UNCHANGED <<deployment, inHand, history>>
      BY <1>1 DEF Enqueues, AnswerLost
    <2>3. PICK e \in Events : e = Record(w, p)
      BY <2>1
    <2> QED BY <2>2, <2>3, BackendJInv
  <1>2. ASSUME NEW w \in Workers, NEW p \in Partitions,
               \/ Begins(w, p) \/ Counts(w, p) \/ Counted(w, p) \/ CallFails(w, p) \/ Commits(w, p)
               \/ Assigns(w, p)
        PROVE  JInv'
    <2>1. UNCHANGED <<deployment, job, inHand, history>>
      BY <1>2 DEF Begins, Counts, Counted, CallFails, Commits, Assigns, jobs, history
    <2> QED BY <2>1, SameJobs
  <1>3. ASSUME NEW w \in Workers,
               Ages(w) \/ Boots(w) \/ StopBegins(w) \/ QueueCloses(w) \/ StopEnds(w)
        PROVE  JInv'
    <2>1. UNCHANGED <<deployment, job, inHand, history>>
      BY <1>3 DEF Ages, Boots, StopBegins, QueueCloses, StopEnds, jobs, history
    <2> QED BY <2>1, SameJobs
  <1>4. ASSUME QueueGoesDown \/ QueueComesBack \/ UNCHANGED vars \/ \E p \in Partitions : Loses(p)
        PROVE  JInv'
    <2>1. UNCHANGED <<deployment, job, inHand, history>>
      BY <1>4 DEF QueueGoesDown, QueueComesBack, vars, Loses, jobs, history
    <2> QED BY <2>1, SameJobs
  <1>5. ASSUME NEW e \in Events, Returns(e) \/ TakenBack(e) \/ Forgets(e) PROVE JInv'
    BY <1>5, BackendJInv
  <1> QED BY <1>1, <1>2, <1>3, <1>4, <1>5, TakesJInv, FinishesJInv, CrashesJInv DEF Next, Handles

-----------------------------------------------------------------------------
(* The arithmetic of the room a replica has.                               *)

LEMMA OvershootFacts ==
    ASSUME NEW m \in Nat
    PROVE  Overshoot(m) \in Nat /\ Overshoot(m + 1) = Overshoot(m) + m
  <1> DEFINE x == m * (m - 1)
  <1>1. x \in Nat
    <2>1. CASE m = 0
      BY <2>1
    <2>2. CASE m > 0
      BY <2>2
    <2> QED BY <2>1, <2>2
  <1>2. (m + 1) * (m + 1 - 1) = x + 2 * m
    OBVIOUS
  <1> HIDE DEF x
  <1>3. (x + 2 * m) \div 2 = (x \div 2) + m /\ x \div 2 \in Nat
    BY <1>1
  <1> QED BY <1>2, <1>3 DEF Overshoot, x

LEMMA OvershootGrows ==
    ASSUME NEW m \in Nat, NEW c \in Nat, m <= c
    PROVE  Overshoot(m) <= Overshoot(c)
  <1> DEFINE x == m * (m - 1)
             y == c * (c - 1)
  <1>1. x \in Int /\ y \in Int /\ x <= y
    <2>1. CASE c = 0
      BY <2>1
    <2>2. CASE c > 0
      <3>1. y - x = (c - m) * (c + m - 1)
        OBVIOUS
      <3>2. (c - m) * (c + m - 1) >= 0
        BY <2>2
      <3> QED BY <3>1, <3>2
    <2> QED BY <2>1, <2>2
  <1> HIDE DEF x, y
  <1>2. x \div 2 <= y \div 2
    BY <1>1
  <1> QED BY <1>2 DEF Overshoot, x, y

\* A replica with so many handlers, a MaxWaiting and the depth it has cached.
LEMMA RoomIsNat ==
    ASSUME NEW c \in Nat, NEW h \in Nat, NEW s \in Nat, NEW t \in Nat, NEW u \in BOOLEAN, NEW d \in Nat,
           h + s <= c
    PROVE  RoomOf(c, h, s, t, u, d) \in Nat /\ Cached(c, h, s, u, d) \in Nat /\ s <= Cached(c, h, s, u, d)
  <1>1. MaxWaiting \in Nat \ {0}
    BY WorkerAssumption
  <1>2. Cached(c, h, s, u, d) \in Nat /\ s <= Cached(c, h, s, u, d)
    BY <1>1 DEF Cached
  <1>3. Overshoot(c) \in Nat /\ Overshoot(c - h) \in Nat /\ Overshoot(c - h) <= Overshoot(c)
    <2>1. c - h \in Nat /\ c - h <= c
      OBVIOUS
    <2> QED BY <2>1, OvershootFacts, OvershootGrows
  <1> QED BY <1>2, <1>3 DEF RoomOf

\* Fewer that have passed, or a cached depth that is used no more or shows no room.
LEMMA RoomShrinks ==
    ASSUME NEW c \in Nat, NEW h \in Nat, NEW s \in Nat, NEW t \in Nat, NEW u \in BOOLEAN, NEW d \in Nat,
           NEW r \in 0 .. s, NEW v \in BOOLEAN, NEW n \in Nat, h + s <= c,
           ~v \/ n >= MaxWaiting \/ (v = u /\ n = d)
    PROVE  RoomOf(c, h, r, t, v, n) <= RoomOf(c, h, s, t, u, d)
  <1>1. MaxWaiting \in Nat \ {0}
    BY WorkerAssumption
  <1>2. Cached(c, h, r, v, n) <= Cached(c, h, s, u, d) /\ Cached(c, h, r, v, n) \in Nat
    BY <1>1 DEF Cached
  <1>3. Overshoot(c) \in Nat /\ Overshoot(c - h) \in Nat /\ Cached(c, h, s, u, d) \in Nat
    <2>1. c - h \in Nat
      OBVIOUS
    <2>2. Overshoot(c) \in Nat /\ Overshoot(c - h) \in Nat
      BY <2>1, OvershootFacts
    <2>3. Cached(c, h, s, u, d) \in Nat
      BY RoomIsNat
    <2> QED BY <2>2, <2>3
  <1> QED BY <1>2, <1>3 DEF RoomOf

\* One that has passed enqueues, and the cached depth counts it.
LEMMA RoomEnqueue ==
    ASSUME NEW c \in Nat, NEW h \in Nat, NEW s \in Nat \ {0}, NEW t \in Nat, NEW u \in BOOLEAN, NEW d \in Nat,
           h + s <= c
    PROVE  RoomOf(c, h, s - 1, t, u, d + 1) + 1 <= RoomOf(c, h, s, t, u, d)
  <1>1. MaxWaiting \in Nat \ {0}
    BY WorkerAssumption
  <1>2. /\ Cached(c, h, s - 1, u, d + 1) + 1 <= Cached(c, h, s, u, d)
        /\ Cached(c, h, s - 1, u, d + 1) \in Nat
    BY <1>1 DEF Cached
  <1>3. Overshoot(c) \in Nat /\ Overshoot(c - h) \in Nat /\ Cached(c, h, s, u, d) \in Nat
    <2>1. c - h \in Nat
      OBVIOUS
    <2>2. Overshoot(c) \in Nat /\ Overshoot(c - h) \in Nat
      BY <2>1, OvershootFacts
    <2>3. Cached(c, h, s, u, d) \in Nat
      BY RoomIsNat
    <2> QED BY <2>2, <2>3
  <1> QED BY <1>2, <1>3 DEF RoomOf

\* A reading that shows room becomes the cached depth, and its holder passes.
LEMMA RoomCounted ==
    ASSUME NEW c \in Nat, NEW h \in Nat \ {0}, NEW s \in Nat, NEW t \in Nat, NEW u \in BOOLEAN, NEW d \in Nat,
           NEW v \in Nat, v < MaxWaiting, MaxWaiting - v <= t, h + s <= c
    PROVE  RoomOf(c, h - 1, s + 1, t - (MaxWaiting - v), TRUE, v) <= RoomOf(c, h, s, t, u, d)
  <1>1. MaxWaiting \in Nat \ {0}
    BY WorkerAssumption
  <1>2. PICK m \in Nat : c - h = m /\ c - (h - 1) = m + 1
    OBVIOUS
  <1>3. Overshoot(m) \in Nat /\ Overshoot(m + 1) = Overshoot(m) + m /\ Overshoot(c) \in Nat
    BY OvershootFacts
  <1>4. Cached(c, h - 1, s + 1, TRUE, v) = MaxWaiting - v + m
    BY <1>1, <1>2 DEF Cached
  <1>5. Cached(c, h, s, u, d) \in Nat
    BY RoomIsNat
  <1>6. PICK n \in Nat : n = MaxWaiting - v
    BY <1>1
  <1>7. PICK a \in Nat, b \in Nat, q \in Nat :
          a = Overshoot(m) /\ b = Overshoot(c) /\ q = Cached(c, h, s, u, d)
    BY <1>3, <1>5
  <1>8. RoomOf(c, h - 1, s + 1, t - (MaxWaiting - v), TRUE, v) = (n + m) + (t - n) + b - (a + m)
    BY <1>2, <1>3, <1>4, <1>6, <1>7 DEF RoomOf
  <1>9. RoomOf(c, h, s, t, u, d) = q + t + b - a
    BY <1>2, <1>7 DEF RoomOf
  <1>10. (n + m) + (t - n) + b - (a + m) <= q + t + b - a
    OBVIOUS
  <1> QED BY <1>8, <1>9, <1>10, Zenon

\* A handler reads a depth that shows room: no more than that was waiting.
LEMMA RoomCounts ==
    ASSUME NEW c \in Nat, NEW h \in Nat, NEW s \in Nat, NEW t \in Nat, NEW u \in BOOLEAN, NEW d \in Nat,
           NEW v \in Nat, NEW x \in 0 .. v, v < MaxWaiting, t <= h * MaxWaiting, h + 1 + s <= c
    PROVE  x + RoomOf(c, h + 1, s, t + (MaxWaiting - v), u, d) <= c * MaxWaiting + Overshoot(c)
  <1>1. MaxWaiting \in Nat \ {0}
    BY WorkerAssumption
  <1> DEFINE m == c - (h + 1)
             p == Cached(c, h + 1, s, u, d)
  <1>2. m \in Nat /\ s <= m /\ p \in Nat
    <2>1. h + 1 \in Nat /\ (h + 1) + s <= c
      OBVIOUS
    <2>2. p \in Nat
      BY <2>1, RoomIsNat
    <2> QED BY <2>2
  <1>3. p <= m * MaxWaiting
    <2>1. CASE m = 0
      BY <1>1, <1>2, <2>1 DEF Cached
    <2>2. CASE m >= 1
      <3>1. p <= MaxWaiting + m - 1
        BY <1>1, <1>2, <2>2 DEF Cached
      <3>2. m * MaxWaiting = MaxWaiting + (m - 1) + (m - 1) * (MaxWaiting - 1)
        BY <1>1, <1>2
      <3>3. (m - 1) * (MaxWaiting - 1) \in Nat
        BY <1>1, <1>2, <2>2
      <3> QED BY <1>1, <1>2, <3>1, <3>2, <3>3
    <2> QED BY <1>2, <2>1, <2>2
  <1>4. c * MaxWaiting = h * MaxWaiting + MaxWaiting + m * MaxWaiting
    BY <1>1
  <1>5. Overshoot(m) \in Nat /\ Overshoot(c) \in Nat
    BY <1>2, OvershootFacts
  <1>6. RoomOf(c, h + 1, s, t + (MaxWaiting - v), u, d)
            = p + (t + (MaxWaiting - v)) + Overshoot(c) - Overshoot(m)
    BY DEF RoomOf
  <1>7. h * MaxWaiting \in Nat /\ m * MaxWaiting \in Nat
    BY <1>1, <1>2
  <1> HIDE DEF m, p
  <1> QED BY <1>1, <1>2, <1>3, <1>4, <1>5, <1>6, <1>7

-----------------------------------------------------------------------------
(* The handlers of a replica, counted.                                     *)

LEMMA HandlerSizes ==
    ASSUME HInv, BusyInv, NEW w \in Workers
    PROVE  /\ IsFiniteSet(Holders(w)) /\ IsFiniteSet(Passed(w)) /\ IsFiniteSet(Busy(w)) /\ IsFiniteSet(Places(w))
           /\ Cardinality(Holders(w)) \in Nat /\ Cardinality(Passed(w)) \in Nat
           /\ Cardinality(Busy(w)) \in Nat /\ Cardinality(Places(w)) \in Nat
           /\ Cardinality(Holders(w)) + Cardinality(Passed(w)) <= Cardinality(Busy(w))
           /\ Cardinality(Busy(w)) <= deployment.concurrently
           /\ Cardinality(Places(w)) <= Cardinality(Holders(w)) * MaxWaiting
           /\ deployment.concurrently \in Nat \ {0} /\ MaxWaiting \in Nat \ {0}
           /\ Usable(w) \in BOOLEAN /\ depth[w].waiting \in Nat
  <1>1. MaxWaiting \in Nat \ {0} /\ deployment.concurrently \in Nat \ {0}
    BY WorkerAssumption, DeployedTypes DEF HInv, GroupTypes
  <1>2. Usable(w) \in BOOLEAN /\ depth[w].waiting \in Nat
    BY DEF Usable, HInv, GroupTypes
  <1>3. /\ Holders(w) \in SUBSET Partitions /\ Passed(w) \in SUBSET Partitions /\ Busy(w) \in SUBSET Partitions
        /\ Holders(w) \intersect Passed(w) = {} /\ Holders(w) \union Passed(w) \in SUBSET Busy(w)
    BY DEF Holders, Passed, Busy, IsAt
  <1>4. /\ IsFiniteSet(Holders(w)) /\ IsFiniteSet(Passed(w)) /\ IsFiniteSet(Busy(w))
        /\ Cardinality(Holders(w)) \in Nat /\ Cardinality(Passed(w)) \in Nat /\ Cardinality(Busy(w)) \in Nat
    BY <1>3, FiniteAssumption, FS_Subset, FS_CardinalityType
  <1>5. Cardinality(Holders(w) \union Passed(w)) = Cardinality(Holders(w)) + Cardinality(Passed(w))
    BY <1>3, <1>4, FS_Union, FS_EmptySet
  <1>6. Cardinality(Holders(w) \union Passed(w)) <= Cardinality(Busy(w))
    BY <1>3, <1>4, FS_Subset
  <1>7. IsFiniteSet(1 .. MaxWaiting) /\ Cardinality(1 .. MaxWaiting) = MaxWaiting
    BY <1>1, FS_Interval
  <1>8. /\ IsFiniteSet(Holders(w) \X (1 .. MaxWaiting))
        /\ Cardinality(Holders(w) \X (1 .. MaxWaiting)) = Cardinality(Holders(w)) * MaxWaiting
    BY <1>4, <1>7, FS_Product
  <1>9. Places(w) \in SUBSET (Holders(w) \X (1 .. MaxWaiting))
    BY DEF Places
  <1>10. /\ IsFiniteSet(Places(w)) /\ Cardinality(Places(w)) \in Nat
         /\ Cardinality(Places(w)) <= Cardinality(Holders(w)) * MaxWaiting
    BY <1>8, <1>9, FS_Subset, FS_CardinalityType
  <1> QED BY <1>1, <1>2, <1>4, <1>5, <1>6, <1>10 DEF BusyInv

\* A handler that neither holds a reading nor has passed is one more of those there are.
LEMMA OneMoreHandler ==
    ASSUME HInv, BusyInv, NEW w \in Workers, NEW p \in Busy(w), p \notin Holders(w), p \notin Passed(w)
    PROVE  Cardinality(Holders(w)) + 1 + Cardinality(Passed(w)) <= deployment.concurrently
  <1> DEFINE both == Holders(w) \union Passed(w)
  <1>1. /\ IsFiniteSet(Holders(w)) /\ IsFiniteSet(Passed(w)) /\ IsFiniteSet(Busy(w))
        /\ Cardinality(Holders(w)) \in Nat /\ Cardinality(Passed(w)) \in Nat /\ Cardinality(Busy(w)) \in Nat
        /\ Cardinality(Busy(w)) <= deployment.concurrently /\ deployment.concurrently \in Nat
    BY HandlerSizes
  <1>2. Holders(w) \intersect Passed(w) = {} /\ both \union {p} \in SUBSET Busy(w) /\ p \notin both
    BY DEF Holders, Passed, Busy, IsAt
  <1>3. Cardinality(both) = Cardinality(Holders(w)) + Cardinality(Passed(w)) /\ IsFiniteSet(both)
    BY <1>1, <1>2, FS_Union, FS_EmptySet
  <1>4. Cardinality(both \union {p}) = Cardinality(both) + 1
    BY <1>2, <1>3, FS_AddElement
  <1>5. Cardinality(both \union {p}) <= Cardinality(Busy(w))
    BY <1>1, <1>2, FS_Subset
  <1> HIDE DEF both
  <1> QED BY <1>1, <1>3, <1>4, <1>5

\* The places that a reading of v shows.
Column(p, v) == {p} \X ((v + 1) .. MaxWaiting)

LEMMA ColumnSize ==
    ASSUME NEW p, NEW v \in Nat, v < MaxWaiting
    PROVE  IsFiniteSet(Column(p, v)) /\ Cardinality(Column(p, v)) = MaxWaiting - v
  <1>1. MaxWaiting \in Nat \ {0}
    BY WorkerAssumption
  <1>2. IsFiniteSet((v + 1) .. MaxWaiting) /\ Cardinality((v + 1) .. MaxWaiting) = MaxWaiting - v
    BY <1>1, FS_Interval
  <1>3. IsFiniteSet({p}) /\ Cardinality({p}) = 1
    BY FS_Singleton
  <1>4. IsFiniteSet(Column(p, v)) /\ Cardinality(Column(p, v)) = 1 * (MaxWaiting - v)
    <2>1. PICK T : T = (v + 1) .. MaxWaiting
      OBVIOUS
    <2>2. IsFiniteSet({p} \X T) /\ Cardinality({p} \X T) = Cardinality({p}) * Cardinality(T)
      BY <1>2, <1>3, <2>1, FS_Product
    <2>3. Column(p, v) = {p} \X T
      BY <2>1 DEF Column
    <2> QED BY <1>2, <1>3, <2>1, <2>2, <2>3
  <1>5. 1 * (MaxWaiting - v) = MaxWaiting - v
    BY <1>1
  <1> QED BY <1>4, <1>5

\* What a step of one handler makes of those sets, of its worker's and of the others'.
LEMMA MovesSets ==
    ASSUME HInv, NEW w \in Workers, NEW p \in Partitions,
           NEW pc \in HandlerStates, NEW offset \in Nat, NEW waiting \in Depths,
           Moves(w, p, pc, offset, waiting)
    PROVE  LET holds == pc = "counted" /\ waiting < MaxWaiting
               gone  == {t \in Places(w) : t[1] # p} IN
           /\ Holders(w)' = IF holds THEN Holders(w) \union {p} ELSE Holders(w) \ {p}
           /\ Passed(w)'  = IF pc = "sending" THEN Passed(w) \union {p} ELSE Passed(w) \ {p}
           /\ Busy(w)'    = IF pc # "idle" THEN Busy(w) \union {p} ELSE Busy(w) \ {p}
           /\ Places(w)'  = IF holds THEN gone \union Column(p, waiting) ELSE gone
           /\ \A v \in Workers \ {w} :
                /\ Holders(v)' = Holders(v) /\ Passed(v)' = Passed(v)
                /\ Busy(v)' = Busy(v) /\ Places(v)' = Places(v)
  <1>1. /\ handler'[w][p] = IF pc = "idle" THEN Idle ELSE [at |-> pc, offset |-> offset, waiting |-> waiting]
        /\ \A v \in Workers, q \in Partitions : <<v, q>> # <<w, p>> => handler'[v][q] = handler[v][q]
    BY MovesOne DEF HInv
  <1>2. handler'[w][p].at = pc /\ (pc # "idle" => handler'[w][p].waiting = waiting)
    BY <1>1 DEF Idle
  <1>3. \A q \in Partitions \ {p} : handler'[w][q] = handler[w][q]
    BY <1>1
  <1>4. \A v \in Workers \ {w} : \A q \in Partitions : handler'[v][q] = handler[v][q]
    BY <1>1
  <1> DEFINE holds == pc = "counted" /\ waiting < MaxWaiting
             gone  == {t \in Places(w) : t[1] # p}
  <1>5. Holders(w)' = IF holds THEN Holders(w) \union {p} ELSE Holders(w) \ {p}
    BY <1>2, <1>3 DEF Holders, IsAt
  <1>6. Passed(w)'  = IF pc = "sending" THEN Passed(w) \union {p} ELSE Passed(w) \ {p}
    BY <1>2, <1>3 DEF Passed, IsAt
  <1>7. Busy(w)'    = IF pc # "idle" THEN Busy(w) \union {p} ELSE Busy(w) \ {p}
    BY <1>2, <1>3 DEF Busy
  <1>8. Places(w)'  = IF holds THEN gone \union Column(p, waiting) ELSE gone
    <2>0. waiting \in Nat /\ MaxWaiting \in Nat
      BY WorkerAssumption, DepthIsFinite DEF Depths
    <2>1. ASSUME NEW q \in Partitions, NEW i \in 1 .. MaxWaiting
          PROVE  <<q, i>> \in Places(w)' <=>
                   IF q = p THEN holds /\ i > waiting ELSE <<q, i>> \in Places(w)
      BY <1>2, <1>3, <1>5 DEF Places, Holders, IsAt
    <2>2. /\ Places(w)' \subseteq Partitions \X (1 .. MaxWaiting)
          /\ Places(w) \subseteq Partitions \X (1 .. MaxWaiting)
          /\ Column(p, waiting) = {t \in Partitions \X (1 .. MaxWaiting) : t[1] = p /\ t[2] > waiting}
      BY <2>0 DEF Places, Column
    <2> QED BY <2>1, <2>2
  <1>9. \A v \in Workers \ {w} :
            /\ Holders(v)' = Holders(v) /\ Passed(v)' = Passed(v)
            /\ Busy(v)' = Busy(v) /\ Places(v)' = Places(v)
    BY <1>4 DEF Holders, Passed, Busy, Places, IsAt
  <1> QED BY <1>5, <1>6, <1>7, <1>8, <1>9

-----------------------------------------------------------------------------
(* What a step does to the backlog and to the room.                        *)

LEMMA RoomInNat == HInv /\ BusyInv => \A v \in Workers : Room(v) \in Nat
  <1> SUFFICES ASSUME HInv, BusyInv, NEW w \in Workers
               PROVE  Room(w) \in Nat
    OBVIOUS
  <1>1. PICK c \in Nat, h \in Nat, s \in Nat, t \in Nat, u \in BOOLEAN, d \in Nat :
          /\ c = deployment.concurrently /\ h = Cardinality(Holders(w)) /\ s = Cardinality(Passed(w))
          /\ t = Cardinality(Places(w)) /\ u = Usable(w) /\ d = depth[w].waiting /\ h + s <= c
    <2>1. Cardinality(Holders(w)) + Cardinality(Passed(w)) <= deployment.concurrently
      BY HandlerSizes
    <2> QED BY <2>1, HandlerSizes
  <1>2. RoomOf(c, h, s, t, u, d) \in Nat
    BY <1>1, RoomIsNat
  <1> QED BY <1>1, <1>2, Zenon DEF Room

LEMMA RoomInNatNext == (HInv /\ BusyInv)' => (\A v \in Workers : Room(v) \in Nat)'
  BY RoomInNat, PTL

LEMMA RoomSame ==
    ASSUME NEW v \in Workers, deployment' = deployment, depth'[v] = depth[v],
           Holders(v)' = Holders(v), Passed(v)' = Passed(v), Places(v)' = Places(v)
    PROVE  Room(v)' = Room(v)
  BY DEF Room, Usable

LEMMA BacklogIsFinite ==
    ASSUME NEW sender, NEW v
    PROVE  /\ IsFiniteSet(FirstRuns) /\ Cardinality(FirstRuns) \in Nat
           /\ From(sender, v) \subseteq FirstRuns
           /\ IsFiniteSet(From(sender, v)) /\ Cardinality(From(sender, v)) \in Nat
           /\ Cardinality(From(sender, v)) <= Cardinality(FirstRuns)
  <1>1. FirstRuns \in SUBSET Events /\ From(sender, v) \in SUBSET FirstRuns
    BY DEF FirstRuns, InState, From
  <1> QED BY <1>1, FiniteAssumption, FS_Subset, FS_CardinalityType

\* Nothing new waits for its first run, and a replica has no more room than it had or
\* than the whole backlog leaves it.
LEMMA Keeps ==
    ASSUME HInv, HInv', BusyInv, BusyInv', NEW sender, Attributed(sender),
           deployment' = deployment, faults <= faults', FirstRuns' \subseteq FirstRuns,
           \A v \in Workers : Room(v)' <= Room(v) \/ Cardinality(FirstRuns) + Room(v)' <= PerReplica
    PROVE  Attributed(sender)'
  <1>1. ASSUME NEW v
        PROVE  /\ Cardinality(From(sender, v)') <= Cardinality(From(sender, v))
               /\ Cardinality(From(sender, v)') \in Nat /\ Cardinality(From(sender, v)) \in Nat
               /\ Cardinality(From(sender, v)) <= Cardinality(FirstRuns) /\ Cardinality(FirstRuns) \in Nat
    <2>1. From(sender, v)' \in SUBSET From(sender, v)
      BY DEF From
    <2>2. IsFiniteSet(From(sender, v)) /\ Cardinality(From(sender, v)) \in Nat
          /\ Cardinality(From(sender, v)) <= Cardinality(FirstRuns) /\ Cardinality(FirstRuns) \in Nat
      BY BacklogIsFinite
    <2> QED BY <2>1, <2>2, FS_Subset, FS_CardinalityType
  <1>2. faults \in Nat /\ faults' \in Nat /\ PerReplica' = PerReplica /\ PerReplica \in Nat
    <2>1. deployment.faults \in Nat /\ deployment.concurrently \in Nat /\ MaxWaiting \in Nat
      BY WorkerAssumption, DeployedTypes DEF HInv, GroupTypes
    <2>2. faults \in 0 .. deployment.faults /\ faults' \in 0 .. deployment.faults
      BY DEF HInv, GroupTypes
    <2>3. deployment.concurrently * MaxWaiting \in Nat /\ Overshoot(deployment.concurrently) \in Nat
      BY <2>1, OvershootFacts
    <2>4. PerReplica' = PerReplica
      BY DEF PerReplica
    <2> QED BY <2>1, <2>2, <2>3, <2>4 DEF PerReplica
  <1>3. \A e \in FirstRuns' : sender[e] \in deployment'.replicas \union {NoOne}
    BY DEF Attributed
  <1>4. Cardinality(From(sender, NoOne)') <= faults'
    <2>1. Cardinality(From(sender, NoOne)) <= faults
      BY DEF Attributed
    <2> QED BY <1>1, <1>2, <2>1
  <1>5. ASSUME NEW v \in Workers
        PROVE  Cardinality(From(sender, v)') + Room(v)' <= PerReplica'
    <2>1. Cardinality(From(sender, v)) + Room(v) <= PerReplica
      BY DEF Attributed
    <2>2. Room(v) \in Nat
      BY RoomInNat
    <2>3. (\A w \in Workers : Room(w) \in Nat)'
      BY RoomInNatNext
    <2> QED BY <1>1, <1>2, <2>1, <2>2, <2>3
  <1> QED BY <1>3, <1>4, <1>5 DEF Attributed

\* One task more, which a replica had room for or whose answer was lost.
LEMMA OneMore ==
    ASSUME HInv, HInv', BusyInv, BusyInv',
           NEW sender \in [Events -> Workers \union {NoOne}], Attributed(sender),
           NEW e \in Events, NEW who \in deployment.replicas \union {NoOne},
           deployment' = deployment, FirstRuns' \subseteq FirstRuns \union {e},
           faults' = IF who = NoOne THEN faults + 1 ELSE faults,
           \A v \in Workers : Room(v)' + (IF v = who THEN 1 ELSE 0) <= Room(v)
    PROVE  \E s \in [Events -> Workers \union {NoOne}] : Attributed(s)'
  <1> DEFINE was == e \in FirstRuns
             one(v) == IF v = who THEN 1 ELSE 0
  <1>1. PICK s \in [Events -> Workers \union {NoOne}] :
          s = [sender EXCEPT ![e] = IF was THEN sender[e] ELSE who]
    <2>1. who \in Workers \union {NoOne}
      BY DeployedTypes DEF HInv, GroupTypes
    <2> QED BY <2>1
  <1>2. \A d \in Events : s[d] = IF d = e /\ ~was THEN who ELSE sender[d]
    BY <1>1
  <1>3. FirstRuns \subseteq Events /\ FirstRuns' \subseteq Events
    BY DEF FirstRuns, InState
  <1>4. ASSUME NEW v
        PROVE  /\ Cardinality(From(s, v)') <= Cardinality(From(sender, v)) + one(v)
               /\ Cardinality(From(s, v)') \in Nat /\ Cardinality(From(sender, v)) \in Nat
    <2>1. From(s, v)' \in SUBSET (From(sender, v) \union (IF v = who THEN {e} ELSE {}))
      BY <1>2, <1>3 DEF From
    <2>2. IsFiniteSet(From(sender, v)) /\ Cardinality(From(sender, v)) \in Nat
      BY BacklogIsFinite
    <2>3. CASE v = who
      <3>0. IsFiniteSet(From(sender, v) \union {e})
            /\ Cardinality(From(sender, v) \union {e}) \in Nat
            /\ \/ Cardinality(From(sender, v) \union {e}) = Cardinality(From(sender, v)) + 1
               \/ Cardinality(From(sender, v) \union {e}) = Cardinality(From(sender, v))
        BY <2>2, FS_AddElement, FS_CardinalityType
      <3>1. IsFiniteSet(From(sender, v) \union {e})
            /\ Cardinality(From(sender, v) \union {e}) <= Cardinality(From(sender, v)) + 1
            /\ Cardinality(From(sender, v) \union {e}) \in Nat
        BY <2>2, <3>0
      <3>2. From(s, v)' \in SUBSET (From(sender, v) \union {e})
        BY <2>1, <2>3
      <3>3. /\ Cardinality(From(s, v)') <= Cardinality(From(sender, v) \union {e})
            /\ Cardinality(From(s, v)') \in Nat
        BY <3>1, <3>2, FS_Subset, FS_CardinalityType
      <3> QED BY <2>2, <2>3, <3>1, <3>3
    <2>4. CASE v # who
      <3>1. From(s, v)' \in SUBSET From(sender, v)
        BY <2>1, <2>4
      <3> QED BY <2>2, <2>4, <3>1, FS_Subset, FS_CardinalityType
    <2> QED BY <2>3, <2>4
  <1>5. faults \in Nat /\ PerReplica' = PerReplica /\ PerReplica \in Nat
    <2>1. deployment.faults \in Nat /\ deployment.concurrently \in Nat /\ MaxWaiting \in Nat
      BY WorkerAssumption, DeployedTypes DEF HInv, GroupTypes
    <2>2. faults \in 0 .. deployment.faults
      BY DEF HInv, GroupTypes
    <2>3. deployment.concurrently * MaxWaiting \in Nat /\ Overshoot(deployment.concurrently) \in Nat
      BY <2>1, OvershootFacts
    <2>4. PerReplica' = PerReplica
      BY DEF PerReplica
    <2> QED BY <2>1, <2>2, <2>3, <2>4 DEF PerReplica
  <1>6. \A d \in FirstRuns' : s[d] \in deployment'.replicas \union {NoOne}
    BY <1>2, <1>3 DEF Attributed
  <1>7. Cardinality(From(s, NoOne)') <= faults'
    <2>1. Cardinality(From(sender, NoOne)) <= faults
      BY DEF Attributed
    <2> QED BY <1>4, <1>5, <2>1
  <1>8. ASSUME NEW v \in Workers
        PROVE  Cardinality(From(s, v)') + Room(v)' <= PerReplica'
    <2>1. Cardinality(From(sender, v)) + Room(v) <= PerReplica
      BY DEF Attributed
    <2>2. Room(v) \in Nat
      BY RoomInNat
    <2>3. (\A w \in Workers : Room(w) \in Nat)'
      BY RoomInNatNext
    <2>4. Room(v)' + one(v) <= Room(v)
      OBVIOUS
    <2>5. Cardinality(From(s, v)') <= Cardinality(From(sender, v)) + one(v)
          /\ Cardinality(From(s, v)') \in Nat /\ Cardinality(From(sender, v)) \in Nat /\ one(v) \in Nat
      BY <1>4
    <2> HIDE DEF one
    <2> QED BY <1>5, <2>1, <2>2, <2>3, <2>4, <2>5
  <1> QED BY <1>6, <1>7, <1>8 DEF Attributed

-----------------------------------------------------------------------------
(* BusyInv.                                                                *)

LEMMA LessBusy ==
    ASSUME HInv, BusyInv, deployment' = deployment,
           \A v \in Workers : /\ Busy(v)' \subseteq Busy(v)
                              /\ life'[v] # "booting" => life[v] # "booting" \/ v \in deployment.replicas
    PROVE  BusyInv'
  <1> SUFFICES ASSUME NEW v \in Workers
               PROVE  /\ Cardinality(Busy(v)') <= deployment.concurrently
                      /\ life'[v] # "booting" \/ Busy(v)' # {} => v \in deployment.replicas
    BY DEF BusyInv
  <1>1. IsFiniteSet(Busy(v)) /\ Cardinality(Busy(v)) \in Nat
        /\ Cardinality(Busy(v)) <= deployment.concurrently /\ deployment.concurrently \in Nat
    BY HandlerSizes
  <1>2. Busy(v)' \in SUBSET Busy(v)
    OBVIOUS
  <1>3. Cardinality(Busy(v)') \in Nat /\ Cardinality(Busy(v)') <= Cardinality(Busy(v))
    BY <1>1, <1>2, FS_Subset, FS_CardinalityType
  <1> QED BY <1>1, <1>2, <1>3 DEF BusyInv

LEMMA MovesBusy ==
    ASSUME HInv, BusyInv, NEW w \in Workers, NEW p \in Partitions,
           NEW pc \in HandlerStates, NEW offset \in Nat, NEW waiting \in Depths,
           Moves(w, p, pc, offset, waiting), deployment' = deployment, life' = life,
           \/ pc = "idle" \/ p \in Busy(w)
           \/ Cardinality(Busy(w)) < deployment.concurrently /\ life[w] = "up"
    PROVE  BusyInv'
  <1>1. Busy(w)' = (IF pc # "idle" THEN Busy(w) \union {p} ELSE Busy(w) \ {p})
        /\ \A v \in Workers \ {w} : Busy(v)' = Busy(v)
    BY MovesSets
  <1>2. CASE pc = "idle" \/ p \in Busy(w)
    <2>1. \A v \in Workers : Busy(v)' \subseteq Busy(v)
      BY <1>1, <1>2
    <2> QED BY <2>1, LessBusy
  <1>3. CASE Cardinality(Busy(w)) < deployment.concurrently /\ life[w] = "up" /\ p \notin Busy(w)
    <2>1. IsFiniteSet(Busy(w)) /\ Cardinality(Busy(w)) \in Nat /\ deployment.concurrently \in Nat
      BY HandlerSizes
    <2>2. Cardinality(Busy(w) \union {p}) = Cardinality(Busy(w)) + 1
      BY <1>3, <2>1, FS_AddElement
    <2>3. w \in deployment.replicas
      BY <1>3 DEF BusyInv
    <2>4. CASE pc = "idle"
      BY <1>2, <2>4
    <2>5. CASE pc # "idle"
      <3>1. Busy(w)' = Busy(w) \union {p}
        BY <1>1, <2>5
      <3>2. Cardinality(Busy(w)') <= deployment.concurrently
        BY <1>3, <2>1, <2>2, <3>1
      <3> QED BY <1>1, <2>3, <3>2 DEF BusyInv
    <2> QED BY <2>4, <2>5
  <1> QED BY <1>2, <1>3

LEMMA HandlesBusy ==
    ASSUME HInv, BusyInv, NEW w \in Workers, NEW p \in Partitions, Handles(w, p)
    PROVE  BusyInv'
  <1>1. handler[w][p].offset \in Nat /\ handler[w][p].at \in HandlerStates /\ position[p] \in Nat
        /\ handler[w][p].waiting \in Depths /\ 0 \in Depths /\ Waiting \in Depths
    BY DepthIsFinite, WaitingIsADepth DEF HInv, GroupTypes, HandlerStates
  <1>2. \A n : AfterDepth(n) \in {"idle", "sending"}
    BY DEF AfterDepth
  <1>3. CASE Begins(w, p)
    <2>1. PICK pc \in HandlerStates : Moves(w, p, pc, position[p], 0)
      BY <1>2, <1>3 DEF Begins, HandlerStates
    <2>2. /\ Cardinality(Busy(w)) < deployment.concurrently /\ life[w] = "up"
          /\ deployment' = deployment /\ life' = life
      BY <1>3 DEF Begins
    <2> QED BY <1>1, <2>1, <2>2, MovesBusy
  <1>4. CASE Counts(w, p) \/ Counted(w, p) \/ Enqueues(w, p) \/ AnswerLost(w, p) \/ CallFails(w, p)
             \/ Commits(w, p)
    <2>1. PICK pc \in HandlerStates, waiting \in Depths : Moves(w, p, pc, handler[w][p].offset, waiting)
      BY <1>1, <1>2, <1>4 DEF Counts, Counted, Enqueues, AnswerLost, CallFails, Commits, Goes, HandlerStates
    <2>2. p \in Busy(w) /\ deployment' = deployment /\ life' = life
      BY <1>4 DEF Counts, Counted, Enqueues, AnswerLost, CallFails, Commits, Busy, IsAt
    <2> QED BY <1>1, <2>1, <2>2, MovesBusy
  <1> QED BY <1>3, <1>4 DEF Handles

LEMMA NextBusy == ASSUME HInv, BusyInv, [Next]_vars PROVE BusyInv'
  <1>1. ASSUME handler' = handler, deployment' = deployment,
               \A v \in Workers : life'[v] # "booting" => life[v] # "booting" \/ v \in deployment.replicas
        PROVE  BusyInv'
    <2>1. \A v \in Workers : Busy(v)' \subseteq Busy(v)
      BY <1>1 DEF Busy
    <2> QED BY <1>1, <2>1, LessBusy
  <1>2. ASSUME NEW w \in Workers, NEW p \in Partitions, Handles(w, p) \/ Assigns(w, p) PROVE BusyInv'
    BY <1>1, <1>2, HandlesBusy DEF Assigns
  <1>3. ASSUME NEW w \in Workers,
               \/ Ages(w) \/ Finishes(w) \/ Boots(w) \/ StopBegins(w) \/ QueueCloses(w) \/ StopEnds(w)
               \/ \E e \in Events : Takes(w, e)
        PROVE  BusyInv'
    <2>1. handler' = handler /\ deployment' = deployment
      BY <1>3 DEF Ages, Finishes, Boots, StopBegins, QueueCloses, StopEnds, Takes
    <2>2. \/ life' = life
          \/ life[w] = "booting" /\ w \in deployment.replicas /\ life' = [life EXCEPT ![w] = "up"]
          \/ life[w] = "up" /\ life' = [life EXCEPT ![w] = "draining"]
          \/ life[w] = "draining" /\ life' = [life EXCEPT ![w] = "closing"]
          \/ life' = [life EXCEPT ![w] = "booting"]
      BY <1>3 DEF Ages, Finishes, Boots, StopBegins, QueueCloses, StopEnds, Takes
    <2>3. \A v \in Workers : life'[v] # "booting" => life[v] # "booting" \/ v \in deployment.replicas
      BY <2>2 DEF HInv, GroupTypes
    <2> QED BY <1>1, <2>1, <2>3
  <1>4. ASSUME NEW w \in Workers, Crashes(w) PROVE BusyInv'
    <2>1. \A v \in Workers : Busy(v)' \subseteq Busy(v)
      BY <1>4 DEF Crashes, Busy, Idle, HInv, GroupTypes
    <2>2. deployment' = deployment /\ life' = [life EXCEPT ![w] = "booting"]
      BY <1>4 DEF Crashes
    <2>3. \A v \in Workers : life'[v] # "booting" => life[v] # "booting"
      BY <2>2 DEF HInv, GroupTypes
    <2> QED BY <2>1, <2>2, <2>3, LessBusy
  <1>5. CASE \/ UNCHANGED vars \/ QueueGoesDown \/ QueueComesBack \/ \E p \in Partitions : Loses(p)
             \/ \E e \in Events : Returns(e) \/ TakenBack(e) \/ Forgets(e)
    <2>1. handler' = handler /\ deployment' = deployment /\ life' = life
      BY <1>5 DEF vars, QueueGoesDown, QueueComesBack, Loses, Returns, TakenBack, Forgets
    <2> QED BY <1>1, <2>1
  <1> QED BY <1>2, <1>3, <1>4, <1>5 DEF Next

-----------------------------------------------------------------------------
(* The room after a step of a handler.                                     *)

LEMMA RoomParts ==
    ASSUME HInv, BusyInv, NEW w \in Workers
    PROVE  \E c \in Nat, h \in Nat, s \in Nat, t \in Nat, u \in BOOLEAN, d \in Nat :
             /\ c = deployment.concurrently /\ h = Cardinality(Holders(w)) /\ s = Cardinality(Passed(w))
             /\ t = Cardinality(Places(w)) /\ u = Usable(w) /\ d = depth[w].waiting /\ h + s <= c
             /\ t <= h * MaxWaiting /\ Room(w) = RoomOf(c, h, s, t, u, d)
  <1>1. Cardinality(Holders(w)) + Cardinality(Passed(w)) <= deployment.concurrently
    BY HandlerSizes
  <1>2. Room(w) = RoomOf(deployment.concurrently, Cardinality(Holders(w)), Cardinality(Passed(w)),
                         Cardinality(Places(w)), Usable(w), depth[w].waiting)
    BY DEF Room
  <1> QED BY <1>1, <1>2, HandlerSizes

LEMMA RoomDrops ==
    ASSUME HInv, HInv', BusyInv, NEW w \in Workers, deployment' = deployment,
           Holders(w)' = Holders(w), Places(w)' = Places(w), Passed(w)' \subseteq Passed(w),
           ~Usable(w)' \/ depth'[w].waiting >= MaxWaiting \/ depth'[w] = depth[w]
    PROVE  Room(w)' <= Room(w)
  <1>1. PICK c \in Nat, h \in Nat, s \in Nat, t \in Nat, u \in BOOLEAN, d \in Nat :
          /\ c = deployment.concurrently /\ h = Cardinality(Holders(w)) /\ s = Cardinality(Passed(w))
          /\ t = Cardinality(Places(w)) /\ u = Usable(w) /\ d = depth[w].waiting /\ h + s <= c
          /\ t <= h * MaxWaiting /\ Room(w) = RoomOf(c, h, s, t, u, d)
    BY RoomParts
  <1>2. Cardinality(Passed(w)') \in 0 .. s
    <2>1. Passed(w)' \in SUBSET Passed(w) /\ IsFiniteSet(Passed(w)) /\ Cardinality(Passed(w)) \in Nat
      BY HandlerSizes
    <2>2. Cardinality(Passed(w)') \in Nat /\ Cardinality(Passed(w)') <= Cardinality(Passed(w))
      BY <2>1, FS_Subset, FS_CardinalityType
    <2> QED BY <1>1, <2>2
  <1>3. depth'[w].waiting \in Nat /\ Usable(w)' \in BOOLEAN
        /\ (depth'[w] = depth[w] => Usable(w)' = Usable(w))
    BY DEF HInv, GroupTypes, Usable
  <1>4. PICK r \in 0 .. s, v \in BOOLEAN, n \in Nat :
          /\ r = Cardinality(Passed(w)') /\ v = Usable(w)' /\ n = depth'[w].waiting
          /\ ~v \/ n >= MaxWaiting \/ (v = u /\ n = d)
    <2>1. ~Usable(w)' \/ depth'[w].waiting >= MaxWaiting \/ (Usable(w)' = u /\ depth'[w].waiting = d)
      BY <1>1, <1>3
    <2> QED BY <1>2, <1>3, <2>1
  <1>5. RoomOf(c, h, r, t, v, n) <= RoomOf(c, h, s, t, u, d)
    BY <1>1, <1>4, RoomShrinks
  <1>6. Room(w)' = RoomOf(c, h, r, t, v, n)
    BY <1>1, <1>4 DEF Room
  <1> QED BY <1>1, <1>5, <1>6

\* A handler that held no reading with room, and holds none now.
LEMMA LeavesAlone ==
    ASSUME HInv, NEW w \in Workers, NEW p \in Partitions,
           NEW pc \in HandlerStates, NEW offset \in Nat, NEW waiting \in Depths,
           Moves(w, p, pc, offset, waiting), p \notin Holders(w), ~(pc = "counted" /\ waiting < MaxWaiting)
    PROVE  /\ Holders(w)' = Holders(w) /\ Places(w)' = Places(w)
           /\ Passed(w)' = IF pc = "sending" THEN Passed(w) \union {p} ELSE Passed(w) \ {p}
  <1>1. /\ Holders(w)' = Holders(w) \ {p} /\ Places(w)' = {t \in Places(w) : t[1] # p}
        /\ Passed(w)' = IF pc = "sending" THEN Passed(w) \union {p} ELSE Passed(w) \ {p}
    BY MovesSets
  <1>2. {t \in Places(w) : t[1] # p} = Places(w)
    BY DEF Places
  <1> QED BY <1>1, <1>2

LEMMA OthersRoom ==
    ASSUME HInv, NEW w \in Workers, NEW p \in Partitions,
           NEW pc \in HandlerStates, NEW offset \in Nat, NEW waiting \in Depths,
           Moves(w, p, pc, offset, waiting), deployment' = deployment,
           NEW v \in Workers \ {w}, depth'[v] = depth[v]
    PROVE  Room(v)' = Room(v)
  <1>1. Holders(v)' = Holders(v) /\ Passed(v)' = Passed(v) /\ Places(v)' = Places(v)
    BY MovesSets
  <1> QED BY <1>1, RoomSame

LEMMA BeginsRoom ==
    ASSUME HInv, HInv', BusyInv, NEW w \in Workers, NEW p \in Partitions, Begins(w, p)
    PROVE  \A v \in Workers : Room(v)' <= Room(v)
  <1>1. /\ deployment' = deployment /\ depth' = depth /\ position[p] \in Nat /\ 0 \in Depths
        /\ p \notin Holders(w) /\ p \notin Passed(w) /\ Cardinality(Busy(w)) < deployment.concurrently
    BY DepthIsFinite DEF Begins, Holders, Passed, IsAt, HInv, GroupTypes
  <1>2. PICK pc \in HandlerStates :
          /\ Moves(w, p, pc, position[p], 0) /\ pc # "counted"
          /\ pc = "sending" => Usable(w) /\ depth[w].waiting < MaxWaiting
    <2>1. depth[w].waiting \in Nat /\ MaxWaiting \in Nat
      BY WorkerAssumption DEF HInv, GroupTypes
    <2> QED BY <2>1 DEF Begins, HandlerStates, AfterDepth
  <1>3. /\ Holders(w)' = Holders(w) /\ Places(w)' = Places(w)
        /\ Passed(w)' = IF pc = "sending" THEN Passed(w) \union {p} ELSE Passed(w) \ {p}
    BY <1>1, <1>2, LeavesAlone
  <1>4. Room(w)' <= Room(w)
    <2>1. CASE pc # "sending"
      <3>1. Passed(w)' \subseteq Passed(w) /\ depth'[w] = depth[w]
        BY <1>1, <1>3, <2>1
      <3> QED BY <1>1, <1>3, <3>1, RoomDrops
    <2>2. CASE pc = "sending"
      <3>1. PICK c \in Nat, h \in Nat, s \in Nat, t \in Nat, u \in BOOLEAN, d \in Nat :
              /\ c = deployment.concurrently /\ h = Cardinality(Holders(w)) /\ s = Cardinality(Passed(w))
              /\ t = Cardinality(Places(w)) /\ u = Usable(w) /\ d = depth[w].waiting /\ h + s <= c
              /\ t <= h * MaxWaiting /\ Room(w) = RoomOf(c, h, s, t, u, d)
        BY RoomParts
      <3>2. Cardinality(Passed(w)') = s + 1
        BY <1>1, <1>3, <2>2, <3>1, FS_AddElement, HandlerSizes
      <3>3. h + s + 1 <= c
        <4>1. Cardinality(Holders(w)) + Cardinality(Passed(w)) <= Cardinality(Busy(w))
              /\ Cardinality(Busy(w)) \in Nat
          BY HandlerSizes
        <4> QED BY <1>1, <3>1, <4>1
      <3>4. d < MaxWaiting
        BY <1>2, <2>2, <3>1
      <3>5. RoomOf(c, h, s + 1, t, u, d) = RoomOf(c, h, s, t, u, d)
        <4>1. u
          BY <1>2, <2>2, <3>1
        <4>2. PICK q \in Nat : q = s + 1 /\ h + q <= c
          BY <3>3
        <4>3. RoomOf(c, h, q, t, u, d) = RoomOf(c, h, s, t, u, d)
          BY <3>4, <4>1, <4>2 DEF RoomOf, Cached
        <4> QED BY <4>2, <4>3
      <3>6. Usable(w)' = u /\ depth'[w].waiting = d
        BY <1>1, <3>1 DEF Usable
      <3>7. Room(w)' = RoomOf(c, h, s + 1, t, u, d)
        BY <1>1, <1>3, <3>1, <3>2, <3>6 DEF Room
      <3>8. Room(w)' = Room(w)
        BY <3>1, <3>5, <3>7
      <3>9. Room(w) \in Nat
        BY RoomInNat
      <3> QED BY <3>8, <3>9
    <2> QED BY <2>1, <2>2
  <1>5. ASSUME NEW v \in Workers \ {w} PROVE Room(v)' <= Room(v)
    <2>1. Room(v)' = Room(v)
      BY <1>1, <1>2, OthersRoom
    <2> QED BY <2>1, RoomInNat
  <1> QED BY <1>4, <1>5

LEMMA CountsRoom ==
    ASSUME HInv, HInv', BusyInv, NEW w \in Workers, NEW p \in Partitions, Counts(w, p)
    PROVE  \A v \in Workers : Room(v)' <= Room(v) \/ Cardinality(FirstRuns) + Room(v)' <= PerReplica
  <1>1. /\ deployment' = deployment /\ depth' = depth /\ handler[w][p].offset \in Nat /\ Waiting \in Depths
        /\ p \notin Holders(w) /\ p \notin Passed(w) /\ p \in Busy(w) /\ "counted" \in HandlerStates
        /\ Moves(w, p, "counted", handler[w][p].offset, Waiting)
    BY WaitingIsADepth DEF Counts, Holders, Passed, Busy, IsAt, HInv, GroupTypes, HandlerStates
  <1>2. Waiting \in Nat /\ MaxWaiting \in Nat \ {0}
    BY <1>1, WorkerAssumption, DepthIsFinite DEF Depths
  <1>3. Room(w)' <= Room(w) \/ Cardinality(FirstRuns) + Room(w)' <= PerReplica
    <2>1. CASE Waiting >= MaxWaiting
      <3>1. ~(Waiting < MaxWaiting)
        BY <1>2, <2>1
      <3>2. /\ Holders(w)' = Holders(w) /\ Places(w)' = Places(w) /\ Passed(w)' = Passed(w) \ {p}
        BY <1>1, <3>1, LeavesAlone
      <3>3. Passed(w)' \subseteq Passed(w) /\ depth'[w] = depth[w]
        BY <1>1, <3>2
      <3> QED BY <1>1, <3>2, <3>3, RoomDrops
    <2>2. CASE Waiting < MaxWaiting
      <3>1. PICK c \in Nat, h \in Nat, s \in Nat, t \in Nat, u \in BOOLEAN, d \in Nat :
              /\ c = deployment.concurrently /\ h = Cardinality(Holders(w)) /\ s = Cardinality(Passed(w))
              /\ t = Cardinality(Places(w)) /\ u = Usable(w) /\ d = depth[w].waiting /\ h + s <= c
              /\ t <= h * MaxWaiting /\ Room(w) = RoomOf(c, h, s, t, u, d)
        BY RoomParts
      <3>2. PICK x \in Nat, n \in Nat : x = Cardinality(FirstRuns) /\ n = Waiting /\ x <= n /\ n < MaxWaiting
        <4>1. FirstRuns \in SUBSET InState(IF deployment.backend = "bullmq" THEN {"waiting"} ELSE {"waiting", "delayed"})
          BY DEF FirstRuns, InState
        <4>2. IsFiniteSet(InState(IF deployment.backend = "bullmq" THEN {"waiting"} ELSE {"waiting", "delayed"}))
          BY FiniteAssumption, FS_Subset DEF InState
        <4>3. Cardinality(FirstRuns) <= Waiting /\ Cardinality(FirstRuns) \in Nat
          BY <4>1, <4>2, FS_Subset, FS_CardinalityType DEF Waiting
        <4> QED BY <1>2, <2>2, <4>3
      <3>3. /\ Holders(w)' = Holders(w) \union {p} /\ Passed(w)' = Passed(w) \ {p}
            /\ Places(w)' = {r \in Places(w) : r[1] # p} \union Column(p, n)
        <4>1. LET holds == "counted" = "counted" /\ n < MaxWaiting
                  gone  == {r \in Places(w) : r[1] # p} IN
              /\ Holders(w)' = IF holds THEN Holders(w) \union {p} ELSE Holders(w) \ {p}
              /\ Passed(w)'  = IF "counted" = "sending" THEN Passed(w) \union {p} ELSE Passed(w) \ {p}
              /\ Places(w)'  = IF holds THEN gone \union Column(p, n) ELSE gone
          BY <1>1, <3>2, MovesSets
        <4> QED BY <3>2, <4>1
      <3>4. /\ Passed(w)' = Passed(w) /\ Places(w)' = Places(w) \union Column(p, n)
            /\ Places(w) \intersect Column(p, n) = {}
        BY <1>1, <3>3 DEF Places, Column
      <3>5. Cardinality(Holders(w)') = h + 1
        BY <1>1, <3>1, <3>3, FS_AddElement, HandlerSizes
      <3>6. Cardinality(Places(w)') = t + (MaxWaiting - n)
        <4>1. IsFiniteSet(Column(p, n)) /\ Cardinality(Column(p, n)) = MaxWaiting - n
          BY <3>2, ColumnSize
        <4>2. IsFiniteSet(Places(w)) /\ Cardinality(Places(w)) = t
          BY <3>1, HandlerSizes
        <4>3. Cardinality(Places(w) \union Column(p, n))
                = t + (MaxWaiting - n) - Cardinality(Places(w) \intersect Column(p, n))
          BY <4>1, <4>2, FS_Union
        <4>4. Cardinality(Places(w) \intersect Column(p, n)) = 0
          BY <3>4, FS_EmptySet
        <4> QED BY <1>2, <3>2, <3>4, <4>3, <4>4
      <3>7. h + 1 + s <= c
        BY <1>1, <3>1, OneMoreHandler
      <3>8. x + RoomOf(c, h + 1, s, t + (MaxWaiting - n), u, d) <= c * MaxWaiting + Overshoot(c)
        <4>1. x \in 0 .. n /\ n < MaxWaiting /\ t <= h * MaxWaiting
          BY <3>1, <3>2
        <4> QED BY <3>7, <4>1, RoomCounts
      <3>9. Usable(w)' = u /\ depth'[w].waiting = d
        BY <1>1, <3>1 DEF Usable
      <3>10. Room(w)' = RoomOf(c, h + 1, s, t + (MaxWaiting - n), u, d)
        BY <1>1, <3>1, <3>4, <3>5, <3>6, <3>9, Zenon DEF Room
      <3> QED BY <3>1, <3>2, <3>8, <3>10, Zenon DEF PerReplica
    <2> QED BY <1>2, <2>1, <2>2
  <1>4. ASSUME NEW v \in Workers \ {w} PROVE Room(v)' <= Room(v)
    <2>1. Room(v)' = Room(v)
      BY <1>1, OthersRoom
    <2> QED BY <2>1, RoomInNat
  <1> QED BY <1>3, <1>4

LEMMA CountedRoom ==
    ASSUME HInv, HInv', BusyInv, NEW w \in Workers, NEW p \in Partitions, Counted(w, p)
    PROVE  \A v \in Workers : Room(v)' <= Room(v)
  <1>1. PICK n \in Nat : n = handler[w][p].waiting
    BY DepthIsFinite DEF HInv, GroupTypes, Depths
  <1>2. /\ deployment' = deployment /\ depth' = [depth EXCEPT ![w] = [waiting |-> n, age |-> "fresh"]]
        /\ handler[w][p].offset \in Nat /\ 0 \in Depths /\ MaxWaiting \in Nat \ {0}
        /\ p \notin Passed(w) /\ IsAt(w, p, "counted") /\ AfterDepth(n) \in HandlerStates
        /\ Moves(w, p, AfterDepth(n), handler[w][p].offset, 0)
    BY <1>1, DepthIsFinite, WorkerAssumption
       DEF Counted, Goes, Passed, IsAt, HInv, GroupTypes, HandlerStates, AfterDepth
  <1>3. depth'[w] = [waiting |-> n, age |-> "fresh"] /\ \A v \in Workers \ {w} : depth'[v] = depth[v]
    BY <1>2 DEF HInv, GroupTypes
  <1>4. Room(w)' <= Room(w)
    <2>1. CASE n >= MaxWaiting
      <3>1. AfterDepth(n) = "idle" /\ p \notin Holders(w)
        BY <1>1, <1>2, <2>1 DEF AfterDepth, Holders
      <3>2. /\ Holders(w)' = Holders(w) /\ Places(w)' = Places(w) /\ Passed(w)' = Passed(w) \ {p}
        BY <1>2, <3>1, LeavesAlone
      <3>3. Passed(w)' \subseteq Passed(w) /\ depth'[w].waiting >= MaxWaiting
        BY <1>3, <2>1, <3>2
      <3> QED BY <1>2, <3>2, <3>3, RoomDrops
    <2>2. CASE n < MaxWaiting
      <3>1. PICK c \in Nat, h \in Nat, s \in Nat, t \in Nat, u \in BOOLEAN, d \in Nat :
              /\ c = deployment.concurrently /\ h = Cardinality(Holders(w)) /\ s = Cardinality(Passed(w))
              /\ t = Cardinality(Places(w)) /\ u = Usable(w) /\ d = depth[w].waiting /\ h + s <= c
              /\ t <= h * MaxWaiting /\ Room(w) = RoomOf(c, h, s, t, u, d)
        BY RoomParts
      <3>2. AfterDepth(n) = "sending" /\ p \in Holders(w)
        BY <1>1, <1>2, <2>2 DEF AfterDepth, Holders
      <3>3. /\ Holders(w)' = Holders(w) \ {p} /\ Passed(w)' = Passed(w) \union {p}
            /\ Places(w)' = {r \in Places(w) : r[1] # p}
        BY <1>2, <3>2, MovesSets
      <3>4. Places(w) = Places(w)' \union Column(p, n) /\ Places(w)' \intersect Column(p, n) = {}
        <4>1. Column(p, n) = {r \in Partitions \X (1 .. MaxWaiting) : r[1] = p /\ r[2] > n}
          BY <1>2 DEF Column
        <4>2. {r \in Places(w) : r[1] = p} = Column(p, n)
          BY <1>1, <3>2, <4>1 DEF Places
        <4> QED BY <3>3, <4>2
      <3>5. Cardinality(Holders(w)') = h - 1 /\ h \in Nat \ {0}
        <4>1. IsFiniteSet(Holders(w)) /\ Cardinality(Holders(w)) = h
          BY <3>1, HandlerSizes
        <4>2. Holders(w) # {}
          BY <3>2
        <4>3. h # 0
          BY <4>1, <4>2, FS_EmptySet
        <4>4. Cardinality(Holders(w) \ {p}) = h - 1
          BY <3>2, <4>1, FS_RemoveElement
        <4> QED BY <3>1, <3>3, <4>3, <4>4
      <3>6. Cardinality(Passed(w)') = s + 1
        BY <1>2, <3>1, <3>3, FS_AddElement, HandlerSizes
      <3>7. Cardinality(Places(w)') = t - (MaxWaiting - n) /\ MaxWaiting - n <= t
        <4>1. IsFiniteSet(Column(p, n)) /\ Cardinality(Column(p, n)) = MaxWaiting - n
          BY <2>2, ColumnSize
        <4>2. IsFiniteSet(Places(w)) /\ Cardinality(Places(w)) = t /\ Places(w)' \in SUBSET Places(w)
          BY <3>1, <3>3, HandlerSizes
        <4>3. IsFiniteSet(Places(w)') /\ Cardinality(Places(w)') \in Nat
          BY <4>2, FS_Subset, FS_CardinalityType
        <4>4. Cardinality(Places(w)' \union Column(p, n))
                = Cardinality(Places(w)') + (MaxWaiting - n) - Cardinality(Places(w)' \intersect Column(p, n))
          BY <4>1, <4>3, FS_Union
        <4>5. Cardinality(Places(w)' \intersect Column(p, n)) = 0
          BY <3>4, FS_EmptySet
        <4>6. t = Cardinality(Places(w)') + (MaxWaiting - n) - 0
          BY <3>4, <4>2, <4>4, <4>5
        <4> QED BY <1>2, <2>2, <3>1, <4>3, <4>6
      <3>8. RoomOf(c, h - 1, s + 1, t - (MaxWaiting - n), TRUE, n) <= RoomOf(c, h, s, t, u, d)
        BY <2>2, <3>1, <3>5, <3>7, RoomCounted
      <3>9. Usable(w)' = TRUE /\ depth'[w].waiting = n
        BY <1>3 DEF Usable
      <3>10. Room(w)' = RoomOf(c, h - 1, s + 1, t - (MaxWaiting - n), TRUE, n)
        BY <1>2, <3>1, <3>5, <3>6, <3>7, <3>9, Zenon DEF Room
      <3> QED BY <3>1, <3>8, <3>10, Zenon
    <2> QED BY <1>2, <2>1, <2>2
  <1>5. ASSUME NEW v \in Workers \ {w} PROVE Room(v)' <= Room(v)
    <2>1. Room(v)' = Room(v)
      BY <1>2, <1>3, OthersRoom
    <2> QED BY <2>1, RoomInNat
  <1> QED BY <1>4, <1>5

\* A step of a handler that passes nobody and leaves the cached depth alone.
LEMMA EndsRoom ==
    ASSUME HInv, HInv', BusyInv, NEW w \in Workers, NEW p \in Partitions, p \notin Holders(w),
           Goes(w, p, "idle"), deployment' = deployment, depth' = depth
    PROVE  \A v \in Workers : Room(v)' <= Room(v)
  <1>1. /\ handler[w][p].offset \in Nat /\ 0 \in Depths /\ "idle" \in HandlerStates
        /\ Moves(w, p, "idle", handler[w][p].offset, 0)
    BY DepthIsFinite DEF HInv, GroupTypes, HandlerStates, Goes
  <1>2. /\ Holders(w)' = Holders(w) /\ Places(w)' = Places(w) /\ Passed(w)' = Passed(w) \ {p}
    BY <1>1, LeavesAlone
  <1>3. Passed(w)' \subseteq Passed(w) /\ depth'[w] = depth[w]
    BY <1>2
  <1>4. Room(w)' <= Room(w)
    BY <1>2, <1>3, RoomDrops
  <1>5. ASSUME NEW v \in Workers \ {w} PROVE Room(v)' <= Room(v)
    <2>1. Room(v)' = Room(v)
      BY <1>1, OthersRoom
    <2> QED BY <2>1, RoomInNat
  <1> QED BY <1>4, <1>5

LEMMA EnqueuesRoom ==
    ASSUME HInv, HInv', BusyInv, NEW w \in Workers, NEW p \in Partitions, Enqueues(w, p)
    PROVE  \A v \in Workers : Room(v)' + (IF v = w THEN 1 ELSE 0) <= Room(v)
  <1>1. /\ deployment' = deployment /\ depth' = [depth EXCEPT ![w].waiting = @ + 1]
        /\ handler[w][p].offset \in Nat /\ 0 \in Depths /\ "committing" \in HandlerStates
        /\ p \in Passed(w) /\ p \notin Holders(w)
        /\ Moves(w, p, "committing", handler[w][p].offset, 0)
    BY DepthIsFinite DEF Enqueues, CountsOne, Goes, Passed, Holders, IsAt, HInv, GroupTypes, HandlerStates
  <1>2. /\ depth'[w].waiting = depth[w].waiting + 1 /\ depth'[w].age = depth[w].age
        /\ \A v \in Workers \ {w} : depth'[v] = depth[v]
    BY <1>1 DEF HInv, GroupTypes
  <1>3. /\ Holders(w)' = Holders(w) /\ Places(w)' = Places(w) /\ Passed(w)' = Passed(w) \ {p}
    BY <1>1, LeavesAlone
  <1>4. Room(w)' + 1 <= Room(w)
    <2>1. PICK c \in Nat, h \in Nat, s \in Nat, t \in Nat, u \in BOOLEAN, d \in Nat :
            /\ c = deployment.concurrently /\ h = Cardinality(Holders(w)) /\ s = Cardinality(Passed(w))
            /\ t = Cardinality(Places(w)) /\ u = Usable(w) /\ d = depth[w].waiting /\ h + s <= c
            /\ t <= h * MaxWaiting /\ Room(w) = RoomOf(c, h, s, t, u, d)
      BY RoomParts
    <2>2. Cardinality(Passed(w)') = s - 1 /\ s \in Nat \ {0}
      <3>1. IsFiniteSet(Passed(w)) /\ Cardinality(Passed(w)) = s
        BY <2>1, HandlerSizes
      <3>2. s # 0
        BY <1>1, <3>1, FS_EmptySet
      <3>3. Cardinality(Passed(w) \ {p}) = s - 1
        BY <1>1, <3>1, FS_RemoveElement
      <3> QED BY <1>3, <2>1, <3>2, <3>3
    <2>3. RoomOf(c, h, s - 1, t, u, d + 1) + 1 <= RoomOf(c, h, s, t, u, d)
      BY <2>1, <2>2, RoomEnqueue
    <2>4. Usable(w)' = u /\ depth'[w].waiting = d + 1
      BY <1>2, <2>1 DEF Usable
    <2>5. Room(w)' = RoomOf(c, h, s - 1, t, u, d + 1)
      BY <1>1, <1>3, <2>1, <2>2, <2>4, Zenon DEF Room
    <2> QED BY <2>1, <2>3, <2>5, Zenon
  <1>5. ASSUME NEW v \in Workers \ {w} PROVE Room(v)' + 0 <= Room(v)
    <2>1. Room(v)' = Room(v) /\ Room(v) \in Nat
      BY <1>1, <1>2, OthersRoom, RoomInNat
    <2> QED BY <2>1
  <1> QED BY <1>4, <1>5

\* A send adds at most its own task to what waits for its first run.
LEMMA AddsRuns ==
    ASSUME JInv, NEW e \in Events, Adds(e)
    PROVE  FirstRuns' \subseteq FirstRuns \union {e}
  <1>1. \A d \in Events \ {e} : job'[d] = job[d]
    BY DEF Adds, JInv, JobTypes
  <1> QED BY <1>1 DEF FirstRuns, InState

LEMMA HandlesBacklog ==
    ASSUME HInv, HInv', JInv, BusyInv, BusyInv', NEW w \in Workers, NEW p \in Partitions, Handles(w, p),
           NEW sender \in [Events -> Workers \union {NoOne}], Attributed(sender)
    PROVE  \E s \in [Events -> Workers \union {NoOne}] : Attributed(s)'
  <1>0. (\A v \in Workers : Room(v) \in Nat)'
    BY RoomInNatNext
  <1>1. faults \in Nat
    BY DeployedTypes DEF HInv, GroupTypes
  <1>2. ASSUME deployment' = deployment, job' = job, faults <= faults',
               \A v \in Workers : Room(v)' <= Room(v) \/ Cardinality(FirstRuns) + Room(v)' <= PerReplica
        PROVE  Attributed(sender)'
    <2>1. FirstRuns' \subseteq FirstRuns
      BY <1>2 DEF FirstRuns, InState
    <2> QED BY <1>2, <2>1, Keeps
  <1>3. CASE Begins(w, p)
    <2>1. deployment' = deployment /\ job' = job /\ faults <= faults'
      BY <1>1, <1>3 DEF Begins, jobs
    <2> QED BY <1>2, <1>3, <2>1, BeginsRoom
  <1>4. CASE Counts(w, p)
    <2>1. deployment' = deployment /\ job' = job /\ faults <= faults'
      BY <1>1, <1>4 DEF Counts, jobs
    <2> QED BY <1>2, <1>4, <2>1, CountsRoom
  <1>5. CASE Counted(w, p)
    <2>1. deployment' = deployment /\ job' = job /\ faults <= faults'
      BY <1>1, <1>5 DEF Counted, jobs
    <2> QED BY <1>2, <1>5, <2>1, CountedRoom
  <1>6. CASE CallFails(w, p) \/ Commits(w, p)
    <2>1. deployment' = deployment /\ job' = job /\ faults <= faults' /\ depth' = depth
          /\ p \notin Holders(w) /\ Goes(w, p, "idle")
      BY <1>1, <1>6 DEF CallFails, Commits, jobs, Fault, Holders, IsAt
    <2>2. \A v \in Workers : Room(v)' <= Room(v)
      BY <2>1, EndsRoom
    <2> QED BY <1>2, <2>1, <2>2
  <1>7. CASE Enqueues(w, p)
    <2>1. PICK e \in Events : e = Record(w, p)
      BY <1>7 DEF Enqueues, IsAt, HInv, Behind
    <2>2. FirstRuns' \subseteq FirstRuns \union {e}
      BY <1>7, <2>1, AddsRuns DEF Enqueues
    <2>3. w \in deployment.replicas /\ w # NoOne
      BY <1>7, WorkerAssumption DEF Enqueues, BusyInv, Busy, IsAt
    <2>4. deployment' = deployment /\ faults' = IF w = NoOne THEN faults + 1 ELSE faults
      BY <1>7, <2>3 DEF Enqueues
    <2> QED BY <1>7, <2>2, <2>3, <2>4, EnqueuesRoom, OneMore
  <1>8. CASE AnswerLost(w, p)
    <2>1. PICK e \in Events : e = Record(w, p)
      BY <1>8 DEF AnswerLost, IsAt, HInv, Behind
    <2>2. FirstRuns' \subseteq FirstRuns \union {e}
      BY <1>8, <2>1, AddsRuns DEF AnswerLost
    <2>3. deployment' = deployment /\ faults' = faults + 1 /\ depth' = depth
          /\ p \notin Holders(w) /\ Goes(w, p, "idle")
      BY <1>8 DEF AnswerLost, Fault, Holders, IsAt
    <2>4. \A v \in Workers : Room(v)' <= Room(v)
      BY <2>3, EndsRoom
    <2>5. \A v \in Workers : Room(v)' + (IF v = NoOne THEN 1 ELSE 0) <= Room(v)
      <3> SUFFICES ASSUME NEW v \in Workers PROVE Room(v)' + 0 <= Room(v)
        BY WorkerAssumption
      <3>1. Room(v)' <= Room(v) /\ Room(v) \in Nat
        BY <2>4, RoomInNat
      <3> QED BY <1>0, <3>1
    <2> QED BY <2>2, <2>3, <2>5, OneMore
  <1> QED BY <1>3, <1>4, <1>5, <1>6, <1>7, <1>8 DEF Handles

LEMMA OthersBacklog ==
    ASSUME HInv, HInv', BusyInv, BusyInv', NEW sender, Attributed(sender),
           handler' = handler, deployment' = deployment, faults <= faults', FirstRuns' \subseteq FirstRuns,
           \A v \in Workers : depth'[v] = depth[v] \/ depth'[v].age # "fresh"
    PROVE  Attributed(sender)'
  <1>1. ASSUME NEW v \in Workers PROVE Room(v)' <= Room(v)
    <2>1. Holders(v)' = Holders(v) /\ Places(v)' = Places(v) /\ Passed(v)' \subseteq Passed(v)
      BY DEF Holders, Places, Passed, IsAt
    <2>2. ~Usable(v)' \/ depth'[v] = depth[v]
      BY DEF Usable
    <2> QED BY <2>1, <2>2, RoomDrops
  <1> QED BY <1>1, Keeps

LEMMA CrashesBacklog ==
    ASSUME HInv, HInv', BusyInv, BusyInv', NEW sender, Attributed(sender), NEW w \in Workers, Crashes(w)
    PROVE  Attributed(sender)'
  <1>1. /\ deployment' = deployment /\ faults' = faults + 1 /\ job' = job
        /\ handler'[w] = [p \in Partitions |-> Idle] /\ depth'[w] = NoDepth
        /\ \A v \in Workers \ {w} : handler'[v] = handler[v] /\ depth'[v] = depth[v]
    BY DEF Crashes, Fault, HInv, GroupTypes, history
  <1>2. faults <= faults'
    BY <1>1, DeployedTypes DEF HInv, GroupTypes
  <1>3. FirstRuns' \subseteq FirstRuns
    BY <1>1 DEF FirstRuns, InState
  <1>4. Room(w)' <= Room(w)
    <2>1. Holders(w)' = {} /\ Passed(w)' = {} /\ Places(w)' = {}
      BY <1>1 DEF Holders, Passed, Places, IsAt, Idle
    <2>2. PICK c \in Nat : c = deployment.concurrently /\ c - 0 = c /\ Overshoot(c) \in Nat
      <3>1. deployment.concurrently \in Nat
        BY DeployedTypes DEF HInv, GroupTypes
      <3>2. Overshoot(deployment.concurrently) \in Nat
        BY <3>1, OvershootFacts
      <3> QED BY <3>1, <3>2
    <2>3. Cardinality({}) = 0 /\ Usable(w)' = FALSE /\ depth'[w].waiting = 0
      BY <1>1, FS_EmptySet DEF Usable, NoDepth
    <2>4. Room(w)' = RoomOf(c, 0, 0, 0, FALSE, 0)
      BY <1>1, <2>1, <2>2, <2>3 DEF Room
    <2>5. RoomOf(c, 0, 0, 0, FALSE, 0) = 0
      BY <2>2 DEF RoomOf, Cached
    <2>6. Room(w) \in Nat
      BY RoomInNat
    <2>7. Room(w)' = 0
      BY <2>4, <2>5, Zenon
    <2> QED BY <2>6, <2>7
  <1>5. ASSUME NEW v \in Workers \ {w} PROVE Room(v)' <= Room(v)
    <2>1. Holders(v)' = Holders(v) /\ Places(v)' = Places(v) /\ Passed(v)' = Passed(v)
      BY <1>1 DEF Holders, Places, Passed, IsAt
    <2>2. Room(v)' = Room(v)
      BY <1>1, <2>1, RoomSame
    <2> QED BY <2>2, RoomInNat
  <1> QED BY <1>1, <1>2, <1>3, <1>4, <1>5, Keeps

\* Of the steps of a job only a send lets it wait for a first run: what returns after
\* its backoff or is taken back has failed or stalled.
LEMMA JobsBacklog ==
    ASSUME HInv, JInv, NEW e \in Events,
           Returns(e) \/ TakenBack(e) \/ Forgets(e) \/ \E w \in Workers : Takes(w, e)
    PROVE  FirstRuns' \subseteq FirstRuns
  <1>1. job[e] \in Entries /\ Starts1(job[e], runs[e], forgotten[e]) /\ job \in [Events -> Entries]
    BY JobFacts DEF JInv, JobTypes, Entries, JobStates
  <1>2. deployment \in Deployments /\ Attempts \in Nat /\ MaxStalls \in Nat
    BY DeployedTypes DEF HInv, GroupTypes
  <1>3. \A d \in Events \ {e} : job'[d] = job[d]
    BY <1>1 DEF Returns, TakenBack, Forgets, Takes
  <1>4. job'[e].state = "waiting" => job'[e].failed + job'[e].stalled # 0
    <2>1. CASE Returns(e)
      <3>1. /\ job'[e].failed = job[e].failed /\ job'[e].stalled = job[e].stalled
            /\ job[e].failed > 0 /\ job[e].failed \in Nat /\ job[e].stalled \in Nat
        BY <1>1, <1>2, <2>1 DEF Returns, Starts1, Entries
      <3> QED BY <3>1
    <2>2. CASE TakenBack(e) /\ deployment.backend = "pgboss"
      <3>1. job'[e] = FailedOnce(e) /\ job[e].state = "active"
        BY <1>1, <2>2 DEF TakenBack
      <3>2. FailedOnce(e).state \in {"delayed", "failed"}
        BY <1>2, <3>1, FailedOnceStarts
      <3> QED BY <3>1, <3>2
    <2>3. CASE TakenBack(e) /\ deployment.backend # "pgboss"
      <3>1. job'[e].stalled = job[e].stalled + 1 /\ job'[e].failed = job[e].failed
        BY <1>1, <2>3 DEF TakenBack, Entries
      <3>2. job[e].failed \in Nat /\ job[e].stalled \in Nat
        BY <1>1, <1>2 DEF Entries
      <3> QED BY <3>1, <3>2
    <2>4. CASE Forgets(e)
      BY <1>1, <2>4 DEF Forgets, NoEntry
    <2>5. ASSUME NEW w \in Workers, Takes(w, e) PROVE job'[e].state = "active"
      BY <1>1, <2>5 DEF Takes, Entries
    <2> QED BY <2>1, <2>2, <2>3, <2>4, <2>5
  <1> QED BY <1>3, <1>4 DEF FirstRuns, InState

LEMMA FinishesBacklog ==
    ASSUME HInv, JInv, NEW w \in Workers, Finishes(w)
    PROVE  FirstRuns' \subseteq FirstRuns
  <1>1. PICK returned \in BOOLEAN :
          /\ HandlerEnds(w, returned)
          /\ job' = [job EXCEPT ![inHand[w]] =
                IF ~Believes(w, inHand[w]) THEN @
                ELSE IF returned THEN [@ EXCEPT !.state = "completed", !.holder = NoOne]
                ELSE FailedOnce(inHand[w])]
    BY DEF Finishes
  <1>2. PICK e \in Events : e = inHand[w]
    BY <1>1 DEF HandlerEnds, JInv, JobTypes
  <1>3. job[e] \in Entries /\ job \in [Events -> Entries] /\ deployment \in Deployments
    BY JobFacts DEF JInv, JobTypes, Entries, JobStates, HInv, GroupTypes
  <1>4. \A d \in Events \ {e} : job'[d] = job[d]
    BY <1>1, <1>2, <1>3
  <1>5. job'[e] = job[e] \/ job'[e].state # "waiting"
    <2>1. CASE ~Believes(w, e)
      BY <1>1, <1>2, <1>3, <2>1
    <2>2. CASE Believes(w, e) /\ returned
      <3>1. job'[e] = [job[e] EXCEPT !.state = "completed", !.holder = NoOne]
        BY <1>1, <1>2, <1>3, <2>2
      <3> QED BY <1>3, <3>1 DEF Entries
    <2>3. CASE Believes(w, e) /\ ~returned
      <3>1. job'[e] = FailedOnce(e) /\ job[e].state = "active"
        BY <1>1, <1>2, <1>3, <2>3 DEF Believes
      <3>2. FailedOnce(e).state \in {"delayed", "failed"}
        BY <1>3, <3>1, FailedOnceStarts
      <3> QED BY <3>1, <3>2
    <2> QED BY <2>1, <2>2, <2>3
  <1> QED BY <1>4, <1>5 DEF FirstRuns, InState

LEMMA NextBacklog ==
    ASSUME HInv, HInv', JInv, BusyInv, BusyInv', [Next]_vars,
           NEW sender \in [Events -> Workers \union {NoOne}], Attributed(sender)
    PROVE  \E s \in [Events -> Workers \union {NoOne}] : Attributed(s)'
  <1>1. faults \in Nat
    BY DeployedTypes DEF HInv, GroupTypes
  <1>2. ASSUME handler' = handler, deployment' = deployment, faults' = faults \/ Fault,
               depth' = depth, FirstRuns' \subseteq FirstRuns
        PROVE  Attributed(sender)'
    <2>1. faults <= faults'
      BY <1>1, <1>2 DEF Fault
    <2> QED BY <1>2, <2>1, OthersBacklog
  <1>3. ASSUME handler' = handler, deployment' = deployment, faults' = faults \/ Fault,
               depth' = depth, job' = job
        PROVE  Attributed(sender)'
    <2>1. FirstRuns' \subseteq FirstRuns
      BY <1>3 DEF FirstRuns, InState
    <2> QED BY <1>2, <1>3, <2>1
  <1>4. ASSUME NEW e \in Events,
               Returns(e) \/ TakenBack(e) \/ Forgets(e) \/ \E w \in Workers : Takes(w, e)
        PROVE  Attributed(sender)'
    <2>1. handler' = handler /\ deployment' = deployment /\ depth' = depth /\ (faults' = faults \/ Fault)
      BY <1>4 DEF Returns, TakenBack, Forgets, Takes
    <2>2. FirstRuns' \subseteq FirstRuns
      BY <1>4, JobsBacklog
    <2> QED BY <1>2, <2>1, <2>2
  <1>5. ASSUME NEW w \in Workers, Finishes(w) PROVE Attributed(sender)'
    <2>1. handler' = handler /\ deployment' = deployment /\ depth' = depth /\ (faults' = faults \/ Fault)
      BY <1>5 DEF Finishes, HandlerEnds
    <2>2. FirstRuns' \subseteq FirstRuns
      BY <1>5, FinishesBacklog
    <2> QED BY <1>2, <2>1, <2>2
  <1>6. ASSUME NEW w \in Workers, Ages(w) \/ StopEnds(w) PROVE Attributed(sender)'
    <2>1. handler' = handler /\ deployment' = deployment /\ faults <= faults' /\ job' = job
      BY <1>1, <1>6 DEF Ages, StopEnds, jobs
    <2>2. \A v \in Workers : depth'[v] = depth[v] \/ depth'[v].age # "fresh"
      BY <1>6 DEF Ages, StopEnds, NoDepth, HInv, GroupTypes
    <2>3. FirstRuns' \subseteq FirstRuns
      BY <2>1 DEF FirstRuns, InState
    <2> QED BY <2>1, <2>2, <2>3, OthersBacklog
  <1>7. ASSUME NEW w \in Workers,
               Boots(w) \/ StopBegins(w) \/ QueueCloses(w) \/ \E p \in Partitions : Assigns(w, p)
        PROVE  Attributed(sender)'
    BY <1>3, <1>7 DEF Boots, StopBegins, QueueCloses, Assigns, jobs
  <1>8. CASE UNCHANGED vars \/ QueueGoesDown \/ QueueComesBack \/ \E p \in Partitions : Loses(p)
    BY <1>3, <1>8 DEF vars, QueueGoesDown, QueueComesBack, Loses, jobs
  <1> QED BY <1>4, <1>5, <1>6, <1>7, <1>8, HandlesBacklog, CrashesBacklog DEF Next

LEMMA InitBInv == Init => BInv
  <1> SUFFICES ASSUME Init PROVE BInv
    OBVIOUS
  <1>1. FirstRuns = {} /\ deployment \in Deployments
    BY DEF Init, FirstRuns, InState, NoEntry
  <1>2. \A w \in Workers : Busy(w) = {} /\ Holders(w) = {} /\ Passed(w) = {} /\ Places(w) = {}
    BY DEF Init, Busy, Holders, Passed, Places, IsAt, Idle
  <1>3. PICK c \in Nat : c = deployment.concurrently /\ c - 0 = c /\ Overshoot(c) \in Nat
    <2>1. deployment.concurrently \in Nat
      BY <1>1, DeployedTypes
    <2>2. Overshoot(deployment.concurrently) \in Nat
      BY <2>1, OvershootFacts
    <2> QED BY <2>1, <2>2
  <1>4. BusyInv
    BY <1>2, <1>3, FS_EmptySet DEF BusyInv, Init
  <1>5. \A w \in Workers : Room(w) = 0
    <2>1. Cardinality({}) = 0
      BY FS_EmptySet
    <2>2. ASSUME NEW w \in Workers PROVE Room(w) = RoomOf(c, 0, 0, 0, FALSE, 0)
      BY <1>2, <1>3, <2>1 DEF Room, Init, Usable, NoDepth
    <2>3. RoomOf(c, 0, 0, 0, FALSE, 0) = 0
      BY <1>3 DEF RoomOf, Cached
    <2> QED BY <2>2, <2>3
  <1>6. PICK sender \in [Events -> Workers \union {NoOne}] : sender = [e \in Events |-> NoOne]
    OBVIOUS
  <1>7. \A v : From(sender, v) = {}
    BY <1>1 DEF From
  <1>8. PerReplica \in Nat
    BY <1>3, WorkerAssumption DEF PerReplica
  <1>9. Attributed(sender)
    <2>1. \A v : Cardinality(From(sender, v)) = 0
      BY <1>7, FS_EmptySet
    <2>2. faults = 0
      BY DEF Init
    <2>3. 0 <= 0 /\ 0 + 0 <= PerReplica
      BY <1>8
    <2> QED BY <1>1, <1>5, <2>1, <2>2, <2>3 DEF Attributed
  <1> QED BY <1>4, <1>9 DEF BInv

-----------------------------------------------------------------------------
(* Counting.                                                               *)

\* A set is no larger than its classes are together.
LEMMA ClassesCount ==
    ASSUME NEW F, NEW R, IsFiniteSet(F), IsFiniteSet(R), NEW n \in Nat, NEW f,
           \A x \in F : f[x] \in R, \A r \in R : Cardinality({x \in F : f[x] = r}) <= n
    PROVE  Cardinality(F) <= Cardinality(R) * n
  <1> DEFINE class(r) == {x \in F : f[x] = r}
             index    == [r \in R |-> CHOOSE h : h \in Injection(class(r), 1 .. n)]
             g        == [x \in F |-> <<f[x], index[f[x]][x]>>]
  <1>1. ASSUME NEW r \in R PROVE index[r] \in Injection(class(r), 1 .. n)
    <2>1. IsFiniteSet(class(r)) /\ Cardinality(class(r)) \in Nat /\ Cardinality(class(r)) <= n
      <3>1. class(r) \in SUBSET F
        OBVIOUS
      <3> QED BY <3>1, FS_Subset, FS_CardinalityType
    <2>2. PICK k \in Nat : k = Cardinality(class(r)) /\ k <= n
      BY <2>1
    <2> HIDE DEF class
    <2>3. IsFiniteSet(1 .. k) /\ Cardinality(1 .. k) = k
      BY FS_Interval
    <2>4. PICK h : h \in Bijection(class(r), 1 .. k)
      BY <2>1, <2>2, <2>3, FS_SameCardinalityBij DEF ExistsBijection
    <2>5. h \in Injection(class(r), 1 .. n)
      BY <2>2, <2>4 DEF Bijection, Injection
    <2> QED BY <2>5
  <1> HIDE DEF index
  <1>2. g \in [F -> R \X (1 .. n)]
    <2>1. ASSUME NEW x \in F PROVE index[f[x]][x] \in 1 .. n
      BY <1>1 DEF Injection
    <2> QED BY <2>1
  <1>3. ASSUME NEW x \in F, NEW y \in F, g[x] = g[y] PROVE x = y
    <2>1. f[x] = f[y] /\ index[f[x]][x] = index[f[x]][y]
      BY <1>3
    <2>2. x \in class(f[x]) /\ y \in class(f[x]) /\ index[f[x]] \in Injection(class(f[x]), 1 .. n)
      BY <1>1, <2>1
    <2> HIDE DEF class
    <2> QED BY <2>1, <2>2 DEF Injection, IsInjective
  <1>4. g \in Injection(F, R \X (1 .. n))
    <2> HIDE DEF g
    <2> QED BY <1>2, <1>3 DEF Injection, IsInjective
  <1>5. IsFiniteSet(1 .. n) /\ Cardinality(1 .. n) = n
    BY FS_Interval
  <1>6. IsFiniteSet(R \X (1 .. n)) /\ Cardinality(R \X (1 .. n)) = Cardinality(R) * n
    BY <1>5, FS_Product
  <1> QED BY <1>4, <1>6, FS_Injection

-----------------------------------------------------------------------------
(* Theorems.                                                               *)

LEMMA SpecWInv == Spec => []WInv
  <1>1. Init => WInv
    BY InitHInv, InitJInv DEF WInv
  <1>2. WInv /\ [Next]_vars => WInv'
    BY NextHInv, NextJInv DEF WInv
  <1> QED BY <1>1, <1>2, PTL DEF Spec

\* Types of the worker: a job never fails or stalls beyond what its backend allows, a
\* depth is one the queue can have, faults stay within the deployment's.
THEOREM WorkerTypeCorrect == Spec => []TypeOK
  <1>1. WInv => TypeOK
    BY DEF WInv, HInv, JInv, GroupTypes, JobTypes, TypeOK
  <1> QED BY <1>1, SpecWInv, PTL

\* A job whose handler has returned runs to its end again only after the backend took
\* it back or had forgotten it, and however throws, crashes and stalls mix, it is
\* started no more often than its backend's attempts allow.
THEOREM EveryRunIsExcused == Spec => []RunsAreExcused
  <1>1. ASSUME WInv PROVE RunsAreExcused
    <2>1. JInv /\ deployment \in Deployments
      BY <1>1 DEF WInv, HInv, GroupTypes
    <2>2. Tries \in Nat /\ Attempts \in Nat /\ MaxStalls \in Nat
      BY <2>1, DeployedTypes
    <2>3. ASSUME NEW e \in Events
          PROVE  /\ done[e] <= 1 + takenBack[e] + forgotten[e]
                 /\ runs[e] <= (1 + forgotten[e]) * Tries
      <3>1. /\ job[e] \in Entries /\ Starts1(job[e], runs[e], forgotten[e])
            /\ Ends1(job[e], done[e], Cardinality(Hands(e)), takenBack[e], forgotten[e])
            /\ runs[e] \in Nat /\ done[e] \in Nat /\ takenBack[e] \in Nat /\ forgotten[e] \in Nat
            /\ Cardinality(Hands(e)) \in Nat
        BY <2>1, JobFacts
      <3>2. done[e] <= 1 + takenBack[e] + forgotten[e]
        BY <3>1 DEF Ends1
      <3>3. forgotten[e] * Tries \in Nat /\ (1 + forgotten[e]) * Tries = forgotten[e] * Tries + Tries
        BY <2>2, <3>1
      <3>4. job[e].failed + job[e].stalled + (IF job[e].state \in {"active", "completed"} THEN 1 ELSE 0) <= Tries
        <4>1. deployment.backend \in {"bullmq", "pgboss"}
              /\ Tries = Attempts + (IF deployment.backend = "bullmq" THEN MaxStalls ELSE 0)
          BY <2>1, DeployedTypes DEF Tries
        <4>2. job[e].failed \in Nat /\ job[e].stalled \in Nat
          BY <2>2, <3>1 DEF Entries
        <4>3. CASE job[e].state \in {"active", "completed"}
          <5>1. job[e].failed < Attempts /\ job[e].stalled <= MaxStalls
                /\ (deployment.backend = "pgboss" => job[e].stalled = 0)
            BY <3>1, <4>3 DEF Starts1
          <5> QED BY <2>2, <4>1, <4>2, <4>3, <5>1
        <4>4. CASE job[e].state \notin {"active", "completed"}
          BY <3>1, <4>2, <4>4 DEF Starts1
        <4> QED BY <4>3, <4>4
      <3>5. runs[e] <= forgotten[e] * Tries + Tries
        BY <2>2, <3>1, <3>3, <3>4 DEF Starts1, Entries
      <3> QED BY <3>2, <3>3, <3>5
    <2> QED BY <2>3 DEF RunsAreExcused, NoSecondCompletion, AttemptsAreBounded, Tries
  <1> QED BY <1>1, SpecWInv, PTL

\* TaskEventsConsumer commits a task.created record only after the job queue has had
\* its job, whoever owns the partition by then: no task is lost between the two.
THEOREM NoTaskIsLost == Spec => []EnqueuedBeforeCommitted
  <1>1. WInv => EnqueuedBeforeCommitted
    BY DEF WInv, HInv, Behind, Enqueued, EnqueuedBeforeCommitted
  <1> QED BY <1>1, SpecWInv, PTL

LEMMA SpecBInv == Spec => [](WInv /\ BInv)
  <1>1. Init => WInv /\ BInv
    BY InitHInv, InitJInv, InitBInv DEF WInv
  <1>2. WInv /\ BInv /\ [Next]_vars => WInv' /\ BInv'
    <2> SUFFICES ASSUME WInv, BInv, [Next]_vars PROVE WInv' /\ BInv'
      OBVIOUS
    <2>1. HInv' /\ JInv' /\ BusyInv'
      BY NextHInv, NextJInv, NextBusy DEF WInv, BInv
    <2>2. PICK sender \in [Events -> Workers \union {NoOne}] : Attributed(sender)
      BY DEF BInv
    <2>3. \E s \in [Events -> Workers \union {NoOne}] : Attributed(s)'
      BY <2>1, <2>2, NextBacklog DEF WInv, BInv
    <2> QED BY <2>1, <2>3 DEF WInv, BInv
  <1> QED BY <1>1, <1>2, PTL DEF Spec

\* The backlog stays in Kafka: however many handlers of however many replicas read the
\* queue's depth, pass on it and overwrite it, in whatever order, what waits for its
\* first run is bounded, each replica's share by MaxWaiting for every handler and what
\* those overshoot together, and by the answers that were lost.
THEOREM BacklogBound == Spec => []BacklogIsBounded
  <1>1. ASSUME WInv, BInv PROVE BacklogIsBounded
    <2>1. PICK sender \in [Events -> Workers \union {NoOne}] : Attributed(sender)
      BY <1>1 DEF BInv
    <2> DEFINE lost == From(sender, NoOne)
               sent == FirstRuns \ lost
    <2>2. /\ IsFiniteSet(FirstRuns) /\ IsFiniteSet(lost) /\ Cardinality(lost) \in Nat
          /\ Cardinality(FirstRuns) \in Nat /\ lost \subseteq FirstRuns
      BY BacklogIsFinite
    <2>3. IsFiniteSet(sent) /\ Cardinality(sent) \in Nat /\ sent \in SUBSET FirstRuns
      BY <2>2, FS_Subset, FS_CardinalityType
    <2>4. \A e \in sent : sender[e] \in deployment.replicas
      BY <2>1 DEF Attributed, From
    <2>5. deployment.replicas \subseteq Workers /\ IsFiniteSet(deployment.replicas)
          /\ Cardinality(deployment.replicas) \in Nat /\ faults \in Nat /\ PerReplica \in Nat
      <3>1. /\ deployment.replicas \in SUBSET Workers /\ deployment.faults \in Nat
            /\ deployment.concurrently \in Nat
        BY <1>1, DeployedTypes DEF WInv, HInv, GroupTypes
      <3>2. IsFiniteSet(deployment.replicas) /\ Cardinality(deployment.replicas) \in Nat
        BY <3>1, FiniteAssumption, FS_Subset, FS_CardinalityType
      <3>3. PerReplica \in Nat
        BY <3>1, WorkerAssumption, OvershootFacts DEF PerReplica
      <3> QED BY <1>1, <3>1, <3>2, <3>3 DEF WInv, HInv, GroupTypes
    <2>6. ASSUME NEW w \in deployment.replicas
          PROVE  Cardinality({e \in sent : sender[e] = w}) <= PerReplica
      <3>1. Cardinality(From(sender, w)) + Room(w) <= PerReplica /\ Room(w) \in Nat
        BY <1>1, <2>1, <2>5, RoomInNat DEF Attributed, WInv, BInv
      <3>2. {e \in sent : sender[e] = w} \in SUBSET From(sender, w)
        BY DEF From
      <3>3. IsFiniteSet(From(sender, w)) /\ Cardinality(From(sender, w)) \in Nat
        BY BacklogIsFinite
      <3>4. Cardinality({e \in sent : sender[e] = w}) <= Cardinality(From(sender, w))
            /\ Cardinality({e \in sent : sender[e] = w}) \in Nat
        BY <3>2, <3>3, FS_Subset, FS_CardinalityType
      <3> QED BY <2>5, <3>1, <3>3, <3>4
    <2>7. Cardinality(lost) <= faults
      BY <2>1 DEF Attributed
    <2>8. FirstRuns = sent \union lost /\ Cardinality(sent \intersect lost) = 0
      <3>1. sent \intersect lost = {}
        OBVIOUS
      <3> QED BY <2>2, <3>1, FS_EmptySet
    <2> HIDE DEF lost, sent
    <2>9. Cardinality(sent) <= Cardinality(deployment.replicas) * PerReplica
      BY <2>3, <2>4, <2>5, <2>6, ClassesCount
    <2>10. Cardinality(FirstRuns) = Cardinality(sent) + Cardinality(lost)
      <3>1. Cardinality(sent \union lost)
              = Cardinality(sent) + Cardinality(lost) - Cardinality(sent \intersect lost)
        BY <2>2, <2>3, FS_Union
      <3> QED BY <2>2, <2>3, <2>8, <3>1
    <2>11. Cardinality(deployment.replicas) * PerReplica \in Nat
      BY <2>5
    <2> QED BY <2>2, <2>3, <2>5, <2>7, <2>9, <2>10, <2>11 DEF BacklogIsBounded
  <1> QED BY <1>1, SpecBInv, PTL
=============================================================================
