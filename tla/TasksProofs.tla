----------------------------- MODULE TasksProofs -----------------------------
(***************************************************************************)
(* Theorems about Tasks for any number of requests, tasks, connections,    *)
(* workloads and faults.                                                   *)
(***************************************************************************)
EXTENDS Tasks, TLAPS

RowType     == [version : Nat, status : {"ACTIVE", "ARCHIVED"}]
PendingType == [row : RowType, event : BOOLEAN]

Wrote(r)  == conn[r] # None /\ pending[conn[r]] # Nothing
IsOpen(r) == conn[r] # None /\ server[conn[r]] = "open"

\* A request has its connection to itself from BEGIN to its release.
PoolInv ==
    /\ \A r \in Requests : conn[r] = None <=> at[r] \in {"asking", "queued", "over"}
    /\ \A r, q \in Requests : conn[r] = conn[q] /\ conn[r] # None => r = q
    /\ PoolIsClean

\* What the session of a request has, by how far its work has got.
SessionInv == \A r \in Requests :
    /\ at[r] \in {"asking", "begin", "find", "write"} => ~Wrote(r)
    /\ Wrote(r) => IsOpen(r)
    /\ at[r] = "find" => r \notin Creators
    /\ at[r] = "event" => r \in Creators /\ (IsOpen(r) => Wrote(r))
    /\ at[r] = "commit" /\ IsOpen(r) /\ r \notin spent =>
          Wrote(r) /\ (r \in Creators => pending[conn[r]].event)

\* A request names a version of its task that is not newer than the row, unless it
\* guessed; an archive at its UPDATE has found the row active, or it has moved on.
RowInv ==
    /\ \A t \in Tasks : row[t] = Promise!Absent \/ row[t].version > 0
    /\ \A r \in Requests :
        IF r \in Creators THEN r \notin applied => row[Target(r)] = Promise!Absent
        ELSE /\ seen[r] <= row[Target(r)].version \/ r \in guessed
             /\ at[r] = "write" => row[Target(r)] # Promise!Absent
             /\ at[r] = "write" /\ r \in Archivers =>
                    \/ seen[r] < row[Target(r)].version \/ row[Target(r)].status = "ACTIVE"
                    \/ r \in guessed

\* What an open transaction will make of its task is a step of the promise from the
\* row as it is, since the row's lock keeps it so.
PendingInv == \A r \in Requests : Wrote(r) =>
    LET x == pending[conn[r]] old == row[Target(r)] IN
    /\ r \notin applied
    /\ r \in Creators => x.row = Promise!Created
    /\ r \notin Creators =>
          /\ old # Promise!Absent /\ seen[r] = old.version /\ ~x.event
          /\ r \notin Archivers => x.row = Promise!Updated(old)
          /\ r \in Archivers => /\ old.status = "ACTIVE" \/ r \in guessed
                              /\ x.row = Promise!Archived(old)

LockInv == \A r, q \in Requests : Wrote(r) /\ Wrote(q) /\ Target(r) = Target(q) => r = q

AnswerInv == \A r \in Requests :
    /\ at[r] \notin {"rollback", "over"} => r \notin applied
    /\ at[r] = "rollback" => answer[r] # "ok" /\ (r \in applied => answer[r] = "error")
    /\ at[r] = "over" => (answer[r] = "ok" => r \in applied)
                      /\ (r \in applied => answer[r] \in {"ok", "error"})

IInv == TypeOK /\ PoolInv /\ SessionInv /\ RowInv /\ PendingInv /\ LockInv /\ AnswerInv

LEMMA WorkIsTyped == ASSUME TypeOK PROVE work \in Workload /\ NewIds(work)
  BY TasksAssumption DEF TypeOK

LEMMA OwnConnection ==
    ASSUME TypeOK, NEW r \in Requests, conn[r] # None
    PROVE  conn[r] \in Connections /\ conn[r] \notin Free
  BY DEF TypeOK, Free

LEMMA RejectedMoves ==
    ASSUME NEW r \in Requests, NEW a, Rejected(r, a)
    PROVE  \E to \in {"commit", "rollback"} :
              /\ at' = [at EXCEPT ![r] = to]
              /\ IF to = "commit" THEN at[r] # "begin" /\ UNCHANGED answer
                                   ELSE answer' = [answer EXCEPT ![r] = a]
  BY DEF Rejected, Throws, Goes, Told

LEMMA AsksIInv == ASSUME IInv, NEW r \in Requests, Asks(r) PROVE IInv'
  <1> USE WorkIsTyped, TasksAssumption
      DEF IInv, Workload, NewIds, Asks, Named, Goes, Told, data, pool,
          Target, Creators, Archivers, Nothing, Promise!Absent, Wrote, IsOpen
  <1>1. TypeOK'
    BY DEF TypeOK, Free, Places, Answers, Promise!Created, Promise!Updated, Promise!Archived
  <1>2. PoolInv'
    BY DEF TypeOK, PoolInv, SessionInv, PoolIsClean, Free
  <1>3. SessionInv'
    BY DEF TypeOK, PoolInv, SessionInv, PoolIsClean, Free
  <1>4. RowInv' /\ AnswerInv'
    <2>1. \A q \in Requests : q # r => seen'[q] = seen[q] /\ (q \in guessed' <=> q \in guessed)
      BY DEF TypeOK
    <2>2. Target(r) \in Tasks /\ seen'[r] = Named(r) /\ at'[r] = "queued" /\ Named(r) \in Nat
      BY DEF TypeOK
    <2>3. seen'[r] <= row[Target(r)].version \/ r \in guessed'
      BY <2>2 DEF TypeOK
    <2> QED BY <2>1, <2>2, <2>3 DEF TypeOK, RowInv, AnswerInv
  <1>5. PendingInv' /\ LockInv'
    BY DEF TypeOK, PoolInv, SessionInv, RowInv, PendingInv, LockInv, AnswerInv, PoolIsClean, Free
  <1> QED BY <1>1, <1>2, <1>3, <1>4, <1>5

LEMMA ConnectsIInv == ASSUME IInv, NEW r \in Requests, Connects(r) PROVE IInv'
  <1>0. PICK c \in Free : conn' = [conn EXCEPT ![r] = c]
    BY DEF Connects
  <1> USE DEF IInv, Connects, Goes, data, TypeOK, PoolInv
  <1>1. TypeOK'
    BY <1>0 DEF Free, Places
  <1>2. PoolInv'
    BY <1>0, TasksAssumption DEF PoolIsClean, Free
  <1>3. \A q \in Requests : (Wrote(q)' <=> Wrote(q)) /\ (IsOpen(q)' <=> IsOpen(q))
    BY <1>0, TasksAssumption DEF PoolIsClean, Free, Wrote, IsOpen
  <1>4. \A q \in Requests : Wrote(q) => conn'[q] = conn[q] /\ q # r
    BY <1>0 DEF Wrote
  <1>5. SessionInv'
    BY <1>3, <1>4 DEF SessionInv, Creators
  <1>6. RowInv' /\ AnswerInv'
    BY DEF RowInv, AnswerInv, Target, Creators, Archivers
  <1>7. PendingInv' /\ LockInv'
    BY <1>3, <1>4 DEF PendingInv, LockInv, Target, Creators, Archivers
  <1> QED BY <1>1, <1>2, <1>5, <1>6, <1>7

LEMMA ConnectTimesOutIInv == ASSUME IInv, NEW r \in Requests, ConnectTimesOut(r) PROVE IInv'
  <1> USE WorkIsTyped, TasksAssumption
      DEF IInv, Workload, NewIds, ConnectTimesOut, Goes, Told, data, pool,
          Target, Creators, Archivers, Nothing, Promise!Absent, Wrote, IsOpen
  <1>1. TypeOK'
    BY DEF TypeOK, Free, Places, Answers, Promise!Created, Promise!Updated, Promise!Archived
  <1>2. PoolInv'
    BY DEF TypeOK, PoolInv, SessionInv, PoolIsClean, Free
  <1>3. SessionInv'
    BY DEF TypeOK, PoolInv, SessionInv, PoolIsClean, Free
  <1>4. RowInv' /\ AnswerInv'
    BY DEF TypeOK, RowInv, AnswerInv
  <1>5. PendingInv' /\ LockInv'
    BY DEF TypeOK, PoolInv, SessionInv, RowInv, PendingInv, LockInv, AnswerInv, PoolIsClean, Free
  <1> QED BY <1>1, <1>2, <1>3, <1>4, <1>5

LEMMA BeginsIInv == ASSUME IInv, NEW r \in Requests, Begins(r) PROVE IInv'
  <1> USE WorkIsTyped, TasksAssumption
      DEF IInv, Workload, NewIds, Begins, Goes, Told, data, pool,
          Target, Creators, Archivers, Nothing, Promise!Absent, Wrote, IsOpen
  <1>1. TypeOK'
    BY DEF TypeOK, Free, Places, Answers, Promise!Created, Promise!Updated, Promise!Archived
  <1>2. PoolInv'
    BY DEF TypeOK, PoolInv, SessionInv, PoolIsClean, Free
  <1>3. SessionInv'
    BY DEF TypeOK, PoolInv, SessionInv, PoolIsClean, Free
  <1>4. RowInv' /\ AnswerInv'
    BY DEF TypeOK, RowInv, AnswerInv
  <1>5. PendingInv' /\ LockInv'
    BY DEF TypeOK, PoolInv, SessionInv, RowInv, PendingInv, LockInv, AnswerInv, PoolIsClean, Free
  <1> QED BY <1>1, <1>2, <1>3, <1>4, <1>5

LEMMA NotSentIInv == ASSUME IInv, NEW r \in Requests, NotSent(r) PROVE IInv'
  <1>0. PICK a \in {"deadline"}, to \in {"commit", "rollback"} :
              /\ at' = [at EXCEPT ![r] = to]
              /\ IF to = "commit" THEN at[r] # "begin" /\ UNCHANGED answer
                                   ELSE answer' = [answer EXCEPT ![r] = a]
    BY RejectedMoves DEF NotSent
  <1> USE <1>0, WorkIsTyped, TasksAssumption
      DEF IInv, Workload, NewIds, NotSent, Working, Goes, Told, data, pool,
          Target, Creators, Archivers, Nothing, Promise!Absent, Wrote, IsOpen
  <1>1. TypeOK'
    BY DEF TypeOK, Free, Places, Answers, Promise!Created, Promise!Updated, Promise!Archived
  <1>2. PoolInv'
    BY DEF TypeOK, PoolInv, SessionInv, PoolIsClean, Free
  <1>3. SessionInv'
    BY DEF TypeOK, PoolInv, SessionInv, PoolIsClean, Free
  <1>4. RowInv' /\ AnswerInv'
    BY DEF TypeOK, RowInv, AnswerInv
  <1>5. PendingInv' /\ LockInv'
    BY DEF TypeOK, PoolInv, SessionInv, RowInv, PendingInv, LockInv, AnswerInv, PoolIsClean, Free
  <1> QED BY <1>1, <1>2, <1>3, <1>4, <1>5

LEMMA StatementFailsIInv == ASSUME IInv, NEW r \in Requests, StatementFails(r) PROVE IInv'
  <1>0. PICK a \in {"deadline", "error"}, to \in {"commit", "rollback"} :
              /\ at' = [at EXCEPT ![r] = to]
              /\ IF to = "commit" THEN at[r] # "begin" /\ UNCHANGED answer
                                   ELSE answer' = [answer EXCEPT ![r] = a]
    BY RejectedMoves DEF StatementFails
  <1> USE <1>0, WorkIsTyped, TasksAssumption
      DEF IInv, Workload, NewIds, StatementFails, Working, Fault, Goes, Told, data, pool,
          Target, Creators, Archivers, Nothing, Promise!Absent, Wrote, IsOpen
  <1>1. TypeOK'
    <2>1. conn[r] # None
      BY DEF PoolInv
    <2>2. server' \in [Connections -> {"idle", "open", "aborted", "lost"}]
      BY <2>1, OwnConnection DEF TypeOK
    <2>3. pending' \in [Connections -> PendingType]
      BY <2>1, OwnConnection DEF TypeOK, PendingType, RowType
    <2>4. at' \in [Requests -> Places] /\ answer' \in [Requests -> Answers \union {None}]
      BY DEF TypeOK, Places, Answers
    <2>5. faults' \in 0 .. MaxFaults
      BY DEF TypeOK
    <2> QED BY <2>2, <2>3, <2>4, <2>5 DEF TypeOK, PendingType, RowType
  <1>2. PoolInv'
    <2>1. conn[r] # None /\ at'[r] \notin {"asking", "queued", "over"}
      BY DEF PoolInv, TypeOK
    <2>2. PoolIsClean'
      <3>1. Free' = Free
        BY DEF Free
      <3>2. \A c \in Free : server'[c] = server[c] /\ pending'[c] = pending[c]
        BY <2>1, OwnConnection DEF TypeOK, Free
      <3> QED BY <3>1, <3>2 DEF PoolInv, PoolIsClean
    <2> QED BY <2>1, <2>2 DEF TypeOK, PoolInv
  <1>3. SessionInv'
    BY DEF TypeOK, PoolInv, SessionInv, PoolIsClean, Free
  <1>4. RowInv' /\ AnswerInv'
    BY DEF TypeOK, RowInv, AnswerInv
  <1>5. PendingInv' /\ LockInv'
    BY DEF TypeOK, PoolInv, SessionInv, RowInv, PendingInv, LockInv, AnswerInv, PoolIsClean, Free
  <1> QED BY <1>1, <1>2, <1>3, <1>4, <1>5

LEMMA OnLostIInv == ASSUME IInv, NEW r \in Requests, OnLost(r) PROVE IInv'
  <1>0. PICK a \in {"error"}, to \in {"commit", "rollback"} :
              /\ at' = [at EXCEPT ![r] = to]
              /\ IF to = "commit" THEN at[r] # "begin" /\ UNCHANGED answer
                                   ELSE answer' = [answer EXCEPT ![r] = a]
    BY RejectedMoves DEF OnLost
  <1> USE <1>0, WorkIsTyped, TasksAssumption
      DEF IInv, Workload, NewIds, OnLost, Working, Goes, Told, data, pool,
          Target, Creators, Archivers, Nothing, Promise!Absent, Wrote, IsOpen
  <1>1. TypeOK'
    BY DEF TypeOK, Free, Places, Answers, Promise!Created, Promise!Updated, Promise!Archived
  <1>2. PoolInv'
    BY DEF TypeOK, PoolInv, SessionInv, PoolIsClean, Free
  <1>3. SessionInv'
    BY DEF TypeOK, PoolInv, SessionInv, PoolIsClean, Free
  <1>4. RowInv'
    BY DEF TypeOK, RowInv
  <1>6. AnswerInv'
    BY DEF TypeOK, AnswerInv
  <1>5. PendingInv' /\ LockInv'
    BY DEF TypeOK, PoolInv, SessionInv, RowInv, PendingInv, LockInv, AnswerInv, PoolIsClean, Free
  <1> QED BY <1>1, <1>2, <1>3, <1>4, <1>5, <1>6

LEMMA FindsIInv == ASSUME IInv, NEW r \in Requests, Finds(r) PROVE IInv'
  <1>0. /\ at[r] = "find" /\ UNCHANGED <<conn, server, pending>>
        /\ at' = [at EXCEPT ![r] = "write"] \/ at' = [at EXCEPT ![r] = "rollback"]
    BY DEF Finds, Throws, Goes, pool
  <1> USE WorkIsTyped, TasksAssumption
      DEF IInv, Workload, NewIds, Finds, Throws, NotYetArchived, Sends, Goes, Told, data, pool,
          Target, Creators, Archivers, Nothing, Promise!Absent, Wrote, IsOpen
  <1>1. TypeOK'
    BY DEF TypeOK, Free, Places, Answers, Promise!Created, Promise!Updated, Promise!Archived
  <1>2. PoolInv'
    <2>1. PoolIsClean' /\ UNCHANGED conn
      BY <1>0 DEF PoolInv, PoolIsClean, Free
    <2>2. \A q \in Requests :
             at'[q] \in {"asking", "queued", "over"} <=> at[q] \in {"asking", "queued", "over"}
      BY <1>0 DEF TypeOK
    <2> QED BY <2>1, <2>2 DEF PoolInv
  <1>3. SessionInv'
    BY DEF TypeOK, PoolInv, SessionInv, PoolIsClean, Free
  <1>4. RowInv'
    BY DEF TypeOK, SessionInv, RowInv
  <1>6. AnswerInv'
    BY ZenonT(60) DEF TypeOK, AnswerInv
  <1>5. PendingInv' /\ LockInv'
    BY DEF TypeOK, PoolInv, SessionInv, RowInv, PendingInv, LockInv, AnswerInv, PoolIsClean, Free
  <1> QED BY <1>1, <1>2, <1>3, <1>4, <1>5, <1>6

LEMMA CommitRefusedIInv == ASSUME IInv, NEW r \in Requests, CommitRefused(r) PROVE IInv'
  <1> USE WorkIsTyped, TasksAssumption
      DEF IInv, Workload, NewIds, CommitRefused, Throws, Goes, Told, data, pool,
          Target, Creators, Archivers, Nothing, Promise!Absent, Wrote, IsOpen
  <1>1. TypeOK'
    BY DEF TypeOK, Free, Places, Answers, Promise!Created, Promise!Updated, Promise!Archived
  <1>2. PoolInv'
    BY DEF TypeOK, PoolInv, SessionInv, PoolIsClean, Free
  <1>3. SessionInv'
    BY DEF TypeOK, PoolInv, SessionInv, PoolIsClean, Free
  <1>4. RowInv'
    BY DEF TypeOK, RowInv
  <1>6. AnswerInv'
    BY DEF TypeOK, AnswerInv
  <1>5. PendingInv' /\ LockInv'
    BY DEF TypeOK, PoolInv, SessionInv, RowInv, PendingInv, LockInv, AnswerInv, PoolIsClean, Free
  <1> QED BY <1>1, <1>2, <1>3, <1>4, <1>5, <1>6

LEMMA CommitFailsIInv == ASSUME IInv, NEW r \in Requests, CommitFails(r) PROVE IInv'
  <1> USE WorkIsTyped, TasksAssumption
      DEF IInv, Workload, NewIds, CommitFails, Throws, Goes, Told, data, pool,
          Target, Creators, Archivers, Nothing, Promise!Absent, Wrote, IsOpen
  <1>1. TypeOK'
    BY DEF TypeOK, Free, Places, Answers, Promise!Created, Promise!Updated, Promise!Archived
  <1>2. PoolInv'
    <2>1. at' = [at EXCEPT ![r] = "rollback"]
      OBVIOUS
    <2>2. PoolIsClean'
      BY DEF PoolInv, PoolIsClean, Free
    <2> QED BY <2>1, <2>2 DEF TypeOK, PoolInv
  <1>3. SessionInv'
    BY DEF TypeOK, PoolInv, SessionInv, PoolIsClean, Free
  <1>4. RowInv'
    BY DEF TypeOK, RowInv
  <1>6. AnswerInv'
    BY DEF TypeOK, AnswerInv
  <1>5. PendingInv' /\ LockInv'
    BY DEF TypeOK, PoolInv, SessionInv, RowInv, PendingInv, LockInv, AnswerInv, PoolIsClean, Free
  <1> QED BY <1>1, <1>2, <1>3, <1>4, <1>5, <1>6

LEMMA RollsBackIInv == ASSUME IInv, NEW r \in Requests, RollsBack(r) PROVE IInv'
  <1> USE WorkIsTyped, TasksAssumption
      DEF IInv, Workload, NewIds, RollsBack, Undoes, Releases, Goes, Told, data, pool,
          Target, Creators, Archivers, Nothing, Promise!Absent, Wrote, IsOpen
  <1>1. TypeOK'
    BY DEF TypeOK, Free, Places, Answers, Promise!Created, Promise!Updated, Promise!Archived
  <1>2. PoolInv'
    BY DEF TypeOK, PoolInv, SessionInv, PoolIsClean, Free
  <1>3. SessionInv'
    BY DEF TypeOK, PoolInv, SessionInv, PoolIsClean, Free
  <1>4. RowInv'
    BY DEF TypeOK, RowInv
  <1>6. AnswerInv'
    BY DEF TypeOK, AnswerInv
  <1>5. PendingInv' /\ LockInv'
    BY DEF TypeOK, PoolInv, SessionInv, RowInv, PendingInv, LockInv, AnswerInv, PoolIsClean, Free
  <1> QED BY <1>1, <1>2, <1>3, <1>4, <1>5, <1>6

LEMMA BudgetRunsOutIInv == ASSUME IInv, NEW r \in Requests, BudgetRunsOut(r) PROVE IInv'
  <1> USE WorkIsTyped, TasksAssumption
      DEF IInv, Workload, NewIds, BudgetRunsOut, Goes, Told, data, pool,
          Target, Creators, Archivers, Nothing, Promise!Absent, Wrote, IsOpen
  <1>1. TypeOK'
    BY DEF TypeOK, Free, Places, Answers, Promise!Created, Promise!Updated, Promise!Archived
  <1>2. PoolInv'
    BY DEF TypeOK, PoolInv, SessionInv, PoolIsClean, Free
  <1>3. SessionInv'
    BY DEF TypeOK, PoolInv, SessionInv, PoolIsClean, Free
  <1>4. RowInv'
    BY DEF TypeOK, RowInv
  <1>6. AnswerInv'
    BY DEF TypeOK, AnswerInv
  <1>5. PendingInv' /\ LockInv'
    BY DEF TypeOK, PoolInv, SessionInv, RowInv, PendingInv, LockInv, AnswerInv, PoolIsClean, Free
  <1> QED BY <1>1, <1>2, <1>3, <1>4, <1>5, <1>6

LEMMA ConnectionLostIInv == ASSUME IInv, NEW r \in Requests, ConnectionLost(r) PROVE IInv'
  <1> USE WorkIsTyped, TasksAssumption
      DEF IInv, Workload, NewIds, ConnectionLost, Fault, Goes, Told, data, pool,
          Target, Creators, Archivers, Nothing, Promise!Absent, Wrote, IsOpen
  <1>1. TypeOK'
    BY DEF TypeOK, Free, Places, Answers, Promise!Created, Promise!Updated, Promise!Archived
  <1>2. PoolInv'
    BY DEF TypeOK, PoolInv, SessionInv, PoolIsClean, Free
  <1>3. SessionInv'
    BY DEF TypeOK, PoolInv, SessionInv, PoolIsClean, Free
  <1>4. RowInv'
    BY DEF TypeOK, RowInv
  <1>6. AnswerInv'
    BY DEF TypeOK, AnswerInv
  <1>5. PendingInv' /\ LockInv'
    BY DEF TypeOK, PoolInv, SessionInv, RowInv, PendingInv, LockInv, AnswerInv, PoolIsClean, Free
  <1> QED BY <1>1, <1>2, <1>3, <1>4, <1>5, <1>6

LEMMA InsertsIInv == ASSUME IInv, NEW r \in Requests, Inserts(r) PROVE IInv'
  <1> USE WorkIsTyped, TasksAssumption
      DEF IInv, Workload, NewIds, Inserts, Sends, Pends, Goes, Told, data, pool,
          Target, Creators, Archivers, Nothing, Promise!Absent, Wrote, IsOpen
  <1>1. TypeOK'
    BY DEF TypeOK, Free, Places, Answers, Promise!Created, Promise!Updated, Promise!Archived
  <1>2. PoolInv'
    BY ZenonT(60) DEF TypeOK, PoolInv, SessionInv, PoolIsClean, Free
  <1>3. SessionInv'
    BY DEF TypeOK, PoolInv, SessionInv, Promise!Created
  <1>4. RowInv'
    BY DEF TypeOK, RowInv
  <1>6. AnswerInv'
    BY DEF TypeOK, AnswerInv
  <1>5. PendingInv' /\ LockInv'
    BY DEF TypeOK, PoolInv, SessionInv, RowInv, PendingInv, LockInv, AnswerInv, PoolIsClean, Free
  <1> QED BY <1>1, <1>2, <1>3, <1>4, <1>5, <1>6

LEMMA AddsEventIInv == ASSUME IInv, NEW r \in Requests, AddsEvent(r) PROVE IInv'
  <1> USE WorkIsTyped, TasksAssumption
      DEF IInv, Workload, NewIds, AddsEvent, Sends, Goes, Told, data, pool,
          Target, Creators, Archivers, Nothing, Promise!Absent, Wrote, IsOpen
  <1>1. TypeOK'
    BY ZenonT(60) DEF TypeOK, Free, Places, Answers, Promise!Created, Promise!Updated, Promise!Archived
  <1>2. PoolInv'
    BY ZenonT(60) DEF TypeOK, PoolInv, SessionInv, PoolIsClean, Free
  <1>3. SessionInv'
    BY DEF TypeOK, PoolInv, SessionInv, PoolIsClean, Free
  <1>4. RowInv'
    BY DEF TypeOK, RowInv
  <1>6. AnswerInv'
    BY DEF TypeOK, AnswerInv
  <1>5. PendingInv' /\ LockInv'
    BY DEF TypeOK, PoolInv, SessionInv, RowInv, PendingInv, LockInv, AnswerInv, PoolIsClean, Free
  <1> QED BY <1>1, <1>2, <1>3, <1>4, <1>5, <1>6

LEMMA UpdatesIInv == ASSUME IInv, NEW r \in Requests, Updates(r) PROVE IInv'
  <1> USE DEF IInv, data
  <1>0. /\ conn[r] \in Connections /\ conn[r] # None /\ at[r] = "write" /\ r \notin Creators
        /\ server[conn[r]] = "open" /\ ~Wrote(r) /\ Target(r) \in Tasks /\ r \notin applied
    BY OwnConnection, WorkIsTyped
       DEF Updates, Sends, PoolInv, SessionInv, AnswerInv, Target, Workload
  <1>1. CASE ~VersionMatches(r)
    <2> USE <1>0, <1>1 DEF Updates, Throws, Goes, Told, TypeOK, Wrote, IsOpen
    <2>1. TypeOK'
      BY DEF Places, Answers
    <2>2. PoolInv'
      BY DEF PoolInv, PoolIsClean, Free
    <2>6. SessionInv'
      BY DEF SessionInv, Creators
    <2>3. RowInv'
      BY DEF RowInv, Target, Creators, Archivers
    <2>4. PendingInv' /\ LockInv'
      BY DEF PendingInv, LockInv, Target, Creators, Archivers
    <2>5. AnswerInv'
      BY DEF AnswerInv
    <2> QED BY <2>1, <2>2, <2>3, <2>4, <2>5, <2>6
  <1>2. CASE VersionMatches(r)
    <2> DEFINE old == row[Target(r)]
               new == IF r \in Archivers THEN Promise!Archived(old) ELSE Promise!Updated(old)
    <2>1. /\ old \in RowType /\ new \in RowType /\ new.version = old.version + 1
          /\ old # Promise!Absent /\ seen[r] = old.version
          /\ r \in Archivers => old.status = "ACTIVE" \/ r \in guessed
      BY <1>0, <1>2 DEF TypeOK, RowType, RowInv, VersionMatches, Promise!Archived, Promise!Updated
    <2> HIDE DEF old, new
    <2>2. /\ pending' = [pending EXCEPT ![conn[r]] = [row |-> new, event |-> FALSE]]
          /\ at' = [at EXCEPT ![r] = "commit"]
          /\ UNCHANGED <<data, conn, server, answer, spent, faults>>
      BY <1>2 DEF Updates, Pends, Goes, old, new
    <2>3. \A q \in Requests : q # r /\ Wrote(q) => Target(q) # Target(r)
      BY DEF Updates, Locked, Wrote
    <2>4. [row |-> new, event |-> FALSE] # Nothing
      BY <2>1 DEF RowType, Nothing, Promise!Absent
    <2>5. \A q \in Requests :
            /\ IsOpen(q)' <=> IsOpen(q)
            /\ q # r => (Wrote(q)' <=> Wrote(q)) /\ (Wrote(q) => pending'[conn[q]] = pending[conn[q]])
      BY <1>0, <2>2 DEF Wrote, IsOpen, TypeOK, PoolInv
    <2>6. Wrote(r)' /\ pending'[conn[r]] = [row |-> new, event |-> FALSE]
      BY <1>0, <2>2, <2>4 DEF Wrote, TypeOK
    <2>7. TypeOK'
      BY <2>1, <2>2 DEF TypeOK, Places, RowType
    <2>8. PoolInv'
      <3>1. Free' = Free
        BY <2>2 DEF Free
      <3>2. \A c \in Free : pending'[c] = pending[c]
        BY <1>0, <2>2, OwnConnection DEF TypeOK, Free
      <3>3. PoolIsClean'
        BY <2>2, <3>1, <3>2 DEF PoolInv, PoolIsClean
      <3> QED BY <1>0, <2>2, <3>3 DEF PoolInv, TypeOK
    <2>9. SessionInv'
      BY <1>0, <2>2, <2>5, <2>6 DEF SessionInv, Creators, TypeOK, IsOpen
    <2>10. RowInv'
      BY <1>0, <2>2 DEF RowInv, Target, Creators, Archivers, TypeOK
    <2>11. PendingInv'
      BY <1>0, <2>1, <2>2, <2>5, <2>6 DEF PendingInv, Target, Creators, Archivers, TypeOK, old, new
    <2>12. LockInv'
      BY <2>2, <2>3, <2>5 DEF LockInv, Target
    <2>13. AnswerInv'
      BY <1>0, <2>2 DEF AnswerInv, TypeOK
    <2> QED BY <2>7, <2>8, <2>9, <2>10, <2>11, <2>12, <2>13
  <1> QED BY <1>1, <1>2

\* COMMIT of an open transaction: the row takes its step, and the sessions of the
\* others, which work on other tasks or have not written, are as they were.
LEMMA AppliesIInv ==
    ASSUME IInv, NEW r \in Requests, at[r] = "commit", Sends(r), Applies(r),
           NEW to \in {"rollback", "over"}, at' = [at EXCEPT ![r] = to],
           conn' = IF to = "over" THEN [conn EXCEPT ![r] = None] ELSE conn,
           NEW after \in {"idle", "lost"}, server' = [server EXCEPT ![conn[r]] = after],
           to = "over" => after = "idle",
           NEW a \in {"ok", "error"}, answer' = [answer EXCEPT ![r] = a],
           to = "rollback" => a = "error",
           spent' = spent, faults' \in 0 .. MaxFaults
    PROVE  IInv'
  <1> DEFINE T == Target(r)
             x == pending[conn[r]]
  <1> USE DEF IInv
  <1>1. conn[r] \in Connections /\ conn[r] # None /\ conn[r] \notin Free
    BY OwnConnection DEF PoolInv
  <1>2. Wrote(r) /\ IsOpen(r) /\ (r \in Creators => x.event)
    BY <1>1 DEF Sends, SessionInv, IsOpen
  <1>3. /\ T \in Tasks /\ x.row \in RowType /\ x.row.version = row[T].version + 1
        /\ r \notin applied
    <2>1. T \in Tasks /\ row[T] \in RowType
      BY WorkIsTyped DEF TypeOK, RowType, Workload, Target
    <2>2. x.row \in RowType
      BY <1>1 DEF TypeOK, RowType
    <2>3. r \notin applied
      BY <1>2 DEF PendingInv
    <2>4. CASE r \in Creators
      BY <1>2, <2>1, <2>2, <2>3, <2>4 DEF PendingInv, RowInv, Promise!Absent, Promise!Created
    <2>5. CASE r \notin Creators
      <3>1. x.row = Promise!Updated(row[T]) \/ x.row = Promise!Archived(row[T])
        BY <1>2, <2>5 DEF PendingInv
      <3> QED BY <2>1, <2>2, <2>3, <3>1 DEF RowType, Promise!Updated, Promise!Archived
    <2> QED BY <2>4, <2>5
  <1> HIDE DEF T
  <1>4. /\ row' = [row EXCEPT ![T] = x.row] /\ applied' = applied \union {r}
        /\ pending' = [pending EXCEPT ![conn[r]] = Nothing]
        /\ work' = work /\ seen' = seen /\ guessed' = guessed
    BY <1>2 DEF Applies, Wrote, T
  <1>5. \A q \in Requests : q # r =>
          /\ Wrote(q)' <=> Wrote(q)
          /\ IsOpen(q)' <=> IsOpen(q)
          /\ Wrote(q) => pending'[conn'[q]] = pending[conn[q]] /\ Target(q) # T
    BY <1>1, <1>2, <1>4 DEF TypeOK, PoolInv, LockInv, Wrote, IsOpen, T
  <1>6. ~Wrote(r)' /\ ~IsOpen(r)'
    BY <1>1, <1>4 DEF TypeOK, Wrote, IsOpen
  <1>7. TypeOK'
    <2>1. Nothing \in PendingType
      BY DEF Nothing, PendingType, RowType, Promise!Absent
    <2>2. pending' \in [Connections -> PendingType] /\ row' \in [Tasks -> RowType]
      BY <1>1, <1>3, <1>4, <2>1 DEF TypeOK, PendingType, RowType
    <2>3. events' \subseteq Tasks
      BY <1>3 DEF TypeOK, Applies, T
    <2>4. /\ at' \in [Requests -> Places] /\ conn' \in [Requests -> Connections \union {None}]
          /\ server' \in [Connections -> {"idle", "open", "aborted", "lost"}]
          /\ answer' \in [Requests -> Answers \union {None}]
      BY <1>1 DEF TypeOK, Places, Answers
    <2> QED BY <1>4, <2>2, <2>3, <2>4 DEF TypeOK, PendingType, RowType
  <1>8. PoolInv'
    <2>1. \A c \in Connections : c # conn[r] => server'[c] = server[c] /\ pending'[c] = pending[c]
      BY <1>4 DEF TypeOK
    <2>2. to = "over" => server'[conn[r]] = "idle" /\ pending'[conn[r]] = Nothing
      BY <1>1, <1>4 DEF TypeOK
    <2>3. Free' \subseteq IF to = "over" THEN Free \union {conn[r]} ELSE Free
      BY <1>1 DEF Free, TypeOK, PoolInv
    <2>4. PoolIsClean'
      BY <1>1, <2>1, <2>2, <2>3 DEF PoolInv, PoolIsClean, Free
    <2> QED BY <1>1, <2>4 DEF TypeOK, PoolInv
  <1>9. SessionInv'
    BY <1>4, <1>5, <1>6, <1>8 DEF TypeOK, SessionInv, Creators, Wrote, IsOpen, PoolInv
  <1>10. RowInv'
    <2>1. \A q \in Creators : q # r /\ q \notin applied => Target(q) # T
      BY <1>2, WorkIsTyped DEF NewIds, Creators, Target, T, PendingInv, RowInv
    <2> QED BY <1>3, <1>4, <2>1
       DEF TypeOK, RowInv, Target, Creators, Archivers, RowType, Promise!Absent, T
  <1>11. PendingInv'
    BY <1>3, <1>4, <1>5, <1>6 DEF TypeOK, PendingInv, Target, Creators, Archivers, T
  <1>12. LockInv'
    BY <1>4, <1>5, <1>6 DEF LockInv, Target
  <1>13. AnswerInv'
    BY <1>3, <1>4 DEF TypeOK, AnswerInv
  <1> QED BY <1>7, <1>8, <1>9, <1>10, <1>11, <1>12, <1>13

LEMMA CommitsIInv == ASSUME IInv, NEW r \in Requests, Commits(r) PROVE IInv'
  BY AppliesIInv DEF Commits, Releases, Goes, Told, IInv, TypeOK

LEMMA CommitAnswerLostIInv == ASSUME IInv, NEW r \in Requests, CommitAnswerLost(r) PROVE IInv'
  <1>1. faults' \in 0 .. MaxFaults
    BY TasksAssumption DEF CommitAnswerLost, Fault, IInv, TypeOK
  <1> QED BY <1>1, AppliesIInv DEF CommitAnswerLost, Throws, Goes, Told

LEMMA InitIInv == Init => IInv
  <1> SUFFICES ASSUME Init PROVE IInv
    OBVIOUS
  <1> USE TasksAssumption DEF Init
  <1>1. TypeOK
    BY DEF TypeOK, Workload, Places, Nothing, Promise!Absent, Promise!Created
  <1>2. \A r \in Requests : at[r] \in {"asking", "queued"} /\ ~Wrote(r)
    BY DEF Wrote
  <1>3. PoolInv
    BY <1>2 DEF PoolInv, PoolIsClean, Free
  <1>4. SessionInv
    BY <1>2 DEF SessionInv
  <1>5. RowInv
    <2>1. \A t \in Tasks : row[t] = Promise!Absent \/ row[t].version > 0
      BY DEF Promise!Created
    <2>2. \A r \in Creators : row[Target(r)] = Promise!Absent
      BY <1>1, WorkIsTyped DEF Workload, Target, Creators, Exists
    <2>3. \A r \in Requests : seen[r] <= row[Target(r)].version \/ r \in guessed
      BY <1>1, WorkIsTyped DEF Workload, Target, TypeOK
    <2> QED BY <1>2, <2>1, <2>2, <2>3 DEF RowInv
  <1>6. PendingInv /\ LockInv /\ AnswerInv
    BY <1>2 DEF PendingInv, LockInv, AnswerInv
  <1> QED BY <1>1, <1>3, <1>4, <1>5, <1>6 DEF IInv

LEMMA NextIInv == IInv /\ [Next]_vars => IInv'
  <1> SUFFICES ASSUME IInv, [Next]_vars PROVE IInv'
    OBVIOUS
  <1>1. ASSUME NEW r \in Requests, Step(r) PROVE IInv'
    BY <1>1, AsksIInv, ConnectsIInv, ConnectTimesOutIInv, BeginsIInv, FindsIInv, InsertsIInv,
       AddsEventIInv, UpdatesIInv, NotSentIInv, StatementFailsIInv, OnLostIInv, CommitsIInv,
       CommitAnswerLostIInv, CommitRefusedIInv, CommitFailsIInv, RollsBackIInv DEF Step
  <1>2. ASSUME NEW r \in Requests, BudgetRunsOut(r) \/ ConnectionLost(r) PROVE IInv'
    BY <1>2, BudgetRunsOutIInv, ConnectionLostIInv
  <1>3. CASE UNCHANGED vars
    BY <1>3 DEF vars, data, pool, IInv, TypeOK, PoolInv, PoolIsClean, SessionInv, RowInv, PendingInv,
                LockInv, AnswerInv, Wrote, IsOpen, Free, Target, Creators, Archivers
  <1> QED BY <1>1, <1>2, <1>3 DEF Next

LEMMA Invariance == Spec => []IInv
  BY InitIInv, NextIInv, PTL DEF Spec

\* A 2xx is only told of a committed write, and a 404, 409 or 504 only of one that
\* was not, whatever a handler catches and wherever the budget or the connection ends.
THEOREM AnswersTellTheTruth == Spec => []AnswersAreTrue
  <1>1. IInv => AnswersAreTrue
    BY DEF IInv, AnswerInv, AnswersAreTrue
  <1> QED BY <1>1, Invariance, PTL

\* runInTransaction gives every connection back outside a transaction, without locks.
THEOREM ConnectionsComeBackClean == Spec => []PoolIsClean
  <1>1. IInv => PoolIsClean
    BY DEF IInv, PoolInv
  <1> QED BY <1>1, Invariance, PTL

------------------------------------------------------------------------------
(* The refinement.                                                         *)

LEMMA RefinementInit == Init => Promise!Init
  BY DEF Init, Promise!Init, Promise!Absent, Promise!Created, Exists

PromiseVars == <<row, events, seen, guessed, applied, applied \intersect Archivers>>

\* What COMMIT applies is a Creates or a Writes of the promise, by PendingInv.
LEMMA AppliesRefines ==
    ASSUME IInv, NEW r \in Requests, at[r] = "commit", Sends(r), Applies(r)
    PROVE  Promise!Next
  <1> DEFINE x == pending[conn[r]]
  <1> USE DEF IInv
  <1>1. conn[r] # None /\ Target(r) \in Tasks
    BY WorkIsTyped DEF PoolInv, Workload, Target
  <1>2. Wrote(r) /\ (r \in Creators => x.event)
    BY <1>1 DEF Sends, SessionInv, IsOpen
  <1>3. /\ row' = [row EXCEPT ![Target(r)] = x.row] /\ applied' = applied \union {r}
        /\ events' = IF x.event THEN events \union {Target(r)} ELSE events
        /\ work' = work /\ seen' = seen /\ guessed' = guessed /\ r \notin applied
    BY <1>2 DEF Applies, Wrote, PendingInv
  <1>4. (applied \intersect Archivers)' =
            (applied \intersect Archivers) \union (IF r \in Archivers THEN {r} ELSE {})
    BY <1>3 DEF Archivers
  <1>5. CASE r \in Creators
    <2>1. r \notin Archivers
      BY <1>5 DEF Creators, Archivers
    <2>2. row[Target(r)] = Promise!Absent /\ x.row = Promise!Created
      BY <1>2, <1>3, <1>5 DEF PendingInv, RowInv
    <2>3. Promise!Creates(r, Target(r))
      BY <1>2, <1>3, <1>4, <1>5, <2>1, <2>2 DEF Promise!Creates
    <2> QED BY <1>1, <2>3 DEF Promise!Next
  <1>6. CASE r \notin Creators
    <2>1. Promise!Writes(r, Target(r))
      BY <1>2, <1>3, <1>4, <1>6 DEF Promise!Writes, PendingInv
    <2> QED BY <1>1, <2>1 DEF Promise!Next
  <1> QED BY <1>5, <1>6

LEMMA NamesAVersion == ASSUME TypeOK, NEW r \in Requests PROVE Named(r) \in Versions /\ Named(r) \in Nat \ {0}
  BY WorkIsTyped, TasksAssumption DEF Workload, Named

LEMMA AsksRefines == ASSUME IInv, NEW r \in Requests, Asks(r) PROVE Promise!Next
  <1>1. Target(r) \in Tasks /\ UNCHANGED <<row, events, applied, work>>
    BY WorkIsTyped DEF IInv, Workload, Target, Asks
  <1>2. UNCHANGED (applied \intersect Archivers)
    BY <1>1 DEF Archivers
  <1>3. Promise!Names(r, Target(r))
    BY <1>1, <1>2, NamesAVersion DEF IInv, Asks, Promise!Names
  <1> QED BY <1>1, <1>3 DEF Promise!Next

LEMMA StepRefines == IInv /\ [Next]_vars => [Promise!Next]_PromiseVars
  <1> SUFFICES ASSUME IInv, [Next]_vars PROVE Promise!Next \/ UNCHANGED PromiseVars
    OBVIOUS
  <1>1. CASE UNCHANGED data
    BY <1>1 DEF data, PromiseVars, Archivers
  <1>2. ASSUME NEW r \in Requests, Step(r), ~UNCHANGED data PROVE Promise!Next \/ UNCHANGED PromiseVars
    <2>1. Asks(r) \/ Commits(r) \/ CommitAnswerLost(r)
      BY <1>2 DEF Step, Connects, ConnectTimesOut, Begins, Finds, Inserts, AddsEvent, Updates, NotSent,
                  StatementFails, OnLost, CommitRefused, CommitFails, RollsBack
    <2> QED BY <2>1, AsksRefines, AppliesRefines DEF Commits, CommitAnswerLost
  <1>3. CASE (\E r \in Requests : BudgetRunsOut(r) \/ ConnectionLost(r)) \/ UNCHANGED vars
    <2>1. UNCHANGED data
      BY <1>3 DEF BudgetRunsOut, ConnectionLost, vars
    <2> QED BY <1>1, <2>1
  <1> QED BY <1>1, <1>2, <1>3 DEF Next

\* The tasks module implements VersionedTasks: for any number of concurrent requests,
\* failures and budgets, and whatever versions the requests name, no update is lost, a
\* task's row and its event are written together, and a task is archived once by those
\* that name a version issued before.
THEOREM TasksKeepThePromise == Spec => KeepsThePromise
  BY RefinementInit, StepRefines, Invariance, PTL DEF Spec, KeepsThePromise, Promise!Spec, PromiseVars

==============================================================================
