-------------------------------- MODULE Tasks --------------------------------
(***************************************************************************)
(* The writes of the tasks module (apps/api): TaskUseCase over             *)
(* SqlTaskRepository and OutboxWriter, in a PgUnitOfWork on the pool of    *)
(* packages/database, under a request budget (pg-deadline.ts).             *)
(*                                                                         *)
(* A request holds one connection from BEGIN to release.  Postgres is read *)
(* committed: a statement sees what is committed when it starts, an UPDATE *)
(* waits for the row's lock and looks at the row again.  A statement may   *)
(* fail, be cancelled or not be sent for want of budget, or take its       *)
(* connection with it.                                                     *)
(***************************************************************************)
EXTENDS Naturals, FiniteSets

CONSTANTS
    Tasks,
    Requests,
    Versions,    \* what expectedVersion may be
    Workloads,   \* what the requests may ask for: see Workload
    Careless,    \* those in whose work somebody catches a failed statement
    Connections, \* DATABASE_POOL_MAX of them
    MaxFaults,   \* bound: failed statements, lost connections and answers
    None

Workload == [Requests -> [kind : {"create", "update", "archive"}, task : Tasks, names : Versions]]

\* generateId() never gives an id twice.
NewIds(w) ==
    \A r, q \in Requests :
        w[r].kind = "create" /\ w[q].kind = "create" /\ w[r].task = w[q].task => r = q

ASSUME TasksAssumption ==
    /\ \A w \in Workloads : w \in Workload /\ NewIds(w)
    /\ Versions \subseteq Nat \ {0} /\ MaxFaults \in Nat /\ None \notin Connections

VARIABLES
    work,     \* the workload
    row, events, seen, guessed,  \* as in VersionedTasks; seen is the body's expectedVersion
    at,       \* where each request is
    conn,     \* the connection it holds
    server,   \* the session of each connection: idle, open, aborted, lost
    pending,  \* what its open transaction has written
    answer,   \* what the client is told
    applied,  \* history: the requests whose write was committed
    spent,    \* the requests whose budget has run out
    faults

data == <<work, row, events, seen, guessed, applied>>
pool == <<conn, server, pending>>
vars == <<data, at, pool, answer, spent, faults>>

Target(r)   == work[r].task
Named(r)    == work[r].names
Creators    == {r \in Requests : work[r].kind = "create"}
Archivers   == {r \in Requests : work[r].kind = "archive"}

Promise == INSTANCE VersionedTasks WITH done <- applied, ended <- applied \intersect Archivers

Nothing == [row |-> Promise!Absent, event |-> FALSE]
Places  == {"asking", "queued", "begin", "find", "write", "event", "commit", "rollback", "over"}
Answers == {"ok", "not_found", "archived", "conflict", "deadline", "error"}

TypeOK ==
    /\ work \in Workloads
    /\ row \in [Tasks -> [version : Nat, status : {"ACTIVE", "ARCHIVED"}]]
    /\ events \subseteq Tasks /\ seen \in [Requests -> Nat] /\ guessed \subseteq Requests
    /\ at \in [Requests -> Places]
    /\ conn \in [Requests -> Connections \union {None}]
    /\ server \in [Connections -> {"idle", "open", "aborted", "lost"}]
    /\ pending \in [Connections -> [row : [version : Nat, status : {"ACTIVE", "ARCHIVED"}], event : BOOLEAN]]
    /\ answer \in [Requests -> Answers \union {None}]
    /\ applied \subseteq Requests /\ spent \subseteq Requests
    /\ faults \in 0 .. MaxFaults

Exists(t) == \A r \in Creators : Target(r) # t

Init ==
    /\ work \in Workloads
    /\ row = [t \in Tasks |-> IF Exists(t) THEN Promise!Created ELSE Promise!Absent]
    /\ events = {} /\ seen = [r \in Requests |-> 0] /\ guessed = {}
    /\ at = [r \in Requests |-> IF r \in Creators THEN "queued" ELSE "asking"]
    /\ conn = [r \in Requests |-> None]
    /\ server = [c \in Connections |-> "idle"]
    /\ pending = [c \in Connections |-> Nothing]
    /\ answer = [r \in Requests |-> None]
    /\ applied = {} /\ spent = {} /\ faults = 0

Fault == faults < MaxFaults /\ faults' = faults + 1
Goes(r, pc) == at' = [at EXCEPT ![r] = pc]

Free == {c \in Connections : \A r \in Requests : conn[r] # c}

------------------------------------------------------------------------------
(* TasksController, TaskQueryService and the budget.                       *)

\* PATCH or archive with an expectedVersion, any integer the schema takes: the one a GET
\* showed, by now the latest or not, or one that nobody has been shown yet.
Asks(r) ==
    /\ at[r] = "asking"
    /\ seen' = [seen EXCEPT ![r] = Named(r)]
    /\ guessed' = IF Named(r) > row[Target(r)].version THEN guessed \union {r} ELSE guessed
    /\ Goes(r, "queued")
    /\ UNCHANGED <<work, row, events, applied, pool, answer, spent, faults>>

\* min(the caller's header, HTTP_REQUEST_TIMEOUT_MS) has passed.
BudgetRunsOut(r) ==
    /\ at[r] \notin {"asking", "over"} /\ r \notin spent
    /\ spent' = spent \union {r}
    /\ UNCHANGED <<data, at, pool, answer, faults>>

------------------------------------------------------------------------------
(* PgUnitOfWork.runInTransaction.                                          *)

Told(r, a) == answer' = [answer EXCEPT ![r] = a]

\* pool.connect(): the repository and the outbox join this transaction later, so a
\* request never waits for a second connection.
Connects(r) ==
    /\ at[r] = "queued"
    /\ \E c \in Free : conn' = [conn EXCEPT ![r] = c]
    /\ Goes(r, "begin")
    /\ UNCHANGED <<data, server, pending, answer, spent, faults>>

\* connectionTimeoutMillis.
ConnectTimesOut(r) ==
    /\ at[r] = "queued" /\ Free = {}
    /\ Goes(r, "over") /\ Told(r, "error")
    /\ UNCHANGED <<data, pool, spent, faults>>

\* Mutant: the repository and the outbox take connections of their own.
SendsOnAnother(r) == r \notin spent /\ server[conn[r]] = "open" /\ Free # {}

\* A statement of r that is sent and comes back: BEGIN with SET LOCAL
\* statement_timeout, and those of the work.
Sends(r) == r \notin spent /\ server[conn[r]] = "open"

Begins(r) ==
    /\ at[r] = "begin" /\ r \notin spent /\ server[conn[r]] = "idle"
    /\ server' = [server EXCEPT ![conn[r]] = "open"]
    /\ Goes(r, IF r \in Creators THEN "write" ELSE "find")
    /\ UNCHANGED <<data, conn, pending, answer, spent, faults>>

\* The error leaves fn, or somebody in fn catches it and fn returns.
Throws(r, a) == Goes(r, "rollback") /\ Told(r, a)
Rejected(r, a) ==
    IF r \in Careless /\ at[r] # "begin" THEN Goes(r, "commit") /\ UNCHANGED answer ELSE Throws(r, a)

Working(r) == at[r] \in {"begin", "find", "write", "event"}

\* guard(): nothing is sent once the budget is spent.
NotSent(r) ==
    /\ Working(r) /\ r \in spent
    /\ Rejected(r, "deadline")
    /\ UNCHANGED <<data, pool, spent, faults>>

\* A statement fails on the server, the transaction is aborted: statement_timeout
\* cancelled it, or it was refused.
StatementFails(r) ==
    /\ Working(r)
    /\ server[conn[r]] = "open" /\ Fault
    /\ server' = [server EXCEPT ![conn[r]] = "aborted"]
    /\ pending' = [pending EXCEPT ![conn[r]] = Nothing]
    /\ \E a \in {"deadline", "error"} : Rejected(r, a)
    /\ UNCHANGED <<data, conn, spent>>

\* The connection breaks, under a statement, COMMIT or ROLLBACK.
ConnectionLost(r) ==
    /\ conn[r] # None /\ server[conn[r]] # "lost" /\ Fault
    /\ server' = [server EXCEPT ![conn[r]] = "lost"]
    /\ pending' = [pending EXCEPT ![conn[r]] = Nothing]
    /\ UNCHANGED <<data, at, conn, answer, spent>>
OnLost(r) ==
    /\ Working(r) /\ server[conn[r]] = "lost"
    /\ Rejected(r, "error")
    /\ UNCHANGED <<data, pool, spent, faults>>

------------------------------------------------------------------------------
(* TaskUseCase.create, update and archive: what runs in the transaction.   *)

NotYetArchived(r) == r \in Archivers => row[Target(r)].status = "ACTIVE"

\* repo.findById, and what the use case makes of it.
Finds(r) ==
    /\ at[r] = "find" /\ Sends(r)
    /\ IF row[Target(r)] = Promise!Absent THEN Throws(r, "not_found")
       ELSE IF NotYetArchived(r) THEN Goes(r, "write") /\ UNCHANGED answer
       ELSE Throws(r, "archived")
    /\ UNCHANGED <<data, pool, spent, faults>>

Locked(t) == \E r \in Requests : conn[r] # None /\ Target(r) = t /\ pending[conn[r]] # Nothing

Pends(r, x) == pending' = [pending EXCEPT ![conn[r]] = [row |-> x, event |-> FALSE]]

Inserts(r) ==
    /\ at[r] = "write" /\ r \in Creators /\ Sends(r)
    /\ Pends(r, Promise!Created)
    /\ Goes(r, "event")
    /\ UNCHANGED <<data, conn, server, answer, spent, faults>>

\* OutboxWriter.add, in the transaction of the task.
AddsEvent(r) ==
    /\ at[r] = "event" /\ Sends(r)
    /\ pending' = [pending EXCEPT ![conn[r]].event = TRUE]
    /\ Goes(r, "commit")
    /\ UNCHANGED <<data, conn, server, answer, spent, faults>>

\* Mutant: UPDATE ... WHERE id = $1.
AnyVersion(r) == TRUE

VersionMatches(r) == row[Target(r)].version = seen[r]

\* repo.update and archive: UPDATE ... WHERE id AND version, behind the row's lock; no
\* row means that the task has moved on.
Updates(r) ==
    /\ at[r] = "write" /\ r \notin Creators /\ Sends(r) /\ ~Locked(Target(r))
    /\ IF VersionMatches(r)
       THEN /\ Pends(r, IF r \in Archivers THEN Promise!Archived(row[Target(r)])
                                          ELSE Promise!Updated(row[Target(r)]))
            /\ Goes(r, "commit") /\ UNCHANGED answer
       ELSE Throws(r, "conflict") /\ UNCHANGED pending
    /\ UNCHANGED <<data, conn, server, spent, faults>>

------------------------------------------------------------------------------
(* commit(), ROLLBACK and release.                                         *)

\* COMMIT of an open transaction, empty or not.
Applies(r) ==
    LET x == pending[conn[r]] IN
    /\ row' = IF x = Nothing THEN row ELSE [row EXCEPT ![Target(r)] = x.row]
    /\ events' = IF x.event THEN events \union {Target(r)} ELSE events
    /\ applied' = IF x = Nothing THEN applied ELSE applied \union {r}
    /\ pending' = [pending EXCEPT ![conn[r]] = Nothing]
    /\ UNCHANGED <<work, seen, guessed>>

Releases(r) == conn' = [conn EXCEPT ![r] = None] /\ Goes(r, "over")

Commits(r) ==
    /\ at[r] = "commit" /\ Sends(r)
    /\ Applies(r) /\ Releases(r) /\ Told(r, "ok")
    /\ server' = [server EXCEPT ![conn[r]] = "idle"]
    /\ UNCHANGED <<spent, faults>>

\* COMMIT is carried out and its answer is lost with the connection.
CommitAnswerLost(r) ==
    /\ at[r] = "commit" /\ Sends(r) /\ Fault
    /\ Applies(r) /\ Throws(r, "error")
    /\ server' = [server EXCEPT ![conn[r]] = "lost"]
    /\ UNCHANGED <<conn, spent>>

\* Mutant: the answer of COMMIT is not looked at.
CommitBelieved(r) ==
    /\ at[r] = "commit" /\ r \notin spent /\ server[conn[r]] = "aborted"
    /\ server' = [server EXCEPT ![conn[r]] = "idle"]
    /\ Releases(r) /\ Told(r, "ok")
    /\ UNCHANGED <<data, pending, spent, faults>>

\* Postgres answers the COMMIT of an aborted transaction with ROLLBACK.
CommitRefused(r) ==
    /\ at[r] = "commit" /\ r \notin spent /\ server[conn[r]] = "aborted"
    /\ server' = [server EXCEPT ![conn[r]] = "idle"]
    /\ Throws(r, "error")
    /\ UNCHANGED <<data, conn, pending, spent, faults>>

\* COMMIT is not sent, or nobody is there to take it.
CommitFails(r) ==
    /\ at[r] = "commit"
    /\ \/ r \in spent /\ Throws(r, "deadline")
       \/ r \notin spent /\ server[conn[r]] = "lost" /\ Throws(r, "error")
    /\ UNCHANGED <<data, pool, spent, faults>>

\* Mutant: a spent budget holds the ROLLBACK back too, and nobody minds.
HeldBack(r) ==
    IF r \in spent THEN UNCHANGED <<server, pending>>
    ELSE /\ server' = [server EXCEPT ![conn[r]] = "idle"]
         /\ pending' = [pending EXCEPT ![conn[r]] = Nothing]

\* ROLLBACK always goes out; a connection on which it fails is destroyed, and the pool
\* opens another.
Undoes(r) ==
    /\ server' = [server EXCEPT ![conn[r]] = "idle"]
    /\ pending' = [pending EXCEPT ![conn[r]] = Nothing]

RollsBack(r) ==
    /\ at[r] = "rollback"
    /\ Undoes(r) /\ Releases(r)
    /\ UNCHANGED <<data, answer, spent, faults>>

------------------------------------------------------------------------------
Step(r) ==
    \/ Asks(r) \/ Connects(r) \/ ConnectTimesOut(r) \/ Begins(r) \/ Finds(r) \/ Inserts(r)
    \/ AddsEvent(r) \/ Updates(r) \/ NotSent(r) \/ StatementFails(r) \/ OnLost(r)
    \/ Commits(r) \/ CommitAnswerLost(r) \/ CommitRefused(r) \/ CommitFails(r) \/ RollsBack(r)

Next == \E r \in Requests : Step(r) \/ BudgetRunsOut(r) \/ ConnectionLost(r)

Spec == Init /\ [][Next]_vars

\* Statements end, and the pool serves its queue in turn.
Fairness == \A r \in Requests : SF_vars(Step(r))
FairSpec == Spec /\ Fairness

------------------------------------------------------------------------------
(* Properties.                                                             *)

\* The tasks module keeps the promise of VersionedTasks: whatever fails, and however
\* the requests interleave, no update is lost, a task and its event are there together
\* or not at all, and a task is archived once, but for requests that named a version
\* not issued yet: findById sees the task active, another archive issues that version,
\* and the UPDATE, which does not look at the status, matches it.
KeepsThePromise == Promise!Spec

\* 2xx: the write is committed.  404, 409 and 504: it is not, so the request may be
\* sent again.  Only a 500 leaves it open: a COMMIT whose answer was lost.
AnswersAreTrue ==
    \A r \in Requests : at[r] = "over" =>
        /\ answer[r] = "ok" => r \in applied
        /\ r \in applied => answer[r] \in {"ok", "error"}

\* A connection goes back to the pool outside a transaction and without a lock, or
\* the next request would work in another's.
PoolIsClean == \A c \in Free : server[c] = "idle" /\ pending[c] = Nothing

\* Everybody is answered, with as many requests as one likes on a small pool.
EveryRequestIsAnswered == \A r \in Requests : <>(at[r] = "over")
=============================================================================
