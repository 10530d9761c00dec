----------------------------- MODULE Migrations -----------------------------
(***************************************************************************)
(* migrate() of apps/migrate: runners of several images bring one database *)
(* up to their migrations.  The session of a runner holds the advisory     *)
(* lock and does the work, so both end together; a runner that dies, or    *)
(* loses its connection, is started again.                                 *)
(***************************************************************************)
EXTENDS Naturals, FiniteSets

CONSTANTS
    Runners,
    Versions,       \* 1 .. n
    NoTransaction,  \* files that say `-- migrate: no-transaction`
    Ships,          \* the files of each runner's image
    Edits,          \* those of them that are not what they once were
    MaxDeaths,      \* bound
    Nobody

ASSUME MigrationsAssumption ==
    /\ Versions \subseteq Nat \ {0} /\ IsFiniteSet(Versions) /\ NoTransaction \subseteq Versions
    /\ Ships \in [Runners -> SUBSET Versions] /\ Edits \in [Runners -> SUBSET Versions]
    /\ MaxDeaths \in Nat /\ Nobody \notin Runners

VARIABLES
    lock,      \* the session that has the advisory lock
    executed,  \* how often each file has been carried out for good
    recorded,  \* schema_migrations: the file by its checksum
    runner,    \* where each runner is
    applied,   \* what it takes for applied
    deaths

mvars == <<lock, executed, recorded, runner, applied, deaths>>

File(r, v) == IF v \in Edits[r] THEN "edited" ELSE "original"
InTable    == {v \in Versions : recorded[v] # "none"}

MTypeOK ==
    /\ lock \in Runners \union {Nobody}
    /\ executed \in [Versions -> Nat]
    /\ recorded \in [Versions -> {"none", "original", "edited"}]
    /\ runner \in [Runners -> {"start", "read", "next", "record", "unlock", "refuse", "done", "failed"}]
    /\ applied \in [Runners -> SUBSET Versions]
    /\ deaths \in 0 .. MaxDeaths

MInit ==
    /\ lock = Nobody /\ deaths = 0
    /\ executed = [v \in Versions |-> 0] /\ recorded = [v \in Versions |-> "none"]
    /\ runner = [r \in Runners |-> "start"] /\ applied = [r \in Runners |-> {}]

Moves(r, pc) == runner' = [runner EXCEPT ![r] = pc]
Learns(r, vs) == applied' = [applied EXCEPT ![r] = vs]

\* Mutant: pg_advisory_lock is not waited for.
Anytime == TRUE

LockIsFree == lock = Nobody

Locks(r) ==
    /\ runner[r] = "start" /\ LockIsFree
    /\ lock' = r /\ Moves(r, "read")
    /\ UNCHANGED <<executed, recorded, applied, deaths>>

\* What is applied must be here, and as it was.
Agrees(r) == \A v \in InTable : v \in Ships[r] /\ recorded[v] = File(r, v)

Reads(r) ==
    /\ runner[r] = "read"
    /\ IF Agrees(r) THEN Learns(r, InTable) /\ Moves(r, "next")
                    ELSE UNCHANGED applied /\ Moves(r, "refuse")
    /\ UNCHANGED <<lock, executed, recorded, deaths>>

Pending(r) == Ships[r] \ applied[r]
Current(r) == CHOOSE v \in Pending(r) : \A w \in Pending(r) : v <= w

Executes(v) == executed' = [executed EXCEPT ![v] = @ + 1]
Enters(r, v) == recorded' = [recorded EXCEPT ![v] = File(r, v)]

\* The file's statements: in a transaction nobody sees them before COMMIT.
RunsFile(r) ==
    /\ runner[r] = "next" /\ Pending(r) # {}
    /\ IF Current(r) \in NoTransaction THEN Executes(Current(r)) ELSE UNCHANGED executed
    /\ Moves(r, "record")
    /\ UNCHANGED <<lock, recorded, applied, deaths>>

\* The row, and COMMIT with it; the version is the table's primary key.
Records(r) ==
    LET v == Current(r) IN
    /\ runner[r] = "record" /\ v \notin InTable
    /\ Enters(r, v)
    /\ IF v \in NoTransaction THEN UNCHANGED executed ELSE Executes(v)
    /\ Learns(r, applied[r] \union {v}) /\ Moves(r, "next")
    /\ UNCHANGED <<lock, deaths>>

\* A file's SQL is refused, or its row: ROLLBACK, and the runner gives up.
Fails(r) ==
    /\ \/ runner[r] = "next" /\ Pending(r) # {}
       \/ runner[r] = "record" /\ Current(r) \in InTable
    /\ Moves(r, "refuse")
    /\ UNCHANGED <<lock, executed, recorded, applied, deaths>>

Finds(r) ==
    /\ runner[r] = "next" /\ Pending(r) = {}
    /\ Moves(r, "unlock")
    /\ UNCHANGED <<lock, executed, recorded, applied, deaths>>

Unlocks(r) ==
    /\ runner[r] \in {"unlock", "refuse"}
    /\ lock' = IF lock = r THEN Nobody ELSE lock
    /\ Moves(r, IF runner[r] = "unlock" THEN "done" ELSE "failed")
    /\ UNCHANGED <<executed, recorded, applied, deaths>>

\* With it go its session, the lock and what was not committed.
Dies(r) ==
    /\ runner[r] \notin {"start", "done", "failed"}
    /\ deaths < MaxDeaths /\ deaths' = deaths + 1
    /\ lock' = IF lock = r THEN Nobody ELSE lock
    /\ Moves(r, "start") /\ Learns(r, {})
    /\ UNCHANGED <<executed, recorded>>

Migrates(r) ==
    Locks(r) \/ Reads(r) \/ RunsFile(r) \/ Records(r) \/ Fails(r) \/ Finds(r) \/ Unlocks(r)
MNext == \E r \in Runners : Migrates(r) \/ Dies(r)
MSpec == MInit /\ [][MNext]_mvars

Over(r) == runner[r] \in {"done", "failed"}

------------------------------------------------------------------------------
\* Every file was carried out once, in order and with its row; only one that runs
\* without a transaction can be found done and not recorded, or done again, and
\* only because a runner died over it.
SchemaIsSound ==
    /\ \A v \in Versions :
        /\ v \in InTable => executed[v] > 0
        /\ executed[v] > 1 => v \in NoTransaction /\ deaths > 0
        /\ executed[v] > 0 /\ v \notin InTable =>
              /\ v \in NoTransaction
              /\ deaths > 0 \/ \E r \in Runners : runner[r] = "record"
    /\ \A v, w \in Versions : v < w /\ executed[w] > 0 => v \in InTable
=============================================================================
