--------------------------- MODULE VersionedTasks ---------------------------
(***************************************************************************)
(* What the tasks API promises: each task is a row with a version.  It is  *)
(* created together with its event, every later write names the version    *)
(* it replaces, and a task is archived once: only a request that named a   *)
(* version before it was issued may archive what is archived already.      *)
(* Versions count from 1 here, 0 being a task that is not there; the       *)
(* column starts at 0.                                                     *)
(***************************************************************************)
EXTENDS Naturals

CONSTANTS Tasks, Requests, Versions

VARIABLES
    row,     \* what each task is
    events,  \* the tasks whose task.created event waits in the outbox
    seen,    \* the version of its task each request names
    guessed, \* the requests that named one before it was issued
    done,    \* the requests that have written
    ended    \* those of them that archived

Absent      == [version |-> 0, status |-> "ACTIVE"]
Created     == [version |-> 1, status |-> "ACTIVE"]
Updated(x)  == [x EXCEPT !.version = @ + 1]
Archived(x) == [version |-> x.version + 1, status |-> "ARCHIVED"]

Names(r, t) ==
    /\ \E v \in Versions :
          /\ seen' = [seen EXCEPT ![r] = v]
          /\ guessed' = IF v > row[t].version THEN guessed \union {r} ELSE guessed
    /\ UNCHANGED <<row, events, done, ended>>

Creates(r, t) ==
    /\ row[t] = Absent /\ r \notin done
    /\ row' = [row EXCEPT ![t] = Created]
    /\ events' = events \union {t} /\ done' = done \union {r}
    /\ UNCHANGED <<seen, guessed, ended>>

Writes(r, t) ==
    /\ row[t] # Absent /\ seen[r] = row[t].version /\ r \notin done
    /\ done' = done \union {r}
    /\ \/ row' = [row EXCEPT ![t] = Updated(row[t])] /\ UNCHANGED ended
       \/ /\ row[t].status = "ACTIVE" \/ r \in guessed
          /\ row' = [row EXCEPT ![t] = Archived(row[t])] /\ ended' = ended \union {r}
    /\ UNCHANGED <<events, seen, guessed>>

Init ==
    /\ row \in [Tasks -> {Absent, Created}] /\ events = {}
    /\ seen = [r \in Requests |-> 0] /\ guessed = {} /\ done = {} /\ ended = {}
Next == \E r \in Requests, t \in Tasks : Names(r, t) \/ Creates(r, t) \/ Writes(r, t)
Spec == Init /\ [][Next]_<<row, events, seen, guessed, done, ended>>
=============================================================================
