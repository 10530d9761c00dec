----------------------------- MODULE Deployment -----------------------------
(***************************************************************************)
(* A deployment (docker/stack.yml): the runners migrate the database, and  *)
(* when they are through and one has succeeded, the app's process starts   *)
(* and lives until it is told to stop.                                     *)
(***************************************************************************)
EXTENDS Migrations, ServiceProcess

Starts ==
    /\ \A r \in Runners : Over(r)
    /\ \E r \in Runners : runner[r] = "done"
    /\ PStarts /\ UNCHANGED mvars

Init == MInit /\ PInit
Next == (MNext /\ UNCHANGED pvars) \/ (PNext /\ UNCHANGED mvars) \/ Starts

vars == <<mvars, pvars>>
Spec == Init /\ [][Next]_vars

Does(A) == A /\ UNCHANGED mvars

\* Statements and uploads end, timers fire, a request whose body has come is worked
\* off. Nothing ends one whose body has stalled: a server that was told to close looks
\* at its requestTimeout no more.
Fairness ==
    /\ \A r \in Runners : WF_vars(Migrates(r) /\ UNCHANGED pvars)
    /\ WF_vars(Does(Closes))
    /\ WF_vars(Does(ApiAnswers)) /\ WF_vars(Does(LevelExpires)) /\ WF_vars(Does(DumpEnds))
    /\ WF_vars(Does(\E r \in Requests : SetsLevel(r) \/ Reports(r) \/ ProfileEnds(r)))
FairSpec == Spec /\ Fairness

TypeOK == MTypeOK /\ PTypeOK

------------------------------------------------------------------------------
\* A listener is closed and has a request whose client has stopped sending: the API's,
\* or the admin listener's, which does not abort it with the CPU profiles.
HeldOpen ==
    \/ life = "draining" /\ stuck > 0
    \/ life = "hooks" /\ \E r \in stalled : request[r] = "working"

\* Every runner comes to an end; a process that is told to stop does, however many
\* requests its listeners have, unless a stalled body holds it open for ever; a runtime
\* log level goes back by itself.
EverythingEnds ==
    /\ \A r \in Runners : <>Over(r)
    /\ []<>~HeldOpen => (life = "gate" ~> life = "exited")
    /\ level = "debug" ~> level = "base" \/ life = "exited"
=============================================================================
