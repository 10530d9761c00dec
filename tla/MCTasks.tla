------------------------------ MODULE MCTasks ------------------------------
EXTENDS Tasks, TLC
CONSTANTS t1, t2, r1, r2, r3, c1, c2

Does(k, t, v) == [kind |-> k, task |-> t, names |-> v]
Three(x, y, z) == (r1 :> x) @@ (r2 :> y) @@ (r3 :> z)

\* A task is created beside another that is archived twice, by the version both have
\* seen or by one that only the other archive issues; a task is changed by updates that
\* meet or follow each other, and archived; one is archived as soon as it is there.
SmallWorkloads ==
    {Three(Does("create", t1, 1), Does("archive", t2, 1), Does("archive", t2, v)) : v \in {1, 2}}
    \union
    {Three(Does("update", t1, 1), Does("update", t1, v), Does("archive", t1, 2)) : v \in {1, 3}}
    \union
    {Three(Does("create", t1, 1), Does("archive", t1, 1), Does("update", t1, v)) : v \in {1, 2}}
=============================================================================
