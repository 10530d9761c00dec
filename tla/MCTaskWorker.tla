---------------------------- MODULE MCTaskWorker ----------------------------
EXTENDS TaskWorker, TLC

CONSTANTS w1, w2, p1, p2, e1, e2, e3, e4, other, broken

Topic(l1, l2) == (p1 :> l1) @@ (p2 :> l2)

\* A worker with two partitions at a time on Valkey, with a fault or a longer log;
\* one worker, and two, on Postgres.
SmallDeployments ==
    {[backend |-> "bullmq", replicas |-> {w1}, concurrently |-> 2,
      log |-> Topic(<<e1, e1>>, <<e2>>), faults |-> 1],
     [backend |-> "bullmq", replicas |-> {w1}, concurrently |-> 2,
      log |-> Topic(<<e1, e3>>, <<e2, e4>>), faults |-> 0],
     [backend |-> "pgboss", replicas |-> {w1}, concurrently |-> 1,
      log |-> Topic(<<e1, other, e2, broken>>, <<>>), faults |-> 1],
     [backend |-> "pgboss", replicas |-> {w1, w2}, concurrently |-> 1,
      log |-> Topic(<<e1, e1, e2>>, <<>>), faults |-> 1]}
=============================================================================
