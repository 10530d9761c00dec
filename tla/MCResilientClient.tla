-------------------------- MODULE MCResilientClient --------------------------
EXTENDS ResilientClient
CONSTANTS a, b, c

\* A narrow adaptive limit, with retries; a cache and coalescing over it, and a breaker
\* that trips; coalescing beside a call that has no key, behind a Bottleneck of one.
Base == [cache |-> FALSE, coalesce |-> FALSE, keyless |-> {}, budgeted |-> {a}, signalled |-> {},
         trips |-> FALSE, fallback |-> FALSE, passthrough4xx |-> FALSE,
         retries |-> 1, concurrent |-> 3, initial |-> 2, min |-> 1, max |-> 2]
SmallConfigs ==
    {Base,
     [Base EXCEPT !.cache = TRUE, !.coalesce = TRUE, !.trips = TRUE, !.budgeted = {}, !.initial = 1,
                  !.retries = 0],
     [Base EXCEPT !.coalesce = TRUE, !.keyless = {c}, !.concurrent = 1, !.initial = 1,
                  !.fallback = TRUE, !.passthrough4xx = TRUE, !.signalled = {a}, !.retries = 0]}
=============================================================================
