------------------------ MODULE ResilientClientProofs ------------------------
(***************************************************************************)
(* Theorems about ResilientClient, for any calls and configurations.       *)
(***************************************************************************)
EXTENDS ResilientClient, FiniteSetTheorems, TLAPS

USE DEF time

\* TypeOK in its two halves: the adaptive limiter, and the calls.
LimiterTypes ==
    /\ woken \subseteq Calls
    /\ limit \in cfg.min .. cfg.max /\ inFlight \in Nat /\ waiters \in Seq(Calls)

CallTypes ==
    /\ cfg \in Configs
    /\ at \in [Calls -> {"new", "lookup", "joined", "own", "behind", "fallback", "over"}]
    /\ result \in [Calls -> Errors \union {"response", None}]
    /\ job \in [Calls -> Phases] /\ tries \in [Calls -> Nat]
    /\ spent \subseteq Calls
    /\ breaker \in {"closed", "open", "halfOpen", "probe"}
    /\ entry \in {"none", "fresh", "stale", "expired"}
    /\ flight \in Calls \union {None}
    /\ shut \in {"up", "draining", "closing", "closed"}

\* The adaptive limiter counts those that hold a slot, and remembers those that wait.
Out == {c \in Calls : Holds(c, {"held", "sent"})}
SlotsInv ==
    /\ IsFiniteSet(Out) /\ inFlight = Cardinality(Out) /\ inFlight <= cfg.max
    /\ \A c \in Calls : job[c] = "queued" => c \in woken \union Woken(waiters)
    /\ waiters # <<>> => inFlight >= limit

\* A call that has no execution of its own, or none yet; a body is read for somebody.
JobInv ==
    \A c \in Calls : /\ at[c] \in {"new", "lookup", "joined"} => job[c] = "none"
                     /\ job[c] = "body" => Attached(c)

\* #inflightMap has the promise of the one keyed call whose execution is awaited; who
\* joined waits for that one.
FlightInv ==
    /\ flight # None => at[flight] = "own"
    /\ \A c \in Calls : at[c] = "own" /\ Keyed(c) /\ cfg.coalesce => flight = c
    /\ \A c \in Calls : at[c] = "joined" => flight # None

\* What is closed has nothing to run.
ClosedInv == shut = "closed" => JobsAreOver

\* A promise in #inflightMap is one of coalesced calls, and only its failure ends the
\* process. Only a call that has a budget spends it.
ProcessInv ==
    /\ process \in {"up", "crashing", "gone"}
    /\ process # "up" \/ flight # None => cfg.coalesce
    /\ spent \subseteq cfg.budgeted /\ expired \subseteq Calls

LInv == LimiterTypes /\ SlotsInv
CInv == CallTypes /\ JobInv /\ FlightInv /\ ClosedInv
RInv == LInv /\ CInv

------------------------------------------------------------------------------
(* The limiter.                                                            *)

LEMMA ConfigTypes ==
    ASSUME cfg \in Configs
    PROVE  /\ cfg.min \in Nat /\ cfg.max \in Nat /\ cfg.initial \in Nat
           /\ 0 < cfg.min /\ cfg.min <= cfg.initial /\ cfg.initial <= cfg.max
           /\ cfg.coalesce \in BOOLEAN
  BY ClientAssumption DEF Config

LEMMA OutIsCounted ==
    ASSUME LInv, CInv, NEW c \in Calls, c \in Out
    PROVE  inFlight - 1 \in Nat /\ IsFiniteSet(Out \ {c}) /\ Cardinality(Out \ {c}) = inFlight - 1
  <1>1. IsFiniteSet(Out) /\ Cardinality(Out) = inFlight /\ inFlight \in Nat
    BY DEF LInv, SlotsInv, LimiterTypes
  <1>2. IsFiniteSet(Out \ {c}) /\ Cardinality(Out \ {c}) = inFlight - 1
    BY <1>1, FS_RemoveElement
  <1>3. Cardinality(Out \ {c}) \in Nat
    BY <1>2, FS_CardinalityType
  <1> QED BY <1>2, <1>3

\* A step that leaves the limiter alone, and lets nobody take a slot or wait for one.
LEMMA LimiterSame ==
    ASSUME LInv, cfg' = cfg, limit' = limit, inFlight' = inFlight, waiters' = waiters, woken' = woken,
           \A c \in Calls : /\ job'[c] \in {"held", "sent"} <=> job[c] \in {"held", "sent"}
                            /\ job'[c] = "queued" => job[c] = "queued"
    PROVE  LInv'
  <1>1. Out' = Out
    BY DEF Out, Holds
  <1> QED BY <1>1 DEF LInv, LimiterTypes, SlotsInv, Woken

\* A call without a slot takes one or queues.
LEMMA AcquiresLInv ==
    ASSUME LInv, CInv, cfg' = cfg, NEW c \in Calls, job[c] \notin {"held", "sent"}, Acquires(c)
    PROVE  LInv'
  <1>1. /\ cfg.min \in Nat /\ cfg.max \in Nat /\ limit \in cfg.min .. cfg.max /\ inFlight \in Nat
        /\ waiters \in Seq(Calls) /\ woken \subseteq Calls /\ job \in [Calls -> Phases]
        /\ limit' = limit /\ woken' = woken \ {c}
    BY ConfigTypes DEF CInv, CallTypes, LInv, LimiterTypes, Acquires
  <1>2. IsFiniteSet(Out) /\ inFlight = Cardinality(Out) /\ inFlight <= cfg.max /\ c \notin Out
        /\ (waiters # <<>> => inFlight >= limit)
    BY DEF LInv, SlotsInv, Out, Holds
  <1>3. CASE inFlight < limit
    <2>1. inFlight' = inFlight + 1 /\ job' = [job EXCEPT ![c] = "held"] /\ waiters' = waiters
      BY <1>3 DEF Acquires, Turns
    <2>2. Out' = Out \union {c}
      BY <1>1, <2>1 DEF Out, Holds
    <2>3. IsFiniteSet(Out') /\ inFlight' = Cardinality(Out') /\ inFlight' <= cfg.max /\ waiters = <<>>
      BY <1>1, <1>2, <1>3, <2>1, <2>2, FS_AddElement
    <2>4. \A d \in Calls : job'[d] = "queued" => d \in woken' \union Woken(waiters')
      BY <1>1, <2>1 DEF LInv, SlotsInv, Woken
    <2> QED BY <1>1, <2>1, <2>3, <2>4 DEF LInv, LimiterTypes, SlotsInv, Woken
  <1>4. CASE ~(inFlight < limit)
    <2>1. inFlight' = inFlight /\ job' = [job EXCEPT ![c] = "queued"] /\ waiters' = Append(waiters, c)
      BY <1>4 DEF Acquires, Turns
    <2>2. Out' = Out
      BY <1>1, <1>2, <2>1 DEF Out, Holds
    <2>3. Woken(waiters') = Woken(waiters) \union {c}
      BY <1>1, <2>1 DEF Woken
    <2>4. \A d \in Calls : job'[d] = "queued" => d \in woken' \union Woken(waiters')
      BY <1>1, <2>1, <2>3 DEF LInv, SlotsInv
    <2>5. inFlight' >= limit' /\ waiters' \in Seq(Calls)
      BY <1>1, <1>4, <2>1
    <2> QED BY <1>1, <1>2, <2>1, <2>2, <2>4, <2>5 DEF LInv, LimiterTypes, SlotsInv, Woken
  <1> QED BY <1>3, <1>4

\* A call gives its slot back.
LEMMA DrainsLInv ==
    ASSUME LInv, CInv, cfg' = cfg, NEW c \in Calls, c \in Out,
           NEW l \in cfg.min .. cfg.max, Drains(inFlight - 1, l),
           NEW phase \in Phases \ {"held", "sent", "queued"}, job' = [job EXCEPT ![c] = phase]
    PROVE  LInv'
  <1>1. /\ cfg.min \in Nat /\ cfg.max \in Nat /\ inFlight \in Nat
        /\ waiters \in Seq(Calls) /\ woken \subseteq Calls /\ job \in [Calls -> Phases]
        /\ inFlight' = inFlight - 1 /\ limit' = l /\ inFlight <= cfg.max
    BY ConfigTypes DEF CInv, CallTypes, LInv, LimiterTypes, SlotsInv, Drains
  <1>2. Out' = Out \ {c}
    BY <1>1 DEF Out, Holds
  <1>3. inFlight' \in Nat /\ IsFiniteSet(Out') /\ Cardinality(Out') = inFlight' /\ inFlight' <= cfg.max
    <2>1. inFlight - 1 \in Nat /\ IsFiniteSet(Out \ {c}) /\ Cardinality(Out \ {c}) = inFlight - 1
      BY OutIsCounted
    <2>2. inFlight - 1 <= cfg.max
      BY <1>1
    <2> QED BY <1>1, <1>2, <2>1, <2>2
  <1>4. \A d \in Calls : job'[d] = "queued" => d \in woken \union Woken(waiters)
    BY <1>1 DEF LInv, SlotsInv
  <1>5. CASE inFlight - 1 < l
    <2>1. waiters' = <<>> /\ woken' = woken \union Woken(waiters)
      BY <1>5 DEF Drains
    <2>2. Woken(waiters) \subseteq Calls /\ <<>> \in Seq(Calls)
      BY <1>1 DEF Woken
    <2>3. \A d \in Calls : job'[d] = "queued" => d \in woken' \union Woken(waiters')
      BY <1>4, <2>1
    <2> QED BY <1>1, <1>3, <2>1, <2>2, <2>3 DEF LInv, LimiterTypes, SlotsInv, Woken
  <1>6. CASE ~(inFlight - 1 < l)
    <2>1. waiters' = waiters /\ woken' = woken
      BY <1>6 DEF Drains
    <2>2. \A d \in Calls : job'[d] = "queued" => d \in woken' \union Woken(waiters')
      BY <1>4, <2>1
    <2>3. inFlight' >= limit'
      BY <1>1, <1>6
    <2> QED BY <1>1, <1>3, <2>1, <2>2, <2>3 DEF LInv, LimiterTypes, SlotsInv, Woken
  <1> QED BY <1>5, <1>6

\* Whatever the outcome, the limit stays within its bounds.
LEMMA LimitIsBounded ==
    ASSUME LInv, CInv, NEW c \in Calls, c \in Out, cfg' = cfg,
           Cancels \/ Releases(TRUE) \/ Releases(FALSE),
           NEW phase \in Phases \ {"held", "sent", "queued"}, job' = [job EXCEPT ![c] = phase]
    PROVE  LInv'
  <1>1. /\ cfg.min \in Nat /\ cfg.max \in Nat /\ cfg.min <= cfg.max /\ limit \in cfg.min .. cfg.max
    BY ConfigTypes DEF CInv, CallTypes, LInv, LimiterTypes
  <1>2. Grown \in cfg.min .. cfg.max
    BY <1>1 DEF Grown
  <1>3. Shrunk \in cfg.min .. cfg.max
    <2>1. 0 < limit
      BY <1>1, ConfigTypes DEF CInv, CallTypes
    <2>2. (limit + 1) \div 2 \in Int /\ (limit + 1) \div 2 <= limit
      BY <1>1, <2>1
    <2> QED BY <1>1, <2>2 DEF Shrunk
  <1>4. PICK l \in cfg.min .. cfg.max : Drains(inFlight - 1, l)
    BY <1>1, <1>2, <1>3 DEF Cancels, Releases
  <1> QED BY <1>4, DrainsLInv

------------------------------------------------------------------------------
(* The calls.                                                              *)

\* What every step keeps.
LEMMA CallStep ==
    ASSUME CInv, cfg' = cfg, spent' \subseteq Calls, tries' \in [Calls -> Nat], job' \in [Calls -> Phases],
           at' = at, result' \in [Calls -> Errors \union {"response", None}], flight' = flight,
           breaker' \in {"closed", "open", "halfOpen", "probe"},
           entry' \in {"none", "fresh", "stale", "expired"}, shut' = shut,
           \A d \in Calls : /\ job[d] = "none" => job'[d] = "none"
                            /\ job[d] = "body" => job'[d] \in {"none", "body"}
                            /\ job'[d] = "body" => job[d] = "body" \/ Attached(d)
    PROVE  CInv'
  <1>1. CallTypes'
    BY DEF CInv, CallTypes
  <1>2. JobInv' /\ FlightInv'
    BY DEF CInv, JobInv, FlightInv, Keyed, Attached
  <1>3. ClosedInv'
    BY DEF CInv, ClosedInv, JobsAreOver, Holds
  <1> QED BY <1>1, <1>2, <1>3 DEF CInv

\* An execution ends, or the breaker's timeout answers its call.
LEMMA SettlesCInv ==
    ASSUME CInv, NEW c \in Calls, job[c] # "none", Attached(c),
           NEW r \in Errors \union {"response"}, Settles(c, r),
           cfg' = cfg, spent' = spent, tries' \in [Calls -> Nat], job' \in [Calls -> Phases],
           breaker' \in {"closed", "open", "halfOpen", "probe"},
           entry' \in {"none", "fresh", "stale", "expired"}, shut' = shut,
           \A d \in Calls \ {c} : job'[d] = job[d], job'[c] \in {job[c], "none"}, job'[c] # "body"
    PROVE  CInv'
  <1>1. /\ cfg \in Configs /\ None \notin Calls /\ flight \in Calls \union {None}
        /\ \A d \in Calls : at'[d] = IF d = c THEN Ending(c, r)
                                     ELSE IF at[d] = "joined" /\ flight = c THEN "over" ELSE at[d]
        /\ flight' = IF flight = c THEN None ELSE flight
    BY ClientAssumption DEF CInv, CallTypes, Settles
  <1>2. Ending(c, r) \in {"fallback", "over"}
    BY DEF Ending
  <1>3. /\ at' \in [Calls -> {"new", "lookup", "joined", "own", "behind", "fallback", "over"}]
        /\ result' \in [Calls -> Errors \union {"response", None}]
    BY <1>2 DEF CInv, CallTypes, Settles
  <1>4. CallTypes'
    BY <1>1, <1>3 DEF CInv, CallTypes
  <1>5. JobInv'
    BY <1>1, <1>2 DEF CInv, JobInv, Attached
  <1>6. FlightInv'
    <2>1. flight' # None => at'[flight'] = "own"
      BY <1>1, <1>2 DEF CInv, FlightInv
    <2>2. \A d \in Calls : at'[d] = "own" /\ Keyed(d)' /\ cfg'.coalesce => flight' = d
      BY <1>1, <1>2 DEF CInv, FlightInv, Keyed
    <2>3. \A d \in Calls : at'[d] = "joined" => flight' # None
      BY <1>1, <1>2 DEF CInv, FlightInv
    <2> QED BY <2>1, <2>2, <2>3 DEF FlightInv
  <1>7. ClosedInv'
    BY DEF CInv, ClosedInv, JobsAreOver, Holds
  <1> QED BY <1>4, <1>5, <1>6, <1>7 DEF CInv

\* A call that has no execution yet is answered.
LEMMA AnsweredAtOnce ==
    ASSUME CInv, NEW c \in Calls, at[c] \in {"new", "lookup"}, NEW to \in {"fallback", "over"},
           at' = [at EXCEPT ![c] = to], NEW r \in Errors \union {"response"}, Told(c, r),
           cfg' = cfg, spent' = spent, tries' = tries, job' = job, flight' = flight,
           breaker' \in {"closed", "open", "halfOpen", "probe"},
           entry' \in {"none", "fresh", "stale", "expired"}, shut' = shut
    PROVE  CInv'
  <1>1. \A d \in Calls : at'[d] = IF d = c THEN to ELSE at[d]
    BY DEF CInv, CallTypes
  <1>2. CallTypes'
    BY DEF CInv, CallTypes, Told
  <1>3. JobInv' /\ FlightInv'
    BY <1>1, ClientAssumption DEF CInv, JobInv, FlightInv, Keyed, CallTypes, Attached
  <1>4. ClosedInv'
    BY DEF CInv, ClosedInv, JobsAreOver, Holds
  <1> QED BY <1>2, <1>3, <1>4 DEF CInv

\* The call joins another's execution, or starts one of its own.
LEMMA IssuesCInv ==
    ASSUME CInv, NEW c \in Calls, at[c] \in {"new", "lookup"}, Issues(c),
           cfg' = cfg, spent' = spent, tries' = tries,
           entry' \in {"none", "fresh", "stale", "expired"}, shut' = shut
    PROVE  CInv'
  <1>1. CASE Joins(c)
    <2>1. /\ at' = [at EXCEPT ![c] = "joined"] /\ result' = result /\ job' = job
          /\ breaker' = breaker /\ flight' = flight
      BY <1>1 DEF Issues
    <2>2. \A d \in Calls : at'[d] = IF d = c THEN "joined" ELSE at[d]
      BY <2>1 DEF CInv, CallTypes
    <2>3. CallTypes'
      BY <2>1 DEF CInv, CallTypes
    <2>4. JobInv' /\ FlightInv'
      BY <1>1, <2>1, <2>2, ClientAssumption DEF CInv, JobInv, FlightInv, Keyed, CallTypes, Joins, Attached
    <2>5. ClosedInv'
      BY <2>1 DEF CInv, ClosedInv, JobsAreOver, Holds
    <2> QED BY <2>3, <2>4, <2>5 DEF CInv
  <1>2. CASE ~Joins(c) /\ Fires
    <2>1. /\ at' = [at EXCEPT ![c] = "own"] /\ result' = result /\ job' = [job EXCEPT ![c] = "fired"]
          /\ flight' = IF Keyed(c) /\ cfg.coalesce THEN c ELSE flight
          /\ breaker' = IF breaker = "halfOpen" THEN "probe" ELSE breaker
      BY <1>2 DEF Issues, Turns
    <2>2. \A d \in Calls : at'[d] = IF d = c THEN "own" ELSE at[d]
      BY <2>1 DEF CInv, CallTypes
    <2>3. \A d \in Calls \ {c} : job'[d] = job[d]
      BY <2>1 DEF CInv, CallTypes
    <2>4. CallTypes'
      BY <2>1 DEF CInv, CallTypes, Phases
    <2>5. JobInv'
      <3>1. job'[c] = "fired"
        BY <2>1 DEF CInv, CallTypes
      <3> QED BY <2>2, <2>3, <3>1 DEF CInv, JobInv, Attached
    <2>6. FlightInv'
      <3>1. CASE Keyed(c) /\ cfg.coalesce
        <4>1. flight = None /\ flight' = c /\ c # None
          BY <1>2, <2>1, <3>1, ClientAssumption DEF Joins
        <4>2. \A d \in Calls : at[d] = "own" /\ Keyed(d) => FALSE
          BY <3>1, <4>1, ClientAssumption DEF CInv, FlightInv
        <4> QED BY <2>2, <3>1, <4>1, <4>2 DEF CInv, FlightInv, Keyed
      <3>2. CASE ~(Keyed(c) /\ cfg.coalesce)
        <4>1. flight' = flight
          BY <2>1, <3>2
        <4> QED BY <2>2, <3>2, <4>1, ClientAssumption DEF CInv, FlightInv, Keyed, CallTypes
      <3> QED BY <3>1, <3>2
    <2>7. ClosedInv'
      BY <1>2 DEF Fires, ClosedInv
    <2> QED BY <2>4, <2>5, <2>6, <2>7 DEF CInv
  <1>3. CASE ~Joins(c) /\ ~Fires
    <2>1. /\ Told(c, "transient") /\ job' = job /\ flight' = flight
          /\ at' = [at EXCEPT ![c] = Ending(c, "transient")]
          /\ breaker' \in {breaker, "open"}
      BY <1>3 DEF Issues, Ends, Refuses, Trips
    <2>2. breaker' \in {"closed", "open", "halfOpen", "probe"}
      BY <2>1 DEF CInv, CallTypes
    <2>3. Ending(c, "transient") \in {"fallback", "over"} /\ "transient" \in Errors
      BY DEF Ending, Errors
    <2> QED BY <2>1, <2>2, <2>3, AnsweredAtOnce
  <1> QED BY <1>1, <1>2, <1>3

------------------------------------------------------------------------------
(* The steps.                                                              *)

\* An execution that fails or is through, awaited or not.
LEMMA FailsCInv ==
    ASSUME CInv, NEW c \in Calls, job[c] # "none", NEW error \in Errors, Fails(c, error),
           cfg' = cfg, spent' = spent, tries' \in [Calls -> Nat], entry' = entry, shut' = shut
    PROVE  CInv'
  <1>1. /\ job' = [job EXCEPT ![c] = "none"] /\ job' \in [Calls -> Phases] /\ job'[c] = "none"
        /\ \A d \in Calls \ {c} : job'[d] = job[d]
    BY DEF Fails, Turns, CInv, CallTypes, Phases
  <1>2. entry' \in {"none", "fresh", "stale", "expired"} /\ error \in Errors \union {"response"}
    BY DEF CInv, CallTypes
  <1>3. CASE Attached(c)
    <2>1. Settles(c, error) /\ breaker' \in {"closed", "open", "halfOpen", "probe"}
      BY <1>3 DEF Fails, Trips
    <2> QED BY <1>1, <1>2, <1>3, <2>1, SettlesCInv
  <1>4. CASE ~Attached(c)
    <2>1. at' = at /\ result' = result /\ flight' = flight /\ breaker' = breaker
      BY <1>4 DEF Fails, call
    <2>2. /\ spent' \subseteq Calls /\ result' \in [Calls -> Errors \union {"response", None}]
          /\ breaker' \in {"closed", "open", "halfOpen", "probe"}
      BY <2>1 DEF CInv, CallTypes
    <2> QED BY <1>1, <1>2, <2>1, <2>2, CallStep
  <1> QED BY <1>3, <1>4

\* An attempt takes a slot or waits for one; one with a slot gives it back and ends.
LEMMA AttemptsRInv == ASSUME RInv, NEW c \in Calls, Attempts(c) PROVE RInv'
  <1>1. /\ cfg' = cfg /\ spent' = spent /\ entry' = entry /\ shut' = shut /\ tries' \in [Calls -> Nat]
        /\ job[c] \in {"fired", "backoff"}
    BY DEF Attempts, Slept, RInv, CInv, CallTypes
  <1>2. CASE c \in spent
    <2>1. Fails(c, "deadline_exceeded") /\ UNCHANGED limiter
      BY <1>2 DEF Attempts
    <2>2. CInv'
      BY <1>1, <2>1, FailsCInv DEF RInv, Errors, Fatal
    <2>3. \A d \in Calls : job'[d] = IF d = c THEN "none" ELSE job[d]
      BY <2>1 DEF Fails, Turns, RInv, CInv, CallTypes
    <2>4. LInv'
      BY <1>1, <2>1, <2>3, LimiterSame DEF RInv, limiter
    <2> QED BY <2>2, <2>4 DEF RInv
  <1>3. CASE c \notin spent
    <2>1. Acquires(c) /\ at' = at /\ result' = result /\ flight' = flight /\ breaker' = breaker
      BY <1>3 DEF Attempts, call
    <2>2. LInv'
      BY <1>1, <2>1, AcquiresLInv DEF RInv
    <2>3. /\ job' \in [Calls -> Phases]
          /\ \A d \in Calls : /\ job[d] = "none" => job'[d] = "none"
                              /\ job[d] = "body" => job'[d] \in {"none", "body"}
                              /\ job'[d] = "body" => job[d] = "body"
      BY <1>1, <2>1 DEF Acquires, Turns, Phases, RInv, CInv, CallTypes
    <2>4. CInv'
      BY <1>1, <2>1, <2>3, CallStep DEF RInv, CInv, CallTypes
    <2> QED BY <2>2, <2>4 DEF RInv
  <1> QED BY <1>2, <1>3

LEMMA WakesRInv == ASSUME RInv, NEW c \in Calls, Wakes(c) PROVE RInv'
  <1>1. /\ cfg' = cfg /\ spent' = spent /\ entry' = entry /\ shut' = shut /\ tries' = tries
        /\ Acquires(c) /\ at' = at /\ result' = result /\ flight' = flight /\ breaker' = breaker
        /\ job[c] = "queued"
    BY DEF Wakes, call
  <1>2. LInv'
    BY <1>1, AcquiresLInv DEF RInv
  <1>3. /\ job' \in [Calls -> Phases]
        /\ \A d \in Calls : /\ job[d] = "none" => job'[d] = "none"
                            /\ job[d] = "body" => job'[d] \in {"none", "body"}
                            /\ job'[d] = "body" => job[d] = "body"
    BY <1>1 DEF Acquires, Turns, Phases, RInv, CInv, CallTypes
  <1>4. CInv'
    BY <1>1, <1>3, CallStep DEF RInv, CInv, CallTypes
  <1> QED BY <1>2, <1>4 DEF RInv

LEMMA SendsRInv == ASSUME RInv, NEW c \in Calls, Sends(c) PROVE RInv'
  <1>1. /\ cfg' = cfg /\ spent' = spent /\ entry' = entry /\ shut' = shut /\ tries' = tries
        /\ at' = at /\ result' = result /\ flight' = flight /\ breaker' = breaker
        /\ limit' = limit /\ inFlight' = inFlight /\ waiters' = waiters /\ woken' = woken
        /\ job[c] = "held" /\ job' = [job EXCEPT ![c] = "sent"]
    BY DEF Sends, call, limiter, Turns
  <1>2. job' \in [Calls -> Phases] /\ \A d \in Calls : job'[d] = IF d = c THEN "sent" ELSE job[d]
    BY <1>1 DEF RInv, CInv, CallTypes, Phases
  <1>3. LInv'
    BY <1>1, <1>2, LimiterSame DEF RInv
  <1>4. CInv'
    BY <1>1, <1>2, CallStep DEF RInv, CInv, CallTypes
  <1> QED BY <1>3, <1>4 DEF RInv

LEMMA FreesRInv ==
    ASSUME RInv, NEW c \in Calls,
           NotSent(c) \/ Answered(c) \/ Retries(c) \/ Refused(c)
    PROVE  RInv'
  <1>1. /\ cfg' = cfg /\ spent' = spent /\ entry' = entry /\ shut' = shut /\ tries' = tries
        /\ job[c] \in {"held", "sent"} /\ c \in Out /\ (Cancels \/ Releases(TRUE) \/ Releases(FALSE))
    BY DEF NotSent, Answered, Retries, Refused, Out, Holds
  <1>2. ASSUME NEW phase \in {"none", "body", "backoff"}, job' = [job EXCEPT ![c] = phase] PROVE LInv'
    <2>1. phase \in Phases \ {"held", "sent", "queued"}
      BY DEF Phases
    <2> QED BY <1>1, <1>2, <2>1, LimitIsBounded DEF RInv
  <1>3. ASSUME NEW error \in Errors, Fails(c, error) PROVE RInv'
    <2>1. job' = [job EXCEPT ![c] = "none"] /\ tries' \in [Calls -> Nat]
      BY <1>1, <1>3 DEF Fails, Turns, RInv, CInv, CallTypes
    <2>2. LInv'
      BY <1>2, <2>1
    <2>3. CInv'
      BY <1>1, <1>3, <2>1, FailsCInv DEF RInv
    <2> QED BY <2>2, <2>3 DEF RInv
  <1>4. CASE NotSent(c) \/ Refused(c)
    <2>1. \E error \in {"fatal", "deadline_exceeded", "transient"} : Fails(c, error)
      BY <1>4 DEF NotSent, Refused
    <2> QED BY <1>3, <2>1 DEF Errors, Fatal
  <1>5. ASSUME NEW phase \in {"none", "body", "backoff"}, job' = [job EXCEPT ![c] = phase],
               at' = at, result' = result, flight' = flight,
               breaker' \in {"closed", "open", "halfOpen", "probe"}, phase = "body" => Attached(c)
        PROVE  RInv'
    <2>1. job' \in [Calls -> Phases] /\ \A d \in Calls : job'[d] = IF d = c THEN phase ELSE job[d]
      BY <1>5 DEF RInv, CInv, CallTypes, Phases
    <2>2. CInv'
      BY <1>1, <1>5, <2>1, CallStep DEF RInv, CInv, CallTypes
    <2> QED BY <1>2, <1>5, <2>2 DEF RInv
  <1>6. CASE Retries(c)
    <2>1. /\ job' = [job EXCEPT ![c] = "backoff"] /\ at' = at /\ result' = result /\ flight' = flight
          /\ breaker' \in {"closed", "open", "halfOpen", "probe"}
      BY <1>6 DEF Retries, call, Turns, RInv, CInv, CallTypes
    <2> QED BY <1>5, <2>1
  <1>7. CASE Answered(c)
    <2>1. breaker' \in {"closed", "open", "halfOpen", "probe"}
      BY <1>7 DEF Answered, Returns, Succeeds, RInv, CInv, CallTypes
    <2>2. CASE at' = at /\ result' = result /\ flight' = flight
      <3>1. \E phase \in {"none", "body", "backoff"} :
               job' = [job EXCEPT ![c] = phase] /\ (phase = "body" => Attached(c))
        BY <1>7 DEF Answered, Returns, Turns
      <3> QED BY <1>5, <2>1, <2>2, <3>1
    <2>3. CASE Attached(c) /\ Turns(c, "none") /\ Settles(c, "response")
      <3>1. /\ job' = [job EXCEPT ![c] = "none"] /\ job' \in [Calls -> Phases] /\ job'[c] = "none"
            /\ \A d \in Calls \ {c} : job'[d] = job[d]
        BY <2>3 DEF Turns, RInv, CInv, CallTypes, Phases
      <3>2. LInv'
        BY <1>2, <3>1
      <3>3. CInv'
        BY <1>1, <2>1, <2>3, <3>1, SettlesCInv DEF RInv, CInv, CallTypes
      <3> QED BY <3>2, <3>3 DEF RInv
    <2> QED BY <1>7, <2>2, <2>3 DEF Answered, Returns, call
  <1> QED BY <1>4, <1>6, <1>7

LEMMA StoresRInv == ASSUME RInv, NEW c \in Calls, Stores(c) PROVE RInv'
  <1>1. /\ cfg' = cfg /\ spent' = spent /\ shut' = shut /\ tries' = tries /\ breaker' = breaker
        /\ limit' = limit /\ inFlight' = inFlight /\ waiters' = waiters /\ woken' = woken
        /\ job[c] = "body" /\ job' = [job EXCEPT ![c] = "none"] /\ entry' \in {entry, "fresh"}
        /\ Settles(c, "response")
    BY DEF Stores, limiter, Turns
  <1>2. job' \in [Calls -> Phases] /\ \A d \in Calls : job'[d] = IF d = c THEN "none" ELSE job[d]
    BY <1>1 DEF RInv, CInv, CallTypes, Phases
  <1>3. LInv'
    BY <1>1, <1>2, LimiterSame DEF RInv
  <1>4. Attached(c)
    BY <1>1 DEF RInv, CInv, JobInv
  <1>5. "response" \in Errors \union {"response"} /\ entry' \in {"none", "fresh", "stale", "expired"}
        /\ breaker' \in {"closed", "open", "halfOpen", "probe"} /\ tries' \in [Calls -> Nat]
    BY <1>1 DEF RInv, CInv, CallTypes
  <1>6. CInv'
    BY <1>1, <1>2, <1>4, <1>5, SettlesCInv DEF RInv
  <1> QED BY <1>3, <1>6 DEF RInv

LEMMA TimesOutRInv == ASSUME RInv, NEW c \in Calls, TimesOut(c) PROVE RInv'
  <1>1. /\ cfg' = cfg /\ spent' = spent /\ shut' = shut /\ tries' = tries /\ entry' = entry /\ job' = job
        /\ limit' = limit /\ inFlight' = inFlight /\ waiters' = waiters /\ woken' = woken
        /\ job[c] \notin {"none", "body"} /\ Attached(c) /\ Settles(c, "transient")
        /\ breaker' \in {breaker, "open"}
    BY DEF TimesOut, limiter, Trips, Holds
  <1>2. LInv'
    BY <1>1, LimiterSame DEF RInv
  <1>3. "transient" \in Errors \union {"response"} /\ entry' \in {"none", "fresh", "stale", "expired"}
        /\ breaker' \in {"closed", "open", "halfOpen", "probe"} /\ tries' \in [Calls -> Nat]
        /\ job' \in [Calls -> Phases]
    BY <1>1 DEF RInv, CInv, CallTypes, Errors
  <1>4. CInv'
    BY <1>1, <1>3, SettlesCInv DEF RInv
  <1> QED BY <1>2, <1>4 DEF RInv

\* send(), the cache and the fallback: no slot is touched.
LEMMA RequestsRInv ==
    ASSUME RInv, NEW c \in Calls, Begins(c) \/ Looks(c) \/ ServesStale(c) \/ FallsBack(c)
    PROVE  RInv'
  <1>1. /\ cfg' = cfg /\ spent' = spent /\ shut' = shut /\ tries' = tries
        /\ limit' = limit /\ inFlight' = inFlight /\ waiters' = waiters /\ woken' = woken
    BY DEF Begins, Looks, ServesStale, FallsBack, limiter
  <1>2. job' = job \/ (job[c] = "none" /\ job' = [job EXCEPT ![c] = "fired"])
    BY DEF Begins, Looks, ServesStale, FallsBack, Issues, Turns, RInv, CInv, JobInv
  <1>3. LInv'
    <2>1. \A d \in Calls : job'[d] = job[d] \/ (job[d] = "none" /\ job'[d] = "fired")
      BY <1>2 DEF RInv, CInv, CallTypes
    <2> QED BY <1>1, <2>1, LimiterSame DEF RInv
  <1>4. /\ CInv /\ entry \in {"none", "fresh", "stale", "expired"}
        /\ breaker \in {"closed", "open", "halfOpen", "probe"}
        /\ {"fatal", "transient", "response"} \subseteq Errors \union {"response"}
    BY DEF RInv, CInv, CallTypes, Errors, Fatal
  <1>5. CASE Begins(c)
    <2>1. at[c] = "new" /\ entry' = entry
      BY <1>5 DEF Begins
    <2>2. CASE shut # "up"
      <3>1. /\ at' = [at EXCEPT ![c] = "over"] /\ Told(c, "fatal") /\ job' = job
            /\ breaker' = breaker /\ flight' = flight
        BY <1>5, <2>2 DEF Begins
      <3> QED BY <1>1, <1>3, <1>4, <2>1, <3>1, AnsweredAtOnce DEF RInv
    <2>3. CASE shut = "up" /\ Keyed(c) /\ cfg.cache
      <3>1. /\ at' = [at EXCEPT ![c] = "lookup"] /\ result' = result /\ job' = job
            /\ breaker' = breaker /\ flight' = flight
        BY <1>5, <2>3 DEF Begins
      <3>2. \A d \in Calls : at'[d] = IF d = c THEN "lookup" ELSE at[d]
        BY <3>1 DEF RInv, CInv, CallTypes
      <3>3. CallTypes'
        BY <1>1, <2>1, <3>1 DEF RInv, CInv, CallTypes
      <3>4. JobInv' /\ FlightInv'
        BY <1>1, <2>1, <3>1, <3>2, ClientAssumption DEF RInv, CInv, JobInv, FlightInv, Keyed, CallTypes, Attached
      <3>5. ClosedInv'
        BY <1>1, <3>1 DEF RInv, CInv, ClosedInv, JobsAreOver, Holds
      <3> QED BY <1>3, <3>3, <3>4, <3>5 DEF RInv, CInv
    <2>4. CASE shut = "up" /\ ~(Keyed(c) /\ cfg.cache)
      <3>1. Issues(c)
        BY <1>5, <2>4 DEF Begins
      <3> QED BY <1>1, <1>3, <1>4, <2>1, <3>1, IssuesCInv DEF RInv
    <2> QED BY <2>2, <2>3, <2>4
  <1>6. CASE Looks(c)
    <2>1. at[c] = "lookup" /\ entry' \in {entry, "none"}
      BY <1>6 DEF Looks
    <2>2. CASE Ends(c, "response") /\ UNCHANGED <<job, breaker, flight, entry>>
      <3>1. at' = [at EXCEPT ![c] = Ending(c, "response")] /\ Told(c, "response")
            /\ Ending(c, "response") \in {"fallback", "over"}
        BY <2>2 DEF Ends, Ending
      <3> QED BY <1>1, <1>3, <1>4, <2>1, <2>2, <3>1, AnsweredAtOnce DEF RInv
    <2>3. CASE Issues(c)
      BY <1>1, <1>3, <1>4, <2>1, <2>3, IssuesCInv DEF RInv
    <2> QED BY <1>6, <2>2, <2>3 DEF Looks
  <1>7. CASE ServesStale(c)
    <2>1. at[c] = "lookup" /\ entry' = entry /\ flight' = flight /\ Told(c, "response")
      BY <1>7 DEF ServesStale
    <2>2. CASE Fires
      <3>1. /\ at' = [at EXCEPT ![c] = "behind"] /\ job' = [job EXCEPT ![c] = "fired"]
            /\ breaker' = IF breaker = "halfOpen" THEN "probe" ELSE breaker
        BY <1>7, <2>2 DEF ServesStale, Turns
      <3>2. \A d \in Calls : /\ at'[d] = IF d = c THEN "behind" ELSE at[d]
                             /\ job'[d] = IF d = c THEN "fired" ELSE job[d]
        BY <3>1 DEF RInv, CInv, CallTypes
      <3>3. CallTypes'
        BY <1>1, <2>1, <3>1 DEF RInv, CInv, CallTypes, Phases, Told
      <3>4. JobInv' /\ FlightInv'
        BY <1>1, <2>1, <3>2, ClientAssumption DEF RInv, CInv, JobInv, FlightInv, Keyed, CallTypes, Attached
      <3>5. ClosedInv'
        BY <1>1, <2>2 DEF Fires, ClosedInv
      <3> QED BY <1>3, <3>3, <3>4, <3>5 DEF RInv, CInv
    <2>3. CASE ~Fires
      <3>1. /\ at' = [at EXCEPT ![c] = "over"] /\ job' = job /\ breaker' \in {breaker, "open"}
        BY <1>7, <2>3 DEF ServesStale, Refuses, Trips
      <3> QED BY <1>1, <1>3, <1>4, <2>1, <3>1, AnsweredAtOnce DEF RInv
    <2> QED BY <2>2, <2>3
  <1>8. CASE FallsBack(c)
    <2>1. /\ at[c] = "fallback" /\ at' = [at EXCEPT ![c] = "over"] /\ flight' = flight /\ job' = job
          /\ breaker' = breaker /\ entry' = entry /\ \E r \in {result[c], "response"} : Told(c, r)
      BY <1>8 DEF FallsBack
    <2>2. \A d \in Calls : at'[d] = IF d = c THEN "over" ELSE at[d]
      BY <2>1 DEF RInv, CInv, CallTypes
    <2>3. CallTypes'
      BY <1>1, <2>1 DEF RInv, CInv, CallTypes, Told
    <2>4. JobInv' /\ FlightInv'
      BY <1>1, <2>1, <2>2, ClientAssumption DEF RInv, CInv, JobInv, FlightInv, Keyed, CallTypes, Attached
    <2>5. ClosedInv'
      BY <1>1, <2>1 DEF RInv, CInv, ClosedInv, JobsAreOver, Holds
    <2> QED BY <1>3, <2>3, <2>4, <2>5 DEF RInv, CInv
  <1> QED BY <1>5, <1>6, <1>7, <1>8

\* The budget, the cache's age, the breaker's reset and the shutdown.
LEMMA OthersRInv ==
    ASSUME RInv,
           UNCHANGED vars \/ Others \/ ShutsDown \/ Exits
           \/ \E c \in Calls : BudgetRunsOut(c) \/ SignalTimesOut(c)
    PROVE  RInv'
  <1>1. /\ cfg' = cfg /\ at' = at /\ result' = result /\ flight' = flight /\ job' = job /\ tries' = tries
        /\ limit' = limit /\ inFlight' = inFlight /\ waiters' = waiters /\ woken' = woken
    BY DEF vars, call, limiter, Exits, Others, Ages, HalfOpens, ShutdownBegins,
           ShutsDown, Drained, Closes, BudgetRunsOut, SignalTimesOut
  <1>2. LInv'
    BY <1>1, LimiterSame DEF RInv
  <1>3. CallTypes'
    BY <1>1 DEF RInv, CInv, CallTypes, vars, Exits, Others, Ages, HalfOpens, ShutdownBegins,
                ShutsDown, Drained, Closes, BudgetRunsOut, SignalTimesOut
  <1>4. JobInv' /\ FlightInv'
    BY <1>1 DEF RInv, CInv, JobInv, FlightInv, Keyed, Attached
  <1>5. ClosedInv'
    <2>1. shut' = shut \/ shut' # "closed" \/ JobsAreOver
      BY DEF vars, Exits, Others, Ages, HalfOpens, ShutdownBegins, ShutsDown, Drained, Closes,
             BudgetRunsOut, SignalTimesOut
    <2> QED BY <1>1, <2>1 DEF RInv, CInv, ClosedInv, JobsAreOver, Holds
  <1> QED BY <1>2, <1>3, <1>4, <1>5 DEF RInv, CInv

LEMMA NextRInv == ASSUME RInv, [Next]_vars PROVE RInv'
  BY AttemptsRInv, WakesRInv, SendsRInv, FreesRInv, StoresRInv, TimesOutRInv, RequestsRInv, OthersRInv
     DEF Next, Step, Runs, Timer

\* A promise that rejects ends the process only if it is that of coalesced calls.
LEMMA SettlesProcess ==
    ASSUME RInv, ProcessInv, NEW c \in Calls, NEW r, Settles(c, r)
    PROVE  /\ process' \in {"up", "crashing", "gone"} /\ (process' # "up" => cfg.coalesce)
           /\ flight' # None => cfg.coalesce
  BY ClientAssumption DEF ProcessInv, Settles, Rejects

LEMMA IssuesProcess ==
    ASSUME RInv, ProcessInv, NEW c \in Calls, Issues(c)
    PROVE  /\ process' \in {"up", "crashing", "gone"} /\ (process' # "up" => cfg.coalesce)
           /\ flight' # None => cfg.coalesce
  BY DEF ProcessInv, Issues, Rejects

LEMMA NextProcess == ASSUME RInv, ProcessInv, [Next]_vars PROVE ProcessInv'
  <1>1. cfg' = cfg
    BY DEF Next, Step, Timer, Others, ShutsDown, Exits, Runs, Begins, Looks, ServesStale, FallsBack,
           Attempts, Wakes, Sends, NotSent, Answered, Retries, Refused, Stores, BudgetRunsOut,
           SignalTimesOut, TimesOut, Ages, HalfOpens, ShutdownBegins, Drained, Closes, vars
  <1>2. spent' \subseteq cfg.budgeted /\ expired' \subseteq Calls
    <2>1. cfg.signalled \subseteq Calls
      BY ClientAssumption DEF RInv, CInv, CallTypes, Config
    <2> QED BY <2>1
        DEF ProcessInv,
            Next, Step, Timer, Others, ShutsDown, Exits, Runs, Begins, Looks, ServesStale, FallsBack,
            Attempts, Wakes, Sends, NotSent, Answered, Retries, Refused, Stores, BudgetRunsOut,
            SignalTimesOut, TimesOut, Ages, HalfOpens, ShutdownBegins, Drained, Closes, vars
  <1>3. CASE UNCHANGED <<process, flight>>
    BY <1>1, <1>2, <1>3 DEF ProcessInv
  <1>4. ASSUME NEW c \in Calls, NEW r, Settles(c, r) PROVE ProcessInv'
    BY <1>1, <1>2, <1>4, SettlesProcess DEF ProcessInv
  <1>5. ASSUME NEW c \in Calls, Issues(c) PROVE ProcessInv'
    BY <1>1, <1>2, <1>5, IssuesProcess DEF ProcessInv
  <1>6. ASSUME NEW c \in Calls, Begins(c) \/ Looks(c) \/ ServesStale(c) \/ FallsBack(c) PROVE ProcessInv'
    BY <1>3, <1>5, <1>6 DEF Begins, Looks, ServesStale, FallsBack
  <1>7. ASSUME NEW c \in Calls, Runs(c) \/ TimesOut(c) PROVE ProcessInv'
    <2>1. UNCHANGED <<process, flight>> \/ \E r \in Errors \union {"response"} : Settles(c, r)
      BY <1>7 DEF Runs, Attempts, Wakes, Sends, NotSent, Answered, Retries, Refused, Stores, TimesOut,
                  Fails, Returns, call, Errors, Fatal
    <2> QED BY <1>3, <1>4, <2>1
  <1>8. CASE Exits
    <2>1. process' = "gone" /\ process = "crashing" /\ flight' = flight
      BY <1>8 DEF Exits
    <2> QED BY <1>1, <1>2, <2>1 DEF ProcessInv
  <1>9. CASE UNCHANGED vars \/ Others \/ ShutsDown \/ \E c \in Calls : BudgetRunsOut(c) \/ SignalTimesOut(c)
    <2>1. UNCHANGED <<process, flight>>
      BY <1>9 DEF vars, call, Others, Ages, HalfOpens, ShutdownBegins, ShutsDown, Drained, Closes,
                  BudgetRunsOut, SignalTimesOut
    <2> QED BY <1>3, <2>1
  <1> QED BY <1>6, <1>7, <1>8, <1>9 DEF Next, Step, Timer

LEMMA InitRInv == Init => RInv
  <1> SUFFICES ASSUME Init PROVE RInv
    OBVIOUS
  <1>1. cfg \in Configs /\ limit \in cfg.min .. cfg.max /\ cfg.max \in Nat
    BY ConfigTypes DEF Init
  <1>2. Out = {}
    BY DEF Init, Out, Holds
  <1>3. LInv
    BY <1>1, <1>2, FS_EmptySet DEF Init, LInv, LimiterTypes, SlotsInv
  <1>4. CInv
    BY DEF Init, CInv, CallTypes, JobInv, FlightInv, ClosedInv, Phases, Attached
  <1> QED BY <1>3, <1>4 DEF RInv

------------------------------------------------------------------------------
(* What a step sends and tells.                                            *)

\* What a caller is told: that its deadline has passed only if the execution it waited
\* for was out of time or aborted for its time, and nothing final as long as one of its own runs.
ToldRightly(c) ==
    result'[c] # result[c] =>
        /\ result'[c] = "deadline_exceeded" => TimeoutAbort(IF at[c] = "joined" THEN flight ELSE c)
        /\ result'[c] \in Fatal => job'[c] = "none"

\* Only the time that has run out is told as a deadline, and only an execution that ends
\* tells it.
LEMMA SettlesTellsRightly ==
    ASSUME RInv, NEW c \in Calls, Attached(c), NEW r \in Errors \union {"response"}, Settles(c, r),
           r = "deadline_exceeded" => TimeoutAbort(c),
           \A d \in Calls \ {c} : job'[d] = job[d], r \in Fatal => job'[c] = "none"
    PROVE  \A d \in Calls : ToldRightly(d)
  <1> SUFFICES ASSUME NEW d \in Calls PROVE ToldRightly(d)
    OBVIOUS
  <1>1. result'[d] = IF (at[d] = "joined" /\ flight = c) \/ (d = c /\ at[c] = "own") THEN r ELSE result[d]
    BY DEF Settles
  <1>2. CASE at[d] = "joined" /\ flight = c
    <2>1. job[d] = "none" /\ d # c
      BY <1>2 DEF RInv, CInv, JobInv, Attached
    <2> QED BY <1>1, <1>2, <2>1 DEF ToldRightly
  <1>3. CASE d = c /\ at[c] = "own"
    BY <1>1, <1>3 DEF ToldRightly
  <1>4. CASE ~(at[d] = "joined" /\ flight = c) /\ ~(d = c /\ at[c] = "own")
    BY <1>1, <1>4 DEF ToldRightly
  <1> QED BY <1>2, <1>3, <1>4

LEMMA FailsTellsRightly ==
    ASSUME RInv, NEW c \in Calls, NEW r \in Errors, Fails(c, r), r = "deadline_exceeded" => TimeoutAbort(c)
    PROVE  \A d \in Calls : ToldRightly(d)
  <1>1. CASE Attached(c)
    <2>1. Settles(c, r) /\ job'[c] = "none" /\ \A d \in Calls \ {c} : job'[d] = job[d]
      BY <1>1 DEF Fails, Turns, RInv, CInv, CallTypes
    <2> QED BY <1>1, <2>1, SettlesTellsRightly
  <1>2. CASE ~Attached(c)
    BY <1>2 DEF Fails, call, ToldRightly
  <1> QED BY <1>1, <1>2

\* One call alone is told something.
LEMMA TellsOne ==
    ASSUME RInv, NEW c \in Calls, NEW r, Told(c, r), r # "deadline_exceeded" \/ r = result[c],
           r = result[c] \/ (r \in Fatal => job'[c] = "none")
    PROVE  \A d \in Calls : ToldRightly(d)
  <1>1. \A d \in Calls : result'[d] = IF d = c THEN r ELSE result[d]
    BY DEF Told, RInv, CInv, CallTypes
  <1> QED BY <1>1 DEF ToldRightly

LEMMA IssuesTellsRightly ==
    ASSUME RInv, NEW c \in Calls, Issues(c)
    PROVE  \A d \in Calls : ToldRightly(d)
  <1>1. "transient" \notin Fatal /\ "transient" # "deadline_exceeded"
    BY DEF Fatal
  <1>2. CASE result' = result
    BY <1>2 DEF ToldRightly
  <1>3. CASE Told(c, "transient")
    BY <1>1, <1>3, TellsOne
  <1> QED BY <1>2, <1>3 DEF Issues, Ends

LEMMA RequestsTellRightly ==
    ASSUME RInv, NEW c \in Calls, Begins(c) \/ Looks(c) \/ ServesStale(c) \/ FallsBack(c)
    PROVE  \A d \in Calls : ToldRightly(d)
  <1>1. {"response", "transient"} \intersect Fatal = {} /\ "fatal" # "deadline_exceeded"
        /\ "response" # "deadline_exceeded"
    BY DEF Fatal
  <1>2. CASE result' = result
    BY <1>2 DEF ToldRightly
  <1>3. CASE Issues(c)
    BY <1>3, IssuesTellsRightly
  <1>4. CASE Told(c, "response")
    BY <1>1, <1>4, TellsOne
  <1>5. CASE Told(c, result[c])
    BY <1>5, TellsOne
  <1>6. CASE Begins(c) /\ shut # "up"
    <2>1. Told(c, "fatal") /\ job' = job /\ job[c] = "none"
      BY <1>6 DEF Begins, RInv, CInv, JobInv
    <2> QED BY <1>1, <2>1, TellsOne
  <1> QED BY <1>2, <1>3, <1>4, <1>5, <1>6 DEF Begins, Looks, ServesStale, FallsBack, Ends

LEMMA RunsTellRightly ==
    ASSUME RInv, ProcessInv, NEW c \in Calls, Runs(c) \/ TimesOut(c)
    PROVE  \A d \in Calls : ToldRightly(d)
  <1>1. {"fatal", "deadline_exceeded", "transient"} \subseteq Errors
        /\ "response" \in Errors \union {"response"} /\ {"response", "transient"} \intersect Fatal = {}
        /\ "transient" \notin {"fatal", "deadline_exceeded"} /\ "fatal" # "deadline_exceeded"
        /\ "response" # "deadline_exceeded"
    BY DEF Errors, Fatal
  <1>0. c \in spent => TimeoutAbort(c)
    BY DEF ProcessInv, TimeoutAbort
  <1>2. CASE result' = result
    BY <1>2 DEF ToldRightly
  <1>3. CASE Fails(c, "deadline_exceeded") /\ TimeoutAbort(c)
    BY <1>1, <1>3, FailsTellsRightly
  <1>4. ASSUME NEW r \in {"fatal", "transient"}, Fails(c, r) PROVE \A d \in Calls : ToldRightly(d)
    BY <1>1, <1>4, FailsTellsRightly
  <1>5. CASE Attached(c) /\ Turns(c, "none") /\ Settles(c, "response")
    <2>1. \A d \in Calls \ {c} : job'[d] = job[d]
      BY <1>5 DEF Turns, RInv, CInv, CallTypes
    <2> QED BY <1>1, <1>5, <2>1, SettlesTellsRightly
  <1>6. CASE TimesOut(c)
    <2>1. Attached(c) /\ Settles(c, "transient") /\ job' = job
      BY <1>6 DEF TimesOut
    <2> QED BY <1>1, <2>1, SettlesTellsRightly
  <1>7. CASE Stores(c)
    <2>1. Attached(c) /\ Turns(c, "none") /\ Settles(c, "response")
      BY <1>7 DEF Stores, RInv, CInv, JobInv
    <2> QED BY <1>5, <2>1
  <1>8. CASE Attempts(c) \/ Wakes(c) \/ Sends(c) \/ Retries(c)
    BY <1>0, <1>2, <1>3, <1>8 DEF Attempts, Wakes, Sends, Retries, call
  <1>9. CASE NotSent(c) \/ Refused(c)
    BY <1>0, <1>3, <1>4, <1>9 DEF NotSent, Refused
  <1>10. CASE Answered(c)
    BY <1>2, <1>5, <1>10 DEF Answered, Returns, call
  <1> QED BY <1>6, <1>7, <1>8, <1>9, <1>10 DEF Runs

LEMMA NextTellsRightly == ASSUME RInv, ProcessInv, [Next]_vars PROVE \A d \in Calls : ToldRightly(d)
  <1>1. CASE \/ UNCHANGED vars \/ Others \/ ShutsDown \/ Exits
             \/ \E c \in Calls : BudgetRunsOut(c) \/ SignalTimesOut(c)
    <2>1. result' = result
      BY <1>1 DEF vars, call, Exits, Others, Ages, HalfOpens, ShutdownBegins, ShutsDown, Drained, Closes,
                  BudgetRunsOut, SignalTimesOut
    <2> QED BY <2>1 DEF ToldRightly
  <1> QED BY <1>1, RequestsTellRightly, RunsTellRightly DEF Next, Step, Timer

LEMMA NextSendsInTime ==
    ASSUME RInv, [Next]_vars, NEW c \in Calls, job[c] = "held", job'[c] = "sent"
    PROVE  c \notin spent
  <1>1. job \in [Calls -> Phases]
    BY DEF RInv, CInv, CallTypes
  <1>2. ASSUME NEW d \in Calls, Runs(d) PROVE c \notin spent
    <2>1. CASE Sends(d)
      BY <1>1, <2>1 DEF Sends, Turns, TimeIsLeft
    <2>2. CASE ~Sends(d)
      <3>1. \E phase \in Phases \ {"sent"} : job' = [job EXCEPT ![d] = phase]
        BY <1>2, <2>2 DEF Runs, Attempts, Wakes, NotSent, Answered, Retries, Refused, Stores,
                          Acquires, Fails, Returns, Turns, Phases
      <3> QED BY <1>1, <3>1
    <2> QED BY <2>1, <2>2
  <1>3. ASSUME NEW d \in Calls, Begins(d) \/ Looks(d) \/ ServesStale(d) \/ FallsBack(d) PROVE c \notin spent
    <2>1. job' = job \/ job' = [job EXCEPT ![d] = "fired"]
      BY <1>3 DEF Begins, Looks, ServesStale, FallsBack, Issues, Turns
    <2> QED BY <1>1, <2>1
  <1>4. ASSUME job' = job PROVE c \notin spent
    BY <1>4
  <1> QED BY <1>2, <1>3, <1>4 DEF Next, Step, Timer, vars, Exits, Others, Ages, HalfOpens,
                                  ShutdownBegins, ShutsDown, Drained, Closes, BudgetRunsOut,
                                  SignalTimesOut, TimesOut

------------------------------------------------------------------------------
(* Theorems.                                                               *)

LEMMA SpecRInv == Spec => [](RInv /\ ProcessInv)
  <1>1. RInv /\ ProcessInv /\ [Next]_vars => (RInv /\ ProcessInv)'
    BY NextRInv, NextProcess
  <1>2. Init => ProcessInv
    BY DEF Init, ProcessInv
  <1> QED BY InitRInv, <1>1, <1>2, PTL DEF Spec

\* Types of the client: the adaptive limit never leaves minLimit .. maxLimit, and its
\* count never becomes negative, however often a slot is given back or cancelled.
THEOREM ClientTypeCorrect == Spec => []TypeOK
  <1>1. RInv /\ ProcessInv => TypeOK
    BY DEF ProcessInv, RInv, LInv, CInv, LimiterTypes, CallTypes, TypeOK
  <1> QED BY <1>1, SpecRInv, PTL

\* AdaptiveConcurrencyLimiter gives out no more than maxLimit slots, loses none, and
\* wakes everybody it let wait as soon as there is room.
THEOREM LimiterStaysSound == Spec => []LimiterIsSound
  <1>1. RInv => LimiterIsSound
    BY DEF RInv, LInv, SlotsInv, Out, LimiterIsSound, Holds
  <1> QED BY <1>1, SpecRInv, PTL

\* #coalesce: of any number of calls that ask the same, one execution at most is
\* awaited, and who joined it finds it until it settles.
THEOREM OneExecutionForAll == Spec => []OneInFlight
  <1>1. ASSUME RInv PROVE OneInFlight
    <2> SUFFICES ASSUME cfg.coalesce
                 PROVE  /\ Cardinality({c \in Calls : at[c] = "own" /\ Keyed(c)}) <= 1
                        /\ \A c \in Calls : at[c] = "joined" => flight # None /\ at[flight] = "own"
      BY DEF OneInFlight
    <2>1. FlightInv
      BY <1>1 DEF RInv, CInv
    <2>2. {c \in Calls : at[c] = "own" /\ Keyed(c)} \in SUBSET {flight}
      BY <2>1 DEF FlightInv
    <2>3. IsFiniteSet({flight}) /\ Cardinality({flight}) = 1
      BY FS_Singleton
    <2>4. Cardinality({c \in Calls : at[c] = "own" /\ Keyed(c)}) <= 1
      BY <2>2, <2>3, FS_Subset
    <2> QED BY <2>1, <2>4 DEF FlightInv
  <1> QED BY <1>1, SpecRInv, PTL

\* #executeWithRetry looks at the clock after it has waited for a slot: no attempt goes
\* out past its caller's budget, none is out when close() has returned. A caller is told
\* that its time is over only when the execution it waited for had a budget, which was
\* spent, or the signal of that execution's caller had timed out; isTimeoutAbort does not
\* tell these apart.
THEOREM AttemptsKeepTime == Spec => AttemptsKeepToTheirTime
  <1>1. ASSUME RInv, ProcessInv, RInv', [Next]_vars
        PROVE  /\ \A c \in Calls : job[c] = "held" /\ job'[c] = "sent" => c \notin spent
               /\ shut' = "closed" => \A c \in Calls : job'[c] \in {"none", "body"}
               /\ \A c \in Calls : result'[c] # result[c] =>
                     /\ result'[c] = "deadline_exceeded" =>
                           TimeoutAbort(IF at[c] = "joined" THEN flight ELSE c)
                     /\ result'[c] \in Fatal => job'[c] = "none"
    <2>1. \A c \in Calls : job[c] = "held" /\ job'[c] = "sent" => c \notin spent
      BY <1>1, NextSendsInTime
    <2>2. shut' = "closed" => \A c \in Calls : job'[c] \in {"none", "body"}
      BY <1>1 DEF RInv, CInv, ClosedInv, JobsAreOver, Holds
    <2>3. \A c \in Calls : ToldRightly(c)
      BY <1>1, NextTellsRightly
    <2> QED BY <2>1, <2>2, <2>3 DEF ToldRightly
  <1> QED BY <1>1, SpecRInv, PTL DEF Spec, AttemptsKeepToTheirTime

\* The unhandled rejection of `void promise.finally(...)` is only that of a coalesced
\* execution: where calls are not coalesced the client never ends the process.
THEOREM OnlyCoalescingCrashes == Spec => [](process # "up" => cfg.coalesce)
  <1>1. ProcessInv => (process # "up" => cfg.coalesce)
    BY DEF ProcessInv
  <1> QED BY <1>1, SpecRInv, PTL
=============================================================================
