-------------------------- MODULE IdempotencyProofs --------------------------
(***************************************************************************)
(* Theorems about Idempotency for any number of requests and bodies and    *)
(* any number of faults.                                                   *)
(***************************************************************************)
EXTENDS Idempotency, FiniteSetTheorems, TLAPS

\* Whoever stores a result, now or with a write that is still late, has committed.
ResultsAreReal ==
    /\ \A r \in Requests : pc[r] = "save" \/ <<r, "save">> \in late => r \in executed
    /\ entry.kind = "result" => entry.by \in executed

\* Without evictors no request is about to evict, and a holder owns the entry.
OwnerInv ==
    evictors = {} /\ ~disturbed =>
        \A r \in Requests : pc[r] # "evict" /\ (pc[r] \in Holding => entry = Lock(r))

RInv == TypeOK /\ ResultsAreReal /\ ReplaysItsOwnRequest

\* A free entry and a lock are what their fields say.
LEMMA EntryFields ==
    ASSUME TypeOK
    PROVE  /\ entry.kind = "free" => entry = Free
           /\ entry.kind = "lock" => entry = Lock(entry.by)
  BY DEF TypeOK, Free, Lock

LEMMA InitRInv == Init => RInv /\ OwnerInv
  <1> SUFFICES ASSUME Init PROVE RInv /\ OwnerInv
    OBVIOUS
  <1> USE IdempotencyAssumption DEF Init, Free, Corrupt
  <1>1. TypeOK
    <2>1. entry \in [kind : {"free", "corrupt", "lock", "result"}, by : Requests \union {Nobody}]
      OBVIOUS
    <2>2. entry.kind \in {"lock", "result"} <=> entry.by \in Requests
      OBVIOUS
    <2>3. pc \in [Requests -> Calls \union Working \union Ended]
      BY DEF Calls
    <2>4. late \subseteq Requests \X Writes
      OBVIOUS
    <2>5. answer \in [Requests -> Requests \union {Nobody}] /\ disturbed \in BOOLEAN
      OBVIOUS
    <2>6. faults \in 0 .. MaxFaults
      OBVIOUS
    <2> HIDE DEF Free, Corrupt
    <2> QED BY <2>1, <2>2, <2>3, <2>4, <2>5, <2>6 DEF TypeOK
  <1>2. ResultsAreReal
    BY DEF ResultsAreReal
  <1>3. ReplaysItsOwnRequest
    BY DEF ReplaysItsOwnRequest
  <1>4. OwnerInv
    BY DEF OwnerInv, Holding
  <1> QED BY <1>1, <1>2, <1>3, <1>4 DEF RInv

------------------------------------------------------------------------------
(* Types, and what is replayed.                                            *)

LEMMA ProceedsRInv == ASSUME RInv, NEW r \in Requests, Proceeds(r) PROVE RInv'
  <1> USE IdempotencyAssumption, EntryFields
      DEF RInv, TypeOK, ResultsAreReal, ReplaysItsOwnRequest, Returns,
          Calls, Writes, Working, Ended, Free, Corrupt, Lock, Result
  <1>1. CASE FindsNothing(r) \/ FindsLock(r) \/ FindsCorrupt(r) \/ Evicts(r)
    BY <1>1 DEF FindsNothing, FindsLock, FindsCorrupt, Evicts
  <1>2. CASE FindsResult(r)
    BY <1>2 DEF FindsResult, SameRequest
  <1>3. CASE Step2(r)
    BY <1>3 DEF Step2, Acquires, LosesTheRace
  <1>4. CASE HandlerSucceeds(r)
    BY <1>4 DEF HandlerSucceeds, AfterSuccess
  <1>5. CASE HandlerFails(r)
    <2>1. TypeOK'
      BY <1>5 DEF HandlerFails, AfterError
    <2>2. ResultsAreReal'
      BY <1>5 DEF HandlerFails, AfterError
    <2>3. ReplaysItsOwnRequest'
      BY <1>5 DEF HandlerFails
    <2> QED BY <2>1, <2>2, <2>3
  <1>6. CASE Saves(r) \/ Releases(r)
    <2>1. TypeOK'
      BY <1>6 DEF Saves, Releases
    <2>2. ResultsAreReal'
      <3>1. \A q \in Requests : pc'[q] = "save" => pc[q] = "save"
        BY <1>6 DEF Saves, Releases
      <3>2. entry'.kind = "result" => pc[r] = "save" /\ entry'.by = r
        BY <1>6 DEF Saves, Releases
      <3>3. UNCHANGED <<late, executed>>
        BY <1>6 DEF Saves, Releases
      <3> QED BY <3>1, <3>2, <3>3
    <2>3. ReplaysItsOwnRequest'
      BY <1>6 DEF Saves, Releases
    <2> QED BY <2>1, <2>2, <2>3
  <1>7. CASE StoreCallRejected(r)
    BY <1>7 DEF StoreCallRejected, MayStillLand, OnRejection, Fault
  <1> QED BY <1>1, <1>2, <1>3, <1>4, <1>5, <1>6, <1>7 DEF Proceeds, Step1, Step3

LEMMA NextRInv == RInv /\ [Next]_vars => RInv'
  <1> SUFFICES ASSUME RInv, [Next]_vars PROVE RInv'
    OBVIOUS
  <1> USE IdempotencyAssumption, EntryFields
      DEF TypeOK, ResultsAreReal, ReplaysItsOwnRequest,
          Calls, Writes, Working, Ended, Free, Corrupt, Lock, Result
  <1>1. ASSUME NEW r \in Requests, Proceeds(r) PROVE RInv'
    BY <1>1, ProceedsRInv
  <1>2. ASSUME NEW r \in Requests, CommitAnswerLost(r) PROVE RInv'
    BY <1>2 DEF RInv, CommitAnswerLost, AfterError, Fault
  <1>3. ASSUME NEW r \in Requests, Crash(r) PROVE RInv'
    BY <1>3 DEF RInv, Crash, MayStillLand, Fault
  <1>4. ASSUME NEW r \in Requests, NEW call \in Writes, Lands(r, call) PROVE RInv'
    BY <1>4 DEF RInv, Lands, EntryIsFree
  <1>5. CASE Expires \/ ResultExpires
    <2>1. TypeOK'
      <3>1. faults' \in 0 .. MaxFaults
        BY <1>5 DEF RInv, Expires, ResultExpires, Fault
      <3>2. disturbed' \in BOOLEAN
        BY <1>5 DEF RInv, Expires, ResultExpires
      <3>3. entry' = Free /\ UNCHANGED <<body, pc, late, answer, executed, spent, evictors>>
        BY <1>5 DEF Expires, ResultExpires
      <3> QED BY <3>1, <3>2, <3>3 DEF RInv
    <2>2. ResultsAreReal' /\ ReplaysItsOwnRequest'
      BY <1>5 DEF RInv, Expires, ResultExpires
    <2> QED BY <2>1, <2>2 DEF RInv
  <1>6. CASE UNCHANGED vars
    BY <1>6 DEF RInv, vars
  <1> QED BY <1>1, <1>2, <1>3, <1>4, <1>5, <1>6 DEF Next

\* The type invariant of the interceptor and its store.
THEOREM IdempotencyTypeCorrect == Spec => []TypeOK
  <1>1. RInv => TypeOK
    BY DEF RInv
  <1> QED BY InitRInv, NextRInv, <1>1, PTL DEF Spec

\* However requests, late writes and crashes interleave, a client only ever gets
\* the committed result of a request with its own method, path and body.
THEOREM ReplaysMatch == Spec => []ReplaysItsOwnRequest
  <1>1. RInv => ReplaysItsOwnRequest
    BY DEF RInv
  <1> QED BY InitRInv, NextRInv, <1>1, PTL DEF Spec

------------------------------------------------------------------------------
(* Who owns the lock.                                                      *)

LEMMA NextOwnerInv ==
    ASSUME TypeOK, TypeOK', OwnerInv, [Next]_vars PROVE OwnerInv'
  <1> SUFFICES ASSUME evictors' = {}, ~disturbed', NEW s \in Requests
               PROVE  pc'[s] # "evict" /\ (pc'[s] \in Holding => entry' = Lock(s))
    BY DEF OwnerInv
  <1> USE EntryFields DEF TypeOK, OwnerInv, Holding, Calls, Writes, Working, Ended,
                          Free, Lock, Result, Returns
  <1>1. ASSUME NEW r \in Requests, Step1(r)
        PROVE  pc'[s] # "evict" /\ (pc'[s] \in Holding => entry' = Lock(s))
    BY <1>1 DEF Step1, FindsNothing, FindsLock, FindsResult, FindsCorrupt, Evicts
  <1>2. ASSUME NEW r \in Requests, Step2(r)
        PROVE  pc'[s] # "evict" /\ (pc'[s] \in Holding => entry' = Lock(s))
    BY <1>2 DEF Step2, Acquires, LosesTheRace, EntryIsFree
  <1>3. ASSUME NEW r \in Requests, HandlerSucceeds(r) \/ HandlerFails(r) \/ CommitAnswerLost(r)
        PROVE  pc'[s] # "evict" /\ (pc'[s] \in Holding => entry' = Lock(s))
    BY <1>3 DEF HandlerSucceeds, HandlerFails, CommitAnswerLost, AfterSuccess, AfterError
  <1>4. ASSUME NEW r \in Requests, Saves(r) \/ Releases(r)
        PROVE  pc'[s] # "evict" /\ (pc'[s] \in Holding => entry' = Lock(s))
    BY <1>4 DEF Saves, Releases
  <1>5. ASSUME NEW r \in Requests, StoreCallRejected(r) \/ Crash(r)
        PROVE  pc'[s] # "evict" /\ (pc'[s] \in Holding => entry' = Lock(s))
    BY <1>5 DEF StoreCallRejected, Crash, OnRejection
  <1>6. ASSUME NEW r \in Requests, NEW call \in Writes, Lands(r, call)
        PROVE  pc'[s] # "evict" /\ (pc'[s] \in Holding => entry' = Lock(s))
    BY <1>6 DEF Lands
  <1>7. CASE Expires \/ ResultExpires
    BY <1>7 DEF Expires, ResultExpires
  <1>8. CASE UNCHANGED vars
    BY <1>8 DEF vars
  <1> QED
    BY <1>1, <1>2, <1>3, <1>4, <1>5, <1>6, <1>7, <1>8 DEF Next, Proceeds, Step3

\* No other fault the store or a process can have lets one request replace or delete
\* the lock of another; only a late write, a lock that expires before its request is
\* over, and the eviction of an unreadable entry do.
THEOREM HolderOwns == Spec => []HolderOwnsTheEntry
  <1>1. OwnerInv => HolderOwnsTheEntry
    BY DEF OwnerInv, HolderOwnsTheEntry
  <1>2. Init => OwnerInv
    BY InitRInv
  <1>3. TypeOK /\ TypeOK' /\ OwnerInv /\ [Next]_vars => OwnerInv'
    BY NextOwnerInv
  <1> QED BY <1>1, <1>2, <1>3, IdempotencyTypeCorrect, PTL DEF Spec

------------------------------------------------------------------------------
(* What was answered.                                                      *)

\* With a store that does not fail, a request goes on without the lock only when its
\* budget is spent.
KeptInv ==
    faults = 0 /\ evictors = {} /\ ~disturbed =>
        \A r \in Requests : /\ pc[r] = "unguarded" => r \in spent
                            /\ pc[r] = "answered" /\ r \notin spent => entry = Result(r)

LEMMA NextKeptInv ==
    ASSUME TypeOK, OwnerInv, KeptInv, [Next]_vars PROVE KeptInv'
  <1> SUFFICES ASSUME faults' = 0, evictors' = {}, ~disturbed', NEW s \in Requests
               PROVE  /\ pc'[s] = "unguarded" => s \in spent'
                      /\ pc'[s] = "answered" /\ s \notin spent' => entry' = Result(s)
    BY DEF KeptInv
  <1> DEFINE Kept == /\ pc'[s] = "unguarded" => s \in spent'
                     /\ pc'[s] = "answered" /\ s \notin spent' => entry' = Result(s)
  <1> USE IdempotencyAssumption
      DEF TypeOK, OwnerInv, KeptInv, Holding, Calls, Writes, Working, Ended, Free, Lock, Result, Returns
  <1>1. ASSUME NEW r \in Requests, Step1(r) PROVE Kept
    BY <1>1 DEF Step1, FindsNothing, FindsLock, FindsResult, FindsCorrupt, Evicts
  <1>2. ASSUME NEW r \in Requests, Step2(r) PROVE Kept
    BY <1>2 DEF Step2, Acquires, LosesTheRace, EntryIsFree
  <1>3. ASSUME NEW r \in Requests, HandlerSucceeds(r) \/ HandlerFails(r) PROVE Kept
    BY <1>3 DEF HandlerSucceeds, HandlerFails, AfterSuccess, AfterError
  <1>4. ASSUME NEW r \in Requests, Saves(r) \/ Releases(r) PROVE Kept
    BY <1>4 DEF Saves, Releases
  <1>5. ASSUME NEW r \in Requests, StoreCallRejected(r) PROVE Kept
    BY <1>5 DEF StoreCallRejected, OnRejection, Fault
  <1>6. ASSUME NEW r \in Requests, CommitAnswerLost(r) \/ Crash(r) PROVE Kept
    BY <1>6 DEF CommitAnswerLost, Crash, Fault
  <1>7. ASSUME NEW r \in Requests, NEW call \in Writes, Lands(r, call) PROVE Kept
    BY <1>7 DEF Lands
  <1>8. CASE Expires \/ ResultExpires
    BY <1>8 DEF Expires, ResultExpires, Fault
  <1>9. CASE UNCHANGED vars
    BY <1>9 DEF vars
  <1> QED
    BY <1>1, <1>2, <1>3, <1>4, <1>5, <1>6, <1>7, <1>8, <1>9 DEF Next, Proceeds, Step3

\* What a client was answered within its budget is what the store has for its retries,
\* however many others race for the key, fail, run out of time or come with another
\* body (idempotency.interceptor.ts).
THEOREM AnswersAreKept == Spec => []AnswerIsKept
  <1>1. KeptInv => AnswerIsKept
    BY DEF KeptInv, AnswerIsKept
  <1>2. Init => KeptInv
    BY DEF Init, KeptInv
  <1>3. Init => OwnerInv
    BY InitRInv
  <1>4. TypeOK /\ TypeOK' /\ OwnerInv /\ [Next]_vars => OwnerInv'
    BY NextOwnerInv
  <1>5. TypeOK /\ OwnerInv /\ KeptInv /\ [Next]_vars => KeptInv'
    BY NextKeptInv
  <1> QED BY <1>1, <1>2, <1>3, <1>4, <1>5, IdempotencyTypeCorrect, PTL DEF Spec

------------------------------------------------------------------------------
(* What a run of the handler costs.                                        *)

\* A request that may still run the handler, or let another one do so: it runs it
\* with a budget left, or is about to clear the entry.
MayRun == {r \in Requests : pc[r] \in {"evict", "release"} \/ (pc[r] \in Working /\ r \notin spent)}

\* The entry lets a request in, now or when its lock expires.
EntryOpens ==
    entry.kind = "free" \/ (entry.kind = "lock" /\ pc[entry.by] \notin Holding)

\* The runs that may come without another excuse.
Chances ==
    (MayRun \X {"run"}) \union (late \intersect (Requests \X {"evict", "release"}))
        \union (IF EntryOpens THEN {<<Nobody, "free">>} ELSE {})

Charged ==
    /\ IsFiniteSet(executed) /\ IsFiniteSet(Chances)
    /\ IsFiniteSet(spent) /\ IsFiniteSet(evictors)
    /\ Cardinality(executed) + Cardinality(Chances)
         <= 1 + faults + Cardinality(spent) + Cardinality(evictors)

\* A budget runs out, and an entry is found unreadable, once for a request.
OnceInv ==
    \A r \in Requests : /\ pc[r] \in {"running", "save"} => r \notin spent
                        /\ pc[r] = "get" => r \notin evictors

EInv == TypeOK /\ OnceInv /\ Charged

LEMMA InitEInv == Init => EInv
  <1> SUFFICES ASSUME Init PROVE EInv
    OBVIOUS
  <1>1. TypeOK
    BY InitRInv DEF RInv
  <1>2. OnceInv
    BY DEF Init, OnceInv
  <1>3. executed = {} /\ spent = {} /\ evictors = {} /\ faults = 0
    BY DEF Init
  <1>4. Chances \subseteq {<<Nobody, "free">>}
    BY DEF Init, Chances, MayRun, Working
  <1>5. IsFiniteSet({}) /\ Cardinality({}) = 0
    BY FS_EmptySet
  <1>6. IsFiniteSet({<<Nobody, "free">>}) /\ Cardinality({<<Nobody, "free">>}) = 1
    BY FS_Singleton
  <1>7. PICK C : C = Chances
    OBVIOUS
  <1>8. IsFiniteSet(C) /\ Cardinality(C) \in Nat /\ Cardinality(C) <= 1
    BY <1>4, <1>6, <1>7, FS_Subset, FS_CardinalityType
  <1>9. PICK n \in Nat : n = Cardinality(C) /\ n <= 1
    BY <1>8
  <1>10. Charged
    BY <1>3, <1>5, <1>7, <1>8, <1>9 DEF Charged
  <1> QED BY <1>1, <1>2, <1>10 DEF EInv

\* One element less or one more.
LEMMA FewerOrOneMore ==
    ASSUME NEW T, IsFiniteSet(T), NEW U, NEW x
    PROVE  /\ Cardinality(T) \in Nat
           /\ U \subseteq T => IsFiniteSet(U) /\ Cardinality(U) \in Nat /\ Cardinality(U) <= Cardinality(T)
           /\ U \subseteq T \ {x} /\ x \in T
                => IsFiniteSet(U) /\ Cardinality(U) \in Nat /\ Cardinality(U) + 1 <= Cardinality(T)
           /\ U \subseteq T \union {x}
                => IsFiniteSet(U) /\ Cardinality(U) \in Nat /\ Cardinality(U) <= Cardinality(T) + 1
           /\ x \notin T
                => IsFiniteSet(T \union {x}) /\ Cardinality(T \union {x}) = Cardinality(T) + 1
  <1>1. Cardinality(T) \in Nat
    BY FS_CardinalityType
  <1>2. ASSUME NEW V, IsFiniteSet(V), NEW W, W \subseteq V
        PROVE  IsFiniteSet(W) /\ Cardinality(W) \in Nat /\ Cardinality(W) <= Cardinality(V)
    BY <1>2, FS_Subset, FS_CardinalityType
  <1>3. ASSUME x \in T
        PROVE  IsFiniteSet(T \ {x}) /\ Cardinality(T \ {x}) \in Nat
               /\ Cardinality(T \ {x}) = Cardinality(T) - 1
    BY <1>3, FS_RemoveElement, FS_CardinalityType
  <1>4. IsFiniteSet(T \union {x}) /\ Cardinality(T \union {x}) \in Nat
        /\ Cardinality(T \union {x}) <= Cardinality(T) + 1
    <2>1. IsFiniteSet(T \union {x}) /\ Cardinality(T \union {x}) \in Nat
      BY FS_AddElement, FS_CardinalityType
    <2>2. \/ Cardinality(T \union {x}) = Cardinality(T)
          \/ Cardinality(T \union {x}) = Cardinality(T) + 1
      BY FS_AddElement
    <2> QED BY <1>1, <2>1, <2>2
  <1>5. U \subseteq T => IsFiniteSet(U) /\ Cardinality(U) \in Nat /\ Cardinality(U) <= Cardinality(T)
    BY <1>2
  <1>6. ASSUME U \subseteq T \ {x}, x \in T
        PROVE  IsFiniteSet(U) /\ Cardinality(U) \in Nat /\ Cardinality(U) + 1 <= Cardinality(T)
    <2>1. IsFiniteSet(U) /\ Cardinality(U) \in Nat /\ Cardinality(U) <= Cardinality(T \ {x})
      BY <1>2, <1>3, <1>6
    <2> QED BY <1>1, <1>3, <1>6, <2>1
  <1>7. ASSUME U \subseteq T \union {x}
        PROVE  IsFiniteSet(U) /\ Cardinality(U) \in Nat /\ Cardinality(U) <= Cardinality(T) + 1
    <2>1. IsFiniteSet(U) /\ Cardinality(U) \in Nat /\ Cardinality(U) <= Cardinality(T \union {x})
      BY <1>2, <1>4, <1>7
    <2> QED BY <1>1, <1>4, <2>1
  <1>8. x \notin T => IsFiniteSet(T \union {x}) /\ Cardinality(T \union {x}) = Cardinality(T) + 1
    BY FS_AddElement
  <1> QED BY <1>1, <1>5, <1>6, <1>7, <1>8

\* What a step may do: trade a chance for another one or for a run, or, with one
\* more excuse, gain one.
Excuse ==
    \/ faults' = faults + 1 /\ UNCHANGED <<spent, evictors>>
    \/ (\E r : r \notin spent /\ spent' = spent \union {r}) /\ UNCHANGED <<faults, evictors>>
    \/ (\E r : r \notin evictors /\ evictors' = evictors \union {r}) /\ UNCHANGED <<faults, spent>>

NoExcuse ==
    /\ \/ UNCHANGED <<spent, evictors>>
       \/ (\E r : spent' = spent \union {r}) /\ UNCHANGED evictors
    /\ UNCHANGED faults

Trades(T, U) == U \subseteq T \/ (\E t \in T : \E u : U \subseteq (T \ {t}) \union {u})
Gains(T, U) ==
    (\E u : U \subseteq T \union {u}) \/ (\E t \in T : \E u, v : U \subseteq (T \ {t}) \union {u, v})
Uses(T, U) == \E t \in T : U \subseteq T \ {t}

Paid ==
    \/ (NoExcuse \/ Excuse) /\ executed' = executed /\ Trades(Chances, Chances')
    \/ Excuse /\ executed' = executed /\ Gains(Chances, Chances')
    \/ NoExcuse /\ (\E r : executed' = executed \union {r}) /\ Uses(Chances, Chances')
    \/ Excuse /\ (\E r : executed' = executed \union {r}) /\ Chances' \subseteq Chances

LEMMA TradesAndGains ==
    ASSUME NEW T, IsFiniteSet(T), NEW U
    PROVE  /\ Trades(T, U) => IsFiniteSet(U) /\ Cardinality(U) \in Nat /\ Cardinality(U) <= Cardinality(T)
           /\ Gains(T, U) => IsFiniteSet(U) /\ Cardinality(U) \in Nat /\ Cardinality(U) <= Cardinality(T) + 1
           /\ Uses(T, U) => IsFiniteSet(U) /\ Cardinality(U) \in Nat /\ Cardinality(U) + 1 <= Cardinality(T)
  <1>1. Cardinality(T) \in Nat
    BY FewerOrOneMore
  <1>2. ASSUME NEW t \in T
        PROVE  /\ IsFiniteSet(T \ {t}) /\ Cardinality(T \ {t}) \in Nat
               /\ Cardinality(T \ {t}) + 1 <= Cardinality(T)
    BY <1>2, FewerOrOneMore
  <1>3. ASSUME NEW t \in T, NEW u
        PROVE  /\ IsFiniteSet((T \ {t}) \union {u}) /\ Cardinality((T \ {t}) \union {u}) \in Nat
               /\ Cardinality((T \ {t}) \union {u}) <= Cardinality(T)
    <2>1. /\ IsFiniteSet((T \ {t}) \union {u}) /\ Cardinality((T \ {t}) \union {u}) \in Nat
          /\ Cardinality((T \ {t}) \union {u}) <= Cardinality(T \ {t}) + 1
      BY <1>2, FewerOrOneMore
    <2> QED BY <1>1, <1>2, <2>1
  <1>4. ASSUME Trades(T, U)
        PROVE  IsFiniteSet(U) /\ Cardinality(U) \in Nat /\ Cardinality(U) <= Cardinality(T)
    <2>1. CASE U \subseteq T
      BY <2>1, FewerOrOneMore
    <2>2. ASSUME NEW t \in T, NEW u, U \subseteq (T \ {t}) \union {u}
          PROVE  IsFiniteSet(U) /\ Cardinality(U) \in Nat /\ Cardinality(U) <= Cardinality(T)
      <3>1. /\ IsFiniteSet(U) /\ Cardinality(U) \in Nat
            /\ Cardinality(U) <= Cardinality((T \ {t}) \union {u})
        BY <1>3, <2>2, FewerOrOneMore
      <3> QED BY <1>1, <1>3, <3>1
    <2> QED BY <1>4, <2>1, <2>2 DEF Trades
  <1>5. ASSUME Gains(T, U)
        PROVE  IsFiniteSet(U) /\ Cardinality(U) \in Nat /\ Cardinality(U) <= Cardinality(T) + 1
    <2>1. CASE \E u : U \subseteq T \union {u}
      BY <2>1, FewerOrOneMore
    <2>2. ASSUME NEW t \in T, NEW u, NEW v, U \subseteq (T \ {t}) \union {u, v}
          PROVE  IsFiniteSet(U) /\ Cardinality(U) \in Nat /\ Cardinality(U) <= Cardinality(T) + 1
      <3> DEFINE V == (T \ {t}) \union {u}
      <3>1. IsFiniteSet(V) /\ Cardinality(V) \in Nat /\ Cardinality(V) <= Cardinality(T)
        BY <1>3
      <3>2. U \subseteq V \union {v}
        BY <2>2
      <3> HIDE DEF V
      <3>3. IsFiniteSet(U) /\ Cardinality(U) \in Nat /\ Cardinality(U) <= Cardinality(V) + 1
        BY <3>1, <3>2, FewerOrOneMore
      <3> QED BY <1>1, <3>1, <3>3
    <2> QED BY <1>5, <2>1, <2>2 DEF Gains
  <1>6. ASSUME Uses(T, U)
        PROVE  IsFiniteSet(U) /\ Cardinality(U) \in Nat /\ Cardinality(U) + 1 <= Cardinality(T)
    BY <1>6, FewerOrOneMore DEF Uses
  <1> QED BY <1>4, <1>5, <1>6

\* An excuse adds one to what may be spent on runs, and nothing else takes from it.
LEMMA ExcusesCount ==
    ASSUME IsFiniteSet(spent), IsFiniteSet(evictors), faults \in Nat, NoExcuse \/ Excuse
    PROVE  /\ IsFiniteSet(spent') /\ IsFiniteSet(evictors')
           /\ faults' \in Nat /\ Cardinality(spent') \in Nat /\ Cardinality(evictors') \in Nat
           /\ Cardinality(spent) \in Nat /\ Cardinality(evictors) \in Nat
           /\ faults + Cardinality(spent) + Cardinality(evictors)
                <= faults' + Cardinality(spent') + Cardinality(evictors')
           /\ Excuse => 1 + faults + Cardinality(spent) + Cardinality(evictors)
                          <= faults' + Cardinality(spent') + Cardinality(evictors')
  <1>1. ASSUME NEW T, IsFiniteSet(T), NEW r
        PROVE  /\ Cardinality(T) \in Nat
               /\ IsFiniteSet(T \union {r}) /\ Cardinality(T \union {r}) \in Nat
               /\ Cardinality(T) <= Cardinality(T \union {r})
               /\ r \notin T => Cardinality(T \union {r}) = Cardinality(T) + 1
    <2>1. /\ Cardinality(T) \in Nat
          /\ IsFiniteSet(T \union {r}) /\ Cardinality(T \union {r}) \in Nat
          /\ r \notin T => Cardinality(T \union {r}) = Cardinality(T) + 1
      BY <1>1, FewerOrOneMore
    <2>2. r \in T => T \union {r} = T
      OBVIOUS
    <2> QED BY <2>1, <2>2
  <1>2. Cardinality(spent) \in Nat /\ Cardinality(evictors) \in Nat
    BY <1>1
  <1>3. CASE NoExcuse
    <2>1. /\ IsFiniteSet(spent') /\ Cardinality(spent') \in Nat
          /\ Cardinality(spent) <= Cardinality(spent')
      BY <1>1, <1>2, <1>3 DEF NoExcuse
    <2>2. evictors' = evictors /\ faults' = faults
      BY <1>3 DEF NoExcuse
    <2>3. faults + Cardinality(spent) + Cardinality(evictors)
            <= faults' + Cardinality(spent') + Cardinality(evictors')
      BY <1>2, <2>1, <2>2
    <2>4. CASE ~Excuse
      BY <1>2, <2>1, <2>2, <2>3, <2>4
    <2>5. CASE \E r : r \notin spent /\ spent' = spent \union {r}
      <3>1. Cardinality(spent') = Cardinality(spent) + 1
        BY <1>1, <2>5
      <3> QED BY <1>2, <2>1, <2>2, <3>1
    <2>6. ~(faults' = faults + 1) /\ ~(\E r : r \notin evictors /\ evictors' = evictors \union {r})
      BY <2>2
    <2> QED BY <2>4, <2>5, <2>6 DEF Excuse
  <1>4. CASE faults' = faults + 1 /\ UNCHANGED <<spent, evictors>>
    BY <1>2, <1>4
  <1>5. CASE (\E r : r \notin spent /\ spent' = spent \union {r}) /\ UNCHANGED <<faults, evictors>>
    <2>1. IsFiniteSet(spent') /\ Cardinality(spent') = Cardinality(spent) + 1
      BY <1>1, <1>5
    <2> QED BY <1>2, <1>5, <2>1
  <1>6. CASE (\E r : r \notin evictors /\ evictors' = evictors \union {r}) /\ UNCHANGED <<faults, spent>>
    <2>1. IsFiniteSet(evictors') /\ Cardinality(evictors') = Cardinality(evictors) + 1
      BY <1>1, <1>6
    <2> QED BY <1>2, <1>6, <2>1
  <1> QED BY <1>3, <1>4, <1>5, <1>6 DEF Excuse

LEMMA PaidIsCharged ==
    ASSUME TypeOK, Charged, Paid
    PROVE  Charged'
  <1>1. PICK C, D : C = Chances /\ D = Chances'
    OBVIOUS
  <1>2. PICK f \in Nat : f = faults
    BY IdempotencyAssumption DEF TypeOK
  <1>3. IsFiniteSet(C) /\ IsFiniteSet(executed)
    BY <1>1 DEF Charged
  <1>4. PICK b \in Nat : b = f + Cardinality(spent) + Cardinality(evictors)
    BY <1>2, FS_CardinalityType DEF Charged
  <1>5. IsFiniteSet(spent') /\ IsFiniteSet(evictors')
    BY <1>2, ExcusesCount DEF Charged, Paid
  <1>6. PICK b2 \in Nat : b2 = faults' + Cardinality(spent') + Cardinality(evictors')
    BY <1>2, ExcusesCount DEF Charged, Paid
  <1>7. b <= b2 /\ (Excuse => 1 + b <= b2)
    BY <1>2, <1>4, <1>6, ExcusesCount DEF Charged, Paid
  <1>8. IsFiniteSet(executed') /\ IsFiniteSet(D)
    BY <1>1, <1>3, TradesAndGains, FewerOrOneMore DEF Paid
  <1>9. PICK k \in Nat, k2 \in Nat : k = Cardinality(C) /\ k2 = Cardinality(D)
    BY <1>3, <1>8, FS_CardinalityType
  <1>10. PICK x \in Nat, x2 \in Nat : x = Cardinality(executed) /\ x2 = Cardinality(executed')
    BY <1>3, <1>8, FS_CardinalityType
  <1>11. /\ Trades(C, D) => k2 <= k
         /\ Gains(C, D) => k2 <= k + 1
         /\ Uses(C, D) => k2 + 1 <= k
         /\ D \subseteq C => k2 <= k
    BY <1>3, <1>9, TradesAndGains, FewerOrOneMore
  <1>12. /\ executed' = executed => x2 = x
         /\ (\E r : executed' = executed \union {r}) => x2 <= x + 1
    BY <1>3, <1>10, FewerOrOneMore
  <1>13. \/ x2 = x /\ k2 <= k
         \/ 1 + b <= b2 /\ x2 = x /\ k2 <= k + 1
         \/ x2 <= x + 1 /\ k2 + 1 <= k
         \/ 1 + b <= b2 /\ x2 <= x + 1 /\ k2 <= k
    BY <1>1, <1>7, <1>11, <1>12 DEF Paid
  <1>14. x + k <= 1 + b
    <2>1. Cardinality(spent) \in Nat /\ Cardinality(evictors) \in Nat
      BY FS_CardinalityType DEF Charged
    <2>2. Cardinality(executed) + Cardinality(Chances)
            <= 1 + faults + Cardinality(spent) + Cardinality(evictors)
      BY DEF Charged
    <2> QED BY <1>1, <1>2, <1>4, <1>9, <1>10, <2>1, <2>2
  <1>15. x2 + k2 <= 1 + b2
    BY <1>7, <1>13, <1>14
  <1>16. Cardinality(executed') + Cardinality(D)
           <= 1 + faults' + Cardinality(spent') + Cardinality(evictors')
    <2>1. Cardinality(spent') \in Nat /\ Cardinality(evictors') \in Nat /\ faults' \in Nat
      BY <1>2, ExcusesCount DEF Charged, Paid
    <2> QED BY <1>6, <1>9, <1>10, <1>15, <2>1
  <1> QED BY <1>1, <1>5, <1>8, <1>16 DEF Charged

\* The late writes that clear the entry.
LateFrees == late \intersect (Requests \X {"evict", "release"})

LEMMA GetPays ==
    ASSUME TypeOK, OnceInv, NEW r \in Requests,
           FindsNothing(r) \/ FindsLock(r) \/ FindsResult(r) \/ FindsCorrupt(r) \/ LosesTheRace(r)
    PROVE  Paid /\ OnceInv'
  <1> USE DEF TypeOK, Returns, Calls, Writes, Working, Ended
  <1>1. OnceInv'
    BY DEF OnceInv, FindsNothing, FindsLock, FindsResult, FindsCorrupt, LosesTheRace
  <1>2. late' = late /\ entry' = entry /\ executed' = executed
    BY DEF FindsNothing, FindsLock, FindsResult, FindsCorrupt, LosesTheRace
  <1>3. EntryOpens' => EntryOpens
    BY <1>2 DEF EntryOpens, Holding, FindsNothing, FindsLock, FindsResult, FindsCorrupt, LosesTheRace
  <1>4. CASE FindsCorrupt(r)
    <2>1. MayRun' \subseteq MayRun \union {r}
      BY <1>4 DEF MayRun, FindsCorrupt
    <2>2. Chances' \subseteq Chances \union {<<r, "run">>}
      BY <1>2, <1>3, <2>1 DEF Chances
    <2>3. r \notin evictors /\ evictors' = evictors \union {r} /\ UNCHANGED <<faults, spent>>
      BY <1>4 DEF FindsCorrupt, OnceInv
    <2> QED BY <1>1, <1>2, <2>2, <2>3 DEF Paid, Excuse, Gains
  <1>5. CASE ~FindsCorrupt(r)
    <2>1. MayRun' \subseteq MayRun /\ UNCHANGED <<faults, spent, evictors>>
      BY <1>5 DEF MayRun, FindsNothing, FindsLock, FindsResult, LosesTheRace
    <2>2. Chances' \subseteq Chances
      BY <1>2, <1>3, <2>1 DEF Chances
    <2> QED BY <1>1, <1>2, <2>1, <2>2 DEF Paid, NoExcuse, Trades
  <1> QED BY <1>4, <1>5

LEMMA EntryPays ==
    ASSUME TypeOK, OnceInv, NEW r \in Requests,
           Evicts(r) \/ Acquires(r) \/ Saves(r) \/ Releases(r)
    PROVE  Paid /\ OnceInv'
  <1> USE IdempotencyAssumption DEF TypeOK, Returns, Calls, Writes, Working, Ended
  <1>1. OnceInv'
    BY DEF OnceInv, Evicts, Acquires, Saves, Releases
  <1>2. late' = late /\ executed' = executed /\ UNCHANGED <<faults, spent, evictors>>
    BY DEF Evicts, Acquires, Saves, Releases
  <1>3. CASE Evicts(r) \/ Releases(r)
    <2>1. r \in MayRun /\ MayRun' \subseteq MayRun \ {r}
      BY <1>3 DEF MayRun, Evicts, Releases
    <2>2. Chances' \subseteq (Chances \ {<<r, "run">>}) \union {<<Nobody, "free">>}
      BY <1>2, <2>1 DEF Chances
    <2>3. <<r, "run">> \in Chances
      BY <2>1 DEF Chances
    <2> QED BY <1>1, <1>2, <2>2, <2>3 DEF Paid, NoExcuse, Trades
  <1>4. CASE Acquires(r)
    <2>1. EntryOpens /\ ~EntryOpens'
      BY <1>4 DEF Acquires, EntryIsFree, EntryOpens, Holding, Lock
    <2>2. MayRun' \subseteq MayRun \union {r}
      BY <1>4 DEF MayRun, Acquires
    <2>3. Chances' \subseteq (Chances \ {<<Nobody, "free">>}) \union {<<r, "run">>}
      BY <1>2, <2>1, <2>2 DEF Chances, MayRun
    <2>4. <<Nobody, "free">> \in Chances
      BY <2>1 DEF Chances
    <2> QED BY <1>1, <1>2, <2>3, <2>4 DEF Paid, NoExcuse, Trades
  <1>5. CASE Saves(r)
    <2>1. ~EntryOpens' /\ MayRun' \subseteq MayRun
      BY <1>5 DEF Saves, EntryOpens, Result, MayRun
    <2>2. Chances' \subseteq Chances
      BY <1>2, <2>1 DEF Chances
    <2> QED BY <1>1, <1>2, <2>2 DEF Paid, NoExcuse, Trades
  <1> QED BY <1>3, <1>4, <1>5

LEMMA HandlerPays ==
    ASSUME TypeOK, OnceInv, NEW r \in Requests,
           HandlerSucceeds(r) \/ HandlerFails(r) \/ CommitAnswerLost(r)
    PROVE  Paid /\ OnceInv'
  <1> USE DEF TypeOK, Calls, Writes, Working, Ended
  <1>1. OnceInv'
    BY DEF OnceInv, HandlerSucceeds, HandlerFails, CommitAnswerLost, AfterSuccess, AfterError
  <1>2. late' = late /\ entry' = entry /\ evictors' = evictors
    BY DEF HandlerSucceeds, HandlerFails, CommitAnswerLost
  <1>3. EntryOpens' => EntryOpens
    BY <1>2 DEF EntryOpens, Holding, HandlerSucceeds, HandlerFails, CommitAnswerLost,
                AfterSuccess, AfterError
  <1>4. CASE HandlerSucceeds(r)
    <2>1. r \in MayRun /\ MayRun' \subseteq MayRun \ {r}
      BY <1>4 DEF MayRun, HandlerSucceeds, AfterSuccess
    <2>2. <<r, "run">> \in Chances /\ Chances' \subseteq Chances \ {<<r, "run">>}
      BY <1>2, <1>3, <2>1 DEF Chances
    <2>3. executed' = executed \union {r} /\ UNCHANGED <<faults, spent, evictors>>
      BY <1>4 DEF HandlerSucceeds
    <2> QED BY <1>1, <2>2, <2>3 DEF Paid, NoExcuse, Uses
  <1>5. CASE HandlerFails(r) \/ CommitAnswerLost(r)
    <2>1. MayRun' \subseteq MayRun
      BY <1>5 DEF MayRun, HandlerFails, CommitAnswerLost, AfterError, OnceInv
    <2>2. Chances' \subseteq Chances
      BY <1>2, <1>3, <2>1 DEF Chances
    <2>3. CASE HandlerFails(r)
      <3>1. executed' = executed /\ NoExcuse
        BY <2>3 DEF HandlerFails, NoExcuse
      <3> QED BY <1>1, <2>2, <3>1 DEF Paid, Trades
    <2>4. CASE CommitAnswerLost(r)
      <3>1. executed' = executed \union {r} /\ Excuse
        BY <2>4 DEF CommitAnswerLost, Excuse, Fault
      <3> QED BY <1>1, <2>2, <3>1 DEF Paid
    <2> QED BY <1>5, <2>3, <2>4
  <1> QED BY <1>4, <1>5

\* A rejected call and a crash: the clean-up that may still land, or the lock that
\* now expires, is the request's own chance or the fault's.
LEMMA RejectionPays ==
    ASSUME TypeOK, OnceInv, NEW r \in Requests, StoreCallRejected(r)
    PROVE  Paid /\ OnceInv'
  <1> USE IdempotencyAssumption DEF TypeOK, Calls, Writes, Working, Ended
  <1>1. OnceInv'
    BY DEF OnceInv, StoreCallRejected, OnRejection
  <1>2. executed' = executed /\ entry' = entry /\ evictors' = evictors /\ pc[r] \in Calls
    BY DEF StoreCallRejected
  <1>3. \/ spent' = spent \union {r} /\ faults' = faults
        \/ r \notin spent /\ spent' = spent /\ faults' = faults + 1
    BY DEF StoreCallRejected, Fault
  <1>4. NoExcuse \/ Excuse
    BY <1>2, <1>3 DEF NoExcuse, Excuse
  <1>5. r \notin spent => Excuse
    BY <1>2, <1>3 DEF Excuse
  <1>6. late' = late \/ (r \notin spent /\ late' = late \union {<<r, pc[r]>>})
    BY DEF StoreCallRejected, MayStillLand
  <1>7. \A q \in Requests \ {r} : pc'[q] = pc[q]
    BY DEF StoreCallRejected
  <1>8. CASE pc[r] \in {"get", "acquire"}
    <2>1. pc'[r] = "unguarded"
      BY <1>8 DEF StoreCallRejected, OnRejection
    <2>2. EntryOpens' => EntryOpens
      BY <1>2, <1>7, <1>8, <2>1 DEF EntryOpens, Holding
    <2>3. LateFrees' \subseteq LateFrees
      BY <1>6, <1>8 DEF LateFrees
    <2>4. CASE spent' = spent \union {r}
      <3>1. MayRun' \subseteq MayRun
        BY <1>7, <2>1, <2>4 DEF MayRun
      <3>2. Chances' \subseteq Chances
        BY <2>2, <2>3, <3>1 DEF Chances, LateFrees
      <3> QED BY <1>1, <1>2, <1>4, <3>2 DEF Paid, Trades
    <2>5. CASE r \notin spent /\ spent' = spent
      <3>1. MayRun' \subseteq MayRun \union {r}
        BY <1>7, <2>5 DEF MayRun
      <3>2. Chances' \subseteq Chances \union {<<r, "run">>}
        BY <2>2, <2>3, <3>1 DEF Chances, LateFrees
      <3> QED BY <1>1, <1>2, <1>5, <2>5, <3>2 DEF Paid, Gains
    <2> QED BY <1>3, <2>4, <2>5
  <1>9. CASE pc[r] = "evict"
    <2>1. pc'[r] = "acquire"
      BY <1>9 DEF StoreCallRejected, OnRejection
    <2>2. EntryOpens' => EntryOpens
      BY <1>2, <1>7, <1>9, <2>1 DEF EntryOpens, Holding
    <2>3. r \in MayRun /\ MayRun' \subseteq MayRun \ {r}
      BY <1>3, <1>7, <1>9, <2>1 DEF MayRun
    <2>4. LateFrees' \subseteq LateFrees \union {<<r, "evict">>}
      BY <1>6, <1>9 DEF LateFrees
    <2>5. Chances' \subseteq (Chances \ {<<r, "run">>}) \union {<<r, "evict">>} /\ <<r, "run">> \in Chances
      BY <2>2, <2>3, <2>4 DEF Chances, LateFrees
    <2> QED BY <1>1, <1>2, <1>4, <2>5 DEF Paid, Trades
  <1>10. CASE pc[r] = "save"
    <2>1. pc'[r] = "answered" /\ r \notin spent
      BY <1>10 DEF StoreCallRejected, OnRejection, OnceInv
    <2>2. MayRun' \subseteq MayRun
      BY <1>3, <1>7, <2>1 DEF MayRun
    <2>3. LateFrees' \subseteq LateFrees
      BY <1>6, <1>10 DEF LateFrees
    <2>4. Chances' \subseteq Chances \union {<<Nobody, "free">>}
      BY <2>2, <2>3 DEF Chances, LateFrees
    <2> QED BY <1>1, <1>2, <1>5, <2>1, <2>4 DEF Paid, Gains
  <1>11. CASE pc[r] = "release"
    <2>1. pc'[r] = "failed"
      BY <1>11 DEF StoreCallRejected, OnRejection
    <2>2. r \in MayRun /\ MayRun' \subseteq MayRun \ {r}
      BY <1>3, <1>7, <1>11, <2>1 DEF MayRun
    <2>3. <<r, "run">> \in Chances
      BY <2>2 DEF Chances
    <2>4. CASE late' = late
      <3>1. Chances' \subseteq (Chances \ {<<r, "run">>}) \union {<<Nobody, "free">>}
        BY <2>2, <2>4 DEF Chances
      <3> QED BY <1>1, <1>2, <1>4, <2>3, <3>1 DEF Paid, Trades
    <2>5. CASE r \notin spent /\ late' = late \union {<<r, pc[r]>>}
      <3>1. LateFrees' \subseteq LateFrees \union {<<r, "release">>}
        BY <1>11, <2>5 DEF LateFrees
      <3>2. Chances' \subseteq (Chances \ {<<r, "run">>}) \union {<<r, "release">>, <<Nobody, "free">>}
        BY <2>2, <3>1 DEF Chances, LateFrees
      <3> QED BY <1>1, <1>2, <1>5, <2>3, <2>5, <3>2 DEF Paid, Gains
    <2> QED BY <1>6, <2>4, <2>5
  <1> QED BY <1>2, <1>8, <1>9, <1>10, <1>11

LEMMA CrashPays ==
    ASSUME TypeOK, OnceInv, NEW r \in Requests, Crash(r)
    PROVE  Paid /\ OnceInv'
  <1> USE IdempotencyAssumption DEF TypeOK, Calls, Writes, Working, Ended
  <1>1. OnceInv'
    BY DEF OnceInv, Crash
  <1>2. executed' = executed /\ entry' = entry /\ spent' = spent /\ evictors' = evictors /\ Excuse
    BY DEF Crash, Excuse, Fault
  <1>3. \/ late' = late
        \/ pc[r] \in Writes /\ late' = late \union {<<r, pc[r]>>}
    BY DEF Crash, MayStillLand
  <1>4. pc'[r] = "dead" /\ \A q \in Requests \ {r} : pc'[q] = pc[q]
    BY DEF Crash
  <1>5. MayRun' \subseteq MayRun \ {r}
    BY <1>2, <1>4 DEF MayRun
  <1>6. CASE late' = late \/ pc[r] \notin {"evict", "release"}
    <2>1. LateFrees' \subseteq LateFrees
      BY <1>3, <1>6 DEF LateFrees
    <2>2. Chances' \subseteq Chances \union {<<Nobody, "free">>}
      BY <1>5, <2>1 DEF Chances, LateFrees
    <2> QED BY <1>1, <1>2, <2>2 DEF Paid, Gains
  <1>7. CASE late' = late \union {<<r, pc[r]>>} /\ pc[r] \in {"evict", "release"}
    <2>1. <<r, "run">> \in Chances
      BY <1>7 DEF Chances, MayRun
    <2>2. LateFrees' \subseteq LateFrees \union {<<r, pc[r]>>}
      BY <1>7 DEF LateFrees
    <2>3. Chances' \subseteq (Chances \ {<<r, "run">>}) \union {<<r, pc[r]>>, <<Nobody, "free">>}
      BY <1>5, <2>2 DEF Chances, LateFrees
    <2> QED BY <1>1, <1>2, <2>1, <2>3 DEF Paid, Gains
  <1> QED BY <1>3, <1>6, <1>7

LEMMA StorePays ==
    ASSUME TypeOK, OnceInv,
           \/ \E r \in Requests, call \in Writes : Lands(r, call)
           \/ Expires \/ ResultExpires \/ UNCHANGED vars
    PROVE  Paid /\ OnceInv'
  <1> USE IdempotencyAssumption DEF TypeOK, Calls, Writes, Working, Ended
  <1>1. UNCHANGED <<pc, executed, spent, evictors>>
    BY DEF Lands, Expires, ResultExpires, vars
  <1>2. OnceInv' /\ MayRun' = MayRun
    BY <1>1 DEF OnceInv, MayRun
  <1>3. ASSUME NEW r \in Requests, NEW call \in Writes, Lands(r, call) PROVE Paid
    <2>1. <<r, call>> \in late /\ late' = late \ {<<r, call>>} /\ faults' = faults
      BY <1>3 DEF Lands
    <2>2. CASE call \in {"evict", "release"}
      <3>1. <<r, call>> \in Chances
        BY <2>1, <2>2 DEF Chances
      <3>2. Chances' \subseteq (Chances \ {<<r, call>>}) \union {<<Nobody, "free">>}
        BY <1>2, <2>1, <2>2 DEF Chances
      <3> QED BY <1>1, <2>1, <3>1, <3>2 DEF Paid, NoExcuse, Trades
    <2>3. CASE call \in {"save", "acquire"}
      <3>1. EntryOpens' => EntryOpens
        BY <1>1, <1>3, <2>3 DEF EntryOpens, Lands, EntryIsFree, Result
      <3>2. Chances' \subseteq Chances
        BY <1>2, <2>1, <3>1 DEF Chances
      <3> QED BY <1>1, <2>1, <3>2 DEF Paid, NoExcuse, Trades
    <2> QED BY <2>2, <2>3
  <1>4. CASE Expires
    <2>1. CASE pc[entry.by] \in Holding
      <3>1. late' = late /\ Excuse
        BY <1>1, <1>4, <2>1 DEF Expires, Fault, Excuse
      <3>2. Chances' \subseteq Chances \union {<<Nobody, "free">>}
        BY <1>2, <3>1 DEF Chances
      <3> QED BY <1>1, <1>2, <3>1, <3>2 DEF Paid, Gains
    <2>2. CASE pc[entry.by] \notin Holding
      <3>1. EntryOpens /\ late' = late /\ faults' = faults
        BY <1>4, <2>2 DEF Expires, EntryOpens
      <3>2. Chances' \subseteq Chances
        BY <1>2, <3>1 DEF Chances
      <3> QED BY <1>1, <1>2, <3>1, <3>2 DEF Paid, NoExcuse, Trades
    <2> QED BY <2>1, <2>2
  <1>5. CASE ResultExpires
    <2>1. late' = late /\ Excuse
      BY <1>5 DEF ResultExpires, Fault, Excuse
    <2>2. Chances' \subseteq Chances \union {<<Nobody, "free">>}
      BY <1>2, <2>1 DEF Chances
    <2> QED BY <1>1, <1>2, <2>1, <2>2 DEF Paid, Gains
  <1>6. CASE UNCHANGED vars
    <2>1. Chances' \subseteq Chances /\ faults' = faults
      BY <1>2, <1>6 DEF vars, Chances, EntryOpens
    <2> QED BY <1>1, <1>2, <2>1 DEF Paid, NoExcuse, Trades
  <1> QED BY <1>2, <1>3, <1>4, <1>5, <1>6

LEMMA NextEInv == EInv /\ TypeOK' /\ [Next]_vars => EInv'
  <1> SUFFICES ASSUME EInv, TypeOK', [Next]_vars PROVE EInv'
    OBVIOUS
  <1>1. Paid /\ OnceInv'
    BY GetPays, EntryPays, HandlerPays, RejectionPays, CrashPays, StorePays
       DEF EInv, Next, Proceeds, Step1, Step2, Step3
  <1> QED BY <1>1, PaidIsCharged DEF EInv

\* "Safe to retry": each run of the handler beyond the first has an excuse of its own
\* (a fault, a lock that expired too early, a budget that ran out, an entry that could
\* not be parsed), however many requests share the key and however their calls and
\* their late writes interleave.
THEOREM RunsHaveExcuses == Spec => []ExtraRunsAreExcused
  <1>1. EInv => ExtraRunsAreExcused
    <2> SUFFICES ASSUME EInv PROVE ExtraRunsAreExcused
      OBVIOUS
    <2>1. /\ Cardinality(executed) \in Nat /\ Cardinality(Chances) \in Nat
          /\ Cardinality(spent) \in Nat /\ Cardinality(evictors) \in Nat
      BY FS_CardinalityType DEF EInv, Charged
    <2>2. faults \in Nat
      BY IdempotencyAssumption DEF EInv, TypeOK
    <2>3. Cardinality(executed) + Cardinality(Chances)
            <= 1 + faults + Cardinality(spent) + Cardinality(evictors)
      BY DEF EInv, Charged
    <2> QED BY <2>1, <2>2, <2>3 DEF ExtraRunsAreExcused
  <1>2. EInv /\ TypeOK' /\ [Next]_vars => EInv'
    BY NextEInv
  <1> QED BY InitEInv, <1>1, <1>2, IdempotencyTypeCorrect, PTL DEF Spec
==============================================================================
