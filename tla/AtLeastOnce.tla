----------------------------- MODULE AtLeastOnce -----------------------------
(***************************************************************************)
(* What the transactional outbox promises, without a relay, a broker or a  *)
(* transaction in sight: an event is accepted once, stays pending until it *)
(* has been published, and nothing else is ever published.  It may be      *)
(* published again at any time: delivery is at least once.                 *)
(***************************************************************************)
CONSTANT Events

VARIABLES accepted,   \* the events whose state change has committed
          pending,    \* the accepted events the outbox still answers for
          published   \* the events Kafka has at least one record of

vars == <<accepted, pending, published>>

TypeOK == /\ accepted  \subseteq Events
          /\ pending   \subseteq accepted
          /\ published \subseteq accepted

Init == /\ accepted  = {}
        /\ pending   = {}
        /\ published = {}

\* The state change and its event become durable together.
Accept(e) ==
    /\ e \in Events \ accepted
    /\ accepted' = accepted \union {e}
    /\ pending'  = pending \union {e}
    /\ UNCHANGED published

\* A first record or one more copy: also of an event that is no longer pending.
Publish(e) ==
    /\ e \in accepted
    /\ published' = published \union {e}
    /\ UNCHANGED <<accepted, pending>>

\* Only what has been published may be forgotten.
Retire(S) ==
    /\ S \subseteq pending \intersect published
    /\ pending' = pending \ S
    /\ UNCHANGED <<accepted, published>>

Next == \/ \E e \in Events : Accept(e) \/ Publish(e)
        \/ \E S \in SUBSET Events : Retire(S)

Spec == Init /\ [][Next]_vars

\* An accepted event is pending or published: none is ever lost.
NothingLost == accepted \subseteq pending \union published
==============================================================================
