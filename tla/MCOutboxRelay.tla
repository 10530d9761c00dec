---------------------------- MODULE MCOutboxRelay ----------------------------
(* Two replicas and their faults: safety only, replicas and keys interchangeable. *)
EXTENDS OutboxRelay, TLC

Symmetry == Permutations(Relays) \union Permutations(Keys)
==============================================================================
