---------------------------- MODULE MCIdempotency ----------------------------
(* A few requests with one key: safety only, requests and bodies interchangeable. *)
EXTENDS Idempotency, TLC

Symmetry == Permutations(Requests) \union Permutations(Bodies)
==============================================================================
