--------------------------- MODULE MCKafkaConsumer ---------------------------
(* Two members that lose partitions to each other: safety only. *)
EXTENDS KafkaConsumer, TLC

Symmetry == Permutations(Members)
==============================================================================
