--------------------------- MODULE MCShardLifecycle ---------------------------
(* Model-checking instances of ShardLifecycle. *)
EXTENDS ShardLifecycle, TLC

\* Replicas are interchangeable, and so are the slots.
Symmetry == Permutations(Replicas) \union Permutations(Slots)
===============================================================================
