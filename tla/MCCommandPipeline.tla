------------------------- MODULE MCCommandPipeline -------------------------
(* Small instances of CommandPipeline for TLC. *)
EXTENDS CommandPipeline, TLC

\* The requests run the same code: exchanging them changes nothing.
RequestSymmetry == Permutations(Requests)

============================================================================
