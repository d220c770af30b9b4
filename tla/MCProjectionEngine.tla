------------------------- MODULE MCProjectionEngine -------------------------
(* Small instances of ProjectionEngine for TLC. *)
EXTENDS ProjectionEngine, TLC

=============================================================================
