----------------------------- MODULE MCBetaCohort -----------------------------
(* Small instances of BetaCohort for TLC. *)
EXTENDS BetaCohort, TLC

==============================================================================
