---------------------------- MODULE MCGameEconomy ----------------------------
(* Small instances of GameEconomy for TLC. *)
EXTENDS GameEconomy, TLC

\* The requests run the same code; a player's or session's id is only a name.
Symmetry == Permutations(Requests) \cup Permutations(Players) \cup Permutations(Sessions)

==============================================================================
