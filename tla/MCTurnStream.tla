----------------------------- MODULE MCTurnStream -----------------------------
(* TurnStream on small instances. *)
EXTENDS TurnStream, TLC

Symmetry == Permutations(Players)

=============================================================================
