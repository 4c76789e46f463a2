----------------------------- MODULE MCRelayLobby -----------------------------
(* RelayLobby on small instances. *)
EXTENDS RelayLobby, TLC

Symmetry == Permutations(Players)

=============================================================================
