------------------------------ MODULE MCDiplomacy ------------------------------
(* Diplomacy on small instances. *)
EXTENDS Diplomacy

================================================================================
