------------------------------ MODULE MCByGop ------------------------------
(* Instances of ByGop for TLC. *)
EXTENDS ByGop

MCCuts == {1, 3, 4, 6}
=============================================================================
