----------------------------- MODULE MCO3yvLoop -----------------------------
(* Instances of O3yvLoop for TLC. *)
EXTENDS O3yvLoop

TwoBands == {{0}, {1}}
MCMVs == {0, 1}
=============================================================================
