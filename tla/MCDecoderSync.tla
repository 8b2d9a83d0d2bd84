---------------------------- MODULE MCDecoderSync ----------------------------
(* Instances of DecoderSync for TLC. *)
EXTENDS DecoderSync

Plain == [key |-> FALSE, opaque |-> FALSE, t35 |-> FALSE]
OneParams == {Plain}
MCCuts == {2, 5, 7, 8, 11}
=============================================================================
