---------------------------- MODULE MCPipeline ----------------------------
(* Instances of EncoderPipeline for TLC. *)
EXTENDS EncoderPipeline

Plain  == [key |-> FALSE, opaque |-> FALSE, t35 |-> FALSE]
Tagged == [key |-> FALSE, opaque |-> TRUE, t35 |-> TRUE]
Forced == [key |-> TRUE, opaque |-> FALSE, t35 |-> TRUE]

AllParams == {Tagged, Forced}

NoCuts == {}
============================================================================
