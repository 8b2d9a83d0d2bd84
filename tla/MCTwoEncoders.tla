---------------------------- MODULE MCTwoEncoders ----------------------------
(***************************************************************************)
(* The two encoders of the repository, which have nothing to do with each  *)
(* other and are checked in one run: the re-ordering pipeline of Context,  *)
(* and the O3YV encoder beside its decoder.  A behaviour is one of its     *)
(* `encoder`; the other stays in its initial state.                        *)
(***************************************************************************)
EXTENDS MCPipeline, MCO3yvLoop

VARIABLE encoder

TwoInit == encoder \in {"rav1e", "o3yv"} /\ Init /\ LoopInit

TwoNext ==
  /\ \/ encoder = "rav1e" /\ Next /\ UNCHANGED loopVars
     \/ encoder = "o3yv" /\ LoopNext /\ UNCHANGED vars
  /\ UNCHANGED encoder

TwoSpec == TwoInit /\ [][TwoNext]_<<encoder, vars, loopVars>>
=============================================================================
