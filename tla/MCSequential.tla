---------------------------- MODULE MCSequential ----------------------------
(***************************************************************************)
(* Six machines that have nothing to do with each other and are checked in *)
(* one run: the loop filter queue of a frame, the writers of a tile, the   *)
(* codes for integers, the statistics of a two-pass encode, the frame      *)
(* decisions of the O3YV encoder, and the player.  A behaviour is one of   *)
(* its `machine`; the others stay in an initial state.                     *)
(***************************************************************************)
EXTENDS MCLfQueue, MCSymbolWriter, MCIntegerCodes, MCPlayer, RateTwoPass, O3yvRate

VARIABLE machine

encoderVars == <<lfVars, swVars, codeVars>>
seqVars == <<machine, encoderVars, tpVars, rateVars, playerVars>>

\* The initial choices of the other machines.
SomeFrame  == CHOOSE x \in Frames : TRUE
SomeJob    == CHOOSE x \in Jobs : TRUE
SomeStream == CHOOSE x \in Streams : TRUE
SomeEmbedded == CHOOSE x \in EmbeddedStreams : TRUE

SeqInit ==
  /\ machine \in {"lf_queue", "symbols", "codes", "two_pass", "o3yv_rate", "player"}
  /\ machine # "codes" => job = SomeJob
  /\ machine # "two_pass" => frames = SomeStream /\ interface = "packets"
  /\ machine # "player" => stream = SomeEmbedded
  /\ machine # "lf_queue" => f = SomeFrame
  /\ SwInit /\ CodesInit /\ TpInit /\ RateInit /\ PlayerInit /\ LfInit

SeqNext ==
  /\ \/ /\ UNCHANGED <<tpVars, rateVars, playerVars>>
        /\ \/ machine = "lf_queue" /\ LfNext /\ UNCHANGED <<swVars, codeVars>>
           \/ machine = "symbols" /\ SwNext /\ UNCHANGED <<lfVars, codeVars>>
           \/ machine = "codes" /\ CodesNext /\ UNCHANGED <<lfVars, swVars>>
     \/ /\ UNCHANGED encoderVars
        /\ \/ machine = "two_pass" /\ TpNext /\ UNCHANGED <<rateVars, playerVars>>
           \/ machine = "o3yv_rate" /\ RateNext /\ UNCHANGED <<tpVars, playerVars>>
           \/ machine = "player" /\ PlayerNext /\ UNCHANGED <<tpVars, rateVars>>
  /\ UNCHANGED machine

\* The fairness of the machine, as in its own specification.
SeqFairSpec ==
  /\ SeqInit /\ [][SeqNext]_seqVars
  /\ machine = "two_pass" => TpFairness
  /\ machine = "player" => PlayerFairness

T == TRUE
F == FALSE
Group == <<F, F, T, T, T, T>>

\* One frame, a short group, and streams that wrap the ring buffer, one of
\* them with frames that are shown at once between its groups.
MCStreams ==
  {<<T>>, <<T, F, T, T, T>>, <<T>> \o Group \o Group \o <<F, T, T>>,
   <<T>> \o Group \o <<T, T>> \o Group \o <<T>>}

\* Sizes below, at and above that of a raw key.
MCPSizes == 1 .. 4
=============================================================================
