------------------------------ MODULE GopSplit ------------------------------
(***************************************************************************)
(* The task that cuts the input of the by-GOP encoder into SubGops:        *)
(* `SceneChange` and `Config::scenechange` of src/api/channel/by_gop.rs.   *)
(*                                                                         *)
(* Frames are numbered as they arrive.  The vector `lookahead` always      *)
(* holds the frames emitted .. received - 1, in order, so it is            *)
(* represented by these two numbers.                                       *)
(***************************************************************************)
EXTENDS Integers, Sequences

CONSTANT pyramid_size   \* InterConfig::keyframe_lookahead_distance

ASSUME PyramidAssumption == pyramid_size \in Nat \ {0}

VARIABLES
  received,        \* frames pushed into lookahead
  emitted,         \* frames sent on in SubGops
  frames,          \* SceneChange::frames: analysed and not yet emitted
  processed,       \* SceneChange::processed
  last_keyframe,   \* SceneChange::last_keyframe
  cuts,            \* every frame the detector took for a new GOP
  subgops,         \* every SubGop sent
  sc_pc            \* "input", "drain" (input ended) or "done"

splitVars == <<received, emitted, frames, processed, last_keyframe, cuts,
               subgops, sc_pc>>

\* Mutation: the frame under analysis is not counted.
lookahead_distance_short == pyramid_size + 1

lookahead_distance == pyramid_size + 1 + 1

lookahead_len == received - emitted

\* The frame after the first n SubGops.
EndOf(n) == IF n = 0 THEN 0 ELSE subgops[n].first + subgops[n].len

SplitInit ==
  /\ received = 0 /\ emitted = 0 /\ frames = 0 /\ processed = 0
  /\ last_keyframe = 0 /\ cuts = {} /\ subgops = <<>> /\ sc_pc = "input"

\* Split `pos` frames off the front and send them.
Emit(pos, end_gop) ==
  /\ subgops' = Append(subgops, [first |-> emitted, len |-> pos,
                                 end_gop |-> end_gop])
  /\ emitted' = emitted + pos

\* Mutation: a full SubGop goes out without the frame before the cut.
split_one_short(new_gop) ==
  /\ processed' = processed + 1
  /\ last_keyframe' = IF new_gop THEN processed + 1 ELSE last_keyframe
  /\ cuts' = IF new_gop THEN cuts \cup {processed + 1} ELSE cuts
  /\ \/ /\ frames > pyramid_size
        /\ frames' = frames - (pyramid_size + 1)
        /\ Emit(pyramid_size + 1, new_gop)
     \/ /\ frames <= pyramid_size /\ new_gop
        /\ frames' = 0
        /\ Emit(frames + 1, TRUE)
     \/ /\ frames <= pyramid_size /\ ~new_gop
        /\ frames' = frames + 1
        /\ UNCHANGED <<subgops, emitted>>

\* SceneChange::split, with the detector's answer, and the send that follows.
split(new_gop) ==
  /\ processed' = processed + 1
  /\ last_keyframe' = IF new_gop THEN processed + 1 ELSE last_keyframe
  /\ cuts' = IF new_gop THEN cuts \cup {processed + 1} ELSE cuts
  /\ \/ /\ frames > pyramid_size
        /\ frames' = frames - (pyramid_size + 1)
        /\ Emit(pyramid_size + 2, new_gop)
     \/ /\ frames <= pyramid_size /\ new_gop
        /\ frames' = 0
        /\ Emit(frames + 1, TRUE)
     \/ /\ frames <= pyramid_size /\ ~new_gop
        /\ frames' = frames + 1
        /\ UNCHANGED <<subgops, emitted>>

\* A frame arrives and the lookahead is not long enough to reason.
Collect ==
  /\ sc_pc = "input"
  /\ lookahead_len + 1 < lookahead_distance
  /\ received' = received + 1
  /\ UNCHANGED <<emitted, frames, processed, last_keyframe, cuts, subgops, sc_pc>>

\* A frame arrives and the next undecided frame is analysed.
Analyse(new_gop) ==
  /\ sc_pc = "input"
  /\ lookahead_len + 1 >= lookahead_distance
  /\ received' = received + 1
  /\ split(new_gop)
  /\ UNCHANGED sc_pc

\* The input channel is disconnected.
InputEnds ==
  /\ sc_pc = "input"
  /\ sc_pc' = "drain"
  /\ UNCHANGED <<received, emitted, frames, processed, last_keyframe, cuts,
                 subgops>>

Drain(new_gop) ==
  /\ sc_pc = "drain"
  /\ lookahead_len > lookahead_distance
  /\ split(new_gop)
  /\ UNCHANGED <<received, sc_pc>>

\* The frames left over form the last SubGop.
EmitRest ==
  /\ sc_pc = "drain"
  /\ lookahead_len <= lookahead_distance
  /\ sc_pc' = "done"
  /\ IF lookahead_len > 0
     THEN Emit(lookahead_len, TRUE)
     ELSE UNCHANGED <<subgops, emitted>>
  /\ UNCHANGED <<received, frames, processed, last_keyframe, cuts>>

-----------------------------------------------------------------------------
(* Correctness *)

\* The detector is always given the previous and the current frame, and no
\* SubGop is longer than the lookahead it is split off (either would panic):
\* split's counter `frames` and the length of `lookahead` stay in step,
\* through every order of full SubGops and cuts.
SplitInBounds ==
  /\ sc_pc = "input" => \/ lookahead_len = frames + lookahead_distance - 1
                        \/ frames = 0 /\ lookahead_len < lookahead_distance
  /\ frames < lookahead_distance
  /\ lookahead_len >= 0
=============================================================================
