---------------------------- MODULE InterConfig ----------------------------
(***************************************************************************)
(* The re-ordering arithmetic of the encoder: `InterConfig` of             *)
(* src/api/internal.rs.  A GOP is a keyframe followed by groups.  A group  *)
(* covers group_input_len input frames with group_output_len output        *)
(* frames: first pyramid_depth hidden frames, then one shown frame per     *)
(* input frame, some of them "show existing frame" (SEF) of a hidden one.  *)
(*                                                                         *)
(*   idx_in_group_output:   0   1   2   3   4   5                          *)
(*   input offset:          4   2   1  SEF  3  SEF                         *)
(*   level:                 0   1   2   1   2   0                          *)
(*                                                                         *)
(* The code supports pyramid depths 0 (low latency) and 2 only, and so     *)
(* does this module.                                                       *)
(***************************************************************************)
EXTENDS Integers

CONSTANTS
  LowLatency,           \* EncoderConfig::low_latency
  SpeedMultiref,        \* SpeedSettings::multiref
  SwitchFrameInterval   \* EncoderConfig::switch_frame_interval

\* Config::validate refuses S-frames unless low_latency is set.
ASSUME InterConfigAssumption ==
  /\ LowLatency \in BOOLEAN
  /\ SpeedMultiref \in BOOLEAN
  /\ SwitchFrameInterval \in Nat
  /\ SwitchFrameInterval > 0 => LowLatency

reorder          == ~LowLatency
multiref         == reorder \/ SpeedMultiref
pyramid_depth    == IF reorder THEN 2 ELSE 0
group_input_len  == IF reorder THEN 4 ELSE 1
group_output_len == group_input_len + pyramid_depth

\* The level whose period divides a position: 0 for multiples of the group
\* length, 1 for multiples of half of it, 2 for the rest.
pos_to_lvl(pos) ==
  IF pos % group_input_len = 0 THEN 0
  ELSE IF pos % (group_input_len \div 2) = 0 THEN 1
  ELSE 2

get_idx_in_group_output(output_frameno_in_gop) ==
  (output_frameno_in_gop - 1) % group_output_len

\* Distance, in input frames, from the keyframe of the GOP.
get_order_hint(output_frameno_in_gop, idx) ==
  LET group_idx == (output_frameno_in_gop - 1) \div group_output_len
      offset == IF idx < pyramid_depth
                THEN IF idx = 0 THEN group_input_len
                                ELSE group_input_len \div 2
                ELSE idx - pyramid_depth + 1
  IN group_input_len * group_idx + offset

get_level(idx) ==
  IF ~reorder THEN 0
  ELSE IF idx < pyramid_depth THEN idx
  ELSE pos_to_lvl(idx - pyramid_depth + 1)

\* Mutation: level 0 slots do not wrap around.
get_slot_idx_no_wrap(level, order_hint) ==
  IF level = 0 THEN order_hint \div group_input_len ELSE 3 + level

\* Mutation: levels 1 and 2 share a slot.
get_slot_idx_shared(level, order_hint) ==
  IF level = 0 THEN (order_hint \div group_input_len) % 4 ELSE 4

\* Level 0 frames rotate through slots 0..3, level l is kept in slot 3 + l.
get_slot_idx(level, order_hint) ==
  IF level = 0 THEN (order_hint \div group_input_len) % 4 ELSE 3 + level

get_show_frame(idx) == idx >= pyramid_depth

\* Shown positions that are powers of two, except the first, were coded as
\* hidden frames earlier in the group.
get_show_existing_frame(idx) ==
  /\ reorder
  /\ get_show_frame(idx)
  /\ idx - pyramid_depth + 1 \in {1, 2, 4}
  /\ idx # pyramid_depth

get_input_frameno(output_frameno_in_gop, gop_input_start) ==
  IF output_frameno_in_gop = 0
  THEN gop_input_start
  ELSE gop_input_start
         + get_order_hint(output_frameno_in_gop,
                          get_idx_in_group_output(output_frameno_in_gop))

keyframe_lookahead_distance == group_input_len + 1

-----------------------------------------------------------------------------
(* The reference slots of an inter frame (FrameInvariants::new_inter_frame). *)

REF_FRAMES == 0 .. 7
INTER_REFS == 0 .. 6     \* LAST, LAST2, LAST3, GOLDEN, BWDREF, ALTREF2, ALTREF
LAST2  == 1
LAST3  == 2
ALTREF == 6

\* The slot of the frame at distance `hint`, by the level of that distance.
SlotAt(hint) ==
  IF pos_to_lvl(hint) = 0
  THEN (hint \div group_input_len) % 4
  ELSE 3 + pos_to_lvl(hint)

\* Half the distance between two frames of the level below.
LevelStep(level) == IF level = 1 THEN group_input_len \div 2
                                 ELSE group_input_len \div 4

ref_frames(idx, level, hint) ==
  LET slot       == get_slot_idx(level, hint)
      second_ref == IF idx = 0 THEN LAST2 ELSE ALTREF
  IN [i \in INTER_REFS |->
        IF level = 0
        THEN IF multiref /\ i = second_ref THEN (slot + 2) % 4
                                           ELSE (slot + 3) % 4
        ELSE IF i = LAST3 THEN slot
        ELSE IF i = second_ref THEN SlotAt(hint + LevelStep(level))
        ELSE SlotAt(hint - LevelStep(level))]
=============================================================================
