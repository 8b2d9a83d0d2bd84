------------------------------ MODULE O3yvCodec ------------------------------
(***************************************************************************)
(* The O3YV codec at the level of macroblocks: the tiles that              *)
(* src/bin/rav1e-o3yv.rs encodes and minidecoder/src/lib.rs decodes.       *)
(*                                                                         *)
(* The pixels of a macroblock are one value.  A motion vector moves a      *)
(* macroblock along the eye and is clamped at its borders, as the pixel    *)
(* coordinates are.  COPY stands for the eight modes that copy from the    *)
(* reference, whole or in parts, with or without a residual; residual 0 is *)
(* an empty coded-block mask.  The byte streams that carry the modes are   *)
(* left out.                                                               *)
(***************************************************************************)
EXTENDS Integers, FiniteSets

CONSTANTS
  Eyes,          \* the tile ids: 0 for the left eye, 1 for the right
  MB_COUNT,      \* macroblocks of an eye
  NVal,          \* number of values a macroblock may have
  MVs,           \* motion vectors the searches may return
  Residuals,     \* what a residual may add to a prediction
  Bands,         \* the fragments of a tile, as sets of macroblocks
  LAZY_BASE_COPY_MAX_MB_PER_TILE

MBs    == 0 .. MB_COUNT - 1
Values == 0 .. NVal - 1
Eye    == [MBs -> Values]
Frame  == [Eyes -> Eye]

ASSUME CodecAssumption ==
  /\ MB_COUNT \in Nat \ {0}
  /\ NVal \in Nat \ {0}
  /\ MVs \subseteq Int /\ 0 \in MVs
  /\ Residuals \subseteq Int /\ 0 \in Residuals
  /\ UNION Bands = MBs
  /\ LAZY_BASE_COPY_MAX_MB_PER_TILE \in Nat

-----------------------------------------------------------------------------
(* Prediction and residuals, shared by encoder and decoder *)

clamp(x) == IF x < 0 THEN 0 ELSE IF x > MB_COUNT - 1 THEN MB_COUNT - 1 ELSE x

\* copy_mb_from_reference: what it copies for macroblock mb.
copy_mb(reference, mb, mv) == reference[clamp(mb + mv)]

\* prefill_eye: the whole eye predicted with the base vector.
prefill_eye(reference, base_mv) ==
  [mb \in MBs |-> copy_mb(reference, mb, base_mv)]

\* Mutation: the sum is not brought back into the range of a pixel.
apply_residual_unclipped(pred, residual) == pred + residual

\* apply_mb_residual: the sum, clipped to the range of a pixel.
apply_residual(pred, residual) ==
  LET sum == pred + residual
  IN IF sum < 0 THEN 0 ELSE IF sum > NVal - 1 THEN NVal - 1 ELSE sum

-----------------------------------------------------------------------------
(* The encoder *)

SKIP == [mode |-> "SKIP", mv |-> 0, data |-> 0]

\* What choose_mb and the skip test may come to, over all sources and encode
\* modes: the candidates of quality recovery include those of the others.
MbChoice ==
  {SKIP}
    \cup [mode : {"BASE_RES"}, mv : {0}, data : Residuals]
    \cup [mode : {"COPY"}, mv : MVs, data : Residuals]
    \cup [mode : {"RAW"}, mv : {0}, data : Values]

\* A tile as encode_tile describes it.
Tile == [base_mv : MVs, fragments : {Bands}, mbs : [MBs -> MbChoice]]

\* A macroblock whose pixels the base prediction has already is skipped: a
\* raw one differs from it.
RawOnlyIfChanged(reference, t) ==
  \A mb \in MBs :
    t.mbs[mb].mode = "RAW" => t.mbs[mb].data # copy_mb(reference, mb, t.base_mv)

\* MbChoice::recon: the pixels that a choice promises; `prefilled` is what
\* the reconstruction holds before it.
choice_recon(c, reference, prefilled, mb) ==
  IF c.mode = "SKIP" THEN prefilled
  ELSE IF c.mode = "RAW" THEN c.data
  ELSE apply_residual(IF c.mode = "COPY" THEN copy_mb(reference, mb, c.mv)
                                         ELSE prefilled, c.data)

\* The reconstruction of encode_tile: prefilled, then macroblock by macroblock.
recon_eye(reference, t) ==
  LET prefilled == prefill_eye(reference, t.base_mv)
  IN [mb \in MBs |-> choice_recon(t.mbs[mb], reference, prefilled[mb], mb)]

\* encoded_tile_base_predictor_mbs: the macroblocks that need the base
\* prediction.
base_predictor_mbs(t) ==
  {mb \in UNION t.fragments : t.mbs[mb].mode \in {"SKIP", "BASE_RES"}}

\* tile_flags_for_encoded_tile: whether the decoder copies the base
\* prediction macroblock by macroblock.
lazy_base_copy(t) ==
  Cardinality(base_predictor_mbs(t)) <= LAZY_BASE_COPY_MAX_MB_PER_TILE

-----------------------------------------------------------------------------
(* The decoder *)

\* Mutation: a skip run is left to the prefill that a lazy tile does not do.
decode_mb_no_skip_copy(c, t, reference, cur, mb) ==
  LET base == IF lazy_base_copy(t) THEN copy_mb(reference, mb, t.base_mv) ELSE cur
  IN IF c.mode = "SKIP" THEN cur
     ELSE IF c.mode = "RAW" THEN c.data
     ELSE apply_residual(IF c.mode = "COPY" THEN copy_mb(reference, mb, c.mv)
                                            ELSE base, c.data)

\* decode_one_mb, and the skip runs of decode_fragment: `cur` is what the
\* buffer holds, which a lazy tile overwrites with the base prediction.
decode_mb(c, t, reference, cur, mb) ==
  LET base == IF lazy_base_copy(t) THEN copy_mb(reference, mb, t.base_mv) ELSE cur
  IN IF c.mode = "SKIP" THEN base
     ELSE IF c.mode = "RAW" THEN c.data
     ELSE apply_residual(IF c.mode = "COPY" THEN copy_mb(reference, mb, c.mv)
                                            ELSE base, c.data)

\* decode_tile, into the buffer `current`, which holds an older frame: only
\* what the prefill covers or a fragment describes is written.
decode_tile(t, reference, current) ==
  LET cur == IF lazy_base_copy(t) THEN current ELSE prefill_eye(reference, t.base_mv)
  IN [mb \in MBs |-> IF mb \in UNION t.fragments
                     THEN decode_mb(t.mbs[mb], t, reference, cur[mb], mb)
                     ELSE cur[mb]]

\* p_payload_reuses_reference: every tile skips every macroblock with a zero
\* base vector.  Such a payload is always small enough for the test to be
\* tried (REFERENCE_REUSE_FRAME_PAYLOAD_MAX).
p_payload_reuses_reference(tiles) ==
  \A e \in Eyes :
    /\ tiles[e].base_mv = 0
    /\ \A mb \in UNION tiles[e].fragments : tiles[e].mbs[mb].mode = "SKIP"
=============================================================================
