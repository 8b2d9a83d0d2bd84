------------------------------- MODULE O3yvRate -------------------------------
(***************************************************************************)
(* The frame decisions of the O3YV encoder (main, encode_budgeted_p_frame  *)
(* and their helpers in src/bin/rav1e-o3yv.rs): which frames are raw       *)
(* keyframes and which of the candidates a P-frame is written from, given  *)
(* a window of RATE_WINDOW_FRAMES frames that should take at most          *)
(* RATE_WINDOW_BYTES.                                                      *)
(*                                                                         *)
(* A candidate is its size, whether it meets the caps on bytes, raw blocks *)
(* and decode work (p_frame_satisfies_budget), and its distortion: 0 up to *)
(* QUALITY_TARGET_Y_SSE, 1 up to the relaxed stop at twice that, 2 above.  *)
(* Whether a frame is a scene change from the frame before it is arbitrary;*)
(* the encoder looks one frame ahead.                                      *)
(***************************************************************************)
EXTENDS Integers, Sequences

CONSTANTS
  FrameCount,           \* frames of the input
  Keyint,               \* --keyint
  RATE_WINDOW_FRAMES,
  RATE_WINDOW_BYTES,
  KEY_RAW_CODED_BYTES,
  TIGHT_WINDOW_BYTES,   \* QUALITY_RECOVERY_TIGHT_WINDOW_BYTES
  PSizes,               \* sizes a P-frame candidate may have
  BudgetSteps,          \* length of BUDGET_Q_STEPS
  RecoverySteps         \* length of QUALITY_RECOVERY_RAW4X4_SSE_THRESHOLDS

ASSUME RateAssumption ==
  /\ {FrameCount, Keyint, KEY_RAW_CODED_BYTES} \subseteq Nat \ {0}
  /\ {RATE_WINDOW_BYTES, TIGHT_WINDOW_BYTES} \subseteq Nat
  /\ RATE_WINDOW_FRAMES \in Nat \ {0, 1}
  /\ TIGHT_WINDOW_BYTES <= RATE_WINDOW_BYTES
  /\ PSizes \subseteq Nat \ {0}
  /\ {BudgetSteps, RecoverySteps} \subseteq Nat \ {0}

VARIABLES
  frame_no,   \* the frame to be coded
  scene_cut,  \* it is a scene change from the one before
  last_raw,   \* last_raw_frame_no, or NoRaw
  recent,     \* recent_frame_bytes, as far back as it is read
  last        \* how the frame before was coded

rateVars == <<frame_no, scene_cut, last_raw, recent, last>>

NoRaw == -1

-----------------------------------------------------------------------------
(* The rolling window *)

\* The sum of the last n of the sizes s: iter().rev().take(n).sum().
SumOfLast(s, n) ==
  LET sum[k \in 0 .. RATE_WINDOW_FRAMES] ==
        IF k = 0 THEN 0
        ELSE sum[k - 1] + (IF k <= Len(s) THEN s[Len(s) - k + 1] ELSE 0)
  IN sum[n]

BytesOfLast(n) == SumOfLast(recent, n)

rolling_window_bytes_after(bytes) == BytesOfLast(RATE_WINDOW_FRAMES - 1) + bytes

rolling_window_allows_frame_bytes(bytes) ==
  rolling_window_bytes_after(bytes) <= RATE_WINDOW_BYTES

\* Mutation: the window is the one this frame ends, not the next.
allows_next_raw_one_short(bytes) ==
  BytesOfLast(RATE_WINDOW_FRAMES - 3) + bytes + KEY_RAW_CODED_BYTES
    <= RATE_WINDOW_BYTES

rolling_window_allows_next_raw_after_frame(bytes) ==
  BytesOfLast(RATE_WINDOW_FRAMES - 2) + bytes + KEY_RAW_CODED_BYTES
    <= RATE_WINDOW_BYTES

rolling_window_allows_quality_recovery_frame_bytes(bytes, reserve) ==
  IF reserve THEN rolling_window_allows_next_raw_after_frame(bytes)
             ELSE rolling_window_allows_frame_bytes(bytes)

raw_key_due_for_max_gap(n) == last_raw = NoRaw \/ n - last_raw >= Keyint

-----------------------------------------------------------------------------
(* encode_budgeted_p_frame *)

Candidate == [bytes : PSizes, fits : BOOLEAN, sse : 0 .. 2, recovered : {FALSE}]
Lossless  == {c \in Candidate : c.sse = 0}
Recovery  == [bytes : PSizes, fits : BOOLEAN, sse : 0 .. 2, recovered : {TRUE}]

budget_and_rate(c) == c.fits /\ rolling_window_allows_frame_bytes(c.bytes)

\* The budget steps: a smaller candidate replaces the best so far, until the
\* best satisfies everything.
BudgetStep(best, c) ==
  IF budget_and_rate(best) THEN best
  ELSE IF c.bytes < best.bytes THEN c ELSE best

\* The states of the search after each step.
BudgetBest ==
  LET Steps[k \in 0 .. BudgetSteps] ==
        IF k = 0 THEN Lossless
        ELSE {BudgetStep(best, c) : best \in Steps[k - 1], c \in Candidate}
  IN Steps[BudgetSteps]

\* should_try_quality_recovery; its other disjuncts imply this one.
should_try_quality_recovery(c, reserve) ==
  /\ rolling_window_allows_quality_recovery_frame_bytes(c.bytes, reserve)
  /\ c.sse > 0

quality_recovery_stop(c, reserve) ==
  IF reserve \/ rolling_window_bytes_after(c.bytes) >= TIGHT_WINDOW_BYTES
  THEN 1 ELSE 0

\* Mutation: the steps look at the quality only, not at the window.
RecoveryStepUnbudgeted(best, c, stop, reserve) ==
  IF best.recovered /\ best.sse <= stop THEN best
  ELSE IF c.fits /\ c.sse < best.sse THEN c ELSE best

\* The recovery steps: a candidate of better quality replaces the best as
\* long as it fits, until the quality is enough.
RecoveryStep(best, c, stop, reserve) ==
  IF best.recovered /\ best.sse <= stop THEN best
  ELSE IF /\ c.fits /\ c.sse < best.sse
          /\ rolling_window_allows_quality_recovery_frame_bytes(c.bytes, reserve)
       THEN c ELSE best

Recovered(c, reserve) ==
  LET stop == quality_recovery_stop(c, reserve)
      Steps[k \in 0 .. RecoverySteps] ==
        IF k = 0 THEN {c}
        ELSE {RecoveryStep(best, r, stop, reserve) : best \in Steps[k - 1],
                                                     r \in Recovery}
  IN IF should_try_quality_recovery(c, reserve) THEN Steps[RecoverySteps] ELSE {c}

encode_budgeted_p_frame(reserve) ==
  UNION {Recovered(c, reserve) : c \in BudgetBest}

-----------------------------------------------------------------------------
(* The main loop *)

RateInit ==
  /\ frame_no = 0 /\ scene_cut = FALSE /\ last_raw = NoRaw /\ recent = <<>>
  /\ last = [kind |-> "none", recovered |-> FALSE, reserve |-> FALSE,
             warned |-> FALSE]

\* The rest of an iteration: the frame is written, the next source frame is
\* compared with this one.
Written(bytes, next_cut) ==
  /\ recent' = LET all == Append(recent, bytes)
               IN IF Len(all) > RATE_WINDOW_FRAMES THEN Tail(all) ELSE all
  /\ frame_no' = frame_no + 1
  /\ scene_cut' = next_cut

\* Mutation: a scene cut is a keyframe whatever the window holds.
KeyKindUnbudgeted ==
  IF raw_key_due_for_max_gap(frame_no) THEN "gap"
  ELSE IF scene_cut THEN "scene" ELSE "p"

\* is_key: the maximal gap first, then a scene cut that the window allows.
KeyKind ==
  IF raw_key_due_for_max_gap(frame_no) THEN "gap"
  ELSE IF scene_cut /\ rolling_window_allows_frame_bytes(KEY_RAW_CODED_BYTES)
  THEN "scene" ELSE "p"

CodeKey(next_cut) ==
  /\ frame_no < FrameCount
  /\ KeyKind # "p"
  /\ last_raw' = frame_no
  /\ last' = [kind |-> KeyKind, recovered |-> FALSE, reserve |-> FALSE,
              warned |-> FALSE]
  /\ Written(KEY_RAW_CODED_BYTES, next_cut)

\* next_frame_needs_raw_reserve
needs_raw_reserve(next_cut) ==
  /\ frame_no + 1 < FrameCount
  /\ raw_key_due_for_max_gap(frame_no + 1) \/ next_cut

\* A P-frame; one that still breaks a limit is written with a warning.
CodeP(next_cut) ==
  /\ frame_no < FrameCount
  /\ KeyKind = "p"
  /\ \E best \in encode_budgeted_p_frame(needs_raw_reserve(next_cut)) :
       /\ last' = [kind |-> "p", recovered |-> best.recovered,
                   reserve |-> needs_raw_reserve(next_cut),
                   warned |-> ~budget_and_rate(best)]
       /\ Written(best.bytes, next_cut)
  /\ UNCHANGED last_raw

Finished == frame_no = FrameCount /\ UNCHANGED rateVars

RateNext ==
  \/ \E next_cut \in BOOLEAN : CodeKey(next_cut) \/ CodeP(next_cut)
  \/ Finished

RateSpec == RateInit /\ [][RateNext]_rateVars

-----------------------------------------------------------------------------
(* Correctness *)

\* A frame recovered under a reserve leaves room: the keyframe it was kept
\* for is the next frame, whether by the gap or by the cut, and the window
\* that ends with it is within the rate.
ReservedKeyFollows ==
  [][last.recovered /\ last.reserve =>
       /\ last'.kind \in {"gap", "scene"}
       /\ rolling_window_bytes_after(KEY_RAW_CODED_BYTES) <= RATE_WINDOW_BYTES]_rateVars

\* The window is exceeded only by a keyframe that the gap forces or by a
\* P-frame with a warning, never by a scene keyframe.  Quality recovery does
\* not exceed it either: it only spends what the window has left.  Under a
\* reserve it counts a raw key in the place of the oldest frame, so that a
\* recovered frame may then end a window that is exceeded, but only where the
\* oldest frame is a P-frame larger than a raw key.
OverrunsAnnounced ==
  BytesOfLast(RATE_WINDOW_FRAMES) > RATE_WINDOW_BYTES =>
    \/ last.kind = "gap"
    \/ /\ last.warned
       /\ last.recovered =>
            last.reserve /\ recent[1] > KEY_RAW_CODED_BYTES
=============================================================================
