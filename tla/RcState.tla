------------------------------- MODULE RcState -------------------------------
(***************************************************************************)
(* The second pass of RCState (src/rate.rs), without its arithmetic on     *)
(* scales: which metrics of the first pass are known, how many more are    *)
(* needed before the next frame, and whose metrics the frame is coded      *)
(* with.  With a reservoir_frame_delay the metrics of the next frames are  *)
(* in a ring buffer, otherwise only those of the next frame are read.      *)
(*                                                                         *)
(* Counts per frame type are only ever summed here and are one number.     *)
(***************************************************************************)
EXTENDS Integers

CONSTANT ReservoirDelay  \* reservoir_frame_delay in TUs; 0: not set by the user

ASSUME RcAssumption == ReservoirDelay \in Nat

\* Some metrics: the number of their frame in coding order, and whether it
\* ends a TU.
Metrics == [no : Nat, show : BOOLEAN]
NoMetrics == [no |-> 0, show |-> FALSE]

finite_buffer == ReservoirDelay > 0

\* Mutation: one entry per TU, as if there were no hidden frames.
nmetrics_per_tu == ReservoirDelay

\* The size of frame_metrics (init_second_pass).
nmetrics == 2 * ReservoirDelay + 8

\* init_second_pass and setup_second_pass with a summary of `total` frames in
\* `ntus` TUs.
setup_second_pass(total, ntus) ==
  [total |-> total,
   delay |-> IF finite_buffer /\ ReservoirDelay < ntus THEN ReservoirDelay ELSE ntus,
   frame_metrics |-> [i \in 0 .. nmetrics - 1 |-> NoMetrics],
   head |-> 0,
   nframe_metrics |-> 0,
   nframes_left |-> total,
   window_nframes |-> IF finite_buffer THEN 0 ELSE total,
   window_ntus |-> 0,
   cur_metrics |-> NoMetrics,
   ready |-> FALSE,       \* pass2_data_ready
   coded |-> 0,           \* nencoded_frames + nsef_frames
   failed |-> FALSE]      \* a call has returned Err

\* Before there is a summary: its counts are 0.
NoRc == setup_second_pass(0, 0)

twopass_in_frames_needed(r) ==
  IF ~finite_buffer THEN IF r.ready THEN 0 ELSE 1
  ELSE LET tus == r.delay - r.window_ntus
           rest == r.nframes_left - r.window_nframes
       IN IF tus < 0 THEN 0 ELSE IF tus > rest THEN rest ELSE tus

\* Mutation: the buffer is written as if it began at its first entry.
push_metrics_unwrapped(r, m) ==
  [r EXCEPT !.frame_metrics[r.nframe_metrics] = m,
            !.nframe_metrics = @ + 1,
            !.window_nframes = @ + 1,
            !.window_ntus = IF m.show THEN @ + 1 ELSE @]

\* An index into the ring buffer.
wrap(i) == IF i >= nmetrics THEN i - nmetrics ELSE i

\* Metrics are added at the end of the ring buffer and to the window.
push_metrics(r, m) ==
  [r EXCEPT !.frame_metrics[wrap(r.head + r.nframe_metrics)] = m,
            !.nframe_metrics = @ + 1,
            !.window_nframes = @ + 1,
            !.window_ntus = IF m.show THEN @ + 1 ELSE @]

\* The ring buffer can take one more frame; otherwise the data is refused with
\* "Read too many frames without finding enough TUs".
has_room(r) == r.nframe_metrics < nmetrics

parse_frame_data_packet(r, m) ==
  IF ~finite_buffer THEN [r EXCEPT !.cur_metrics = m, !.ready = TRUE]
  ELSE IF twopass_in_frames_needed(r) = 0 \/ ~has_room(r)
  THEN [r EXCEPT !.failed = TRUE]
  ELSE LET s == push_metrics(r, m)
       IN IF twopass_in_frames_needed(r) = 1
          THEN [s EXCEPT !.ready = TRUE, !.cur_metrics = s.frame_metrics[s.head]]
          ELSE s

\* Mutation: only new data makes the metrics of the next frame current.
twopass_in_none_waits(r) ==
  IF r.coded >= r.total THEN [r EXCEPT !.ready = FALSE] ELSE r

\* twopass_in without data: with a finite buffer it may find that nothing more
\* is needed.
twopass_in_none(r) ==
  IF r.coded >= r.total THEN [r EXCEPT !.ready = FALSE]
  ELSE IF finite_buffer /\ ~r.ready /\ twopass_in_frames_needed(r) = 0
  THEN [r EXCEPT !.ready = TRUE, !.cur_metrics = r.frame_metrics[r.head]]
  ELSE r

\* update_state after a frame: its metrics leave the window and the buffer.
rc_update_state(r) ==
  LET popped ==
        [r EXCEPT !.coded = @ + 1,
                  !.nframes_left = @ - 1,
                  !.window_nframes = @ - 1,
                  !.window_ntus = IF r.cur_metrics.show THEN @ - 1 ELSE @,
                  !.nframe_metrics = IF finite_buffer THEN @ - 1 ELSE @,
                  !.head = IF finite_buffer THEN wrap(@ + 1) ELSE @,
                  !.ready = FALSE]
  IN twopass_in_none(popped)
=============================================================================
