---------------------------- MODULE Old3dsPlayer ----------------------------
(***************************************************************************)
(* The program of the 3DS (old3ds/source/main.c): it measures the decoding *)
(* of an embedded stream, then plays it in a loop.  It drives the          *)
(* StreamDecoder of module O3yvLoop through the functions of               *)
(* minidecoder-3dsffi, which return a frame, the end, or an error, the     *)
(* same ones after every reset.                                            *)
(*                                                                         *)
(* External (libctru): START is seen by the next hidScanInput after it was *)
(* pressed, and by that one only; aptMainLoop answers FALSE from some time *)
(* on; conversions with the Y2R hardware may fail.  Times, checksums and   *)
(* the log are left out.                                                   *)
(***************************************************************************)
EXTENDS Integers

CONSTANTS
  EmbeddedStreams,   \* the streams: how many frames decode, and what follows
  BenchIterations,   \* O3YV_BENCH_ITERATIONS
  MaxBenchFrames,    \* MAX_BENCH_FRAMES
  MaxBenchSamples    \* MAX_BENCH_SAMPLES

ASSUME PlayerAssumption ==
  /\ EmbeddedStreams \subseteq [frames : Nat, end : {"done", "error", "bad_header"}]
  /\ {BenchIterations, MaxBenchFrames, MaxBenchSamples} \subseteq Nat \ {0}

VARIABLES
  stream,    \* O3YV_STREAM
  at,        \* "start", "bench", "direct", "play", "wait_exit", "exited"
  decoder,   \* "none", "live" or "dropped"
  frame,     \* frames decoded since the last reset
  iter,      \* the iteration of a bench, the pass of the playback (0 or 1)
  samples,   \* sample_count
  y2r,       \* g_y2r_available
  y2r_init,  \* g_y2r_initialized
  start,     \* START has been pressed and not been seen
  closing    \* aptMainLoop returns false

playerVars ==
  <<stream, at, decoder, frame, iter, samples, y2r, y2r_init, start, closing>>

PlayerInit ==
  /\ stream \in EmbeddedStreams
  /\ at = "start" /\ decoder = "none" /\ frame = 0 /\ iter = 0 /\ samples = 0
  /\ y2r = FALSE /\ y2r_init = FALSE /\ start = FALSE /\ closing = FALSE

\* o3yv_decoder_next_frame
Answer == IF frame < stream.frames THEN "frame" ELSE stream.end

-----------------------------------------------------------------------------
(* The user and the system *)

PressStart ==
  /\ at # "exited" /\ ~start
  /\ start' = TRUE
  /\ UNCHANGED <<stream, at, decoder, frame, iter, samples, y2r, y2r_init, closing>>

CloseRequested ==
  /\ ~closing
  /\ closing' = TRUE
  /\ UNCHANGED <<stream, at, decoder, frame, iter, samples, y2r, y2r_init, start>>

-----------------------------------------------------------------------------
(* The program *)

\* The memory is allocated, which may fail, and the decoder is made.
Setup ==
  /\ at = "start"
  /\ \/ at' = "wait_exit" /\ UNCHANGED decoder
     \/ /\ at' = IF stream.end = "bad_header" THEN "wait_exit" ELSE "bench"
        /\ decoder' = IF stream.end = "bad_header" THEN "none" ELSE "live"
  /\ UNCHANGED <<stream, frame, iter, samples, y2r, y2r_init, start, closing>>

\* Where a bench goes on when it fails: main gives up, but not when
\* run_direct_plane_bench fails.
Failed == IF at = "bench" THEN "wait_exit" ELSE "play"

\* init_y2r_playback, at the beginning of playback_loop.
init_y2r_playback ==
  IF at' = "play" THEN \E ok \in BOOLEAN : y2r' = ok /\ y2r_init' = ok
                  ELSE UNCHANGED <<y2r, y2r_init>>

\* A frame of the bench in main or of run_direct_plane_bench: it is decoded,
\* its output taken, and its times are kept if there is room.
BenchFrame ==
  /\ at \in {"bench", "direct"}
  /\ Answer = "frame"
  /\ IF samples >= MaxBenchSamples \/ frame >= MaxBenchFrames
     THEN /\ at' = Failed
          /\ frame' = 0 /\ iter' = 0 /\ samples' = 0
     ELSE /\ samples' = samples + 1 /\ frame' = frame + 1
          /\ UNCHANGED <<at, iter>>
  /\ init_y2r_playback
  /\ UNCHANGED <<stream, decoder, start, closing>>

\* The decoder returns no frame: an error, the end of an iteration, or the end
\* of the bench.  The counters are those of the next bench or pass, which
\* resets the decoder.
BenchIterationEnds ==
  /\ at \in {"bench", "direct"}
  /\ Answer # "frame"
  /\ frame' = 0
  /\ IF Answer = "done" /\ iter + 1 < BenchIterations
     THEN iter' = iter + 1 /\ UNCHANGED <<at, samples>>
     ELSE /\ iter' = 0 /\ samples' = 0
          /\ at' = IF Answer = "done" /\ (samples > 0 \/ at = "direct")
                   THEN IF at = "bench" THEN "direct" ELSE "play"
                   ELSE Failed
  /\ init_y2r_playback
  /\ UNCHANGED <<stream, decoder, start, closing>>

\* play_one_pass returns: the first pass is followed by the loop whatever it
\* returned, the others as long as they return 0 and the system allows it.
PassReturns(ok) ==
  /\ frame' = 0
  /\ iter' = 1
  /\ at' = IF closing \/ (iter = 1 /\ ~ok) THEN "wait_exit" ELSE "play"

\* Mutation: the loops do not ask the system.
PlayClosedIgnored ==
  /\ at = "play" /\ closing
  /\ frame' = 0 /\ iter' = 1
  /\ UNCHANGED <<stream, at, decoder, samples, y2r, y2r_init, start, closing>>

\* aptMainLoop ends the pass.
PlayClosed ==
  /\ at = "play" /\ closing
  /\ PassReturns(iter = 1 \/ frame > 0)
  /\ UNCHANGED <<stream, decoder, samples, y2r, y2r_init, start, closing>>

\* START is seen, and the pass returns 0.
PlayStart ==
  /\ at = "play" /\ ~closing /\ start
  /\ start' = FALSE
  /\ PassReturns(TRUE)
  /\ UNCHANGED <<stream, decoder, samples, y2r, y2r_init, closing>>

\* A frame is decoded and shown: by the Y2R hardware, or in software from its
\* first failure on.
PlayFrame ==
  /\ at = "play" /\ ~closing /\ ~start
  /\ Answer = "frame"
  /\ frame' = frame + 1
  /\ y2r' \in {y2r, FALSE}
  /\ UNCHANGED <<stream, at, decoder, iter, samples, y2r_init, start, closing>>

\* The decoder returns no frame.
PlayEnds ==
  /\ at = "play" /\ ~closing /\ ~start
  /\ Answer # "frame"
  /\ PassReturns(Answer = "done" /\ (iter = 1 \/ frame > 0))
  /\ UNCHANGED <<stream, decoder, samples, y2r, y2r_init, start, closing>>

\* wait_exit: everything is released, then START or the system ends it.
Exit ==
  /\ at = "wait_exit"
  /\ decoder' = IF decoder = "live" THEN "dropped" ELSE decoder
  /\ y2r_init' = FALSE
  /\ start' = FALSE
  /\ at' = IF start \/ closing THEN "exited" ELSE at
  /\ UNCHANGED <<stream, frame, iter, samples, y2r, closing>>

Program ==
  \/ Setup \/ BenchFrame \/ BenchIterationEnds
  \/ PlayClosed \/ PlayStart \/ PlayFrame \/ PlayEnds \/ Exit

Exited == at = "exited" /\ UNCHANGED playerVars

PlayerNext == Program \/ PressStart \/ CloseRequested \/ Exited

\* The program runs on its own thread and waits for nobody.
PlayerFairness == WF_playerVars(Program)

PlayerFairSpec == PlayerInit /\ [][PlayerNext]_playerVars /\ PlayerFairness

-----------------------------------------------------------------------------
(* Correctness *)

\* The program ends when the system asks it to, whatever it is doing then: the
\* benches, which do not ask, are finite for any stream, and no loop around
\* play_one_pass outlives the answer of aptMainLoop.
CloseExits == closing ~> at = "exited"

\* What the log line of playback_loop ("START exits", main.c:736) and the
\* README ("Press START to exit.") say of the playback.
StartExits == (at = "play" /\ start) ~> at \in {"wait_exit", "exited"}
=============================================================================
