----------------------------- MODULE RateTwoPass -----------------------------
(***************************************************************************)
(* A two-pass encode through Context: the statistics that the first pass   *)
(* hands out (twopass_out, rc_receive_pass_data) are written to a file and *)
(* fed to the second pass, in packets (rc_send_pass_data) or in pieces of  *)
(* any number of bytes (twopass_in).  The application may also call these  *)
(* functions when it need not.                                             *)
(*                                                                         *)
(* The frames to code are a sequence of flags, whether a frame ends its    *)
(* TU; both passes code the same ones (module ChannelEncoder shows this of *)
(* the pipeline).  Headers and packets have HDR and PKT bytes.             *)
(***************************************************************************)
EXTENDS RcState, Sequences, FiniteSets

CONSTANTS
  Streams,    \* the sequences of show flags to be coded
  HDR, PKT,   \* TWOPASS_HEADER_SZ, TWOPASS_PACKET_SZ, scaled down
  MaxPiece    \* bytes in one call of twopass_in

\* Frames a to b of a stream that are shown, or not.
ShownIn(s, a, b)  == {i \in a .. b : s[i]}
HiddenIn(s, a, b) == {i \in a .. b : ~s[i]}

\* A hidden frame is shown by a later frame of its group, and no more than
\* two wait for that (the pyramid of InterConfig has two hidden frames); the
\* last frame of a stream is shown.
ASSUME TwoPassAssumption ==
  /\ Streams \subseteq Seq(BOOLEAN) \ {<<>>}
  /\ \A s \in Streams :
       /\ s[Len(s)]
       /\ \A a, b \in 1 .. Len(s) :
            Cardinality(HiddenIn(s, a, b)) <= Cardinality(ShownIn(s, a, b)) + 2
  /\ {HDR, PKT, MaxPiece} \subseteq Nat \ {0}

VARIABLES
  frames,     \* the frames to be coded
  interface,  \* "packets" or "bytes"
  pass,       \* 1 or 2
  retrieved,  \* pass1_data_retrieved
  ncoded,     \* frames coded in the first pass
  file,       \* metrics in the statistics file
  rc,         \* the RCState of the second pass, NoRc before its summary
  fill,       \* pass2_buffer_fill
  pos         \* the next metrics in the file

tpVars == <<frames, interface, pass, retrieved, ncoded, file, rc, fill, pos>>

Shown(s) == Cardinality({i \in DOMAIN s : s[i].show})

TpInit ==
  /\ frames \in Streams
  /\ interface \in {"packets", "bytes"}
  /\ pass = 1 /\ retrieved = TRUE /\ ncoded = 0 /\ file = <<>>
  /\ rc = NoRc /\ fill = 0 /\ pos = 1

-----------------------------------------------------------------------------
(* The first pass *)

\* A frame is coded once the data of the one before has been taken (ready);
\* update_state keeps its metrics in prev_metrics.
FirstPassFrame ==
  /\ pass = 1 /\ retrieved
  /\ ncoded < Len(frames)
  /\ ncoded' = ncoded + 1
  /\ retrieved' = FALSE
  /\ UNCHANGED <<frames, interface, pass, file, rc, fill, pos>>

\* twopass_out or rc_receive_pass_data; a second call returns None.
EmitFrameData ==
  /\ pass = 1 /\ ~retrieved
  /\ file' = Append(file, [no |-> ncoded, show |-> frames[ncoded]])
  /\ retrieved' = TRUE
  /\ UNCHANGED <<frames, interface, pass, ncoded, rc, fill, pos>>

\* The summary is written to the front, and the second pass begins; a summary
\* taken from the configuration is set up at once (Config::new_inner).
EmitSummary ==
  /\ pass = 1 /\ retrieved
  /\ ncoded = Len(frames)
  /\ pass' = 2
  /\ rc' = IF interface = "packets"
           THEN setup_second_pass(Len(file), Shown(file)) ELSE NoRc
  /\ UNCHANGED <<frames, interface, retrieved, ncoded, file, fill, pos>>

-----------------------------------------------------------------------------
(* The second pass *)

Required == rc.coded < Len(frames) /\ twopass_in_frames_needed(rc) > 0

\* rc_send_pass_data, as long as rc_second_pass_data_required asks for it.
SendPassData ==
  /\ pass = 2 /\ interface = "packets"
  /\ Required /\ pos <= Len(file)
  /\ rc' = parse_frame_data_packet(rc, file[pos])
  /\ pos' = pos + 1
  /\ UNCHANGED <<frames, interface, pass, retrieved, ncoded, file, fill>>

State2 == [rc |-> rc, fill |-> fill, pos |-> pos]

\* twopass_parse_frame_data with a complete packet in pass2_buffer.
parse_buffered(s) ==
  LET m == file[s.pos]
      added == IF ~finite_buffer THEN [s.rc EXCEPT !.cur_metrics = m, !.ready = TRUE]
               ELSE IF ~has_room(s.rc) THEN [s.rc EXCEPT !.failed = TRUE]
               ELSE twopass_in_none(push_metrics(s.rc, m))
  IN [rc |-> added, fill |-> 0, pos |-> s.pos + 1]

\* One byte offered to twopass_in: it goes to the summary, to the next packet,
\* or is left alone.
twopass_in_byte(s) ==
  IF s.rc.total = 0
  THEN IF s.fill + 1 < HDR THEN [s EXCEPT !.fill = @ + 1]
       ELSE [s EXCEPT !.fill = 0, !.rc = setup_second_pass(Len(file), Shown(file))]
  ELSE IF s.rc.coded >= s.rc.total THEN [s EXCEPT !.rc.ready = FALSE]
  ELSE IF s.rc.ready THEN s
  ELSE IF twopass_in_frames_needed(s.rc) = 0 THEN [s EXCEPT !.rc = twopass_in_none(@)]
  ELSE IF s.fill + 1 < PKT THEN [s EXCEPT !.fill = @ + 1]
  ELSE parse_buffered(s)

\* Bytes of the file that have not been consumed.
Unread(s) ==
  IF s.rc.total = 0 THEN HDR - s.fill + PKT * Len(file)
                    ELSE PKT * (Len(file) + 1 - s.pos) - s.fill

\* twopass_in with the next n bytes of the file, of which it consumes some.
TwopassIn(n) ==
  /\ pass = 2 /\ interface = "bytes"
  /\ n <= Unread(State2)
  /\ LET after[k \in 0 .. n] ==
           IF k = 0 THEN State2 ELSE twopass_in_byte(after[k - 1])
     IN rc' = after[n].rc /\ fill' = after[n].fill /\ pos' = after[n].pos
  /\ UNCHANGED <<frames, interface, pass, retrieved, ncoded, file>>

\* A frame of the second pass, and update_state.
SecondPassFrame ==
  /\ pass = 2 /\ rc.ready
  /\ rc' = rc_update_state(rc)
  /\ UNCHANGED <<frames, interface, pass, retrieved, ncoded, file, fill, pos>>

\* receive_packet without data for the next frame: NotReady, or at the end
\* LimitReached.
PollNotReady ==
  /\ pass = 2 /\ ~rc.ready
  /\ UNCHANGED tpVars

TpNext ==
  \/ FirstPassFrame \/ EmitFrameData \/ EmitSummary
  \/ SendPassData \/ (\E n \in 1 .. MaxPiece : TwopassIn(n)) \/ SecondPassFrame
  \/ PollNotReady

\* The application goes on until the end and feeds what it has.
TpFairness ==
  /\ WF_tpVars(FirstPassFrame) /\ WF_tpVars(EmitFrameData) /\ WF_tpVars(EmitSummary)
  /\ WF_tpVars(SendPassData) /\ WF_tpVars(TwopassIn(1)) /\ WF_tpVars(SecondPassFrame)

TpSpec == TpInit /\ [][TpNext]_tpVars

TpFairSpec == TpSpec /\ TpFairness

-----------------------------------------------------------------------------
(* Correctness *)

\* Every frame of the second pass is coded with the metrics of the same frame
\* in the first, through any wrap of the ring buffer and any division of the
\* data into pieces, and data of a first pass is never refused: the buffer,
\* sized from a delay in TUs, has room for hidden frames, and the window is
\* within the frames that are left (the bounds of clamp are in order).
MetricsOfTheSameFrame ==
  /\ ~rc.failed
  /\ rc.ready => rc.cur_metrics = [no |-> rc.coded + 1, show |-> frames[rc.coded + 1]]
  /\ rc.window_nframes <= rc.nframes_left

\* A two-pass encode that has begun codes all its frames twice: the second pass,
\* given the data of the first, never waits for data that the file does not
\* have, however it is fed.
SecondPassCompletes == ncoded > 0 ~> pass = 2 /\ rc.coded = Len(frames)
=============================================================================
