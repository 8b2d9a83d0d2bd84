-------------------------- MODULE DecoderSyncProofs --------------------------
(***************************************************************************)
(* The reference buffers, for every configuration, every sequence of calls *)
(* and every answer of the scene change detector: every lookup of a        *)
(* reference finds one, and a decoder predicts from the pictures that the  *)
(* encoder predicted from and displays the frames that were sent.          *)
(***************************************************************************)
EXTENDS DecoderSync, EncoderPipelineProofs

-----------------------------------------------------------------------------
(* The inductive invariants *)

\* A buffer whose slots all hold pictures of frames before n.
Filled(buffer, n) ==
  \A r \in REF_FRAMES : buffer[r] # NoRef /\ buffer[r].output_frameno < n

\* The slots that the frame at position p of a GOP uses.
SlotsAt(fd, p) ==
  LET idx   == get_idx_in_group_output(p)
      hint  == get_order_hint(p, idx)
      level == get_level(idx)
  IN /\ fd.ref_frames = ref_frames(idx, level, hint)
     /\ fd.slot = get_slot_idx(level, hint)
     /\ reorder /\ IsCoded(fd) => fd.refresh = {fd.slot}

\* A frame that is built: the originals that the lookahead predicts from, and
\* the buffer it will be encoded with or, once encoded, has left.
DataInv(n) ==
  LET fd == frame_data[n]
  IN /\ IsCoded(fd) => Filled(fd.lookahead_rec_buffer, n + 1)
     /\ IsCoded(fd) /\ fd.frame_type # "KEY" =>
          Filled(fd.rec_buffer, IF n < output_frameno THEN n + 1 ELSE n)
     /\ fd.frame_type = "KEY" =>
          /\ fd.refresh = REF_FRAMES
          /\ n < output_frameno => Filled(fd.rec_buffer, n + 1)
     /\ fd.frame_type # "KEY" => SlotsAt(fd, P(n))

\* There is a frame to be encoded whenever a frame can be built, so that no
\* frame is built from one that has been encoded.
ReadyInv == NextOut > 0 /\ (~is_flushing \/ pc # "idle") => ReadyFrames # {}

BuffersInv ==
  /\ \A n \in DOMAIN frame_data : IsFrame(frame_data[n]) => DataInv(n)
  /\ ReadyInv

\* The decoder when it has also decoded the frames of the next packet.
Ahead == DecodeFrames(dec, packet_data)

\* The frames that will be encoded from the buffer as it is: the next coded
\* frame and the SEFs before it.
InLine(n) ==
  /\ n >= output_frameno
  /\ IsFrame(frame_data[n]) /\ frame_data[n].frame_type # "KEY"
  /\ \A k \in output_frameno .. n - 1 : ~IsCoded(frame_data[k])

InLineInv ==
  \A n \in DOMAIN frame_data : InLine(n) =>
    /\ frame_data[n].rec_buffer = Ahead.slots
    /\ IsCoded(frame_data[n]) =>
         frame_data[n].sign_bias
           = sign_bias(frame_data[n].ref_frames, Ahead.slots, frame_data[n].order_hint)

\* After position p of the GOP of frame k: the hidden frames of its group, if
\* the GOP does not end before them, are in their slots until they are shown.
Held(slots, p, k) ==
  LET idx   == get_idx_in_group_output(p)
      start == group_input_len * ((p - 1) \div group_output_len)
  IN reorder /\ p > 0 =>
       /\ idx \in 0 .. 4 /\ k + start + 4 < NextKey(k) =>
            slots[((start + 4) \div 4) % 4].picture = k + start + 4
       /\ idx \in 1 .. 2 /\ k + start + 2 < NextKey(k) =>
            slots[4].picture = k + start + 2

HeldInv == output_frameno > 0 =>
             Held(Ahead.slots, P(output_frameno - 1), K(output_frameno - 1))

BitstreamType ==
  [output_frameno : Nat, input_frameno : Nat, sef : BOOLEAN,
   frame_type : {"KEY", "INTER", "SWITCH"}, show_frame : BOOLEAN, order_hint : Nat,
   slot : REF_FRAMES, refresh : SUBSET REF_FRAMES,
   ref_frames : [INTER_REFS -> REF_FRAMES], sign_bias : SUBSET INTER_REFS,
   uses : [INTER_REFS -> RefType], t35 : SUBSET Nat]

DecoderType == [slots : [REF_FRAMES -> RefType], display : Seq(RefType), drifted : SUBSET Nat]

SyncInv ==
  /\ dec \in DecoderType /\ Ahead \in DecoderType
  /\ packet_data \in Seq(BitstreamType)
  /\ Ahead.display = dec.display /\ Ahead.drifted = {}
  /\ InLineInv /\ HeldInv
  /\ NoDrift /\ DisplaysInput

-----------------------------------------------------------------------------
(* The decoder *)

\* A decoded frame leaves a decoder.
LEMMA DecodeFrameType ==
  ASSUME NEW d \in DecoderType, NEW f \in BitstreamType
  PROVE  DecodeFrame(d, f) \in DecoderType
PROOF
  <1> DEFINE pic == Ref("rec", f.output_frameno, f.order_hint, f.input_frameno)
  <1>1. pic \in RefType
    BY RefTypes DEF BitstreamType
  <1>2. Refresh(d.slots, f.refresh, pic) \in [REF_FRAMES -> RefType]
    BY <1>1, RefreshType DEF DecoderType, BitstreamType
  <1>3. /\ d.slots[f.slot] \in RefType /\ d.display \in Seq(RefType)
        /\ d.drifted \in SUBSET Nat /\ f.output_frameno \in Nat
    BY DEF DecoderType, BitstreamType
  <1>4. /\ Append(d.display, d.slots[f.slot]) \in Seq(RefType)
        /\ Append(d.display, pic) \in Seq(RefType)
    BY <1>1, <1>3
  <1> HIDE DEF pic
  <1>5. CASE f.sef
    <2>1. DecodeFrame(d, f) = [d EXCEPT !.display = Append(d.display, d.slots[f.slot])]
      BY <1>5 DEF DecodeFrame
    <2> QED BY <1>4, <2>1 DEF DecoderType
  <1>6. CASE ~f.sef
    <2> DEFINE show == IF f.show_frame THEN Append(d.display, pic) ELSE d.display
               drift == IF f.frame_type = "KEY" \/ Agrees(d.slots, f)
                        THEN d.drifted ELSE d.drifted \cup {f.output_frameno}
    <2>1. DecodeFrame(d, f) = [slots |-> Refresh(d.slots, f.refresh, pic),
                               display |-> show, drifted |-> drift]
      BY <1>6 DEF DecodeFrame, pic
    <2>2. show \in Seq(RefType) /\ drift \in SUBSET Nat
      BY <1>3, <1>4
    <2> HIDE DEF show, drift
    <2> QED BY <1>2, <2>1, <2>2 DEF DecoderType
  <1> QED BY <1>5, <1>6

\* DecodeFrames starts at d and decodes one frame at each step.
Steps(after, d, s) ==
  after[0] = d /\ \A i \in 1 .. Len(s) : after[i] = DecodeFrame(after[i - 1], s[i])

\* There is such a sequence of decoders, and DecodeFrames is its end.
LEMMA DecodeFramesSteps ==
  ASSUME NEW d \in DecoderType, NEW s \in Seq(BitstreamType)
  PROVE  \E after \in [0 .. Len(s) -> DecoderType] :
           Steps(after, d, s) /\ DecodeFrames(d, s) = after[Len(s)]
PROOF
  <1> DEFINE N == Len(s)
             F == [p \in (1 .. N) \X DecoderType |-> DecodeFrame(p[2], s[p[1]])]
             Is(f) == f = [i \in 0 .. N |-> IF i = 0 THEN d ELSE DecodeFrame(f[i - 1], s[i])]
             after == CHOOSE f : Is(f)
  <1>0. N \in Nat /\ \A i \in 1 .. N : s[i] \in BitstreamType
    OBVIOUS
  <1>2. F \in [(1 .. N) \X DecoderType -> DecoderType]
    <2>1. \A p \in (1 .. N) \X DecoderType : DecodeFrame(p[2], s[p[1]]) \in DecoderType
      <3> TAKE p \in (1 .. N) \X DecoderType
      <3>1. p[1] \in 1 .. N /\ p[2] \in DecoderType
        OBVIOUS
      <3>2. s[p[1]] \in BitstreamType
        BY <1>0, <3>1
      <3> HIDE DEF N
      <3> QED BY <3>1, <3>2, DecodeFrameType
    <2> QED BY <2>1
  <1>3. PICK f \in [0 .. N -> DecoderType] : StepsBy(f, N, d, F)
    <2> HIDE DEF F, N
    <2> QED BY <1>0, <1>2, RecursionUpTo
  <1>4. \A i \in 1 .. N : f[i] = DecodeFrame(f[i - 1], s[i])
    <2> TAKE i \in 1 .. N
    <2>0. i - 1 \in 0 .. N /\ i \in 1 .. N
      BY <1>0
    <2>1. <<i, f[i - 1]>> \in (1 .. N) \X DecoderType
      <3> HIDE DEF F, N
      <3> QED BY <1>3, <2>0
    <2>2. F[<<i, f[i - 1]>>] = DecodeFrame(f[i - 1], s[i])
      BY <2>1
    <2> HIDE DEF F, N
    <2> QED BY <1>3, <2>2 DEF StepsBy
  <1>5. Is(f)
    <2>1. \A i \in 0 .. N : i # 0 => i \in 1 .. N
      BY <1>0
    <2>2. f[0] = d
      BY <1>3 DEF StepsBy
    <2> HIDE DEF N
    <2> QED BY <1>3, <1>4, <2>1, <2>2
  <1>6. Is(after)
    <2> HIDE DEF Is
    <2> QED BY <1>5
  <1>7. DecodeFrames(d, s) = after[N]
    BY DEF DecodeFrames
  <1> HIDE DEF after
  <1>8. after[0] = d /\ \A i \in 1 .. N : after[i] = DecodeFrame(after[i - 1], s[i])
    <2>1. \A i \in 1 .. N : i \in 0 .. N /\ i # 0
      BY <1>0
    <2>2. 0 \in 0 .. N
      BY <1>0
    <2> HIDE DEF N
    <2> QED BY <1>6, <2>1, <2>2
  <1>9. \A i \in 0 .. N : after[i] \in DecoderType
    <2> DEFINE S == {i \in 0 .. N : after[i] \in DecoderType}
    <2>1. 0 \in S
      BY <1>0, <1>8
    <2>2. ASSUME NEW i \in 0 .. N - 1, i \in S PROVE i + 1 \in S
      <3>1. i + 1 \in 1 .. N /\ i + 1 \in 0 .. N /\ (i + 1) - 1 = i
        BY <1>0
      <3>2. s[i + 1] \in BitstreamType /\ after[i] \in DecoderType
        BY <1>0, <2>2, <3>1
      <3>3. after[i + 1] = DecodeFrame(after[i], s[i + 1])
        BY <1>8, <3>1
      <3> HIDE DEF N
      <3> QED BY <3>1, <3>2, <3>3, DecodeFrameType
    <2> HIDE DEF S, N
    <2>3. \A i \in 0 .. N : i \in S
      BY <1>0, <2>1, <2>2, InductionUpTo
    <2> QED BY <2>3 DEF S
  <1>10. after \in [0 .. N -> DecoderType]
    <2> HIDE DEF N
    <2>1. after = [i \in 0 .. N |-> IF i = 0 THEN d ELSE DecodeFrame(after[i - 1], s[i])]
      BY <1>6
    <2>2. DOMAIN after = 0 .. N
      BY <2>1
    <2>3. after = [i \in 0 .. N |-> after[i]]
      BY <2>1, <2>2
    <2> QED BY <1>9, <2>3
  <1> QED BY <1>7, <1>8, <1>10 DEF Steps

\* No frames, and one more frame.
LEMMA DecodeFramesFacts ==
  ASSUME NEW d \in DecoderType
  PROVE  /\ DecodeFrames(d, <<>>) = d
         /\ \A s \in Seq(BitstreamType) :
              /\ DecodeFrames(d, s) \in DecoderType
              /\ \A f \in BitstreamType :
                   DecodeFrames(d, Append(s, f)) = DecodeFrame(DecodeFrames(d, s), f)
PROOF
  <1>1. DecodeFrames(d, <<>>) = d
    <2>1. <<>> \in Seq(BitstreamType) /\ Len(<<>>) = 0
      OBVIOUS
    <2>2. PICK after : Steps(after, d, <<>>) /\ DecodeFrames(d, <<>>) = after[Len(<<>>)]
      BY <2>1, DecodeFramesSteps
    <2> QED BY <2>1, <2>2 DEF Steps
  <1>2. ASSUME NEW s \in Seq(BitstreamType)
        PROVE  DecodeFrames(d, s) \in DecoderType
    <2>1. PICK after \in [0 .. Len(s) -> DecoderType] : DecodeFrames(d, s) = after[Len(s)]
      BY DecodeFramesSteps
    <2>2. Len(s) \in 0 .. Len(s)
      OBVIOUS
    <2> QED BY <2>1, <2>2
  <1>3. ASSUME NEW s \in Seq(BitstreamType), NEW f \in BitstreamType
        PROVE  DecodeFrames(d, Append(s, f)) = DecodeFrame(DecodeFrames(d, s), f)
    <2> DEFINE t == Append(s, f)
               N == Len(s)
    <2>1. /\ t \in Seq(BitstreamType) /\ Len(t) = N + 1 /\ N \in Nat
          /\ t[N + 1] = f /\ \A i \in 1 .. N : t[i] = s[i]
      OBVIOUS
    <2>2. PICK a : Steps(a, d, s) /\ DecodeFrames(d, s) = a[N]
      BY DecodeFramesSteps
    <2> HIDE DEF t
    <2>3. PICK b : Steps(b, d, t) /\ DecodeFrames(d, t) = b[N + 1]
      BY <2>1, DecodeFramesSteps
    <2> HIDE DEF N
    <2> DEFINE S == {i \in 0 .. N : a[i] = b[i]}
    <2>4. /\ a[0] = d /\ \A i \in 1 .. N : a[i] = DecodeFrame(a[i - 1], s[i])
          /\ b[0] = d /\ \A i \in 1 .. N + 1 : b[i] = DecodeFrame(b[i - 1], t[i])
      BY <2>1, <2>2, <2>3 DEF Steps, N
    <2>5. 0 \in S
      BY <2>1, <2>4
    <2>6. ASSUME NEW i \in 0 .. N - 1, i \in S PROVE i + 1 \in S
      <3>1. i + 1 \in 1 .. N /\ i + 1 \in 0 .. N /\ i + 1 \in 1 .. N + 1 /\ (i + 1) - 1 = i
        BY <2>1
      <3>2. a[i + 1] = DecodeFrame(a[i], s[i + 1]) /\ b[i + 1] = DecodeFrame(b[i], t[i + 1])
        BY <2>4, <3>1
      <3> QED BY <2>1, <2>6, <3>1, <3>2
    <2> HIDE DEF S
    <2>7. \A i \in 0 .. N : i \in S
      BY <2>1, <2>5, <2>6, InductionUpTo
    <2>8. a[N] = b[N] /\ N + 1 \in 1 .. N + 1 /\ (N + 1) - 1 = N
      BY <2>1, <2>7 DEF S
    <2>9. b[N + 1] = DecodeFrame(b[N], t[N + 1])
      BY <2>4, <2>8
    <2> QED BY <2>1, <2>2, <2>3, <2>8, <2>9 DEF t
  <1> QED BY <1>1, <1>2, <1>3

-----------------------------------------------------------------------------
(* Steps that neither build nor encode a frame *)

\* What such a step leaves as it is; keyframe decisions are taken in order,
\* and a call goes on or begins only while frames can be built.
Quiet ==
  /\ UNCHANGED <<frame_data, next_lookahead_output_frameno, output_frameno, packet_data, packets>>
  /\ \A n \in DOMAIN frame_data : G(n)' = G(n) /\ K(n)' = K(n) /\ P(n)' = P(n)
  /\ KeysStep
  /\ ~is_flushing' \/ pc' # "idle" => ~is_flushing \/ pc # "idle"

\* send_frame up to the frames it builds.
QuietNext ==
  \/ \E params \in Params : SendFrame(params)
  \/ SendFrameRefused \/ Flush \/ FlushAgain
  \/ PlaceKeyframe \/ StartRemaining \/ PlaceRemainingKeyframes \/ InvariantsDone

\* These are quiet steps.
LEMMA QuietSteps == PipelineInv /\ QuietNext => Quiet
PROOF
  <1> SUFFICES ASSUME PipelineInv, QuietNext PROVE Quiet
    OBVIOUS
  <1>0. TypeOK /\ CallsInv /\ ResidentInv
    BY DEF PipelineInv
  <1>1. limit = IF is_flushing THEN frame_count ELSE NoLimit
    BY <1>0 DEF CallsInv
  <1> DEFINE Same == UNCHANGED <<frame_data, next_lookahead_output_frameno, output_frameno,
                                 packet_data, packets>>
             Keys == keyframes' = keyframes \/ keyframes' = keyframes \cup {next_lookahead_frame}
             Limit == limit' = limit \/ (limit = NoLimit /\ limit' = frame_count)
             Goes == ~is_flushing' \/ pc' # "idle" => ~is_flushing \/ pc # "idle"
             Gops == \A n \in DOMAIN frame_data : G(n)' = G(n) /\ K(n)' = K(n) /\ P(n)' = P(n)
  <1>2. UNCHANGED gopVars => Gops
    BY DEF gopVars, G, K, P
  <1>3. ASSUME NEW params \in Params, SendFrame(params) PROVE Same /\ Gops /\ Keys /\ Limit /\ Goes
    <2>1. Same /\ UNCHANGED gopVars /\ Keys
      BY <1>3 DEF SendFrame, QueueFrame, outputVars, lookVars
    <2>2. ~is_flushing
      BY <1>3 DEF SendFrame, RefusesFrame
    <2>3. Limit
      BY <1>1, <1>3, <2>2 DEF SendFrame
    <2> QED BY <1>2, <2>1, <2>2, <2>3
  <1>4. CASE SendFrameRefused \/ FlushAgain
    <2>1. Same /\ UNCHANGED gopVars /\ Keys /\ limit' = limit /\ UNCHANGED <<is_flushing, pc>>
      BY <1>4 DEF SendFrameRefused, FlushAgain, outputVars, lookVars, inputVars
    <2> QED BY <1>2, <2>1, KeysStepFacts, <1>0 DEF Quiet
  <1>5. ASSUME Flush PROVE Same /\ Gops /\ Keys /\ Limit /\ Goes
    <2>1. Same /\ UNCHANGED gopVars /\ Keys /\ limit' = frame_count /\ ~is_flushing
      BY <1>5 DEF Flush, QueueNone, outputVars, lookVars
    <2> QED BY <1>1, <1>2, <2>1
  <1>6. ASSUME PlaceKeyframe \/ StartRemaining \/ PlaceRemainingKeyframes
        PROVE  Same /\ Gops /\ Keys /\ Limit /\ Goes
    <2>1. Same /\ UNCHANGED gopVars /\ limit' = limit /\ pc # "idle"
      BY <1>6 DEF PlaceKeyframe, StartRemaining, PlaceRemainingKeyframes, outputVars, inputVars
    <2>2. Keys
      BY <1>6 DEF PlaceKeyframe, StartRemaining, PlaceRemainingKeyframes, lookVars,
                  compute_keyframe_placement
    <2> QED BY <1>2, <2>1, <2>2
  <1>7. ASSUME InvariantsDone PROVE Same /\ Gops /\ Keys /\ Limit /\ Goes
    <2>1. /\ Same /\ Keys /\ limit' = limit /\ pc # "idle"
          /\ InsertGop(GopOut, GopIn)
      BY <1>7 DEF InvariantsDone, outputVars, inputVars, lookVars
    <2>2. \A n \in DOMAIN frame_data : n # NextOut /\ n \in DOMAIN gop_output_frameno_start
                                       /\ n \in DOMAIN gop_input_frameno_start
      <3>1. \A n \in DOMAIN frame_data : n \in 0 .. NextOut - 1
        BY <1>0, OutputResident
      <3> QED BY <1>0, <3>1 DEF ResidentInv, TypeOK, NextOut
    <2>3. \A n \in DOMAIN frame_data : G(n)' = G(n) /\ K(n)' = K(n)
      BY <2>1, <2>2 DEF InsertGop, Insert, G, K
    <2> QED BY <2>1, <2>3 DEF P
  <1>8. Same /\ Gops /\ Keys /\ Limit /\ Goes => Quiet
    BY <1>0, KeysStepFacts DEF Quiet
  <1> QED BY <1>3, <1>4, <1>5, <1>6, <1>7, <1>8 DEF QuietNext

-----------------------------------------------------------------------------
(* The buffers of the encoder *)

\* A quiet step leaves them alone.
LEMMA QuietBuffers ==
  ASSUME BuffersInv, Quiet
  PROVE  BuffersInv'
PROOF
  <1>1. UNCHANGED <<frame_data, next_lookahead_output_frameno, output_frameno>>
    BY DEF Quiet
  <1>2. \A n \in DOMAIN frame_data : IsFrame(frame_data[n]) => DataInv(n)'
    BY <1>1 DEF BuffersInv, Quiet, DataInv
  <1>3. ReadyInv'
    BY <1>1 DEF BuffersInv, Quiet, ReadyInv, ReadyFrames, NextOut
  <1> QED BY <1>1, <1>2, <1>3 DEF BuffersInv

\* While frames are built there is a coded frame that has not been encoded.
LEMMA BuildReady ==
  ASSUME PipelineInv, BuffersInv, BuildsFrame, NextOut > 0
  PROVE  /\ \E m \in output_frameno .. NextOut - 1 : m \in DOMAIN frame_data /\ IsCoded(frame_data[m])
         /\ output_frameno < NextOut
PROOF
  <1>0. TypeOK /\ ResidentInv
    BY DEF PipelineInv
  <1>1. ReadyFrames # {}
    BY DEF BuffersInv, ReadyInv, BuildsFrame
  <1>2. PICK m \in DOMAIN frame_data : m >= output_frameno /\ IsCoded(frame_data[m])
    BY <1>1 DEF ReadyFrames
  <1>3. m \in 0 .. NextOut - 1 /\ output_frameno \in Nat /\ NextOut \in Nat
    BY <1>0, OutputResident DEF TypeOK, NextOut
  <1>4. m \in output_frameno .. NextOut - 1 /\ output_frameno < NextOut
    BY <1>2, <1>3
  <1> QED BY <1>2, <1>4

\* A frame fd is built at NextOut.
LEMMA BuildBuffers ==
  ASSUME PipelineInv, BuffersInv, BuildsFrame, NEW fd, NEW g, NEW k,
         InsertGop(g, k), InsertFrameData(fd),
         NextOut = 0 => IsCoded(fd),
         NEW n \in Nat, n = NextOut, IsFrame(fd) => DataInv(n)'
  PROVE  BuffersInv'
PROOF
  <1>0. TypeOK /\ ResidentInv /\ NextOut \in Nat /\ output_frameno \in Nat /\ output_frameno <= NextOut
    BY DEF PipelineInv, TypeOK, NextOut, ResidentInv
  <1>1. /\ frame_data' = Insert(frame_data, NextOut, fd) /\ NextOut' = NextOut + 1
        /\ UNCHANGED <<output_frameno, is_flushing, pc>>
    BY DEF InsertFrameData, NextOut, outputVars, inputVars
  <1>2. /\ \A m \in DOMAIN frame_data : m # NextOut
        /\ \A m \in DOMAIN frame_data : m \in DOMAIN gop_output_frameno_start
    <2>1. \A m \in DOMAIN frame_data : m \in 0 .. NextOut - 1
      BY <1>0, OutputResident
    <2> QED BY <1>0, <2>1 DEF ResidentInv
  <1>3. /\ DOMAIN frame_data' = DOMAIN frame_data \cup {NextOut}
        /\ frame_data'[NextOut] = fd
        /\ \A m \in DOMAIN frame_data : frame_data'[m] = frame_data[m]
    BY <1>1, <1>2 DEF Insert
  <1>4. \A m \in DOMAIN frame_data : P(m)' = P(m)
    BY <1>2 DEF InsertGop, Insert, P, G
  <1>5. \A m \in DOMAIN frame_data' : IsFrame(frame_data'[m]) => DataInv(m)'
    <2> SUFFICES ASSUME NEW m \in DOMAIN frame_data, IsFrame(frame_data[m]) PROVE DataInv(m)'
      BY <1>3
    <2> QED BY <1>1, <1>3, <1>4 DEF BuffersInv, DataInv
  <1>6. ReadyFrames' # {}
    <2>1. CASE NextOut = 0
      <3>1. 0 \in DOMAIN frame_data' /\ IsCoded(frame_data'[0]) /\ 0 >= output_frameno'
        BY <1>0, <1>1, <1>3, <2>1
      <3> QED BY <3>1 DEF ReadyFrames
    <2>2. CASE NextOut > 0
      <3>1. PICK m \in output_frameno .. NextOut - 1 : m \in DOMAIN frame_data /\ IsCoded(frame_data[m])
        BY <2>2, BuildReady
      <3>2. m \in DOMAIN frame_data' /\ IsCoded(frame_data'[m]) /\ m >= output_frameno'
        BY <1>1, <1>3, <3>1
      <3> QED BY <3>2 DEF ReadyFrames
    <2> QED BY <1>0, <2>1, <2>2
  <1> QED BY <1>5, <1>6 DEF BuffersInv, ReadyInv

\* Pictures are not the empty slot.
LEMMA RefNotEmpty ==
  ASSUME NEW src \in {"orig", "rec"}, NEW n, NEW hint, NEW picture
  PROVE  /\ Ref(src, n, hint, picture) # NoRef
         /\ Ref(src, n, hint, picture).output_frameno = n
         /\ Ref(src, n, hint, picture).picture = picture
PROOF
  BY DEF Ref, NoRef

\* A buffer refreshed by frame n.
LEMMA RefreshFilled ==
  ASSUME NEW buffer, NEW slots, NEW src \in {"orig", "rec"}, NEW n \in Nat, NEW hint, NEW picture,
         \/ slots = REF_FRAMES
         \/ Filled(buffer, n) /\ \A r \in REF_FRAMES : buffer[r].output_frameno \in Nat
  PROVE  Filled(Refresh(buffer, slots, Ref(src, n, hint, picture)), n + 1)
PROOF
  <1> DEFINE ref == Ref(src, n, hint, picture)
  <1>1. ref # NoRef /\ ref.output_frameno = n
    BY RefNotEmpty
  <1> HIDE DEF ref
  <1> SUFFICES ASSUME NEW r \in REF_FRAMES
               PROVE  LET b == Refresh(buffer, slots, ref)
                      IN b[r] # NoRef /\ b[r].output_frameno < n + 1
    BY DEF Filled, ref
  <1>2. CASE r \in slots
    <2>1. Refresh(buffer, slots, ref)[r] = ref
      BY <1>2 DEF Refresh
    <2> QED BY <1>1, <2>1
  <1>3. CASE r \notin slots
    <2>1. Refresh(buffer, slots, ref)[r] = buffer[r]
      BY <1>3 DEF Refresh
    <2>2. buffer[r] # NoRef /\ buffer[r].output_frameno < n /\ buffer[r].output_frameno \in Nat
      BY <1>3 DEF Filled
    <2> QED BY <2>1, <2>2
  <1> QED BY <1>2, <1>3

\* A keyframe is built: its originals fill every slot.
LEMMA BuildKeyBuffers == PipelineInv /\ BuffersInv /\ BuildKeyFrame => BuffersInv'
PROOF
  <1> SUFFICES ASSUME PipelineInv, BuffersInv, BuildKeyFrame PROVE BuffersInv'
    OBVIOUS
  <1> DEFINE fd == KeyFrameData(NextOut, KeyInput, T35Taken)
  <1>0. NextOut \in Nat /\ output_frameno \in Nat /\ output_frameno <= NextOut
    BY DEF PipelineInv, TypeOK, NextOut, ResidentInv
  <1>1. BuildsFrame /\ InsertGop(NextOut, KeyInput) /\ InsertFrameData(fd)
    BY DEF BuildKeyFrame
  <1>2. PICK n \in Nat : n = NextOut
    BY <1>0
  <1>3. /\ IsCoded(fd) /\ fd.frame_type = "KEY" /\ fd.refresh = REF_FRAMES
        /\ fd.lookahead_rec_buffer = Refresh(EmptyRefs, REF_FRAMES, Ref("orig", n, 0, KeyInput))
    BY <1>2 DEF KeyFrameData, IsCoded
  <1>4. Filled(fd.lookahead_rec_buffer, n + 1)
    BY <1>3, RefreshFilled
  <1> HIDE DEF fd
  <1>5. frame_data'[n] = fd /\ output_frameno' = output_frameno
    BY <1>1, <1>2 DEF InsertFrameData, Insert, outputVars
  <1>6. DataInv(n)'
    <2>1. ~(n < output_frameno')
      BY <1>0, <1>2, <1>5
    <2> QED BY <1>3, <1>4, <1>5, <2>1 DEF DataInv
  <1> QED BY <1>1, <1>2, <1>3, <1>6, BuildBuffers

\* A position that is skipped.
LEMMA BuildPlaceholderBuffers == PipelineInv /\ BuffersInv /\ BuildPlaceholder => BuffersInv'
PROOF
  <1> SUFFICES ASSUME PipelineInv, BuffersInv, BuildPlaceholder PROVE BuffersInv'
    OBVIOUS
  <1>1. BuildsFrame /\ ~StartsGop /\ InsertGop(GopOut, GopIn) /\ InsertFrameData(Placeholder)
    BY DEF BuildPlaceholder
  <1>2. NextOut \in Nat /\ NextOut # 0
    BY <1>1, BuildFacts
  <1>3. ~IsFrame(Placeholder)
    BY DEF IsFrame, Placeholder
  <1> QED BY <1>1, <1>2, <1>3, BuildBuffers

\* The frame that an inter frame is built from.
LEMMA PreviousCodedFacts ==
  ASSUME PipelineInv, BuildsFrame, NextOut > 0
  PROVE  /\ PreviousCodedFi(NextOut) \in DOMAIN frame_data
         /\ PreviousCodedFi(NextOut) \in 0 .. NextOut - 1
         /\ IsCoded(frame_data[PreviousCodedFi(NextOut)])
         /\ frame_data[PreviousCodedFi(NextOut)] \in FrameDataType
         /\ \A m \in DOMAIN frame_data : IsCoded(frame_data[m]) => m <= PreviousCodedFi(NextOut)
PROOF
  <1> DEFINE S == {m \in DOMAIN frame_data : m < NextOut /\ IsCoded(frame_data[m])}
             f == PreviousCodedFi(NextOut)
  <1>0. TypeOK /\ ResidentInv /\ NextOut \in Nat
    BY DEF PipelineInv, TypeOK, NextOut
  <1>1. PICK m \in DOMAIN frame_data : IsCoded(frame_data[m])
    BY <1>0 DEF ResidentInv, BuildsFrame
  <1>2. \A n \in DOMAIN frame_data : n \in 0 .. NextOut - 1
    BY <1>0, OutputResident
  <1>3. S # {} /\ S \subseteq 0 .. NextOut
    BY <1>0, <1>1, <1>2
  <1>4. f \in S /\ \A n \in S : f >= n
    <2>1. f = Max(S)
      BY DEF PreviousCodedFi
    <2> HIDE DEF f, S
    <2> QED BY <1>0, <1>3, <2>1, MaxFacts
  <1>5. f \in DOMAIN frame_data /\ IsCoded(frame_data[f])
    BY <1>4
  <1>6. \A n \in DOMAIN frame_data : IsCoded(frame_data[n]) => n <= f
    <2> TAKE n \in DOMAIN frame_data
    <2> HAVE IsCoded(frame_data[n])
    <2>1. n \in S
      BY <1>0, <1>2
    <2>2. f >= n /\ f \in Nat /\ n \in Nat
      BY <1>2, <1>4, <2>1
    <2> HIDE DEF f
    <2> QED BY <2>2
  <1> HIDE DEF f
  <1>7. frame_data[f] # Placeholder
    BY <1>5 DEF IsCoded, Placeholder
  <1> QED BY <1>0, <1>2, <1>5, <1>6, <1>7 DEF TypeOK, f

\* An inter frame is built from a frame that has not been encoded: it gets
\* the originals.
LEMMA BuildInterBuffers == PipelineInv /\ BuffersInv /\ BuildInterFrame => BuffersInv'
PROOF
  <1> SUFFICES ASSUME PipelineInv, BuffersInv, BuildInterFrame PROVE BuffersInv'
    OBVIOUS
  <1> DEFINE q == PreviousCodedFi(NextOut)
             prev == frame_data[q]
             fd == InterFrameData(NextOut, prev, InGop, WantedInput, T35Taken)
             idx == get_idx_in_group_output(InGop)
             hint == get_order_hint(InGop, idx)
             level == get_level(idx)
             slot == get_slot_idx(level, hint)
  <1>1. /\ BuildsFrame /\ ~StartsGop /\ InsertGop(GopOut, GopIn) /\ InsertFrameData(fd)
    BY DEF BuildInterFrame
  <1>2. NextOut \in Nat /\ NextOut > 0 /\ BuildInv
    BY <1>1, BuildFacts
  <1>3. PICK n \in Nat : n = NextOut
    BY <1>2
  <1>4. InGop \in Nat \ {0} /\ n - GopOut = InGop /\ GopOut \in 0 .. n
    BY <1>2, <1>3, GopFacts DEF InGop
  <1>5. output_frameno \in Nat /\ output_frameno < n
    BY <1>1, <1>2, <1>3, BuildReady DEF PipelineInv, TypeOK
  <1>6. /\ q \in DOMAIN frame_data /\ q \in 0 .. n - 1 /\ IsCoded(prev) /\ prev \in FrameDataType
    BY <1>1, <1>2, <1>3, PreviousCodedFacts
  <1> HIDE DEF q
  <1>7. Filled(prev.lookahead_rec_buffer, q + 1)
    BY <1>6 DEF BuffersInv, DataInv, IsCoded, IsFrame
  <1>8. \A r \in REF_FRAMES : prev.lookahead_rec_buffer[r].output_frameno \in Nat
    BY <1>6 DEF FrameDataType, RefType
  <1>9. Filled(prev.lookahead_rec_buffer, n)
    <2> SUFFICES ASSUME NEW r \in REF_FRAMES
                 PROVE  /\ prev.lookahead_rec_buffer[r] # NoRef
                        /\ prev.lookahead_rec_buffer[r].output_frameno < n
      BY DEF Filled
    <2>1. /\ prev.lookahead_rec_buffer[r] # NoRef
          /\ prev.lookahead_rec_buffer[r].output_frameno < q + 1
          /\ prev.lookahead_rec_buffer[r].output_frameno \in Nat
      BY <1>7, <1>8 DEF Filled
    <2> HIDE DEF prev
    <2> QED BY <1>6, <2>1
  <1> HIDE DEF prev
  <1>10. /\ fd.kind = IF get_show_existing_frame(idx) THEN "sef" ELSE "coded"
         /\ fd.frame_type # "KEY"
         /\ ~get_show_existing_frame(idx) => fd.rec_buffer = prev.lookahead_rec_buffer
         /\ ~get_show_existing_frame(idx) =>
              fd.lookahead_rec_buffer = Refresh(prev.lookahead_rec_buffer, fd.refresh,
                                                Ref("orig", n, hint, WantedInput))
         /\ fd.ref_frames = ref_frames(idx, level, hint) /\ fd.slot = slot
    BY <1>3, <1>5 DEF InterFrameData
  <1>11. reorder /\ ~get_show_existing_frame(idx) => fd.refresh = {slot}
    <2> SUFFICES ASSUME reorder, ~get_show_existing_frame(idx) PROVE fd.refresh = {slot}
      OBVIOUS
    <2>1. ~(SwitchFrameInterval > 0)
      BY InterConfigAssumption DEF reorder
    <2> QED BY <2>1 DEF InterFrameData
  <1> HIDE DEF fd
  <1>12. IsFrame(fd) /\ (IsCoded(fd) <=> ~get_show_existing_frame(idx))
    BY <1>10 DEF IsFrame, IsCoded
  <1>13. IsCoded(fd) => Filled(fd.lookahead_rec_buffer, n + 1)
    BY <1>8, <1>9, <1>10, <1>12, RefreshFilled
  <1>14. /\ frame_data'[n] = fd /\ output_frameno' = output_frameno /\ P(n)' = InGop
    BY <1>1, <1>3, <1>4 DEF InsertFrameData, InsertGop, Insert, outputVars, P, G
  <1>15. SlotsAt(fd, InGop)
    BY <1>10, <1>11, <1>12 DEF SlotsAt
  <1>16. DataInv(n)'
    <2>1. ~(n < output_frameno')
      BY <1>5, <1>14
    <2>2. IsCoded(fd) => fd.rec_buffer = prev.lookahead_rec_buffer
      BY <1>10, <1>12
    <2> HIDE DEF idx, hint, level, slot
    <2> QED BY <1>9, <1>10, <1>13, <1>14, <1>15, <2>1, <2>2 DEF DataInv
  <1> QED BY <1>1, <1>2, <1>3, <1>12, <1>16, BuildBuffers

\* A refused call may skip placeholders.
LEMMA RefusedBuffers ==
  ASSUME PipelineInv, BuffersInv, NEW ready, ReceiveRefused(ready)
  PROVE  BuffersInv'
PROOF
  <1>0. TypeOK /\ ResidentInv /\ output_frameno \in Nat
    BY DEF PipelineInv, TypeOK
  <1>1. /\ UNCHANGED <<frame_data, next_lookahead_output_frameno, is_flushing, pc>>
        /\ \A n : P(n)' = P(n)
    BY DEF ReceiveRefused, gopVars, inputVars, P, G
  <1>2. \/ output_frameno' = output_frameno
        \/ NextFrames # {} /\ output_frameno' = Current
    BY DEF ReceiveRefused
  <1>3. /\ output_frameno' \in Nat /\ output_frameno <= output_frameno'
        /\ \A m \in output_frameno .. output_frameno' - 1 : ~IsFrame(frame_data[m])
    <2>1. CASE output_frameno' = output_frameno
      BY <1>0, <2>1
    <2>2. CASE NextFrames # {} /\ output_frameno' = Current
      <3>1. /\ Current \in output_frameno .. NextOut - 1 /\ Current \in Nat
            /\ \A m \in output_frameno .. Current - 1 : ~IsFrame(frame_data[m])
        BY <2>2, CurrentFacts
      <3> QED BY <1>0, <2>2, <3>1
    <2> QED BY <1>2, <2>1, <2>2
  <1>4. ASSUME NEW n \in DOMAIN frame_data, IsFrame(frame_data[n])
        PROVE  n < output_frameno' <=> n < output_frameno
    <2>1. n \in Nat
      BY <1>0 DEF TypeOK
    <2>2. n \notin output_frameno .. output_frameno' - 1
      BY <1>3, <1>4
    <2> QED BY <1>0, <1>3, <2>1, <2>2
  <1>5. \A n \in DOMAIN frame_data : IsFrame(frame_data[n]) => DataInv(n)'
    BY <1>1, <1>4 DEF BuffersInv, DataInv
  <1>6. ReadyFrames \subseteq ReadyFrames'
    <2> SUFFICES ASSUME NEW n \in ReadyFrames PROVE n \in ReadyFrames'
      OBVIOUS
    <2>1. n \in DOMAIN frame_data /\ n >= output_frameno /\ IsCoded(frame_data[n]) /\ n \in Nat
      BY <1>0 DEF ReadyFrames, TypeOK
    <2>2. IsFrame(frame_data[n])
      BY <2>1 DEF IsFrame, IsCoded
    <2>3. n >= output_frameno'
      BY <1>0, <1>3, <1>4, <2>1, <2>2
    <2> QED BY <1>1, <2>1, <2>3 DEF ReadyFrames
  <1> QED BY <1>1, <1>5, <1>6 DEF BuffersInv, ReadyInv, NextOut

\* The frame data after the next frame has been encoded, or shown again.
EncodedData == IF IsCoded(frame_data[Current]) THEN AfterEncode(Current) ELSE frame_data

\* The buffer that a coded frame leaves.
BufferLeft == Refresh(frame_data[Current].rec_buffer, frame_data[Current].refresh,
                      Reconstruction(Current))

\* What encoding changes in frame_data, and what is collected.
EncodeStep ==
  /\ NextFrames # {}
  /\ output_frameno' = Current + 1
  /\ pc = "idle"
  /\ UNCHANGED <<next_lookahead_output_frameno, is_flushing, pc, keyframes, limit>>
  /\ DOMAIN frame_data' \subseteq DOMAIN frame_data
  /\ \A n \in Current .. NextOut - 1 : n \in DOMAIN frame_data'
  /\ \A n \in DOMAIN frame_data' :
       frame_data'[n] = EncodedData[n] /\ G(n)' = G(n) /\ K(n)' = K(n) /\ P(n)' = P(n)
  /\ ~is_flushing => \E m \in ReadyFrames : m # Current

Encode(ready) == EncodeHidden(ready) \/ EncodeShown(ready) \/ EncodeShowExisting(ready)

\* Two frames are always ready when one is encoded, unless no more will come.
LEMMA TwoReady ==
  ASSUME PipelineInv, NEW ready, Refusal(ready) = "no", ~is_flushing
  PROVE  \E m \in ReadyFrames : m # Current
PROOF
  <1> SUFFICES ASSUME \A m \in ReadyFrames : m = Current PROVE FALSE
    OBVIOUS
  <1>1. limit = NoLimit /\ ~needs_more_fi_lookahead
    BY DEF PipelineInv, CallsInv, Refusal
  <1>2. ~(Cardinality(ReadyFrames) < RdoLookaheadFrames + 1)
    BY <1>1 DEF needs_more_fi_lookahead, needs_more_frames
  <1>3. ReadyFrames \in SUBSET {Current}
    OBVIOUS
  <1>4. IsFiniteSet({Current}) /\ Cardinality({Current}) = 1
    BY FS_Singleton
  <1>5. Cardinality(ReadyFrames) <= 1 /\ Cardinality(ReadyFrames) \in Nat
    <2>1. IsFiniteSet(ReadyFrames) /\ Cardinality(ReadyFrames) <= Cardinality({Current})
      BY <1>3, <1>4, FS_Subset
    <2> QED BY <1>4, <2>1, FS_CardinalityType
  <1> QED BY <1>2, <1>5, PipelineAssumption

\* The three ways to encode do that.
LEMMA EncodeSteps ==
  ASSUME PipelineInv, NEW ready, Encode(ready)
  PROVE  EncodeStep
PROOF
  <1>0. TypeOK /\ ResidentInv /\ NextOut \in Nat
    BY DEF PipelineInv, TypeOK, NextOut
  <1>1. Refusal(ready) = "no" /\ output_frameno' = Current + 1
    BY DEF Encode, EncodeHidden, EncodeShown, EncodeShowExisting
  <1>2. NextFrames # {} /\ (~is_flushing => \E m \in ReadyFrames : m # Current)
    BY <1>1, EncodesFacts, TwoReady
  <1> DEFINE c == Current
  <1>3. /\ c \in Nat /\ c \in output_frameno .. NextOut - 1 /\ c \in DOMAIN frame_data
        /\ output_frameno \in Nat
    BY <1>0, <1>2, CurrentFacts DEF TypeOK
  <1>4. DOMAIN AfterEncode(c) = DOMAIN frame_data
    BY <1>2, AfterEncodeFacts
  <1>5. pc = "idle" /\ UNCHANGED <<next_lookahead_output_frameno, is_flushing, pc, keyframes, limit>>
    BY DEF Encode, EncodeHidden, EncodeShown, EncodeShowExisting, inputVars, lookVars
  <1>6. PICK lo \in 0 .. output_frameno : DOMAIN frame_data = lo .. NextOut - 1
    BY <1>0 DEF ResidentInv
  <1>7. /\ \A n \in DOMAIN frame_data : n \in DOMAIN gop_output_frameno_start
                                         /\ n \in DOMAIN gop_input_frameno_start
    BY <1>0 DEF ResidentInv
  <1>8. CASE EncodeHidden(ready)
    <2>1. /\ IsCoded(frame_data[c]) /\ frame_data' = AfterEncode(c) /\ UNCHANGED gopVars
      BY <1>8 DEF EncodeHidden
    <2>2. \A n : G(n)' = G(n) /\ K(n)' = K(n) /\ P(n)' = P(n)
      BY <2>1 DEF gopVars, G, K, P
    <2>3. \A n \in c .. NextOut - 1 : n \in DOMAIN frame_data
      BY <1>3, <1>0, OutputResident
    <2> HIDE DEF c
    <2>4. EncodedData = AfterEncode(c)
      BY <2>1 DEF EncodedData, c
    <2> QED BY <1>1, <1>2, <1>4, <1>5, <2>1, <2>2, <2>3, <2>4 DEF EncodeStep, c
  <1>9. CASE EncodeShown(ready) \/ EncodeShowExisting(ready)
    <2> DEFINE fds == EncodedData
               input == frame_data[c].input_frameno
    <2>1. GarbageCollectOutput(input, fds)
      <3>1. CASE EncodeShown(ready)
        BY <3>1 DEF EncodeShown, EmitPacket, EncodedData
      <3>2. CASE EncodeShowExisting(ready)
        BY <3>2 DEF EncodeShowExisting, EmitPacket, EncodedData
      <3> QED BY <1>9, <3>1, <3>2
    <2>2. DOMAIN fds = lo .. NextOut - 1
      BY <1>4, <1>6 DEF EncodedData
    <2>3. input \in Nat
      BY <1>2, OutputFacts
    <2>4. c < NextOut /\ lo \in 0 .. c
      BY <1>0, <1>3
    <2> HIDE DEF fds, input, c
    <2>5. output_frameno' = c + 1
      BY <1>1 DEF c
    <2>6. /\ \E l \in lo .. c : DOMAIN frame_data' = l .. NextOut - 1
          /\ \A n \in DOMAIN frame_data' : frame_data'[n] = fds[n]
          /\ \A n \in DOMAIN gop_output_frameno_start' :
               gop_output_frameno_start'[n] = gop_output_frameno_start[n]
          /\ \A n \in DOMAIN gop_input_frameno_start' :
               gop_input_frameno_start'[n] = gop_input_frameno_start[n]
          /\ \A n \in DOMAIN frame_data' :
               /\ n \in DOMAIN gop_output_frameno_start => n \in DOMAIN gop_output_frameno_start'
               /\ n \in DOMAIN gop_input_frameno_start => n \in DOMAIN gop_input_frameno_start'
      <3>1. PICK N, cc, in, F : N = NextOut /\ cc = c /\ in = input /\ F = fds
        OBVIOUS
      <3>2. /\ cc \in Nat /\ N \in Nat /\ cc < N /\ output_frameno' = cc + 1 /\ lo \in 0 .. cc
            /\ in \in Nat /\ DOMAIN F = lo .. N - 1 /\ GarbageCollectOutput(in, F)
        BY <1>0, <1>3, <2>1, <2>2, <2>3, <2>4, <2>5, <3>1
      <3>3. /\ \E l \in lo .. cc : DOMAIN frame_data' = l .. N - 1 /\ (l = lo \/ l = cc)
            /\ \A n \in DOMAIN frame_data' : frame_data'[n] = F[n]
            /\ DOMAIN gop_output_frameno_start' \subseteq DOMAIN gop_output_frameno_start
            /\ DOMAIN gop_input_frameno_start' \subseteq DOMAIN gop_input_frameno_start
            /\ \A n \in DOMAIN gop_output_frameno_start' :
                 gop_output_frameno_start'[n] = gop_output_frameno_start[n]
            /\ \A n \in DOMAIN gop_input_frameno_start' :
                 gop_input_frameno_start'[n] = gop_input_frameno_start[n]
            /\ \A n \in DOMAIN frame_data' :
                 /\ n \in DOMAIN gop_output_frameno_start => n \in DOMAIN gop_output_frameno_start'
                 /\ n \in DOMAIN gop_input_frameno_start => n \in DOMAIN gop_input_frameno_start'
        BY <3>2, CollectFacts
      <3> QED BY <3>1, <3>3
    <2>7. PICK l \in lo .. c : DOMAIN frame_data' = l .. NextOut - 1
      BY <2>6
    <2>8. /\ DOMAIN frame_data' \subseteq DOMAIN frame_data
          /\ \A n \in c .. NextOut - 1 : n \in DOMAIN frame_data'
      BY <1>0, <1>3, <1>6, <2>7
    <2>9. \A n \in DOMAIN frame_data' : G(n)' = G(n) /\ K(n)' = K(n)
      BY <1>7, <2>6, <2>8 DEF G, K
    <2>10. \A n \in DOMAIN frame_data' : P(n)' = P(n)
      BY <2>9 DEF P
    <2> QED BY <1>1, <1>2, <1>5, <2>6, <2>8, <2>9, <2>10 DEF EncodeStep, fds, c
  <1> QED BY <1>8, <1>9 DEF Encode

\* The fields that encoding does not change.
SameData(f, g) ==
  /\ f.kind = g.kind /\ f.frame_type = g.frame_type /\ f.input_frameno = g.input_frameno
  /\ f.order_hint = g.order_hint /\ f.slot = g.slot /\ f.refresh = g.refresh
  /\ f.ref_frames = g.ref_frames /\ f.lookahead_rec_buffer = g.lookahead_rec_buffer

\* What encoding changes: the buffer is handed on to the frames in line.
LEMMA EncodedFacts ==
  ASSUME PipelineInv, NextFrames # {}, NEW n \in DOMAIN frame_data, IsFrame(frame_data[n])
  PROVE  LET coded == IsCoded(frame_data[Current])
             f == EncodedData[n]
         IN /\ SameData(f, frame_data[n])
            /\ coded /\ n = Current => f.rec_buffer = BufferLeft
            /\ coded /\ n # Current /\ n \in Subsequent(Current) =>
                 /\ f.rec_buffer = BufferLeft
                 /\ f.sign_bias = sign_bias(f.ref_frames, BufferLeft, f.order_hint)
            /\ ~coded \/ (n # Current /\ n \notin Subsequent(Current)) => f = frame_data[n]
PROOF
  <1> DEFINE c == Current
             f == frame_data[n]
             buf == BufferLeft
             bias == sign_bias(f.ref_frames, buf, f.order_hint)
  <1>1. f \in FrameDataType
    <2>1. f # Placeholder
      BY DEF IsFrame, Placeholder
    <2> QED BY <2>1 DEF PipelineInv, TypeOK
  <1>2. CASE ~IsCoded(frame_data[c])
    BY <1>2 DEF EncodedData, SameData
  <1>3. CASE IsCoded(frame_data[c])
    <2>1. EncodedData[n] = IF n = c THEN [f EXCEPT !.rec_buffer = buf]
                           ELSE IF n \in Subsequent(c)
                           THEN [f EXCEPT !.rec_buffer = buf, !.sign_bias = bias]
                           ELSE f
      BY <1>3 DEF EncodedData, AfterEncode, BufferLeft
    <2> HIDE DEF c, f, buf, bias
    <2>2. CASE n = c
      <3>1. EncodedData[n] = [f EXCEPT !.rec_buffer = buf]
        BY <2>1, <2>2
      <3>2. SameData([f EXCEPT !.rec_buffer = buf], f) /\ [f EXCEPT !.rec_buffer = buf].rec_buffer = buf
        BY <1>1 DEF SameData, FrameDataType
      <3> QED BY <1>3, <2>2, <3>1, <3>2 DEF c, f, buf
    <2>3. CASE n # c /\ n \in Subsequent(c)
      <3> DEFINE g == [f EXCEPT !.rec_buffer = buf, !.sign_bias = bias]
      <3>1. EncodedData[n] = g
        BY <2>1, <2>3
      <3>2. SameData(g, f) /\ g.rec_buffer = buf /\ g.sign_bias = bias
        BY <1>1 DEF SameData, FrameDataType
      <3>3. g.sign_bias = sign_bias(g.ref_frames, buf, g.order_hint)
        BY <3>2 DEF bias, SameData
      <3> HIDE DEF g
      <3> QED BY <1>3, <2>3, <3>1, <3>2, <3>3 DEF c, f, buf
    <2>4. CASE n # c /\ n \notin Subsequent(c)
      <3>1. EncodedData[n] = f /\ SameData(f, f)
        BY <2>1, <2>4 DEF SameData
      <3> QED BY <2>4, <3>1 DEF c, f
    <2> QED BY <2>2, <2>3, <2>4
  <1> QED BY <1>2, <1>3

\* The frame that is encoded next, and the frames before it.
LEMMA NextFacts ==
  ASSUME PipelineInv, BuffersInv, NextFrames # {}
  PROVE  LET c == Current
             fd == frame_data[c]
         IN /\ c \in Nat /\ c \in DOMAIN frame_data /\ fd \in FrameDataType /\ IsFrame(fd)
            /\ output_frameno \in Nat /\ output_frameno <= c /\ c < NextOut /\ NextOut \in Nat
            /\ \A m \in output_frameno .. c - 1 : ~IsFrame(frame_data[m])
            /\ DataInv(c)
            /\ IsCoded(fd) \/ fd.frame_type # "KEY"
            /\ P(c) \in Nat /\ (P(c) = 0 <=> fd.frame_type = "KEY")
PROOF
  <1> DEFINE c == Current
             fd == frame_data[c]
  <1>1. /\ c \in output_frameno .. NextOut - 1 /\ c \in Nat /\ c \in DOMAIN frame_data
        /\ IsFrame(fd) /\ fd \in FrameDataType
        /\ \A m \in output_frameno .. c - 1 : ~IsFrame(frame_data[m])
    BY CurrentFacts
  <1>2. output_frameno \in Nat /\ NextOut \in Nat
    BY DEF PipelineInv, TypeOK, NextOut
  <1> HIDE DEF c
  <1>3. BuiltInv(c) /\ GopInv(c)
    BY <1>1 DEF PipelineInv, PositionsInv
  <1>4. P(c) \in Nat
    BY <1>1, <1>3 DEF GopInv, P
  <1>5. IsCoded(fd) \/ fd.frame_type # "KEY"
    BY <1>1, <1>3 DEF BuiltInv, Built
  <1>6. P(c) = 0 <=> fd.frame_type = "KEY"
    BY <1>1, <1>3 DEF BuiltInv, Built
  <1>7. DataInv(c)
    BY <1>1 DEF BuffersInv
  <1>8. output_frameno <= c /\ c < NextOut
    BY <1>1, <1>2
  <1> QED BY <1>1, <1>2, <1>4, <1>5, <1>6, <1>7, <1>8 DEF c

\* The buffer that a coded frame leaves holds pictures up to its own.
LEMMA BufferLeftFilled ==
  ASSUME PipelineInv, BuffersInv, NextFrames # {}, IsCoded(frame_data[Current])
  PROVE  /\ Filled(BufferLeft, Current + 1)
         /\ BufferLeft \in [REF_FRAMES -> RefType]
PROOF
  <1> DEFINE c == Current
             fd == frame_data[c]
  <1>1. c \in Nat /\ fd \in FrameDataType /\ output_frameno \in Nat /\ output_frameno <= c /\ DataInv(c)
    BY NextFacts
  <1> HIDE DEF c
  <1>2. /\ fd.rec_buffer \in [REF_FRAMES -> RefType] /\ fd.order_hint \in Nat /\ fd.input_frameno \in Nat
        /\ \A r \in REF_FRAMES : fd.rec_buffer[r].output_frameno \in Nat
    BY <1>1 DEF FrameDataType, RefType
  <1>3. Reconstruction(c) = Ref("rec", c, fd.order_hint, fd.input_frameno)
    BY DEF Reconstruction
  <1>4. BufferLeft = Refresh(fd.rec_buffer, fd.refresh, Ref("rec", c, fd.order_hint, fd.input_frameno))
    BY <1>3 DEF BufferLeft, c
  <1>5. fd.refresh = REF_FRAMES \/ Filled(fd.rec_buffer, c)
    <2>1. ~(c < output_frameno)
      BY <1>1
    <2> QED BY <1>1, <2>1 DEF DataInv, c
  <1>6. Filled(BufferLeft, c + 1)
    <2> HIDE DEF fd
    <2> QED BY <1>1, <1>2, <1>4, <1>5, RefreshFilled
  <1>7. BufferLeft \in [REF_FRAMES -> RefType]
    <2>1. Ref("rec", c, fd.order_hint, fd.input_frameno) \in RefType
      BY <1>1, <1>2, RefTypes
    <2> QED BY <1>2, <1>4, <2>1, RefreshType
  <1> QED BY <1>6, <1>7 DEF c

\* A frame is encoded, or shown again.
LEMMA EncodeBuffers ==
  ASSUME PipelineInv, BuffersInv, EncodeStep
  PROVE  BuffersInv'
PROOF
  <1>0. TypeOK /\ ResidentInv
    BY DEF PipelineInv
  <1> DEFINE coded == IsCoded(frame_data[Current])
  <1>1. /\ NextFrames # {}
        /\ output_frameno' = Current + 1
        /\ UNCHANGED <<next_lookahead_output_frameno, is_flushing, pc>>
        /\ DOMAIN frame_data' \subseteq DOMAIN frame_data
        /\ \A n \in Current .. NextOut - 1 : n \in DOMAIN frame_data'
        /\ \A n \in DOMAIN frame_data' : frame_data'[n] = EncodedData[n] /\ P(n)' = P(n)
        /\ ~is_flushing => \E m \in ReadyFrames : m # Current
    BY DEF EncodeStep
  <1>2. PICK c \in Nat : c = Current
    BY <1>1, NextFacts
  <1>3. /\ c \in DOMAIN frame_data
        /\ output_frameno \in Nat /\ output_frameno <= c /\ c < NextOut /\ NextOut \in Nat
        /\ \A m \in output_frameno .. c - 1 : ~IsFrame(frame_data[m])
        /\ DataInv(c)
        /\ coded \/ frame_data[c].frame_type # "KEY"
    BY <1>1, <1>2, NextFacts
  <1>4. \A n \in DOMAIN frame_data : IsFrame(EncodedData[n]) = IsFrame(frame_data[n])
                                     /\ IsCoded(EncodedData[n]) = IsCoded(frame_data[n])
    <2> TAKE n \in DOMAIN frame_data
    <2>1. EncodedData[n].kind = frame_data[n].kind
      BY <1>1, AfterEncodeFacts DEF EncodedData, SameFrame
    <2> QED BY <2>1 DEF IsFrame, IsCoded
  <1>5. ASSUME NEW n \in DOMAIN frame_data', IsFrame(frame_data'[n]) PROVE DataInv(n)'
    <2> DEFINE f == frame_data[n]
               g == EncodedData[n]
    <2>1. n \in DOMAIN frame_data /\ frame_data'[n] = g /\ P(n)' = P(n) /\ n \in Nat
      BY <1>0, <1>1, <1>5 DEF TypeOK
    <2>2. IsFrame(f) /\ DataInv(n)
      BY <1>4, <1>5, <2>1 DEF BuffersInv
    <2>3. /\ SameData(g, f)
          /\ coded /\ n = c => g.rec_buffer = BufferLeft
          /\ coded /\ n # c /\ n \in Subsequent(c) => g.rec_buffer = BufferLeft
          /\ ~coded \/ (n # c /\ n \notin Subsequent(c)) => g = f
      BY <1>1, <1>2, <2>1, <2>2, EncodedFacts
    <2>4. n \notin output_frameno .. c - 1
      BY <1>3, <2>2
    <2>5. coded => Filled(BufferLeft, c + 1) /\ BufferLeft \in [REF_FRAMES -> RefType]
      BY <1>1, <1>2, BufferLeftFilled
    <2> HIDE DEF f, g, coded
    <2>6. /\ IsCoded(g) = IsCoded(f) /\ g.frame_type = f.frame_type /\ g.refresh = f.refresh
          /\ g.lookahead_rec_buffer = f.lookahead_rec_buffer
          /\ \A p : SlotsAt(g, p) = SlotsAt(f, p)
      BY <2>3 DEF SameData, IsCoded, SlotsAt
    <2>7. /\ IsCoded(f) => Filled(f.lookahead_rec_buffer, n + 1)
          /\ IsCoded(f) /\ f.frame_type # "KEY" =>
               Filled(f.rec_buffer, IF n < output_frameno THEN n + 1 ELSE n)
          /\ f.frame_type = "KEY" => f.refresh = REF_FRAMES
          /\ f.frame_type = "KEY" /\ n < output_frameno => Filled(f.rec_buffer, n + 1)
          /\ f.frame_type # "KEY" => SlotsAt(f, P(n))
      BY <2>2 DEF DataInv, f
    <2>8. /\ IsCoded(g) /\ g.frame_type # "KEY" =>
               Filled(g.rec_buffer, IF n < c + 1 THEN n + 1 ELSE n)
          /\ g.frame_type = "KEY" /\ n < c + 1 => Filled(g.rec_buffer, n + 1)
      <3>1. CASE n < c
        <4>1. n < output_frameno /\ n < c + 1
          BY <1>3, <2>1, <2>4, <3>1
        <4>2. g = f
          <5>1. n # c /\ n \notin Subsequent(c)
            BY <1>2, <2>1, <3>1 DEF Subsequent
          <5> QED BY <2>3, <5>1
        <4> QED BY <2>7, <4>1, <4>2
      <3>2. CASE n = c
        <4>1. CASE coded
          BY <1>2, <2>3, <2>5, <3>2, <4>1
        <4>2. CASE ~coded
          <5>1. ~IsCoded(f) /\ f.frame_type # "KEY"
            BY <1>2, <1>3, <3>2, <4>2 DEF coded, f
          <5> QED BY <2>6, <5>1
        <4> QED BY <4>1, <4>2
      <3>3. CASE n > c
        <4>1. ~(n < c + 1) /\ ~(n < output_frameno) /\ n # c
          BY <1>2, <1>3, <2>1, <3>3
        <4>2. CASE coded /\ n \in Subsequent(c)
          <5>1. g.rec_buffer = BufferLeft
            BY <2>3, <4>1, <4>2
          <5>2. Filled(BufferLeft, n)
            <6> SUFFICES ASSUME NEW r \in REF_FRAMES
                         PROVE  BufferLeft[r] # NoRef /\ BufferLeft[r].output_frameno < n
              BY DEF Filled
            <6>1. /\ BufferLeft[r] # NoRef /\ BufferLeft[r].output_frameno < c + 1
                  /\ BufferLeft[r].output_frameno \in Nat
              BY <2>5, <4>2 DEF Filled, RefType
            <6> QED BY <1>2, <2>1, <3>3, <6>1
          <5> QED BY <4>1, <5>1, <5>2
        <4>3. CASE ~(coded /\ n \in Subsequent(c))
          <5>1. g = f
            BY <2>3, <4>1, <4>3
          <5> QED BY <2>7, <4>1, <5>1
        <4> QED BY <4>2, <4>3
      <3> QED BY <1>2, <2>1, <3>1, <3>2, <3>3
    <2>9. output_frameno' = c + 1
      BY <1>1, <1>2
    <2> QED BY <2>1, <2>6, <2>7, <2>8, <2>9 DEF DataInv
  <1>6. ReadyInv'
    <2> SUFFICES ASSUME ~is_flushing PROVE ReadyFrames' # {}
      BY <1>1 DEF ReadyInv, EncodeStep
    <2>1. PICK m \in ReadyFrames : m # c
      BY <1>1, <1>2
    <2>2. m \in DOMAIN frame_data /\ m >= output_frameno /\ IsCoded(frame_data[m]) /\ m \in Nat
      BY <1>0 DEF ReadyFrames, TypeOK
    <2>3. IsFrame(frame_data[m]) /\ m \in 0 .. NextOut - 1
      BY <1>0, <2>2, OutputResident DEF IsCoded, IsFrame
    <2>4. m \notin output_frameno .. c - 1
      BY <1>3, <2>3
    <2>5. m >= c + 1 /\ m \in c .. NextOut - 1
      BY <1>2, <1>3, <2>1, <2>2, <2>3, <2>4
    <2>6. m \in DOMAIN frame_data' /\ IsCoded(frame_data'[m]) /\ m >= output_frameno'
      BY <1>1, <1>2, <1>4, <2>2, <2>5
    <2> QED BY <2>6 DEF ReadyFrames
  <1> QED BY <1>5, <1>6 DEF BuffersInv

\* The kinds of steps.
LEMMA StepCases ==
  Next => \/ QuietNext \/ BuildKeyFrame \/ BuildPlaceholder \/ BuildInterFrame
          \/ \E ready \in RcReady : ReceiveRefused(ready) \/ Encode(ready)
PROOF
  BY DEF Next, SendFrameReturns, ReceivePacket, QuietNext, Encode

\* No step disturbs the buffers.
LEMMA NextBuffers == PipelineInv /\ BuffersInv /\ [Next]_vars => BuffersInv'
PROOF
  <1> SUFFICES ASSUME PipelineInv, BuffersInv, [Next]_vars PROVE BuffersInv'
    OBVIOUS
  <1>1. CASE QuietNext
    BY <1>1, QuietSteps, QuietBuffers
  <1>2. CASE BuildKeyFrame
    BY <1>2, BuildKeyBuffers
  <1>3. CASE BuildPlaceholder
    BY <1>3, BuildPlaceholderBuffers
  <1>4. CASE BuildInterFrame
    BY <1>4, BuildInterBuffers
  <1>5. CASE \E ready \in RcReady : ReceiveRefused(ready) \/ Encode(ready)
    <2>1. PICK ready \in RcReady : ReceiveRefused(ready) \/ Encode(ready)
      BY <1>5
    <2> QED BY <2>1, RefusedBuffers, EncodeSteps, EncodeBuffers
  <1>6. CASE UNCHANGED vars
    <2>1. UNCHANGED <<frame_data, next_lookahead_output_frameno, output_frameno, is_flushing, pc>>
          /\ UNCHANGED gop_output_frameno_start
      BY <1>6 DEF vars, outputVars, inputVars, gopVars
    <2>2. \A n : DataInv(n)' = DataInv(n)
      BY <2>1 DEF DataInv, P, G
    <2> QED BY <2>1, <2>2 DEF BuffersInv, ReadyInv, ReadyFrames, NextOut
  <1> QED BY <1>1, <1>2, <1>3, <1>4, <1>5, <1>6, StepCases

\* The buffers of the frames that are built, in every reachable state: the
\* lookahead predicts from originals, the encoder from a full buffer of
\* earlier frames (compute_lookahead_motion_vectors, update_rec_buffer).
THEOREM BuffersInvHolds == ASSUME MaxFrames < RcFrameLimit PROVE Spec => []BuffersInv
PROOF
  <1>1. Init => BuffersInv
    <2> SUFFICES ASSUME Init PROVE BuffersInv
      OBVIOUS
    <2>1. DOMAIN frame_data = {} /\ NextOut = 0
      BY DEF Init, InitWithLimit, NextOut
    <2> QED BY <2>1 DEF BuffersInv, ReadyInv
  <1>2. Spec => []PipelineInv
    BY PipelineInvHolds
  <1> QED BY <1>1, <1>2, NextBuffers, PTL DEF Spec

\* At most three slots are used as references.
LEMMA FewReferences ==
  ASSUME NEW refs, NEW a, NEW b, NEW c, refs \in SUBSET {a, b, c}
  PROVE  Cardinality(refs) <= 3
PROOF
  <1>1. /\ IsFiniteSet({}) /\ Cardinality({}) = 0
    BY FS_EmptySet
  <1>2. IsFiniteSet({a}) /\ Cardinality({a}) = 1
    BY FS_Singleton
  <1>3. IsFiniteSet({a, b}) /\ Cardinality({a, b}) \in Nat /\ Cardinality({a, b}) <= 2
    <2>1. {a, b} = {a} \cup {b}
      OBVIOUS
    <2>2. /\ IsFiniteSet({a} \cup {b})
          /\ Cardinality({a} \cup {b}) = IF b \in {a} THEN Cardinality({a}) ELSE Cardinality({a}) + 1
      BY <1>2, FS_AddElement
    <2> QED BY <1>2, <2>1, <2>2
  <1>4. IsFiniteSet({a, b, c}) /\ Cardinality({a, b, c}) \in Nat /\ Cardinality({a, b, c}) <= 3
    <2>1. {a, b, c} = {a, b} \cup {c}
      OBVIOUS
    <2>2. /\ IsFiniteSet({a, b} \cup {c})
          /\ Cardinality({a, b} \cup {c})
               = IF c \in {a, b} THEN Cardinality({a, b}) ELSE Cardinality({a, b}) + 1
      BY <1>3, FS_AddElement
    <2> QED BY <1>3, <2>1, <2>2
  <1>5. IsFiniteSet(refs) /\ Cardinality(refs) <= Cardinality({a, b, c})
    BY <1>4, FS_Subset
  <1> QED BY <1>4, <1>5, FS_CardinalityType

\* The frame of a position that is not output yet is still queued.
LEMMA SourceQueued ==
  ASSUME PipelineInv, NEW n \in DOMAIN frame_data, n >= output_frameno, IsFrame(frame_data[n]),
         frame_data[n].frame_type # "KEY"
  PROVE  HasFrame(frame_data[n].input_frameno)
PROOF
  <1>0. TypeOK /\ HistoryInv /\ CallsInv /\ QueueInv /\ ResidentInv /\ PositionsInv /\ PacketsInv
    BY DEF PipelineInv
  <1>1. /\ output_frameno \in Nat /\ NextOut \in Nat /\ frame_count \in Nat /\ n \in Nat
        /\ n \in 0 .. NextOut - 1 /\ Len(packets) = Due(output_frameno)
    BY <1>0, OutputResident DEF TypeOK, NextOut, PacketsInv
  <1>2. BuiltInv(n) /\ GopInv(n) /\ G(n) \in 0 .. n /\ K(n) \in Nat /\ P(n) \in Nat
    BY <1>0, <1>1 DEF PositionsInv, GopInv, P
  <1> DEFINE w == get_input_frameno(P(n), K(n))
  <1>3. P(n) # 0 /\ frame_data[n].input_frameno = w /\ w < frame_count
    BY <1>2 DEF BuiltInv, Built
  <1>4. w \in Nat /\ w >= K(n) + ShownUpTo(P(n) - 1) /\ ShownUpTo(P(n) - 1) \in Nat
    BY <1>2, <1>3, PositionFacts
  <1>5. n > 0 /\ n - 1 \in DOMAIN frame_data /\ G(n) <= n - 1
    <2>1. n > 0 /\ G(n) <= n - 1
      BY <1>1, <1>2, <1>3 DEF P
    <2>2. CASE n = output_frameno
      BY <1>0, <2>1, <2>2, OutputResident
    <2>3. CASE n # output_frameno
      <3>1. n - 1 \in output_frameno .. NextOut - 1
        BY <1>1, <2>1, <2>3
      <3> QED BY <1>0, <2>1, <3>1, OutputResident
    <2> QED BY <2>1, <2>2, <2>3
  <1>6. G(n - 1) = G(n) /\ K(n - 1) = K(n) /\ P(n - 1) = P(n) - 1
    <2>1. G(n - 1) = G(n) /\ K(n - 1) = K(n)
      BY <1>1, <1>2, <1>5 DEF GopInv
    <2> QED BY <1>1, <1>2, <2>1 DEF P
  <1>7. NextKey(K(n)) \in Nat
    BY <1>0, <1>2, NextKeyBounds
  <1>8. Due(n) <= w
    <2>1. Due(n) = Least(K(n) + ShownUpTo(P(n) - 1), NextKey(K(n)))
      BY <1>5, <1>6 DEF Due, DueAfter
    <2> HIDE DEF w
    <2> QED BY <1>2, <1>4, <1>7, <2>1 DEF Least
  <1>9. Due(n) \in Nat /\ Due(output_frameno) \in Nat /\ Due(output_frameno) <= Due(n)
    <2>1. n \in output_frameno .. NextOut
      BY <1>1
    <2> QED BY <1>0, <2>1, DueBetween
  <1>10. w >= Len(packets)
    <2> HIDE DEF w
    <2> QED BY <1>1, <1>4, <1>8, <1>9
  <1> HIDE DEF w
  <1> QED BY <1>0, <1>3, <1>4, <1>10, QueueFacts

\* Nothing that is still needed has been collected or is missing: the lookups
\* that build_frame_properties and compute_block_importances unwrap.
THEOREM NeededIsResidentHolds ==
  ASSUME MaxFrames < RcFrameLimit PROVE Spec => []NeededIsResident
PROOF
  <1>1. ASSUME PipelineInv, BuffersInv PROVE NeededIsResident
    <2>0. TypeOK /\ ResidentInv
      BY <1>1 DEF PipelineInv
    <2>1. ASSUME pc = "invariants", NextOut > 0
          PROVE  /\ NextOut - 1 \in DOMAIN gop_output_frameno_start
                 /\ NextOut - 1 \in DOMAIN gop_input_frameno_start
                 /\ \E m \in DOMAIN frame_data : m < NextOut /\ IsCoded(frame_data[m])
      <3>1. NextOut - 1 \in DOMAIN frame_data
        <4>1. PICK lo \in 0 .. output_frameno : /\ output_frameno > 0 => lo < output_frameno
                                                /\ DOMAIN frame_data = lo .. NextOut - 1
          BY <2>0 DEF ResidentInv
        <4> QED BY <2>0, <2>1, <4>1 DEF ResidentInv, TypeOK, NextOut
      <3>2. PICK m \in DOMAIN frame_data : IsCoded(frame_data[m])
        BY <2>0, <2>1 DEF ResidentInv
      <3>3. m \in 0 .. NextOut - 1 /\ NextOut \in Nat
        BY <2>0, OutputResident DEF TypeOK, NextOut
      <3>4. m < NextOut
        BY <3>3
      <3> QED BY <2>0, <3>1, <3>2, <3>4 DEF ResidentInv
    <2>2. ASSUME NEW n \in ReadyFrames, frame_data[n].frame_type # "KEY"
          PROVE  LET refs == Range(frame_data[n].ref_frames)
                 IN /\ HasFrame(frame_data[n].input_frameno)
                    /\ Cardinality(refs) <= 3
                    /\ \A r \in refs :
                         LET ref == frame_data[n].rec_buffer[r]
                         IN ref # NoRef /\ ref.output_frameno # n
      <3> DEFINE fd == frame_data[n]
                 idx == get_idx_in_group_output(P(n))
                 hint == get_order_hint(P(n), idx)
                 level == get_level(idx)
      <3>1. n \in DOMAIN frame_data /\ n >= output_frameno /\ IsCoded(fd) /\ IsFrame(fd) /\ n \in Nat
        BY <2>0 DEF ReadyFrames, IsCoded, IsFrame, TypeOK
      <3>2. fd \in FrameDataType
        <4>1. fd # Placeholder
          BY <3>1 DEF IsFrame, Placeholder
        <4> QED BY <2>0, <3>1, <4>1 DEF TypeOK
      <3>3. HasFrame(fd.input_frameno)
        BY <1>1, <2>2, <3>1, SourceQueued
      <3>4. DataInv(n)
        BY <1>1, <3>1 DEF BuffersInv
      <3>5. Filled(fd.rec_buffer, n) /\ fd.ref_frames = ref_frames(idx, level, hint)
        <4>1. ~(n < output_frameno)
          BY <2>0, <3>1 DEF TypeOK
        <4> QED BY <2>2, <3>1, <3>4, <4>1 DEF DataInv, SlotsAt
      <3>6. fd.ref_frames \in [INTER_REFS -> REF_FRAMES]
        BY <3>2 DEF FrameDataType
      <3>7. \A r \in Range(fd.ref_frames) : r \in REF_FRAMES
        BY <3>6 DEF Range
      <3>8. \A r \in Range(fd.ref_frames) :
              fd.rec_buffer[r] # NoRef /\ fd.rec_buffer[r].output_frameno # n
        <4> TAKE r \in Range(fd.ref_frames)
        <4>1. /\ fd.rec_buffer[r] # NoRef /\ fd.rec_buffer[r].output_frameno < n
              /\ fd.rec_buffer[r].output_frameno \in Nat
          BY <3>2, <3>5, <3>7 DEF Filled, FrameDataType, RefType
        <4> QED BY <3>1, <4>1
      <3>9. \E a, b, c : Range(fd.ref_frames) \in SUBSET {a, b, c}
        <4> HIDE DEF fd, idx, hint, level
        <4>1. CASE level = 0
          <5> DEFINE a == (get_slot_idx(level, hint) + 2) % 4
                     b == (get_slot_idx(level, hint) + 3) % 4
          <5>1. \A i \in INTER_REFS : fd.ref_frames[i] \in {a, b}
            BY <3>5, <4>1 DEF ref_frames
          <5> HIDE DEF a, b
          <5>2. Range(fd.ref_frames) \in SUBSET {a, b, b}
            BY <3>6, <5>1 DEF Range
          <5> QED BY <5>2
        <4>2. CASE level # 0
          <5> DEFINE a == get_slot_idx(level, hint)
                     b == SlotAt(hint + LevelStep(level))
                     c == SlotAt(hint - LevelStep(level))
          <5>1. \A i \in INTER_REFS : fd.ref_frames[i] \in {a, b, c}
            BY <3>5, <4>2 DEF ref_frames
          <5> HIDE DEF a, b, c
          <5>2. Range(fd.ref_frames) \in SUBSET {a, b, c}
            BY <3>6, <5>1 DEF Range
          <5> QED BY <5>2
        <4> QED BY <4>1, <4>2
      <3>10. Cardinality(Range(fd.ref_frames)) <= 3
        BY <3>9, FewReferences
      <3> QED BY <3>3, <3>8, <3>10
    <2> QED BY <2>1, <2>2 DEF NeededIsResident
  <1>2. Spec => []PipelineInv
    BY PipelineInvHolds
  <1>3. Spec => []BuffersInv
    BY BuffersInvHolds
  <1> QED BY <1>1, <1>2, <1>3, PTL

-----------------------------------------------------------------------------
(* The frames of a group *)

\* The slot that the frame at position p of a GOP uses.
SlotOf(p) ==
  LET idx == get_idx_in_group_output(p) IN get_slot_idx(get_level(idx), get_order_hint(p, idx))

\* Position p of a re-ordered GOP that begins with frame k: index i of group d,
\* its frame and its slot.
AtGroup(p, k, d, i) ==
  /\ p = 6 * d + i + 1
  /\ get_idx_in_group_output(p) = i
  /\ group_input_len * ((p - 1) \div group_output_len) = 4 * d
  /\ get_input_frameno(p, k) =
       k + 4 * d + (IF i < 2 THEN IF i = 0 THEN 4 ELSE 2 ELSE i - 1)
  /\ get_show_existing_frame(i) <=> i \in {3, 5}
  /\ SlotOf(p) = IF i \in {0, 5} THEN ((4 * d + 4) \div 4) % 4
                 ELSE IF i \in {1, 3} THEN 4 ELSE 5
  /\ ((4 * d + 4) \div 4) % 4 \in 0 .. 3

\* Every position but the keyframe's is one of a group.
LEMMA GroupPosition ==
  ASSUME reorder, NEW p \in Nat \ {0}, NEW k \in Nat
  PROVE  \E d \in Nat, i \in 0 .. 5 : AtGroup(p, k, d, i)
PROOF
  <1>1. pyramid_depth = 2 /\ group_input_len = 4 /\ group_output_len = 6
    BY GroupFacts
  <1> DEFINE d == (p - 1) \div 6
             i == (p - 1) % 6
  <1>2. d \in Nat /\ i \in 0 .. 5 /\ p = 6 * d + i + 1
    OBVIOUS
  <1>3. get_idx_in_group_output(p) = i /\ group_input_len * ((p - 1) \div group_output_len) = 4 * d
    BY <1>1 DEF get_idx_in_group_output
  <1>4. get_order_hint(p, i) = 4 * d + (IF i < 2 THEN IF i = 0 THEN 4 ELSE 2 ELSE i - 1)
    BY <1>1, <1>2 DEF get_order_hint
  <1>5. get_input_frameno(p, k) = k + get_order_hint(p, i)
    BY <1>3 DEF get_input_frameno
  <1> HIDE DEF d, i
  <1>6. get_show_existing_frame(i) <=> i \in {3, 5}
    BY <1>1, <1>2 DEF get_show_existing_frame, get_show_frame
  <1>7. get_level(i) = IF i \in {0, 5} THEN 0 ELSE IF i \in {1, 3} THEN 1 ELSE 2
    BY <1>1, <1>2 DEF get_level, pos_to_lvl
  <1>8. SlotOf(p) = IF i \in {0, 5} THEN ((4 * d + 4) \div 4) % 4
                    ELSE IF i \in {1, 3} THEN 4 ELSE 5
    <2>1. i \in {0, 5} => get_order_hint(p, i) = 4 * d + 4
      BY <1>4
    <2> QED BY <1>1, <1>2, <1>3, <1>7, <2>1 DEF SlotOf, get_slot_idx
  <1>9. ((4 * d + 4) \div 4) % 4 \in 0 .. 3
    BY <1>2
  <1>10. get_input_frameno(p, k) =
           k + 4 * d + (IF i < 2 THEN IF i = 0 THEN 4 ELSE 2 ELSE i - 1)
    BY <1>2, <1>4, <1>5
  <1>11. AtGroup(p, k, d, i)
    BY <1>2, <1>3, <1>6, <1>8, <1>9, <1>10 DEF AtGroup
  <1> QED BY <1>2, <1>11

\* Nothing is promised after a position that is skipped.
LEMMA HeldSkipped ==
  ASSUME NEW slots, NEW p \in Nat \ {0}, NEW k \in Nat, NextKey(k) \in Nat,
         get_input_frameno(p, k) >= NextKey(k)
  PROVE  Held(slots, p, k)
PROOF
  <1> SUFFICES ASSUME reorder PROVE Held(slots, p, k)
    BY DEF Held
  <1>1. PICK d \in Nat, i \in 0 .. 5 : AtGroup(p, k, d, i)
    BY GroupPosition
  <1>2. i \in 0 .. 4 => ~(k + 4 * d + 4 < NextKey(k))
    BY <1>1 DEF AtGroup
  <1>3. i \in 1 .. 2 => ~(k + 4 * d + 2 < NextKey(k))
    BY <1>1 DEF AtGroup
  <1> QED BY <1>1, <1>2, <1>3 DEF Held, AtGroup

\* The frame at position p is encoded, or shown again.
LEMMA HeldStep ==
  ASSUME NEW slots \in [REF_FRAMES -> RefType], NEW p \in Nat \ {0}, NEW k \in Nat,
         NextKey(k) \in Nat, Held(slots, p - 1, k), NEW pic, NEW new,
         pic.picture = get_input_frameno(p, k),
         reorder => new = IF get_show_existing_frame(get_idx_in_group_output(p)) THEN slots
                          ELSE Refresh(slots, {SlotOf(p)}, pic)
  PROVE  Held(new, p, k)
PROOF
  <1> SUFFICES ASSUME reorder PROVE Held(new, p, k)
    BY DEF Held
  <1>1. PICK d \in Nat, i \in 0 .. 5 : AtGroup(p, k, d, i)
    BY GroupPosition
  <1> DEFINE s == ((4 * d + 4) \div 4) % 4
             N == NextKey(k)
  <1>2. i > 0 => /\ i - 1 \in 0 .. 4 /\ k + 4 * d + 4 < N => slots[s].picture = k + 4 * d + 4
                 /\ i - 1 \in 1 .. 2 /\ k + 4 * d + 2 < N => slots[4].picture = k + 4 * d + 2
    <2> SUFFICES ASSUME i > 0
                 PROVE  /\ i - 1 \in 0 .. 4 /\ k + 4 * d + 4 < N => slots[s].picture = k + 4 * d + 4
                        /\ i - 1 \in 1 .. 2 /\ k + 4 * d + 2 < N => slots[4].picture = k + 4 * d + 2
      OBVIOUS
    <2>1. p - 1 \in Nat \ {0}
      BY <1>1 DEF AtGroup
    <2>2. PICK e \in Nat, j \in 0 .. 5 : AtGroup(p - 1, k, e, j)
      BY <2>1, GroupPosition
    <2>3. e = d /\ j = i - 1
      BY <1>1, <2>2 DEF AtGroup
    <2> HIDE DEF N
    <2> QED BY <2>1, <2>2, <2>3 DEF Held, N, AtGroup
  <1>3. s \in 0 .. 3 /\ s \in REF_FRAMES /\ 4 \in REF_FRAMES /\ SlotOf(p) \in 0 .. 5
    BY <1>1 DEF REF_FRAMES, AtGroup
  <1> HIDE DEF s, N
  <1>4. SlotOf(p) = IF i \in {0, 5} THEN s ELSE IF i \in {1, 3} THEN 4 ELSE 5
    BY <1>1 DEF s, AtGroup
  <1>5. new = IF i \in {3, 5} THEN slots ELSE Refresh(slots, {SlotOf(p)}, pic)
    BY <1>1 DEF AtGroup
  <1>6. i \in 0 .. 4 /\ k + 4 * d + 4 < N => new[s].picture = k + 4 * d + 4
    <2>1. CASE i = 0
      BY <1>1, <1>3, <1>4, <1>5, <2>1 DEF Refresh, AtGroup
    <2>2. CASE i \in {1, 2, 4}
      <3>1. new[s] = slots[s]
        BY <1>3, <1>4, <1>5, <2>2 DEF Refresh
      <3> QED BY <1>2, <2>2, <3>1
    <2>3. CASE i = 3
      BY <1>2, <1>5, <2>3
    <2> QED BY <2>1, <2>2, <2>3
  <1>7. i \in 1 .. 2 /\ k + 4 * d + 2 < N => new[4].picture = k + 4 * d + 2
    <2>1. CASE i = 1
      BY <1>1, <1>3, <1>4, <1>5, <2>1 DEF Refresh, AtGroup
    <2>2. CASE i = 2
      <3>1. new[4] = slots[4]
        BY <1>3, <1>4, <1>5, <2>2 DEF Refresh
      <3> QED BY <1>2, <2>2, <3>1
    <2> QED BY <2>1, <2>2
  <1> QED BY <1>1, <1>6, <1>7 DEF Held, s, N, AtGroup

\* A "show existing frame" finds the frame of its position in its slot.
LEMMA ShownAgain ==
  ASSUME NEW slots, NEW p \in Nat \ {0}, NEW k \in Nat, NextKey(k) \in Nat, Held(slots, p - 1, k),
         get_show_existing_frame(get_idx_in_group_output(p)),
         get_input_frameno(p, k) < NextKey(k)
  PROVE  slots[SlotOf(p)].picture = get_input_frameno(p, k)
PROOF
  <1>0. reorder
    BY DEF get_show_existing_frame
  <1>1. PICK d \in Nat, i \in 0 .. 5 : AtGroup(p, k, d, i)
    BY <1>0, GroupPosition
  <1>2. i \in {3, 5} /\ p - 1 \in Nat \ {0}
    BY <1>1 DEF AtGroup
  <1>3. PICK e \in Nat, j \in 0 .. 5 : AtGroup(p - 1, k, e, j)
    BY <1>0, <1>2, GroupPosition
  <1>4. e = d /\ j = i - 1
    BY <1>1, <1>2, <1>3 DEF AtGroup
  <1> DEFINE s == ((4 * d + 4) \div 4) % 4
  <1>5. /\ j \in 0 .. 4 /\ k + 4 * d + 4 < NextKey(k) => slots[s].picture = k + 4 * d + 4
        /\ j \in 1 .. 2 /\ k + 4 * d + 2 < NextKey(k) => slots[4].picture = k + 4 * d + 2
    BY <1>0, <1>2, <1>3, <1>4 DEF Held, AtGroup
  <1>6. SlotOf(p) = IF i = 5 THEN s ELSE 4
    BY <1>1, <1>2 DEF AtGroup
  <1> HIDE DEF s
  <1> QED BY <1>1, <1>2, <1>4, <1>5, <1>6 DEF AtGroup

\* A keyframe decision, or the end of the stream, promises less.
LEMMA HeldKept ==
  ASSUME NEW slots, NEW p \in Nat, NEW k \in Nat, Held(slots, p, k),
         NextKey(k) \in Nat, NextKey(k)' \in Nat, NextKey(k)' <= NextKey(k)
  PROVE  Held(slots, p, k)'
PROOF
  <1> SUFFICES ASSUME reorder, p > 0 PROVE Held(slots, p, k)'
    BY DEF Held
  <1>1. PICK d \in Nat, i \in 0 .. 5 : AtGroup(p, k, d, i)
    BY GroupPosition
  <1>2. /\ k + 4 * d + 4 < NextKey(k)' => k + 4 * d + 4 < NextKey(k)
        /\ k + 4 * d + 2 < NextKey(k)' => k + 4 * d + 2 < NextKey(k)
    OBVIOUS
  <1> QED BY <1>1, <1>2 DEF Held, AtGroup

-----------------------------------------------------------------------------
(* Steps that return no packet *)

\* The decoder is left alone, and so is the packet that is being assembled.
LEMMA SyncKept ==
  ASSUME SyncInv, UNCHANGED <<dec, packet_data, packets>>, InLineInv', HeldInv'
  PROVE  SyncInv'
PROOF
  <1>1. Ahead' = Ahead
    BY DEF Ahead
  <1> QED BY <1>1 DEF SyncInv, NoDrift, DisplaysInput

\* The position before the next output frame.
LEMMA LastOutput ==
  ASSUME PipelineInv, output_frameno > 0
  PROVE  /\ output_frameno - 1 \in DOMAIN frame_data
         /\ K(output_frameno - 1) \in Nat /\ P(output_frameno - 1) \in Nat
         /\ NextKey(K(output_frameno - 1)) \in Nat
PROOF
  <1>0. TypeOK /\ ResidentInv /\ PositionsInv
    BY DEF PipelineInv
  <1>1. PICK n : n = output_frameno - 1
    OBVIOUS
  <1>2. n \in DOMAIN frame_data
    BY <1>0, <1>1, OutputResident
  <1>3. n \in Nat /\ GopInv(n)
    BY <1>0, <1>2 DEF TypeOK, PositionsInv
  <1>4. K(n) \in Nat /\ P(n) \in Nat
    BY <1>3 DEF GopInv, P
  <1>5. NextKey(K(n)) \in Nat
    BY <1>0, <1>4, NextKeyBounds
  <1> QED BY <1>1, <1>2, <1>4, <1>5

\* What is promised stays so while the next GOP only comes nearer.
LEMMA HeldInvKept ==
  ASSUME PipelineInv, SyncInv, UNCHANGED <<dec, packet_data, output_frameno>>, KeysStep,
         \A n \in DOMAIN frame_data : K(n)' = K(n) /\ P(n)' = P(n)
  PROVE  HeldInv'
PROOF
  <1> SUFFICES ASSUME output_frameno > 0
               PROVE  Held(Ahead.slots, P(output_frameno - 1), K(output_frameno - 1))'
    BY DEF HeldInv
  <1>1. PICK n, p, k, slots : /\ n = output_frameno - 1 /\ p = P(n) /\ k = K(n)
                              /\ slots = Ahead.slots
    OBVIOUS
  <1>2. n \in DOMAIN frame_data /\ p \in Nat /\ k \in Nat
    BY <1>1, LastOutput
  <1>3. Held(slots, p, k)
    BY <1>1 DEF SyncInv, HeldInv
  <1>4. NextKey(k) \in Nat /\ NextKey(k)' \in Nat /\ NextKey(k)' <= NextKey(k)
    BY <1>2 DEF KeysStep
  <1>5. Held(slots, p, k)'
    BY <1>2, <1>3, <1>4, HeldKept
  <1>6. Ahead' = Ahead
    BY DEF Ahead
  <1>7. (output_frameno - 1)' = n /\ P(n)' = p /\ K(n)' = k
    BY <1>1, <1>2
  <1>8. P(output_frameno - 1)' = p /\ K(output_frameno - 1)' = k
    BY <1>7 DEF P, K, G
  <1> QED BY <1>1, <1>5, <1>6, <1>8 DEF Held

\* A quiet step.
LEMMA QuietSync ==
  ASSUME PipelineInv, SyncInv, Quiet, Decodes
  PROVE  SyncInv'
PROOF
  <1>1. UNCHANGED <<dec, packet_data, packets, frame_data, output_frameno>>
    BY DEF Quiet, Decodes
  <1>2. Ahead' = Ahead
    BY <1>1 DEF Ahead
  <1>3. InLineInv'
    BY <1>1, <1>2 DEF SyncInv, InLineInv, InLine
  <1>4. HeldInv'
    BY <1>1, HeldInvKept DEF Quiet
  <1> QED BY <1>1, <1>3, <1>4, SyncKept

\* A frame, or a position that is skipped, is built.  It is not in line: a
\* coded frame comes before it, or it is the first keyframe.
LEMMA BuildSync ==
  ASSUME PipelineInv, BuffersInv, SyncInv, BuildsFrame, NEW fd, NEW g, NEW k,
         InsertGop(g, k), InsertFrameData(fd), Decodes,
         NextOut = 0 => fd.frame_type = "KEY"
  PROVE  SyncInv'
PROOF
  <1>0. TypeOK /\ ResidentInv /\ NextOut \in Nat /\ output_frameno \in Nat /\ output_frameno <= NextOut
    BY DEF PipelineInv, TypeOK, NextOut, ResidentInv
  <1>1. /\ frame_data' = Insert(frame_data, NextOut, fd)
        /\ UNCHANGED <<output_frameno, packet_data, packets, keyframes, limit>>
    BY DEF InsertFrameData, outputVars, lookVars, inputVars
  <1>2. dec' = dec
    BY <1>1 DEF Decodes
  <1>3. \A m \in DOMAIN frame_data : m \in 0 .. NextOut - 1
    BY <1>0, OutputResident
  <1>4. \A m \in DOMAIN frame_data : /\ m # NextOut /\ m \in DOMAIN gop_output_frameno_start
                                     /\ m \in DOMAIN gop_input_frameno_start
    BY <1>0, <1>3 DEF ResidentInv
  <1>5. /\ DOMAIN frame_data' = DOMAIN frame_data \cup {NextOut}
        /\ frame_data'[NextOut] = fd
        /\ \A m \in DOMAIN frame_data : frame_data'[m] = frame_data[m]
    BY <1>1, <1>4 DEF Insert
  <1>6. \A m \in DOMAIN frame_data : G(m)' = G(m) /\ K(m)' = K(m)
    BY <1>4 DEF InsertGop, Insert, G, K
  <1>7. \A m \in DOMAIN frame_data : P(m)' = P(m)
    BY <1>6 DEF P
  <1>8. KeysStep
    BY <1>0, <1>1, KeysStepFacts
  <1>9. HeldInv'
    BY <1>1, <1>2, <1>6, <1>7, <1>8, HeldInvKept
  <1>10. InLineInv'
    <2> SUFFICES ASSUME NEW m \in DOMAIN frame_data', InLine(m)'
                 PROVE  /\ frame_data'[m].rec_buffer = Ahead'.slots
                        /\ IsCoded(frame_data'[m]) =>
                             frame_data'[m].sign_bias
                               = sign_bias(frame_data'[m].ref_frames, Ahead'.slots,
                                           frame_data'[m].order_hint)
      BY DEF InLineInv
    <2>1. m # NextOut
      <3> SUFFICES ASSUME m = NextOut PROVE FALSE
        OBVIOUS
      <3>1. frame_data'[m].frame_type # "KEY"
        BY DEF InLine
      <3>2. NextOut > 0
        BY <1>0, <1>5, <3>1
      <3>3. PICK j \in output_frameno .. NextOut - 1 : j \in DOMAIN frame_data /\ IsCoded(frame_data[j])
        BY <3>2, BuildReady
      <3>4. ~IsCoded(frame_data'[j])
        BY <1>1, <3>3 DEF InLine
      <3> QED BY <1>5, <3>3, <3>4
    <2>2. m \in DOMAIN frame_data /\ m \in 0 .. NextOut - 1 /\ frame_data'[m] = frame_data[m]
      BY <1>3, <1>5, <2>1
    <2>3. InLine(m)
      <3>1. \A j \in output_frameno .. m - 1 : frame_data'[j] = frame_data[j]
        <4> TAKE j \in output_frameno .. m - 1
        <4>1. j \in output_frameno .. NextOut - 1
          BY <1>0, <2>2
        <4>2. j \in DOMAIN frame_data
          BY <1>0, <4>1, OutputResident
        <4> QED BY <1>5, <4>2
      <3> QED BY <1>1, <2>2, <3>1 DEF InLine
    <2>4. Ahead' = Ahead
      BY <1>1, <1>2 DEF Ahead
    <2> QED BY <2>2, <2>3, <2>4 DEF SyncInv, InLineInv
  <1> QED BY <1>1, <1>2, <1>9, <1>10, SyncKept

\* What is skipped promises nothing.
LEMMA HeldBefore ==
  ASSUME PipelineInv, SyncInv, NextFrames # {}, Current > 0
  PROVE  Held(Ahead.slots, P(Current - 1), K(Current - 1))
PROOF
  <1>0. TypeOK /\ PositionsInv /\ output_frameno \in Nat
    BY DEF PipelineInv, TypeOK
  <1>1. PICK n : n = Current - 1
    OBVIOUS
  <1>2. /\ Current \in output_frameno .. NextOut - 1 /\ Current \in Nat
        /\ n \in DOMAIN frame_data
        /\ \A m \in output_frameno .. Current - 1 : ~IsFrame(frame_data[m])
    BY <1>1, CurrentFacts
  <1>3. CASE Current = output_frameno
    BY <1>3 DEF SyncInv, HeldInv
  <1>4. CASE Current # output_frameno
    <2>1. n \in output_frameno .. Current - 1 /\ n \in Nat
      BY <1>0, <1>1, <1>2, <1>4
    <2>2. ~IsFrame(frame_data[n])
      BY <1>2, <2>1
    <2>3. BuiltInv(n) /\ GopInv(n)
      BY <1>0, <1>2 DEF PositionsInv
    <2>4. K(n) \in Nat /\ P(n) \in Nat
      BY <2>1, <2>3 DEF GopInv, P
    <2>5. P(n) # 0 /\ get_input_frameno(P(n), K(n)) >= NextKey(K(n))
      BY <2>2, <2>3 DEF BuiltInv, Built, IsFrame, IsCoded
    <2>6. NextKey(K(n)) \in Nat
      BY <1>0, <2>4, NextKeyBounds
    <2>7. Held(Ahead.slots, P(n), K(n))
      <3>1. PICK slots, p, k : slots = Ahead.slots /\ p = P(n) /\ k = K(n)
        OBVIOUS
      <3>2. p \in Nat \ {0} /\ k \in Nat /\ NextKey(k) \in Nat /\ get_input_frameno(p, k) >= NextKey(k)
        BY <2>4, <2>5, <2>6, <3>1
      <3>3. Held(slots, p, k)
        BY <3>2, HeldSkipped
      <3> QED BY <3>1, <3>3
    <2> QED BY <1>1, <2>7
  <1> QED BY <1>3, <1>4

\* A refused call may skip placeholders.
LEMMA RefusedSync ==
  ASSUME PipelineInv, SyncInv, NEW ready, ReceiveRefused(ready), Decodes
  PROVE  SyncInv'
PROOF
  <1>0. TypeOK /\ output_frameno \in Nat /\ ResidentInv
    BY DEF PipelineInv, TypeOK
  <1>1. UNCHANGED <<frame_data, packet_data, packets, dec, keyframes, limit, gopVars>>
    BY DEF ReceiveRefused, lookVars, inputVars, Decodes
  <1>2. Ahead' = Ahead
    BY <1>1 DEF Ahead
  <1>3. \A n : K(n)' = K(n) /\ P(n)' = P(n) /\ NextKey(n)' = NextKey(n)
    BY <1>1 DEF gopVars, K, P, G, NextKey, next_keyframe_input_frameno
  <1>4. \/ output_frameno' = output_frameno
        \/ NextFrames # {} /\ output_frameno' = Current
    BY DEF ReceiveRefused
  <1>5. CASE output_frameno' = output_frameno
    <2>1. InLineInv'
      BY <1>1, <1>2, <1>5 DEF SyncInv, InLineInv, InLine
    <2>2. KeysStep
      BY <1>0, <1>1, KeysStepFacts
    <2>3. HeldInv'
      BY <1>1, <1>3, <1>5, <2>2, HeldInvKept
    <2> QED BY <1>1, <2>1, <2>3, SyncKept
  <1>6. CASE NextFrames # {} /\ output_frameno' = Current
    <2>1. /\ Current \in output_frameno .. NextOut - 1 /\ Current \in Nat
          /\ \A m \in output_frameno .. Current - 1 : ~IsFrame(frame_data[m])
      BY <1>6, CurrentFacts
    <2>2. PICK c \in Nat : c = Current
      BY <2>1
    <2>3. InLineInv'
      <3>1. ASSUME NEW n \in DOMAIN frame_data, InLine(n)' PROVE InLine(n)
        <4>1. /\ n >= c /\ IsFrame(frame_data[n]) /\ frame_data[n].frame_type # "KEY"
              /\ \A j \in c .. n - 1 : ~IsCoded(frame_data[j]) /\ n \in Nat
          BY <1>0, <1>1, <1>6, <2>2, <3>1 DEF InLine, TypeOK
        <4>2. \A j \in output_frameno .. n - 1 : ~IsCoded(frame_data[j])
          <5> TAKE j \in output_frameno .. n - 1
          <5>1. CASE j < c
            <6>1. j \in output_frameno .. c - 1
              BY <1>0, <2>2, <5>1
            <6> QED BY <2>1, <2>2, <6>1 DEF IsFrame, IsCoded
          <5>2. CASE j >= c
            <6>1. j \in c .. n - 1
              BY <1>0, <2>2, <5>2
            <6> QED BY <4>1, <6>1
          <5> QED BY <1>0, <2>2, <5>1, <5>2
        <4>3. n >= output_frameno
          <5>1. n \in Nat
            BY <1>0 DEF TypeOK
          <5> QED BY <1>0, <2>1, <2>2, <4>1, <5>1
        <4> QED BY <4>1, <4>2, <4>3 DEF InLine
      <3> QED BY <1>1, <1>2, <3>1 DEF SyncInv, InLineInv
    <2>4. HeldInv'
      <3> SUFFICES ASSUME c > 0
                   PROVE  Held(Ahead.slots, P(output_frameno - 1), K(output_frameno - 1))'
        BY <1>6, <2>2 DEF HeldInv
      <3>1. PICK n, p, k, slots : /\ n = c - 1 /\ p = P(n) /\ k = K(n)
                                  /\ slots = Ahead.slots
        OBVIOUS
      <3>2. Held(slots, p, k)
        BY <1>6, <2>2, <3>1, HeldBefore
      <3>3. Held(slots, p, k)'
        BY <1>3, <3>2 DEF Held
      <3>4. P(output_frameno - 1)' = P(n) /\ K(output_frameno - 1)' = K(n)
        BY <1>1, <1>6, <2>2, <3>1 DEF P, K, G, gopVars
      <3> QED BY <1>2, <3>1, <3>3, <3>4 DEF Held
    <2> QED BY <1>1, <2>3, <2>4, SyncKept
  <1> QED BY <1>4, <1>5, <1>6

-----------------------------------------------------------------------------
(* A frame is encoded and decoded *)

\* What the encoder writes is a frame of the bitstream.
LEMMA BitstreamFrameType ==
  ASSUME PipelineInv, NextFrames # {}
  PROVE  BitstreamFrame(Current) \in BitstreamType
PROOF
  <1>1. PICK c : c = Current
    OBVIOUS
  <1>2. c \in Nat /\ frame_data[c] \in FrameDataType
    BY <1>1, CurrentFacts
  <1> DEFINE fd == frame_data[c]
             uses == [i \in INTER_REFS |-> fd.rec_buffer[fd.ref_frames[i]]]
  <1>3. uses \in [INTER_REFS -> RefType]
    BY <1>2 DEF FrameDataType
  <1>4. (~IsCoded(fd)) \in BOOLEAN
    BY DEF IsCoded
  <1>5. /\ fd.input_frameno \in Nat /\ fd.frame_type \in {"KEY", "INTER", "SWITCH"}
        /\ fd.show_frame \in BOOLEAN /\ fd.order_hint \in Nat /\ fd.slot \in REF_FRAMES
        /\ fd.refresh \in SUBSET REF_FRAMES /\ fd.ref_frames \in [INTER_REFS -> REF_FRAMES]
        /\ fd.sign_bias \in SUBSET INTER_REFS /\ fd.t35 \in SUBSET Nat
    BY <1>2 DEF FrameDataType
  <1>6. BitstreamFrame(c) =
          [output_frameno |-> c, input_frameno |-> fd.input_frameno,
           sef |-> ~IsCoded(fd), frame_type |-> fd.frame_type,
           show_frame |-> fd.show_frame, order_hint |-> fd.order_hint,
           slot |-> fd.slot, refresh |-> fd.refresh, ref_frames |-> fd.ref_frames,
           sign_bias |-> fd.sign_bias, uses |-> uses, t35 |-> fd.t35]
    BY DEF BitstreamFrame
  <1> HIDE DEF uses, fd
  <1>7. BitstreamFrame(c) \in BitstreamType
    BY <1>2, <1>3, <1>4, <1>5, <1>6 DEF BitstreamType
  <1> QED BY <1>1, <1>7

\* The frame that is next is in line, unless it is a keyframe.
LEMMA CurrentInLine ==
  ASSUME PipelineInv, BuffersInv, SyncInv, NextFrames # {}, frame_data[Current].frame_type # "KEY"
  PROVE  /\ InLine(Current)
         /\ frame_data[Current].rec_buffer = Ahead.slots
         /\ IsCoded(frame_data[Current]) =>
              frame_data[Current].sign_bias
                = sign_bias(frame_data[Current].ref_frames, Ahead.slots,
                            frame_data[Current].order_hint)
PROOF
  <1>1. PICK c : c = Current
    OBVIOUS
  <1>2. /\ c \in Nat /\ c \in DOMAIN frame_data /\ IsFrame(frame_data[c])
        /\ output_frameno \in Nat /\ output_frameno <= c
        /\ \A m \in output_frameno .. c - 1 : ~IsFrame(frame_data[m])
    BY <1>1, NextFacts
  <1>3. InLine(c)
    BY <1>1, <1>2 DEF InLine, IsFrame, IsCoded
  <1> QED BY <1>1, <1>2, <1>3 DEF SyncInv, InLineInv

\* The promise for the position before the current one, in its GOP.
LEMMA PreviousHeld ==
  ASSUME PipelineInv, SyncInv, NextFrames # {}, P(Current) # 0
  PROVE  /\ Held(Ahead.slots, P(Current) - 1, K(Current))
         /\ P(Current) \in Nat /\ K(Current) \in Nat /\ NextKey(K(Current)) \in Nat
PROOF
  <1>0. TypeOK /\ PositionsInv
    BY DEF PipelineInv
  <1>1. PICK c : c = Current
    OBVIOUS
  <1>2. c \in Nat /\ c \in DOMAIN frame_data /\ (c = 0 \/ c - 1 \in DOMAIN frame_data)
    BY <1>1, CurrentFacts
  <1>3. GopInv(c)
    BY <1>0, <1>2 DEF PositionsInv
  <1>4. G(c) \in 0 .. c /\ K(c) \in Nat /\ P(c) \in Nat /\ P(c) # 0
    BY <1>1, <1>2, <1>3 DEF GopInv, P
  <1>5. c > 0 /\ G(c) <= c - 1 /\ c - 1 \in DOMAIN frame_data
    BY <1>2, <1>4 DEF P
  <1>6. G(c - 1) = G(c) /\ K(c - 1) = K(c)
    BY <1>2, <1>3, <1>5 DEF GopInv
  <1>7. P(c - 1) = P(c) - 1
    BY <1>2, <1>4, <1>6 DEF P
  <1>8. Held(Ahead.slots, P(c - 1), K(c - 1))
    BY <1>1, <1>5, HeldBefore
  <1>9. NextKey(K(c)) \in Nat
    BY <1>0, <1>4, NextKeyBounds
  <1> QED BY <1>1, <1>4, <1>6, <1>7, <1>8, <1>9

\* The position of the current frame, in its GOP.
LEMMA CurrentPosition ==
  ASSUME PipelineInv, BuffersInv, NextFrames # {}, P(Current) # 0
  PROVE  LET fd == frame_data[Current]
             p == P(Current)
         IN /\ fd.input_frameno = get_input_frameno(p, K(Current))
            /\ get_input_frameno(p, K(Current)) < NextKey(K(Current))
            /\ IsCoded(fd) = ~get_show_existing_frame(get_idx_in_group_output(p))
            /\ fd.slot = SlotOf(p)
            /\ reorder /\ IsCoded(fd) => fd.refresh = {SlotOf(p)}
            /\ fd.frame_type # "KEY"
PROOF
  <1>1. PICK c : c = Current
    OBVIOUS
  <1>2. c \in DOMAIN frame_data /\ IsFrame(frame_data[c]) /\ DataInv(c) /\ frame_data[c].frame_type # "KEY"
    BY <1>1, NextFacts
  <1>3. BuiltInv(c)
    BY <1>2 DEF PipelineInv, PositionsInv
  <1>4. SlotsAt(frame_data[c], P(c))
    BY <1>2 DEF DataInv
  <1> QED BY <1>1, <1>2, <1>3, <1>4 DEF BuiltInv, Built, SlotsAt, SlotOf

\* The picture that the current frame displays, if it is shown.
Shown == IF IsCoded(frame_data[Current]) THEN Reconstruction(Current)
         ELSE frame_data[Current].rec_buffer[frame_data[Current].slot]

\* The decoder after the current frame.
Decoded == DecodeFrame(Ahead, BitstreamFrame(Current))

\* It predicts from what the encoder predicted from, leaves the buffer that
\* the encoder leaves, and displays what the encoder shows.
LEMMA DecodedFacts ==
  ASSUME PipelineInv, BuffersInv, SyncInv, NextFrames # {}
  PROVE  LET fd == frame_data[Current]
         IN /\ Decoded \in DecoderType
            /\ Decoded.slots = IF IsCoded(fd) THEN BufferLeft ELSE Ahead.slots
            /\ Decoded.drifted = {}
            /\ Decoded.display = IF fd.show_frame THEN Append(Ahead.display, Shown)
                                 ELSE Ahead.display
            /\ Shown \in RefType
            /\ Shown.picture = fd.input_frameno
PROOF
  <1>0. BitstreamFrame(Current) \in BitstreamType
    BY BitstreamFrameType
  <1>1. PICK c : c = Current
    OBVIOUS
  <1> DEFINE fd == frame_data[c]
             f == BitstreamFrame(c)
  <1>2. /\ c \in Nat /\ fd \in FrameDataType /\ DataInv(c) /\ (P(c) = 0 <=> fd.frame_type = "KEY")
        /\ IsCoded(fd) \/ fd.frame_type # "KEY"
    BY <1>1, NextFacts
  <1>3. IsCoded(fd) \/ fd.show_frame
    BY <1>1, OutputFacts
  <1>4. /\ f.sef = ~IsCoded(fd) /\ f.frame_type = fd.frame_type /\ f.show_frame = fd.show_frame
        /\ f.order_hint = fd.order_hint /\ f.slot = fd.slot /\ f.refresh = fd.refresh
        /\ f.ref_frames = fd.ref_frames /\ f.sign_bias = fd.sign_bias
        /\ f.uses = [i \in INTER_REFS |-> fd.rec_buffer[fd.ref_frames[i]]]
        /\ f.output_frameno = c /\ f.input_frameno = fd.input_frameno
    BY DEF BitstreamFrame
  <1>5. Ref("rec", f.output_frameno, f.order_hint, f.input_frameno) = Reconstruction(c)
    BY <1>4 DEF Reconstruction
  <1>6. Ahead \in DecoderType /\ Ahead.drifted = {}
    BY DEF SyncInv
  <1>7. /\ Reconstruction(c) \in RefType /\ Reconstruction(c).picture = fd.input_frameno
    <2>1. fd.order_hint \in Nat /\ fd.input_frameno \in Nat
      BY <1>2 DEF FrameDataType
    <2> QED BY <1>2, <2>1, RefTypes, RefNotEmpty DEF Reconstruction
  <1>8. fd.frame_type # "KEY" => fd.rec_buffer = Ahead.slots
    BY <1>1, CurrentInLine
  <1>9. Decoded = DecodeFrame(Ahead, f) /\ f \in BitstreamType
    BY <1>0, <1>1 DEF Decoded
  <1>10. Decoded \in DecoderType
    BY <1>6, <1>9, DecodeFrameType
  <1>11. CASE IsCoded(fd)
    <2>1. Shown = Reconstruction(c)
      BY <1>1, <1>11 DEF Shown
    <2>2. BufferLeft = Refresh(fd.rec_buffer, fd.refresh, Reconstruction(c))
      BY <1>1 DEF BufferLeft
    <2>3. Refresh(Ahead.slots, fd.refresh, Reconstruction(c)) = BufferLeft
      <3>1. CASE fd.frame_type = "KEY"
        <4>1. fd.refresh = REF_FRAMES
          BY <1>2, <3>1 DEF DataInv
        <4> QED BY <2>2, <4>1 DEF Refresh
      <3>2. CASE fd.frame_type # "KEY"
        BY <1>8, <2>2, <3>2
      <3> QED BY <3>1, <3>2
    <2>4. fd.frame_type = "KEY" \/ Agrees(Ahead.slots, f)
      <3> SUFFICES ASSUME fd.frame_type # "KEY" PROVE Agrees(Ahead.slots, f)
        OBVIOUS
      <3>1. fd.sign_bias = sign_bias(fd.ref_frames, Ahead.slots, fd.order_hint)
        BY <1>1, <1>11, CurrentInLine
      <3>2. \A i \in INTER_REFS : Ahead.slots[f.ref_frames[i]] = f.uses[i]
        BY <1>4, <1>8
      <3> HIDE DEF f, fd
      <3> QED BY <1>4, <3>1, <3>2 DEF Agrees
    <2> HIDE DEF f, fd
    <2>5. Decoded = [slots |-> BufferLeft,
                     display |-> IF fd.show_frame THEN Append(Ahead.display, Reconstruction(c))
                                 ELSE Ahead.display,
                     drifted |-> Ahead.drifted]
      BY <1>4, <1>5, <1>9, <1>11, <2>3, <2>4 DEF DecodeFrame
    <2>6. /\ Decoded.slots = BufferLeft /\ Decoded.drifted = {}
          /\ Decoded.display = IF fd.show_frame THEN Append(Ahead.display, Shown) ELSE Ahead.display
      BY <1>6, <2>1, <2>5
    <2> QED BY <1>1, <1>7, <1>10, <1>11, <2>1, <2>6 DEF fd
  <1>12. CASE ~IsCoded(fd)
    <2>1. fd.rec_buffer = Ahead.slots /\ fd.show_frame /\ P(c) # 0
      BY <1>2, <1>3, <1>8, <1>12
    <2>2. Shown = Ahead.slots[fd.slot]
      BY <1>1, <1>12, <2>1 DEF Shown
    <2>3. Shown \in RefType
      BY <1>2, <1>6, <2>2 DEF DecoderType, FrameDataType
    <2>4. Shown.picture = fd.input_frameno
      <3>1. PICK slots, p, k : slots = Ahead.slots /\ p = P(c) /\ k = K(c)
        OBVIOUS
      <3>2. /\ p \in Nat \ {0} /\ k \in Nat /\ NextKey(k) \in Nat /\ Held(slots, p - 1, k)
        BY <1>1, <2>1, <3>1, PreviousHeld
      <3>3. /\ fd.input_frameno = get_input_frameno(p, k) /\ get_input_frameno(p, k) < NextKey(k)
            /\ get_show_existing_frame(get_idx_in_group_output(p)) /\ fd.slot = SlotOf(p)
        <4>1. IsCoded(fd) = ~get_show_existing_frame(get_idx_in_group_output(p))
          BY <1>1, <2>1, <3>1, CurrentPosition
        <4> QED BY <1>1, <1>12, <2>1, <3>1, <4>1, CurrentPosition DEF get_show_existing_frame
      <3>4. slots[SlotOf(p)].picture = get_input_frameno(p, k)
        BY <3>2, <3>3, ShownAgain
      <3> QED BY <2>2, <3>1, <3>3, <3>4
    <2> HIDE DEF f, fd
    <2>5. Decoded = [Ahead EXCEPT !.display = Append(Ahead.display, Ahead.slots[fd.slot])]
      BY <1>4, <1>9, <1>12 DEF DecodeFrame
    <2>6. /\ Decoded.slots = Ahead.slots /\ Decoded.drifted = {}
          /\ Decoded.display = Append(Ahead.display, Shown)
      BY <1>6, <2>2, <2>5 DEF DecoderType
    <2> QED BY <1>1, <1>10, <1>12, <2>1, <2>3, <2>4, <2>6 DEF fd
  <1> QED BY <1>11, <1>12

\* What the three ways to encode do to the packets and the decoder.
DecodeStep ==
  LET fd == frame_data[Current]
      f  == BitstreamFrame(Current)
  IN IF fd.show_frame
     THEN /\ \E opaque : packets' = Append(packets,
               [input_frameno |-> fd.input_frameno, frame_type |-> fd.frame_type, rec |-> Shown,
                opaque |-> opaque, tu |-> Append(packet_data, f)])
          /\ packet_data' = <<>>
          /\ dec' = DecodeFrames(dec, Append(packet_data, f))
     ELSE /\ packets' = packets
          /\ packet_data' = Append(packet_data, f)
          /\ dec' = dec

\* They do that.
LEMMA DecodeSteps ==
  ASSUME PipelineInv, NEW ready, Encode(ready), Decodes
  PROVE  DecodeStep
PROOF
  <1> DEFINE fd == frame_data[Current]
             f == BitstreamFrame(Current)
  <1>1. NextFrames # {}
    BY EncodesFacts DEF Encode, EncodeHidden, EncodeShown, EncodeShowExisting
  <1>2. CASE EncodeHidden(ready)
    <2>1. ~fd.show_frame /\ packets' = packets /\ packet_data' = Append(packet_data, f)
      BY <1>2 DEF EncodeHidden
    <2>2. dec' = dec
      BY <2>1 DEF Decodes
    <2> QED BY <2>1, <2>2 DEF DecodeStep
  <1>3. CASE EncodeShown(ready) \/ EncodeShowExisting(ready)
    <2>1. fd.show_frame
      BY <1>1, <1>3, OutputFacts DEF EncodeShown, EncodeShowExisting
    <2> DEFINE pkt(opaque) ==
                 [input_frameno |-> fd.input_frameno, frame_type |-> fd.frame_type, rec |-> Shown,
                  opaque |-> opaque, tu |-> Append(packet_data, f)]
    <2>2. packet_data' = <<>> /\ packets' = Append(packets, pkt(fd.input_frameno \in opaque_q))
      <3>1. CASE EncodeShown(ready)
        BY <3>1 DEF EncodeShown, EmitPacket, Shown
      <3>2. CASE EncodeShowExisting(ready)
        BY <3>2 DEF EncodeShowExisting, EmitPacket, Shown
      <3> QED BY <1>3, <3>1, <3>2
    <2>3. PICK x : x = pkt(fd.input_frameno \in opaque_q)
      OBVIOUS
    <2>4. packets' = Append(packets, x) /\ x.tu = Append(packet_data, f)
      BY <2>2, <2>3
    <2>5. packets \in Seq(Range(packets)) /\ Len(packets) \in Nat
      BY DEF PipelineInv, HistoryInv
    <2>6. Len(packets') = Len(packets) + 1 /\ packets'[Len(packets) + 1] = x
      BY <2>4, <2>5, AppendFacts
    <2>7. packets' # packets
      BY <2>5, <2>6
    <2>8. dec' = DecodeFrames(dec, Append(packet_data, f))
      BY <2>4, <2>6, <2>7 DEF Decodes, DecodePacket
    <2> HIDE DEF f, fd
    <2> QED BY <2>1, <2>2, <2>8 DEF DecodeStep, f, fd
  <1> QED BY <1>2, <1>3 DEF Encode

\* The decoder has decoded the frame, or will with the next packet.
LEMMA DecodeStepAhead ==
  ASSUME PipelineInv, BuffersInv, SyncInv, NextFrames # {}, DecodeStep
  PROVE  /\ Ahead' = Decoded /\ packet_data' \in Seq(BitstreamType)
         /\ dec' = IF frame_data[Current].show_frame THEN Decoded ELSE dec
PROOF
  <1>1. PICK f : f = BitstreamFrame(Current)
    OBVIOUS
  <1>2. f \in BitstreamType
    BY <1>1, BitstreamFrameType
  <1>3. dec \in DecoderType /\ packet_data \in Seq(BitstreamType)
    BY DEF SyncInv
  <1>4. DecodeFrames(dec, Append(packet_data, f)) = Decoded
    BY <1>1, <1>2, <1>3, DecodeFramesFacts DEF Decoded, Ahead
  <1>5. Decoded \in DecoderType
    BY DecodedFacts
  <1>6. CASE frame_data[Current].show_frame
    <2>1. packet_data' = <<>> /\ dec' = Decoded
      BY <1>1, <1>4, <1>6 DEF DecodeStep
    <2>2. DecodeFrames(Decoded, <<>>) = Decoded
      BY <1>5, DecodeFramesFacts
    <2> QED BY <1>6, <2>1, <2>2 DEF Ahead
  <1>7. CASE ~frame_data[Current].show_frame
    <2>1. packet_data' = Append(packet_data, f) /\ dec' = dec
      BY <1>1, <1>7 DEF DecodeStep
    <2>2. Append(packet_data, f) \in Seq(BitstreamType)
      BY <1>2, <1>3
    <2> QED BY <1>4, <1>7, <2>1, <2>2 DEF Ahead
  <1> QED BY <1>6, <1>7

\* The frames that are in line afterwards have the buffer that was left.
LEMMA EncodeInLine ==
  ASSUME PipelineInv, BuffersInv, SyncInv, EncodeStep, DecodeStep
  PROVE  InLineInv'
PROOF
  <1>0. TypeOK /\ ResidentInv /\ NextFrames # {}
    BY DEF PipelineInv, EncodeStep
  <1>1. PICK c \in Nat : c = Current
    BY <1>0, NextFacts
  <1> DEFINE coded == IsCoded(frame_data[c])
  <1>2. /\ output_frameno' = c + 1
        /\ DOMAIN frame_data' \subseteq DOMAIN frame_data
        /\ \A n \in c .. NextOut - 1 : n \in DOMAIN frame_data'
        /\ \A n \in DOMAIN frame_data' : frame_data'[n] = EncodedData[n]
    BY <1>1 DEF EncodeStep
  <1>3. /\ output_frameno \in Nat /\ output_frameno <= c /\ c < NextOut /\ NextOut \in Nat
        /\ \A m \in output_frameno .. c - 1 : ~IsFrame(frame_data[m])
    BY <1>0, <1>1, NextFacts
  <1>4. Ahead'.slots = IF coded THEN BufferLeft ELSE Ahead.slots
    BY <1>0, <1>1, DecodeStepAhead, DecodedFacts
  <1> SUFFICES ASSUME NEW n \in DOMAIN frame_data', InLine(n)'
               PROVE  /\ frame_data'[n].rec_buffer = Ahead'.slots
                      /\ IsCoded(frame_data'[n]) =>
                           frame_data'[n].sign_bias
                             = sign_bias(frame_data'[n].ref_frames, Ahead'.slots,
                                         frame_data'[n].order_hint)
    BY DEF InLineInv
  <1>5. /\ n >= c + 1 /\ IsFrame(frame_data'[n]) /\ frame_data'[n].frame_type # "KEY"
        /\ \A j \in c + 1 .. n - 1 : ~IsCoded(frame_data'[j])
    BY <1>2 DEF InLine
  <1>6. n \in DOMAIN frame_data /\ n \in 0 .. NextOut - 1 /\ frame_data'[n] = EncodedData[n]
    BY <1>0, <1>2, OutputResident
  <1>7. \A m \in DOMAIN frame_data : EncodedData[m].kind = frame_data[m].kind
    BY <1>0, AfterEncodeFacts DEF EncodedData, SameFrame
  <1>8. IsFrame(frame_data[n])
    BY <1>5, <1>6, <1>7 DEF IsFrame
  <1>9. \A j \in c + 1 .. n - 1 : ~IsCoded(frame_data[j])
    <2> TAKE j \in c + 1 .. n - 1
    <2>1. j \in c .. NextOut - 1
      BY <1>3, <1>6
    <2>2. j \in DOMAIN frame_data' /\ j \in DOMAIN frame_data
      BY <1>2, <2>1
    <2> QED BY <1>2, <1>5, <1>7, <2>2 DEF IsCoded
  <1> DEFINE g == EncodedData[n]
  <1>10. /\ SameData(g, frame_data[n])
         /\ coded /\ n # c /\ n \in Subsequent(c) =>
              /\ g.rec_buffer = BufferLeft
              /\ g.sign_bias = sign_bias(g.ref_frames, BufferLeft, g.order_hint)
         /\ ~coded => g = frame_data[n]
    BY <1>0, <1>1, <1>6, <1>8, EncodedFacts
  <1>11. frame_data[n].frame_type # "KEY"
    BY <1>5, <1>6, <1>10 DEF SameData
  <1>12. n > c /\ n \in Nat
    BY <1>1, <1>5, <1>6
  <1>13. CASE coded
    <2>1. n \in Subsequent(c)
      <3> SUFFICES ASSUME NEW j \in DOMAIN frame_data, j > c, j < n PROVE ~IsCoded(frame_data[j])
        BY <1>6, <1>8, <1>11, <1>12 DEF Subsequent
      <3>1. j \in c + 1 .. n - 1
        BY <1>0, <1>1, <1>12 DEF TypeOK
      <3> QED BY <1>9, <3>1
    <2> HIDE DEF g, coded
    <2> QED BY <1>4, <1>6, <1>10, <1>12, <1>13, <2>1 DEF g
  <1>14. CASE ~coded
    <2>1. InLine(n)
      <3>1. \A j \in output_frameno .. n - 1 : ~IsCoded(frame_data[j])
        <4> TAKE j \in output_frameno .. n - 1
        <4>1. CASE j < c
          <5>1. j \in output_frameno .. c - 1
            BY <1>1, <1>3, <4>1
          <5> QED BY <1>3, <5>1 DEF IsFrame, IsCoded
        <4>2. CASE j = c
          BY <1>14, <4>2
        <4>3. CASE j > c
          <5>1. j \in c + 1 .. n - 1
            BY <1>1, <1>3, <1>12, <4>3
          <5> QED BY <1>9, <5>1
        <4> QED BY <1>1, <1>3, <1>12, <4>1, <4>2, <4>3
      <3>2. n >= output_frameno
        BY <1>1, <1>3, <1>12
      <3> QED BY <1>8, <1>11, <3>1, <3>2 DEF InLine
    <2>2. frame_data'[n] = frame_data[n] /\ Ahead'.slots = Ahead.slots
      BY <1>4, <1>6, <1>10, <1>14
    <2> QED BY <1>6, <2>1, <2>2 DEF SyncInv, InLineInv
  <1> QED BY <1>13, <1>14

\* The promise for the frame that was encoded, or shown again.
LEMMA EncodeHeld ==
  ASSUME PipelineInv, BuffersInv, SyncInv, EncodeStep, DecodeStep
  PROVE  HeldInv'
PROOF
  <1>0. NextFrames # {} /\ output_frameno' = Current + 1
    BY DEF EncodeStep
  <1>1. PICK c \in Nat : c = Current
    BY <1>0, NextFacts
  <1>2. PICK p, k, slots, new : /\ p = P(c) /\ k = K(c) /\ slots = Ahead.slots
                                /\ new = Decoded.slots
    OBVIOUS
  <1>3. c \in DOMAIN frame_data' /\ P(c)' = p /\ K(c)' = k
    <2>1. c < NextOut /\ NextOut \in Nat
      BY <1>0, <1>1, NextFacts
    <2>2. c \in c .. NextOut - 1
      BY <2>1
    <2> QED BY <1>1, <1>2, <2>2 DEF EncodeStep
  <1>4. P(output_frameno - 1)' = p /\ K(output_frameno - 1)' = k
    <2>1. (output_frameno - 1)' = c
      BY <1>0, <1>1
    <2> QED BY <1>3, <2>1 DEF P, K, G
  <1>5. Ahead'.slots = new
    BY <1>0, <1>2, DecodeStepAhead
  <1>6. Held(new, p, k)
    <2>1. CASE p = 0
      BY <2>1 DEF Held
    <2>2. CASE p # 0
      <3>1. p \in Nat \ {0} /\ k \in Nat /\ NextKey(k) \in Nat /\ Held(slots, p - 1, k)
        BY <1>0, <1>1, <1>2, <2>2, PreviousHeld
      <3>2. slots \in [REF_FRAMES -> RefType]
        BY <1>2 DEF SyncInv, DecoderType
      <3> DEFINE fd == frame_data[c]
                 sef == get_show_existing_frame(get_idx_in_group_output(p))
      <3>3. /\ fd.input_frameno = get_input_frameno(p, k)
            /\ IsCoded(fd) = ~sef
            /\ reorder /\ IsCoded(fd) => fd.refresh = {SlotOf(p)}
            /\ fd.frame_type # "KEY"
        BY <1>0, <1>1, <1>2, <2>2, CurrentPosition
      <3>4. fd.rec_buffer = slots
        BY <1>0, <1>1, <1>2, <3>3, CurrentInLine
      <3>5. PICK pic : pic = Reconstruction(c)
        OBVIOUS
      <3>6. pic.picture = get_input_frameno(p, k)
        BY <3>3, <3>5, RefNotEmpty DEF Reconstruction
      <3>7. new = IF IsCoded(fd) THEN Refresh(slots, fd.refresh, pic) ELSE slots
        <4>1. new = IF IsCoded(fd) THEN BufferLeft ELSE slots
          BY <1>0, <1>1, <1>2, DecodedFacts
        <4>2. BufferLeft = Refresh(slots, fd.refresh, pic)
          BY <1>1, <3>4, <3>5 DEF BufferLeft
        <4> QED BY <4>1, <4>2
      <3>8. sef \in BOOLEAN
        BY DEF get_show_existing_frame
      <3> HIDE DEF fd
      <3>9. reorder => new = IF sef THEN slots ELSE Refresh(slots, {SlotOf(p)}, pic)
        BY <3>3, <3>7, <3>8
      <3> QED BY <3>1, <3>2, <3>6, <3>9, HeldStep
    <2> QED BY <2>1, <2>2
  <1>7. NextKey(k)' = NextKey(k)
    BY DEF EncodeStep, NextKey, next_keyframe_input_frameno
  <1>8. Held(new, p, k)'
    BY <1>6, <1>7 DEF Held
  <1>9. Held(Ahead.slots, P(output_frameno - 1), K(output_frameno - 1))'
    BY <1>4, <1>5, <1>8 DEF Held
  <1> QED BY <1>9 DEF HeldInv

\* The packet displays its frame.
LEMMA EncodeDisplays ==
  ASSUME PipelineInv, BuffersInv, SyncInv, NextFrames # {}, DecodeStep
  PROVE  DisplaysInput'
PROOF
  <1> DEFINE fd == frame_data[Current]
  <1>0. /\ DisplaysInput /\ dec \in DecoderType /\ Ahead.display = dec.display
    BY DEF SyncInv
  <1>1. CASE ~fd.show_frame
    <2>1. packets' = packets /\ dec' = dec
      BY <1>1 DEF DecodeStep
    <2> QED BY <1>0, <2>1 DEF DisplaysInput
  <1>2. CASE fd.show_frame
    <2>1. PICK opaque : packets' = Append(packets,
               [input_frameno |-> fd.input_frameno, frame_type |-> fd.frame_type, rec |-> Shown,
                opaque |-> opaque, tu |-> Append(packet_data, BitstreamFrame(Current))])
      BY <1>2 DEF DecodeStep
    <2>2. PICK x : /\ x = [input_frameno |-> fd.input_frameno, frame_type |-> fd.frame_type,
                           rec |-> Shown, opaque |-> opaque,
                           tu |-> Append(packet_data, BitstreamFrame(Current))]
      OBVIOUS
    <2>3. packets' = Append(packets, x) /\ x.rec = Shown /\ x.input_frameno = fd.input_frameno
      BY <2>1, <2>2
    <2>4. packets \in Seq(Range(packets)) /\ Len(packets) \in Nat
      BY DEF PipelineInv, HistoryInv
    <2> DEFINE N == Len(packets)
    <2>5. /\ Len(packets') = N + 1 /\ DOMAIN packets = 1 .. N /\ DOMAIN packets' = 1 .. N + 1
          /\ packets'[N + 1] = x /\ \A i \in 1 .. N : packets'[i] = packets[i]
      BY <2>3, <2>4, AppendFacts
    <2>6. dec'.display = Append(dec.display, Shown) /\ Shown.picture = fd.input_frameno
          /\ Shown \in RefType
      BY <1>0, <1>2, DecodeStepAhead, DecodedFacts
    <2>7. dec.display \in Seq(RefType) /\ Len(dec.display) = N
      BY <1>0 DEF DecoderType, DisplaysInput
    <2>8. /\ Len(dec'.display) = N + 1 /\ dec'.display[N + 1] = Shown
          /\ \A i \in 1 .. N : dec'.display[i] = dec.display[i]
      BY <2>4, <2>6, <2>7
    <2>9. ASSUME NEW i \in DOMAIN packets'
          PROVE  /\ dec'.display[i].picture = packets'[i].input_frameno
                 /\ dec'.display[i] = packets'[i].rec
      <3>1. CASE i = N + 1
        BY <2>3, <2>5, <2>6, <2>8, <3>1
      <3>2. CASE i # N + 1
        <4>1. i \in 1 .. N /\ i \in DOMAIN packets
          BY <2>4, <2>5, <2>9, <3>2
        <4> QED BY <1>0, <2>5, <2>8, <4>1 DEF DisplaysInput
      <3> QED BY <3>1, <3>2
    <2> QED BY <2>5, <2>8, <2>9 DEF DisplaysInput
  <1> QED BY <1>1, <1>2

\* A frame is encoded, or shown again.
LEMMA EncodeSync ==
  ASSUME PipelineInv, BuffersInv, SyncInv, NEW ready, Encode(ready), Decodes
  PROVE  SyncInv'
PROOF
  <1>1. EncodeStep /\ DecodeStep /\ NextFrames # {}
    BY EncodeSteps, DecodeSteps DEF EncodeStep
  <1>2. InLineInv' /\ HeldInv' /\ DisplaysInput'
    BY <1>1, EncodeInLine, EncodeHeld, EncodeDisplays
  <1>3. /\ Ahead' = Decoded /\ packet_data' \in Seq(BitstreamType)
        /\ dec' = IF frame_data[Current].show_frame THEN Decoded ELSE dec
    BY <1>1, DecodeStepAhead
  <1>4. /\ Decoded \in DecoderType /\ Decoded.drifted = {}
        /\ ~frame_data[Current].show_frame => Decoded.display = Ahead.display
    BY <1>1, DecodedFacts
  <1>5. dec \in DecoderType /\ Ahead.display = dec.display /\ dec.drifted = {}
    BY DEF SyncInv, NoDrift
  <1>6. dec' \in DecoderType /\ Ahead'.display = dec'.display /\ dec'.drifted = {}
    BY <1>3, <1>4, <1>5
  <1> QED BY <1>2, <1>3, <1>4, <1>6 DEF SyncInv, NoDrift

-----------------------------------------------------------------------------
(* The decoder in step with the encoder *)

\* No step takes the decoder out of step.
LEMMA NextSync == PipelineInv /\ BuffersInv /\ SyncInv /\ [SyncNext]_syncVars => SyncInv'
PROOF
  <1> SUFFICES ASSUME PipelineInv, BuffersInv, SyncInv, [SyncNext]_syncVars PROVE SyncInv'
    OBVIOUS
  <1>1. CASE SyncNext
    <2>0. Next /\ Decodes
      BY <1>1 DEF SyncNext
    <2>1. CASE QuietNext
      BY <2>0, <2>1, QuietSteps, QuietSync
    <2>2. CASE BuildKeyFrame
      <3>1. PICK fd, g, k : /\ fd = KeyFrameData(NextOut, KeyInput, T35Taken)
                            /\ g = NextOut /\ k = KeyInput
        OBVIOUS
      <3>2. BuildsFrame /\ InsertGop(g, k) /\ InsertFrameData(fd) /\ fd.frame_type = "KEY"
        BY <2>2, <3>1 DEF BuildKeyFrame, KeyFrameData
      <3> QED BY <2>0, <3>2, BuildSync
    <2>3. CASE BuildPlaceholder
      <3>1. PICK fd, g, k : fd = Placeholder /\ g = GopOut /\ k = GopIn
        OBVIOUS
      <3>2. BuildsFrame /\ InsertGop(g, k) /\ InsertFrameData(fd) /\ ~StartsGop
        BY <2>3, <3>1 DEF BuildPlaceholder
      <3>3. NextOut # 0
        BY <3>2, BuildFacts
      <3> QED BY <2>0, <3>2, <3>3, BuildSync
    <2>4. CASE BuildInterFrame
      <3>1. PICK fd, g, k : /\ fd = InterFrameData(NextOut, frame_data[PreviousCodedFi(NextOut)],
                                                   InGop, WantedInput, T35Taken)
                            /\ g = GopOut /\ k = GopIn
        OBVIOUS
      <3>2. BuildsFrame /\ InsertGop(g, k) /\ InsertFrameData(fd) /\ ~StartsGop
        BY <2>4, <3>1 DEF BuildInterFrame
      <3>3. NextOut # 0
        BY <3>2, BuildFacts
      <3> QED BY <2>0, <3>2, <3>3, BuildSync
    <2>5. CASE \E ready \in RcReady : ReceiveRefused(ready) \/ Encode(ready)
      <3>1. PICK ready \in RcReady : ReceiveRefused(ready) \/ Encode(ready)
        BY <2>5
      <3> QED BY <2>0, <3>1, RefusedSync, EncodeSync
    <2> QED BY <2>0, <2>1, <2>2, <2>3, <2>4, <2>5, StepCases
  <1>2. CASE UNCHANGED syncVars
    <2>1. UNCHANGED <<dec, packet_data, packets, frame_data, output_frameno, keyframes, limit, gopVars>>
      BY <1>2 DEF syncVars, vars, outputVars, inputVars, lookVars
    <2>2. Ahead' = Ahead
      BY <2>1 DEF Ahead
    <2>3. InLineInv'
      BY <2>1, <2>2 DEF SyncInv, InLineInv, InLine
    <2>4. KeysStep
      BY <2>1, KeysStepFacts DEF PipelineInv
    <2>5. \A n : K(n)' = K(n) /\ P(n)' = P(n)
      BY <2>1 DEF gopVars, K, P, G
    <2>6. HeldInv'
      BY <2>1, <2>4, <2>5, HeldInvKept
    <2> QED BY <2>1, <2>3, <2>6, SyncKept
  <1> QED BY <1>1, <1>2

\* The decoder is in step with the encoder in every reachable state.
THEOREM SyncInvHolds == ASSUME MaxFrames < RcFrameLimit PROVE SyncSpec => []SyncInv
PROOF
  <1>1. SyncInit => SyncInv
    <2> SUFFICES ASSUME SyncInit PROVE SyncInv
      OBVIOUS
    <2>1. /\ dec = [slots |-> EmptyRefs, display |-> <<>>, drifted |-> {}]
          /\ packet_data = <<>> /\ packets = <<>> /\ output_frameno = 0 /\ DOMAIN frame_data = {}
      BY DEF SyncInit, Init, InitWithLimit
    <2>2. dec \in DecoderType /\ packet_data \in Seq(BitstreamType)
      BY <2>1, RefTypes DEF DecoderType
    <2>3. Ahead = dec
      BY <2>1, <2>2, DecodeFramesFacts DEF Ahead
    <2>4. InLineInv /\ HeldInv
      BY <2>1 DEF InLineInv, HeldInv
    <2>5. NoDrift /\ DisplaysInput
      BY <2>1 DEF NoDrift, DisplaysInput
    <2> QED BY <2>1, <2>2, <2>3, <2>4, <2>5 DEF SyncInv
  <1>2. SyncInit => Init
    BY DEF SyncInit
  <1>3. [SyncNext]_syncVars => [Next]_vars
    BY DEF SyncNext, syncVars
  <1>4. SyncSpec => Spec
    BY <1>2, <1>3, PTL DEF SyncSpec, Spec
  <1>5. Spec => []PipelineInv
    BY PipelineInvHolds
  <1>6. Spec => []BuffersInv
    BY BuffersInvHolds
  <1> QED BY <1>1, <1>4, <1>5, <1>6, NextSync, PTL DEF SyncSpec

\* Encoder and decoder predict every inter frame from the same pictures in
\* the same slots, whatever is re-ordered, skipped or cut into GOPs between
\* (update_rec_buffer and the hand-over in encode_normal_packet).
THEOREM NoDriftHolds == ASSUME MaxFrames < RcFrameLimit PROVE SyncSpec => []NoDrift
PROOF
  <1>1. SyncInv => NoDrift
    BY DEF SyncInv
  <1> QED BY <1>1, SyncInvHolds, PTL

\* The decoder displays one picture per packet, that of the packet's frame,
\* which is also the reconstruction that the packet carries: a "show existing
\* frame" finds its hidden frame (encode_show_existing_packet).
THEOREM DisplaysInputHolds == ASSUME MaxFrames < RcFrameLimit PROVE SyncSpec => []DisplaysInput
PROOF
  <1>1. SyncInv => DisplaysInput
    BY DEF SyncInv
  <1> QED BY <1>1, SyncInvHolds, PTL

=============================================================================
