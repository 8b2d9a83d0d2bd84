-------------------------- MODULE EncoderPipeline --------------------------
(***************************************************************************)
(* The frame pipeline of the encoder: `Context` (src/api/context.rs) and   *)
(* `ContextInner` (src/api/internal.rs).  The application calls            *)
(* send_frame, flush and receive_packet in any order; the calls borrow the *)
(* context mutably, so they never overlap.  send_frame ends with two       *)
(* loops, keyframe placement and compute_frame_invariants: `pc` holds the  *)
(* call in those loops, and no other call starts before they end.          *)
(*                                                                         *)
(* Pixels are abstracted away.  A reference frame is the number of the     *)
(* output frame it was made from and whether it holds the original or the  *)
(* reconstructed picture.  The scene change detector, a separate crate, is *)
(* an arbitrary choice.                                                    *)
(***************************************************************************)
EXTENDS InterConfig, Sequences, FiniteSets, FiniteSetsExt, Functions

CONSTANTS
  RdoLookaheadFrames,   \* SpeedSettings::rdo_lookahead_frames
  MaxKeyFrameInterval,  \* EncoderConfig::max_key_frame_interval
  StillPicture,         \* EncoderConfig::still_picture
  SecondPass,           \* whether rc_state.ready() may answer false
  RcFrameLimit,         \* i32::MAX, the most frames rate control can count
  Params,               \* the FrameParameters an application may pass
  SceneCuts,            \* input frames the detector may take for a cut
  MaxFrames             \* bound: frames the application sends

ASSUME PipelineAssumption ==
  /\ RdoLookaheadFrames \in Nat \ {0}
  /\ MaxKeyFrameInterval \in Nat \ {0}
  /\ StillPicture \in BOOLEAN
  /\ SecondPass \in BOOLEAN
  /\ RcFrameLimit \in Nat \ {0}
  /\ Params \subseteq [key : BOOLEAN, opaque : BOOLEAN, t35 : BOOLEAN]
  /\ SceneCuts \subseteq Nat
  /\ MaxFrames \in Nat

VARIABLES
  \* Context and the input side of ContextInner
  frame_count,       \* frames accepted so far
  limit,             \* Option<u64>: the number of frames to encode
  is_flushing,
  frame_q,           \* input_frameno -> TRUE (a frame) or FALSE (the end mark)
  opaque_q,          \* input_framenos with undelivered opaque data
  t35_q,             \* input_framenos with undelivered T.35 metadata
  keyframes_forced,
  \* lookahead
  keyframes,
  next_lookahead_frame,
  next_lookahead_output_frameno,
  gop_output_frameno_start,   \* output_frameno -> first output frame of GOP
  gop_input_frameno_start,    \* output_frameno -> input frame of its keyframe
  frame_data,                 \* output_frameno -> FrameData or placeholder
  \* output side
  output_frameno,
  frames_processed,
  packet_data,       \* frames of the temporal unit being assembled
  \* control, and what the application has seen
  pc,                \* "idle", or the loop send_frame is in
  status,            \* what the last call returned
  sent,              \* the parameters of every accepted frame
  packets            \* every packet returned

inputVars  == <<frame_count, limit, is_flushing, keyframes_forced, opaque_q,
                sent>>
gopVars    == <<gop_output_frameno_start, gop_input_frameno_start>>
lookVars   == <<keyframes, next_lookahead_frame>>
outputVars == <<output_frameno, frames_processed, packet_data, packets>>
vars == <<inputVars, frame_q, t35_q, lookVars, next_lookahead_output_frameno,
          gopVars, frame_data, outputVars, pc, status>>

NoLimit == -1

-----------------------------------------------------------------------------
(* Frame data *)

\* A ReferenceFrame; `picture` stands for its pixels: the input frame they
\* show.
NoRef == [src |-> "none", output_frameno |-> 0, order_hint |-> 0, picture |-> 0]
Ref(src, n, hint, picture) ==
  [src |-> src, output_frameno |-> n, order_hint |-> hint, picture |-> picture]
EmptyRefs == [i \in REF_FRAMES |-> NoRef]

\* A slot of frame_data for an output frame that is skipped.
Placeholder == [kind |-> "placeholder"]

IsFrame(fd) == fd.kind # "placeholder"
IsCoded(fd) == fd.kind = "coded"

\* Sequence::get_relative_dist on order hints of OrderHintBits bits.
OrderHintBits == 7
get_relative_dist(a, b) ==
  LET m == 2 ^ (OrderHintBits - 1) IN ((a - b + m) % (2 * m)) - m

\* set_ref_frame_sign_bias: the references that lie in the future.
sign_bias(refs, buffer, hint) ==
  {i \in INTER_REFS : /\ buffer[refs[i]] # NoRef
                      /\ get_relative_dist(buffer[refs[i]].order_hint, hint) > 0}

\* The slots a frame overwrites: update_rec_buffer and its lookahead twin.
Refresh(buffer, slots, ref) ==
  [i \in REF_FRAMES |-> IF i \in slots THEN ref ELSE buffer[i]]

\* FrameInvariants::new_key_frame, then compute_lookahead_motion_vectors.
KeyFrameData(n, input, t35) ==
  [kind |-> "coded", frame_type |-> "KEY", input_frameno |-> input,
   show_frame |-> TRUE, order_hint |-> 0, slot |-> 0,
   refresh |-> REF_FRAMES, ref_frames |-> [i \in INTER_REFS |-> 0],
   sign_bias |-> {}, rec_buffer |-> EmptyRefs,
   lookahead_rec_buffer |-> Refresh(EmptyRefs, REF_FRAMES, Ref("orig", n, 0, input)),
   t35 |-> t35]

\* FrameInvariants::new_inter_frame from the previous coded frame, then
\* compute_lookahead_motion_vectors, which leaves the frame that is next to
\* be encoded alone and gives any other frame the original pictures of its
\* references.
InterFrameData(n, prev, in_gop, input, t35) ==
  LET idx   == get_idx_in_group_output(in_gop)
      hint  == get_order_hint(in_gop, idx)
      level == get_level(idx)
      sef   == get_show_existing_frame(idx)
      type  == IF /\ SwitchFrameInterval > 0
                  /\ in_gop % SwitchFrameInterval = 0
                  /\ level = 0
               THEN "SWITCH" ELSE "INTER"
      slot    == get_slot_idx(level, hint)
      refresh == IF type = "SWITCH" THEN REF_FRAMES
                 ELSE IF sef THEN {} ELSE {slot}
      refs == ref_frames(idx, level, hint)
  IN [kind |-> IF sef THEN "sef" ELSE "coded", frame_type |-> type,
      input_frameno |-> input, show_frame |-> get_show_frame(idx),
      order_hint |-> hint, slot |-> slot, refresh |-> refresh,
      ref_frames |-> refs,
      sign_bias |-> sign_bias(refs, prev.rec_buffer, hint),
      rec_buffer |-> IF sef \/ n = output_frameno
                     THEN prev.rec_buffer ELSE prev.lookahead_rec_buffer,
      lookahead_rec_buffer |->
        IF sef THEN EmptyRefs
        ELSE Refresh(prev.lookahead_rec_buffer, refresh,
                     Ref("orig", n, hint, input)),
      t35 |-> IF get_show_frame(idx) THEN t35 ELSE {}]

-----------------------------------------------------------------------------
(* Queries *)

needs_more_frames(n) == limit = NoLimit \/ n < limit

lookahead_end == IF DOMAIN frame_q = {} THEN 0 ELSE Max(DOMAIN frame_q)

\* Mutation: the lookahead is never long enough at the end of the stream.
needs_more_frame_q_lookahead_unlimited(n) ==
  lookahead_end < n + keyframe_lookahead_distance + 1

needs_more_frame_q_lookahead(n) ==
  /\ lookahead_end < n + keyframe_lookahead_distance + 1
  /\ needs_more_frames(lookahead_end)

\* Coded frames not yet encoded; the code stops counting at the lookahead.
ReadyFrames == {n \in DOMAIN frame_data :
                  n >= output_frameno /\ IsCoded(frame_data[n])}

needs_more_fi_lookahead ==
  /\ Cardinality(ReadyFrames) < RdoLookaheadFrames + 1
  /\ needs_more_frames(next_lookahead_frame)

HasFrame(input) == input \in DOMAIN frame_q /\ frame_q[input]

\* Mutation: the interval is measured from the frame after the keyframe.
next_keyframe_input_frameno_late(gop_start) ==
  LET next_detected == {k \in keyframes : k > gop_start}
      next_limit == IF limit = NoLimit
                    THEN gop_start + MaxKeyFrameInterval + 1
                    ELSE Min({gop_start + MaxKeyFrameInterval + 1, limit})
  IN Min(next_detected \cup {next_limit})

next_keyframe_input_frameno(gop_start) ==
  LET next_detected == {k \in keyframes : k > gop_start}
      next_limit == IF limit = NoLimit
                    THEN gop_start + MaxKeyFrameInterval
                    ELSE Min({gop_start + MaxKeyFrameInterval, limit})
  IN Min(next_detected \cup {next_limit})

\* get_previous_fi and get_previous_coded_fi.
PreviousFi(n) == Max({m \in DOMAIN frame_data :
                        m < n /\ IsFrame(frame_data[m])})
PreviousCodedFi(n) == Max({m \in DOMAIN frame_data :
                             m < n /\ IsCoded(frame_data[m])})

\* Mutation: the limit is never met.
done_processing_beyond == limit # NoLimit /\ frames_processed > limit

done_processing == limit # NoLimit /\ frames_processed = limit

-----------------------------------------------------------------------------
(* send_frame *)

\* ContextInner::new, and the limit a channel may then set.
InitWithLimit(frame_limit) ==
  /\ frame_count = 0 /\ limit = frame_limit /\ is_flushing = FALSE
  /\ frame_q = <<>> /\ opaque_q = {} /\ t35_q = {} /\ keyframes_forced = {}
  /\ keyframes = {0} /\ next_lookahead_frame = 1
  /\ next_lookahead_output_frameno = 0
  /\ gop_output_frameno_start = <<>> /\ gop_input_frameno_start = <<>>
  /\ frame_data = <<>>
  /\ output_frameno = 0 /\ frames_processed = 0 /\ packet_data = <<>>
  /\ pc = "idle" /\ status = "Ok" /\ sent = <<>> /\ packets = <<>>

Init == InitWithLimit(NoLimit)

\* A map with an entry added or replaced.
Insert(f, n, v) == [m \in DOMAIN f \cup {n} |-> IF m = n THEN v ELSE f[m]]

RefusesFrame == is_flushing \/ (StillPicture /\ frame_count > 0)

\* ContextInner::send_frame with a frame: it is queued with its parameters.
QueueFrame(params) ==
  /\ frame_count' = frame_count + 1
  /\ frame_q' = Insert(frame_q, frame_count, TRUE)
  /\ keyframes_forced' = IF params.key THEN keyframes_forced \cup {frame_count}
                                       ELSE keyframes_forced
  /\ opaque_q' = IF params.opaque THEN opaque_q \cup {frame_count} ELSE opaque_q
  /\ t35_q' = IF params.t35 THEN t35_q \cup {frame_count} ELSE t35_q
  /\ sent' = Append(sent, params)
  /\ pc' = "place"
  /\ status' = "Ok"
  /\ UNCHANGED <<lookVars, next_lookahead_output_frameno, gopVars, frame_data,
                 outputVars>>

\* ContextInner::send_frame without a frame: an end mark is queued.
QueueNone ==
  /\ frame_q' = Insert(frame_q, frame_count, FALSE)
  /\ pc' = "flush"
  /\ status' = "Ok"
  /\ UNCHANGED <<frame_count, keyframes_forced, opaque_q, sent, t35_q, lookVars,
                 next_lookahead_output_frameno, gopVars, frame_data,
                 outputVars>>

\* Context::send_frame with a frame.  The last frame that rate control could
\* count sets the limit, and is queued all the same.
SendFrame(params) ==
  /\ pc = "idle"
  /\ ~RefusesFrame
  /\ IF frame_count = RcFrameLimit - 1
     THEN limit' = frame_count /\ is_flushing' = TRUE
     ELSE UNCHANGED <<limit, is_flushing>>
  /\ QueueFrame(params)

SendFrameRefused ==
  /\ pc = "idle"
  /\ RefusesFrame
  /\ status' = "EnoughData"
  /\ UNCHANGED <<inputVars, frame_q, t35_q, lookVars, gopVars, frame_data,
                 next_lookahead_output_frameno, outputVars, pc>>

\* Context::flush, which is send_frame(None); a second one does nothing.
Flush ==
  /\ pc = "idle"
  /\ ~is_flushing
  /\ limit' = frame_count
  /\ is_flushing' = TRUE
  /\ QueueNone

FlushAgain ==
  /\ pc = "idle"
  /\ is_flushing
  /\ status' = "Ok"
  /\ UNCHANGED <<inputVars, frame_q, t35_q, lookVars, gopVars, frame_data,
                 next_lookahead_output_frameno, outputVars, pc>>

\* The frames a keyframe decision may look at.
LookaheadFrames == {n \in DOMAIN frame_q :
                      n >= next_lookahead_frame - 1 /\ frame_q[n]}

\* What the scene change detector may say of a frame: at a possible cut,
\* anything.
AnalyzeNextFrame(n) == IF n \in SceneCuts THEN BOOLEAN ELSE {FALSE}

\* Mutation: an overridden frame type is left to the detector.
compute_keyframe_placement_unforced ==
  /\ \E cut \in AnalyzeNextFrame(next_lookahead_frame) :
        keyframes' = IF cut THEN keyframes \cup {next_lookahead_frame}
                            ELSE keyframes
  /\ next_lookahead_frame' = next_lookahead_frame + 1

compute_keyframe_placement ==
  /\ \E cut \in IF next_lookahead_frame \in keyframes_forced
                THEN {TRUE} ELSE AnalyzeNextFrame(next_lookahead_frame) :
        keyframes' = IF cut THEN keyframes \cup {next_lookahead_frame}
                            ELSE keyframes
  /\ next_lookahead_frame' = next_lookahead_frame + 1

\* After a frame: one decision, if the lookahead is full.
PlaceKeyframe ==
  /\ pc = "place"
  /\ pc' = "invariants"
  /\ IF needs_more_frame_q_lookahead(next_lookahead_frame)
     THEN UNCHANGED lookVars
     ELSE compute_keyframe_placement
  /\ UNCHANGED <<inputVars, frame_q, t35_q, next_lookahead_output_frameno,
                 gopVars, frame_data, outputVars, status>>

\* After an end mark, if the lookahead is full: a decision for every frame
\* left.
StartRemaining ==
  /\ pc = "flush"
  /\ pc' = IF needs_more_frame_q_lookahead(next_lookahead_frame)
           THEN "invariants" ELSE "remaining"
  /\ UNCHANGED <<inputVars, frame_q, t35_q, lookVars, gopVars, frame_data,
                 next_lookahead_output_frameno, outputVars, status>>

\* Mutation: the decision about the last frame is left out.
PlaceRemainingButLast ==
  /\ pc = "remaining"
  /\ IF Cardinality(LookaheadFrames) < 3
     THEN pc' = "invariants" /\ UNCHANGED lookVars
     ELSE compute_keyframe_placement /\ UNCHANGED pc
  /\ UNCHANGED <<inputVars, frame_q, t35_q, next_lookahead_output_frameno,
                 gopVars, frame_data, outputVars, status>>

PlaceRemainingKeyframes ==
  /\ pc = "remaining"
  /\ IF Cardinality(LookaheadFrames) < 2
     THEN pc' = "invariants" /\ UNCHANGED lookVars
     ELSE compute_keyframe_placement /\ UNCHANGED pc
  /\ UNCHANGED <<inputVars, frame_q, t35_q, next_lookahead_output_frameno,
                 gopVars, frame_data, outputVars, status>>

-----------------------------------------------------------------------------
(* compute_frame_invariants: one round of its loop builds the frame data of *)
(* one output frame (set_frame_properties, build_frame_properties).         *)

NextOut == next_lookahead_output_frameno

\* The GOP the previous output frame belongs to.
GopOut == IF NextOut = 0 THEN 0 ELSE gop_output_frameno_start[NextOut - 1]
GopIn  == IF NextOut = 0 THEN 0 ELSE gop_input_frameno_start[NextOut - 1]

InGop == NextOut - GopOut
WantedInput == get_input_frameno(InGop, GopIn)
NextKeyframe == next_keyframe_input_frameno(GopIn)

\* The position belongs to the next GOP, or to nobody.
PastKeyframe == InGop > 0 /\ WantedInput >= NextKeyframe

\* Mutation: the next keyframe is coded at the end of the group even though
\* frames before it have not been output.
GopCompleteEarly ==
  \/ ~reorder
  \/ (InGop - 1) % group_output_len = 0

\* Mutation: the keyframe itself is waited for.
GopCompleteOffByOne ==
  \/ ~reorder
  \/ /\ (InGop - 1) % group_output_len = 0
     /\ frame_data[PreviousFi(NextOut)].input_frameno = NextKeyframe

\* Every frame before the keyframe has been output.
GopComplete ==
  \/ ~reorder
  \/ /\ (InGop - 1) % group_output_len = 0
     /\ frame_data[PreviousFi(NextOut)].input_frameno = NextKeyframe - 1

StartsGop == \/ InGop = 0
             \/ PastKeyframe /\ GopComplete
             \/ ~PastKeyframe /\ WantedInput \in keyframes
KeyInput == IF PastKeyframe THEN NextKeyframe ELSE WantedInput

\* The source frame a new FrameData needs, where it needs one.
SourceMissing ==
  IF StartsGop THEN ~HasFrame(KeyInput)
  ELSE ~PastKeyframe /\ ~HasFrame(WantedInput)

\* T.35 metadata is taken from the queue by the position's input frame,
\* before the frame that will occupy the position is known.
T35Taken == {WantedInput} \cap t35_q

InsertGop(out, in) ==
  /\ gop_output_frameno_start' = Insert(gop_output_frameno_start, NextOut, out)
  /\ gop_input_frameno_start' = Insert(gop_input_frameno_start, NextOut, in)

InsertFrameData(fd) ==
  /\ frame_data' = Insert(frame_data, NextOut, fd)
  /\ next_lookahead_output_frameno' = NextOut + 1
  /\ t35_q' = t35_q \ T35Taken
  /\ UNCHANGED <<inputVars, frame_q, lookVars, outputVars, pc, status>>

\* build_frame_properties returns NeedMoreData: the loop and the call end.
InvariantsDone ==
  /\ pc = "invariants"
  /\ pc' = "idle"
  /\ InsertGop(GopOut, GopIn)
  /\ \/ needs_more_frame_q_lookahead(WantedInput) /\ UNCHANGED t35_q
     \/ /\ ~needs_more_frame_q_lookahead(WantedInput)
        /\ SourceMissing
        /\ t35_q' = t35_q \ T35Taken
  /\ UNCHANGED <<inputVars, frame_q, lookVars, next_lookahead_output_frameno,
                 frame_data, outputVars, status>>

BuildsFrame ==
  /\ pc = "invariants"
  /\ ~needs_more_frame_q_lookahead(WantedInput)
  /\ ~SourceMissing

BuildKeyFrame ==
  /\ BuildsFrame
  /\ StartsGop
  /\ InsertGop(NextOut, KeyInput)
  /\ InsertFrameData(KeyFrameData(NextOut, KeyInput, T35Taken))

BuildPlaceholder ==
  /\ BuildsFrame
  /\ ~StartsGop /\ PastKeyframe
  /\ InsertGop(GopOut, GopIn)
  /\ InsertFrameData(Placeholder)

BuildInterFrame ==
  /\ BuildsFrame
  /\ ~StartsGop /\ ~PastKeyframe
  /\ InsertGop(GopOut, GopIn)
  /\ InsertFrameData(InterFrameData(NextOut,
                                    frame_data[PreviousCodedFi(NextOut)],
                                    InGop, WantedInput, T35Taken))

-----------------------------------------------------------------------------
(* receive_packet *)

\* The next output frame that is not a placeholder, if any.
NextFrames == {n \in DOMAIN frame_data :
                 n >= output_frameno /\ IsFrame(frame_data[n])}
Current == Min(NextFrames)

\* rc_state.ready(): always, but in the second pass of a two-pass encode.
RcReady == IF SecondPass THEN BOOLEAN ELSE {TRUE}

\* The early returns of receive_packet and encode_packet, in their order.
Refusal(ready) ==
  IF done_processing THEN "LimitReached"
  ELSE IF needs_more_fi_lookahead \/ NextFrames = {} THEN "NeedMoreData"
  ELSE IF ~needs_more_frames(frame_data[Current].input_frameno)
       THEN "LimitReached"
  ELSE IF /\ IsCoded(frame_data[Current])
          /\ ~HasFrame(frame_data[Current].input_frameno)
       THEN "NeedMoreData"
  ELSE IF ~ready THEN "NotReady"
  ELSE "no"

\* A refused call may still have skipped placeholders.
ReceiveRefused(ready) ==
  /\ pc = "idle"
  /\ Refusal(ready) # "no"
  /\ status' = Refusal(ready)
  /\ output_frameno' = IF \/ done_processing \/ needs_more_fi_lookahead
                          \/ NextFrames = {}
                       THEN output_frameno ELSE Current
  /\ UNCHANGED <<inputVars, frame_q, t35_q, lookVars, gopVars, frame_data,
                 next_lookahead_output_frameno, frames_processed, packet_data,
                 packets, pc>>

\* The reconstruction of an encoded frame.
Reconstruction(n) == Ref("rec", n, frame_data[n].order_hint,
                         frame_data[n].input_frameno)

\* What encode_frame and encode_show_existing_frame put into the bitstream:
\* the header fields a decoder acts on, and the pictures the encoder
\* predicted from (`uses`).
BitstreamFrame(n) ==
  LET fd == frame_data[n]
  IN [output_frameno |-> n, input_frameno |-> fd.input_frameno,
      sef |-> ~IsCoded(fd), frame_type |-> fd.frame_type,
      show_frame |-> fd.show_frame, order_hint |-> fd.order_hint,
      slot |-> fd.slot, refresh |-> fd.refresh, ref_frames |-> fd.ref_frames,
      sign_bias |-> fd.sign_bias,
      uses |-> [i \in INTER_REFS |-> fd.rec_buffer[fd.ref_frames[i]]],
      t35 |-> fd.t35]

\* Mutation: only the SEFs before the next coded frame get the buffer.
SubsequentSefs(n) ==
  LET later == {m \in DOMAIN frame_data : m > n /\ IsFrame(frame_data[m])}
  IN {m \in later : \A k \in later : k <= m => ~IsCoded(frame_data[k])}

\* Later frames that receive the reference buffer of the frame just encoded:
\* the SEFs before the next coded frame and that frame, up to a keyframe.
Subsequent(n) ==
  LET later == {m \in DOMAIN frame_data : m > n /\ IsFrame(frame_data[m])}
  IN {m \in later : /\ frame_data[m].frame_type # "KEY"
                    /\ \A k \in later : k < m => ~IsCoded(frame_data[k])}

\* frame_data after a coded frame: update_rec_buffer on its own entry, a copy
\* in the subsequent ones.
AfterEncode(n) ==
  LET fd  == frame_data[n]
      buf == Refresh(fd.rec_buffer, fd.refresh, Reconstruction(n))
  IN [m \in DOMAIN frame_data |->
        IF m = n THEN [fd EXCEPT !.rec_buffer = buf]
        ELSE IF m \in Subsequent(n)
        THEN [frame_data[m] EXCEPT
                !.rec_buffer = buf,
                !.sign_bias = sign_bias(frame_data[m].ref_frames, buf,
                                        frame_data[m].order_hint)]
        ELSE frame_data[m]]

\* Mutation: frames are dropped once their keyframe decision is taken.
GarbageCollectInputAnalysed(input) ==
  frame_q' = IF input = 0 THEN frame_q
             ELSE Restrict(frame_q, {n \in DOMAIN frame_q :
                                       n >= next_lookahead_frame})

\* garbage_collect: drop the frames before the packet's, and the frame data
\* before the last encoded frame.
GarbageCollectInput(input) ==
  frame_q' = IF input = 0 THEN frame_q
             ELSE Restrict(frame_q, {n \in DOMAIN frame_q : n >= input})

GarbageCollectOutput(input, fds) ==
  LET kept(f) == IF input = 0 \/ output_frameno' < 2 THEN f
                 ELSE Restrict(f, {n \in DOMAIN f : n >= output_frameno' - 1})
  IN /\ frame_data' = kept(fds)
     /\ gop_output_frameno_start' = kept(gop_output_frameno_start)
     /\ gop_input_frameno_start' = kept(gop_input_frameno_start)

\* Mutation: opaque data is looked up by output frame number.
EmitPacketByOutput(n, rec, fds) ==
  LET input == frame_data[n].input_frameno
  IN /\ packets' = Append(packets,
           [input_frameno |-> input, frame_type |-> frame_data[n].frame_type,
            rec |-> rec, opaque |-> n \in opaque_q,
            tu |-> Append(packet_data, BitstreamFrame(n))])
     /\ packet_data' = <<>>
     /\ frames_processed' = frames_processed + 1
     /\ opaque_q' = opaque_q \ {n}
     /\ GarbageCollectInput(input)
     /\ GarbageCollectOutput(input, fds)
     /\ status' = "Packet"

\* finalize_packet, garbage_collect and the delivery of the opaque data.
EmitPacket(n, rec, fds) ==
  LET input == frame_data[n].input_frameno
  IN /\ packets' = Append(packets,
           [input_frameno |-> input, frame_type |-> frame_data[n].frame_type,
            rec |-> rec, opaque |-> input \in opaque_q,
            tu |-> Append(packet_data, BitstreamFrame(n))])
     /\ packet_data' = <<>>
     /\ frames_processed' = frames_processed + 1
     /\ opaque_q' = opaque_q \ {input}
     /\ GarbageCollectInput(input)
     /\ GarbageCollectOutput(input, fds)
     /\ status' = "Packet"

\* encode_show_existing_packet
EncodeShowExisting(ready) ==
  /\ pc = "idle"
  /\ Refusal(ready) = "no"
  /\ ~IsCoded(frame_data[Current])
  /\ output_frameno' = Current + 1
  /\ EmitPacket(Current, frame_data[Current].rec_buffer[frame_data[Current].slot],
                frame_data)
  /\ UNCHANGED <<frame_count, limit, is_flushing, keyframes_forced, sent, t35_q,
                 lookVars, next_lookahead_output_frameno, pc>>

\* encode_normal_packet of a shown frame
EncodeShown(ready) ==
  /\ pc = "idle"
  /\ Refusal(ready) = "no"
  /\ IsCoded(frame_data[Current]) /\ frame_data[Current].show_frame
  /\ output_frameno' = Current + 1
  /\ EmitPacket(Current, Reconstruction(Current), AfterEncode(Current))
  /\ UNCHANGED <<frame_count, limit, is_flushing, keyframes_forced, sent, t35_q,
                 lookVars, next_lookahead_output_frameno, pc>>

\* encode_normal_packet of a hidden frame: no packet yet
EncodeHidden(ready) ==
  /\ pc = "idle"
  /\ Refusal(ready) = "no"
  /\ IsCoded(frame_data[Current]) /\ ~frame_data[Current].show_frame
  /\ output_frameno' = Current + 1
  /\ packet_data' = Append(packet_data, BitstreamFrame(Current))
  /\ frame_data' = AfterEncode(Current)
  /\ status' = "Encoded"
  /\ UNCHANGED <<inputVars, frame_q, t35_q, lookVars, gopVars,
                 next_lookahead_output_frameno, frames_processed, packets, pc>>

ReceivePacket(ready) ==
  \/ ReceiveRefused(ready)
  \/ EncodeShowExisting(ready)
  \/ EncodeShown(ready)
  \/ EncodeHidden(ready)

SendFrameReturns ==
  \/ PlaceKeyframe \/ StartRemaining \/ PlaceRemainingKeyframes
  \/ InvariantsDone \/ BuildKeyFrame \/ BuildPlaceholder \/ BuildInterFrame

Next ==
  \/ frame_count < MaxFrames /\ \E params \in Params : SendFrame(params)
  \/ SendFrameRefused
  \/ Flush \/ FlushAgain
  \/ SendFrameReturns
  \/ \E ready \in RcReady : ReceivePacket(ready)

Spec == Init /\ [][Next]_vars

\* The application keeps calling receive_packet, as the loop of
\* Context::receive_packet's documentation does, and a call that has started
\* runs to its end.
FairSpec == Spec /\ WF_vars(SendFrameReturns) /\ WF_vars(ReceivePacket(TRUE))

-----------------------------------------------------------------------------
(* Correctness *)

RefType == [src : {"none", "orig", "rec"}, output_frameno : Nat,
            order_hint : Nat, picture : Nat]

FrameDataType ==
  [kind : {"coded", "sef"}, frame_type : {"KEY", "INTER", "SWITCH"},
   input_frameno : Nat, show_frame : BOOLEAN, order_hint : Nat,
   slot : REF_FRAMES, refresh : SUBSET REF_FRAMES,
   ref_frames : [INTER_REFS -> REF_FRAMES], sign_bias : SUBSET INTER_REFS,
   rec_buffer : [REF_FRAMES -> RefType],
   lookahead_rec_buffer : [REF_FRAMES -> RefType], t35 : SUBSET Nat]

\* The type invariant: every map is keyed by frame numbers, every FrameData
\* is well formed (slots are among the eight an AV1 decoder has).
TypeOK ==
  /\ frame_count \in Nat
  /\ limit \in Nat \cup {NoLimit}
  /\ is_flushing \in BOOLEAN
  /\ DOMAIN frame_q \subseteq Nat
  /\ \A n \in DOMAIN frame_q : frame_q[n] \in BOOLEAN
  /\ opaque_q \subseteq Nat
  /\ t35_q \subseteq Nat
  /\ keyframes_forced \subseteq Nat
  /\ keyframes \subseteq Nat
  /\ next_lookahead_frame \in Nat \ {0}
  /\ next_lookahead_output_frameno \in Nat
  /\ DOMAIN gop_output_frameno_start \subseteq Nat
  /\ \A n \in DOMAIN gop_output_frameno_start :
        gop_output_frameno_start[n] \in 0 .. n
  /\ DOMAIN gop_input_frameno_start \subseteq Nat
  /\ \A n \in DOMAIN gop_input_frameno_start :
        gop_input_frameno_start[n] \in Nat
  /\ DOMAIN frame_data \subseteq Nat
  /\ \A n \in DOMAIN frame_data :
        frame_data[n] = Placeholder \/ frame_data[n] \in FrameDataType
  /\ output_frameno \in Nat
  /\ frames_processed \in Nat
  /\ pc \in {"idle", "place", "flush", "remaining", "invariants"}
  /\ status \in {"Ok", "EnoughData", "NeedMoreData", "LimitReached", "NotReady",
                 "Encoded", "Packet"}

\* Packets come out in display order, one per frame: re-ordering, hidden
\* frames, skipped positions and keyframes never lose, repeat or swap a
\* frame (finalize_packet numbers packets by fi.input_frameno).
InDisplayOrder ==
  \A i \in DOMAIN packets : packets[i].input_frameno = i - 1

\* After flush() the encoder never asks for data again: what it holds is
\* enough to finish (needs_more_fi_lookahead, receive_packet).
NeverStarvedAfterFlush == is_flushing => status # "NeedMoreData"

\* A frame sent with FrameTypeOverride::Key comes out as a keyframe, however
\* it falls into a re-ordering group.
ForcedKeyframesHonoured ==
  \A i \in DOMAIN packets : sent[i].key => packets[i].frame_type = "KEY"

\* No run of MaxKeyFrameInterval packets after a keyframe is without
\* another one, and the stream starts with one
\* (next_keyframe_input_frameno).
KeyframeIntervalRespected ==
  \A i \in DOMAIN packets :
    \E k \in DOMAIN packets :
      k <= i /\ i - k < MaxKeyFrameInterval /\ packets[k].frame_type = "KEY"

\* The opaque data of a packet is that of its own frame (opaque_q).
OpaqueDelivered ==
  \A i \in DOMAIN packets : packets[i].opaque = sent[i].opaque

\* The keyframe decision about a frame, and about every frame before it,
\* has been taken when its FrameInvariants are built: a later decision
\* would come too late (needs_more_frame_q_lookahead).
DecidedBeforeBuilt ==
  \A n \in DOMAIN frame_data :
    IsFrame(frame_data[n]) =>
      frame_data[n].input_frameno < next_lookahead_frame

\* Nothing that is still needed has been collected or is missing: the
\* lookups that the code unwraps or asserts.  In build_frame_properties the
\* previous GOP entry and the previous frames; in compute_block_importances,
\* for each later coded frame of the RDO lookahead, its source frame, its at
\* most 3 distinct references, never the frame itself.
NeededIsResident ==
  /\ pc = "invariants" /\ NextOut > 0 =>
       /\ NextOut - 1 \in DOMAIN gop_output_frameno_start
       /\ NextOut - 1 \in DOMAIN gop_input_frameno_start
       /\ \E m \in DOMAIN frame_data : m < NextOut /\ IsCoded(frame_data[m])
  /\ \A n \in ReadyFrames :
       n # Min(ReadyFrames) /\ frame_data[n].frame_type # "KEY" =>
         LET refs == Range(frame_data[n].ref_frames)
         IN /\ HasFrame(frame_data[n].input_frameno)
            /\ Cardinality(refs) <= 3
            /\ \A r \in refs :
                 LET ref == frame_data[n].rec_buffer[r]
                 IN ref # NoRef /\ ref.output_frameno # n

\* The lookahead never runs away from the input: it lays out at most one
\* group of output positions for each frame accepted, whatever cuts the
\* groups short, so that the loop of compute_frame_invariants, and with it
\* send_frame, comes to an end.
LookaheadEnds == next_lookahead_output_frameno <= group_output_len * frame_count

\* A packet carries the T.35 metadata of its own frame and no other (t35_q).
T35Delivered ==
  \A i \in DOMAIN packets :
    UNION {packets[i].tu[j].t35 : j \in DOMAIN packets[i].tu}
      = IF sent[i].t35 THEN {i - 1} ELSE {}

\* Every accepted frame is output once the application has flushed.
FlushCompletes ==
  is_flushing ~> (Len(packets) = frame_count /\ status = "LimitReached")

\* The pipeline implements the in-order frame service.
Service == INSTANCE FrameService WITH
  submitted <- frame_count,
  closed    <- is_flushing,
  delivered <- [i \in DOMAIN packets |-> packets[i].input_frameno]

\* Seen from outside, the encoder is the service: the lookahead, re-ordering
\* and garbage collection never show, and a closed stream is delivered to
\* its last frame.
ImplementsService == Service!Spec

=============================================================================
