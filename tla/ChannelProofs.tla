--------------------------- MODULE ChannelProofs ---------------------------
(***************************************************************************)
(* The single encoder channel as an application of the frame pipeline: in  *)
(* a one-pass encode or in a first pass, for every configuration, every    *)
(* channel size and every order of the application's steps, what the task  *)
(* does to its ContextInner is what an application of Context may do, so   *)
(* that the theorems about the pipeline hold in the channel too.           *)
(***************************************************************************)
EXTENDS ChannelEncoder, EncoderPipelineProofs

\* The encodes the theorems are about: no summary was given, the application
\* sends frames only, and fewer of them than rate control can count.
FirstPass ==
  ~SecondPass /\ ~SendsNone /\ ~StillPicture /\ MaxFrames < RcFrameLimit

-----------------------------------------------------------------------------
(* The inductive invariant *)

\* The frame in hand has not been given to the encoder.
Holding == task = "drain" \/ (task = "panic" /\ ~is_flushing)

\* Where the task is, and where its call of send_frame is.
TaskInv ==
  /\ task \in {"recv", "drain", "sending", "flushing", "final", "done", "panic"}
  /\ task \in {"sending", "flushing"} <=> pc # "idle"
  /\ task \in {"recv", "drain", "sending"} => ~is_flushing
  /\ task \in {"flushing", "final", "done"} => is_flushing

\* Every frame sent is in the channel, in hand or with the encoder.
CountInv ==
  /\ input \in Seq(FrameInputs)
  /\ Holding => in_hand \in FrameInputs
  /\ sender_count \in Nat /\ sender_count <= MaxFrames
  /\ frame_count + Len(input) + (IF Holding THEN 1 ELSE 0) = sender_count

ChanInv ==
  /\ TaskInv /\ CountInv
  /\ dropped \subseteq {"frames"} \cup Quits
  /\ PanicsOnlyIfAbandoned

\* What can be in the frame channel.
LEMMA InputFacts ==
  ASSUME FirstPass
  PROVE  /\ FrameInputs = [frame : {TRUE}, params : Params]
         /\ \A f \in FrameInputs : f.frame = TRUE /\ f.params \in Params
PROOF
  <1>1. FrameInputs = [frame : {TRUE}, params : Params]
    BY DEF FirstPass, FrameInputs
  <1> QED BY <1>1

\* The initial state is one of the pipeline.
LEMMA ChanInitInv == ASSUME FirstPass, ChanInit PROVE Init /\ ChanInv
PROOF
  <1>1. Init
    BY DEF FirstPass, ChanInit, Init
  <1>2. /\ task = "recv" /\ input = <<>> /\ sender_count = 0 /\ dropped = {}
        /\ pc = "idle" /\ is_flushing = FALSE /\ frame_count = 0
    BY DEF ChanInit, InitWithLimit
  <1>3. TaskInv /\ PanicsOnlyIfAbandoned
    BY <1>2 DEF TaskInv, PanicsOnlyIfAbandoned
  <1>4. CountInv
    BY <1>2, PipelineAssumption DEF CountInv, Holding
  <1> QED BY <1>1, <1>2, <1>3, <1>4 DEF ChanInv

-----------------------------------------------------------------------------
(* The steps *)

\* The task polls the encoder when it has a frame: the answer is one that its
\* loops handle.
LEMMA PollFacts ==
  ASSUME FirstPass, PipelineInv, ChanInv, Poll
  PROVE  /\ ReceivePacket(TRUE)
         /\ status' \in {"Packet", "Encoded"} \cup (IF task = "final" THEN {"LimitReached"} ELSE {})
PROOF
  <1>1. /\ Polling /\ ReceivePacket(SecondPass => rc.ready) /\ (SecondPass => rc.ready) = TRUE
    BY DEF Poll, FirstPass
  <1>2. ReceivePacket(TRUE)
    BY <1>1
  <1>3. (status' = Refusal(TRUE) /\ Refusal(TRUE) # "no") \/ status' \in {"Packet", "Encoded"}
    BY <1>2 DEF ReceivePacket, ReceiveRefused, EncodeShowExisting, EncodeShown, EncodeHidden,
                EmitPacket
  <1>4. Refusal(TRUE) \in {"no", "LimitReached", "NeedMoreData"}
    BY DEF Refusal
  <1>5. CASE task = "final"
    <2>1. is_flushing /\ pc = "idle"
      BY <1>5 DEF ChanInv, TaskInv
    <2>2. Refusal(TRUE) # "NeedMoreData"
      BY <2>1, FlushedNeverStarved
    <2> QED BY <1>2, <1>3, <1>4, <1>5, <2>2
  <1>6. CASE task = "drain"
    <2>1. ~is_flushing /\ pc = "idle" /\ ~needs_more_fi_lookahead
      BY <1>1, <1>6 DEF ChanInv, TaskInv, Polling
    <2>2. limit = NoLimit
      BY <2>1 DEF PipelineInv, CallsInv
    <2>3. ~done_processing /\ \A n : needs_more_frames(n)
      BY <2>2 DEF done_processing, needs_more_frames
    <2>4. NextFrames # {}
      <3>1. ~(Cardinality(ReadyFrames) < RdoLookaheadFrames + 1)
        BY <2>1, <2>3 DEF needs_more_fi_lookahead
      <3>2. ReadyFrames # {}
        BY <3>1, FS_EmptySet, PipelineAssumption
      <3> QED BY <3>2 DEF ReadyFrames, NextFrames, IsCoded, IsFrame
    <2>5. /\ Current \in DOMAIN frame_data /\ (Current = 0 \/ Current - 1 \in DOMAIN frame_data)
          /\ IsFrame(frame_data[Current]) /\ Due(Current) = Len(packets)
      BY <2>4, CurrentFacts
    <2>6. TypeOK /\ HistoryInv /\ CallsInv /\ QueueInv /\ ResidentInv /\ PositionsInv /\ PacketsInv
      BY DEF PipelineInv
    <2>7. /\ frame_data[Current].input_frameno \in Nat
          /\ frame_data[Current].input_frameno >= Len(packets)
          /\ frame_data[Current].input_frameno < frame_count
      BY <2>5, <2>6, PositionDue
    <2>8. HasFrame(frame_data[Current].input_frameno)
      BY <2>6, <2>7, QueueFacts
    <2>9. Refusal(TRUE) = "no"
      BY <2>1, <2>3, <2>4, <2>8 DEF Refusal
    <2> QED BY <1>2, <1>3, <1>6, <2>9
  <1> QED BY <1>1, <1>5, <1>6 DEF Polling

\* A step of the channel is a step of an application of the pipeline, or none.
LEMMA ChanStep ==
  ASSUME FirstPass, PipelineInv, ChanInv, [ChanNext]_chanVars
  PROVE  [Next]_vars
PROOF
  <1>0. /\ frame_count \in Nat /\ MaxFrames \in Nat /\ RcFrameLimit \in Nat
        /\ MaxFrames < RcFrameLimit /\ Len(input) \in Nat
    BY PipelineAssumption DEF PipelineInv, TypeOK, FirstPass, ChanInv, CountInv
  <1>1. CASE \/ \E f \in FrameInputs : AppSend(f)
             \/ AppSendPassData
             \/ \E e \in {"frames", "packets", "pass1", "pass2"} : AppDrops(e)
             \/ ReceiveFrame \/ Ended \/ UNCHANGED chanVars
    BY <1>1 DEF AppSend, AppSendPassData, AppDrops, ReceiveFrame, Ended, chanVars
  <1>2. CASE InputEnds
    <2>1. pc = "idle" /\ ~is_flushing
      BY <1>2 DEF InputEnds, ChanInv, TaskInv
    <2>2. Flush
      BY <1>2, <2>1 DEF InputEnds, Flush
    <2> QED BY <2>2 DEF Next
  <1>3. CASE HandOver
    <2>1. task = "drain" /\ pc = "idle" /\ ~is_flushing /\ Holding
      BY <1>3 DEF HandOver, ChanInv, TaskInv, Holding
    <2>2. in_hand.frame /\ in_hand.params \in Params
      BY <2>1, InputFacts DEF ChanInv, CountInv
    <2>3. frame_count + Len(input) + 1 = sender_count /\ sender_count <= MaxFrames
      BY <2>1 DEF ChanInv, CountInv
    <2>4. frame_count < MaxFrames /\ frame_count # RcFrameLimit - 1
      BY <1>0, <2>3
    <2>5. SendFrame(in_hand.params)
      BY <1>3, <2>1, <2>2, <2>4 DEF HandOver, SendFrame, RefusesFrame, FirstPass
    <2> QED BY <2>2, <2>4, <2>5 DEF Next
  <1>4. CASE SendFrameRuns
    BY <1>4 DEF SendFrameRuns, Next
  <1>5. CASE FeedPassData
    BY <1>5 DEF FeedPassData
  <1>6. CASE Poll
    <2>1. ReceivePacket(TRUE)
      BY <1>6, PollFacts
    <2>2. TRUE \in RcReady
      BY DEF RcReady
    <2> QED BY <2>1, <2>2 DEF Next
  <1> QED BY <1>1, <1>2, <1>3, <1>4, <1>5, <1>6 DEF ChanNext, TaskStep

\* A step that leaves the frames and the task alone.
LEMMA CountKept ==
  ASSUME TaskInv, CountInv, input' = input, sender_count' = sender_count,
         in_hand' = in_hand, frame_count' = frame_count, is_flushing' = is_flushing,
         Holding' = Holding
  PROVE  CountInv'
PROOF
  BY DEF CountInv

\* Every step preserves the invariant.
LEMMA ChanNextInv ==
  ASSUME FirstPass, PipelineInv, ChanInv, [ChanNext]_chanVars
  PROVE  ChanInv'
PROOF
  <1>0. /\ frame_count \in Nat /\ MaxFrames \in Nat /\ input \in Seq(FrameInputs)
        /\ sender_count \in Nat /\ Len(input) \in Nat /\ is_flushing \in BOOLEAN
        /\ TaskInv /\ CountInv /\ dropped \subseteq {"frames"} \cup Quits
        /\ PanicsOnlyIfAbandoned
    BY PipelineAssumption DEF PipelineInv, TypeOK, ChanInv, CountInv
  <1>1. ASSUME NEW f \in FrameInputs, AppSend(f) PROVE ChanInv'
    <2>1. /\ input' = Append(input, f) /\ sender_count' = sender_count + 1
          /\ sender_count < MaxFrames
          /\ UNCHANGED <<task, in_hand, dropped>>
      BY <1>1 DEF AppSend
    <2>2. UNCHANGED <<pc, is_flushing, frame_count>>
      BY <1>1 DEF AppSend, vars, inputVars
    <2>3. input' \in Seq(FrameInputs) /\ Len(input') = Len(input) + 1
      BY <1>0, <2>1
    <2>4. CountInv'
      BY <1>0, <2>1, <2>2, <2>3 DEF CountInv, Holding
    <2>5. TaskInv' /\ PanicsOnlyIfAbandoned'
      BY <1>0, <2>1, <2>2 DEF TaskInv, PanicsOnlyIfAbandoned
    <2> QED BY <1>0, <2>1, <2>4, <2>5 DEF ChanInv
  <1>2. CASE AppSendPassData \/ FeedPassData
    BY <1>2 DEF FirstPass, AppSendPassData, FeedPassData, NeedsPassData
  <1>3. ASSUME NEW e \in {"frames", "packets", "pass1", "pass2"}, AppDrops(e) PROVE ChanInv'
    <2>1. /\ dropped' = dropped \cup {e} /\ e \in {"frames"} \cup Quits
          /\ UNCHANGED <<task, in_hand, input, sender_count>>
      BY <1>3 DEF AppDrops, FirstPass
    <2>2. UNCHANGED <<pc, is_flushing, frame_count>>
      BY <1>3 DEF AppDrops, vars, inputVars
    <2>3. Holding' = Holding
      BY <2>1, <2>2 DEF Holding
    <2>4. CountInv'
      BY <1>0, <2>1, <2>2, <2>3, CountKept
    <2>5. TaskInv' /\ PanicsOnlyIfAbandoned'
      BY <1>0, <2>1, <2>2 DEF TaskInv, PanicsOnlyIfAbandoned
    <2> QED BY <1>0, <2>1, <2>4, <2>5 DEF ChanInv
  <1>4. CASE ReceiveFrame
    <2>1. /\ task = "recv" /\ task' = "drain" /\ input # <<>> /\ in_hand' = Head(input)
          /\ input' = Tail(input) /\ UNCHANGED <<sender_count, dropped>>
      BY <1>4 DEF ReceiveFrame
    <2>2. UNCHANGED <<pc, is_flushing, frame_count>>
      BY <1>4 DEF ReceiveFrame, vars, inputVars
    <2>3. /\ input' \in Seq(FrameInputs) /\ Len(input') = Len(input) - 1
          /\ in_hand' \in FrameInputs
      BY <1>0, <2>1
    <2>4. ~Holding /\ Holding'
      BY <2>1 DEF Holding
    <2>5. CountInv'
      BY <1>0, <2>1, <2>2, <2>3, <2>4 DEF CountInv
    <2>6. TaskInv' /\ PanicsOnlyIfAbandoned'
      BY <1>0, <2>1, <2>2 DEF TaskInv, PanicsOnlyIfAbandoned
    <2> QED BY <1>0, <2>1, <2>5, <2>6 DEF ChanInv
  <1>5. CASE InputEnds
    <2>1. /\ task = "recv" /\ task' = "flushing" /\ is_flushing' = TRUE
          /\ UNCHANGED <<in_hand, input, sender_count, dropped>>
      BY <1>5 DEF InputEnds, endpointVars
    <2>2. pc' = "flush" /\ frame_count' = frame_count
      BY <1>5 DEF InputEnds, QueueNone
    <2>3. ~Holding /\ ~Holding'
      BY <2>1 DEF Holding
    <2>4. CountInv'
      BY <1>0, <2>1, <2>2, <2>3 DEF CountInv
    <2>5. TaskInv' /\ PanicsOnlyIfAbandoned'
      BY <1>0, <2>1, <2>2 DEF TaskInv, PanicsOnlyIfAbandoned
    <2> QED BY <1>0, <2>1, <2>4, <2>5 DEF ChanInv
  <1>6. CASE HandOver
    <2>1. /\ task = "drain" /\ task' = "sending"
          /\ UNCHANGED <<is_flushing, in_hand, input, sender_count, dropped>>
      BY <1>6 DEF HandOver, endpointVars
    <2>2. Holding /\ ~Holding'
      BY <2>1 DEF Holding
    <2>3. in_hand.frame
      BY <1>0, <2>2, InputFacts DEF CountInv
    <2>4. pc' = "place" /\ frame_count' = frame_count + 1
      BY <1>6, <2>3 DEF HandOver, QueueFrame
    <2>5. CountInv'
      BY <1>0, <2>1, <2>2, <2>4 DEF CountInv
    <2>6. TaskInv' /\ PanicsOnlyIfAbandoned'
      BY <1>0, <2>1, <2>4 DEF TaskInv, PanicsOnlyIfAbandoned
    <2> QED BY <1>0, <2>1, <2>5, <2>6 DEF ChanInv
  <1>7. CASE SendFrameRuns
    <2>1. /\ pc # "idle" /\ UNCHANGED <<frame_count, is_flushing>>
      BY <1>7 DEF SendFrameRuns, SendFrameReturns, PlaceKeyframe, StartRemaining,
                  PlaceRemainingKeyframes, InvariantsDone, BuildKeyFrame, BuildPlaceholder,
                  BuildInterFrame, BuildsFrame, InsertFrameData, inputVars
    <2>2. /\ task' = IF pc' # "idle" THEN task
                     ELSE IF task = "flushing" THEN "final" ELSE "recv"
          /\ UNCHANGED <<in_hand, input, sender_count, dropped>>
      BY <1>7 DEF SendFrameRuns, endpointVars
    <2>3. task \in {"sending", "flushing"}
      BY <1>0, <2>1 DEF TaskInv
    <2>4. ~Holding /\ ~Holding'
      BY <2>2, <2>3 DEF Holding
    <2>5. CountInv'
      BY <1>0, <2>1, <2>2, <2>4 DEF CountInv
    <2>6. TaskInv' /\ PanicsOnlyIfAbandoned'
      BY <1>0, <2>1, <2>2, <2>3 DEF TaskInv, PanicsOnlyIfAbandoned
    <2> QED BY <1>0, <2>2, <2>5, <2>6 DEF ChanInv
  <1>8. CASE Poll
    <2>1. ReceivePacket(TRUE)
      BY <1>8, PollFacts
    <2>2. pc = "idle" /\ UNCHANGED <<pc, frame_count, is_flushing>>
      BY <2>1 DEF ReceivePacket, ReceiveRefused, EncodeShowExisting, EncodeShown, EncodeHidden,
                  inputVars
    <2>3. /\ task \in {"drain", "final"} /\ task' = AfterPoll(status')
          /\ UNCHANGED <<in_hand, input, sender_count, dropped>>
      BY <1>8 DEF Poll, Polling, endpointVars
    <2>4. /\ task' \in {task, "panic"} \/ (task = "final" /\ task' = "done")
          /\ task' = "panic" => "packets" \in dropped \/ "pass1" \in dropped
      BY <1>8, <2>3, PollFacts DEF AfterPoll
    <2>5. PanicsOnlyIfAbandoned'
      <3> SUFFICES ASSUME task' = "panic" PROVE dropped' \cap Quits # {}
        BY DEF PanicsOnlyIfAbandoned
      <3> QED BY <1>0, <2>3, <2>4
    <2>6. TaskInv'
      BY <1>0, <2>2, <2>3, <2>4 DEF TaskInv
    <2>7. Holding' = Holding
      BY <1>0, <2>2, <2>3, <2>4 DEF Holding, TaskInv
    <2>8. CountInv'
      BY <1>0, <2>2, <2>3, <2>7, CountKept
    <2> QED BY <1>0, <2>3, <2>5, <2>6, <2>8 DEF ChanInv
  <1>9. CASE Ended \/ UNCHANGED chanVars
    <2>1. /\ UNCHANGED <<task, in_hand, input, sender_count, dropped>>
      BY <1>9 DEF Ended, chanVars, endpointVars
    <2>2. UNCHANGED <<pc, is_flushing, frame_count>>
      BY <1>9 DEF Ended, chanVars, vars, inputVars
    <2>3. Holding' = Holding
      BY <2>1, <2>2 DEF Holding
    <2>4. CountInv'
      BY <1>0, <2>1, <2>2, <2>3, CountKept
    <2>5. TaskInv' /\ PanicsOnlyIfAbandoned'
      BY <1>0, <2>1, <2>2 DEF TaskInv, PanicsOnlyIfAbandoned
    <2> QED BY <1>0, <2>1, <2>4, <2>5 DEF ChanInv
  <1> QED BY <1>1, <1>2, <1>3, <1>4, <1>5, <1>6, <1>7, <1>8, <1>9 DEF ChanNext, TaskStep

-----------------------------------------------------------------------------
(* The theorems *)

\* The invariants of the pipeline and of the channel hold together.
LEMMA ChannelInvHolds == ASSUME FirstPass PROVE ChanSpec => [](PipelineInv /\ ChanInv)
PROOF
  <1>1. ChanInit => PipelineInv /\ ChanInv
    BY ChanInitInv, InitInv
  <1>2. (PipelineInv /\ ChanInv) /\ [ChanNext]_chanVars => (PipelineInv /\ ChanInv)'
    BY ChanStep, ChanNextInv, NextInv DEF FirstPass
  <1> QED BY <1>1, <1>2, PTL DEF ChanSpec

\* The task uses its ContextInner as an application may use a Context, so
\* that everything proved of the frame pipeline holds in the channel: it
\* never gives it a frame after the end of the input, and never asks for a
\* packet while send_frame runs (new_channel_internal).
THEOREM ChannelDrivesPipeline == ASSUME FirstPass PROVE ChanSpec => Spec
PROOF
  <1>1. ChanInit => Init
    BY ChanInitInv
  <1>2. (PipelineInv /\ ChanInv) /\ [ChanNext]_chanVars => [Next]_vars
    BY ChanStep
  <1> QED BY <1>1, <1>2, ChannelInvHolds, PTL DEF ChanSpec, Spec

\* The task panics only if the application has given up an endpoint: the
\* answers of receive_packet are the ones its loops handle (the todo! and
\* unreachable! arms of new_channel_internal are never taken).
THEOREM PanicsOnlyIfAbandonedHolds ==
  ASSUME FirstPass PROVE ChanSpec => []PanicsOnlyIfAbandoned
PROOF
  <1>1. ChanInv => PanicsOnlyIfAbandoned
    BY DEF ChanInv
  <1> QED BY <1>1, ChannelInvHolds, PTL

\* The frames sent are those that FrameSender has counted.
LEMMA FramesSentFacts == FirstPass /\ ChanInv => FramesSent = sender_count
PROOF
  <1> SUFFICES ASSUME FirstPass, ChanInv PROVE FramesSent = sender_count
    OBVIOUS
  <1>1. /\ input \in Seq(FrameInputs)
        /\ Holding => in_hand \in FrameInputs
        /\ frame_count + Len(input) + (IF Holding THEN 1 ELSE 0) = sender_count
    BY DEF ChanInv, CountInv
  <1>2. {i \in DOMAIN input : input[i].frame} = 1 .. Len(input)
    <2>1. DOMAIN input = 1 .. Len(input) /\ \A i \in DOMAIN input : input[i] \in FrameInputs
      BY <1>1
    <2> QED BY <2>1, InputFacts
  <1>3. Cardinality(1 .. Len(input)) = Len(input)
    <2> DEFINE n == Len(input)
    <2>1. n \in Nat
      BY <1>1
    <2> HIDE DEF n
    <2>2. Cardinality(1 .. n) = IF 1 > n THEN 0 ELSE n - 1 + 1
      BY <2>1, FS_Interval
    <2>3. Cardinality(1 .. n) = n
      BY <2>1, <2>2
    <2> QED BY <2>3 DEF n
  <1>4. Holding => in_hand.frame
    BY <1>1, InputFacts
  <1> QED BY <1>1, <1>2, <1>3, <1>4 DEF FramesSent, Holding

\* A step of the channel is one of the service, or none.
LEMMA ChannelServiceStep ==
  ASSUME FirstPass, PipelineInv, ChanInv, ChanInv', [ChanNext]_chanVars,
         FramesSent = sender_count, FramesSent' = sender_count'
  PROVE  [ChannelService!Next]_(ChannelService!vars)
PROOF
  <1>1. ASSUME UNCHANGED <<sender_count, dropped, packets>>
        PROVE  UNCHANGED ChannelService!vars
    BY <1>1 DEF ChannelService!vars
  <1>2. ASSUME NEW f \in FrameInputs, AppSend(f) PROVE ChannelService!Submit
    <2>1. /\ "frames" \notin dropped /\ sender_count' = sender_count + 1
          /\ UNCHANGED <<dropped, packets>>
      BY <1>2 DEF AppSend, vars, outputVars
    <2> QED BY <2>1 DEF ChannelService!Submit
  <1>3. CASE AppSendPassData \/ FeedPassData
    BY <1>3 DEF FirstPass, AppSendPassData, FeedPassData, NeedsPassData
  <1>4. ASSUME NEW e \in {"frames", "packets", "pass1", "pass2"}, AppDrops(e)
        PROVE  [ChannelService!Next]_(ChannelService!vars)
    <2>1. /\ e \notin dropped /\ dropped' = dropped \cup {e}
          /\ UNCHANGED <<sender_count, packets>>
      BY <1>4 DEF AppDrops, vars, outputVars
    <2>2. CASE e = "frames"
      <3>1. ChannelService!Close
        BY <2>1, <2>2 DEF ChannelService!Close
      <3> QED BY <3>1 DEF ChannelService!Next
    <2>3. CASE e # "frames"
      BY <2>1, <2>3 DEF ChannelService!vars
    <2> QED BY <2>2, <2>3
  <1>5. CASE ReceiveFrame \/ InputEnds \/ HandOver \/ SendFrameRuns \/ Ended \/ UNCHANGED chanVars
    <2>1. UNCHANGED <<sender_count, dropped>>
      BY <1>5 DEF ReceiveFrame, InputEnds, HandOver, SendFrameRuns, Ended, chanVars, endpointVars
    <2>2. UNCHANGED packets
      <3>1. CASE ReceiveFrame \/ Ended \/ UNCHANGED chanVars
        BY <3>1 DEF ReceiveFrame, Ended, chanVars, vars, outputVars
      <3>2. CASE InputEnds \/ HandOver
        BY <3>2 DEF InputEnds, HandOver, QueueNone, QueueFrame, outputVars
      <3>3. CASE SendFrameRuns
        BY <3>3 DEF SendFrameRuns, SendFrameReturns, PlaceKeyframe, StartRemaining,
                    PlaceRemainingKeyframes, InvariantsDone, BuildKeyFrame, BuildPlaceholder,
                    BuildInterFrame, InsertFrameData, outputVars
      <3> QED BY <1>5, <3>1, <3>2, <3>3
    <2> QED BY <1>1, <2>1, <2>2
  <1>6. CASE Poll
    <2>1. /\ UNCHANGED <<sender_count, dropped>> /\ ReceivePacket(TRUE) /\ [Next]_vars
      BY <1>6, PollFacts, ChanStep DEF Poll, endpointVars
    <2>2. UNCHANGED <<frame_count, is_flushing>>
      BY <2>1 DEF ReceivePacket, ReceiveRefused, EncodeShowExisting, EncodeShown, EncodeHidden,
                  inputVars
    <2>3. [Service!Next]_(Service!vars)
      BY <2>1, ServiceStep DEF FirstPass
    <2>4. CASE UNCHANGED Service!vars
      BY <2>1, <2>4 DEF Service!vars, ChannelService!vars
    <2>5. CASE Service!Next
      <3>1. frame_count \in Nat /\ is_flushing \in BOOLEAN
        BY DEF PipelineInv, TypeOK
      <3>2. Service!Deliver
        BY <2>2, <2>5, <3>1 DEF Service!Next, Service!Submit, Service!Close
      <3>3. frame_count <= sender_count
        <4>1. /\ frame_count + Len(input) + (IF Holding THEN 1 ELSE 0) = sender_count
              /\ Len(input) \in Nat /\ sender_count \in Nat
          BY DEF ChanInv, CountInv
        <4> QED BY <3>1, <4>1
      <3>4. Len(delivered) \in Nat
        BY DeliveredFacts
      <3>5. Len(delivered) < sender_count
        <4>1. Len(delivered) < frame_count
          BY <3>2 DEF Service!Deliver, delivered
        <4> QED BY <3>1, <3>3, <3>4, <4>1 DEF ChanInv, CountInv
      <3>6. ChannelService!Deliver
        BY <2>1, <3>2, <3>5 DEF Service!Deliver, ChannelService!Deliver, delivered
      <3> QED BY <3>6 DEF ChannelService!Next
    <2> QED BY <2>3, <2>4, <2>5
  <1> QED BY <1>2, <1>3, <1>4, <1>5, <1>6 DEF ChanNext, TaskStep, ChannelService!Next

\* The channel is the in-order frame service: every frame that FrameSender
\* has taken is delivered at most once and in its turn, and none is taken
\* once the sender is dropped, whatever else the application drops and
\* whenever (FrameSender::send, new_channel_internal).
THEOREM ChannelImplementsServiceHolds ==
  ASSUME FirstPass PROVE ChanSpec => ChannelImplementsService
PROOF
  <1>1. ChanInit => ChannelService!Init
    <2> SUFFICES ASSUME ChanInit PROVE ChannelService!Init
      OBVIOUS
    <2>1. /\ packets = <<>> /\ dropped = {} /\ FramesSent = 0
      <3>1. packets = <<>> /\ dropped = {} /\ sender_count = 0
        BY DEF ChanInit, InitWithLimit
      <3> QED BY <3>1, ChanInitInv, FramesSentFacts
    <2>2. [i \in DOMAIN packets |-> packets[i].input_frameno] = <<>>
      BY <2>1
    <2> QED BY <2>1, <2>2 DEF ChannelService!Init
  <1>2. ChanInv => FramesSent = sender_count
    BY FramesSentFacts
  <1>3. /\ PipelineInv /\ ChanInv /\ ChanInv' /\ [ChanNext]_chanVars
        /\ FramesSent = sender_count /\ (FramesSent = sender_count)'
        => [ChannelService!Next]_(ChannelService!vars)
    BY ChannelServiceStep
  <1> QED BY <1>1, <1>2, <1>3, ChannelInvHolds, PTL
          DEF ChanSpec, ChannelImplementsService, ChannelService!SafeSpec

=============================================================================
