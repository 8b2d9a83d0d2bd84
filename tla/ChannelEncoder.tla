--------------------------- MODULE ChannelEncoder ---------------------------
(***************************************************************************)
(* The single encoder channel: `Config::new_channel_internal` of           *)
(* src/api/channel/mod.rs and its endpoints (data.rs).  One task owns a    *)
(* ContextInner (module EncoderPipeline) and serves four channels: frames  *)
(* in, packets out, and the statistics of a two-pass encode, out           *)
(* (`emit_pass_data`) and in (a summary was given).  The application       *)
(* drives its endpoints independently of each other and of the task.       *)
(*                                                                         *)
(* Here `is_flushing` of the pipeline says that the task has left its      *)
(* receive loop.                                                           *)
(***************************************************************************)
EXTENDS EncoderPipeline, RcState

CONSTANTS
  EmitPassData,     \* RateControlConfig::emit_pass_data
  PassData,         \* the packets of a first pass, when SecondPass: for each
                    \*   coded frame whether it was shown
  InputLen,         \* capacity of the frame channel
  MaxPassIn,        \* bound on the pass data in flight (an unbounded channel)
  SendsNone,        \* whether the application may send None for a frame
  Quits             \* endpoints it may drop before the encode is over

ASSUME ChannelAssumption ==
  /\ EmitPassData \in BOOLEAN
  /\ PassData \in Seq(BOOLEAN)
  /\ InputLen \in Nat \ {0}
  /\ MaxPassIn \in Nat \ {0}
  /\ SendsNone \in BOOLEAN
  /\ Quits \subseteq {"packets", "pass1", "pass2"}

VARIABLES
  task,         \* "recv", "drain" (a frame in hand), "sending", "flushing",
                \* "final", "done" or "panic"
  input,        \* the FrameInputs in the frame channel
  in_hand,      \* the FrameInput last received
  sender_count, \* FrameSender::count
  rc,           \* rc_state, as far as the second pass needs it (RcState)
  pass_in,      \* packets of pass data waiting for the task
  pass_count,   \* RcDataSender::count
  pass_out,     \* pass data emitted: whether its frame was shown
  dropped       \* endpoints the application has dropped

endpointVars == <<input, sender_count, pass_in, pass_count, dropped>>
chanVars == <<vars, task, in_hand, rc, pass_out, endpointVars>>

\* RateControlConfig::summary: the numbers of TUs and of coded frames.
SummaryNtus == Len(SelectSeq(PassData, LAMBDA show : show))
SummaryTotal == Len(PassData)

frame_limit == IF SecondPass THEN SummaryNtus ELSE RcFrameLimit

NoFrame == [frame |-> FALSE, params |-> [key |-> FALSE, opaque |-> FALSE, t35 |-> FALSE]]
FrameInputs == [frame : {TRUE}, params : Params]
                 \cup (IF SendsNone THEN {NoFrame} ELSE {})

ChanInit ==
  /\ InitWithLimit(IF SecondPass THEN SummaryNtus ELSE NoLimit)
  /\ task = "recv" /\ input = <<>> /\ in_hand = NoFrame /\ sender_count = 0
  /\ rc = IF SecondPass THEN setup_second_pass(SummaryTotal, SummaryNtus) ELSE NoRc
  /\ pass_in = <<>> /\ pass_count = 0 /\ pass_out = <<>>
  /\ dropped = {}

-----------------------------------------------------------------------------
(* The application *)

\* FrameSender::send; it fails beyond the limit, and when the task is gone.
AppSend(f) ==
  /\ "frames" \notin dropped
  /\ task \notin {"done", "panic"}
  /\ sender_count < frame_limit /\ sender_count < MaxFrames
  /\ Len(input) < InputLen
  /\ input' = Append(input, f)
  /\ sender_count' = sender_count + 1
  /\ UNCHANGED <<vars, task, in_hand, rc, pass_in, pass_count, pass_out,
                 dropped>>

\* RcDataSender::send
AppSendPassData ==
  /\ SecondPass
  /\ "pass2" \notin dropped
  /\ task \notin {"done", "panic"}
  /\ pass_count < SummaryTotal /\ Len(pass_in) < MaxPassIn
  /\ pass_in' = Append(pass_in, [no |-> pass_count + 1, show |-> PassData[pass_count + 1]])
  /\ pass_count' = pass_count + 1
  /\ UNCHANGED <<vars, task, in_hand, rc, pass_out, input, sender_count,
                 dropped>>

\* An endpoint is dropped: the frame sender at any time, the pass data sender
\* when all data is sent, and any other by an application that gives up.
AppDrops(endpoint) ==
  /\ endpoint \notin dropped
  /\ \/ endpoint = "frames"
     \/ endpoint = "pass2" /\ SecondPass /\ pass_count = SummaryTotal
     \/ endpoint \in Quits
  /\ dropped' = dropped \cup {endpoint}
  /\ UNCHANGED <<vars, task, in_hand, rc, pass_out, input, sender_count,
                 pass_in, pass_count>>

-----------------------------------------------------------------------------
(* The task *)

ReceiveFrame ==
  /\ task = "recv"
  /\ input # <<>>
  /\ in_hand' = Head(input)
  /\ input' = Tail(input)
  /\ task' = "drain"
  /\ UNCHANGED <<vars, rc, pass_out, sender_count, pass_in, pass_count,
                 dropped>>

\* Mutation: an empty channel is taken for a disconnected one.
InputEndsWhenEmpty ==
  /\ task = "recv"
  /\ input = <<>> /\ (sender_count > 0 \/ "frames" \in dropped)
  /\ limit' = frame_count
  /\ is_flushing' = TRUE
  /\ QueueNone
  /\ task' = "flushing"
  /\ UNCHANGED <<in_hand, rc, pass_out, endpointVars>>

\* The frame channel is empty and disconnected.
InputEnds ==
  /\ task = "recv"
  /\ input = <<>> /\ "frames" \in dropped
  /\ limit' = frame_count
  /\ is_flushing' = TRUE
  /\ QueueNone
  /\ task' = "flushing"
  /\ UNCHANGED <<in_hand, rc, pass_out, endpointVars>>

\* Mutation: the last frame is lost if the channel is disconnected meanwhile.
HandOverUnlessClosed ==
  /\ task = "drain" /\ needs_more_fi_lookahead
  /\ IF in_hand.frame /\ (input # <<>> \/ "frames" \notin dropped)
     THEN QueueFrame(in_hand.params) ELSE QueueNone
  /\ task' = "sending"
  /\ UNCHANGED <<limit, is_flushing, in_hand, rc, pass_out, endpointVars>>

\* The lookahead wants more frames: the one in hand goes to the encoder.
HandOver ==
  /\ task = "drain" /\ needs_more_fi_lookahead
  /\ IF in_hand.frame THEN QueueFrame(in_hand.params) ELSE QueueNone
  /\ task' = "sending"
  /\ UNCHANGED <<limit, is_flushing, in_hand, rc, pass_out, endpointVars>>

\* The rest of ContextInner::send_frame.
SendFrameRuns ==
  /\ SendFrameReturns
  /\ task' = IF pc' # "idle" THEN task
             ELSE IF task = "flushing" THEN "final" ELSE "recv"
  /\ UNCHANGED <<in_hand, rc, pass_out, endpointVars>>

Polling == \/ task = "drain" /\ ~needs_more_fi_lookahead
           \/ task = "final"

\* The condition of feed_pass_data's loop.
NeedsPassData == SecondPass /\ twopass_in_frames_needed(rc) > 0 /\ ~done_processing

\* feed_pass_data: a packet of pass data, or a disconnected channel (todo!, as
\* for data that is refused).
FeedPassData ==
  /\ Polling /\ NeedsPassData
  /\ \/ /\ pass_in # <<>>
        /\ pass_in' = Tail(pass_in)
        /\ rc' = parse_frame_data_packet(rc, Head(pass_in))
        /\ task' = IF rc'.failed THEN "panic" ELSE task
     \/ /\ pass_in = <<>> /\ "pass2" \in dropped
        /\ task' = "panic"
        /\ UNCHANGED <<pass_in, rc>>
  /\ UNCHANGED <<vars, in_hand, pass_out, input, sender_count, pass_count, dropped>>

\* What the task does with the answer of receive_packet; sending on a channel
\* whose receiver is gone panics (unwrap), and so does any other answer
\* (todo!, unreachable!).
AfterPoll(answer) ==
  LET emits == answer \in {"Packet", "Encoded"}
      lost  == \/ answer = "Packet" /\ "packets" \in dropped
               \/ EmitPassData /\ "pass1" \in dropped
  IN IF emits THEN IF lost THEN "panic" ELSE task
     ELSE IF answer = "LimitReached" /\ task = "final"
     THEN IF lost THEN "panic" ELSE "done"
     ELSE "panic"

\* Mutation: a hidden frame sends no pass data.
send_pass_data_shown(answer) ==
  pass_out' = IF EmitPassData /\ answer = "Packet" THEN Append(pass_out, TRUE)
                                                   ELSE pass_out

\* send_pass_data: one packet per encoded frame, shown or not.
send_pass_data(answer) ==
  pass_out' = IF EmitPassData /\ answer \in {"Packet", "Encoded"}
              THEN Append(pass_out, answer = "Packet") ELSE pass_out

\* receive_packet, whose update_state asks for the next pass data, and what
\* follows it in the loop.
Poll ==
  /\ Polling /\ ~NeedsPassData
  /\ ReceivePacket(SecondPass => rc.ready)
  /\ task' = AfterPoll(status')
  /\ rc' = IF SecondPass /\ status' \in {"Packet", "Encoded"} THEN rc_update_state(rc)
                                                             ELSE rc
  /\ send_pass_data(status')
  /\ UNCHANGED <<in_hand, endpointVars>>

TaskStep ==
  ReceiveFrame \/ InputEnds \/ HandOver \/ SendFrameRuns \/ FeedPassData \/ Poll

Ended == task \in {"done", "panic"} /\ UNCHANGED chanVars

ChanNext ==
  \/ \E f \in FrameInputs : AppSend(f)
  \/ AppSendPassData
  \/ \E e \in {"frames", "packets", "pass1", "pass2"} : AppDrops(e)
  \/ TaskStep
  \/ Ended

ChanSpec == ChanInit /\ [][ChanNext]_chanVars

\* The task runs on a thread of its own; a second-pass application sends the
\* pass data it has.
ChanFairSpec == ChanSpec /\ WF_chanVars(TaskStep) /\ WF_chanVars(AppSendPassData)

-----------------------------------------------------------------------------
(* Correctness *)

\* The task panics only if the application has given up an endpoint: the
\* answers of receive_packet are the ones its loops handle, and the pass data
\* of a first pass over the same frames is enough for the second.
PanicsOnlyIfAbandoned == task = "panic" => dropped \cap Quits # {}

\* Hidden frames in a GOP of n frames after the keyframe: two in a full
\* re-ordering group, one in a last group of two or three.
HiddenFrames(n) ==
  IF reorder THEN 2 * (n \div 4) + (IF n % 4 >= 2 THEN 1 ELSE 0) ELSE 0

\* The number of frames coded for n packets with keyframes at `keys`.
CodedFrames(keys, n) ==
  LET after(k) == Min({j \in keys : j > k} \cup {n + 1}) - k - 1
  IN n + MapThenSumSet(LAMBDA k : HiddenFrames(after(k)), keys)

\* Either pass codes, and emits the data of, as many frames as the GOP
\* structure calls for, hidden ones and SEFs included: a second pass, which
\* knows the length of the stream from the start, codes as many as the first
\* (send_pass_data, feed_pass_data).
PassDataComplete ==
  LET keys == {i \in DOMAIN packets : packets[i].frame_type = "KEY"}
      used == IF SecondPass THEN rc.coded ELSE Len(pass_out)
  IN task = "done" =>
       /\ used = CodedFrames(keys, Len(packets))
       /\ EmitPassData => /\ Len(pass_out) = used
                          /\ Len(SelectSeq(pass_out, LAMBDA b : b)) = frame_count

\* Frames that have been sent, wherever they are; a task that panics before
\* the end of the input has one in hand.
FramesSent ==
  frame_count + Cardinality({i \in DOMAIN input : input[i].frame})
    + (IF (task = "drain" \/ (task = "panic" /\ ~is_flushing)) /\ in_hand.frame
       THEN 1 ELSE 0)

\* The channel is the in-order frame service.
ChannelService == INSTANCE FrameService WITH
  submitted <- FramesSent,
  closed    <- "frames" \in dropped,
  delivered <- [i \in DOMAIN packets |-> packets[i].input_frameno]

\* Nothing is lost or re-ordered, whatever is in the frame channel or in hand
\* when an endpoint is dropped.  The workers of the by-GOP channel run the same
\* loop without pass data.
ChannelImplementsService == ChannelService!SafeSpec

\* Dropping the FrameSender flushes the encoder: the task ends and all frames
\* sent have been delivered, unless the application has given up an endpoint.
ChannelEnds ==
  "frames" \in dropped ~>
    \/ task = "done" /\ Len(packets) = FramesSent
    \/ task = "panic" /\ dropped \cap Quits # {}

\* A frame of the second pass is coded with the metrics that the first pass
\* emitted for it, a hidden frame with those of a hidden one: both passes have
\* the same structure, although the second knows the length of the stream from
\* the start, and the ring buffer keeps them in step (up to the end of the
\* stream, if it is shorter than the summary says).
SecondPassInStep ==
  [][SecondPass /\ limit = SummaryNtus /\ rc'.coded > rc.coded =>
       rc.cur_metrics = [no |-> rc.coded + 1, show |-> status' = "Packet"]]_chanVars
=============================================================================
