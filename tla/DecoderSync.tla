---------------------------- MODULE DecoderSync ----------------------------
(***************************************************************************)
(* The encoder beside the decoder that will play its packets.  The decoder *)
(* is not part of the repository: it is the reference buffer process of    *)
(* the AV1 specification, as the headers the encoder writes drive it.  A   *)
(* frame predicts from eight slots, is stored in the slots it refreshes,   *)
(* and is displayed when shown; a "show existing frame" displays a slot.   *)
(***************************************************************************)
EXTENDS EncoderPipeline

VARIABLE dec   \* the decoder: its slots, the pictures displayed, and the
               \* output frames it predicted from something else than the
               \* encoder did

syncVars == <<vars, dec>>

\* The decoder predicts from the pictures the encoder predicted from, and
\* derives the direction of its references as the encoder did.
Agrees(slots, f) ==
  /\ \A i \in INTER_REFS : slots[f.ref_frames[i]] = f.uses[i]
  /\ sign_bias(f.ref_frames, slots, f.order_hint) = f.sign_bias

DecodeFrame(d, f) ==
  LET pic == Ref("rec", f.output_frameno, f.order_hint, f.input_frameno)
  IN IF f.sef
     THEN [d EXCEPT !.display = Append(@, d.slots[f.slot])]
     ELSE [slots |-> Refresh(d.slots, f.refresh, pic),
           display |-> IF f.show_frame THEN Append(d.display, pic)
                                       ELSE d.display,
           drifted |-> IF f.frame_type = "KEY" \/ Agrees(d.slots, f)
                       THEN d.drifted
                       ELSE d.drifted \cup {f.output_frameno}]

\* The frames of a packet, one after the other.
DecodeFrames(d, frames) ==
  LET after[i \in 0 .. Len(frames)] ==
        IF i = 0 THEN d ELSE DecodeFrame(after[i - 1], frames[i])
  IN after[Len(frames)]

DecodePacket(d, packet) == DecodeFrames(d, packet.tu)

SyncInit ==
  /\ Init
  /\ dec = [slots |-> EmptyRefs, display |-> <<>>, drifted |-> {}]

\* Every packet is decoded as it is returned.
Decodes ==
  dec' = IF packets' = packets THEN dec ELSE DecodePacket(dec, packets'[Len(packets')])

SyncNext == Next /\ Decodes

SyncSpec == SyncInit /\ [][SyncNext]_syncVars

\* With the fairness of the pipeline: send_frame returns, and the application
\* goes on polling.
SyncFairSpec ==
  /\ SyncSpec
  /\ WF_syncVars(SendFrameReturns /\ Decodes)
  /\ WF_syncVars(ReceivePacket(TRUE) /\ Decodes)

\* Encoder and decoder predict every inter frame from the same pictures in
\* the same slots: the reconstructions that encode_normal_packet hands on to
\* the frames after it, never the originals that the lookahead uses, never a
\* slot overwritten in between.
NoDrift == dec.drifted = {}

\* The decoder displays one picture per packet, that of the packet's frame,
\* which is also the reconstruction the packet carries: SEFs point at the
\* slot where the hidden frame still is.
DisplaysInput ==
  /\ Len(dec.display) = Len(packets)
  /\ \A i \in DOMAIN packets :
       /\ dec.display[i].picture = packets[i].input_frameno
       /\ dec.display[i] = packets[i].rec
=============================================================================
