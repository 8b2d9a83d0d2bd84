------------------------------- MODULE O3yvLoop -------------------------------
(***************************************************************************)
(* The O3YV encoder's main loop beside a decoder that is fed its frames.   *)
(* The encoder predicts from its own reconstruction; the decoder keeps two *)
(* frames, decodes into the one it does not show and swaps them.  The      *)
(* DecoderState is reused from stream to stream (StreamDecoder::reset,     *)
(* decode_stream_for_each_with_state) and keeps the pixels of the last.    *)
(***************************************************************************)
EXTENDS O3yvCodec, Sequences

CONSTANT NoFrame  \* the None of an Option<SbsFrame>

VARIABLES
  recon,          \* main's `reference`: NoFrame before the first frame
  stream,         \* frames written and not yet decoded, at most one
  reference,      \* DecoderState
  current,
  has_reference,
  lost,           \* the reader stands inside a frame, after an error
  expected        \* the encoder's reconstruction of the last decoded frame

decVars  == <<reference, current, has_reference, lost>>
loopVars == <<recon, stream, expected, decVars>>

ASSUME NoFrameAssumption == NoFrame \notin Frame

\* A frame in the stream; BAD is one that the decoder cannot parse.
BAD == [type |-> "BAD"]
Coded ==
  [type : {"KEY_RAW"}, frame : Frame] \cup [type : {"P"}, tiles : [Eyes -> Tile]]
    \cup {BAD}

\* SbsFrame::new fills the planes with constants.
Black == [e \in Eyes |-> [mb \in MBs |-> 0]]

LoopInit ==
  /\ recon = NoFrame /\ stream = <<>> /\ expected = NoFrame
  /\ reference = Black /\ current = Black
  /\ has_reference = FALSE /\ lost = FALSE

-----------------------------------------------------------------------------
(* The encoder *)

\* A raw keyframe: the first frame always is one (raw_key_due_for_max_gap),
\* later ones by the gap or a scene cut (module O3yvRate).
EncodeKey ==
  /\ stream = <<>> /\ ~lost
  /\ \E frame \in Frame :
       /\ stream' = <<[type |-> "KEY_RAW", frame |-> frame]>>
       /\ recon' = frame
  /\ UNCHANGED <<expected, decVars>>

\* The candidate that encode_budgeted_p_frame returns.
EncodeP ==
  /\ stream = <<>> /\ ~lost
  /\ recon # NoFrame
  /\ \E tiles \in [Eyes -> Tile] :
       /\ \A e \in Eyes : RawOnlyIfChanged(recon[e], tiles[e])
       /\ stream' = <<[type |-> "P", tiles |-> tiles]>>
       /\ recon' = [e \in Eyes |-> recon_eye(recon[e], tiles[e])]
  /\ UNCHANGED <<expected, decVars>>

\* The file is cut off or its contents no longer parse.
Damage ==
  /\ stream # <<>> /\ Head(stream) # BAD
  /\ stream' = <<BAD>>
  /\ UNCHANGED <<recon, expected, decVars>>

-----------------------------------------------------------------------------
(* The decoder: decode_next_frame *)

\* The decoded frame is in `current`: the buffers are swapped.
Swap(frame) ==
  /\ reference' = frame
  /\ current' = reference
  /\ has_reference' = TRUE

Accept ==
  /\ stream' = <<>>
  /\ expected' = recon
  /\ UNCHANGED <<recon, lost>>

DecodeKey ==
  /\ stream # <<>>
  /\ Head(stream).type = "KEY_RAW"
  /\ Swap(Head(stream).frame)
  /\ Accept

\* A frame that changes nothing is answered with the reference, unswapped.
ReuseReference ==
  /\ stream # <<>>
  /\ Head(stream).type = "P" /\ has_reference
  /\ p_payload_reuses_reference(Head(stream).tiles)
  /\ UNCHANGED <<reference, current, has_reference>>
  /\ Accept

DecodeP ==
  /\ stream # <<>>
  /\ Head(stream).type = "P" /\ has_reference
  /\ ~p_payload_reuses_reference(Head(stream).tiles)
  /\ Swap([e \in Eyes |->
             decode_tile(Head(stream).tiles[e], reference[e], current[e])])
  /\ Accept

\* The frame does not parse, or is a P-frame without a reference: the header
\* has been passed, `current` may be partly written, and nothing is swapped.
DecodeError ==
  /\ stream # <<>>
  /\ \/ Head(stream) = BAD
     \/ Head(stream).type = "P" /\ ~has_reference
  /\ current' \in Frame
  /\ stream' = <<>> /\ lost' = TRUE
  /\ UNCHANGED <<recon, expected, reference, has_reference>>

\* Mutation: a new stream starts with the reference of the old one.
NewStreamKeepsEncoder ==
  /\ stream' = <<>> /\ expected' = NoFrame
  /\ has_reference' = FALSE /\ lost' = FALSE
  /\ UNCHANGED <<recon, reference, current>>

\* StreamDecoder::reset, or the next stream decoded with the same state; an
\* encoder of its own writes it.
NewStream ==
  /\ recon' = NoFrame
  /\ stream' = <<>> /\ expected' = NoFrame
  /\ has_reference' = FALSE /\ lost' = FALSE
  /\ UNCHANGED <<reference, current>>

LoopNext ==
  \/ EncodeKey \/ EncodeP \/ Damage
  \/ DecodeKey \/ ReuseReference \/ DecodeP \/ DecodeError
  \/ NewStream

LoopSpec == LoopInit /\ [][LoopNext]_loopVars

-----------------------------------------------------------------------------
(* Correctness *)

\* Both sides hold whole pictures with pixels in range: apply_residual clips
\* what a residual adds, and a frame that fails half way leaves pictures.
LoopTypeOK ==
  /\ recon \in Frame \cup {NoFrame}
  /\ expected \in Frame \cup {NoFrame}
  /\ stream \in Seq(Coded) /\ Len(stream) <= 1
  /\ reference \in Frame /\ current \in Frame
  /\ has_reference \in BOOLEAN /\ lost \in BOOLEAN

\* What current_frame and write_current_yuv420p_into answer is, to the pixel,
\* what the encoder reconstructed for the last frame that decoded: the lazy
\* base copy, the prefill, the unswapped reuse and the frame two frames old
\* in `current` never show, and neither does a frame that failed or a stream
\* before the reset (rav1e-o3yv's "closed-loop mismatch").
ClosedLoop ==
  IF has_reference THEN reference = expected ELSE expected = NoFrame

\* An undamaged stream decodes: no P-frame reaches the decoder without the
\* reference it was made from.
UndamagedDecodes ==
  /\ stream # <<>> /\ Head(stream).type = "P"
       => has_reference
  /\ stream # <<>> => ~lost

\* What makes ClosedLoop inductive: where encoder and decoder stand to each
\* other while a frame is under way and between frames.
InStep ==
  /\ expected # NoFrame => has_reference
  /\ stream = <<>> /\ ~lost => recon = expected
  /\ stream # <<>> /\ Head(stream).type = "KEY_RAW" => recon = Head(stream).frame
  /\ stream # <<>> /\ Head(stream).type = "P" =>
       /\ expected # NoFrame
       /\ recon = [e \in Eyes |-> recon_eye(expected[e], Head(stream).tiles[e])]

LoopInv == LoopTypeOK /\ ClosedLoop /\ UndamagedDecodes /\ InStep
=============================================================================
