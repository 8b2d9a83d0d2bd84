---------------------------- MODULE StreamProofs ----------------------------
(***************************************************************************)
(* Proofs about streams.  The O3YV decoder shows what its encoder          *)
(* reconstructed, for any number of eyes, macroblocks, values and vectors  *)
(* and any lazy-copy threshold; the O3YV rate window keeps its promise for *)
(* every number of frames, every window, every size of frames and every    *)
(* number of search steps; and the statistics of a two-pass encode stay in *)
(* step, for every reservoir delay, every stream of shown and hidden       *)
(* frames, every size of headers and packets and every division of the     *)
(* statistics into pieces.                                                 *)
(***************************************************************************)
EXTENDS O3yvLoop, O3yvRate, RateTwoPass, BoundedRecursion, FiniteSetTheorems

-----------------------------------------------------------------------------
(* Prediction and residuals *)

\* A clamped macroblock index is one: copies read inside the eye.
LEMMA ClampInRange == ASSUME NEW x \in Int PROVE clamp(x) \in MBs
BY CodecAssumption DEF clamp, MBs

LEMMA CopyType ==
  ASSUME NEW ref \in Eye, NEW mb \in MBs, NEW mv \in MVs
  PROVE  copy_mb(ref, mb, mv) \in Values
<1>1. mb + mv \in Int  BY CodecAssumption DEF MBs
<1>2. clamp(mb + mv) \in MBs  BY <1>1, ClampInRange
<1> QED BY <1>2 DEF copy_mb, Eye

LEMMA PrefillType ==
  ASSUME NEW ref \in Eye, NEW mv \in MVs
  PROVE  prefill_eye(ref, mv) \in Eye
BY CopyType DEF prefill_eye, Eye

LEMMA ResidualType ==
  ASSUME NEW a \in Values, NEW r \in Residuals
  PROVE  apply_residual(a, r) \in Values
<1>1. a \in Int /\ r \in Int /\ NVal \in Nat /\ NVal > 0
  BY CodecAssumption DEF Values
<1> QED BY <1>1 DEF apply_residual, Values

\* The parts of a tile that the codec's definitions look at.
LEMMA TileParts ==
  ASSUME NEW t \in Tile, NEW mb \in MBs
  PROVE  /\ t.base_mv \in MVs
         /\ UNION t.fragments = MBs
         /\ t.mbs[mb].mode = "RAW" => t.mbs[mb].data \in Values
         /\ t.mbs[mb].mode \in {"BASE_RES", "COPY"} => t.mbs[mb].data \in Residuals
         /\ t.mbs[mb].mode = "COPY" => t.mbs[mb].mv \in MVs
         /\ t.mbs[mb].mode \in {"SKIP", "BASE_RES", "COPY", "RAW"}
<1>1. t.base_mv \in MVs /\ t.fragments = Bands /\ t.mbs \in [MBs -> MbChoice]
  BY DEF Tile
<1>2. t.mbs[mb] \in MbChoice  BY <1>1
<1> QED BY <1>1, <1>2, CodecAssumption DEF MbChoice, SKIP

\* A choice promises a pixel value.
LEMMA ChoiceType ==
  ASSUME NEW ref \in Eye, NEW t \in Tile, NEW mb \in MBs, NEW v \in Values
  PROVE  choice_recon(t.mbs[mb], ref, v, mb) \in Values
<1>1. CASE t.mbs[mb].mode = "SKIP"  BY <1>1 DEF choice_recon
<1>2. CASE t.mbs[mb].mode = "RAW"
  BY <1>2, TileParts DEF choice_recon
<1>3. CASE t.mbs[mb].mode = "BASE_RES"
  <2>1. t.mbs[mb].data \in Residuals  BY <1>3, TileParts
  <2> QED BY <1>3, <2>1, ResidualType DEF choice_recon
<1>4. CASE t.mbs[mb].mode = "COPY"
  <2>1. t.mbs[mb].data \in Residuals /\ t.mbs[mb].mv \in MVs  BY <1>4, TileParts
  <2>2. copy_mb(ref, mb, t.mbs[mb].mv) \in Values  BY <2>1, CopyType
  <2> QED BY <1>4, <2>1, <2>2, ResidualType DEF choice_recon
<1> QED BY <1>1, <1>2, <1>3, <1>4, TileParts

LEMMA ReconType ==
  ASSUME NEW ref \in Eye, NEW t \in Tile
  PROVE  recon_eye(ref, t) \in Eye
<1> DEFINE pre == prefill_eye(ref, t.base_mv)
<1>1. t.base_mv \in MVs  BY DEF Tile
<1>2. pre \in Eye  BY <1>1, PrefillType
<1>3. \A mb \in MBs : pre[mb] \in Values  BY <1>2 DEF Eye
<1> HIDE DEF pre
<1>4. \A mb \in MBs : choice_recon(t.mbs[mb], ref, pre[mb], mb) \in Values
  BY <1>3, ChoiceType
<1>5. recon_eye(ref, t) = [mb \in MBs |-> choice_recon(t.mbs[mb], ref, pre[mb], mb)]
  BY DEF recon_eye, pre
<1> QED BY <1>4, <1>5 DEF Eye

-----------------------------------------------------------------------------
(* The two halves of the codec agree *)

\* Whatever the buffer held before, decoding a tile gives the encoder's
\* reconstruction: with the lazy copy because every macroblock is described
\* by a fragment and every mode that needs the base prediction copies it,
\* without it because the prefill wrote it (decode_tile, encode_tile).
THEOREM TileDecodesToRecon ==
  ASSUME NEW ref \in Eye, NEW cur \in Eye, NEW t \in Tile
  PROVE  decode_tile(t, ref, cur) = recon_eye(ref, t)
<1> DEFINE pre == prefill_eye(ref, t.base_mv)
           buf == IF lazy_base_copy(t) THEN cur ELSE pre
<1>1. \A mb \in MBs : mb \in UNION t.fragments
  BY TileParts
<1>2. \A mb \in MBs : pre[mb] = copy_mb(ref, mb, t.base_mv)
  BY DEF prefill_eye
<1>3. \A mb \in MBs : ~lazy_base_copy(t) => buf[mb] = pre[mb]
  OBVIOUS
<1>4. decode_tile(t, ref, cur) =
        [mb \in MBs |-> IF mb \in UNION t.fragments
                        THEN decode_mb(t.mbs[mb], t, ref, buf[mb], mb) ELSE buf[mb]]
  BY DEF decode_tile
<1>5. recon_eye(ref, t) = [mb \in MBs |-> choice_recon(t.mbs[mb], ref, pre[mb], mb)]
  BY DEF recon_eye
<1> HIDE DEF pre, buf
<1>6. \A mb \in MBs : decode_mb(t.mbs[mb], t, ref, buf[mb], mb)
                        = choice_recon(t.mbs[mb], ref, pre[mb], mb)
  BY <1>2, <1>3 DEF decode_mb, choice_recon
<1> QED BY <1>1, <1>4, <1>5, <1>6

\* A frame that only skips with a zero base vector is its reference: the
\* decoder may answer it without decoding (p_payload_reuses_reference).
LEMMA ReuseIsIdentity ==
  ASSUME NEW ref \in Eye, NEW t \in Tile, t.base_mv = 0,
         \A mb \in UNION t.fragments : t.mbs[mb].mode = "SKIP"
  PROVE  recon_eye(ref, t) = ref
<1> DEFINE pre == prefill_eye(ref, t.base_mv)
<1>1. \A mb \in MBs : t.mbs[mb].mode = "SKIP"  BY TileParts
<1>2. \A mb \in MBs : clamp(mb + 0) = mb  BY CodecAssumption DEF clamp, MBs
<1>3. \A mb \in MBs : pre[mb] = ref[mb]  BY <1>2 DEF prefill_eye, copy_mb
<1>4. recon_eye(ref, t) = [mb \in MBs |-> choice_recon(t.mbs[mb], ref, pre[mb], mb)]
  BY DEF recon_eye
<1> HIDE DEF pre
<1>5. \A mb \in MBs : choice_recon(t.mbs[mb], ref, pre[mb], mb) = ref[mb]
  BY <1>1, <1>3 DEF choice_recon
<1>6. ref = [mb \in MBs |-> ref[mb]]  BY DEF Eye
<1> QED BY <1>4, <1>5, <1>6

-----------------------------------------------------------------------------
(* The loop *)

LEMMA EmptyStream == <<>> \in Seq(Coded) /\ Len(<<>>) <= 1
OBVIOUS

LEMMA LoopInitInv == LoopInit => LoopInv
<1> SUFFICES ASSUME LoopInit PROVE LoopInv  OBVIOUS
<1>1. Black \in Frame
  BY CodecAssumption DEF Black, Frame, Eye, Values
<1>2. LoopTypeOK
  <2>1. stream \in Seq(Coded) /\ Len(stream) <= 1  BY EmptyStream DEF LoopInit
  <2>2. has_reference \in BOOLEAN /\ lost \in BOOLEAN  BY DEF LoopInit
  <2>3. /\ recon \in Frame \cup {NoFrame} /\ expected \in Frame \cup {NoFrame}
        /\ reference \in Frame /\ current \in Frame
    BY <1>1 DEF LoopInit
  <2> QED BY <2>1, <2>2, <2>3 DEF LoopTypeOK
<1>3. ClosedLoop  BY DEF LoopInit, ClosedLoop
<1>4. UndamagedDecodes  BY DEF LoopInit, UndamagedDecodes
<1>5. InStep  BY DEF LoopInit, InStep
<1> QED BY <1>2, <1>3, <1>4, <1>5 DEF LoopInv

\* The stream holds no frame or one.
LEMMA OneFrame ==
  ASSUME LoopTypeOK, stream # <<>>
  PROVE  Head(stream) \in Coded
BY DEF LoopTypeOK

LEMMA Singleton ==
  ASSUME NEW c \in Coded
  PROVE  /\ <<c>> \in Seq(Coded) /\ Len(<<c>>) <= 1
         /\ Head(<<c>>) = c /\ <<c>> # <<>>
OBVIOUS

LEMMA EncodeKeyPreserves == LoopInv /\ EncodeKey => LoopInv'
<1> SUFFICES ASSUME LoopInv, EncodeKey PROVE LoopInv'  OBVIOUS
<1>1. PICK frame \in Frame :
        /\ stream' = <<[type |-> "KEY_RAW", frame |-> frame]>>
        /\ recon' = frame
  BY DEF EncodeKey
<1> DEFINE c == [type |-> "KEY_RAW", frame |-> frame]
<1>2. c \in Coded  BY DEF Coded
<1>3. c.type = "KEY_RAW" /\ c.frame = frame  OBVIOUS
<1> HIDE DEF c
<1>4. /\ stream' \in Seq(Coded) /\ Len(stream') <= 1
      /\ Head(stream') = c /\ stream' # <<>>
  BY <1>1, <1>2, Singleton DEF c
<1>5. /\ ~lost /\ UNCHANGED <<expected, reference, current, has_reference, lost>>
  BY DEF EncodeKey, decVars
<1>6. LoopTypeOK'  BY <1>1, <1>4, <1>5 DEF LoopInv, LoopTypeOK
<1>7. ClosedLoop'  BY <1>5 DEF LoopInv, ClosedLoop
<1>8. UndamagedDecodes'  BY <1>3, <1>4, <1>5 DEF UndamagedDecodes
<1>9. InStep'  BY <1>1, <1>3, <1>4, <1>5 DEF LoopInv, InStep
<1> QED BY <1>6, <1>7, <1>8, <1>9 DEF LoopInv

LEMMA EncodePPreserves == LoopInv /\ EncodeP => LoopInv'
<1> SUFFICES ASSUME LoopInv, EncodeP PROVE LoopInv'  OBVIOUS
<1>1. PICK tiles \in [Eyes -> Tile] :
        /\ stream' = <<[type |-> "P", tiles |-> tiles]>>
        /\ recon' = [e \in Eyes |-> recon_eye(recon[e], tiles[e])]
  BY DEF EncodeP
<1> DEFINE c == [type |-> "P", tiles |-> tiles]
<1>2. c \in Coded  BY DEF Coded
<1>3. c.type = "P" /\ c.tiles = tiles  OBVIOUS
<1> HIDE DEF c
<1>4. /\ stream' \in Seq(Coded) /\ Len(stream') <= 1
      /\ Head(stream') = c /\ stream' # <<>>
  BY <1>1, <1>2, Singleton DEF c
<1>5. /\ stream = <<>> /\ ~lost /\ recon # NoFrame
      /\ UNCHANGED <<expected, reference, current, has_reference, lost>>
  BY DEF EncodeP, decVars
<1>6. recon = expected /\ recon \in Frame /\ has_reference
  BY <1>5 DEF LoopInv, InStep, LoopTypeOK
<1>7. recon' \in Frame
  <2>1. \A e \in Eyes : recon[e] \in Eye /\ tiles[e] \in Tile  BY <1>6 DEF Frame
  <2>2. \A e \in Eyes : recon_eye(recon[e], tiles[e]) \in Eye  BY <2>1, ReconType
  <2> QED BY <1>1, <2>2 DEF Frame
<1>8. LoopTypeOK'  BY <1>4, <1>5, <1>7 DEF LoopInv, LoopTypeOK
<1>9. ClosedLoop'  BY <1>5 DEF LoopInv, ClosedLoop
<1>10. UndamagedDecodes'  BY <1>4, <1>5, <1>6 DEF UndamagedDecodes
<1>11. InStep'  BY <1>1, <1>3, <1>4, <1>5, <1>6 DEF InStep
<1> QED BY <1>8, <1>9, <1>10, <1>11 DEF LoopInv

LEMMA DamagePreserves == LoopInv /\ Damage => LoopInv'
<1> SUFFICES ASSUME LoopInv, Damage PROVE LoopInv'  OBVIOUS
<1>1. BAD \in Coded  BY DEF Coded
<1>2. /\ stream' = <<BAD>> /\ stream # <<>>
      /\ UNCHANGED <<recon, expected, reference, current, has_reference, lost>>
  BY DEF Damage, decVars
<1>3. /\ stream' \in Seq(Coded) /\ Len(stream') <= 1
      /\ Head(stream') = BAD /\ stream' # <<>>
  BY <1>1, <1>2, Singleton
<1>4. BAD.type = "BAD"  BY DEF BAD
<1>5. LoopTypeOK'  BY <1>2, <1>3 DEF LoopInv, LoopTypeOK
<1>6. ClosedLoop'  BY <1>2 DEF LoopInv, ClosedLoop
<1>7. UndamagedDecodes'  BY <1>2, <1>3, <1>4 DEF LoopInv, UndamagedDecodes
<1>8. InStep'  BY <1>2, <1>3, <1>4 DEF LoopInv, InStep
<1> QED BY <1>5, <1>6, <1>7, <1>8 DEF LoopInv

\* What a decoded frame leaves behind, given that it is the one the encoder
\* reconstructed.
LEMMA AcceptPreserves ==
  ASSUME LoopInv, Accept, stream # <<>>, has_reference' = TRUE,
         reference' = recon, recon \in Frame, current' \in Frame
  PROVE  LoopInv'
<1>1. /\ stream' = <<>> /\ expected' = recon /\ recon' = recon /\ lost' = lost
  BY DEF Accept
<1>2. ~lost  BY DEF LoopInv, UndamagedDecodes
<1>3. LoopTypeOK'
  BY <1>1, <1>2 DEF LoopInv, LoopTypeOK
<1>4. ClosedLoop'  BY <1>1 DEF ClosedLoop
<1>5. UndamagedDecodes'  BY <1>1 DEF UndamagedDecodes
<1>6. InStep'  BY <1>1 DEF InStep
<1> QED BY <1>3, <1>4, <1>5, <1>6 DEF LoopInv

LEMMA DecodeKeyPreserves == LoopInv /\ DecodeKey => LoopInv'
<1> SUFFICES ASSUME LoopInv, DecodeKey PROVE LoopInv'  OBVIOUS
<1>1. /\ stream # <<>> /\ Head(stream).type = "KEY_RAW" /\ Accept
      /\ reference' = Head(stream).frame /\ current' = reference
      /\ has_reference' = TRUE
  BY DEF DecodeKey, Swap
<1>2. recon = Head(stream).frame  BY <1>1 DEF LoopInv, InStep
<1>3. Head(stream) \in Coded  BY <1>1, OneFrame DEF LoopInv
<1>4. Head(stream).frame \in Frame  BY <1>1, <1>3 DEF Coded, BAD
<1>5. current' \in Frame  BY <1>1 DEF LoopInv, LoopTypeOK
<1> QED BY <1>1, <1>2, <1>4, <1>5, AcceptPreserves

\* A P-frame that reaches the decoder was made from the picture it shows.
LEMMA PendingP ==
  ASSUME LoopInv, stream # <<>>, Head(stream).type = "P"
  PROVE  /\ Head(stream).tiles \in [Eyes -> Tile]
         /\ has_reference /\ reference \in Frame
         /\ recon = [e \in Eyes |-> recon_eye(reference[e], Head(stream).tiles[e])]
<1>1. Head(stream) \in Coded  BY OneFrame DEF LoopInv
<1>2. Head(stream).tiles \in [Eyes -> Tile]  BY <1>1 DEF Coded, BAD
<1>3. has_reference  BY DEF LoopInv, UndamagedDecodes
<1>4. reference = expected  BY <1>3 DEF LoopInv, ClosedLoop
<1>5. recon = [e \in Eyes |-> recon_eye(expected[e], Head(stream).tiles[e])]
  BY DEF LoopInv, InStep
<1>6. reference \in Frame  BY DEF LoopInv, LoopTypeOK
<1> QED BY <1>2, <1>3, <1>4, <1>5, <1>6

LEMMA ReusePreserves == LoopInv /\ ReuseReference => LoopInv'
<1> SUFFICES ASSUME LoopInv, ReuseReference PROVE LoopInv'  OBVIOUS
<1> DEFINE tiles == Head(stream).tiles
<1>1. /\ stream # <<>> /\ Head(stream).type = "P" /\ Accept
      /\ UNCHANGED <<reference, current, has_reference>>
      /\ p_payload_reuses_reference(tiles)
  BY DEF ReuseReference
<1>2. /\ tiles \in [Eyes -> Tile] /\ has_reference /\ reference \in Frame
      /\ recon = [e \in Eyes |-> recon_eye(reference[e], tiles[e])]
  BY <1>1, PendingP
<1> HIDE DEF tiles
<1>3. \A e \in Eyes : recon_eye(reference[e], tiles[e]) = reference[e]
  <2> SUFFICES ASSUME NEW e \in Eyes
               PROVE  recon_eye(reference[e], tiles[e]) = reference[e]
    OBVIOUS
  <2>1. reference[e] \in Eye /\ tiles[e] \in Tile  BY <1>2 DEF Frame
  <2>2. /\ tiles[e].base_mv = 0
        /\ \A mb \in UNION tiles[e].fragments : tiles[e].mbs[mb].mode = "SKIP"
    BY <1>1 DEF p_payload_reuses_reference
  <2> QED BY <2>1, <2>2, ReuseIsIdentity
<1>4. reference = [e \in Eyes |-> reference[e]]  BY <1>2 DEF Frame
<1>5. recon = reference  BY <1>2, <1>3, <1>4
<1>6. /\ reference' = recon /\ recon \in Frame /\ current' \in Frame
      /\ has_reference' = TRUE
  BY <1>1, <1>2, <1>5 DEF LoopInv, LoopTypeOK
<1> QED BY <1>1, <1>6, AcceptPreserves

LEMMA DecodePPreserves == LoopInv /\ DecodeP => LoopInv'
<1> SUFFICES ASSUME LoopInv, DecodeP PROVE LoopInv'  OBVIOUS
<1> DEFINE tiles == Head(stream).tiles
<1>1. /\ stream # <<>> /\ Head(stream).type = "P" /\ Accept
      /\ reference' = [e \in Eyes |-> decode_tile(tiles[e], reference[e], current[e])]
      /\ current' = reference /\ has_reference' = TRUE
  BY DEF DecodeP, Swap
<1>2. /\ tiles \in [Eyes -> Tile] /\ reference \in Frame
      /\ recon = [e \in Eyes |-> recon_eye(reference[e], tiles[e])]
  BY <1>1, PendingP
<1>3. current \in Frame  BY DEF LoopInv, LoopTypeOK
<1> HIDE DEF tiles
<1>4. \A e \in Eyes : reference[e] \in Eye /\ current[e] \in Eye /\ tiles[e] \in Tile
  BY <1>2, <1>3 DEF Frame
<1>5. \A e \in Eyes : decode_tile(tiles[e], reference[e], current[e])
                        = recon_eye(reference[e], tiles[e])
  BY <1>4, TileDecodesToRecon
<1>6. reference' = recon  BY <1>1, <1>2, <1>5
<1>7. recon \in Frame
  <2>1. \A e \in Eyes : recon_eye(reference[e], tiles[e]) \in Eye
    BY <1>4, ReconType
  <2> QED BY <1>2, <2>1 DEF Frame
<1> QED BY <1>1, <1>2, <1>6, <1>7, AcceptPreserves

LEMMA DecodeErrorPreserves == LoopInv /\ DecodeError => LoopInv'
<1> SUFFICES ASSUME LoopInv, DecodeError PROVE LoopInv'  OBVIOUS
<1>1. /\ stream' = <<>> /\ lost' = TRUE /\ current' \in Frame
      /\ UNCHANGED <<recon, expected, reference, has_reference>>
  BY DEF DecodeError
<1>2. LoopTypeOK'  BY <1>1 DEF LoopInv, LoopTypeOK
<1>3. ClosedLoop'  BY <1>1 DEF LoopInv, ClosedLoop
<1>4. UndamagedDecodes'  BY <1>1 DEF UndamagedDecodes
<1>5. InStep'  BY <1>1 DEF LoopInv, InStep
<1> QED BY <1>2, <1>3, <1>4, <1>5 DEF LoopInv

LEMMA NewStreamPreserves == LoopInv /\ NewStream => LoopInv'
<1> SUFFICES ASSUME LoopInv, NewStream PROVE LoopInv'  OBVIOUS
<1>1. LoopTypeOK'
  <2>1. stream' \in Seq(Coded) /\ Len(stream') <= 1  BY EmptyStream DEF NewStream
  <2>2. has_reference' \in BOOLEAN /\ lost' \in BOOLEAN  BY DEF NewStream
  <2>3. /\ recon' \in Frame \cup {NoFrame} /\ expected' \in Frame \cup {NoFrame}
        /\ reference' \in Frame /\ current' \in Frame
    BY DEF LoopInv, LoopTypeOK, NewStream
  <2> QED BY <2>1, <2>2, <2>3 DEF LoopTypeOK
<1>2. ClosedLoop'  BY DEF ClosedLoop, NewStream
<1>3. UndamagedDecodes'  BY DEF UndamagedDecodes, NewStream
<1>4. InStep'  BY DEF InStep, NewStream
<1> QED BY <1>1, <1>2, <1>3, <1>4 DEF LoopInv

\* Every step of encoder, decoder and stream keeps the invariant.
LEMMA LoopStepInv == LoopInv /\ [LoopNext]_loopVars => LoopInv'
<1> SUFFICES ASSUME LoopInv, [LoopNext]_loopVars PROVE LoopInv'  OBVIOUS
<1>1. CASE UNCHANGED loopVars
  <2>1. UNCHANGED <<recon, stream, expected, reference, current, has_reference, lost>>
    BY <1>1 DEF loopVars, decVars
  <2>2. LoopTypeOK' /\ ClosedLoop'
    BY <2>1 DEF LoopInv, LoopTypeOK, ClosedLoop
  <2>3. UndamagedDecodes' /\ InStep'
    BY <2>1 DEF LoopInv, UndamagedDecodes, InStep
  <2> QED BY <2>2, <2>3 DEF LoopInv
<1>2. CASE EncodeKey  BY <1>2, EncodeKeyPreserves
<1>3. CASE EncodeP  BY <1>3, EncodePPreserves
<1>4. CASE Damage  BY <1>4, DamagePreserves
<1>5. CASE DecodeKey  BY <1>5, DecodeKeyPreserves
<1>6. CASE ReuseReference  BY <1>6, ReusePreserves
<1>7. CASE DecodeP  BY <1>7, DecodePPreserves
<1>8. CASE DecodeError  BY <1>8, DecodeErrorPreserves
<1>9. CASE NewStream  BY <1>9, NewStreamPreserves
<1> QED BY <1>1, <1>2, <1>3, <1>4, <1>5, <1>6, <1>7, <1>8, <1>9 DEF LoopNext

LEMMA LoopInvariant == LoopSpec => []LoopInv
BY LoopInitInv, LoopStepInv, PTL DEF LoopSpec

\* The buffers of encoder and decoder hold whole frames of pixel values and
\* the stream at most one well-formed frame.
THEOREM LoopTypeCorrect == LoopSpec => []LoopTypeOK
<1>1. LoopInv => LoopTypeOK  BY DEF LoopInv
<1> QED BY <1>1, LoopInvariant, PTL

\* What the decoder shows is what the encoder reconstructed, through lazy
\* copies, reused references, failed frames and streams decoded one after
\* the other with the same DecoderState.
THEOREM DecoderInStep == LoopSpec => []ClosedLoop
<1>1. LoopInv => ClosedLoop  BY DEF LoopInv
<1> QED BY <1>1, LoopInvariant, PTL

\* A P-frame that is not damaged finds the reference it was made from.
THEOREM StreamDecodes == LoopSpec => []UndamagedDecodes
<1>1. LoopInv => UndamagedDecodes  BY DEF LoopInv
<1> QED BY <1>1, LoopInvariant, PTL

-----------------------------------------------------------------------------
(* The sum of the last sizes *)

FromEnd(s, k) == IF k <= Len(s) THEN s[Len(s) - k + 1] ELSE 0

\* SumOfLast is what its definition says: one more size at each step.
LEMMA SumOfLastSteps ==
  ASSUME NEW s \in Seq(Nat)
  PROVE  /\ \A k \in 0 .. RATE_WINDOW_FRAMES : SumOfLast(s, k) \in Nat
         /\ SumOfLast(s, 0) = 0
         /\ \A k \in 1 .. RATE_WINDOW_FRAMES :
              SumOfLast(s, k) = SumOfLast(s, k - 1) + FromEnd(s, k)
PROOF
  <1> DEFINE W == RATE_WINDOW_FRAMES
             F == [p \in (1 .. W) \X Nat |-> p[2] + FromEnd(s, p[1])]
             Sums(f) == f = [k \in 0 .. W |-> IF k = 0 THEN 0
                                              ELSE f[k - 1] + (IF k <= Len(s) THEN s[Len(s) - k + 1] ELSE 0)]
             sum == CHOOSE f : Sums(f)
  <1>0. W \in Nat
    BY RateAssumption
  <1>1. \A k \in 1 .. W : FromEnd(s, k) \in Nat
    BY <1>0 DEF FromEnd
  <1>2. F \in [(1 .. W) \X Nat -> Nat]
    BY <1>1
  <1>3. PICK f \in [0 .. W -> Nat] : StepsBy(f, W, 0, F)
    <2>1. 0 \in Nat
      OBVIOUS
    <2> HIDE DEF F, W
    <2> QED BY <1>0, <1>2, <2>1, RecursionUpTo
  <1>4. \A k \in 1 .. W : f[k] = f[k - 1] + FromEnd(s, k)
    <2> TAKE k \in 1 .. W
    <2>1. <<k, f[k - 1]>> \in (1 .. W) \X Nat
      BY <1>0, <1>3
    <2> QED BY <1>3, <2>1 DEF StepsBy
  <1>5. Sums(f)
    <2>1. \A k \in 0 .. W : k # 0 => k \in 1 .. W
      BY <1>0
    <2> QED BY <1>3, <1>4, <2>1 DEF FromEnd, StepsBy
  <1>6. Sums(sum)
    <2> HIDE DEF Sums
    <2> QED BY <1>5
  <1>7. \A k \in 0 .. W : SumOfLast(s, k) = sum[k]
    BY DEF SumOfLast
  <1> HIDE DEF sum
  <1>8. sum[0] = 0 /\ \A k \in 1 .. W : sum[k] = sum[k - 1] + FromEnd(s, k)
    BY <1>0, <1>6 DEF FromEnd
  <1>9. \A k \in 0 .. W : sum[k] \in Nat
    <2> DEFINE S == {k \in 0 .. W : sum[k] \in Nat}
    <2>1. 0 \in S
      BY <1>0, <1>8
    <2>2. ASSUME NEW k \in 0 .. W - 1, k \in S PROVE k + 1 \in S
      <3>1. k + 1 \in 1 .. W /\ k + 1 \in 0 .. W /\ (k + 1) - 1 = k
        BY <1>0
      <3> QED BY <1>1, <1>8, <2>2, <3>1
    <2> HIDE DEF S, W
    <2>3. \A k \in 0 .. W : k \in S
      BY <1>0, <2>1, <2>2, InductionUpTo
    <2> QED BY <2>3 DEF S
  <1>10. \A k \in 1 .. W : k \in 0 .. W /\ k - 1 \in 0 .. W
    BY <1>0
  <1>11. 0 \in 0 .. W
    BY <1>0
  <1> QED BY <1>7, <1>8, <1>9, <1>10, <1>11
\* Before the first frame the window is empty.
LEMMA SumOfNone == \A k \in 0 .. RATE_WINDOW_FRAMES : SumOfLast(<<>>, k) = 0
PROOF
  <1> DEFINE W == RATE_WINDOW_FRAMES
             S == {k \in 0 .. W : SumOfLast(<<>>, k) = 0}
  <1>0. W \in Nat /\ <<>> \in Seq(Nat)
    BY RateAssumption
  <1>1. /\ SumOfLast(<<>>, 0) = 0
        /\ \A k \in 1 .. W : SumOfLast(<<>>, k) = SumOfLast(<<>>, k - 1) + FromEnd(<<>>, k)
    BY <1>0, SumOfLastSteps
  <1>2. \A k \in 1 .. W : FromEnd(<<>>, k) = 0
    BY <1>0 DEF FromEnd
  <1>3. 0 \in S
    BY <1>0, <1>1
  <1>4. ASSUME NEW k \in 0 .. W - 1, k \in S PROVE k + 1 \in S
    <2>1. k + 1 \in 1 .. W /\ k + 1 \in 0 .. W /\ (k + 1) - 1 = k
      BY <1>0
    <2>2. SumOfLast(<<>>, k + 1) = SumOfLast(<<>>, k) + 0
      BY <1>1, <1>2, <2>1
    <2> QED BY <1>4, <2>1, <2>2
  <1>5. \A k \in 0 .. W : k \in S
    <2> HIDE DEF S, W
    <2> QED BY <1>0, <1>3, <1>4, InductionUpTo
  <1> QED BY <1>5

\* recent_frame_bytes, as far back as it is read, after one more frame.
Pushed(s, bytes) ==
  LET all == Append(s, bytes)
  IN IF Len(all) > RATE_WINDOW_FRAMES THEN Tail(all) ELSE all

Sizes == {s \in Seq(Nat) : Len(s) <= RATE_WINDOW_FRAMES}

\* The window moves on by one frame.
LEMMA PushedWindow ==
  ASSUME NEW s \in Sizes, NEW bytes \in Nat
  PROVE  /\ Pushed(s, bytes) \in Sizes
         /\ \A k \in 1 .. RATE_WINDOW_FRAMES :
              SumOfLast(Pushed(s, bytes), k) = SumOfLast(s, k - 1) + bytes
PROOF
  <1> DEFINE W == RATE_WINDOW_FRAMES
             t == Pushed(s, bytes)
             all == Append(s, bytes)
  <1>0. W \in Nat /\ W # 0 /\ s \in Seq(Nat) /\ Len(s) \in Nat /\ Len(s) <= W
    BY RateAssumption DEF Sizes
  <1>1. /\ all \in Seq(Nat) /\ Len(all) = Len(s) + 1 /\ all[Len(s) + 1] = bytes
        /\ \A i \in 1 .. Len(s) : all[i] = s[i]
    BY <1>0
  <1>2. t = IF Len(s) = W THEN Tail(all) ELSE all
    BY <1>0, <1>1 DEF Pushed
  <1> HIDE DEF all, t
  <1>3. t \in Seq(Nat) /\ Len(t) \in 1 .. W /\ t[Len(t)] = bytes
    <2>1. CASE Len(s) = W
      <3>1. /\ t \in Seq(Nat) /\ Len(t) = W
            /\ \A i \in 1 .. W : t[i] = all[i + 1]
        BY <1>0, <1>1, <1>2, <2>1
      <3> QED BY <1>0, <1>1, <2>1, <3>1
    <2>2. CASE Len(s) # W
      BY <1>0, <1>1, <1>2, <2>2
    <2> QED BY <2>1, <2>2
  <1>4. ASSUME NEW k \in 1 .. W - 1 PROVE FromEnd(t, k + 1) = FromEnd(s, k)
    <2>1. CASE Len(s) = W
      <3>1. Len(t) = W /\ \A i \in 1 .. W : t[i] = all[i + 1]
        BY <1>0, <1>1, <1>2, <2>1
      <3>2. FromEnd(t, k + 1) = all[W - k + 1]
        BY <1>0, <3>1 DEF FromEnd
      <3> QED BY <1>0, <1>1, <2>1, <3>2 DEF FromEnd
    <2>2. CASE Len(s) # W
      <3>1. t = all
        BY <1>2, <2>2
      <3>2. CASE k <= Len(s)
        <4>1. FromEnd(t, k + 1) = all[Len(s) - k + 1]
          BY <1>0, <1>1, <3>1, <3>2 DEF FromEnd
        <4>2. Len(s) - k + 1 \in 1 .. Len(s) /\ FromEnd(s, k) = s[Len(s) - k + 1]
          BY <1>0, <3>2 DEF FromEnd
        <4> QED BY <1>1, <4>1, <4>2
      <3>3. CASE ~(k <= Len(s))
        <4>1. ~(k + 1 <= Len(t))
          BY <1>0, <1>1, <3>1, <3>3
        <4> QED BY <3>3, <4>1 DEF FromEnd
      <3> QED BY <3>2, <3>3
    <2> QED BY <2>1, <2>2
  <1>5. FromEnd(t, 1) = bytes
    BY <1>0, <1>3 DEF FromEnd
  <1> DEFINE S == {j \in 0 .. W - 1 : SumOfLast(t, j + 1) = SumOfLast(s, j) + bytes}
  <1>6. /\ \A k \in 0 .. W : SumOfLast(t, k) \in Nat /\ SumOfLast(s, k) \in Nat
        /\ SumOfLast(t, 0) = 0 /\ SumOfLast(s, 0) = 0
        /\ \A k \in 1 .. W : /\ SumOfLast(t, k) = SumOfLast(t, k - 1) + FromEnd(t, k)
                             /\ SumOfLast(s, k) = SumOfLast(s, k - 1) + FromEnd(s, k)
    BY <1>0, <1>3, SumOfLastSteps
  <1>7. 0 \in S
    <2>1. SumOfLast(t, 1) = SumOfLast(t, 0) + FromEnd(t, 1)
      BY <1>0, <1>6
    <2> QED BY <1>0, <1>5, <1>6, <2>1
  <1>8. ASSUME NEW j \in 0 .. (W - 1) - 1, j \in S PROVE j + 1 \in S
    <2>1. j + 1 \in 1 .. W - 1 /\ j + 1 \in 0 .. W - 1 /\ j + 1 \in 1 .. W /\ j + 2 \in 1 .. W
          /\ (j + 2) - 1 = j + 1 /\ (j + 1) - 1 = j /\ j \in 0 .. W /\ (j + 1) + 1 = j + 2
      BY <1>0
    <2>2. SumOfLast(t, j + 2) = SumOfLast(t, j + 1) + FromEnd(t, j + 2)
      BY <1>6, <2>1
    <2>3. FromEnd(t, j + 2) = FromEnd(s, j + 1)
      BY <1>4, <2>1
    <2>4. SumOfLast(s, j + 1) = SumOfLast(s, j) + FromEnd(s, j + 1)
      BY <1>6, <2>1
    <2>5. FromEnd(s, j + 1) \in Nat /\ SumOfLast(s, j) \in Nat
      <3>1. \A k \in 1 .. W : FromEnd(s, k) \in Nat
        BY <1>0 DEF FromEnd
      <3> QED BY <1>6, <2>1, <3>1
    <2>6. SumOfLast(t, j + 1) = SumOfLast(s, j) + bytes
      BY <1>8
    <2>7. SumOfLast(t, j + 2) = SumOfLast(s, j + 1) + bytes
      BY <2>2, <2>3, <2>4, <2>5, <2>6
    <2> QED BY <2>1, <2>7
  <1>9. \A j \in 0 .. W - 1 : j \in S
    <2>1. W - 1 \in Nat
      BY <1>0
    <2> HIDE DEF S, W
    <2> QED BY <1>7, <1>8, <2>1, InductionUpTo
  <1>10. \A k \in 1 .. W : k - 1 \in 0 .. W - 1 /\ (k - 1) + 1 = k
    BY <1>0
  <1>11. \A k \in 1 .. W : SumOfLast(t, k) = SumOfLast(s, k - 1) + bytes
    BY <1>9, <1>10
  <1>12. t \in Sizes
    BY <1>3 DEF Sizes
  <1> QED BY <1>11, <1>12 DEF t

\* The whole window is the window without its oldest frame and that frame.
LEMMA OldestInWindow ==
  ASSUME NEW s \in Sizes, NEW bytes \in Nat
  PROVE  \/ SumOfLast(s, RATE_WINDOW_FRAMES)
              <= SumOfLast(s, RATE_WINDOW_FRAMES - 1) + bytes
         \/ s[1] > bytes
PROOF
  <1> DEFINE W == RATE_WINDOW_FRAMES
  <1>0. W \in Nat /\ W >= 2 /\ s \in Seq(Nat) /\ Len(s) \in Nat /\ Len(s) <= W
    BY RateAssumption DEF Sizes
  <1>1. W \in 1 .. W /\ W - 1 \in 0 .. W
    BY <1>0
  <1>2. /\ SumOfLast(s, W) = SumOfLast(s, W - 1) + FromEnd(s, W)
        /\ SumOfLast(s, W - 1) \in Nat
    BY <1>0, <1>1, SumOfLastSteps
  <1>3. CASE Len(s) = W
    <2>1. FromEnd(s, W) = s[1] /\ s[1] \in Nat
      BY <1>0, <1>3 DEF FromEnd
    <2> QED BY <1>2, <2>1
  <1>4. CASE Len(s) # W
    <2>1. FromEnd(s, W) = 0
      BY <1>0, <1>4 DEF FromEnd
    <2> QED BY <1>2, <2>1
  <1> QED BY <1>3, <1>4

-----------------------------------------------------------------------------
(* The search of encode_budgeted_p_frame *)

\* The budget steps end with one of the candidates they have tried.
LEMMA BudgetBestType == BudgetBest \subseteq Candidate
PROOF
  <1> DEFINE N == BudgetSteps
             D == SUBSET Candidate
             Step(T) == {BudgetStep(best, c) : best \in T, c \in Candidate}
             F == [p \in (1 .. N) \X D |-> Step(p[2])]
             IsSteps(f) == f = [k \in 0 .. N |-> IF k = 0 THEN Lossless ELSE Step(f[k - 1])]
             Steps == CHOOSE f : IsSteps(f)
  <1>0. N \in Nat
    BY RateAssumption
  <1>1. Lossless \in D
    BY DEF Lossless
  <1>2. \A best, c \in Candidate : BudgetStep(best, c) \in Candidate
    BY DEF BudgetStep
  <1>3. \A T \in D : Step(T) \in D
    BY <1>2
  <1>4. F \in [(1 .. N) \X D -> D]
    <2> HIDE DEF Step
    <2> QED BY <1>3
  <1>5. PICK f \in [0 .. N -> D] : StepsBy(f, N, Lossless, F)
    <2> HIDE DEF F, N, D
    <2> QED BY <1>0, <1>1, <1>4, RecursionUpTo
  <1>6. IsSteps(f)
    <2>1. \A k \in 0 .. N : k # 0 => k \in 1 .. N /\ <<k, f[k - 1]>> \in (1 .. N) \X D
      BY <1>0, <1>5
    <2> HIDE DEF D, N, Step
    <2>2. f[0] = Lossless /\ \A k \in 1 .. N : f[k] = F[<<k, f[k - 1]>>]
      <3> HIDE DEF F
      <3> QED BY <1>5 DEF StepsBy
    <2>3. \A k \in 0 .. N : k # 0 => f[k] = Step(f[k - 1])
      BY <2>1, <2>2
    <2> QED BY <1>5, <2>2, <2>3
  <1>7. IsSteps(Steps)
    <2> HIDE DEF IsSteps
    <2> QED BY <1>6
  <1>8. BudgetBest = Steps[N]
    BY DEF BudgetBest
  <1> HIDE DEF Steps, Step
  <1> DEFINE S == {k \in 0 .. N : Steps[k] \in D}
  <1>9. 0 \in S
    <2> HIDE DEF D
    <2> QED BY <1>0, <1>1, <1>7
  <1>10. ASSUME NEW k \in 0 .. N - 1, k \in S PROVE k + 1 \in S
    <2>1. k + 1 \in 0 .. N /\ k + 1 # 0 /\ (k + 1) - 1 = k /\ Steps[k] \in D
      BY <1>0, <1>10
    <2>2. Steps[k + 1] = Step(Steps[k])
      <3> HIDE DEF D, N
      <3> QED BY <1>7, <2>1
    <2>3. Steps[k + 1] \in D
      <3> HIDE DEF D
      <3> QED BY <1>3, <2>1, <2>2
    <2> QED BY <2>1, <2>3
  <1>11. N \in S
    <2>1. N \in 0 .. N
      BY <1>0
    <2> HIDE DEF S, N
    <2> QED BY <1>0, <1>9, <1>10, <2>1, InductionUpTo
  <1> QED BY <1>8, <1>11

\* What a recovery step may replace the best candidate by.
Accepted(reserve) ==
  {b \in Recovery : b.fits /\ rolling_window_allows_quality_recovery_frame_bytes(b.bytes, reserve)}

\* The recovery steps end with the candidate they began with or with one
\* that fits the caps and the window, with the reserve if there is one.
LEMMA RecoveredFits ==
  ASSUME NEW c \in Candidate, NEW reserve \in BOOLEAN
  PROVE  Recovered(c, reserve) \subseteq {c} \cup Accepted(reserve)
PROOF
  <1> DEFINE N == RecoverySteps
             stop == quality_recovery_stop(c, reserve)
             R == {c} \cup Accepted(reserve)
             D == SUBSET R
             Step(T) == {RecoveryStep(best, r, stop, reserve) : best \in T, r \in Recovery}
             F == [p \in (1 .. N) \X D |-> Step(p[2])]
             IsSteps(f) == f = [k \in 0 .. N |-> IF k = 0 THEN {c} ELSE Step(f[k - 1])]
             Steps == CHOOSE f : IsSteps(f)
  <1>0. N \in Nat
    BY RateAssumption
  <1>1. {c} \in D
    OBVIOUS
  <1>2. \A best \in R, r \in Recovery : RecoveryStep(best, r, stop, reserve) \in R
    BY DEF RecoveryStep, Accepted
  <1>3. \A T \in D : Step(T) \in D
    BY <1>2
  <1> HIDE DEF R, stop
  <1>4. F \in [(1 .. N) \X D -> D]
    <2> HIDE DEF Step
    <2> QED BY <1>3
  <1>5. PICK f \in [0 .. N -> D] : StepsBy(f, N, {c}, F)
    <2> HIDE DEF F, N, D
    <2> QED BY <1>0, <1>1, <1>4, RecursionUpTo
  <1>6. IsSteps(f)
    <2>1. \A k \in 0 .. N : k # 0 => k \in 1 .. N /\ <<k, f[k - 1]>> \in (1 .. N) \X D
      BY <1>0, <1>5
    <2> HIDE DEF D, N, Step
    <2>2. f[0] = {c} /\ \A k \in 1 .. N : f[k] = F[<<k, f[k - 1]>>]
      <3> HIDE DEF F
      <3> QED BY <1>5 DEF StepsBy
    <2>3. \A k \in 0 .. N : k # 0 => f[k] = Step(f[k - 1])
      BY <2>1, <2>2
    <2> QED BY <1>5, <2>2, <2>3
  <1>7. IsSteps(Steps)
    <2> HIDE DEF IsSteps
    <2> QED BY <1>6
  <1>8. Recovered(c, reserve) = Steps[N] \/ Recovered(c, reserve) = {c}
    BY DEF Recovered, stop
  <1> HIDE DEF Steps, Step
  <1> DEFINE S == {k \in 0 .. N : Steps[k] \in D}
  <1>9. 0 \in S
    <2> HIDE DEF D
    <2> QED BY <1>0, <1>1, <1>7
  <1>10. ASSUME NEW k \in 0 .. N - 1, k \in S PROVE k + 1 \in S
    <2>1. k + 1 \in 0 .. N /\ k + 1 # 0 /\ (k + 1) - 1 = k /\ Steps[k] \in D
      BY <1>0, <1>10
    <2>2. Steps[k + 1] = Step(Steps[k])
      <3> HIDE DEF D, N
      <3> QED BY <1>7, <2>1
    <2>3. Steps[k + 1] \in D
      <3> HIDE DEF D
      <3> QED BY <1>3, <2>1, <2>2
    <2> QED BY <2>1, <2>3
  <1>11. N \in S
    <2>1. N \in 0 .. N
      BY <1>0
    <2> HIDE DEF S, N
    <2> QED BY <1>0, <1>9, <1>10, <2>1, InductionUpTo
  <1>12. Recovered(c, reserve) \in D
    BY <1>1, <1>8, <1>11
  <1> QED BY <1>12 DEF R

-----------------------------------------------------------------------------
(* The main loop *)

RateTypeOK ==
  /\ frame_no \in Nat
  /\ scene_cut \in BOOLEAN
  /\ last_raw \in Int
  /\ recent \in Sizes
  /\ last \in [kind : {"none", "gap", "scene", "p"}, recovered : BOOLEAN,
               reserve : BOOLEAN, warned : BOOLEAN]

\* A reserve that a recovered frame has respected is there for the frame to
\* be coded, which is a keyframe if the window allows it.
ReserveKept ==
  last.recovered /\ last.reserve =>
    /\ frame_no < FrameCount
    /\ raw_key_due_for_max_gap(frame_no) \/ scene_cut
    /\ rolling_window_bytes_after(KEY_RAW_CODED_BYTES) <= RATE_WINDOW_BYTES

RateInv == RateTypeOK /\ ReserveKept /\ OverrunsAnnounced

\* A frame of `bytes` bytes is written: the window moves on.
LEMMA WrittenWindow ==
  ASSUME RateTypeOK, NEW bytes \in Nat, NEW next_cut \in BOOLEAN, Written(bytes, next_cut)
  PROVE  /\ frame_no' = frame_no + 1 /\ frame_no' \in Nat
         /\ scene_cut' = next_cut /\ recent' \in Sizes
         /\ BytesOfLast(RATE_WINDOW_FRAMES)' = BytesOfLast(RATE_WINDOW_FRAMES - 1) + bytes
         /\ BytesOfLast(RATE_WINDOW_FRAMES - 1)' = BytesOfLast(RATE_WINDOW_FRAMES - 2) + bytes
         /\ BytesOfLast(RATE_WINDOW_FRAMES - 1) \in Nat
         /\ BytesOfLast(RATE_WINDOW_FRAMES - 2) \in Nat
PROOF
  <1> DEFINE W == RATE_WINDOW_FRAMES
  <1>0. W \in Nat /\ W >= 2 /\ recent \in Sizes /\ frame_no \in Nat
    BY RateAssumption DEF RateTypeOK
  <1>1. recent' = Pushed(recent, bytes) /\ frame_no' = frame_no + 1 /\ scene_cut' = next_cut
    BY DEF Written, Pushed
  <1>2. /\ recent' \in Sizes
        /\ \A k \in 1 .. W : SumOfLast(recent', k) = SumOfLast(recent, k - 1) + bytes
    BY <1>0, <1>1, PushedWindow
  <1>3. \A k \in 0 .. W : SumOfLast(recent, k) \in Nat
    BY <1>0, SumOfLastSteps DEF Sizes
  <1>4. W \in 1 .. W /\ W - 1 \in 1 .. W /\ W - 1 \in 0 .. W /\ W - 2 \in 0 .. W
        /\ (W - 1) - 1 = W - 2
    BY <1>0
  <1>5. /\ SumOfLast(recent', W) = SumOfLast(recent, W - 1) + bytes
        /\ SumOfLast(recent', W - 1) = SumOfLast(recent, W - 2) + bytes
        /\ SumOfLast(recent, W - 1) \in Nat /\ SumOfLast(recent, W - 2) \in Nat
    BY <1>2, <1>3, <1>4
  <1> QED BY <1>0, <1>1, <1>2, <1>5 DEF BytesOfLast

\* main: a raw keyframe, for the gap or for a cut that the window allows.
LEMMA CodeKeyPreserves ==
  ASSUME RateInv, NEW next_cut \in BOOLEAN, CodeKey(next_cut)
  PROVE  RateInv'
PROOF
  <1>0. RateTypeOK /\ KEY_RAW_CODED_BYTES \in Nat
    BY RateAssumption DEF RateInv
  <1>1. /\ KeyKind \in {"gap", "scene"} /\ last_raw' = frame_no
        /\ last' = [kind |-> KeyKind, recovered |-> FALSE, reserve |-> FALSE,
                    warned |-> FALSE]
        /\ Written(KEY_RAW_CODED_BYTES, next_cut)
    BY DEF CodeKey, KeyKind
  <1>2. /\ frame_no' \in Nat /\ scene_cut' = next_cut /\ recent' \in Sizes
        /\ BytesOfLast(RATE_WINDOW_FRAMES)'
             = BytesOfLast(RATE_WINDOW_FRAMES - 1) + KEY_RAW_CODED_BYTES
    BY <1>0, <1>1, WrittenWindow
  <1>3. last'.kind = KeyKind /\ last'.recovered = FALSE
    BY <1>1
  <1>4. RateTypeOK'
    BY <1>0, <1>1, <1>2 DEF RateTypeOK
  <1>5. ReserveKept'
    BY <1>3 DEF ReserveKept
  <1>6. OverrunsAnnounced'
    <2>1. CASE KeyKind = "gap"
      BY <1>3, <2>1 DEF OverrunsAnnounced
    <2>2. CASE KeyKind # "gap"
      <3>1. BytesOfLast(RATE_WINDOW_FRAMES - 1) + KEY_RAW_CODED_BYTES <= RATE_WINDOW_BYTES
        BY <1>1, <2>2 DEF KeyKind, rolling_window_allows_frame_bytes,
                          rolling_window_bytes_after
      <3>2. BytesOfLast(RATE_WINDOW_FRAMES)' <= RATE_WINDOW_BYTES
        BY <1>2, <3>1
      <3>3. BytesOfLast(RATE_WINDOW_FRAMES)' \in Nat
        BY <1>0, <1>1, <1>2, WrittenWindow
      <3> QED BY <3>2, <3>3, RateAssumption DEF OverrunsAnnounced
    <2> QED BY <2>1, <2>2
  <1> QED BY <1>4, <1>5, <1>6 DEF RateInv

\* main: a P-frame, of the candidate that the search has chosen.
LEMMA CodePPreserves ==
  ASSUME RateInv, NEW next_cut \in BOOLEAN, CodeP(next_cut)
  PROVE  RateInv'
PROOF
  <1> DEFINE reserve == needs_raw_reserve(next_cut)
  <1>0. RateTypeOK /\ last_raw' = last_raw /\ last_raw \in Int /\ frame_no \in Nat
    BY DEF RateInv, CodeP, RateTypeOK
  <1>1. PICK best \in encode_budgeted_p_frame(reserve) :
          /\ last' = [kind |-> "p", recovered |-> best.recovered, reserve |-> reserve,
                      warned |-> ~budget_and_rate(best)]
          /\ Written(best.bytes, next_cut)
    BY DEF CodeP
  <1>2. reserve \in BOOLEAN
    BY DEF needs_raw_reserve
  <1>3. PICK c \in BudgetBest : best \in Recovered(c, reserve)
    BY <1>1 DEF encode_budgeted_p_frame
  <1> HIDE DEF reserve
  <1>4. c \in Candidate
    BY <1>3, BudgetBestType
  <1>5. best \in Candidate \/ best \in Accepted(reserve)
    BY <1>2, <1>3, <1>4, RecoveredFits
  <1>6. /\ best.bytes \in Nat /\ best.recovered \in BOOLEAN
        /\ best.recovered =>
             rolling_window_allows_quality_recovery_frame_bytes(best.bytes, reserve)
    BY <1>5, RateAssumption DEF Candidate, Accepted, Recovery
  <1>7. /\ frame_no' = frame_no + 1 /\ frame_no' \in Nat
        /\ scene_cut' = next_cut /\ recent' \in Sizes
        /\ BytesOfLast(RATE_WINDOW_FRAMES)' = BytesOfLast(RATE_WINDOW_FRAMES - 1) + best.bytes
        /\ BytesOfLast(RATE_WINDOW_FRAMES - 1)'
             = BytesOfLast(RATE_WINDOW_FRAMES - 2) + best.bytes
        /\ BytesOfLast(RATE_WINDOW_FRAMES - 1) \in Nat
        /\ BytesOfLast(RATE_WINDOW_FRAMES - 2) \in Nat
    BY <1>0, <1>1, <1>6, WrittenWindow
  <1>8. /\ last'.recovered = best.recovered /\ last'.reserve = reserve
        /\ last'.warned = ~budget_and_rate(best)
    BY <1>1
  <1>9. RateTypeOK'
    <2>1. (~budget_and_rate(best)) \in BOOLEAN
      OBVIOUS
    <2> QED BY <1>0, <1>1, <1>2, <1>6, <1>7, <2>1 DEF RateTypeOK
  <1>10. ReserveKept'
    <2> SUFFICES ASSUME best.recovered, reserve
                 PROVE  /\ frame_no' < FrameCount
                        /\ raw_key_due_for_max_gap(frame_no)' \/ scene_cut'
                        /\ rolling_window_bytes_after(KEY_RAW_CODED_BYTES)' <= RATE_WINDOW_BYTES
      BY <1>8 DEF ReserveKept
    <2>1. frame_no + 1 < FrameCount /\ (raw_key_due_for_max_gap(frame_no + 1) \/ next_cut)
      BY DEF reserve, needs_raw_reserve
    <2>2. raw_key_due_for_max_gap(frame_no)' \/ scene_cut'
      BY <1>0, <1>7, <2>1 DEF raw_key_due_for_max_gap
    <2>3. BytesOfLast(RATE_WINDOW_FRAMES - 2) + best.bytes + KEY_RAW_CODED_BYTES
            <= RATE_WINDOW_BYTES
      BY <1>6 DEF rolling_window_allows_quality_recovery_frame_bytes,
                  rolling_window_allows_next_raw_after_frame
    <2>4. rolling_window_bytes_after(KEY_RAW_CODED_BYTES)' <= RATE_WINDOW_BYTES
      BY <1>7, <2>3 DEF rolling_window_bytes_after
    <2> QED BY <1>7, <2>1, <2>2, <2>4
  <1>11. OverrunsAnnounced'
    <2> SUFFICES ASSUME BytesOfLast(RATE_WINDOW_FRAMES)' > RATE_WINDOW_BYTES
                 PROVE  /\ last'.warned
                        /\ last'.recovered =>
                             last'.reserve /\ recent'[1] > KEY_RAW_CODED_BYTES
      BY DEF OverrunsAnnounced
    <2>0. RATE_WINDOW_BYTES \in Nat /\ KEY_RAW_CODED_BYTES \in Nat
      BY RateAssumption
    <2>1. ~rolling_window_allows_frame_bytes(best.bytes)
      BY <1>6, <1>7, <2>0 DEF rolling_window_allows_frame_bytes, rolling_window_bytes_after
    <2>2. last'.warned
      BY <1>8, <2>1 DEF budget_and_rate
    <2>3. ASSUME best.recovered PROVE reserve /\ recent'[1] > KEY_RAW_CODED_BYTES
      <3>1. reserve
        BY <1>6, <2>1, <2>3 DEF rolling_window_allows_quality_recovery_frame_bytes
      <3>2. BytesOfLast(RATE_WINDOW_FRAMES - 2) + best.bytes + KEY_RAW_CODED_BYTES
              <= RATE_WINDOW_BYTES
        BY <1>6, <2>3, <3>1 DEF rolling_window_allows_quality_recovery_frame_bytes,
                                rolling_window_allows_next_raw_after_frame
      <3>3. BytesOfLast(RATE_WINDOW_FRAMES - 1)' + KEY_RAW_CODED_BYTES <= RATE_WINDOW_BYTES
        BY <1>6, <1>7, <2>0, <3>2
      <3>4. BytesOfLast(RATE_WINDOW_FRAMES)'
              <= BytesOfLast(RATE_WINDOW_FRAMES - 1)' + KEY_RAW_CODED_BYTES
              \/ recent'[1] > KEY_RAW_CODED_BYTES
        BY <1>7, <2>0, OldestInWindow DEF BytesOfLast
      <3> QED BY <1>6, <1>7, <2>0, <3>1, <3>3, <3>4
    <2> QED BY <1>8, <2>2, <2>3
  <1> QED BY <1>9, <1>10, <1>11 DEF RateInv

\* Every frame keeps the window's bookkeeping.
LEMMA RateStep == RateInv /\ [RateNext]_rateVars => RateInv'
PROOF
  <1> SUFFICES ASSUME RateInv, [RateNext]_rateVars PROVE RateInv'
    OBVIOUS
  <1>1. ASSUME NEW next_cut \in BOOLEAN, CodeKey(next_cut) PROVE RateInv'
    BY <1>1, CodeKeyPreserves
  <1>2. ASSUME NEW next_cut \in BOOLEAN, CodeP(next_cut) PROVE RateInv'
    BY <1>2, CodePPreserves
  <1>3. CASE UNCHANGED rateVars
    BY <1>3 DEF rateVars, RateInv, RateTypeOK, ReserveKept, OverrunsAnnounced, BytesOfLast,
                raw_key_due_for_max_gap, rolling_window_bytes_after
  <1> QED BY <1>1, <1>2, <1>3 DEF RateNext, Finished

\* The window kept by main is the sum of the last frames at every frame.
THEOREM RateInvHolds == RateSpec => []RateInv
PROOF
  <1>1. RateInit => RateInv
    <2> SUFFICES ASSUME RateInit PROVE RateInv
      OBVIOUS
    <2>1. RateTypeOK /\ ReserveKept
      <3>1. <<>> \in Sizes
        BY RateAssumption DEF Sizes
      <3>2. RateTypeOK
        <4>1. recent \in Sizes
          BY <3>1, Zenon DEF RateInit
        <4>2. frame_no \in Nat /\ last_raw \in Int
          <5>1. frame_no = 0 /\ last_raw = -1
            BY DEF RateInit, NoRaw
          <5> QED BY <5>1
        <4>4. scene_cut \in BOOLEAN
          BY Zenon DEF RateInit
        <4>3. last \in [kind : {"none", "gap", "scene", "p"}, recovered : BOOLEAN,
                        reserve : BOOLEAN, warned : BOOLEAN]
          BY DEF RateInit
        <4> QED BY <4>1, <4>2, <4>3, <4>4, Zenon DEF RateTypeOK
      <3>3. ReserveKept
        BY DEF RateInit, ReserveKept
      <3> QED BY <3>2, <3>3
    <2>2. OverrunsAnnounced
      <3>1. RATE_WINDOW_FRAMES \in 0 .. RATE_WINDOW_FRAMES /\ RATE_WINDOW_BYTES \in Nat
        BY RateAssumption
      <3>2. BytesOfLast(RATE_WINDOW_FRAMES) = 0
        BY <3>1, SumOfNone DEF RateInit, BytesOfLast
      <3> QED BY <3>1, <3>2 DEF OverrunsAnnounced
    <2> QED BY <2>1, <2>2 DEF RateInv
  <1> QED BY <1>1, RateStep, PTL DEF RateSpec

\* The last RATE_WINDOW_FRAMES frames take more than RATE_WINDOW_BYTES only
\* if the last of them is a keyframe that the gap forces or a P-frame that
\* main has warned of, never by a scene keyframe; nor by quality recovery,
\* but that a frame recovered under a reserve may end a window whose oldest
\* frame is larger than the raw key that the reserve is for.
THEOREM OverrunsAnnouncedHolds == RateSpec => []OverrunsAnnounced
PROOF
  <1>1. RateInv => OverrunsAnnounced
    BY DEF RateInv
  <1> QED BY <1>1, RateInvHolds, PTL

\* A frame recovered under a reserve leaves room: the next frame is the
\* keyframe the reserve was kept for (next_frame_needs_raw_reserve and the
\* decision of main one frame later agree), and it is within the window.
THEOREM ReservedKeyFollowsHolds == RateSpec => ReservedKeyFollows
PROOF
  <1> DEFINE Kept == last.recovered /\ last.reserve =>
                       /\ last'.kind \in {"gap", "scene"}
                       /\ rolling_window_bytes_after(KEY_RAW_CODED_BYTES) <= RATE_WINDOW_BYTES
  <1>1. RateInv /\ [RateNext]_rateVars => [Kept]_rateVars
    <2> SUFFICES ASSUME RateInv, RateNext, last.recovered, last.reserve, ~UNCHANGED rateVars
                 PROVE  /\ last'.kind \in {"gap", "scene"}
                        /\ rolling_window_bytes_after(KEY_RAW_CODED_BYTES) <= RATE_WINDOW_BYTES
      OBVIOUS
    <2>1. /\ raw_key_due_for_max_gap(frame_no) \/ scene_cut
          /\ rolling_window_bytes_after(KEY_RAW_CODED_BYTES) <= RATE_WINDOW_BYTES
      BY DEF RateInv, ReserveKept
    <2>2. KeyKind \in {"gap", "scene"}
      BY <2>1 DEF KeyKind, rolling_window_allows_frame_bytes
    <2>3. PICK next_cut \in BOOLEAN : CodeKey(next_cut)
      BY <2>2 DEF RateNext, CodeP, Finished
    <2>4. last'.kind = KeyKind
      BY <2>3 DEF CodeKey
    <2> QED BY <2>1, <2>2, <2>4
  <1> QED BY <1>1, RateInvHolds, PTL DEF RateSpec, ReservedKeyFollows

-----------------------------------------------------------------------------
(* The two passes *)

\* The metrics of frame i in the first pass.
MetricsOf(i) == [no |-> i, show |-> frames[i]]

-----------------------------------------------------------------------------
(* The inductive invariant *)

\* The first pass: the file has the metrics of the frames, in order, up to
\* the last one coded or the one before.
FileInv ==
  /\ frames \in Streams
  /\ interface \in {"packets", "bytes"}
  /\ pass \in {1, 2}
  /\ retrieved \in BOOLEAN
  /\ ncoded \in 0 .. Len(frames)
  /\ ~retrieved => ncoded > 0
  /\ file \in Seq(Metrics)
  /\ Len(file) = IF retrieved THEN ncoded ELSE ncoded - 1
  /\ \A i \in 1 .. Len(file) : file[i] = MetricsOf(i)
  /\ pass = 2 => retrieved /\ ncoded = Len(frames)

RcType ==
  [total : Nat, delay : Nat, frame_metrics : [0 .. nmetrics - 1 -> Metrics],
   head : 0 .. nmetrics - 1, nframe_metrics : Nat, nframes_left : Nat,
   window_nframes : Nat, window_ntus : Int, cur_metrics : Metrics,
   ready : BOOLEAN, coded : Nat, failed : BOOLEAN]

\* The window of a finite buffer: the ring buffer holds the metrics of the
\* next frames from its head on, and the window counts those that are shown.
RingInv(r) ==
  /\ r.delay \in 1 .. ReservoirDelay
  /\ r.nframe_metrics = r.window_nframes
  /\ r.window_nframes <= nmetrics
  /\ \A j \in 0 .. r.window_nframes - 1 :
       r.frame_metrics[wrap(r.head + j)] = MetricsOf(r.coded + 1 + j)
  /\ r.window_ntus
       = Cardinality(ShownIn(frames, r.coded + 1, r.coded + r.window_nframes))

\* The second pass with a summary, when the next metrics in the file are
\* those of frame p.
SummaryInv(r, p) ==
  /\ r.total = Len(frames)
  /\ r.coded <= r.total
  /\ r.nframes_left = r.total - r.coded
  /\ r.window_nframes <= r.nframes_left
  /\ r.ready => r.coded < r.total /\ r.cur_metrics = MetricsOf(r.coded + 1)
  /\ IF finite_buffer
     THEN /\ RingInv(r)
          /\ p = r.coded + r.window_nframes + 1
          /\ r.ready => r.window_nframes > 0
     ELSE /\ r.window_nframes = r.nframes_left
          /\ p = r.coded + 1 + (IF r.ready THEN 1 ELSE 0)

RcInv(r, p) ==
  /\ r \in RcType
  /\ ~r.failed
  /\ r.total = 0 => r = NoRc /\ p = 1
  /\ r.total # 0 => SummaryInv(r, p)

TpInv ==
  /\ FileInv
  /\ fill \in Nat
  /\ RcInv(rc, pos)
  /\ pass = 1 => rc.total = 0
  /\ pass = 2 /\ interface = "packets" => rc.total # 0

-----------------------------------------------------------------------------
(* Counting the shown frames of a window *)

\* The frames of a window are finitely many.
LEMMA ShownFinite ==
  ASSUME NEW s, NEW a \in Int, NEW b \in Int
  PROVE  /\ IsFiniteSet(ShownIn(s, a, b)) /\ IsFiniteSet(HiddenIn(s, a, b))
         /\ Cardinality(ShownIn(s, a, b)) \in Nat /\ Cardinality(HiddenIn(s, a, b)) \in Nat
PROOF
  <1>1. IsFiniteSet(a .. b)
    BY FS_Interval
  <1>2. ShownIn(s, a, b) \in SUBSET (a .. b) /\ HiddenIn(s, a, b) \in SUBSET (a .. b)
    BY DEF ShownIn, HiddenIn
  <1>3. IsFiniteSet(ShownIn(s, a, b)) /\ IsFiniteSet(HiddenIn(s, a, b))
    BY <1>1, <1>2, FS_Subset
  <1> QED BY <1>3, FS_CardinalityType

\* One more frame at the end of the window.
LEMMA ShownGrows ==
  ASSUME NEW s, NEW a \in Int, NEW b \in Int, a <= b, s[b] \in BOOLEAN
  PROVE  Cardinality(ShownIn(s, a, b))
           = Cardinality(ShownIn(s, a, b - 1)) + (IF s[b] THEN 1 ELSE 0)
PROOF
  <1>1. IsFiniteSet(ShownIn(s, a, b - 1)) /\ Cardinality(ShownIn(s, a, b - 1)) \in Nat
    BY ShownFinite
  <1>2. CASE s[b]
    <2>1. ShownIn(s, a, b) = ShownIn(s, a, b - 1) \cup {b} /\ b \notin ShownIn(s, a, b - 1)
      BY <1>2 DEF ShownIn
    <2> QED BY <1>1, <1>2, <2>1, FS_AddElement
  <1>3. CASE ~s[b]
    <2>1. ShownIn(s, a, b) = ShownIn(s, a, b - 1)
      BY <1>3 DEF ShownIn
    <2> QED BY <1>1, <1>3, <2>1
  <1> QED BY <1>2, <1>3

\* One frame less at the front.
LEMMA ShownShrinks ==
  ASSUME NEW s, NEW a \in Int, NEW b \in Int, a <= b, s[a] \in BOOLEAN
  PROVE  Cardinality(ShownIn(s, a + 1, b))
           = Cardinality(ShownIn(s, a, b)) - (IF s[a] THEN 1 ELSE 0)
PROOF
  <1>1. IsFiniteSet(ShownIn(s, a, b)) /\ Cardinality(ShownIn(s, a, b)) \in Nat
    BY ShownFinite
  <1>2. CASE s[a]
    <2>1. ShownIn(s, a + 1, b) = ShownIn(s, a, b) \ {a} /\ a \in ShownIn(s, a, b)
      BY <1>2 DEF ShownIn
    <2> QED BY <1>1, <1>2, <2>1, FS_RemoveElement
  <1>3. CASE ~s[a]
    <2>1. ShownIn(s, a + 1, b) = ShownIn(s, a, b)
      BY <1>3 DEF ShownIn
    <2> QED BY <1>1, <1>3, <2>1
  <1> QED BY <1>2, <1>3

\* A window of a stream is at most twice as long as what it shows, but for
\* two frames more.
LEMMA WindowLength ==
  ASSUME NEW s \in Streams, NEW a \in 1 .. Len(s), NEW b \in 1 .. Len(s)
  PROVE  b - a + 1 <= 2 * Cardinality(ShownIn(s, a, b)) + 2
PROOF
  <1> DEFINE sh == ShownIn(s, a, b)
             hd == HiddenIn(s, a, b)
  <1>0. s \in Seq(BOOLEAN) /\ Cardinality(hd) <= Cardinality(sh) + 2
    BY TwoPassAssumption
  <1>1. a .. b = sh \cup hd /\ sh \cap hd = {}
    BY DEF ShownIn, HiddenIn
  <1>2. /\ IsFiniteSet(sh) /\ IsFiniteSet(hd)
        /\ Cardinality(sh) \in Nat /\ Cardinality(hd) \in Nat
    BY ShownFinite
  <1> HIDE DEF sh, hd
  <1>3. Cardinality(a .. b) = Cardinality(sh) + Cardinality(hd) - Cardinality(sh \cap hd)
    BY <1>1, <1>2, FS_Union
  <1>4. Cardinality(sh \cap hd) = 0
    BY <1>1, FS_EmptySet
  <1>5. Cardinality(a .. b) = IF a > b THEN 0 ELSE b - a + 1
    BY FS_Interval
  <1>6. Cardinality(a .. b) = Cardinality(sh) + Cardinality(hd)
    BY <1>2, <1>3, <1>4
  <1> QED BY <1>0, <1>2, <1>5, <1>6 DEF sh

-----------------------------------------------------------------------------
(* The steps of RCState *)

\* The frames of a stream, and the size of the ring buffer.
LEMMA StreamFacts ==
  ASSUME frames \in Streams
  PROVE  /\ frames \in Seq(BOOLEAN) /\ Len(frames) \in Nat \ {0}
         /\ \A i \in 1 .. Len(frames) : frames[i] \in BOOLEAN /\ MetricsOf(i) \in Metrics
         /\ nmetrics \in Nat \ {0} /\ nmetrics = 2 * ReservoirDelay + 8
         /\ NoMetrics \in Metrics
PROOF
  <1>1. frames \in Seq(BOOLEAN) /\ frames # <<>>
    BY TwoPassAssumption
  <1>2. Len(frames) \in Nat \ {0} /\ \A i \in 1 .. Len(frames) : frames[i] \in BOOLEAN
    BY <1>1
  <1>3. \A i \in 1 .. Len(frames) : MetricsOf(i) \in Metrics
    BY <1>2 DEF MetricsOf, Metrics
  <1> QED BY <1>1, <1>2, <1>3, RcAssumption DEF nmetrics, NoMetrics, Metrics

\* parse_frame_data_packet and twopass_parse_frame_data with a finite buffer
\* that needs frames: there is room for the next one, which goes behind the
\* others whether or not the buffer wraps.
LEMMA PushInv ==
  ASSUME frames \in Streams, finite_buffer, NEW r, NEW p, RcInv(r, p), r.total # 0,
         twopass_in_frames_needed(r) > 0
  PROVE  /\ has_room(r) /\ p \in 1 .. Len(frames) /\ r.coded < r.total
         /\ RcInv(push_metrics(r, MetricsOf(p)), p + 1)
         /\ push_metrics(r, MetricsOf(p)).total # 0
         /\ push_metrics(r, MetricsOf(p)).window_nframes > 0
         /\ push_metrics(r, MetricsOf(p)).coded = r.coded
         /\ push_metrics(r, MetricsOf(p)).ready = r.ready
PROOF
  <1> DEFINE m == MetricsOf(p)
             q == push_metrics(r, m)
             N == Len(frames)
             c == r.coded
             w == r.window_nframes
             h == r.head
             ntus == r.window_ntus
             delay == r.delay
             at == wrap(h + w)
             fm == [r.frame_metrics EXCEPT ![at] = m]
  <1>0. r \in RcType /\ ~r.failed /\ SummaryInv(r, p) /\ RingInv(r)
    BY DEF RcInv, SummaryInv
  <1>1. /\ c \in Nat /\ w \in Nat /\ h \in 0 .. nmetrics - 1 /\ ntus \in Int
        /\ delay \in 1 .. ReservoirDelay /\ c <= N /\ w <= N - c /\ p = c + w + 1
    BY <1>0 DEF RcType, SummaryInv, RingInv
  <1>2. r.total = N /\ r.nframes_left = N - c /\ r.nframe_metrics = w
    BY <1>0 DEF SummaryInv, RingInv
  <1>3. /\ N \in Nat /\ nmetrics \in Nat /\ nmetrics = 2 * ReservoirDelay + 8
        /\ ReservoirDelay \in Nat
    BY StreamFacts, RcAssumption
  <1>4. (IF delay - ntus < 0 THEN 0
         ELSE IF delay - ntus > (N - c) - w THEN (N - c) - w ELSE delay - ntus) > 0
    BY <1>2 DEF twopass_in_frames_needed
  <1>5. /\ \A j \in 0 .. w - 1 : r.frame_metrics[wrap(h + j)] = MetricsOf(c + 1 + j)
        /\ ntus = Cardinality(ShownIn(frames, c + 1, c + w))
        /\ r.frame_metrics \in [0 .. nmetrics - 1 -> Metrics]
    BY <1>0 DEF RingInv, RcType
  <1>6. r.ready => r.cur_metrics = MetricsOf(c + 1)
    BY <1>0 DEF SummaryInv
  <1> HIDE DEF c, w, h, ntus, delay, N, q, at, fm, m
  <1>7. ntus < delay /\ w < N - c
    BY <1>1, <1>3, <1>4
  <1>8. p \in 1 .. N /\ c < N
    BY <1>1, <1>3, <1>7
  <1>9. m \in Metrics /\ frames[p] \in BOOLEAN /\ m.show = frames[p]
    BY <1>8, StreamFacts DEF N, m, MetricsOf
  <1>10. w < nmetrics
    <2>1. CASE w = 0
      BY <1>3, <2>1
    <2>2. CASE w # 0
      <3>1. c + 1 \in 1 .. N /\ c + w \in 1 .. N
        BY <1>1, <1>3, <2>2
      <3>2. (c + w) - (c + 1) + 1 <= 2 * ntus + 2
        BY <1>5, <3>1, WindowLength DEF N
      <3> QED BY <1>1, <1>3, <1>7, <3>2
    <2> QED BY <2>1, <2>2
  <1>11. at \in 0 .. nmetrics - 1
    BY <1>1, <1>3, <1>10 DEF wrap, at
  <1>12. fm \in [0 .. nmetrics - 1 -> Metrics] /\ fm[at] = m
         /\ \A i \in 0 .. nmetrics - 1 : i # at => fm[i] = r.frame_metrics[i]
    BY <1>5, <1>9, <1>11 DEF fm
  <1>13. /\ q \in RcType /\ q.total = N /\ q.delay = delay /\ q.head = h
         /\ q.nframe_metrics = w + 1 /\ q.nframes_left = N - c
         /\ q.window_nframes = w + 1
         /\ q.window_ntus = ntus + (IF frames[p] THEN 1 ELSE 0)
         /\ q.cur_metrics = r.cur_metrics /\ q.ready = r.ready /\ q.coded = c
         /\ ~q.failed /\ q.frame_metrics = fm
    <2> DEFINE ntus2 == IF m.show THEN ntus + 1 ELSE ntus
    <2>1. ntus2 \in Int /\ ntus2 = ntus + (IF frames[p] THEN 1 ELSE 0) /\ w + 1 \in Nat
      BY <1>1, <1>9
    <2>2. q = [r EXCEPT !.frame_metrics = fm, !.nframe_metrics = w + 1,
                        !.window_nframes = w + 1, !.window_ntus = ntus2]
      BY <1>0, <1>2 DEF push_metrics, RcType, at, fm, w, ntus, h, q
    <2> HIDE DEF ntus2
    <2> QED BY <1>0, <1>2, <1>12, <2>1, <2>2 DEF RcType, delay, h, c
  <1>14. \A j \in 0 .. w : fm[wrap(h + j)] = MetricsOf(c + 1 + j)
    <2> TAKE j \in 0 .. w
    <2>1. CASE j = w
      <3>1. c + 1 + j = p
        BY <1>1, <2>1
      <3> QED BY <1>12, <2>1, <3>1 DEF at, m
    <2>2. CASE j # w
      <3>1. /\ wrap(h + j) \in 0 .. nmetrics - 1 /\ wrap(h + j) # at
            /\ j \in 0 .. w - 1
        BY <1>1, <1>3, <1>10, <2>2 DEF wrap, at
      <3> QED BY <1>5, <1>12, <3>1
    <2> QED BY <2>1, <2>2
  <1>15. ntus + (IF frames[p] THEN 1 ELSE 0) = Cardinality(ShownIn(frames, c + 1, c + (w + 1)))
    <2>1. c + 1 \in Int /\ p \in Int /\ c + 1 <= p /\ p - 1 = c + w /\ c + (w + 1) = p
      BY <1>1
    <2> QED BY <1>5, <1>9, <2>1, ShownGrows
  <1>16. RingInv(q)
    <2>1. (w + 1) - 1 = w /\ w + 1 <= nmetrics
      BY <1>1, <1>3, <1>10
    <2> QED BY <1>1, <1>13, <1>14, <1>15, <2>1 DEF RingInv
  <1>17. SummaryInv(q, p + 1)
    <2>1. w + 1 <= N - c /\ p + 1 = c + (w + 1) + 1 /\ w + 1 > 0
      BY <1>1, <1>3, <1>7
    <2> QED BY <1>1, <1>6, <1>8, <1>13, <1>16, <2>1 DEF SummaryInv, N
  <1>18. N # 0 /\ w + 1 > 0
    BY <1>1, <1>8
  <1>19. RcInv(q, p + 1)
    BY <1>13, <1>17, <1>18 DEF RcInv
  <1>20. has_room(r) /\ p \in 1 .. Len(frames) /\ r.coded < r.total
    BY <1>2, <1>8, <1>10 DEF has_room, N, c
  <1> QED BY <1>13, <1>18, <1>19, <1>20 DEF q, m, c

\* The metrics at the head of a buffer that is not empty become current: they
\* are those of the next frame.
LEMMA ReadyInv ==
  ASSUME frames \in Streams, finite_buffer, NEW r, NEW p, RcInv(r, p), r.total # 0,
         r.window_nframes > 0
  PROVE  RcInv([r EXCEPT !.ready = TRUE, !.cur_metrics = r.frame_metrics[r.head]], p)
PROOF
  <1> DEFINE q == [r EXCEPT !.ready = TRUE, !.cur_metrics = r.frame_metrics[r.head]]
  <1>0. r \in RcType /\ ~r.failed /\ SummaryInv(r, p) /\ RingInv(r)
    BY DEF RcInv, SummaryInv
  <1>1. /\ r.coded \in Nat /\ r.window_nframes \in Nat /\ r.head \in 0 .. nmetrics - 1
        /\ r.frame_metrics \in [0 .. nmetrics - 1 -> Metrics] /\ r.total \in Nat
        /\ r.nframes_left = r.total - r.coded /\ r.window_nframes <= r.nframes_left
    BY <1>0 DEF RcType, SummaryInv
  <1>2. r.coded < r.total
    BY <1>1
  <1>3. r.frame_metrics[r.head] = MetricsOf(r.coded + 1)
    <2>1. 0 \in 0 .. r.window_nframes - 1 /\ wrap(r.head + 0) = r.head /\ r.coded + 1 + 0 = r.coded + 1
      BY <1>1, StreamFacts DEF wrap
    <2> QED BY <1>0, <2>1 DEF RingInv
  <1>4. r.frame_metrics[r.head] \in Metrics
    BY <1>1
  <1>5. /\ q \in RcType /\ q.total = r.total /\ q.delay = r.delay /\ q.head = r.head
        /\ q.nframe_metrics = r.nframe_metrics /\ q.nframes_left = r.nframes_left
        /\ q.window_nframes = r.window_nframes /\ q.window_ntus = r.window_ntus
        /\ q.cur_metrics = r.frame_metrics[r.head] /\ q.coded = r.coded
        /\ ~q.failed /\ q.frame_metrics = r.frame_metrics
    BY <1>0, <1>4 DEF RcType
  <1> HIDE DEF q
  <1>6. RingInv(q)
    BY <1>0, <1>5 DEF RingInv
  <1>7. SummaryInv(q, p)
    BY <1>0, <1>2, <1>3, <1>5, <1>6 DEF SummaryInv
  <1> QED BY <1>5, <1>7 DEF RcInv, q

\* twopass_in without data: when nothing more is needed and frames are left,
\* the buffer is not empty.
LEMMA NoneInv ==
  ASSUME frames \in Streams, NEW r, NEW p, RcInv(r, p), r.total # 0
  PROVE  RcInv(twopass_in_none(r), p) /\ twopass_in_none(r).total = r.total
PROOF
  <1>0. r \in RcType /\ ~r.failed /\ SummaryInv(r, p)
    BY DEF RcInv
  <1>1. /\ r.coded \in Nat /\ r.window_nframes \in Nat /\ r.total \in Nat
        /\ r.nframes_left = r.total - r.coded /\ r.window_nframes <= r.nframes_left
        /\ r.window_ntus \in Int /\ r.ready \in BOOLEAN
        /\ r.ready => r.coded < r.total
    BY <1>0 DEF RcType, SummaryInv
  <1>2. CASE r.coded >= r.total
    <2>1. r.ready = FALSE
      BY <1>1, <1>2
    <2>2. [r EXCEPT !.ready = FALSE] = r
      BY <1>0, <2>1 DEF RcType
    <2> QED BY <1>2, <2>2 DEF twopass_in_none
  <1>3. CASE ~(r.coded >= r.total) /\ finite_buffer /\ ~r.ready /\ twopass_in_frames_needed(r) = 0
    <2>1. RingInv(r)
      BY <1>0, <1>3 DEF SummaryInv
    <2>2. /\ r.delay \in 1 .. ReservoirDelay
          /\ r.window_ntus = Cardinality(ShownIn(frames, r.coded + 1, r.coded + r.window_nframes))
      BY <2>1 DEF RingInv
    <2>3. r.window_nframes > 0
      <3> SUFFICES ASSUME r.window_nframes = 0 PROVE FALSE
        BY <1>1
      <3>1. ShownIn(frames, r.coded + 1, r.coded + r.window_nframes) = {}
        BY <1>1 DEF ShownIn
      <3>2. r.window_ntus = 0
        BY <2>2, <3>1, FS_EmptySet
      <3>3. (IF r.delay - 0 < 0 THEN 0
             ELSE IF r.delay - 0 > (r.total - r.coded) - 0 THEN (r.total - r.coded) - 0
             ELSE r.delay - 0) = 0
        BY <1>1, <1>3, <3>2 DEF twopass_in_frames_needed
      <3> QED BY <1>1, <1>3, <2>2, <3>3, RcAssumption
    <2>4. twopass_in_none(r) = [r EXCEPT !.ready = TRUE, !.cur_metrics = r.frame_metrics[r.head]]
      BY <1>3 DEF twopass_in_none
    <2>5. twopass_in_none(r).total = r.total
      BY <1>0, <2>4 DEF RcType
    <2> QED BY <1>3, <2>3, <2>4, <2>5, ReadyInv
  <1>4. CASE ~(r.coded >= r.total) /\ ~(finite_buffer /\ ~r.ready /\ twopass_in_frames_needed(r) = 0)
    BY <1>4 DEF twopass_in_none
  <1> QED BY <1>2, <1>3, <1>4

\* update_state after a frame: its metrics leave the front of the window.
LEMMA UpdateInv ==
  ASSUME frames \in Streams, NEW r, NEW p, RcInv(r, p), r.total # 0, r.ready
  PROVE  RcInv(rc_update_state(r), p) /\ rc_update_state(r).total = r.total
PROOF
  <1> DEFINE N == Len(frames)
             c == r.coded
             w == r.window_nframes
             h == r.head
             ntus == r.window_ntus
             fm == r.frame_metrics
             h2 == IF finite_buffer THEN wrap(h + 1) ELSE h
             nf2 == IF finite_buffer THEN r.nframe_metrics - 1 ELSE r.nframe_metrics
             ntus2 == IF r.cur_metrics.show THEN ntus - 1 ELSE ntus
             q == [r EXCEPT !.coded = c + 1, !.nframes_left = r.nframes_left - 1,
                            !.window_nframes = w - 1, !.window_ntus = ntus2,
                            !.nframe_metrics = nf2, !.head = h2, !.ready = FALSE]
  <1>0. r \in RcType /\ ~r.failed /\ SummaryInv(r, p)
    BY DEF RcInv
  <1>1. /\ c \in Nat /\ w \in Nat /\ h \in 0 .. nmetrics - 1 /\ ntus \in Int
        /\ c < N /\ w <= N - c /\ r.total = N /\ r.nframes_left = N - c
        /\ r.cur_metrics = MetricsOf(c + 1) /\ r.nframe_metrics \in Nat
        /\ fm \in [0 .. nmetrics - 1 -> Metrics]
    BY <1>0 DEF RcType, SummaryInv
  <1>2. N \in Nat /\ nmetrics \in Nat \ {0}
    BY StreamFacts
  <1>3. finite_buffer => /\ RingInv(r) /\ p = c + w + 1 /\ w > 0
    BY <1>0 DEF SummaryInv
  <1>4. ~finite_buffer => w = N - c /\ p = c + 2
    BY <1>0, <1>1 DEF SummaryInv
  <1>5. rc_update_state(r) = twopass_in_none(q)
    BY <1>0 DEF rc_update_state, RcType
  <1>6. r.cur_metrics.show = frames[c + 1] /\ frames[c + 1] \in BOOLEAN
    <2>1. c + 1 \in 1 .. N
      BY <1>1, <1>2
    <2> QED BY <1>1, <2>1, StreamFacts DEF MetricsOf
  <1>7. finite_buffer => /\ r.nframe_metrics = w /\ w <= nmetrics
                         /\ \A j \in 0 .. w - 1 : fm[wrap(h + j)] = MetricsOf(c + 1 + j)
                         /\ ntus = Cardinality(ShownIn(frames, c + 1, c + w))
                         /\ r.delay \in 1 .. ReservoirDelay
    BY <1>3 DEF RingInv
  <1>8. /\ h2 \in 0 .. nmetrics - 1 /\ nf2 \in Nat /\ ntus2 \in Int /\ w - 1 \in Nat
        /\ N - c - 1 \in Nat /\ c + 1 \in Nat
    <2> HIDE DEF c, w, h, ntus, N
    <2> QED BY <1>1, <1>2, <1>3, <1>4, <1>6, <1>7 DEF wrap
  <1>9. /\ q \in RcType /\ q.total = N /\ q.delay = r.delay /\ q.head = h2
        /\ q.nframe_metrics = nf2 /\ q.nframes_left = N - c - 1
        /\ q.window_nframes = w - 1 /\ q.window_ntus = ntus2
        /\ q.ready = FALSE /\ q.coded = c + 1
        /\ ~q.failed /\ q.frame_metrics = fm
    <2> HIDE DEF h2, nf2, ntus2
    <2> QED BY <1>0, <1>1, <1>8 DEF RcType
  <1>10. ASSUME finite_buffer PROVE RingInv(q) /\ p = (c + 1) + (w - 1) + 1
    <2> HIDE DEF c, w, h, ntus, N, fm, q
    <2>1. \A j \in 0 .. (w - 1) - 1 : fm[wrap(h2 + j)] = MetricsOf(c + 1 + 1 + j)
      <3> TAKE j \in 0 .. (w - 1) - 1
      <3>1. wrap(h2 + j) = wrap(h + (j + 1)) /\ j + 1 \in 0 .. w - 1
        BY <1>1, <1>2, <1>7, <1>10 DEF wrap
      <3>2. c + 1 + (j + 1) = c + 1 + 1 + j
        BY <1>1
      <3> QED BY <1>7, <1>10, <3>1, <3>2
    <2>2. ntus2 = Cardinality(ShownIn(frames, c + 1 + 1, (c + 1) + (w - 1)))
      <3>1. c + 1 \in Int /\ c + w \in Int /\ c + 1 <= c + w /\ (c + 1) + (w - 1) = c + w
        BY <1>1, <1>3, <1>10
      <3>2. Cardinality(ShownIn(frames, c + 1 + 1, c + w))
              = ntus - (IF frames[c + 1] THEN 1 ELSE 0)
        BY <1>6, <1>7, <1>10, <3>1, ShownShrinks
      <3> QED BY <1>1, <1>6, <3>1, <3>2
    <2>3. nf2 = w - 1 /\ w - 1 <= nmetrics
      BY <1>1, <1>2, <1>7, <1>10
    <2>4. p = (c + 1) + (w - 1) + 1
      BY <1>1, <1>3, <1>10
    <2> HIDE DEF ntus2, h2, nf2
    <2> QED BY <1>7, <1>9, <1>10, <2>1, <2>2, <2>3, <2>4 DEF RingInv
  <1>11. SummaryInv(q, p)
    <2> HIDE DEF c, w, h, ntus, N, fm, q, ntus2, h2, nf2
    <2>1. c + 1 <= N /\ N - c - 1 = N - (c + 1) /\ w - 1 <= N - c - 1
      BY <1>1, <1>2
    <2>2. ~finite_buffer => w - 1 = N - c - 1 /\ p = (c + 1) + 1 + 0
      BY <1>1, <1>2, <1>4
    <2> QED BY <1>9, <1>10, <2>1, <2>2 DEF SummaryInv, N
  <1>12. N # 0
    BY <1>1, <1>2
  <1>13. RcInv(q, p) /\ q.total # 0 /\ q.total = r.total
    <2> HIDE DEF q, N
    <2> QED BY <1>1, <1>9, <1>11, <1>12 DEF RcInv
  <1> HIDE DEF q
  <1> QED BY <1>5, <1>13, NoneInv

\* Without a finite buffer the data of the next frame alone is read, once.
LEMMA ReadInv ==
  ASSUME frames \in Streams, ~finite_buffer, NEW r, NEW p, RcInv(r, p), r.total # 0,
         ~r.ready, r.coded < r.total
  PROVE  /\ p \in 1 .. Len(frames)
         /\ RcInv([r EXCEPT !.cur_metrics = MetricsOf(p), !.ready = TRUE], p + 1)
PROOF
  <1> DEFINE q == [r EXCEPT !.cur_metrics = MetricsOf(p), !.ready = TRUE]
  <1>0. r \in RcType /\ ~r.failed /\ SummaryInv(r, p)
    BY DEF RcInv
  <1>1. /\ r.coded \in Nat /\ r.total = Len(frames) /\ p = r.coded + 1 /\ r.total \in Nat
    BY <1>0 DEF RcType, SummaryInv
  <1>2. p \in 1 .. Len(frames) /\ p + 1 = r.coded + 1 + 1
    BY <1>1
  <1>3. MetricsOf(p) \in Metrics
    BY <1>2, StreamFacts
  <1>4. /\ q \in RcType /\ q.total = r.total /\ q.nframes_left = r.nframes_left
        /\ q.window_nframes = r.window_nframes /\ q.ready = TRUE
        /\ q.cur_metrics = MetricsOf(p) /\ q.coded = r.coded /\ ~q.failed
    BY <1>0, <1>3 DEF RcType
  <1> HIDE DEF q
  <1>5. SummaryInv(q, p + 1)
    BY <1>0, <1>1, <1>2, <1>4 DEF SummaryInv
  <1> QED BY <1>2, <1>4, <1>5 DEF RcInv, q

\* parse_frame_data_packet, when rc_second_pass_data_required has asked for
\* the packet: it is not refused.
LEMMA PacketInv ==
  ASSUME frames \in Streams, NEW r, NEW p, RcInv(r, p), r.total # 0,
         r.coded < r.total, twopass_in_frames_needed(r) > 0
  PROVE  /\ RcInv(parse_frame_data_packet(r, MetricsOf(p)), p + 1)
         /\ parse_frame_data_packet(r, MetricsOf(p)).total # 0
PROOF
  <1>0. r \in RcType
    BY DEF RcInv
  <1>1. CASE ~finite_buffer
    <2>1. ~r.ready
      BY <1>1 DEF twopass_in_frames_needed
    <2>2. parse_frame_data_packet(r, MetricsOf(p))
            = [r EXCEPT !.cur_metrics = MetricsOf(p), !.ready = TRUE]
      BY <1>1 DEF parse_frame_data_packet
    <2>3. parse_frame_data_packet(r, MetricsOf(p)).total = r.total
      BY <1>0, <2>2 DEF RcType
    <2> QED BY <1>1, <2>1, <2>2, <2>3, ReadInv
  <1>2. CASE finite_buffer
    <2> DEFINE s == push_metrics(r, MetricsOf(p))
    <2>1. has_room(r) /\ RcInv(s, p + 1) /\ s.total # 0 /\ s.window_nframes > 0
      BY <1>2, PushInv
    <2>2. twopass_in_frames_needed(r) # 0
      OBVIOUS
    <2> HIDE DEF s
    <2>3. s \in RcType
      BY <2>1 DEF RcInv
    <2>4. CASE twopass_in_frames_needed(r) = 1
      <3>1. parse_frame_data_packet(r, MetricsOf(p))
              = [s EXCEPT !.ready = TRUE, !.cur_metrics = s.frame_metrics[s.head]]
        BY <1>2, <2>1, <2>2, <2>4 DEF parse_frame_data_packet, s
      <3>2. parse_frame_data_packet(r, MetricsOf(p)).total = s.total
        BY <2>3, <3>1 DEF RcType
      <3> QED BY <1>2, <2>1, <3>1, <3>2, ReadyInv
    <2>5. CASE twopass_in_frames_needed(r) # 1
      <3>1. parse_frame_data_packet(r, MetricsOf(p)) = s
        BY <1>2, <2>1, <2>2, <2>5 DEF parse_frame_data_packet, s
      <3> QED BY <2>1, <3>1
    <2> QED BY <2>4, <2>5
  <1> QED BY <1>1, <1>2

\* No summary yet.
LEMMA NoRcInv ==
  ASSUME frames \in Streams
  PROVE  RcInv(NoRc, 1) /\ NoRc.total = 0
PROOF
  <1> DEFINE fm == [i \in 0 .. nmetrics - 1 |-> NoMetrics]
  <1>1. /\ fm \in [0 .. nmetrics - 1 -> Metrics] /\ 0 \in 0 .. nmetrics - 1
        /\ NoMetrics \in Metrics
    BY StreamFacts
  <1>2. (IF finite_buffer /\ ReservoirDelay < 0 THEN ReservoirDelay ELSE 0) = 0
        /\ (IF finite_buffer THEN 0 ELSE 0) = 0
    BY RcAssumption
  <1> HIDE DEF fm
  <1>3. NoRc \in RcType /\ NoRc.total = 0 /\ ~NoRc.failed
    BY <1>1, <1>2 DEF NoRc, setup_second_pass, RcType, fm
  <1> QED BY <1>3 DEF RcInv

\* A complete file has the metrics of all frames, and its summary counts at
\* least one TU.
LEMMA FileFacts ==
  ASSUME FileInv, retrieved, ncoded = Len(frames)
  PROVE  /\ Len(file) = Len(frames) /\ Shown(file) \in Nat \ {0}
         /\ \A i \in 1 .. Len(frames) : file[i] = MetricsOf(i)
PROOF
  <1>1. /\ frames \in Streams /\ file \in Seq(Metrics) /\ Len(file) = Len(frames)
        /\ \A i \in 1 .. Len(frames) : file[i] = MetricsOf(i)
    BY DEF FileInv
  <1>2. Len(frames) \in 1 .. Len(frames) /\ frames[Len(frames)]
    BY <1>1, StreamFacts, TwoPassAssumption
  <1>2a. frames[Len(frames)] = TRUE
    BY <1>1, <1>2, StreamFacts
  <1> DEFINE S == {i \in DOMAIN file : file[i].show}
  <1>3. Len(frames) \in S
    <2>1. Len(frames) \in DOMAIN file
      BY <1>1, <1>2
    <2>2. file[Len(frames)] = [no |-> Len(frames), show |-> TRUE]
      BY <1>1, <1>2, <1>2a DEF MetricsOf
    <2>3. file[Len(frames)].show = TRUE
      BY <2>2
    <2> QED BY <2>1, <2>3
  <1>4. IsFiniteSet(S)
    <2>1. DOMAIN file = 1 .. Len(file) /\ Len(file) \in Nat
      BY <1>1
    <2>2. IsFiniteSet(1 .. Len(file))
      BY <2>1, FS_Interval
    <2>3. S \in SUBSET (1 .. Len(file))
      BY <2>1
    <2> QED BY <2>2, <2>3, FS_Subset
  <1> HIDE DEF S
  <1>5. Cardinality(S) \in Nat /\ Cardinality(S) # 0
    BY <1>3, <1>4, FS_CardinalityType, FS_EmptySet
  <1> QED BY <1>1, <1>5 DEF Shown, S

\* The summary begins the second pass before its first frame.
LEMMA SetupInv ==
  ASSUME frames \in Streams, NEW ntus \in Nat \ {0}
  PROVE  /\ RcInv(setup_second_pass(Len(frames), ntus), 1)
         /\ setup_second_pass(Len(frames), ntus).total # 0
PROOF
  <1> DEFINE N == Len(frames)
             fm == [i \in 0 .. nmetrics - 1 |-> NoMetrics]
             w == IF finite_buffer THEN 0 ELSE N
             delay == IF finite_buffer /\ ReservoirDelay < ntus THEN ReservoirDelay ELSE ntus
             q == setup_second_pass(N, ntus)
  <1>1. /\ fm \in [0 .. nmetrics - 1 -> Metrics] /\ 0 \in 0 .. nmetrics - 1
        /\ NoMetrics \in Metrics /\ N \in Nat \ {0} /\ nmetrics \in Nat
    BY StreamFacts
  <1>2. /\ delay \in Nat /\ w \in Nat /\ w <= N
        /\ finite_buffer => delay \in 1 .. ReservoirDelay /\ w = 0
        /\ ~finite_buffer => w = N
    BY <1>1, RcAssumption DEF finite_buffer
  <1>3. q = [total |-> N, delay |-> delay, frame_metrics |-> fm, head |-> 0,
             nframe_metrics |-> 0, nframes_left |-> N, window_nframes |-> w,
             window_ntus |-> 0, cur_metrics |-> NoMetrics, ready |-> FALSE,
             coded |-> 0, failed |-> FALSE]
    BY DEF setup_second_pass
  <1> HIDE DEF fm, w, delay, q, N
  <1>4. /\ q \in RcType /\ q.total = N /\ q.delay = delay
        /\ q.nframe_metrics = 0 /\ q.nframes_left = N /\ q.window_nframes = w
        /\ q.window_ntus = 0 /\ q.ready = FALSE /\ q.coded = 0 /\ ~q.failed
    BY <1>1, <1>2, <1>3 DEF RcType
  <1>5. ASSUME finite_buffer PROVE RingInv(q)
    <2>1. ShownIn(frames, 0 + 1, 0 + 0) = {}
      BY DEF ShownIn
    <2>2. 0 = Cardinality(ShownIn(frames, 0 + 1, 0 + 0))
      BY <2>1, FS_EmptySet
    <2>3. w = 0 /\ 0 <= nmetrics
      BY <1>1, <1>2, <1>5
    <2> QED BY <1>2, <1>4, <1>5, <2>2, <2>3 DEF RingInv
  <1>6. SummaryInv(q, 1)
    <2>1. (N - 0 = N /\ 0 <= N /\ w <= N /\ 1 = 0 + w + 1) \/ ~finite_buffer
      BY <1>1, <1>2
    <2>2. N - 0 = N /\ 0 <= N /\ 1 = 0 + 1 + 0
      BY <1>1
    <2> QED BY <1>2, <1>4, <1>5, <2>1, <2>2 DEF SummaryInv, N
  <1>7. RcInv(q, 1) /\ q.total # 0
    BY <1>1, <1>4, <1>6 DEF RcInv
  <1> QED BY <1>7 DEF q, N

-----------------------------------------------------------------------------
(* twopass_in *)

\* The second pass between two bytes.
Good(s) ==
  /\ s \in [rc : RcType, fill : Nat, pos : Nat]
  /\ RcInv(s.rc, s.pos)

\* A byte.
LEMMA ByteInv ==
  ASSUME FileInv, pass = 2, NEW s, Good(s)
  PROVE  Good(twopass_in_byte(s))
PROOF
  <1> DEFINE r == s.rc
             t == twopass_in_byte(s)
  <1>0. /\ frames \in Streams /\ s \in [rc : RcType, fill : Nat, pos : Nat]
        /\ RcInv(r, s.pos) /\ s.fill + 1 \in Nat /\ s.pos + 1 \in Nat
    BY DEF FileInv, Good
  <1>1. /\ Len(file) = Len(frames) /\ Shown(file) \in Nat \ {0}
        /\ \A i \in 1 .. Len(frames) : file[i] = MetricsOf(i)
    BY FileFacts DEF FileInv
  <1>2. CASE t = [s EXCEPT !.fill = @ + 1]
    <2>1. t \in [rc : RcType, fill : Nat, pos : Nat] /\ t.rc = r /\ t.pos = s.pos
      BY <1>0, <1>2
    <2> QED BY <1>0, <2>1 DEF Good
  <1>3. ASSUME NEW u, RcInv(u, s.pos), NEW f \in Nat, t = [s EXCEPT !.rc = u, !.fill = f]
        PROVE  Good(t)
    <2>1. t \in [rc : RcType, fill : Nat, pos : Nat] /\ t.rc = u /\ t.pos = s.pos
      BY <1>0, <1>3 DEF RcInv
    <2> QED BY <1>3, <2>1 DEF Good
  <1>4. CASE r.total = 0 /\ ~(s.fill + 1 < HDR)
    <2> DEFINE u == setup_second_pass(Len(file), Shown(file))
    <2>1. s.pos = 1 /\ RcInv(u, 1)
      BY <1>0, <1>1, <1>4, SetupInv DEF RcInv
    <2>2. t = [s EXCEPT !.rc = u, !.fill = 0]
      BY <1>4 DEF twopass_in_byte
    <2> HIDE DEF u, t
    <2>3. Good(t)
      BY <1>3, <2>1, <2>2
    <2> QED BY <2>3 DEF t
  <1>5. CASE r.total # 0 /\ r.coded >= r.total
    <2>1. r \in RcType /\ SummaryInv(r, s.pos)
      BY <1>0, <1>5 DEF RcInv
    <2>2. r.ready = FALSE
      <3>1. r.coded \in Nat /\ r.total \in Nat /\ r.ready \in BOOLEAN
            /\ (r.ready => r.coded < r.total)
        BY <2>1 DEF RcType, SummaryInv
      <3> QED BY <1>5, <3>1
    <2>3. t = [s EXCEPT !.rc = [r EXCEPT !.ready = FALSE]]
      BY <1>5 DEF twopass_in_byte
    <2>4. [r EXCEPT !.ready = FALSE] = r
      BY <2>1, <2>2 DEF RcType
    <2>5. t = s
      BY <1>0, <2>3, <2>4
    <2> QED BY <2>5
  <1>6. CASE r.total # 0 /\ ~(r.coded >= r.total) /\ r.ready
    BY <1>6 DEF twopass_in_byte
  <1>7. CASE r.total # 0 /\ ~(r.coded >= r.total) /\ ~r.ready /\ twopass_in_frames_needed(r) = 0
    <2>1. t = [s EXCEPT !.rc = twopass_in_none(r)]
      BY <1>7 DEF twopass_in_byte
    <2>2. RcInv(twopass_in_none(r), s.pos)
      BY <1>0, <1>7, NoneInv
    <2> DEFINE u == twopass_in_none(r)
    <2> HIDE DEF u, t
    <2>3. t = [s EXCEPT !.rc = u, !.fill = s.fill]
      BY <1>0, <2>1 DEF u
    <2>4. RcInv(u, s.pos) /\ s.fill \in Nat
      BY <1>0, <2>2 DEF u
    <2>5. Good(t)
      BY <1>3, <2>3, <2>4
    <2> QED BY <2>5 DEF t
  <1>8. CASE /\ r.total # 0 /\ ~(r.coded >= r.total) /\ ~r.ready
             /\ ~(twopass_in_frames_needed(r) = 0) /\ ~(s.fill + 1 < PKT)
    <2> DEFINE m == file[s.pos]
               u == IF ~finite_buffer THEN [r EXCEPT !.cur_metrics = m, !.ready = TRUE]
                    ELSE IF ~has_room(r) THEN [r EXCEPT !.failed = TRUE]
                    ELSE twopass_in_none(push_metrics(r, m))
    <2>1. t = [rc |-> u, fill |-> 0, pos |-> s.pos + 1]
      BY <1>8 DEF twopass_in_byte, parse_buffered
    <2>2. r.coded < r.total /\ twopass_in_frames_needed(r) > 0
      <3>1. /\ r.coded \in Nat /\ r.total \in Nat /\ r.delay \in Nat /\ r.window_ntus \in Int
            /\ r.nframes_left \in Nat /\ r.window_nframes \in Nat
            /\ r.window_nframes <= r.nframes_left
        BY <1>0, <1>8 DEF RcInv, RcType, SummaryInv
      <3> QED BY <1>8, <3>1 DEF twopass_in_frames_needed
    <2>3. RcInv(u, s.pos + 1)
      <3>1. CASE ~finite_buffer
        <4>1. s.pos \in 1 .. Len(frames)
              /\ RcInv([r EXCEPT !.cur_metrics = MetricsOf(s.pos), !.ready = TRUE], s.pos + 1)
          BY <1>0, <1>8, <2>2, <3>1, ReadInv
        <4>2. m = MetricsOf(s.pos)
          BY <1>1, <4>1
        <4> QED BY <3>1, <4>1, <4>2
      <3>2. CASE finite_buffer
        <4> DEFINE v == push_metrics(r, MetricsOf(s.pos))
        <4>1. has_room(r) /\ s.pos \in 1 .. Len(frames) /\ RcInv(v, s.pos + 1) /\ v.total # 0
          BY <1>0, <1>8, <2>2, <3>2, PushInv
        <4>2. m = MetricsOf(s.pos)
          BY <1>1, <4>1
        <4>3. u = twopass_in_none(v)
          BY <3>2, <4>1, <4>2
        <4> HIDE DEF u, v
        <4> QED BY <1>0, <4>1, <4>3, NoneInv
      <3> QED BY <3>1, <3>2
    <2> HIDE DEF u, t
    <2>4. t \in [rc : RcType, fill : Nat, pos : Nat] /\ t.rc = u /\ t.pos = s.pos + 1
      BY <1>0, <2>1, <2>3 DEF RcInv
    <2> QED BY <2>3, <2>4 DEF Good, t
  <1>9. CASE \/ r.total = 0 /\ s.fill + 1 < HDR
             \/ /\ r.total # 0 /\ ~(r.coded >= r.total) /\ ~r.ready
                /\ ~(twopass_in_frames_needed(r) = 0) /\ s.fill + 1 < PKT
    BY <1>2, <1>9 DEF twopass_in_byte
  <1> QED BY <1>4, <1>5, <1>6, <1>7, <1>8, <1>9

\* A call of twopass_in with any number of bytes.
LEMMA PieceInv ==
  ASSUME FileInv, pass = 2, NEW n \in Nat, NEW s0, Good(s0),
         NEW after,
         after = CHOOSE f : f = [k \in 0 .. n |-> IF k = 0 THEN s0 ELSE twopass_in_byte(f[k - 1])]
  PROVE  Good(after[n])
PROOF
  <1> DEFINE D == {s \in [rc : RcType, fill : Nat, pos : Nat] : Good(s)}
             F == [p \in (1 .. n) \X D |-> twopass_in_byte(p[2])]
             IsAfter(f) == f = [k \in 0 .. n |-> IF k = 0 THEN s0 ELSE twopass_in_byte(f[k - 1])]
  <1>1. s0 \in D /\ \A s \in D : twopass_in_byte(s) \in D
    <2>1. \A s : Good(s) => s \in D
      BY DEF Good
    <2>2. \A s \in D : Good(s)
      OBVIOUS
    <2> HIDE DEF D
    <2> QED BY <2>1, <2>2, ByteInv
  <1>2. F \in [(1 .. n) \X D -> D]
    <2> HIDE DEF D
    <2> QED BY <1>1
  <1>3. PICK f \in [0 .. n -> D] : StepsBy(f, n, s0, F)
    <2> HIDE DEF F, D
    <2> QED BY <1>1, <1>2, RecursionUpTo
  <1>4. IsAfter(f)
    <2> HIDE DEF D
    <2>1. \A k \in 0 .. n : k # 0 => k \in 1 .. n /\ <<k, f[k - 1]>> \in (1 .. n) \X D
      BY <1>3
    <2>2. f[0] = s0 /\ \A k \in 1 .. n : f[k] = F[<<k, f[k - 1]>>]
      <3> HIDE DEF F
      <3> QED BY <1>3 DEF StepsBy
    <2>3. \A k \in 0 .. n : k # 0 => f[k] = twopass_in_byte(f[k - 1])
      BY <2>1, <2>2
    <2> QED BY <1>3, <2>2, <2>3
  <1>5. IsAfter(after)
    <2>1. after = CHOOSE g : IsAfter(g)
      OBVIOUS
    <2> HIDE DEF IsAfter
    <2> QED BY <1>4, <2>1
  <1> DEFINE S == {k \in 0 .. n : after[k] \in D}
  <1>6. 0 \in S
    <2> HIDE DEF D
    <2>1. 0 \in 0 .. n
      OBVIOUS
    <2>2. after[0] = s0
      BY <1>5, <2>1
    <2> QED BY <1>1, <2>1, <2>2
  <1>7. ASSUME NEW k \in 0 .. n - 1, k \in S PROVE k + 1 \in S
    <2> HIDE DEF D
    <2>1. k + 1 \in 0 .. n /\ k + 1 # 0 /\ (k + 1) - 1 = k /\ after[k] \in D
      BY <1>7
    <2>2. after[k + 1] = twopass_in_byte(after[k])
      BY <1>5, <2>1
    <2> QED BY <1>1, <2>1, <2>2
  <1>8. n \in S
    <2>1. n \in 0 .. n
      OBVIOUS
    <2> HIDE DEF S
    <2> QED BY <1>6, <1>7, <2>1, InductionUpTo
  <1> QED BY <1>8

-----------------------------------------------------------------------------
(* The actions *)

\* The invariant at the beginning.
LEMMA TpInitInv == TpInit => TpInv
PROOF
  <1> SUFFICES ASSUME TpInit PROVE TpInv
    OBVIOUS
  <1>1. frames \in Streams /\ rc = NoRc /\ pos = 1 /\ fill = 0 /\ pass = 1
    BY DEF TpInit
  <1>2. FileInv
    <2>1. file = <<>> /\ Len(file) = 0 /\ file \in Seq(Metrics) /\ Len(frames) \in Nat
      BY <1>1, StreamFacts DEF TpInit
    <2> QED BY <1>1, <2>1 DEF TpInit, FileInv
  <1>3. RcInv(rc, pos) /\ rc.total = 0
    BY <1>1, NoRcInv
  <1> QED BY <1>1, <1>2, <1>3 DEF TpInv

\* The stream does not change, so that what is shown of the next state of the
\* second pass holds there.
LEMMA FramesFixed ==
  ASSUME UNCHANGED frames, RcInv(rc', pos')
  PROVE  RcInv(rc, pos)'
PROOF
  BY DEF RcInv, SummaryInv, RingInv, MetricsOf

\* A frame of the first pass.
LEMMA FirstPassFrameInv == TpInv /\ FirstPassFrame => TpInv'
PROOF
  <1> SUFFICES ASSUME TpInv, FirstPassFrame PROVE TpInv'
    OBVIOUS
  <1>1. /\ pass = 1 /\ retrieved /\ ncoded < Len(frames) /\ ncoded' = ncoded + 1
        /\ retrieved' = FALSE /\ UNCHANGED <<frames, interface, pass, file, rc, fill, pos>>
    BY DEF FirstPassFrame
  <1>2. FileInv /\ frames \in Streams
    BY DEF TpInv, FileInv
  <1>3. Len(frames) \in Nat
    BY <1>2, StreamFacts
  <1>4. FileInv'
    <2>1. ncoded \in 0 .. Len(frames) /\ Len(file) = ncoded /\ ncoded + 1 \in 0 .. Len(frames)
          /\ ncoded + 1 > 0 /\ (ncoded + 1) - 1 = ncoded
      BY <1>1, <1>2, <1>3 DEF FileInv
    <2>2. \A i \in 1 .. Len(file') : file'[i] = MetricsOf(i)'
      BY <1>1, <1>2 DEF FileInv, MetricsOf
    <2>3. /\ frames' \in Streams /\ interface' \in {"packets", "bytes"} /\ pass' \in {1, 2}
          /\ file' \in Seq(Metrics) /\ pass' # 2
      BY <1>1, <1>2 DEF FileInv
    <2>4. /\ retrieved' = FALSE /\ ncoded' \in 0 .. Len(frames') /\ ncoded' > 0
          /\ Len(file') = ncoded' - 1
      BY <1>1, <2>1
    <2> QED BY <2>2, <2>3, <2>4 DEF FileInv
  <1>5. RcInv(rc, pos)'
    BY <1>1, FramesFixed DEF TpInv
  <1> QED BY <1>1, <1>4, <1>5 DEF TpInv

\* Its metrics.
LEMMA EmitFrameDataInv == TpInv /\ EmitFrameData => TpInv'
PROOF
  <1> SUFFICES ASSUME TpInv, EmitFrameData PROVE TpInv'
    OBVIOUS
  <1>1. /\ pass = 1 /\ ~retrieved /\ file' = Append(file, MetricsOf(ncoded))
        /\ retrieved' = TRUE /\ UNCHANGED <<frames, interface, pass, ncoded, rc, fill, pos>>
    BY DEF EmitFrameData, MetricsOf
  <1>2. FileInv /\ frames \in Streams
    BY DEF TpInv, FileInv
  <1>3. /\ ncoded \in 1 .. Len(frames) /\ file \in Seq(Metrics) /\ Len(file) = ncoded - 1
        /\ MetricsOf(ncoded) \in Metrics /\ Len(frames) \in Nat
        /\ \A i \in 1 .. Len(file) : file[i] = MetricsOf(i)
    <2>1. Len(frames) \in Nat
      BY <1>2, StreamFacts
    <2>2. ncoded \in 1 .. Len(frames)
      BY <1>1, <1>2, <2>1 DEF FileInv
    <2> QED BY <1>1, <1>2, <2>1, <2>2, StreamFacts DEF FileInv
  <1>4. FileInv'
    <2>1. file' \in Seq(Metrics) /\ Len(file') = ncoded
      BY <1>1, <1>3
    <2>2. ASSUME NEW i \in 1 .. Len(file') PROVE file'[i] = MetricsOf(i)
      <3>1. CASE i = ncoded
        BY <1>1, <1>3, <3>1
      <3>2. CASE i # ncoded
        <4>1. i \in 1 .. Len(file)
          BY <1>3, <2>1, <3>2
        <4> QED BY <1>1, <1>3, <4>1
      <3> QED BY <3>1, <3>2
    <2>3. \A i \in 1 .. Len(file') : file'[i] = MetricsOf(i)'
      BY <1>1, <2>2 DEF MetricsOf
    <2>4. /\ frames' \in Streams /\ interface' \in {"packets", "bytes"} /\ pass' \in {1, 2}
          /\ retrieved' \in BOOLEAN /\ ncoded' \in 0 .. Len(frames') /\ retrieved'
          /\ Len(file') = ncoded' /\ pass' # 2
      BY <1>1, <1>2, <2>1 DEF FileInv
    <2> QED BY <2>1, <2>3, <2>4 DEF FileInv
  <1>5. RcInv(rc, pos)'
    BY <1>1, FramesFixed DEF TpInv
  <1> QED BY <1>1, <1>4, <1>5 DEF TpInv

\* The summary.
LEMMA EmitSummaryInv == TpInv /\ EmitSummary => TpInv'
PROOF
  <1> SUFFICES ASSUME TpInv, EmitSummary PROVE TpInv'
    OBVIOUS
  <1>1. /\ pass = 1 /\ retrieved /\ ncoded = Len(frames) /\ pass' = 2
        /\ rc' = IF interface = "packets"
                 THEN setup_second_pass(Len(file), Shown(file)) ELSE NoRc
        /\ UNCHANGED <<frames, interface, retrieved, ncoded, file, fill, pos>>
    BY DEF EmitSummary
  <1>2. FileInv /\ frames \in Streams /\ RcInv(rc, pos) /\ rc.total = 0
    BY <1>1 DEF TpInv, FileInv
  <1>3. FileInv'
    BY <1>1, <1>2 DEF FileInv, MetricsOf
  <1>4. pos' = 1 /\ Len(file) = Len(frames) /\ Shown(file) \in Nat \ {0}
    BY <1>1, <1>2, FileFacts DEF RcInv
  <1>5. RcInv(rc', pos') /\ (interface = "packets" => rc'.total # 0)
    <2>1. CASE interface = "packets"
      BY <1>1, <1>2, <1>4, <2>1, SetupInv
    <2>2. CASE interface # "packets"
      BY <1>1, <1>2, <1>4, <2>2, NoRcInv
    <2> QED BY <2>1, <2>2
  <1>6. RcInv(rc, pos)'
    BY <1>1, <1>5, FramesFixed
  <1> QED BY <1>1, <1>3, <1>5, <1>6 DEF TpInv

\* A packet of the second pass.
LEMMA SendPassDataInv == TpInv /\ SendPassData => TpInv'
PROOF
  <1> SUFFICES ASSUME TpInv, SendPassData PROVE TpInv'
    OBVIOUS
  <1>1. /\ pass = 2 /\ interface = "packets" /\ Required
        /\ pos <= Len(file) /\ rc' = parse_frame_data_packet(rc, file[pos]) /\ pos' = pos + 1
        /\ UNCHANGED <<frames, interface, pass, retrieved, ncoded, file, fill>>
    BY DEF SendPassData
  <1>2. FileInv /\ frames \in Streams /\ RcInv(rc, pos) /\ rc.total # 0
    BY <1>1 DEF TpInv, FileInv
  <1>3. FileInv'
    BY <1>1, <1>2 DEF FileInv, MetricsOf
  <1>4. rc.total = Len(frames) /\ rc.coded < rc.total /\ twopass_in_frames_needed(rc) > 0
    BY <1>1, <1>2 DEF RcInv, SummaryInv, Required
  <1>5. file[pos] = MetricsOf(pos)
    <2>1. /\ Len(file) = Len(frames) /\ \A i \in 1 .. Len(frames) : file[i] = MetricsOf(i)
      BY <1>1, <1>2, FileFacts DEF FileInv
    <2>2. rc.coded \in Nat /\ rc.window_nframes \in Nat /\ SummaryInv(rc, pos)
      BY <1>2 DEF RcInv, RcType
    <2>3. pos \in Nat \ {0} /\ Len(frames) \in Nat
      BY <1>2, <2>2, StreamFacts DEF SummaryInv
    <2> QED BY <1>1, <2>1, <2>3
  <1>6. RcInv(rc', pos') /\ rc'.total # 0
    BY <1>1, <1>2, <1>4, <1>5, PacketInv
  <1>7. RcInv(rc, pos)'
    BY <1>1, <1>6, FramesFixed
  <1> QED BY <1>1, <1>3, <1>6, <1>7 DEF TpInv

\* A piece of the second pass.
LEMMA TwopassInInv == ASSUME TpInv, NEW n \in 1 .. MaxPiece, TwopassIn(n) PROVE TpInv'
PROOF
  <1> DEFINE after == CHOOSE f : f = [k \in 0 .. n |->
                        IF k = 0 THEN State2 ELSE twopass_in_byte(f[k - 1])]
  <1>1. /\ pass = 2 /\ interface = "bytes"
        /\ rc' = after[n].rc /\ fill' = after[n].fill /\ pos' = after[n].pos
        /\ UNCHANGED <<frames, interface, pass, retrieved, ncoded, file>>
    BY DEF TwopassIn
  <1>2. FileInv /\ frames \in Streams /\ RcInv(rc, pos) /\ fill \in Nat
    BY <1>1 DEF TpInv, FileInv
  <1>3. FileInv'
    BY <1>1, <1>2 DEF FileInv, MetricsOf
  <1>4. pos \in Nat
    <2>1. rc.coded \in Nat /\ rc.window_nframes \in Nat /\ rc.ready \in BOOLEAN
      BY <1>2 DEF RcInv, RcType
    <2> QED BY <1>2, <2>1 DEF RcInv, SummaryInv
  <1>5. Good(State2)
    BY <1>2, <1>4 DEF Good, State2, RcInv
  <1>6. n \in Nat
    OBVIOUS
  <1>7. Good(after[n])
    <2> PICK a : a = after
      OBVIOUS
    <2> QED BY <1>1, <1>2, <1>5, <1>6, PieceInv
  <1> HIDE DEF after
  <1>8. RcInv(rc', pos') /\ fill' \in Nat
    BY <1>1, <1>7 DEF Good
  <1>9. RcInv(rc, pos)'
    BY <1>1, <1>8, FramesFixed
  <1> QED BY <1>1, <1>3, <1>8, <1>9 DEF TpInv

\* A frame of the second pass.
LEMMA SecondPassFrameInv == TpInv /\ SecondPassFrame => TpInv'
PROOF
  <1> SUFFICES ASSUME TpInv, SecondPassFrame PROVE TpInv'
    OBVIOUS
  <1>1. /\ pass = 2 /\ rc.ready /\ rc' = rc_update_state(rc)
        /\ UNCHANGED <<frames, interface, pass, retrieved, ncoded, file, fill, pos>>
    BY DEF SecondPassFrame
  <1>2. FileInv /\ frames \in Streams /\ RcInv(rc, pos)
    BY <1>1 DEF TpInv, FileInv
  <1>3. FileInv'
    BY <1>1, <1>2 DEF FileInv, MetricsOf
  <1>4. rc.total # 0
    <2>1. NoRc.ready = FALSE
      BY DEF NoRc, setup_second_pass
    <2> QED BY <1>1, <1>2, <2>1 DEF RcInv
  <1>5. RcInv(rc', pos') /\ rc'.total # 0
    BY <1>1, <1>2, <1>4, UpdateInv
  <1>6. RcInv(rc, pos)'
    BY <1>1, <1>5, FramesFixed
  <1> QED BY <1>1, <1>3, <1>5, <1>6 DEF TpInv

\* The invariant holds in every state.
THEOREM TpInvHolds == TpSpec => []TpInv
PROOF
  <1>1. TpInv /\ UNCHANGED tpVars => TpInv'
    BY DEF TpInv, FileInv, RcInv, SummaryInv, RingInv, MetricsOf, tpVars
  <1>2. TpInv /\ [TpNext]_tpVars => TpInv'
    BY <1>1, FirstPassFrameInv, EmitFrameDataInv, EmitSummaryInv, SendPassDataInv,
       TwopassInInv, SecondPassFrameInv DEF TpNext, PollNotReady
  <1> QED BY <1>2, TpInitInv, PTL DEF TpSpec

\* Every frame of the second pass is coded with the metrics of the same frame
\* in the first pass, and no data of a first pass is refused: for every
\* reservoir delay the ring buffer, sized from a delay in TUs, has room for
\* the hidden frames, whichever pieces the data comes in.
THEOREM MetricsOfTheSameFrameHolds == TpSpec => []MetricsOfTheSameFrame
PROOF
  <1>1. TpInv => MetricsOfTheSameFrame
    <2> SUFFICES ASSUME TpInv PROVE MetricsOfTheSameFrame
      OBVIOUS
    <2>1. RcInv(rc, pos) /\ ~rc.failed
      BY DEF TpInv, RcInv
    <2>2. CASE rc.total = 0
      <3>1. rc = NoRc
        BY <2>1, <2>2 DEF RcInv
      <3>2. NoRc.ready = FALSE /\ NoRc.window_nframes = 0 /\ NoRc.nframes_left = 0
        BY DEF NoRc, setup_second_pass
      <3> QED BY <2>1, <3>1, <3>2 DEF MetricsOfTheSameFrame
    <2>3. CASE rc.total # 0
      <3>1. SummaryInv(rc, pos)
        BY <2>1, <2>3 DEF RcInv
      <3> QED BY <2>1, <3>1 DEF SummaryInv, MetricsOf, MetricsOfTheSameFrame
    <2> QED BY <2>2, <2>3
  <1> QED BY <1>1, TpInvHolds, PTL
=============================================================================
