------------------------ MODULE EncoderPipelineProofs ------------------------
(***************************************************************************)
(* The frame pipeline, for every configuration, every sequence of calls,   *)
(* every answer of the scene change detector and any number of frames that *)
(* rate control can count (MaxFrames < RcFrameLimit).                      *)
(*                                                                         *)
(* The argument.  A position of the output sequence belongs to a GOP and   *)
(* so has a frame number, whether or not a frame is built there.  Due(n)   *)
(* is the frame to be displayed next when the positions before n are done. *)
(* The decisions that Due depends on have been taken, so that a later      *)
(* keyframe or the end of the stream does not change it, and what is shown *)
(* at a position is what is due there.                                     *)
(***************************************************************************)
EXTENDS EncoderPipeline, BoundedRecursion, FiniteSetTheorems, SequenceTheorems

-----------------------------------------------------------------------------
(* The inductive invariant *)

\* The frames of a GOP that are displayed up to its position p, if the GOP
\* does not end before.
ShownUpTo(p) ==
  IF p = 0 THEN 1
  ELSE 1 + group_input_len * ((p - 1) \div group_output_len)
         + (IF get_show_frame(get_idx_in_group_output(p))
            THEN get_idx_in_group_output(p) - pyramid_depth + 1 ELSE 0)

Least(a, b) == IF a <= b THEN a ELSE b

\* The first frame of the next GOP.
NextKey(k) == next_keyframe_input_frameno(k)

\* The GOP of position n, and n's position in it.
G(n) == gop_output_frameno_start[n]
K(n) == gop_input_frameno_start[n]
P(n) == n - G(n)

\* The frame to be displayed next after position n, and before it.
DueAfter(n) == Least(K(n) + ShownUpTo(P(n)), NextKey(K(n)))
Due(n) == IF n = 0 THEN 0 ELSE DueAfter(n - 1)

\* The calls: what is queued, and how far the keyframe decisions are.
CallsInv ==
  /\ limit = IF is_flushing THEN frame_count ELSE NoLimit
  /\ pc \in {"idle", "invariants"} \cup (IF is_flushing THEN {"flush", "remaining"} ELSE {"place"})
  /\ ~is_flushing =>
       frame_count <= next_lookahead_frame + group_input_len
                        + (IF pc = "place" THEN 3 ELSE 2)
  /\ is_flushing /\ pc \in {"idle", "invariants"} => next_lookahead_frame >= frame_count
  /\ next_lookahead_frame = 1 \/ next_lookahead_frame <= frame_count

\* The last entry of frame_q: a frame, or after a flush the end mark.
LastQueued == IF is_flushing THEN frame_count ELSE frame_count - 1

\* frame_q holds the frames from that of the last packet on.
QueueInv ==
  /\ \E b \in 0 .. frame_count :
       /\ DOMAIN frame_q = b .. LastQueued
       /\ b = 0 \/ b < Len(packets)
  /\ \A n \in DOMAIN frame_q : frame_q[n] = (n < frame_count)
  /\ Len(packets) <= frame_count

\* frame_data and the GOPs are known from a frame on that has been encoded or
\* is next.
ResidentInv ==
  /\ output_frameno <= NextOut
  /\ \E lo \in 0 .. output_frameno :
       /\ output_frameno > 0 => lo < output_frameno
       /\ DOMAIN frame_data = lo .. NextOut - 1
       /\ \A n \in DOMAIN frame_data :
            n \in DOMAIN gop_output_frameno_start /\ n \in DOMAIN gop_input_frameno_start
       /\ NextOut > 0 => IsFrame(frame_data[lo])
  /\ NextOut > 0 /\ (~is_flushing \/ pc # "idle") =>
       \E m \in DOMAIN frame_data : IsCoded(frame_data[m])

\* What is built at position p of the GOP that begins with frame k.
Built(fd, p, k) ==
  LET w   == get_input_frameno(p, k)
      idx == get_idx_in_group_output(p)
  IN IF p = 0
     THEN /\ IsCoded(fd) /\ fd.frame_type = "KEY" /\ fd.show_frame
          /\ fd.input_frameno = k
     ELSE /\ IsFrame(fd) => /\ fd.frame_type # "KEY"
                            /\ fd.input_frameno = w /\ w < NextKey(k)
                            /\ w < next_lookahead_frame /\ w < frame_count
                            /\ fd.show_frame = get_show_frame(idx)
                            /\ IsCoded(fd) = ~get_show_existing_frame(idx)
          /\ ~IsFrame(fd) => w >= NextKey(k)

BuiltInv(n) == Built(frame_data[n], P(n), K(n))

\* The GOP of a position: it begins with what was due, and what is due after
\* the position has been decided and sent.
GopInv(n) ==
  /\ G(n) \in 0 .. n /\ K(n) \in Nat
  /\ K(n) < frame_count /\ K(n) < next_lookahead_frame
  /\ DueAfter(n) <= frame_count /\ DueAfter(n) <= next_lookahead_frame
  /\ \A m \in DOMAIN frame_data : G(n) <= m /\ m <= n => G(m) = G(n) /\ K(m) = K(n)
  /\ G(n) = n => IF n = 0 THEN K(n) = 0
                 ELSE n - 1 \in DOMAIN frame_data => K(n) = DueAfter(n - 1)

PositionsInv == \A n \in DOMAIN frame_data : BuiltInv(n) /\ GopInv(n)

\* What the application has sent and seen are sequences.
HistoryInv ==
  /\ sent \in Seq(Params)
  /\ packets \in Seq(Range(packets))
  /\ Len(packets) \in Nat

\* The packets.
PacketsInv ==
  /\ frames_processed = Len(packets)
  /\ Len(packets) = Due(output_frameno)
  /\ Len(sent) = frame_count
  /\ opaque_q = {i \in Len(packets) .. frame_count - 1 : sent[i + 1].opaque}
  /\ keyframes_forced = {i \in 0 .. frame_count - 1 : sent[i + 1].key}
  /\ 0 \in keyframes
  /\ \A i \in keyframes_forced : i < next_lookahead_frame => i \in keyframes
  /\ \A i \in DOMAIN packets :
       /\ packets[i].input_frameno = i - 1
       /\ packets[i].opaque = sent[i].opaque
       /\ sent[i].key => packets[i].frame_type = "KEY"

\* The keyframe of the GOP that is being output has been output.
KeyOutput ==
  output_frameno > 0 =>
    /\ K(output_frameno - 1) < Len(packets)
    /\ packets[K(output_frameno - 1) + 1].frame_type = "KEY"

\* After a flush everything has been built when the call returns.
FlushedInv == is_flushing /\ pc = "idle" => Due(NextOut) = frame_count

PipelineInv ==
  /\ TypeOK /\ HistoryInv /\ CallsInv /\ QueueInv /\ ResidentInv /\ PositionsInv
  /\ PacketsInv /\ KeyOutput /\ KeyframeIntervalRespected
  /\ FlushedInv /\ NeverStarvedAfterFlush

-----------------------------------------------------------------------------
(* InterConfig *)

\* The two configurations of a group.
LEMMA GroupFacts ==
  \/ reorder /\ pyramid_depth = 2 /\ group_input_len = 4 /\ group_output_len = 6
  \/ ~reorder /\ pyramid_depth = 0 /\ group_input_len = 1 /\ group_output_len = 1
PROOF
  BY DEF pyramid_depth, group_input_len, group_output_len

\* A position of a GOP after its keyframe: a shown one displays the frame that
\* is due there, a hidden one a frame that is not due yet.
LEMMA PositionFacts ==
  ASSUME NEW p \in Nat \ {0}, NEW k \in Nat
  PROVE  /\ get_idx_in_group_output(p) \in 0 .. group_output_len - 1
         /\ get_input_frameno(p, k) \in Nat
         /\ get_input_frameno(p, k) > k
         /\ get_input_frameno(p, k) >= k + ShownUpTo(p - 1)
         /\ ShownUpTo(p - 1) \in Nat \ {0} /\ ShownUpTo(p) \in Nat \ {0}
         /\ get_show_frame(get_idx_in_group_output(p)) =>
              /\ get_input_frameno(p, k) = k + ShownUpTo(p - 1)
              /\ ShownUpTo(p) = ShownUpTo(p - 1) + 1
         /\ ~get_show_frame(get_idx_in_group_output(p)) =>
              /\ ShownUpTo(p) = ShownUpTo(p - 1)
              /\ reorder
         /\ get_show_existing_frame(get_idx_in_group_output(p)) =>
              get_show_frame(get_idx_in_group_output(p))
PROOF
  <1>1. CASE reorder /\ pyramid_depth = 2 /\ group_input_len = 4 /\ group_output_len = 6
    <2> DEFINE d == (p - 1) \div 6
               i == (p - 1) % 6
               e == (p - 2) \div 6
               j == (p - 2) % 6
    <2>1. /\ d \in Nat /\ i \in 0 .. 5 /\ p - 1 = 6 * d + i
      OBVIOUS
    <2>2. p # 1 => /\ e \in Nat /\ j \in 0 .. 5 /\ p - 2 = 6 * e + j
      OBVIOUS
    <2>3. /\ get_idx_in_group_output(p) = i
          /\ get_input_frameno(p, k) =
               k + 4 * d + (IF i < 2 THEN IF i = 0 THEN 4 ELSE 2 ELSE i - 1)
      BY <1>1, <2>1 DEF get_idx_in_group_output, get_input_frameno, get_order_hint
    <2>4. ShownUpTo(p) = 1 + 4 * d + (IF i >= 2 THEN i - 1 ELSE 0)
      BY <1>1, <2>1 DEF get_idx_in_group_output, ShownUpTo, get_show_frame
    <2>5. ShownUpTo(p - 1) = IF p = 1 THEN 1 ELSE 1 + 4 * e + (IF j >= 2 THEN j - 1 ELSE 0)
      <3>1. (p - 1) - 1 = p - 2 /\ (p - 1 = 0 <=> p = 1)
        OBVIOUS
      <3> QED BY <1>1, <2>2, <3>1 DEF get_idx_in_group_output, ShownUpTo, get_show_frame
    <2>6. get_show_frame(get_idx_in_group_output(p)) <=> i >= 2
      BY <1>1, <2>3 DEF get_show_frame
    <2> HIDE DEF d, i, e, j
    <2>7. p # 1 => IF i = 0 THEN j = 5 /\ d = e + 1 ELSE j = i - 1 /\ d = e
      BY <2>1, <2>2
    <2>8. p = 1 => i = 0 /\ d = 0
      BY <2>1
    <2>9. get_show_existing_frame(get_idx_in_group_output(p)) => i >= 2
      BY <2>6 DEF get_show_existing_frame
    <2>10. get_idx_in_group_output(p) \in 0 .. group_output_len - 1
      BY <1>1, <2>1, <2>3
    <2> QED BY <1>1, <2>1, <2>2, <2>3, <2>4, <2>5, <2>6, <2>7, <2>8, <2>9, <2>10
  <1>2. CASE ~reorder /\ pyramid_depth = 0 /\ group_input_len = 1 /\ group_output_len = 1
    <2>1. /\ (p - 1) \div 1 = p - 1 /\ (p - 1) % 1 = 0
          /\ (p - 2) \div 1 = p - 2 /\ (p - 2) % 1 = 0
      OBVIOUS
    <2>2. /\ get_idx_in_group_output(p) = 0 /\ get_input_frameno(p, k) = k + p
      BY <1>2, <2>1 DEF get_idx_in_group_output, get_input_frameno, get_order_hint
    <2>3. ShownUpTo(p) = 1 + p
      BY <1>2, <2>1 DEF get_idx_in_group_output, ShownUpTo, get_show_frame
    <2>4. ShownUpTo(p - 1) = p
      <3>1. (p - 1) - 1 = p - 2 /\ (p - 1 = 0 <=> p = 1)
        OBVIOUS
      <3> QED BY <1>2, <2>1, <3>1 DEF get_idx_in_group_output, ShownUpTo, get_show_frame
    <2>5. get_show_frame(get_idx_in_group_output(p))
      BY <1>2, <2>2 DEF get_show_frame
    <2> QED BY <1>2, <2>2, <2>3, <2>4, <2>5
  <1> QED BY <1>1, <1>2, GroupFacts

\* At the beginning of a group all frames of the groups before have been
\* displayed.
LEMMA GroupStart ==
  ASSUME NEW p \in Nat \ {0}, NEW k \in Nat, reorder, (p - 1) % group_output_len = 0,
         NEW q \in 0 .. p - 1
  PROVE  get_input_frameno(q, k) < k + ShownUpTo(p - 1)
PROOF
  <1>1. reorder /\ pyramid_depth = 2 /\ group_input_len = 4 /\ group_output_len = 6
    BY GroupFacts
  <1> DEFINE d == (p - 1) \div 6
             e == (p - 2) \div 6
             j == (p - 2) % 6
             f == (q - 1) \div 6
             i == (q - 1) % 6
  <1>2. d \in Nat /\ p - 1 = 6 * d
    BY <1>1
  <1>3. p # 1 => e \in Nat /\ j \in 0 .. 5 /\ p - 2 = 6 * e + j
    OBVIOUS
  <1>4. q # 0 => f \in Nat /\ i \in 0 .. 5 /\ q - 1 = 6 * f + i
    OBVIOUS
  <1>5. ShownUpTo(p - 1) = IF p = 1 THEN 1 ELSE 1 + 4 * e + (IF j >= 2 THEN j - 1 ELSE 0)
    <2>1. (p - 1) - 1 = p - 2 /\ (p - 1 = 0 <=> p = 1)
      OBVIOUS
    <2> QED BY <1>1, <1>3, <2>1 DEF get_idx_in_group_output, ShownUpTo, get_show_frame
  <1>6. get_input_frameno(q, k) =
          IF q = 0 THEN k
          ELSE k + 4 * f + (IF i < 2 THEN IF i = 0 THEN 4 ELSE 2 ELSE i - 1)
    BY <1>1, <1>4 DEF get_idx_in_group_output, get_input_frameno, get_order_hint
  <1> HIDE DEF d, e, j, f, i
  <1>7. p # 1 => j = 5 /\ d = e + 1
    BY <1>2, <1>3
  <1>8. q # 0 => f < d
    BY <1>2, <1>4
  <1> QED BY <1>2, <1>3, <1>4, <1>5, <1>6, <1>7, <1>8

-----------------------------------------------------------------------------
(* The next keyframe *)

\* The least element of a set of frame numbers.
LEMMA MinFacts ==
  ASSUME NEW S, S \subseteq Nat, S # {}
  PROVE  Min(S) \in S /\ \A x \in S : Min(S) <= x
PROOF
  BY LeastElement DEF Min

\* The greatest element of a bounded set of frame numbers.
LEMMA MaxFacts ==
  ASSUME NEW n \in Nat, NEW S, S \subseteq 0 .. n, S # {}
  PROVE  Max(S) \in S /\ \A x \in S : Max(S) >= x
PROOF
  <1> DEFINE T == {n - x : x \in S}
  <1>0. \A x \in S : n - x \in Nat
    OBVIOUS
  <1>1. T \subseteq Nat /\ T # {}
    BY <1>0
  <1>2. PICK t \in T : \A u \in T : t <= u
    <2> HIDE DEF T
    <2> QED BY <1>1, LeastElement
  <1>3. PICK x \in S : t = n - x
    BY <1>2
  <1>4. \A y \in S : x >= y
    <2> TAKE y \in S
    <2>1. n - y \in T /\ x \in 0 .. n /\ y \in 0 .. n
      OBVIOUS
    <2>2. n - x <= n - y
      BY <1>2, <1>3, <2>1
    <2> QED BY <2>1, <2>2
  <1> QED BY <1>3, <1>4 DEF Max

\* The next keyframe, as a function of the decisions and the limit.
NextKeyIn(keys, lim, k) ==
  Min({j \in keys : j > k} \cup
      {IF lim = NoLimit THEN k + MaxKeyFrameInterval ELSE Min({k + MaxKeyFrameInterval, lim})})

\* What is not after the next keyframe.
BeforeKey(keys, lim, k, x) ==
  /\ x <= k + MaxKeyFrameInterval
  /\ lim # NoLimit => x <= lim
  /\ \A j \in keys : j > k => x <= j

\* The next keyframe is the last number that is not after any of those.
LEMMA NextKeyFacts ==
  ASSUME NEW keys, keys \subseteq Nat, NEW lim \in Nat \cup {NoLimit}, NEW k \in Nat
  PROVE  /\ NextKeyIn(keys, lim, k) \in Nat
         /\ \A x \in Nat : x <= NextKeyIn(keys, lim, k) <=> BeforeKey(keys, lim, k, x)
PROOF
  <1> DEFINE M == MaxKeyFrameInterval
             end == IF lim = NoLimit THEN k + M ELSE Min({k + M, lim})
             S == {j \in keys : j > k} \cup {end}
  <1>1. M \in Nat \ {0} /\ k + M \in Nat
    BY PipelineAssumption
  <1>2. end \in Nat /\ \A x \in Nat : x <= end <=> (x <= k + M /\ (lim # NoLimit => x <= lim))
    <2>1. CASE lim = NoLimit
      BY <1>1, <2>1
    <2>2. CASE lim # NoLimit
      <3> DEFINE T == {k + M, lim}
      <3>1. T \subseteq Nat /\ T # {}
        BY <1>1, <2>2
      <3>2. Min(T) \in T /\ \A x \in T : Min(T) <= x
        <4> HIDE DEF T
        <4> QED BY <3>1, MinFacts
      <3>3. end = Min(T)
        BY <2>2
      <3> HIDE DEF end
      <3> QED BY <1>1, <2>2, <3>2, <3>3
    <2> QED BY <2>1, <2>2
  <1>3. NextKeyIn(keys, lim, k) = Min(S)
    BY DEF NextKeyIn
  <1> HIDE DEF end, M
  <1>4. S \subseteq Nat /\ S # {}
    BY <1>2
  <1>5. Min(S) \in S /\ \A x \in S : Min(S) <= x
    <2> HIDE DEF S
    <2> QED BY <1>4, MinFacts
  <1>6. Min(S) \in Nat
    BY <1>4, <1>5
  <1>7. ASSUME NEW x \in Nat PROVE x <= Min(S) <=> BeforeKey(keys, lim, k, x)
    <2>1. BeforeKey(keys, lim, k, x) <=> (x <= end /\ \A j \in keys : j > k => x <= j)
      BY <1>2 DEF BeforeKey, M
    <2>2. (x <= end /\ \A j \in keys : j > k => x <= j) <=> \A s \in S : x <= s
      OBVIOUS
    <2>3. x <= Min(S) => \A s \in S : x <= s
      <3> SUFFICES ASSUME x <= Min(S), NEW s \in S PROVE x <= s
        OBVIOUS
      <3>1. s \in Nat /\ Min(S) <= s
        BY <1>4, <1>5
      <3> HIDE DEF S
      <3> QED BY <1>6, <3>1
    <2>4. (\A s \in S : x <= s) => x <= Min(S)
      BY <1>5
    <2> QED BY <2>1, <2>2, <2>3, <2>4
  <1> QED BY <1>3, <1>6, <1>7

\* The next keyframe of a state.
LEMMA NextKeyDef == \A k : NextKey(k) = NextKeyIn(keyframes, limit, k)
PROOF
  BY DEF NextKey, NextKeyIn, next_keyframe_input_frameno

\* In the next state too.
LEMMA NextKeyDefNext == \A k : NextKey(k)' = NextKeyIn(keyframes', limit', k)
PROOF
  BY DEF NextKey, NextKeyIn, next_keyframe_input_frameno

\* The bounds of the next keyframe; it is after the keyframe of the GOP.
LEMMA NextKeyBounds ==
  ASSUME TypeOK, NEW k \in Nat
  PROVE  /\ NextKey(k) \in Nat
         /\ NextKey(k) <= k + MaxKeyFrameInterval
         /\ limit # NoLimit => NextKey(k) <= limit
         /\ \A j \in keyframes : j > k => NextKey(k) <= j
         /\ limit = NoLimit \/ k < limit => NextKey(k) > k
PROOF
  <1>1. keyframes \subseteq Nat /\ limit \in Nat \cup {NoLimit}
    BY DEF TypeOK
  <1> DEFINE a == NextKey(k)
  <1>2. a \in Nat /\ \A x \in Nat : x <= a <=> BeforeKey(keyframes, limit, k, x)
    BY <1>1, NextKeyDef, NextKeyFacts
  <1> HIDE DEF a
  <1>3. BeforeKey(keyframes, limit, k, a)
    BY <1>2
  <1>4. limit = NoLimit \/ k < limit => BeforeKey(keyframes, limit, k, k + 1)
    BY <1>1, PipelineAssumption DEF BeforeKey, NoLimit
  <1>5. limit = NoLimit \/ k < limit => a > k
    BY <1>2, <1>4
  <1> QED BY <1>2, <1>3, <1>5 DEF BeforeKey, a

\* What a step may do to the next keyframes: they come closer, but what has
\* been decided and sent remains before them.
KeysStep ==
  \A k \in Nat :
    /\ NextKey(k) \in Nat /\ NextKey(k)' \in Nat /\ NextKey(k)' <= NextKey(k)
    /\ \A x \in Nat :
         x <= frame_count /\ x <= next_lookahead_frame /\ x <= NextKey(k) => x <= NextKey(k)'

\* A decision about next_lookahead_frame, and the limit of a flush, are such
\* steps.
LEMMA KeysStepFacts ==
  ASSUME TypeOK,
         keyframes' = keyframes \/ keyframes' = keyframes \cup {next_lookahead_frame},
         limit' = limit \/ (limit = NoLimit /\ limit' = frame_count)
  PROVE  KeysStep
PROOF
  <1>1. /\ keyframes \subseteq Nat /\ limit \in Nat \cup {NoLimit} /\ frame_count \in Nat
        /\ next_lookahead_frame \in Nat
    BY DEF TypeOK
  <1>2. keyframes' \subseteq Nat /\ limit' \in Nat \cup {NoLimit}
    BY <1>1
  <1> SUFFICES ASSUME NEW k \in Nat
               PROVE  /\ NextKey(k) \in Nat /\ NextKey(k)' \in Nat /\ NextKey(k)' <= NextKey(k)
                      /\ \A x \in Nat : x <= frame_count /\ x <= next_lookahead_frame
                                          /\ x <= NextKey(k) => x <= NextKey(k)'
    BY DEF KeysStep
  <1> DEFINE a == NextKeyIn(keyframes, limit, k)
             b == NextKeyIn(keyframes', limit', k)
  <1>3. NextKey(k) = a /\ NextKey(k)' = b
    BY NextKeyDef, NextKeyDefNext
  <1>4. a \in Nat /\ \A x \in Nat : x <= a <=> BeforeKey(keyframes, limit, k, x)
    BY <1>1, NextKeyFacts
  <1>5. b \in Nat /\ \A x \in Nat : x <= b <=> BeforeKey(keyframes', limit', k, x)
    BY <1>2, NextKeyFacts
  <1> HIDE DEF a, b
  <1>6. \A x \in Nat : BeforeKey(keyframes', limit', k, x) => BeforeKey(keyframes, limit, k, x)
    BY <1>1, <1>2 DEF BeforeKey
  <1>7. b <= a
    BY <1>4, <1>5, <1>6
  <1>8. \A x \in Nat : x <= frame_count /\ x <= next_lookahead_frame
                         /\ BeforeKey(keyframes, limit, k, x)
                       => BeforeKey(keyframes', limit', k, x)
    BY <1>1, <1>2 DEF BeforeKey
  <1> QED BY <1>3, <1>4, <1>5, <1>7, <1>8

-----------------------------------------------------------------------------
(* The positions *)

\* Frames are counted by natural numbers.
LEMMA ShownNat == ASSUME NEW p \in Nat PROVE ShownUpTo(p) \in Nat \ {0}
PROOF
  <1>1. CASE p = 0
    BY <1>1 DEF ShownUpTo
  <1>2. CASE p # 0
    BY <1>2, PositionFacts
  <1> QED BY <1>1, <1>2

\* The fields that encoding a frame does not change.
SameFrame(f, g) ==
  /\ f.kind = g.kind
  /\ IsFrame(g) => /\ f.frame_type = g.frame_type /\ f.input_frameno = g.input_frameno
                   /\ f.show_frame = g.show_frame

\* A step that builds nothing keeps what is said of the positions and what is
\* due at them.
LEMMA PositionsKept ==
  ASSUME TypeOK, PositionsInv, KeysStep,
         frame_count' \in Nat, next_lookahead_frame' \in Nat,
         frame_count <= frame_count', next_lookahead_frame <= next_lookahead_frame',
         DOMAIN frame_data' \subseteq DOMAIN frame_data,
         \A n \in DOMAIN frame_data' :
           G(n)' = G(n) /\ K(n)' = K(n) /\ SameFrame(frame_data'[n], frame_data[n])
  PROVE  /\ PositionsInv'
         /\ \A n \in DOMAIN frame_data' : DueAfter(n)' = DueAfter(n)
PROOF
  <1>0. /\ frame_count \in Nat /\ next_lookahead_frame \in Nat
        /\ DOMAIN frame_data \subseteq Nat
    BY DEF TypeOK
  <1>1. ASSUME NEW n \in DOMAIN frame_data'
        PROVE  /\ DueAfter(n)' = DueAfter(n) /\ P(n)' = P(n) /\ n \in DOMAIN frame_data
               /\ n \in Nat
    <2>1. /\ n \in DOMAIN frame_data /\ GopInv(n) /\ n \in Nat
      BY <1>0 DEF PositionsInv
    <2>2. /\ G(n)' = G(n) /\ K(n)' = K(n) /\ P(n)' = P(n)
      BY DEF P
    <2>3. /\ K(n) \in Nat /\ P(n) \in Nat
          /\ DueAfter(n) <= frame_count /\ DueAfter(n) <= next_lookahead_frame
      BY <2>1 DEF GopInv, P
    <2>4. ShownUpTo(P(n)) \in Nat
      BY <2>3, ShownNat
    <2> DEFINE k == K(n)
               s == K(n) + ShownUpTo(P(n))
    <2>5. /\ DueAfter(n) = Least(s, NextKey(K(n)))
          /\ DueAfter(n)' = Least(s, NextKey(K(n))')
      BY <2>2 DEF DueAfter, ShownUpTo
    <2>6. PICK j : j = K(n)
      OBVIOUS
    <2>7. NextKey(K(n))' = NextKey(j)' /\ NextKey(K(n)) = NextKey(j) /\ j \in Nat
      <3>1. K(n)' = j
        BY <2>2, <2>6
      <3> QED BY <2>3, <2>6, <3>1, NextKeyDef, NextKeyDefNext DEF NextKey, next_keyframe_input_frameno
    <2>8. s \in Nat
      BY <2>3, <2>4
    <2> HIDE DEF s
    <2>9. /\ NextKey(j) \in Nat /\ NextKey(j)' \in Nat /\ NextKey(j)' <= NextKey(j)
          /\ \A x \in Nat : x <= frame_count /\ x <= next_lookahead_frame
                              /\ x <= NextKey(j) => x <= NextKey(j)'
      BY <2>7 DEF KeysStep
    <2>10. Least(s, NextKey(j)') = Least(s, NextKey(j))
      <3>1. Least(s, NextKey(j)) \in Nat /\ Least(s, NextKey(j)) <= NextKey(j)
            /\ Least(s, NextKey(j)) <= frame_count
            /\ Least(s, NextKey(j)) <= next_lookahead_frame
        BY <2>3, <2>5, <2>7, <2>8, <2>9 DEF Least
      <3>2. Least(s, NextKey(j)) <= NextKey(j)'
        BY <2>9, <3>1
      <3> QED BY <2>8, <2>9, <3>2 DEF Least
    <2> QED BY <2>1, <2>2, <2>5, <2>7, <2>10
  <1>2. ASSUME NEW n \in DOMAIN frame_data' PROVE BuiltInv(n)'
    <2> DEFINE f == frame_data[n]
               g == frame_data'[n]
    <2>1. /\ BuiltInv(n) /\ K(n) \in Nat /\ P(n) \in Nat
          /\ P(n)' = P(n) /\ K(n)' = K(n) /\ SameFrame(g, f)
      BY <1>1 DEF PositionsInv, GopInv, P
    <2>2. PICK p, k : p = P(n) /\ k = K(n)
      OBVIOUS
    <2>3. NextKey(K(n)) = NextKey(k) /\ NextKey(K(n))' = NextKey(k)'
      <3>1. K(n)' = k
        BY <2>1, <2>2
      <3> QED BY <2>2, <3>1 DEF NextKey, next_keyframe_input_frameno
    <2>4. p \in Nat /\ k \in Nat /\ P(n)' = p /\ K(n)' = k
      BY <2>1, <2>2
    <2> DEFINE w == get_input_frameno(p, k)
               idx == get_idx_in_group_output(p)
    <2>5. /\ (IsFrame(g) <=> IsFrame(f)) /\ (IsCoded(g) <=> IsCoded(f))
          /\ IsFrame(f) => /\ g.frame_type = f.frame_type
                           /\ g.input_frameno = f.input_frameno
                           /\ g.show_frame = f.show_frame
      BY <2>1 DEF SameFrame, IsFrame, IsCoded
    <2>6. CASE p = 0
      <3>1. /\ IsCoded(f) /\ f.frame_type = "KEY" /\ f.show_frame /\ f.input_frameno = k
        BY <2>1, <2>2, <2>6 DEF BuiltInv, Built
      <3>2. IsFrame(f)
        BY <3>1 DEF IsFrame, IsCoded
      <3>3. /\ IsCoded(g) /\ g.frame_type = "KEY" /\ g.show_frame /\ g.input_frameno = k
        BY <2>5, <3>1, <3>2
      <3> QED BY <2>4, <2>6, <3>3 DEF BuiltInv, Built
    <2>7. CASE p # 0
      <3>1. /\ IsFrame(f) => /\ f.frame_type # "KEY"
                             /\ f.input_frameno = w /\ w < NextKey(k)
                             /\ w < next_lookahead_frame /\ w < frame_count
                             /\ f.show_frame = get_show_frame(idx)
                             /\ IsCoded(f) = ~get_show_existing_frame(idx)
            /\ ~IsFrame(f) => w >= NextKey(k)
        BY <2>1, <2>2, <2>7 DEF BuiltInv, Built
      <3>2. w \in Nat
        BY <2>4, <2>7, PositionFacts
      <3>3. /\ NextKey(k) \in Nat /\ NextKey(k)' \in Nat /\ NextKey(k)' <= NextKey(k)
            /\ \A x \in Nat : x <= frame_count /\ x <= next_lookahead_frame
                                /\ x <= NextKey(k) => x <= NextKey(k)'
        BY <2>4 DEF KeysStep
      <3> HIDE DEF w, idx, f, g
      <3>4. IsFrame(f) => w < NextKey(k)' /\ w < next_lookahead_frame' /\ w < frame_count'
        <4>1. w < NextKey(k) /\ w < next_lookahead_frame /\ w < frame_count => w + 1 <= NextKey(k)'
          BY <1>0, <3>2, <3>3
        <4> QED BY <1>0, <3>1, <3>2, <3>3, <4>1
      <3>5. ~IsFrame(f) => w >= NextKey(k)'
        BY <3>1, <3>2, <3>3
      <3>6. /\ IsFrame(g) => /\ g.frame_type # "KEY"
                             /\ g.input_frameno = w /\ w < NextKey(k)'
                             /\ w < next_lookahead_frame' /\ w < frame_count'
                             /\ g.show_frame = get_show_frame(idx)
                             /\ IsCoded(g) = ~get_show_existing_frame(idx)
            /\ ~IsFrame(g) => w >= NextKey(k)'
        <4>1. IsFrame(f) => IsCoded(g) = IsCoded(f)
          BY <2>5 DEF IsCoded
        <4> QED BY <2>5, <3>1, <3>4, <3>5, <4>1
      <3> QED BY <2>3, <2>4, <2>7, <3>6 DEF BuiltInv, Built, w, idx, g
    <2> QED BY <2>6, <2>7
  <1>3. ASSUME NEW n \in DOMAIN frame_data' PROVE GopInv(n)'
    <2>1. GopInv(n) /\ G(n)' = G(n) /\ K(n)' = K(n) /\ DueAfter(n)' = DueAfter(n)
      BY <1>1 DEF PositionsInv
    <2>2. /\ G(n) \in 0 .. n /\ K(n) \in Nat
          /\ K(n) < frame_count /\ K(n) < next_lookahead_frame
          /\ DueAfter(n) <= frame_count /\ DueAfter(n) <= next_lookahead_frame
      BY <2>1 DEF GopInv
    <2>3. DueAfter(n) \in Int
      <3>1. NextKey(K(n)) \in Nat /\ ShownUpTo(P(n)) \in Nat
        BY <1>1, <2>2, ShownNat, NextKeyBounds DEF P
      <3> QED BY <2>2, <3>1 DEF DueAfter, Least
    <2>4. /\ K(n) < frame_count' /\ K(n) < next_lookahead_frame'
          /\ DueAfter(n) <= frame_count' /\ DueAfter(n) <= next_lookahead_frame'
      BY <1>0, <2>2, <2>3
    <2>5. ASSUME NEW m \in DOMAIN frame_data', G(n) <= m, m <= n
          PROVE  G(m)' = G(n)' /\ K(m)' = K(n)'
      BY <2>1, <2>5 DEF GopInv
    <2>6. ASSUME G(n) = n, n # 0, n - 1 \in DOMAIN frame_data'
          PROVE  K(n) = DueAfter(n - 1)'
      <3>1. PICK m : m = n - 1
        OBVIOUS
      <3>2. DueAfter(m)' = DueAfter(m) /\ K(n) = DueAfter(m)
        BY <1>1, <2>1, <2>6, <3>1 DEF GopInv
      <3> QED BY <3>1, <3>2
    <2>7. G(n) = n /\ n = 0 => K(n) = 0
      BY <2>1 DEF GopInv
    <2> QED BY <2>1, <2>2, <2>4, <2>5, <2>6, <2>7 DEF GopInv
  <1> QED BY <1>1, <1>2, <1>3 DEF PositionsInv

\* What is at a position, and what is due before and after it: a shown frame
\* is the one that is due.
LEMMA PositionDue ==
  ASSUME TypeOK, CallsInv, PositionsInv, NEW n \in DOMAIN frame_data,
         n = 0 \/ n - 1 \in DOMAIN frame_data
  PROVE  /\ Due(n) \in Nat /\ DueAfter(n) \in Nat /\ DueAfter(n) = Due(n + 1)
         /\ ~IsFrame(frame_data[n]) => DueAfter(n) = Due(n)
         /\ IsFrame(frame_data[n]) =>
              /\ frame_data[n].input_frameno \in Nat
              /\ frame_data[n].input_frameno >= Due(n)
              /\ frame_data[n].input_frameno < frame_count
              /\ frame_data[n].input_frameno < next_lookahead_frame
              /\ IF frame_data[n].show_frame
                 THEN /\ frame_data[n].input_frameno = Due(n) /\ DueAfter(n) = Due(n) + 1
                 ELSE DueAfter(n) = Due(n)
              /\ IsCoded(frame_data[n]) \/ frame_data[n].show_frame
PROOF
  <1> DEFINE f == frame_data[n]
  <1>0. n \in Nat /\ frame_count \in Nat /\ next_lookahead_frame \in Nat
    BY DEF TypeOK
  <1>1. /\ BuiltInv(n) /\ GopInv(n) /\ G(n) \in 0 .. n /\ K(n) \in Nat /\ P(n) \in Nat
        /\ K(n) < frame_count /\ K(n) < next_lookahead_frame
    BY <1>0 DEF PositionsInv, GopInv, P
  <1>2. /\ NextKey(K(n)) \in Nat /\ NextKey(K(n)) > K(n)
    BY <1>1, NextKeyBounds DEF CallsInv
  <1>3. n + 1 # 0 /\ (n + 1) - 1 = n
    BY <1>0
  <1>4. DueAfter(n) = Due(n + 1)
    BY <1>3 DEF Due
  <1>5. CASE P(n) = 0
    <2>1. G(n) = n
      BY <1>0, <1>1, <1>5 DEF P
    <2>2. Due(n) = K(n)
      BY <1>1, <2>1 DEF GopInv, Due
    <2>3. ShownUpTo(P(n)) = 1
      BY <1>5 DEF ShownUpTo
    <2>4. DueAfter(n) = K(n) + 1
      BY <1>1, <1>2, <2>3 DEF DueAfter, Least
    <2>5. IsCoded(f) /\ f.frame_type = "KEY" /\ f.show_frame /\ f.input_frameno = K(n)
      BY <1>1, <1>5 DEF BuiltInv, Built
    <2>6. IsFrame(f)
      BY <2>5 DEF IsFrame, IsCoded
    <2> QED BY <1>1, <1>4, <2>2, <2>4, <2>5, <2>6
  <1>6. CASE P(n) # 0
    <2> DEFINE p == P(n)
               k == K(n)
               w == get_input_frameno(p, k)
               idx == get_idx_in_group_output(p)
               a == NextKey(k)
               s == ShownUpTo(p - 1)
    <2>1. n # 0 /\ n - 1 \in DOMAIN frame_data /\ G(n) <= n - 1 /\ n - 1 <= n
      BY <1>0, <1>1, <1>6 DEF P
    <2>2. G(n - 1) = G(n) /\ K(n - 1) = K(n)
      BY <1>1, <2>1 DEF GopInv
    <2>3. P(n - 1) = p - 1
      BY <1>0, <1>1, <2>2 DEF P
    <2>4. Due(n) = Least(k + s, a)
      BY <2>1, <2>2, <2>3 DEF Due, DueAfter
    <2>5. DueAfter(n) = Least(k + ShownUpTo(p), a)
      BY DEF DueAfter
    <2>6. /\ w \in Nat /\ w >= k + s /\ s \in Nat /\ ShownUpTo(p) \in Nat
          /\ get_show_frame(idx) => w = k + s /\ ShownUpTo(p) = s + 1
          /\ ~get_show_frame(idx) => ShownUpTo(p) = s
          /\ get_show_existing_frame(idx) => get_show_frame(idx)
      BY <1>1, <1>6, PositionFacts
    <2>7. /\ IsFrame(f) => /\ f.input_frameno = w /\ w < a
                           /\ w < next_lookahead_frame /\ w < frame_count
                           /\ f.show_frame = get_show_frame(idx)
                           /\ IsCoded(f) = ~get_show_existing_frame(idx)
          /\ ~IsFrame(f) => w >= a
      BY <1>1, <1>6 DEF BuiltInv, Built
    <2>8. a \in Nat /\ k \in Nat
      BY <1>1, <1>2
    <2> HIDE DEF f, p, k, w, idx, a, s
    <2>9. Due(n) \in Nat /\ DueAfter(n) \in Nat /\ w >= Due(n)
      BY <2>4, <2>5, <2>6, <2>8 DEF Least
    <2>10. ~IsFrame(f) => DueAfter(n) = Due(n)
      BY <2>4, <2>5, <2>6, <2>7, <2>8 DEF Least
    <2>11. IsFrame(f) /\ get_show_frame(idx) => w = Due(n) /\ DueAfter(n) = Due(n) + 1
      BY <2>4, <2>5, <2>6, <2>7, <2>8 DEF Least
    <2>12. ~get_show_frame(idx) => DueAfter(n) = Due(n)
      BY <2>4, <2>5, <2>6
    <2>13. IsFrame(f) => IsCoded(f) \/ f.show_frame
      BY <2>6, <2>7
    <2> QED BY <1>4, <2>6, <2>7, <2>9, <2>10, <2>11, <2>12, <2>13 DEF f
  <1> QED BY <1>5, <1>6

-----------------------------------------------------------------------------
(* The queue and the lookahead *)

\* The frames and the end mark in frame_q.
LEMMA QueueFacts ==
  ASSUME TypeOK, HistoryInv, CallsInv, QueueInv
  PROVE  /\ \A n \in Nat : n < frame_count /\ n >= Len(packets) => HasFrame(n)
         /\ \A n : HasFrame(n) => n \in Nat /\ n < frame_count
         /\ lookahead_end \in Nat
         /\ is_flushing => lookahead_end = frame_count
         /\ ~is_flushing => lookahead_end = IF frame_count = 0 THEN 0 ELSE frame_count - 1
PROOF
  <1>0. frame_count \in Nat /\ is_flushing \in BOOLEAN /\ Len(packets) \in Nat
    BY DEF TypeOK, HistoryInv
  <1>1. PICK b \in 0 .. frame_count :
          /\ DOMAIN frame_q = b .. LastQueued
          /\ b = 0 \/ b < Len(packets)
    BY DEF QueueInv
  <1>2. /\ \A n \in DOMAIN frame_q : frame_q[n] = (n < frame_count)
        /\ Len(packets) <= frame_count
    BY DEF QueueInv
  <1>3. LastQueued = IF is_flushing THEN frame_count ELSE frame_count - 1
    BY DEF LastQueued
  <1>4. ASSUME NEW n \in Nat, n < frame_count, n >= Len(packets)
        PROVE  HasFrame(n)
    <2>1. n \in b .. LastQueued
      BY <1>0, <1>1, <1>3, <1>4
    <2> QED BY <1>1, <1>2, <1>4, <2>1 DEF HasFrame
  <1>5. ASSUME NEW n, HasFrame(n) PROVE n \in Nat /\ n < frame_count
    <2>1. n \in b .. LastQueued /\ frame_q[n]
      BY <1>1, <1>5 DEF HasFrame
    <2>2. n \in Nat
      BY <1>0, <1>1, <1>3, <2>1
    <2>3. n < frame_count
      BY <1>1, <1>2, <2>1
    <2> QED BY <2>2, <2>3
  <1>6. CASE LastQueued < 0
    <2>1. frame_count = 0 /\ ~is_flushing
      BY <1>0, <1>3, <1>6
    <2>2. DOMAIN frame_q = {}
      BY <1>0, <1>1, <1>3, <1>6
    <2> QED BY <1>4, <1>5, <2>1, <2>2 DEF lookahead_end
  <1>7. CASE ~(LastQueued < 0)
    <2>1. LastQueued \in Nat /\ b <= LastQueued
      BY <1>0, <1>1, <1>2, <1>3, <1>7
    <2>2. DOMAIN frame_q \subseteq 0 .. LastQueued /\ LastQueued \in DOMAIN frame_q
      BY <1>0, <1>1, <2>1
    <2>3. Max(DOMAIN frame_q) = LastQueued
      <3>1. Max(DOMAIN frame_q) \in DOMAIN frame_q /\ Max(DOMAIN frame_q) >= LastQueued
        <4> DEFINE S == DOMAIN frame_q
        <4> HIDE DEF S
        <4>1. S \subseteq 0 .. LastQueued /\ LastQueued \in S
          BY <2>2 DEF S
        <4>2. Max(S) \in S /\ Max(S) >= LastQueued
          BY <2>1, <4>1, MaxFacts
        <4> QED BY <4>2 DEF S
      <3> QED BY <2>1, <2>2, <3>1
    <2>4. lookahead_end = LastQueued
      BY <2>2, <2>3 DEF lookahead_end
    <2> QED BY <1>0, <1>3, <1>4, <1>5, <1>7, <2>1, <2>4
  <1> QED BY <1>0, <1>3, <1>6, <1>7

\* When the lookahead of a frame is complete, the decision about it has been
\* taken, or every decision.
LEMMA LookaheadFacts ==
  ASSUME TypeOK, HistoryInv, CallsInv, QueueInv, pc = "invariants", NEW w \in Nat,
         ~needs_more_frame_q_lookahead(w)
  PROVE  /\ w < frame_count => w < next_lookahead_frame
         /\ w < next_lookahead_frame \/ frame_count <= next_lookahead_frame
PROOF
  <1>0. /\ frame_count \in Nat /\ is_flushing \in BOOLEAN /\ next_lookahead_frame \in Nat
        /\ group_input_len \in Nat
    BY GroupFacts DEF TypeOK
  <1>1. CASE is_flushing
    <2>1. next_lookahead_frame >= frame_count
      BY <1>1 DEF CallsInv
    <2> QED BY <1>0, <2>1
  <1>2. CASE ~is_flushing
    <2>1. /\ limit = NoLimit
          /\ frame_count <= next_lookahead_frame + group_input_len + 2
      BY <1>2 DEF CallsInv
    <2>2. lookahead_end = IF frame_count = 0 THEN 0 ELSE frame_count - 1
      BY <1>2, QueueFacts
    <2>3. ~(lookahead_end < w + (group_input_len + 1) + 1)
      BY <2>1 DEF needs_more_frame_q_lookahead, needs_more_frames, keyframe_lookahead_distance
    <2> QED BY <1>0, <2>1, <2>2, <2>3
  <1> QED BY <1>0, <1>1, <1>2

-----------------------------------------------------------------------------
(* build_frame_properties *)

\* The state that building a frame depends on.
BuildInv ==
  /\ TypeOK /\ HistoryInv /\ CallsInv /\ QueueInv /\ ResidentInv /\ PositionsInv

\* The positions that are known include the last one built.
LEMMA LastResident ==
  ASSUME TypeOK, ResidentInv, NextOut > 0
  PROVE  NextOut - 1 \in DOMAIN frame_data
PROOF
  <1>1. NextOut \in Nat /\ output_frameno \in Nat /\ output_frameno <= NextOut
    BY DEF ResidentInv, TypeOK, NextOut
  <1>2. PICK lo \in 0 .. output_frameno :
          (output_frameno > 0 => lo < output_frameno) /\ DOMAIN frame_data = lo .. NextOut - 1
    BY DEF ResidentInv
  <1>3. NextOut - 1 \in lo .. NextOut - 1
    BY <1>1, <1>2
  <1> QED BY <1>2, <1>3

\* The GOP of the next position, and what is due there.
LEMMA GopFacts ==
  ASSUME BuildInv, NextOut > 0
  PROVE  /\ NextOut - 1 \in DOMAIN frame_data
         /\ GopOut = G(NextOut - 1) /\ GopIn = K(NextOut - 1)
         /\ GopOut \in 0 .. NextOut - 1 /\ GopIn \in Nat /\ GopIn < frame_count
         /\ GopIn < next_lookahead_frame
         /\ InGop \in Nat \ {0} /\ P(NextOut - 1) = InGop - 1
         /\ WantedInput \in Nat /\ WantedInput > GopIn
         /\ NextKeyframe = NextKey(GopIn) /\ NextKeyframe \in Nat /\ NextKeyframe > GopIn
         /\ Due(NextOut) = Least(GopIn + ShownUpTo(InGop - 1), NextKeyframe)
         /\ Due(NextOut) <= frame_count /\ Due(NextOut) <= next_lookahead_frame
PROOF
  <1>0. NextOut \in Nat \ {0} /\ DOMAIN frame_data \subseteq Nat
    BY DEF BuildInv, TypeOK, NextOut
  <1>1. NextOut - 1 \in DOMAIN frame_data
    BY LastResident DEF BuildInv
  <1>2. /\ GopInv(NextOut - 1)
        /\ GopOut = G(NextOut - 1) /\ GopIn = K(NextOut - 1)
    BY <1>0, <1>1 DEF BuildInv, PositionsInv, GopOut, GopIn, G, K
  <1>3. /\ GopOut \in 0 .. NextOut - 1 /\ GopIn \in Nat /\ GopIn < frame_count
        /\ GopIn < next_lookahead_frame
        /\ DueAfter(NextOut - 1) <= frame_count /\ DueAfter(NextOut - 1) <= next_lookahead_frame
    BY <1>2 DEF GopInv
  <1>4. InGop \in Nat \ {0} /\ P(NextOut - 1) = InGop - 1
    <2>1. InGop = NextOut - GopOut /\ P(NextOut - 1) = (NextOut - 1) - GopOut
      BY <1>2 DEF InGop, P
    <2> QED BY <1>0, <1>3, <2>1
  <1>5. WantedInput \in Nat /\ WantedInput > GopIn
    BY <1>3, <1>4, PositionFacts DEF WantedInput
  <1>6. NextKeyframe = NextKey(GopIn) /\ NextKeyframe \in Nat /\ NextKeyframe > GopIn
    BY <1>3, NextKeyBounds DEF BuildInv, CallsInv, NextKeyframe, NextKey
  <1>7. /\ Due(NextOut) = DueAfter(NextOut - 1)
        /\ DueAfter(NextOut - 1) = Least(GopIn + ShownUpTo(InGop - 1), NextKeyframe)
    BY <1>0, <1>2, <1>4, <1>6 DEF Due, DueAfter
  <1> QED BY <1>1, <1>2, <1>3, <1>4, <1>5, <1>6, <1>7

\* The last frame built belongs to the GOP of the next position and is before
\* the next keyframe; the positions after it are placeholders.
LEMMA PreviousFacts ==
  ASSUME BuildInv, NextOut > 0
  PROVE  \E q \in 0 .. InGop - 1 :
           /\ frame_data[PreviousFi(NextOut)].input_frameno = get_input_frameno(q, GopIn)
           /\ get_input_frameno(q, GopIn) < NextKeyframe
           /\ \A j \in q + 1 .. InGop - 1 : get_input_frameno(j, GopIn) >= NextKeyframe
PROOF
  <1> DEFINE S == {m \in DOMAIN frame_data : m < NextOut /\ IsFrame(frame_data[m])}
             f == PreviousFi(NextOut)
             N == NextOut - 1
  <1>0. /\ N \in DOMAIN frame_data /\ GopOut = G(N) /\ GopIn = K(N)
        /\ GopOut \in 0 .. N /\ InGop = NextOut - GopOut /\ NextOut \in Nat \ {0}
        /\ GopIn \in Nat
    BY GopFacts DEF InGop, BuildInv, TypeOK, NextOut
  <1>1. PICK lo \in 0 .. output_frameno :
          /\ output_frameno > 0 => lo < output_frameno
          /\ DOMAIN frame_data = lo .. NextOut - 1 /\ IsFrame(frame_data[lo])
    BY DEF BuildInv, ResidentInv
  <1>2. output_frameno \in Nat /\ output_frameno <= NextOut
    BY DEF BuildInv, ResidentInv, TypeOK
  <1>3. lo \in S
    BY <1>0, <1>1, <1>2
  <1>4. S \subseteq 0 .. NextOut
    BY <1>0, <1>1
  <1>5. f \in S /\ \A m \in S : f >= m
    <2>1. f = Max(S)
      BY DEF PreviousFi
    <2> HIDE DEF S, f
    <2> QED BY <1>0, <1>3, <1>4, <2>1, MaxFacts
  <1>6. f \in DOMAIN frame_data /\ f \in Nat /\ f <= N /\ IsFrame(frame_data[f]) /\ f >= lo
    BY <1>0, <1>1, <1>3, <1>4, <1>5
  <1> HIDE DEF f
  <1>7. GopInv(N) /\ \A m \in DOMAIN frame_data : GopOut <= m /\ m <= N => G(m) = GopOut /\ K(m) = GopIn
    BY <1>0 DEF BuildInv, PositionsInv, GopInv
  <1>8. f >= GopOut
    <2>1. CASE GopOut < lo
      BY <1>0, <1>1, <1>6, <2>1
    <2>2. CASE ~(GopOut < lo)
      <3>1. GopOut \in DOMAIN frame_data /\ GopOut <= N /\ GopOut <= GopOut
        BY <1>0, <1>1, <2>2
      <3>2. G(GopOut) = GopOut
        BY <1>7, <3>1
      <3>3. P(GopOut) = 0
        BY <1>0, <3>2 DEF P
      <3>4. IsCoded(frame_data[GopOut])
        BY <3>1, <3>3 DEF BuildInv, PositionsInv, BuiltInv, Built
      <3>5. GopOut \in S
        BY <1>0, <3>1, <3>4 DEF IsFrame, IsCoded
      <3> HIDE DEF S
      <3> QED BY <1>5, <3>5
    <2> QED BY <2>1, <2>2
  <1>9. G(f) = GopOut /\ K(f) = GopIn
    BY <1>6, <1>7, <1>8
  <1>10. P(f) \in 0 .. InGop - 1
    BY <1>0, <1>6, <1>8, <1>9 DEF P
  <1>11. frame_data[f].input_frameno = get_input_frameno(P(f), GopIn)
    <2>1. BuiltInv(f)
      BY <1>6 DEF BuildInv, PositionsInv
    <2> QED BY <1>6, <1>9, <2>1 DEF BuiltInv, Built, get_input_frameno
  <1>12. NextKeyframe = NextKey(GopIn) /\ NextKeyframe > GopIn
    BY GopFacts
  <1>13. get_input_frameno(P(f), GopIn) < NextKeyframe
    <2>1. BuiltInv(f)
      BY <1>6 DEF BuildInv, PositionsInv
    <2>2. CASE P(f) = 0
      BY <1>12, <2>2 DEF get_input_frameno
    <2>3. CASE P(f) # 0
      BY <1>6, <1>9, <1>12, <2>1, <2>3 DEF BuiltInv, Built
    <2> QED BY <2>2, <2>3
  <1>14. ASSUME NEW j \in P(f) + 1 .. InGop - 1
         PROVE  get_input_frameno(j, GopIn) >= NextKeyframe
    <2>1. PICK m \in Nat : m = GopOut + j
      BY <1>0, <1>10, <1>14
    <2>2. m > f /\ m <= N /\ m >= GopOut /\ j # 0
      BY <1>0, <1>6, <1>9, <1>10, <1>14, <2>1 DEF P
    <2>3. m \in DOMAIN frame_data
      BY <1>1, <1>6, <2>2
    <2>4. ~IsFrame(frame_data[m])
      <3>1. m \notin S
        <4> HIDE DEF S
        <4> QED BY <1>5, <1>6, <2>1, <2>2
      <3> QED BY <1>0, <2>1, <2>2, <2>3, <3>1
    <2>5. K(m) = GopIn /\ P(m) = j
      BY <1>0, <1>7, <1>14, <2>1, <2>2, <2>3 DEF P
    <2>6. BuiltInv(m)
      BY <2>3 DEF BuildInv, PositionsInv
    <2> QED BY <1>12, <2>2, <2>4, <2>5, <2>6 DEF BuiltInv, Built
  <1> QED BY <1>10, <1>11, <1>13, <1>14 DEF f

\* A new GOP begins with the frame that is due.
LEMMA StartsGopFacts ==
  ASSUME BuildInv, NextOut > 0
  PROVE  /\ StartsGop => PastKeyframe /\ KeyInput = NextKeyframe /\ Due(NextOut) = NextKeyframe
         /\ PastKeyframe <=> WantedInput >= NextKeyframe
PROOF
  <1>0. /\ InGop \in Nat \ {0} /\ GopIn \in Nat /\ WantedInput \in Nat /\ WantedInput > GopIn
        /\ NextKeyframe = NextKey(GopIn) /\ NextKeyframe \in Nat
        /\ Due(NextOut) = Least(GopIn + ShownUpTo(InGop - 1), NextKeyframe)
    BY GopFacts
  <1>1. PastKeyframe <=> WantedInput >= NextKeyframe
    BY <1>0 DEF PastKeyframe
  <1>2. ~PastKeyframe => WantedInput \notin keyframes
    BY <1>0, <1>1, NextKeyBounds DEF BuildInv
  <1> SUFFICES ASSUME StartsGop, PastKeyframe, GopComplete
               PROVE  KeyInput = NextKeyframe /\ Due(NextOut) = NextKeyframe
    BY <1>0, <1>1, <1>2 DEF StartsGop
  <1> DEFINE s == GopIn + ShownUpTo(InGop - 1)
  <1>3. s \in Nat
    <2>1. ShownUpTo(InGop - 1) \in Nat
      BY <1>0, PositionFacts
    <2> QED BY <1>0, <2>1
  <1>4. s >= NextKeyframe
    <2>1. CASE ~reorder
      <3>1. WantedInput = s
        BY <1>0, <2>1, PositionFacts DEF WantedInput
      <3> QED BY <1>1, <3>1
    <2>2. CASE reorder
      <3>1. /\ (InGop - 1) % group_output_len = 0
            /\ frame_data[PreviousFi(NextOut)].input_frameno = NextKeyframe - 1
        BY <2>2 DEF GopComplete
      <3>2. PICK q \in 0 .. InGop - 1 : NextKeyframe - 1 = get_input_frameno(q, GopIn)
        BY <3>1, PreviousFacts
      <3>3. NextKeyframe - 1 < s
        BY <1>0, <2>2, <3>1, <3>2, GroupStart
      <3> QED BY <1>0, <1>3, <3>3
    <2> QED BY <2>1, <2>2
  <1> HIDE DEF s
  <1>5. Least(s, NextKeyframe) = NextKeyframe
    BY <1>0, <1>3, <1>4 DEF Least
  <1> QED BY <1>0, <1>5 DEF KeyInput, s

\* A new position is added to those known.
LEMMA NewPosition ==
  ASSUME BuildInv, NEW fd, NEW g \in 0 .. NextOut, NEW k \in Nat,
         frame_data' = Insert(frame_data, NextOut, fd),
         gop_output_frameno_start' = Insert(gop_output_frameno_start, NextOut, g),
         gop_input_frameno_start' = Insert(gop_input_frameno_start, NextOut, k),
         UNCHANGED <<keyframes, limit, frame_count, next_lookahead_frame>>,
         k < frame_count, k < next_lookahead_frame,
         Least(k + ShownUpTo(NextOut - g), NextKey(k)) <= frame_count,
         Least(k + ShownUpTo(NextOut - g), NextKey(k)) <= next_lookahead_frame,
         \/ g = NextOut /\ k = Due(NextOut)
         \/ NextOut > 0 /\ g = GopOut /\ k = GopIn,
         Built(fd, NextOut - g, k)
  PROVE  /\ PositionsInv'
         /\ \A n \in DOMAIN frame_data :
              frame_data'[n] = frame_data[n] /\ K(n)' = K(n) /\ DueAfter(n)' = DueAfter(n)
         /\ DOMAIN frame_data' = DOMAIN frame_data \cup {NextOut}
         /\ frame_data'[NextOut] = fd
PROOF
  <1>1. PICK N : N = NextOut
    OBVIOUS
  <1>2. N \in Nat /\ DOMAIN frame_data \subseteq Nat
    BY <1>1 DEF BuildInv, TypeOK, NextOut
  <1>3. \A n \in DOMAIN frame_data :
          /\ n < N /\ n \in DOMAIN gop_output_frameno_start /\ n \in DOMAIN gop_input_frameno_start
    BY <1>1, <1>2 DEF BuildInv, ResidentInv
  <1>4. /\ DOMAIN frame_data' = DOMAIN frame_data \cup {N}
        /\ frame_data'[N] = fd /\ G(N)' = g /\ K(N)' = k
    <2>1. DOMAIN frame_data' = DOMAIN frame_data \cup {N} /\ frame_data'[N] = fd
      BY <1>1 DEF Insert
    <2>2. gop_output_frameno_start'[N] = g
      BY <1>1 DEF Insert
    <2>3. gop_input_frameno_start'[N] = k
      BY <1>1 DEF Insert
    <2> QED BY <2>1, <2>2, <2>3 DEF G, K
  <1>5. \A n \in DOMAIN frame_data :
          /\ frame_data'[n] = frame_data[n] /\ G(n)' = G(n) /\ K(n)' = K(n)
    <2> TAKE n \in DOMAIN frame_data
    <2>1. n # N
      BY <1>2, <1>3
    <2>2. frame_data'[n] = frame_data[n]
      BY <1>1, <2>1 DEF Insert
    <2>3. gop_output_frameno_start'[n] = gop_output_frameno_start[n]
      BY <1>1, <1>3, <2>1 DEF Insert
    <2>4. gop_input_frameno_start'[n] = gop_input_frameno_start[n]
      BY <1>1, <1>3, <2>1 DEF Insert
    <2> QED BY <2>2, <2>3, <2>4 DEF G, K
  <1>6. \A j : NextKey(j)' = NextKey(j)
    BY NextKeyDef, NextKeyDefNext
  <1>7. ASSUME NEW n \in DOMAIN frame_data
        PROVE  P(n)' = P(n) /\ DueAfter(n)' = DueAfter(n)
    <2>1. P(n)' = P(n) /\ K(n)' = K(n)
      BY <1>5 DEF P
    <2>2. PICK j : j = K(n)
      OBVIOUS
    <2>3. NextKey(K(n))' = NextKey(j)'
      BY <2>1, <2>2 DEF NextKey, next_keyframe_input_frameno
    <2> QED BY <1>6, <2>1, <2>2, <2>3 DEF DueAfter, ShownUpTo
  <1>8. ASSUME NEW n \in DOMAIN frame_data PROVE BuiltInv(n)' /\ GopInv(n)'
    <2>1. BuiltInv(n) /\ GopInv(n)
      BY DEF BuildInv, PositionsInv
    <2>2. P(n)' = P(n) /\ K(n)' = K(n) /\ G(n)' = G(n) /\ frame_data'[n] = frame_data[n]
          /\ DueAfter(n)' = DueAfter(n)
      BY <1>5, <1>7
    <2>3. PICK j : j = K(n)
      OBVIOUS
    <2>4. NextKey(K(n))' = NextKey(K(n))
      <3>1. NextKey(K(n))' = NextKey(j)'
        BY <2>2, <2>3 DEF NextKey, next_keyframe_input_frameno
      <3> QED BY <1>6, <2>3, <3>1
    <2>5. BuiltInv(n)'
      BY <2>1, <2>2, <2>4 DEF BuiltInv, Built, IsFrame, IsCoded, get_input_frameno
    <2>6. ASSUME NEW m \in DOMAIN frame_data', G(n) <= m, m <= n
          PROVE  G(m)' = G(n)' /\ K(m)' = K(n)'
      <3>1. m \in DOMAIN frame_data
        BY <1>2, <1>3, <1>4, <2>6
      <3> QED BY <1>5, <2>1, <2>2, <2>6, <3>1 DEF GopInv
    <2>7. ASSUME G(n) = n, n # 0, n - 1 \in DOMAIN frame_data' PROVE K(n) = DueAfter(n - 1)'
      <3>1. n - 1 \in DOMAIN frame_data
        BY <1>2, <1>3, <1>4, <2>7
      <3>2. PICK m : m = n - 1
        OBVIOUS
      <3>3. DueAfter(m)' = DueAfter(m)
        BY <1>7, <3>1, <3>2
      <3>4. K(n) = DueAfter(m)
        BY <2>1, <2>7, <3>1, <3>2 DEF GopInv
      <3> QED BY <3>2, <3>3, <3>4
    <2> QED BY <2>1, <2>2, <2>5, <2>6, <2>7 DEF GopInv
  <1>9. P(N)' = N - g /\ DueAfter(N)' = Least(k + ShownUpTo(N - g), NextKey(k))
    <2>1. P(N)' = N - g
      BY <1>4 DEF P
    <2>2. NextKey(K(N))' = NextKey(k)'
      BY <1>4 DEF NextKey, next_keyframe_input_frameno
    <2> QED BY <1>4, <1>6, <2>1, <2>2 DEF DueAfter, ShownUpTo
  <1>10. BuiltInv(N)'
    <2>1. NextKey(K(N))' = NextKey(k)
      <3>1. NextKey(K(N))' = NextKey(k)'
        BY <1>4 DEF NextKey, next_keyframe_input_frameno
      <3> QED BY <1>6, <3>1
    <2>2. Built(fd, N - g, k)
      BY <1>1
    <2> QED BY <1>4, <1>9, <2>1, <2>2 DEF BuiltInv, Built, get_input_frameno
  <1>11. GopInv(N)'
    <2>1. /\ G(N)' \in 0 .. N /\ K(N)' \in Nat /\ K(N)' < frame_count'
          /\ K(N)' < next_lookahead_frame'
          /\ DueAfter(N)' <= frame_count' /\ DueAfter(N)' <= next_lookahead_frame'
      BY <1>1, <1>4, <1>9
    <2>2. ASSUME NEW m \in DOMAIN frame_data', g <= m, m <= N
          PROVE  G(m)' = g /\ K(m)' = k
      <3>1. CASE m = N
        BY <1>4, <3>1
      <3>2. CASE m # N
        <4>1. m \in DOMAIN frame_data /\ m < N /\ m \in Nat
          BY <1>2, <1>3, <1>4, <3>2
        <4>2. NextOut > 0 /\ g = GopOut /\ k = GopIn
          BY <1>1, <1>2, <2>2, <4>1
        <4>3. /\ N - 1 \in DOMAIN frame_data /\ GopOut = G(N - 1) /\ GopIn = K(N - 1)
          BY <1>1, <4>2, GopFacts
        <4>4. GopInv(N - 1) /\ m <= N - 1
          BY <1>2, <4>1, <4>3 DEF BuildInv, PositionsInv
        <4>5. G(m) = g /\ K(m) = k
          BY <2>2, <4>1, <4>2, <4>3, <4>4 DEF GopInv
        <4> QED BY <1>5, <4>1, <4>5
      <3> QED BY <3>1, <3>2
    <2>3. ASSUME g = N PROVE IF N = 0 THEN k = 0 ELSE k = DueAfter(N - 1)'
      <3>1. k = Due(N)
        <4>1. NextOut > 0 => GopOut < N
          BY <1>1, <1>2, GopFacts
        <4> QED BY <1>1, <1>2, <2>3, <4>1
      <3>2. CASE N = 0
        BY <3>1, <3>2 DEF Due
      <3>3. CASE N # 0
        <4>1. k = DueAfter(N - 1)
          BY <3>1, <3>3 DEF Due
        <4>2. PICK m : m = N - 1
          OBVIOUS
        <4>3. m \in DOMAIN frame_data
          BY <1>1, <1>2, <3>3, <4>2, GopFacts
        <4>4. DueAfter(m)' = DueAfter(m)
          BY <1>7, <4>3
        <4> QED BY <3>3, <4>1, <4>2, <4>4
      <3> QED BY <3>2, <3>3
    <2> QED BY <1>4, <2>1, <2>2, <2>3 DEF GopInv
  <1>12. PositionsInv'
    BY <1>4, <1>8, <1>10, <1>11 DEF PositionsInv
  <1> QED BY <1>1, <1>4, <1>5, <1>7, <1>12

-----------------------------------------------------------------------------
(* The steps of send_frame and flush *)

\* The position before the next to be output is known.
LEMMA OutputResident ==
  ASSUME TypeOK, ResidentInv
  PROVE  /\ output_frameno > 0 => output_frameno - 1 \in DOMAIN frame_data
         /\ \A n \in output_frameno .. NextOut - 1 : n \in DOMAIN frame_data
         /\ \A n \in DOMAIN frame_data : n \in 0 .. NextOut - 1
PROOF
  <1>1. NextOut \in Nat /\ output_frameno \in Nat /\ output_frameno <= NextOut
    BY DEF ResidentInv, TypeOK, NextOut
  <1>2. PICK lo \in 0 .. output_frameno :
          (output_frameno > 0 => lo < output_frameno) /\ DOMAIN frame_data = lo .. NextOut - 1
    BY DEF ResidentInv
  <1>3. output_frameno > 0 => output_frameno - 1 \in lo .. NextOut - 1
    BY <1>1, <1>2
  <1> QED BY <1>1, <1>2, <1>3

\* What every step keeps that neither builds nor outputs.
LEMMA InputStep ==
  ASSUME PipelineInv, KeysStep,
         UNCHANGED <<frame_data, NextOut, output_frameno, packets>>,
         \A n \in DOMAIN frame_data :
           /\ G(n)' = G(n) /\ K(n)' = K(n)
           /\ n \in DOMAIN gop_output_frameno_start' /\ n \in DOMAIN gop_input_frameno_start',
         frame_count' \in Nat, next_lookahead_frame' \in Nat,
         frame_count <= frame_count', next_lookahead_frame <= next_lookahead_frame',
         ~is_flushing' \/ pc' # "idle" => ~is_flushing \/ pc # "idle"
  PROVE  /\ ResidentInv' /\ PositionsInv' /\ KeyOutput' /\ KeyframeIntervalRespected'
         /\ Due(output_frameno)' = Due(output_frameno) /\ Due(NextOut)' = Due(NextOut)
PROOF
  <1>0. TypeOK /\ ResidentInv /\ PositionsInv /\ KeyOutput /\ KeyframeIntervalRespected
    BY DEF PipelineInv
  <1>1. ResidentInv'
    BY <1>0 DEF ResidentInv, IsFrame, IsCoded
  <1>2. PositionsInv' /\ \A n \in DOMAIN frame_data : DueAfter(n)' = DueAfter(n)
    BY <1>0, PositionsKept DEF SameFrame
  <1>3. output_frameno \in Nat /\ NextOut \in Nat
    BY <1>0 DEF TypeOK, NextOut
  <1>4. PICK o, N : o = output_frameno /\ N = NextOut
    OBVIOUS
  <1>5. ASSUME NEW n \in {o, N} PROVE Due(n)' = Due(n)
    <2>1. CASE n = 0
      BY <2>1 DEF Due
    <2>2. CASE n # 0
      <3>1. n - 1 \in DOMAIN frame_data
        BY <1>0, <1>3, <1>4, <2>2, OutputResident, LastResident
      <3>2. PICK m : m = n - 1
        OBVIOUS
      <3>3. DueAfter(m)' = DueAfter(m)
        BY <1>2, <3>1, <3>2
      <3> QED BY <2>2, <3>2, <3>3 DEF Due
    <2> QED BY <2>1, <2>2
  <1>6. Due(output_frameno)' = Due(o)' /\ Due(NextOut)' = Due(N)'
    BY <1>4 DEF Due, DueAfter, K, P, G, NextKey, next_keyframe_input_frameno
  <1>7. KeyOutput'
    <2> SUFFICES ASSUME output_frameno' > 0
                 PROVE  /\ K(output_frameno - 1)' < Len(packets')
                        /\ packets'[K(output_frameno - 1)' + 1].frame_type = "KEY"
      BY DEF KeyOutput
    <2>1. output_frameno - 1 \in DOMAIN frame_data
      BY <1>0, OutputResident
    <2>2. PICK m : m = output_frameno - 1
      OBVIOUS
    <2>3. K(output_frameno - 1)' = K(m)' /\ K(m)' = K(m)
      BY <2>1, <2>2 DEF K
    <2> QED BY <1>0, <2>2, <2>3 DEF KeyOutput
  <1>8. KeyframeIntervalRespected'
    BY <1>0 DEF KeyframeIntervalRespected
  <1> QED BY <1>1, <1>2, <1>4, <1>5, <1>6, <1>7, <1>8

\* send_frame with a frame: it is behind the others.
LEMMA SendFrameInv ==
  ASSUME PipelineInv, MaxFrames < RcFrameLimit, frame_count < MaxFrames,
         NEW params \in Params, SendFrame(params)
  PROVE  PipelineInv'
PROOF
  <1>0. /\ TypeOK /\ HistoryInv /\ CallsInv /\ QueueInv /\ ResidentInv /\ PositionsInv
        /\ PacketsInv /\ KeyOutput /\ KeyframeIntervalRespected
        /\ FlushedInv /\ NeverStarvedAfterFlush
    BY DEF PipelineInv
  <1>1. /\ frame_count \in Nat /\ MaxFrames \in Nat /\ RcFrameLimit \in Nat
        /\ next_lookahead_frame \in Nat /\ Len(packets) \in Nat /\ group_input_len \in Nat
    BY <1>0, PipelineAssumption, GroupFacts DEF TypeOK, HistoryInv
  <1>2. /\ pc = "idle" /\ ~is_flushing /\ UNCHANGED <<limit, is_flushing>>
        /\ frame_count' = frame_count + 1
        /\ frame_q' = Insert(frame_q, frame_count, TRUE)
        /\ keyframes_forced' = IF params.key THEN keyframes_forced \cup {frame_count}
                                             ELSE keyframes_forced
        /\ opaque_q' = IF params.opaque THEN opaque_q \cup {frame_count} ELSE opaque_q
        /\ t35_q' = IF params.t35 THEN t35_q \cup {frame_count} ELSE t35_q
        /\ sent' = Append(sent, params) /\ pc' = "place" /\ status' = "Ok"
        /\ UNCHANGED <<keyframes, next_lookahead_frame, next_lookahead_output_frameno,
                       gop_output_frameno_start, gop_input_frameno_start, frame_data,
                       output_frameno, frames_processed, packet_data, packets>>
    BY <1>1 DEF SendFrame, QueueFrame, RefusesFrame, lookVars, gopVars, outputVars
  <1>3. KeysStep
    BY <1>0, <1>2, KeysStepFacts
  <1>4. /\ ResidentInv' /\ PositionsInv' /\ KeyOutput' /\ KeyframeIntervalRespected'
        /\ Due(output_frameno)' = Due(output_frameno)
    <2>1. \A n \in DOMAIN frame_data :
            /\ G(n)' = G(n) /\ K(n)' = K(n)
            /\ n \in DOMAIN gop_output_frameno_start' /\ n \in DOMAIN gop_input_frameno_start'
      BY <1>0, <1>2 DEF G, K, ResidentInv
    <2>2. UNCHANGED <<frame_data, NextOut, output_frameno, packets>>
      BY <1>2 DEF NextOut
    <2>3. /\ frame_count' \in Nat /\ next_lookahead_frame' \in Nat
          /\ frame_count <= frame_count' /\ next_lookahead_frame <= next_lookahead_frame'
          /\ (~is_flushing \/ pc # "idle")
      BY <1>1, <1>2
    <2> QED BY <1>3, <2>1, <2>2, <2>3, InputStep
  <1>5. DOMAIN frame_q' = DOMAIN frame_q \cup {frame_count} /\ frame_q'[frame_count] = TRUE
        /\ \A n \in DOMAIN frame_q : n # frame_count => frame_q'[n] = frame_q[n]
    BY <1>2 DEF Insert
  <1>6. TypeOK'
    <2>1. /\ DOMAIN frame_q' \subseteq Nat /\ \A n \in DOMAIN frame_q' : frame_q'[n] \in BOOLEAN
      BY <1>0, <1>1, <1>5 DEF TypeOK
    <2>2. /\ frame_count' \in Nat /\ opaque_q' \subseteq Nat /\ t35_q' \subseteq Nat
          /\ keyframes_forced' \subseteq Nat
      BY <1>0, <1>1, <1>2 DEF TypeOK
    <2> QED BY <1>0, <1>2, <2>1, <2>2 DEF TypeOK
  <1>7. HistoryInv'
    BY <1>0, <1>2 DEF HistoryInv
  <1>8. CallsInv'
    BY <1>0, <1>1, <1>2 DEF CallsInv
  <1>9. QueueInv'
    <2>1. PICK b \in 0 .. frame_count :
            DOMAIN frame_q = b .. LastQueued /\ (b = 0 \/ b < Len(packets))
      BY <1>0 DEF QueueInv
    <2>2. LastQueued = frame_count - 1 /\ LastQueued' = frame_count
      BY <1>1, <1>2 DEF LastQueued
    <2>3. DOMAIN frame_q' = b .. frame_count /\ b \in 0 .. frame_count'
      <3>1. (b .. frame_count - 1) \cup {frame_count} = b .. frame_count
        BY <1>1
      <3>2. DOMAIN frame_q' = b .. frame_count
        BY <1>5, <2>1, <2>2, <3>1
      <3>3. b \in 0 .. frame_count'
        BY <1>1, <1>2
      <3> QED BY <3>2, <3>3
    <2>4. \A n \in DOMAIN frame_q' : frame_q'[n] = (n < frame_count')
      <3> TAKE n \in DOMAIN frame_q'
      <3>1. CASE n = frame_count
        <4>1. n < frame_count'
          BY <1>1, <1>2, <3>1
        <4> QED BY <1>5, <3>1, <4>1
      <3>2. CASE n # frame_count
        <4>1. n \in DOMAIN frame_q /\ frame_q'[n] = frame_q[n]
          BY <1>5, <3>2
        <4>2. frame_q[n] = (n < frame_count) /\ n \in b .. frame_count - 1
          BY <1>0, <2>1, <2>2, <4>1 DEF QueueInv
        <4>3. n < frame_count /\ n < frame_count'
          BY <1>1, <1>2, <4>2
        <4> QED BY <4>1, <4>2, <4>3
      <3> QED BY <3>1, <3>2
    <2>5. Len(packets') <= frame_count'
      BY <1>0, <1>1, <1>2 DEF QueueInv
    <2> QED BY <1>2, <2>1, <2>2, <2>3, <2>4, <2>5 DEF QueueInv
  <1>10. PacketsInv'
    <2> DEFINE L == Len(packets)
               c == frame_count
    <2>1. /\ sent \in Seq(Params) /\ Len(sent) = c /\ L <= c
          /\ packets \in Seq(Range(packets))
      BY <1>0 DEF HistoryInv, PacketsInv, QueueInv
    <2>2. /\ Len(sent') = c + 1 /\ sent'[c + 1] = params
          /\ \A i \in 1 .. c : sent'[i] = sent[i]
      BY <1>1, <1>2, <2>1
    <2>3. params.opaque \in BOOLEAN /\ params.key \in BOOLEAN
      BY PipelineAssumption
    <2>4. opaque_q' = {i \in L .. (c + 1) - 1 : sent'[i + 1].opaque}
      <3>1. opaque_q = {i \in L .. c - 1 : sent[i + 1].opaque}
        BY <1>0 DEF PacketsInv
      <3> HIDE DEF L, c
      <3>2. \A i \in L .. c - 1 : i + 1 \in 1 .. c
        BY <1>1 DEF L, c
      <3>3. \A i : i \in L .. (c + 1) - 1 <=> i \in L .. c - 1 \/ i = c
        BY <1>1, <2>1 DEF L, c
      <3>4. \A i \in L .. c - 1 : sent'[i + 1] = sent[i + 1]
        BY <2>2, <3>2
      <3>5. c \notin L .. c - 1
        BY <1>1 DEF L, c
      <3> QED BY <1>2, <2>2, <2>3, <3>1, <3>3, <3>4, <3>5 DEF c
    <2>5. keyframes_forced' = {i \in 0 .. (c + 1) - 1 : sent'[i + 1].key}
      <3>1. keyframes_forced = {i \in 0 .. c - 1 : sent[i + 1].key}
        BY <1>0 DEF PacketsInv
      <3> HIDE DEF L, c
      <3>2. \A i \in 0 .. c - 1 : i + 1 \in 1 .. c
        BY <1>1 DEF L, c
      <3>3. \A i : i \in 0 .. (c + 1) - 1 <=> i \in 0 .. c - 1 \/ i = c
        BY <1>1, <2>1 DEF L, c
      <3>4. \A i \in 0 .. c - 1 : sent'[i + 1] = sent[i + 1]
        BY <2>2, <3>2
      <3>5. c \notin 0 .. c - 1
        BY <1>1 DEF L, c
      <3> QED BY <1>2, <2>2, <2>3, <3>1, <3>3, <3>4, <3>5 DEF c
    <2>6. \A i \in keyframes_forced' : i < next_lookahead_frame' => i \in keyframes'
      <3> TAKE i \in keyframes_forced'
      <3>1. CASE i \in keyframes_forced
        BY <1>0, <1>2, <3>1 DEF PacketsInv
      <3>2. CASE i \notin keyframes_forced
        <4>1. i = frame_count
          BY <1>2, <3>2
        <4>2. next_lookahead_frame = 1 \/ next_lookahead_frame <= frame_count
          BY <1>0 DEF CallsInv
        <4>3. i < next_lookahead_frame => i = 0
          BY <1>1, <4>1, <4>2
        <4>4. 0 \in keyframes
          BY <1>0 DEF PacketsInv
        <4> QED BY <1>2, <4>3, <4>4
      <3> QED BY <3>1, <3>2
    <2>7. \A i \in DOMAIN packets :
            /\ packets[i].input_frameno = i - 1 /\ packets[i].opaque = sent'[i].opaque
            /\ sent'[i].key => packets[i].frame_type = "KEY"
      <3> TAKE i \in DOMAIN packets
      <3>1. i \in 1 .. c
        BY <1>1, <2>1
      <3>2. sent'[i] = sent[i]
        BY <2>2, <3>1
      <3> QED BY <1>0, <3>2 DEF PacketsInv
    <2>8. /\ frames_processed = L /\ L = Due(output_frameno) /\ 0 \in keyframes
      BY <1>0 DEF PacketsInv
    <2> HIDE DEF L, c
    <2>9. /\ frames_processed' = Len(packets') /\ Len(packets') = Due(output_frameno)'
          /\ Len(sent') = frame_count'
      BY <1>2, <1>4, <2>2, <2>8 DEF L, c
    <2>10. /\ opaque_q' = {i \in Len(packets') .. frame_count' - 1 : sent'[i + 1].opaque}
           /\ keyframes_forced' = {i \in 0 .. frame_count' - 1 : sent'[i + 1].key}
      BY <1>2, <2>4, <2>5 DEF L, c
    <2> QED BY <1>2, <2>6, <2>7, <2>8, <2>9, <2>10 DEF PacketsInv
  <1>11. FlushedInv' /\ NeverStarvedAfterFlush'
    BY <1>2 DEF FlushedInv, NeverStarvedAfterFlush
  <1> QED BY <1>4, <1>6, <1>7, <1>8, <1>9, <1>10, <1>11 DEF PipelineInv

\* The packets, in a step that neither sends nor outputs.
LEMMA PacketsKept ==
  ASSUME PacketsInv,
         UNCHANGED <<sent, opaque_q, keyframes_forced, packets, frame_count, frames_processed>>,
         Due(output_frameno)' = Due(output_frameno), keyframes \subseteq keyframes',
         \A i \in keyframes_forced : i < next_lookahead_frame' => i \in keyframes'
  PROVE  PacketsInv'
PROOF
  BY DEF PacketsInv

\* The calls that are refused or do nothing.
LEMMA StatusInv ==
  ASSUME PipelineInv, status' \in {"Ok", "EnoughData", status},
         UNCHANGED <<inputVars, frame_q, t35_q, lookVars, gopVars, frame_data,
                     next_lookahead_output_frameno, outputVars, pc>>
  PROVE  PipelineInv'
PROOF
  <1>0. /\ TypeOK /\ HistoryInv /\ CallsInv /\ QueueInv /\ ResidentInv /\ PositionsInv
        /\ PacketsInv /\ KeyOutput /\ KeyframeIntervalRespected
        /\ FlushedInv /\ NeverStarvedAfterFlush
    BY DEF PipelineInv
  <1>2. UNCHANGED <<frame_count, limit, is_flushing, keyframes_forced, opaque_q, sent, frame_q,
                    t35_q, keyframes, next_lookahead_frame, gop_output_frameno_start,
                    gop_input_frameno_start, frame_data, next_lookahead_output_frameno,
                    output_frameno, frames_processed, packet_data, packets, pc>>
    BY DEF inputVars, lookVars, gopVars, outputVars
  <1>3. KeysStep
    BY <1>0, <1>2, KeysStepFacts
  <1>4. /\ ResidentInv' /\ PositionsInv' /\ KeyOutput' /\ KeyframeIntervalRespected'
        /\ Due(output_frameno)' = Due(output_frameno) /\ Due(NextOut)' = Due(NextOut)
    <2>1. \A n \in DOMAIN frame_data :
            /\ G(n)' = G(n) /\ K(n)' = K(n)
            /\ n \in DOMAIN gop_output_frameno_start' /\ n \in DOMAIN gop_input_frameno_start'
      BY <1>0, <1>2 DEF G, K, ResidentInv
    <2>2. UNCHANGED <<frame_data, NextOut, output_frameno, packets>>
      BY <1>2 DEF NextOut
    <2>3. /\ frame_count' \in Nat /\ next_lookahead_frame' \in Nat
          /\ frame_count <= frame_count' /\ next_lookahead_frame <= next_lookahead_frame'
      BY <1>0, <1>2 DEF TypeOK
    <2> QED BY <1>2, <1>3, <2>1, <2>2, <2>3, InputStep
  <1>5. TypeOK' /\ HistoryInv' /\ CallsInv'
    BY <1>0, <1>2 DEF TypeOK, HistoryInv, CallsInv
  <1>6. QueueInv'
    BY <1>0, <1>2 DEF QueueInv, LastQueued
  <1>7. PacketsInv'
    <2>1. \A i \in keyframes_forced : i < next_lookahead_frame' => i \in keyframes'
      BY <1>0, <1>2 DEF PacketsInv
    <2> QED BY <1>0, <1>2, <1>4, <2>1, PacketsKept
  <1>8. FlushedInv' /\ NeverStarvedAfterFlush'
    BY <1>0, <1>2, <1>4 DEF FlushedInv, NeverStarvedAfterFlush
  <1> QED BY <1>4, <1>5, <1>6, <1>7, <1>8 DEF PipelineInv

\* flush: the limit covers all frames.
LEMMA FlushInv == PipelineInv /\ Flush => PipelineInv'
PROOF
  <1> SUFFICES ASSUME PipelineInv, Flush PROVE PipelineInv'
    OBVIOUS
  <1>0. /\ TypeOK /\ HistoryInv /\ CallsInv /\ QueueInv /\ ResidentInv /\ PositionsInv
        /\ PacketsInv /\ KeyOutput /\ KeyframeIntervalRespected
        /\ FlushedInv /\ NeverStarvedAfterFlush
    BY DEF PipelineInv
  <1>1. frame_count \in Nat /\ next_lookahead_frame \in Nat
    BY <1>0 DEF TypeOK
  <1>2. /\ pc = "idle" /\ ~is_flushing /\ limit' = frame_count /\ is_flushing' = TRUE
        /\ frame_q' = Insert(frame_q, frame_count, FALSE)
        /\ pc' = "flush" /\ status' = "Ok"
        /\ UNCHANGED <<frame_count, keyframes_forced, opaque_q, sent, t35_q,
                       keyframes, next_lookahead_frame, next_lookahead_output_frameno,
                       gop_output_frameno_start, gop_input_frameno_start, frame_data,
                       output_frameno, frames_processed, packet_data, packets>>
    BY DEF Flush, QueueNone, lookVars, gopVars, outputVars
  <1>3. limit = NoLimit
    BY <1>0, <1>2 DEF CallsInv
  <1>4. KeysStep
    BY <1>0, <1>2, <1>3, KeysStepFacts
  <1>5. /\ ResidentInv' /\ PositionsInv' /\ KeyOutput' /\ KeyframeIntervalRespected'
        /\ Due(output_frameno)' = Due(output_frameno)
    <2>1. \A n \in DOMAIN frame_data :
            /\ G(n)' = G(n) /\ K(n)' = K(n)
            /\ n \in DOMAIN gop_output_frameno_start' /\ n \in DOMAIN gop_input_frameno_start'
      BY <1>0, <1>2 DEF G, K, ResidentInv
    <2>2. UNCHANGED <<frame_data, NextOut, output_frameno, packets>>
      BY <1>2 DEF NextOut
    <2>3. /\ frame_count' \in Nat /\ next_lookahead_frame' \in Nat
          /\ frame_count <= frame_count' /\ next_lookahead_frame <= next_lookahead_frame'
      BY <1>1, <1>2
    <2> QED BY <1>2, <1>4, <2>1, <2>2, <2>3, InputStep
  <1>6. /\ DOMAIN frame_q' = DOMAIN frame_q \cup {frame_count} /\ frame_q'[frame_count] = FALSE
        /\ \A n \in DOMAIN frame_q : n # frame_count => frame_q'[n] = frame_q[n]
    BY <1>2 DEF Insert
  <1>7. TypeOK'
    <2>1. /\ DOMAIN frame_q' \subseteq Nat /\ \A n \in DOMAIN frame_q' : frame_q'[n] \in BOOLEAN
      BY <1>0, <1>1, <1>6 DEF TypeOK
    <2> QED BY <1>0, <1>2, <2>1 DEF TypeOK
  <1>8. HistoryInv' /\ CallsInv'
    BY <1>0, <1>1, <1>2 DEF HistoryInv, CallsInv
  <1>9. QueueInv'
    <2>1. PICK b \in 0 .. frame_count :
            DOMAIN frame_q = b .. LastQueued /\ (b = 0 \/ b < Len(packets))
      BY <1>0 DEF QueueInv
    <2>2. LastQueued = frame_count - 1 /\ LastQueued' = frame_count
      BY <1>1, <1>2 DEF LastQueued
    <2>3. (b .. frame_count - 1) \cup {frame_count} = b .. frame_count
      BY <1>1
    <2>4. DOMAIN frame_q' = b .. frame_count
      BY <1>6, <2>1, <2>2, <2>3
    <2>5. \A n \in DOMAIN frame_q' : frame_q'[n] = (n < frame_count')
      <3> TAKE n \in DOMAIN frame_q'
      <3>1. CASE n = frame_count
        <4>1. (n < frame_count') = FALSE
          BY <1>1, <1>2, <3>1
        <4>2. frame_q'[n] = FALSE
          BY <1>6, <3>1
        <4> QED BY <4>1, <4>2
      <3>2. CASE n # frame_count
        <4>1. n \in DOMAIN frame_q /\ frame_q'[n] = frame_q[n]
          BY <1>6, <3>2
        <4> QED BY <1>0, <1>2, <4>1 DEF QueueInv
      <3> QED BY <3>1, <3>2
    <2>6. Len(packets') <= frame_count'
      BY <1>0, <1>2 DEF QueueInv
    <2> QED BY <1>2, <2>1, <2>2, <2>4, <2>5, <2>6 DEF QueueInv
  <1>10. PacketsInv'
    <2>1. \A i \in keyframes_forced : i < next_lookahead_frame' => i \in keyframes'
      BY <1>0, <1>2 DEF PacketsInv
    <2> QED BY <1>0, <1>2, <1>5, <2>1, PacketsKept
  <1>11. FlushedInv' /\ NeverStarvedAfterFlush'
    BY <1>2 DEF FlushedInv, NeverStarvedAfterFlush
  <1> QED BY <1>5, <1>7, <1>8, <1>9, <1>10, <1>11 DEF PipelineInv

\* A keyframe decision.
LEMMA PlacementFacts ==
  ASSUME compute_keyframe_placement
  PROVE  /\ next_lookahead_frame' = next_lookahead_frame + 1
         /\ keyframes' = keyframes \/ keyframes' = keyframes \cup {next_lookahead_frame}
         /\ next_lookahead_frame \in keyframes_forced => next_lookahead_frame \in keyframes'
PROOF
  <1>1. PICK cut \in IF next_lookahead_frame \in keyframes_forced
                     THEN {TRUE} ELSE AnalyzeNextFrame(next_lookahead_frame) :
          keyframes' = IF cut THEN keyframes \cup {next_lookahead_frame} ELSE keyframes
    BY DEF compute_keyframe_placement
  <1>2. next_lookahead_frame' = next_lookahead_frame + 1
    BY DEF compute_keyframe_placement
  <1>3. next_lookahead_frame \in keyframes_forced => cut = TRUE
    BY <1>1
  <1> QED BY <1>1, <1>2, <1>3

\* The steps that decide, or go on to the next loop.
LEMMA DecisionInv ==
  ASSUME PipelineInv,
         UNCHANGED <<inputVars, frame_q, t35_q, next_lookahead_output_frameno, gopVars,
                     frame_data, outputVars, status>>,
         compute_keyframe_placement \/ UNCHANGED lookVars,
         pc # "idle", pc' # "idle", CallsInv'
  PROVE  PipelineInv'
PROOF
  <1>0. /\ TypeOK /\ HistoryInv /\ CallsInv /\ QueueInv /\ ResidentInv /\ PositionsInv
        /\ PacketsInv /\ KeyOutput /\ KeyframeIntervalRespected
        /\ FlushedInv /\ NeverStarvedAfterFlush
    BY DEF PipelineInv
  <1>1. frame_count \in Nat /\ next_lookahead_frame \in Nat \ {0} /\ keyframes \subseteq Nat
    BY <1>0 DEF TypeOK
  <1>2. UNCHANGED <<frame_count, limit, is_flushing, keyframes_forced, opaque_q, sent, frame_q,
                    t35_q, gop_output_frameno_start,
                    gop_input_frameno_start, frame_data, next_lookahead_output_frameno,
                    output_frameno, frames_processed, packet_data, packets, status>>
    BY DEF inputVars, gopVars, outputVars
  <1>3. /\ next_lookahead_frame' \in {next_lookahead_frame, next_lookahead_frame + 1}
        /\ keyframes' = keyframes \/ keyframes' = keyframes \cup {next_lookahead_frame}
        /\ \A i \in keyframes_forced : i < next_lookahead_frame' => i \in keyframes'
    <2>1. CASE compute_keyframe_placement
      <3>1. /\ next_lookahead_frame' = next_lookahead_frame + 1
            /\ keyframes' = keyframes \/ keyframes' = keyframes \cup {next_lookahead_frame}
            /\ next_lookahead_frame \in keyframes_forced => next_lookahead_frame \in keyframes'
        BY <2>1, PlacementFacts
      <3>2. \A i \in keyframes_forced : i < next_lookahead_frame' => i \in keyframes'
        <4> TAKE i \in keyframes_forced
        <4>1. i \in Nat
          BY <1>0 DEF TypeOK
        <4>2. i < next_lookahead_frame' => i < next_lookahead_frame \/ i = next_lookahead_frame
          BY <1>1, <3>1, <4>1
        <4> QED BY <1>0, <3>1, <4>2 DEF PacketsInv
      <3> QED BY <3>1, <3>2
    <2>2. CASE UNCHANGED lookVars
      BY <1>0, <2>2 DEF lookVars, PacketsInv
    <2> QED BY <2>1, <2>2
  <1>4. KeysStep
    BY <1>0, <1>2, <1>3, KeysStepFacts
  <1>5. /\ ResidentInv' /\ PositionsInv' /\ KeyOutput' /\ KeyframeIntervalRespected'
        /\ Due(output_frameno)' = Due(output_frameno)
    <2>1. \A n \in DOMAIN frame_data :
            /\ G(n)' = G(n) /\ K(n)' = K(n)
            /\ n \in DOMAIN gop_output_frameno_start' /\ n \in DOMAIN gop_input_frameno_start'
      BY <1>0, <1>2 DEF G, K, ResidentInv
    <2>2. UNCHANGED <<frame_data, NextOut, output_frameno, packets>>
      BY <1>2 DEF NextOut
    <2>3. /\ frame_count' \in Nat /\ next_lookahead_frame' \in Nat
          /\ frame_count <= frame_count' /\ next_lookahead_frame <= next_lookahead_frame'
      BY <1>1, <1>2, <1>3
    <2> QED BY <1>2, <1>4, <2>1, <2>2, <2>3, InputStep
  <1>6. TypeOK'
    <2>1. next_lookahead_frame' \in Nat \ {0}
      BY <1>1, <1>3
    <2>3. keyframes' \subseteq Nat
      BY <1>1, <1>3
    <2>2. pc' \in {"idle", "place", "flush", "remaining", "invariants"}
      BY DEF CallsInv
    <2> QED BY <1>0, <1>2, <2>1, <2>2, <2>3 DEF TypeOK
  <1>7. HistoryInv' /\ QueueInv'
    BY <1>0, <1>2 DEF HistoryInv, QueueInv, LastQueued
  <1>8. PacketsInv'
    BY <1>0, <1>2, <1>3, <1>5, PacketsKept
  <1>9. FlushedInv' /\ NeverStarvedAfterFlush'
    BY <1>0, <1>2 DEF FlushedInv, NeverStarvedAfterFlush
  <1> QED BY <1>5, <1>6, <1>7, <1>8, <1>9 DEF PipelineInv

\* After a frame.
LEMMA PlaceKeyframeInv == PipelineInv /\ PlaceKeyframe => PipelineInv'
PROOF
  <1> SUFFICES ASSUME PipelineInv, PlaceKeyframe PROVE PipelineInv'
    OBVIOUS
  <1>0. TypeOK /\ HistoryInv /\ CallsInv /\ QueueInv
    BY DEF PipelineInv
  <1>1. /\ frame_count \in Nat /\ next_lookahead_frame \in Nat \ {0} /\ group_input_len \in Nat
        /\ is_flushing \in BOOLEAN
    BY <1>0, GroupFacts DEF TypeOK
  <1>2. /\ pc = "place" /\ pc' = "invariants"
        /\ UNCHANGED <<inputVars, frame_q, t35_q, next_lookahead_output_frameno, gopVars,
                       frame_data, outputVars, status>>
        /\ UNCHANGED <<frame_count, limit, is_flushing>>
    BY DEF PlaceKeyframe, inputVars
  <1>3. ~is_flushing /\ limit = NoLimit
        /\ frame_count <= next_lookahead_frame + group_input_len + 3
        /\ (next_lookahead_frame = 1 \/ next_lookahead_frame <= frame_count)
    BY <1>0, <1>2 DEF CallsInv
  <1>4. lookahead_end = IF frame_count = 0 THEN 0 ELSE frame_count - 1
    BY <1>0, <1>3, QueueFacts
  <1>5. needs_more_frame_q_lookahead(next_lookahead_frame)
          <=> lookahead_end < next_lookahead_frame + (group_input_len + 1) + 1
    BY <1>3 DEF needs_more_frame_q_lookahead, needs_more_frames, keyframe_lookahead_distance
  <1>6. CASE needs_more_frame_q_lookahead(next_lookahead_frame)
    <2>1. UNCHANGED lookVars /\ next_lookahead_frame' = next_lookahead_frame
      BY <1>6 DEF PlaceKeyframe, lookVars
    <2>2. frame_count <= next_lookahead_frame + group_input_len + 2
      BY <1>1, <1>4, <1>5, <1>6
    <2>3. CallsInv'
      BY <1>2, <1>3, <2>1, <2>2 DEF CallsInv
    <2> QED BY <1>2, <2>1, <2>3, DecisionInv
  <1>7. CASE ~needs_more_frame_q_lookahead(next_lookahead_frame)
    <2>1. compute_keyframe_placement /\ next_lookahead_frame' = next_lookahead_frame + 1
      BY <1>7, PlacementFacts DEF PlaceKeyframe
    <2>2. /\ frame_count <= (next_lookahead_frame + 1) + group_input_len + 2
          /\ next_lookahead_frame + 1 <= frame_count
      BY <1>1, <1>3, <1>4, <1>5, <1>7
    <2>3. CallsInv'
      BY <1>2, <1>3, <2>1, <2>2 DEF CallsInv
    <2> QED BY <1>2, <2>1, <2>3, DecisionInv
  <1> QED BY <1>6, <1>7

\* After an end mark.
LEMMA StartRemainingInv == PipelineInv /\ StartRemaining => PipelineInv'
PROOF
  <1> SUFFICES ASSUME PipelineInv, StartRemaining PROVE PipelineInv'
    OBVIOUS
  <1>0. TypeOK /\ HistoryInv /\ CallsInv /\ QueueInv
    BY DEF PipelineInv
  <1>1. /\ pc = "flush" /\ UNCHANGED lookVars
        /\ pc' = IF needs_more_frame_q_lookahead(next_lookahead_frame)
                 THEN "invariants" ELSE "remaining"
        /\ UNCHANGED <<inputVars, frame_q, t35_q, next_lookahead_output_frameno, gopVars,
                       frame_data, outputVars, status>>
        /\ UNCHANGED <<frame_count, limit, is_flushing, next_lookahead_frame>>
    BY DEF StartRemaining, inputVars, lookVars
  <1>2. is_flushing /\ limit = frame_count /\ frame_count \in Nat
    BY <1>0, <1>1 DEF CallsInv, TypeOK
  <1>3. lookahead_end = frame_count
    BY <1>0, <1>2, QueueFacts
  <1>4. pc' = "remaining"
    BY <1>1, <1>2, <1>3 DEF needs_more_frame_q_lookahead, needs_more_frames, NoLimit
  <1>5. CallsInv'
    BY <1>0, <1>1, <1>2, <1>4 DEF CallsInv
  <1> QED BY <1>1, <1>4, <1>5, DecisionInv

\* What is due has been sent and decided.
LEMMA DueDecided ==
  ASSUME TypeOK, CallsInv, ResidentInv, PositionsInv, NEW n \in Nat,
         n = 0 \/ n - 1 \in DOMAIN frame_data
  PROVE  Due(n) \in Nat /\ Due(n) <= frame_count /\ Due(n) <= next_lookahead_frame
PROOF
  <1>0. frame_count \in Nat /\ next_lookahead_frame \in Nat
    BY DEF TypeOK
  <1>1. CASE n = 0
    BY <1>0, <1>1 DEF Due
  <1>2. CASE n # 0
    <2> DEFINE m == n - 1
    <2>1. m \in DOMAIN frame_data /\ Due(n) = DueAfter(m)
      BY <1>2 DEF Due
    <2> HIDE DEF m
    <2>2. /\ GopInv(m) /\ m \in Nat
      BY <2>1 DEF PositionsInv, TypeOK
    <2>3. /\ K(m) \in Nat /\ P(m) \in Nat
          /\ DueAfter(m) <= frame_count /\ DueAfter(m) <= next_lookahead_frame
      BY <2>2 DEF GopInv, P
    <2>4. NextKey(K(m)) \in Nat /\ ShownUpTo(P(m)) \in Nat
      BY <2>3, ShownNat, NextKeyBounds
    <2>5. DueAfter(m) \in Nat
      BY <2>3, <2>4 DEF DueAfter, Least
    <2> QED BY <2>1, <2>3, <2>5
  <1> QED BY <1>1, <1>2

\* The frames left to decide about.
LEMMA LookaheadFramesFacts ==
  ASSUME PipelineInv, is_flushing
  PROVE  Cardinality(LookaheadFrames) < 2 <=> next_lookahead_frame >= frame_count
PROOF
  <1>0. TypeOK /\ HistoryInv /\ CallsInv /\ QueueInv /\ ResidentInv /\ PositionsInv /\ PacketsInv
    BY DEF PipelineInv
  <1>1. /\ frame_count \in Nat /\ next_lookahead_frame \in Nat \ {0} /\ output_frameno \in Nat
        /\ Len(packets) \in Nat
    BY <1>0 DEF TypeOK, HistoryInv
  <1>2. PICK b \in 0 .. frame_count :
          DOMAIN frame_q = b .. frame_count /\ (b = 0 \/ b < Len(packets))
    BY <1>0 DEF QueueInv, LastQueued
  <1>3. Len(packets) <= next_lookahead_frame
    <2>1. output_frameno = 0 \/ output_frameno - 1 \in DOMAIN frame_data
      BY <1>0, <1>1, OutputResident
    <2>2. Due(output_frameno) <= next_lookahead_frame
      BY <1>0, <1>1, <2>1, DueDecided
    <2> QED BY <1>0, <2>2 DEF PacketsInv
  <1> DEFINE lo == next_lookahead_frame - 1
             hi == frame_count - 1
  <1>4. lo \in Nat /\ hi \in Int /\ b <= lo
    BY <1>1, <1>2, <1>3
  <1>5. LookaheadFrames = lo .. hi
    <2>1. \A n \in b .. frame_count : frame_q[n] = (n < frame_count)
      BY <1>0, <1>2 DEF QueueInv
    <2>2. \A n \in b .. frame_count : (n >= lo /\ n < frame_count) <=> n \in lo .. hi
      BY <1>1
    <2>3. lo .. hi \subseteq b .. frame_count
      BY <1>1, <1>4
    <2> HIDE DEF lo, hi
    <2>4. LookaheadFrames = {n \in b .. frame_count : n >= lo /\ frame_q[n]}
      BY <1>2 DEF LookaheadFrames, lo
    <2> QED BY <2>1, <2>2, <2>3, <2>4
  <1>6. Cardinality(LookaheadFrames) = IF lo > hi THEN 0 ELSE hi - lo + 1
    <2> HIDE DEF lo, hi
    <2> QED BY <1>4, <1>5, FS_Interval
  <1> QED BY <1>1, <1>6

\* The decisions after an end mark.
LEMMA PlaceRemainingKeyframesInv == PipelineInv /\ PlaceRemainingKeyframes => PipelineInv'
PROOF
  <1> SUFFICES ASSUME PipelineInv, PlaceRemainingKeyframes PROVE PipelineInv'
    OBVIOUS
  <1>0. TypeOK /\ CallsInv
    BY DEF PipelineInv
  <1>1. /\ pc = "remaining" /\ frame_count \in Nat /\ next_lookahead_frame \in Nat
        /\ UNCHANGED <<inputVars, frame_q, t35_q, next_lookahead_output_frameno, gopVars,
                       frame_data, outputVars, status>>
        /\ UNCHANGED <<frame_count, limit, is_flushing>>
    BY <1>0 DEF PlaceRemainingKeyframes, inputVars, TypeOK
  <1>2. is_flushing
    BY <1>0, <1>1 DEF CallsInv
  <1>3. CASE Cardinality(LookaheadFrames) < 2
    <2>1. pc' = "invariants" /\ UNCHANGED lookVars /\ next_lookahead_frame' = next_lookahead_frame
      BY <1>3 DEF PlaceRemainingKeyframes, lookVars
    <2>2. next_lookahead_frame >= frame_count
      BY <1>2, <1>3, LookaheadFramesFacts
    <2>3. CallsInv'
      BY <1>0, <1>1, <1>2, <2>1, <2>2 DEF CallsInv
    <2> QED BY <1>1, <2>1, <2>3, DecisionInv
  <1>4. CASE ~(Cardinality(LookaheadFrames) < 2)
    <2>1. /\ pc' = "remaining" /\ compute_keyframe_placement
          /\ next_lookahead_frame' = next_lookahead_frame + 1
      BY <1>1, <1>4, PlacementFacts DEF PlaceRemainingKeyframes
    <2>2. next_lookahead_frame + 1 <= frame_count
      BY <1>1, <1>2, <1>4, LookaheadFramesFacts
    <2>3. CallsInv'
      BY <1>0, <1>1, <1>2, <2>1, <2>2 DEF CallsInv
    <2> QED BY <1>1, <2>1, <2>3, DecisionInv
  <1> QED BY <1>3, <1>4

-----------------------------------------------------------------------------
(* The steps of compute_frame_invariants *)

\* What is due never decreases; where no frame is built it stays.
LEMMA DueBetween ==
  ASSUME TypeOK, CallsInv, ResidentInv, PositionsInv, NEW n \in output_frameno .. NextOut
  PROVE  /\ Due(n) \in Nat /\ Due(output_frameno) \in Nat /\ Due(output_frameno) <= Due(n)
         /\ (\A m \in output_frameno .. n - 1 : ~IsFrame(frame_data[m]))
              => Due(n) = Due(output_frameno)
PROOF
  <1>1. PICK o, N : o = output_frameno /\ N = NextOut
    OBVIOUS
  <1>2. o \in Nat /\ N \in Nat /\ o <= N
    BY <1>1 DEF TypeOK, ResidentInv, NextOut
  <1> DEFINE Same(m) == \A i \in o .. m - 1 : ~IsFrame(frame_data[i])
             Good(m) == /\ Due(m) \in Nat /\ Due(o) <= Due(m)
                        /\ Same(m) => Due(m) = Due(o)
             S == {d \in 0 .. N - o : Good(o + d)}
  <1>3. Due(o) \in Nat
    <2>1. o = 0 \/ o - 1 \in DOMAIN frame_data
      BY <1>1, <1>2, OutputResident
    <2> QED BY <1>2, <2>1, DueDecided
  <1>4. 0 \in S
    <2>1. o + 0 = o
      BY <1>2
    <2>2. Good(o + 0)
      BY <1>3, <2>1
    <2> HIDE DEF Good
    <2> QED BY <1>2, <2>2
  <1>5. ASSUME NEW d \in 0 .. (N - o) - 1, d \in S PROVE d + 1 \in S
    <2> DEFINE m == o + d
    <2>1. m \in Nat /\ m \in o .. N - 1 /\ o + (d + 1) = m + 1 /\ d + 1 \in 0 .. N - o
      BY <1>2
    <2>2. Good(m)
      BY <1>5
    <2> HIDE DEF m
    <2>3. m \in DOMAIN frame_data
      BY <1>1, <2>1, OutputResident
    <2>4. m = 0 \/ m - 1 \in DOMAIN frame_data
      <3>1. CASE m = o
        BY <1>1, <1>2, <3>1, OutputResident
      <3>2. CASE m # o
        <4>1. m - 1 \in o .. N - 1
          BY <1>2, <2>1, <3>2
        <4> QED BY <1>1, <4>1, OutputResident
      <3> QED BY <3>1, <3>2
    <2>5. /\ Due(m) \in Nat /\ DueAfter(m) \in Nat /\ DueAfter(m) = Due(m + 1)
          /\ ~IsFrame(frame_data[m]) => DueAfter(m) = Due(m)
          /\ DueAfter(m) \in {Due(m), Due(m) + 1}
      BY <2>3, <2>4, PositionDue
    <2>6. Due(m + 1) \in Nat /\ Due(o) <= Due(m + 1)
      BY <1>3, <2>2, <2>5
    <2>7. Same(m + 1) => Due(m + 1) = Due(o)
      <3> SUFFICES ASSUME Same(m + 1) PROVE Due(m + 1) = Due(o)
        OBVIOUS
      <3>1. m \in o .. (m + 1) - 1 /\ \A i \in o .. m - 1 : i \in o .. (m + 1) - 1
        BY <1>2, <2>1
      <3>2. ~IsFrame(frame_data[m]) /\ Same(m)
        BY <3>1
      <3> QED BY <2>2, <2>5, <3>2
    <2>8. Good(o + (d + 1))
      BY <2>1, <2>6, <2>7
    <2> HIDE DEF Good
    <2> QED BY <2>1, <2>8
  <1>6. n - o \in 0 .. N - o /\ o + (n - o) = n
    BY <1>1, <1>2
  <1>7. n - o \in S
    <2> HIDE DEF S
    <2>1. N - o \in Nat
      BY <1>2
    <2> QED BY <1>4, <1>5, <1>6, <2>1, InductionUpTo
  <1>8. Good(n)
    BY <1>6, <1>7
  <1> QED BY <1>1, <1>3, <1>8

\* After a flush the loop ends when everything has been built.
LEMMA BuiltToTheEnd ==
  ASSUME PipelineInv, is_flushing,
         needs_more_frame_q_lookahead(WantedInput) \/ SourceMissing
  PROVE  Due(NextOut) = frame_count
PROOF
  <1>0. /\ TypeOK /\ HistoryInv /\ CallsInv /\ QueueInv /\ ResidentInv /\ PositionsInv
        /\ PacketsInv /\ BuildInv
    BY DEF PipelineInv, BuildInv
  <1>1. /\ frame_count \in Nat /\ limit = frame_count /\ NextOut \in Nat /\ Len(packets) \in Nat
        /\ output_frameno \in Nat /\ output_frameno <= NextOut
    BY <1>0 DEF TypeOK, CallsInv, NextOut, HistoryInv, ResidentInv
  <1>2. SourceMissing
    <2>1. lookahead_end = frame_count
      BY <1>0, QueueFacts
    <2> QED BY <1>1, <2>1 DEF needs_more_frame_q_lookahead, needs_more_frames, NoLimit
  <1>3. \A n \in Nat : n < frame_count /\ n >= Len(packets) => HasFrame(n)
    BY <1>0, QueueFacts
  <1>4. Len(packets) = Due(output_frameno)
    BY <1>0 DEF PacketsInv
  <1>5. CASE NextOut = 0
    <2>1. InGop = 0 /\ WantedInput = 0
      BY <1>5 DEF InGop, GopOut, GopIn, WantedInput, get_input_frameno
    <2>2. StartsGop /\ KeyInput = 0
      BY <2>1 DEF StartsGop, KeyInput, PastKeyframe
    <2>3. ~HasFrame(0)
      BY <1>2, <2>2 DEF SourceMissing
    <2>4. Len(packets) = 0 /\ Due(NextOut) = 0
      BY <1>1, <1>4, <1>5 DEF Due
    <2> QED BY <1>1, <1>3, <2>3, <2>4
  <1>6. CASE NextOut > 0
    <2>1. /\ Due(NextOut) \in Nat /\ Len(packets) <= Due(NextOut)
      BY <1>0, <1>1, <1>4, DueBetween
    <2>2. Due(NextOut) <= frame_count
      BY <1>6, <1>0, GopFacts
    <2>3. CASE StartsGop
      <3>1. ~HasFrame(Due(NextOut))
        BY <1>0, <1>2, <1>6, <2>3, StartsGopFacts DEF SourceMissing
      <3> QED BY <1>1, <1>3, <2>1, <2>2, <3>1
    <2>4. CASE ~StartsGop
      <3>1. ~PastKeyframe /\ ~HasFrame(WantedInput)
        BY <1>2, <2>4 DEF SourceMissing
      <3>2. /\ WantedInput \in Nat /\ NextKeyframe \in Nat /\ GopIn \in Nat
            /\ InGop \in Nat \ {0} /\ NextKeyframe = NextKey(GopIn)
            /\ Due(NextOut) = Least(GopIn + ShownUpTo(InGop - 1), NextKeyframe)
        BY <1>0, <1>6, GopFacts
      <3>3. WantedInput < NextKeyframe
        BY <1>0, <1>6, <3>1, <3>2, StartsGopFacts
      <3>4. NextKeyframe <= frame_count
        BY <1>0, <1>1, <3>2, NextKeyBounds DEF NoLimit
      <3>5. WantedInput >= GopIn + ShownUpTo(InGop - 1) /\ ShownUpTo(InGop - 1) \in Nat
        BY <3>2, PositionFacts DEF WantedInput
      <3>6. WantedInput >= Due(NextOut)
        BY <3>2, <3>5 DEF Least
      <3>7. WantedInput < frame_count /\ WantedInput >= Len(packets)
        BY <1>1, <2>1, <3>2, <3>3, <3>4, <3>6
      <3> QED BY <1>3, <3>1, <3>2, <3>7
    <2> QED BY <2>3, <2>4
  <1> QED BY <1>1, <1>5, <1>6

\* The end of the loop.
LEMMA InvariantsDoneInv == PipelineInv /\ InvariantsDone => PipelineInv'
PROOF
  <1> SUFFICES ASSUME PipelineInv, InvariantsDone PROVE PipelineInv'
    OBVIOUS
  <1>0. /\ TypeOK /\ HistoryInv /\ CallsInv /\ QueueInv /\ ResidentInv /\ PositionsInv
        /\ PacketsInv /\ KeyOutput /\ KeyframeIntervalRespected
        /\ FlushedInv /\ NeverStarvedAfterFlush /\ BuildInv
    BY DEF PipelineInv, BuildInv
  <1>1. frame_count \in Nat /\ next_lookahead_frame \in Nat /\ NextOut \in Nat
    BY <1>0 DEF TypeOK, NextOut
  <1>2. /\ pc = "invariants" /\ pc' = "idle"
        /\ gop_output_frameno_start' = Insert(gop_output_frameno_start, NextOut, GopOut)
        /\ gop_input_frameno_start' = Insert(gop_input_frameno_start, NextOut, GopIn)
        /\ t35_q' \subseteq t35_q
        /\ needs_more_frame_q_lookahead(WantedInput) \/ SourceMissing
        /\ UNCHANGED <<frame_count, limit, is_flushing, keyframes_forced, opaque_q, sent, frame_q,
                       keyframes, next_lookahead_frame, frame_data,
                       next_lookahead_output_frameno,
                       output_frameno, frames_processed, packet_data, packets, status>>
    BY DEF InvariantsDone, InsertGop, inputVars, lookVars, outputVars
  <1>3. KeysStep
    BY <1>0, <1>2, KeysStepFacts
  <1>4. \A n \in DOMAIN frame_data :
          /\ G(n)' = G(n) /\ K(n)' = K(n)
          /\ n \in DOMAIN gop_output_frameno_start' /\ n \in DOMAIN gop_input_frameno_start'
    <2> TAKE n \in DOMAIN frame_data
    <2>1. /\ n # NextOut /\ n \in DOMAIN gop_output_frameno_start
          /\ n \in DOMAIN gop_input_frameno_start
      BY <1>0, <1>1, OutputResident DEF ResidentInv
    <2>2. /\ gop_output_frameno_start'[n] = gop_output_frameno_start[n]
          /\ n \in DOMAIN gop_output_frameno_start'
      BY <1>2, <2>1 DEF Insert
    <2>3. /\ gop_input_frameno_start'[n] = gop_input_frameno_start[n]
          /\ n \in DOMAIN gop_input_frameno_start'
      BY <1>2, <2>1 DEF Insert
    <2> QED BY <2>2, <2>3 DEF G, K
  <1>5. /\ ResidentInv' /\ PositionsInv' /\ KeyOutput' /\ KeyframeIntervalRespected'
        /\ Due(output_frameno)' = Due(output_frameno) /\ Due(NextOut)' = Due(NextOut)
    <2>1. UNCHANGED <<frame_data, NextOut, output_frameno, packets>>
      BY <1>2 DEF NextOut
    <2>2. /\ frame_count' \in Nat /\ next_lookahead_frame' \in Nat
          /\ frame_count <= frame_count' /\ next_lookahead_frame <= next_lookahead_frame'
      BY <1>1, <1>2
    <2> QED BY <1>2, <1>3, <1>4, <2>1, <2>2, InputStep
  <1>6. GopOut \in 0 .. NextOut /\ GopIn \in Nat
    <2>1. CASE NextOut = 0
      BY <2>1 DEF GopOut, GopIn
    <2>2. CASE NextOut > 0
      BY <1>0, <1>1, <2>2, GopFacts
    <2> QED BY <1>1, <2>1, <2>2
  <1>7. TypeOK'
    <2>1. /\ DOMAIN gop_output_frameno_start' \subseteq Nat
          /\ \A n \in DOMAIN gop_output_frameno_start' : gop_output_frameno_start'[n] \in 0 .. n
      <3>1. DOMAIN gop_output_frameno_start' = DOMAIN gop_output_frameno_start \cup {NextOut}
        BY <1>2 DEF Insert
      <3>2. \A n \in DOMAIN gop_output_frameno_start' :
              gop_output_frameno_start'[n] = IF n = NextOut THEN GopOut
                                             ELSE gop_output_frameno_start[n]
        BY <1>2 DEF Insert
      <3> QED BY <1>0, <1>1, <1>6, <3>1, <3>2 DEF TypeOK
    <2>2. /\ DOMAIN gop_input_frameno_start' \subseteq Nat
          /\ \A n \in DOMAIN gop_input_frameno_start' : gop_input_frameno_start'[n] \in Nat
      <3>1. DOMAIN gop_input_frameno_start' = DOMAIN gop_input_frameno_start \cup {NextOut}
        BY <1>2 DEF Insert
      <3>2. \A n \in DOMAIN gop_input_frameno_start' :
              gop_input_frameno_start'[n] = IF n = NextOut THEN GopIn
                                             ELSE gop_input_frameno_start[n]
        BY <1>2 DEF Insert
      <3> QED BY <1>0, <1>1, <1>6, <3>1, <3>2 DEF TypeOK
    <2>3. t35_q' \subseteq Nat
      BY <1>0, <1>2 DEF TypeOK
    <2> QED BY <1>0, <1>2, <2>1, <2>2, <2>3 DEF TypeOK
  <1>8. HistoryInv' /\ CallsInv' /\ QueueInv'
    BY <1>0, <1>2 DEF HistoryInv, CallsInv, QueueInv, LastQueued
  <1>9. PacketsInv'
    <2>1. \A i \in keyframes_forced : i < next_lookahead_frame' => i \in keyframes'
      BY <1>0, <1>2 DEF PacketsInv
    <2> QED BY <1>0, <1>2, <1>5, <2>1, PacketsKept
  <1>10. FlushedInv'
    BY <1>2, <1>5, BuiltToTheEnd DEF FlushedInv
  <1>11. NeverStarvedAfterFlush'
    BY <1>0, <1>2 DEF NeverStarvedAfterFlush
  <1> QED BY <1>5, <1>7, <1>8, <1>9, <1>10, <1>11 DEF PipelineInv

\* What building a frame keeps.
LEMMA BuildInvStep ==
  ASSUME PipelineInv, BuildsFrame, NEW fd, NEW g \in 0 .. NextOut, NEW k \in Nat,
         InsertGop(g, k), InsertFrameData(fd),
         fd = Placeholder \/ fd \in FrameDataType, NextOut > 0 \/ IsCoded(fd),
         k < frame_count, k < next_lookahead_frame,
         Least(k + ShownUpTo(NextOut - g), NextKey(k)) <= frame_count,
         Least(k + ShownUpTo(NextOut - g), NextKey(k)) <= next_lookahead_frame,
         \/ g = NextOut /\ k = Due(NextOut)
         \/ NextOut > 0 /\ g = GopOut /\ k = GopIn,
         Built(fd, NextOut - g, k)
  PROVE  PipelineInv'
PROOF
  <1>0. /\ TypeOK /\ HistoryInv /\ CallsInv /\ QueueInv /\ ResidentInv /\ PositionsInv
        /\ PacketsInv /\ KeyOutput /\ KeyframeIntervalRespected
        /\ FlushedInv /\ NeverStarvedAfterFlush /\ BuildInv
    BY DEF PipelineInv, BuildInv
  <1>1. /\ NextOut \in Nat /\ output_frameno \in Nat /\ output_frameno <= NextOut
        /\ DOMAIN frame_data \subseteq Nat
    BY <1>0 DEF TypeOK, NextOut, ResidentInv
  <1>2. /\ pc = "invariants"
        /\ gop_output_frameno_start' = Insert(gop_output_frameno_start, NextOut, g)
        /\ gop_input_frameno_start' = Insert(gop_input_frameno_start, NextOut, k)
        /\ frame_data' = Insert(frame_data, NextOut, fd)
        /\ next_lookahead_output_frameno' = NextOut + 1 /\ NextOut' = NextOut + 1
        /\ t35_q' \subseteq t35_q
        /\ UNCHANGED <<frame_count, limit, is_flushing, keyframes_forced, opaque_q, sent, frame_q,
                       keyframes, next_lookahead_frame,
                       output_frameno, frames_processed, packet_data, packets, pc, status>>
    BY DEF BuildsFrame, InsertGop, InsertFrameData, inputVars, lookVars, outputVars, NextOut
  <1>3. /\ PositionsInv'
        /\ \A n \in DOMAIN frame_data :
             frame_data'[n] = frame_data[n] /\ K(n)' = K(n) /\ DueAfter(n)' = DueAfter(n)
        /\ DOMAIN frame_data' = DOMAIN frame_data \cup {NextOut}
        /\ frame_data'[NextOut] = fd
    BY <1>0, <1>2, NewPosition
  <1>4. TypeOK'
    <2>1. /\ DOMAIN gop_output_frameno_start' \subseteq Nat
          /\ \A n \in DOMAIN gop_output_frameno_start' : gop_output_frameno_start'[n] \in 0 .. n
      <3>1. DOMAIN gop_output_frameno_start' = DOMAIN gop_output_frameno_start \cup {NextOut}
        BY <1>2 DEF Insert
      <3>2. \A n \in DOMAIN gop_output_frameno_start' :
              gop_output_frameno_start'[n] = IF n = NextOut THEN g
                                             ELSE gop_output_frameno_start[n]
        BY <1>2 DEF Insert
      <3> QED BY <1>0, <1>1, <3>1, <3>2 DEF TypeOK
    <2>2. /\ DOMAIN gop_input_frameno_start' \subseteq Nat
          /\ \A n \in DOMAIN gop_input_frameno_start' : gop_input_frameno_start'[n] \in Nat
      <3>1. DOMAIN gop_input_frameno_start' = DOMAIN gop_input_frameno_start \cup {NextOut}
        BY <1>2 DEF Insert
      <3>2. \A n \in DOMAIN gop_input_frameno_start' :
              gop_input_frameno_start'[n] = IF n = NextOut THEN k
                                             ELSE gop_input_frameno_start[n]
        BY <1>2 DEF Insert
      <3> QED BY <1>0, <1>1, <3>1, <3>2 DEF TypeOK
    <2>3. t35_q' \subseteq Nat /\ next_lookahead_output_frameno' \in Nat
      BY <1>0, <1>1, <1>2 DEF TypeOK
    <2>4. DOMAIN frame_data' \subseteq Nat
      BY <1>1, <1>3
    <2>5. \A n \in DOMAIN frame_data' :
            frame_data'[n] = Placeholder \/ frame_data'[n] \in FrameDataType
      <3> TAKE n \in DOMAIN frame_data'
      <3>1. CASE n = NextOut
        BY <1>3, <3>1
      <3>2. CASE n # NextOut
        <4>1. n \in DOMAIN frame_data /\ frame_data'[n] = frame_data[n]
          BY <1>3, <3>2
        <4>2. frame_data[n] = Placeholder \/ frame_data[n] \in FrameDataType
          BY <1>0, <4>1 DEF TypeOK
        <4> QED BY <4>1, <4>2
      <3> QED BY <3>1, <3>2
    <2>6. /\ frame_count' \in Nat /\ limit' \in Nat \cup {NoLimit} /\ is_flushing' \in BOOLEAN
          /\ DOMAIN frame_q' \subseteq Nat /\ \A n \in DOMAIN frame_q' : frame_q'[n] \in BOOLEAN
          /\ opaque_q' \subseteq Nat /\ keyframes_forced' \subseteq Nat /\ keyframes' \subseteq Nat
          /\ next_lookahead_frame' \in Nat \ {0} /\ output_frameno' \in Nat
          /\ frames_processed' \in Nat
      BY <1>0, <1>2 DEF TypeOK
    <2>7. /\ pc' \in {"idle", "place", "flush", "remaining", "invariants"}
          /\ status' \in {"Ok", "EnoughData", "NeedMoreData", "LimitReached", "NotReady",
                          "Encoded", "Packet"}
      BY <1>0, <1>2 DEF TypeOK
    <2> QED BY <2>1, <2>2, <2>3, <2>4, <2>5, <2>6, <2>7 DEF TypeOK
  <1>5. ResidentInv'
    <2>1. PICK lo \in 0 .. output_frameno :
            /\ output_frameno > 0 => lo < output_frameno
            /\ DOMAIN frame_data = lo .. NextOut - 1
            /\ NextOut > 0 => IsFrame(frame_data[lo])
      BY <1>0 DEF ResidentInv
    <2>2. DOMAIN frame_data' = lo .. NextOut
      <3>1. (lo .. NextOut - 1) \cup {NextOut} = lo .. NextOut
        BY <1>1
      <3> QED BY <1>3, <2>1, <3>1
    <2>3. \A n \in DOMAIN frame_data' :
            n \in DOMAIN gop_output_frameno_start' /\ n \in DOMAIN gop_input_frameno_start'
      <3> TAKE n \in DOMAIN frame_data'
      <3>1. /\ n = NextOut \/ n \in DOMAIN gop_output_frameno_start
            /\ n = NextOut \/ n \in DOMAIN gop_input_frameno_start
        BY <1>0, <1>3 DEF ResidentInv
      <3>2. n \in DOMAIN gop_output_frameno_start'
        BY <1>2, <3>1 DEF Insert
      <3>3. n \in DOMAIN gop_input_frameno_start'
        BY <1>2, <3>1 DEF Insert
      <3> QED BY <3>2, <3>3
    <2>4. IsFrame(frame_data'[lo])
      <3>1. CASE NextOut > 0
        <4>1. lo \in DOMAIN frame_data
          BY <1>1, <2>1, <3>1
        <4> QED BY <1>3, <2>1, <3>1, <4>1 DEF IsFrame
      <3>2. CASE ~(NextOut > 0)
        <4>1. lo = NextOut
          BY <1>1, <2>1, <3>2
        <4>2. IsFrame(fd)
          BY <3>2 DEF IsFrame, IsCoded
        <4> QED BY <1>3, <4>1, <4>2
      <3> QED BY <3>1, <3>2
    <2>5. \E m \in DOMAIN frame_data' : IsCoded(frame_data'[m])
      <3>1. CASE NextOut > 0
        <4>1. PICK m \in DOMAIN frame_data : IsCoded(frame_data[m])
          BY <1>0, <1>2, <3>1 DEF ResidentInv
        <4> QED BY <1>3, <4>1
      <3>2. CASE ~(NextOut > 0)
        BY <1>3, <3>2
      <3> QED BY <3>1, <3>2
    <2>6. output_frameno' <= NextOut' /\ NextOut' - 1 = NextOut
      BY <1>1, <1>2
    <2> QED BY <1>2, <2>1, <2>2, <2>3, <2>4, <2>5, <2>6 DEF ResidentInv, IsFrame, IsCoded
  <1>6. Due(output_frameno)' = Due(output_frameno) /\ KeyOutput'
    <2>1. PICK o : o = output_frameno
      OBVIOUS
    <2>2. Due(output_frameno)' = Due(o)'
      BY <1>2, <2>1 DEF Due, DueAfter, K, P, G, NextKey, next_keyframe_input_frameno
    <2>3. CASE o = 0
      <3>1. Due(o)' = Due(o)
        BY <2>3 DEF Due
      <3> QED BY <1>2, <2>1, <2>2, <2>3, <3>1 DEF KeyOutput
    <2>4. CASE o # 0
      <3>1. o - 1 \in DOMAIN frame_data
        BY <1>0, <1>1, <2>1, <2>4, OutputResident
      <3>2. PICK m : m = o - 1
        OBVIOUS
      <3>3. DueAfter(m)' = DueAfter(m) /\ K(m)' = K(m)
        BY <1>3, <3>1, <3>2
      <3>4. Due(o)' = Due(o)
        BY <2>4, <3>2, <3>3 DEF Due
      <3>5. K(output_frameno - 1)' = K(m) /\ K(output_frameno - 1) = K(m)
        <4>1. (output_frameno - 1)' = m
          BY <1>2, <2>1, <3>2
        <4>2. K(output_frameno - 1)' = K(m)'
          BY <4>1 DEF K
        <4> QED BY <2>1, <3>2, <3>3, <4>2
      <3> QED BY <1>0, <1>2, <2>1, <2>2, <3>4, <3>5 DEF KeyOutput
    <2> QED BY <2>3, <2>4
  <1>7. HistoryInv' /\ CallsInv' /\ QueueInv' /\ KeyframeIntervalRespected'
    BY <1>0, <1>2 DEF HistoryInv, CallsInv, QueueInv, LastQueued, KeyframeIntervalRespected
  <1>8. PacketsInv'
    <2>1. \A i \in keyframes_forced : i < next_lookahead_frame' => i \in keyframes'
      BY <1>0, <1>2 DEF PacketsInv
    <2> QED BY <1>0, <1>2, <1>6, <2>1, PacketsKept
  <1>9. FlushedInv' /\ NeverStarvedAfterFlush'
    BY <1>0, <1>2 DEF FlushedInv, NeverStarvedAfterFlush
  <1> QED BY <1>3, <1>4, <1>5, <1>6, <1>7, <1>8, <1>9 DEF PipelineInv

\* The slots a frame reads and writes are among the eight of a decoder.
LEMMA SlotFacts ==
  ASSUME NEW p \in Nat \ {0}
  PROVE  LET idx   == get_idx_in_group_output(p)
             hint  == get_order_hint(p, idx)
             level == get_level(idx)
         IN /\ hint \in Nat
            /\ get_slot_idx(level, hint) \in REF_FRAMES
            /\ ref_frames(idx, level, hint) \in [INTER_REFS -> REF_FRAMES]
PROOF
  <1> DEFINE idx == get_idx_in_group_output(p)
             hint == get_order_hint(p, idx)
             level == get_level(idx)
             slot == get_slot_idx(level, hint)
  <1>1. hint \in Nat
    <2>1. get_input_frameno(p, 0) \in Nat /\ get_input_frameno(p, 0) = 0 + hint
      BY PositionFacts DEF get_input_frameno
    <2>2. hint \in Int
      <3>1. idx \in 0 .. group_output_len - 1
        BY PositionFacts
      <3>2. (p - 1) \div group_output_len \in Int
        BY GroupFacts
      <3> HIDE DEF idx
      <3> QED BY <3>1, <3>2, GroupFacts DEF get_order_hint
    <2> QED BY <2>1, <2>2
  <1>2. level \in 0 .. 2 /\ (~reorder => level = 0)
    <2>1. idx \in 0 .. group_output_len - 1
      BY PositionFacts
    <2> HIDE DEF idx
    <2> QED BY <2>1, GroupFacts DEF get_level, pos_to_lvl
  <1> HIDE DEF idx, hint, level
  <1>3. slot \in 0 .. 5 /\ (level = 0 => slot \in 0 .. 3)
    <2>1. (hint \div group_input_len) % 4 \in 0 .. 3
      <3>1. hint \div group_input_len \in Int
        BY <1>1, GroupFacts
      <3> QED BY <3>1
    <2> QED BY <1>2, <2>1 DEF get_slot_idx
  <1>4. ASSUME NEW h \in Int, reorder PROVE SlotAt(h) \in 0 .. 5
    <2>1. pos_to_lvl(h) \in 0 .. 2
      BY DEF pos_to_lvl
    <2>2. (h \div group_input_len) % 4 \in 0 .. 3
      <3>1. h \div group_input_len \in Int
        BY <1>4, GroupFacts
      <3> QED BY <3>1
    <2> QED BY <2>1, <2>2 DEF SlotAt
  <1>5. (slot + 2) % 4 \in 0 .. 3 /\ (slot + 3) % 4 \in 0 .. 3
    BY <1>3
  <1>6. ref_frames(idx, level, hint) \in [INTER_REFS -> 0 .. 7]
    <2>1. CASE level = 0
      <3> HIDE DEF slot
      <3> QED BY <1>5, <2>1 DEF ref_frames, slot
    <2>2. CASE level # 0
      <3>1. LevelStep(level) \in Int /\ reorder
        BY <1>2, <2>2, GroupFacts DEF LevelStep
      <3>2. SlotAt(hint + LevelStep(level)) \in 0 .. 5 /\ SlotAt(hint - LevelStep(level)) \in 0 .. 5
        BY <1>1, <1>4, <3>1
      <3> DEFINE a == SlotAt(hint + LevelStep(level))
                 b == SlotAt(hint - LevelStep(level))
      <3>3. slot \in 0 .. 7 /\ a \in 0 .. 7 /\ b \in 0 .. 7
        <4> HIDE DEF slot, a, b
        <4> QED BY <1>3, <3>2 DEF a, b
      <3> DEFINE second == IF idx = 0 THEN LAST2 ELSE ALTREF
      <3>4. ref_frames(idx, level, hint) =
              [i \in INTER_REFS |-> IF i = LAST3 THEN slot ELSE IF i = second THEN a ELSE b]
        BY <2>2 DEF ref_frames
      <3> HIDE DEF slot, a, b, second
      <3> QED BY <3>3, <3>4
    <2> QED BY <2>1, <2>2
  <1> QED BY <1>1, <1>3, <1>6 DEF REF_FRAMES, idx, hint, level

\* A reference buffer stays one.
LEMMA RefreshType ==
  ASSUME NEW buffer \in [REF_FRAMES -> RefType], NEW slots, NEW r \in RefType
  PROVE  Refresh(buffer, slots, r) \in [REF_FRAMES -> RefType]
PROOF
  BY DEF Refresh

\* References are well formed.
LEMMA RefTypes ==
  /\ EmptyRefs \in [REF_FRAMES -> RefType]
  /\ \A src \in {"orig", "rec"}, n, hint, picture \in Nat : Ref(src, n, hint, picture) \in RefType
PROOF
  <1>1. NoRef \in RefType
    BY DEF NoRef, RefType
  <1>2. EmptyRefs \in [REF_FRAMES -> RefType]
    BY <1>1 DEF EmptyRefs
  <1>3. \A src \in {"orig", "rec"}, n, hint, picture \in Nat : Ref(src, n, hint, picture) \in RefType
    BY DEF Ref, RefType
  <1> QED BY <1>2, <1>3

\* new_key_frame
LEMMA KeyFrameFacts ==
  ASSUME NEW n \in Nat, NEW input \in Nat, NEW t \in SUBSET Nat
  PROVE  /\ KeyFrameData(n, input, t) \in FrameDataType
         /\ IsCoded(KeyFrameData(n, input, t))
         /\ KeyFrameData(n, input, t).frame_type = "KEY"
         /\ KeyFrameData(n, input, t).show_frame
         /\ KeyFrameData(n, input, t).input_frameno = input
PROOF
  <1> DEFINE l == Refresh(EmptyRefs, REF_FRAMES, Ref("orig", n, 0, input))
             e == EmptyRefs
             r == [i \in INTER_REFS |-> 0]
  <1>1. l \in [REF_FRAMES -> RefType] /\ e \in [REF_FRAMES -> RefType]
    BY RefTypes, RefreshType
  <1>2. r \in [INTER_REFS -> REF_FRAMES] /\ 0 \in REF_FRAMES
    BY DEF REF_FRAMES
  <1>3. KeyFrameData(n, input, t) =
          [kind |-> "coded", frame_type |-> "KEY", input_frameno |-> input,
           show_frame |-> TRUE, order_hint |-> 0, slot |-> 0,
           refresh |-> REF_FRAMES, ref_frames |-> r,
           sign_bias |-> {}, rec_buffer |-> e,
           lookahead_rec_buffer |-> l, t35 |-> t]
    BY DEF KeyFrameData
  <1> HIDE DEF l, e, r
  <1> QED BY <1>1, <1>2, <1>3 DEF FrameDataType, IsCoded

\* new_inter_frame
LEMMA InterFrameFacts ==
  ASSUME NEW n \in Nat, NEW prev \in FrameDataType, NEW p \in Nat \ {0}, NEW input \in Nat,
         NEW t \in SUBSET Nat
  PROVE  LET fd  == InterFrameData(n, prev, p, input, t)
             idx == get_idx_in_group_output(p)
         IN /\ fd \in FrameDataType
            /\ IsFrame(fd) /\ fd.frame_type # "KEY" /\ fd.input_frameno = input
            /\ fd.show_frame = get_show_frame(idx)
            /\ IsCoded(fd) = ~get_show_existing_frame(idx)
PROOF
  <1> DEFINE idx == get_idx_in_group_output(p)
             hint == get_order_hint(p, idx)
             level == get_level(idx)
             sef == get_show_existing_frame(idx)
             show == get_show_frame(idx)
             type == IF /\ SwitchFrameInterval > 0
                        /\ p % SwitchFrameInterval = 0
                        /\ level = 0
                     THEN "SWITCH" ELSE "INTER"
             slot == get_slot_idx(level, hint)
             refresh == IF type = "SWITCH" THEN REF_FRAMES ELSE IF sef THEN {} ELSE {slot}
             refs == ref_frames(idx, level, hint)
             bias == sign_bias(refs, prev.rec_buffer, hint)
             rec == IF sef \/ n = output_frameno
                    THEN prev.rec_buffer ELSE prev.lookahead_rec_buffer
             look == IF sef THEN EmptyRefs
                     ELSE Refresh(prev.lookahead_rec_buffer, refresh, Ref("orig", n, hint, input))
             kind == IF sef THEN "sef" ELSE "coded"
             fd == InterFrameData(n, prev, p, input, t)
  <1>1. hint \in Nat /\ slot \in REF_FRAMES /\ refs \in [INTER_REFS -> REF_FRAMES]
    BY SlotFacts
  <1>2. type \in {"INTER", "SWITCH"} /\ type # "KEY" /\ kind \in {"coded", "sef"}
    OBVIOUS
  <1>3. bias \subseteq INTER_REFS
    BY DEF sign_bias
  <1>4. /\ prev.rec_buffer \in [REF_FRAMES -> RefType]
        /\ prev.lookahead_rec_buffer \in [REF_FRAMES -> RefType]
    BY DEF FrameDataType
  <1>5. show \in BOOLEAN /\ sef \in BOOLEAN
    BY DEF get_show_frame, get_show_existing_frame
  <1>6. fd = [kind |-> kind, frame_type |-> type, input_frameno |-> input, show_frame |-> show,
              order_hint |-> hint, slot |-> slot, refresh |-> refresh, ref_frames |-> refs,
              sign_bias |-> bias, rec_buffer |-> rec, lookahead_rec_buffer |-> look,
              t35 |-> IF show THEN t ELSE {}]
    BY DEF InterFrameData
  <1>7. kind = "coded" <=> ~sef
    OBVIOUS
  <1> HIDE DEF idx, hint, level, sef, show, type, slot, refs, bias, kind, fd
  <1>8. refresh \subseteq REF_FRAMES
    BY <1>1
  <1>9. rec \in [REF_FRAMES -> RefType]
    BY <1>4
  <1>10. look \in [REF_FRAMES -> RefType]
    <2>1. Ref("orig", n, hint, input) \in RefType
      BY <1>1, RefTypes
    <2>2. Refresh(prev.lookahead_rec_buffer, refresh, Ref("orig", n, hint, input))
            \in [REF_FRAMES -> RefType]
      BY <1>4, <2>1, RefreshType
    <2> QED BY <2>2, RefTypes
  <1> HIDE DEF rec, look, refresh
  <1>11. fd \in FrameDataType
    <2>1. (IF show THEN t ELSE {}) \in SUBSET Nat
      OBVIOUS
    <2> QED BY <1>1, <1>2, <1>3, <1>5, <1>6, <1>8, <1>9, <1>10, <2>1 DEF FrameDataType
  <1>12. fd.kind = kind /\ fd.frame_type = type /\ fd.input_frameno = input /\ fd.show_frame = show
    BY <1>6
  <1>13. IsFrame(fd)
    BY <1>2, <1>12 DEF IsFrame
  <1>14. IsCoded(fd) = ~sef
    BY <1>5, <1>7, <1>12 DEF IsCoded
  <1> QED BY <1>2, <1>11, <1>12, <1>13, <1>14 DEF fd, show, sef, idx

\* The wanted input frame of the next position, and the source frames.
LEMMA BuildFacts ==
  ASSUME PipelineInv, BuildsFrame
  PROVE  /\ BuildInv /\ NextOut \in Nat /\ frame_count \in Nat /\ next_lookahead_frame \in Nat \ {0}
         /\ WantedInput \in Nat /\ T35Taken \in SUBSET Nat
         /\ \A n : HasFrame(n) => n \in Nat /\ n < frame_count
         /\ WantedInput < frame_count => WantedInput < next_lookahead_frame
         /\ WantedInput < next_lookahead_frame \/ frame_count <= next_lookahead_frame
         /\ NextOut = 0 => StartsGop /\ WantedInput = 0 /\ KeyInput = 0
PROOF
  <1>0. BuildInv /\ TypeOK /\ HistoryInv /\ CallsInv /\ QueueInv
    BY DEF PipelineInv, BuildInv
  <1>1. NextOut \in Nat /\ frame_count \in Nat /\ next_lookahead_frame \in Nat \ {0}
    BY <1>0 DEF TypeOK, NextOut
  <1>2. NextOut = 0 => StartsGop /\ WantedInput = 0 /\ KeyInput = 0
    <2> SUFFICES ASSUME NextOut = 0 PROVE StartsGop /\ WantedInput = 0 /\ KeyInput = 0
      OBVIOUS
    <2>1. InGop = 0 /\ WantedInput = 0
      BY DEF InGop, GopOut, GopIn, WantedInput, get_input_frameno
    <2> QED BY <2>1 DEF StartsGop, KeyInput, PastKeyframe
  <1>3. WantedInput \in Nat
    <2>1. NextOut > 0 => WantedInput \in Nat
      BY <1>0, GopFacts
    <2> QED BY <1>1, <1>2, <2>1
  <1>4. T35Taken \in SUBSET Nat
    BY <1>0 DEF T35Taken, TypeOK
  <1>5. \A n : HasFrame(n) => n \in Nat /\ n < frame_count
    BY <1>0, QueueFacts
  <1>6. /\ WantedInput < frame_count => WantedInput < next_lookahead_frame
        /\ WantedInput < next_lookahead_frame \/ frame_count <= next_lookahead_frame
    BY <1>0, <1>3, LookaheadFacts DEF BuildsFrame
  <1> QED BY <1>0, <1>1, <1>2, <1>3, <1>4, <1>5, <1>6

\* A keyframe is what is due, and has been decided.
LEMMA BuildKeyFrameInv == PipelineInv /\ BuildKeyFrame => PipelineInv'
PROOF
  <1> SUFFICES ASSUME PipelineInv, BuildKeyFrame PROVE PipelineInv'
    OBVIOUS
  <1>0. TypeOK /\ CallsInv
    BY DEF PipelineInv
  <1>1. /\ BuildsFrame /\ StartsGop /\ InsertGop(NextOut, KeyInput)
        /\ InsertFrameData(KeyFrameData(NextOut, KeyInput, T35Taken))
    BY DEF BuildKeyFrame
  <1>2. /\ BuildInv /\ NextOut \in Nat /\ frame_count \in Nat /\ next_lookahead_frame \in Nat \ {0}
        /\ WantedInput \in Nat /\ T35Taken \in SUBSET Nat
        /\ \A n : HasFrame(n) => n \in Nat /\ n < frame_count
        /\ WantedInput < next_lookahead_frame \/ frame_count <= next_lookahead_frame
        /\ NextOut = 0 => KeyInput = 0
    BY <1>1, BuildFacts
  <1> DEFINE k == KeyInput
             N == NextOut
             fd == KeyFrameData(N, k, T35Taken)
  <1>3. k \in Nat /\ k < frame_count
    BY <1>1, <1>2 DEF BuildsFrame, SourceMissing
  <1>4. k = Due(N) /\ k < next_lookahead_frame
    <2>1. CASE N = 0
      BY <1>2, <2>1 DEF Due
    <2>2. CASE N > 0
      <3>1. k = NextKeyframe /\ Due(N) = NextKeyframe /\ PastKeyframe
            /\ (PastKeyframe <=> WantedInput >= NextKeyframe)
        BY <1>1, <1>2, <2>2, StartsGopFacts
      <3>2. WantedInput >= k
        BY <3>1
      <3> HIDE DEF k
      <3>3. k < next_lookahead_frame
        BY <1>2, <1>3, <3>2
      <3> QED BY <3>1, <3>3
    <2> QED BY <1>2, <2>1, <2>2
  <1>5. /\ fd \in FrameDataType /\ IsCoded(fd) /\ fd.frame_type = "KEY" /\ fd.show_frame
        /\ fd.input_frameno = k
    BY <1>2, <1>3, KeyFrameFacts
  <1>6. N - N = 0 /\ N \in 0 .. N
    BY <1>2
  <1> HIDE DEF k, fd
  <1>7. Built(fd, N - N, k)
    BY <1>5, <1>6 DEF Built
  <1>8. NextKey(k) \in Nat /\ ShownUpTo(N - N) = 1
    BY <1>0, <1>3, <1>6, NextKeyBounds DEF ShownUpTo
  <1>9. /\ Least(k + ShownUpTo(N - N), NextKey(k)) <= frame_count
        /\ Least(k + ShownUpTo(N - N), NextKey(k)) <= next_lookahead_frame
    BY <1>2, <1>3, <1>4, <1>8 DEF Least
  <1>10. InsertGop(N, k) /\ InsertFrameData(fd)
    BY <1>1 DEF k, fd
  <1> HIDE DEF N
  <1>11. N = NextOut
    BY DEF N
  <1> QED BY <1>1, <1>3, <1>4, <1>5, <1>6, <1>7, <1>9, <1>10, <1>11, BuildInvStep

\* A position that is skipped: what is due stays.
LEMMA BuildPlaceholderInv == PipelineInv /\ BuildPlaceholder => PipelineInv'
PROOF
  <1> SUFFICES ASSUME PipelineInv, BuildPlaceholder PROVE PipelineInv'
    OBVIOUS
  <1>1. /\ BuildsFrame /\ ~StartsGop /\ PastKeyframe /\ InsertGop(GopOut, GopIn)
        /\ InsertFrameData(Placeholder)
    BY DEF BuildPlaceholder
  <1>2. /\ BuildInv /\ NextOut \in Nat /\ frame_count \in Nat /\ next_lookahead_frame \in Nat \ {0}
        /\ NextOut > 0
    BY <1>1, BuildFacts
  <1>3. /\ GopOut \in 0 .. NextOut - 1 /\ GopIn \in Nat /\ GopIn < frame_count
        /\ GopIn < next_lookahead_frame
        /\ InGop \in Nat \ {0}
        /\ WantedInput \in Nat
        /\ NextKeyframe = NextKey(GopIn) /\ NextKeyframe \in Nat
        /\ Due(NextOut) = Least(GopIn + ShownUpTo(InGop - 1), NextKeyframe)
        /\ Due(NextOut) <= frame_count /\ Due(NextOut) <= next_lookahead_frame
    BY <1>2, GopFacts
  <1>4. WantedInput >= NextKeyframe
    BY <1>1, <1>2, StartsGopFacts
  <1>5. NextOut - GopOut = InGop
    BY DEF InGop
  <1> DEFINE s == ShownUpTo(InGop - 1)
             t == ShownUpTo(InGop)
             idx == get_idx_in_group_output(InGop)
  <1>6. /\ s \in Nat /\ t \in Nat
        /\ get_show_frame(idx) => WantedInput = GopIn + s /\ t = s + 1
        /\ ~get_show_frame(idx) => t = s
    BY <1>3, PositionFacts DEF WantedInput
  <1> HIDE DEF s, t, idx
  <1>7. Least(GopIn + t, NextKeyframe) = Due(NextOut)
    BY <1>3, <1>4, <1>6 DEF Least, s
  <1>8. Least(GopIn + ShownUpTo(NextOut - GopOut), NextKey(GopIn)) = Due(NextOut)
    BY <1>3, <1>5, <1>7 DEF t
  <1>9. ~IsFrame(Placeholder)
    BY DEF IsFrame, Placeholder
  <1>10. Built(Placeholder, NextOut - GopOut, GopIn)
    BY <1>3, <1>4, <1>5, <1>9 DEF Built, WantedInput
  <1>11. GopOut \in 0 .. NextOut
    BY <1>2, <1>3
  <1> QED BY <1>1, <1>2, <1>3, <1>8, <1>10, <1>11, BuildInvStep

\* An inter frame is before the next keyframe, decided and sent.
LEMMA BuildInterFrameInv == PipelineInv /\ BuildInterFrame => PipelineInv'
PROOF
  <1> SUFFICES ASSUME PipelineInv, BuildInterFrame PROVE PipelineInv'
    OBVIOUS
  <1> DEFINE prev == frame_data[PreviousCodedFi(NextOut)]
             fd == InterFrameData(NextOut, prev, InGop, WantedInput, T35Taken)
  <1>1. /\ BuildsFrame /\ ~StartsGop /\ ~PastKeyframe /\ InsertGop(GopOut, GopIn)
        /\ InsertFrameData(fd)
    BY DEF BuildInterFrame
  <1>2. /\ BuildInv /\ NextOut \in Nat /\ frame_count \in Nat /\ next_lookahead_frame \in Nat \ {0}
        /\ NextOut > 0 /\ T35Taken \in SUBSET Nat
        /\ \A n : HasFrame(n) => n \in Nat /\ n < frame_count
        /\ WantedInput < frame_count => WantedInput < next_lookahead_frame
    BY <1>1, BuildFacts
  <1>3. /\ GopOut \in 0 .. NextOut - 1 /\ GopIn \in Nat /\ GopIn < frame_count
        /\ GopIn < next_lookahead_frame
        /\ InGop \in Nat \ {0}
        /\ WantedInput \in Nat
        /\ NextKeyframe = NextKey(GopIn) /\ NextKeyframe \in Nat
        /\ Due(NextOut) = Least(GopIn + ShownUpTo(InGop - 1), NextKeyframe)
        /\ Due(NextOut) <= frame_count /\ Due(NextOut) <= next_lookahead_frame
    BY <1>2, GopFacts
  <1>4. WantedInput < NextKeyframe
    BY <1>1, <1>2, <1>3, StartsGopFacts
  <1>5. NextOut - GopOut = InGop
    BY DEF InGop
  <1>6. WantedInput < frame_count /\ WantedInput < next_lookahead_frame
    BY <1>1, <1>2 DEF BuildsFrame, SourceMissing
  <1>7. prev \in FrameDataType
    <2> DEFINE S == {m \in DOMAIN frame_data : m < NextOut /\ IsCoded(frame_data[m])}
               f == PreviousCodedFi(NextOut)
    <2>1. PICK m \in DOMAIN frame_data : IsCoded(frame_data[m])
      BY <1>1, <1>2 DEF BuildInv, ResidentInv, BuildsFrame
    <2>2. \A n \in DOMAIN frame_data : n \in 0 .. NextOut - 1
      BY <1>2, OutputResident DEF BuildInv
    <2>3. S # {} /\ S \subseteq 0 .. NextOut
      BY <1>2, <2>1, <2>2
    <2>4. f \in S
      <3>1. f = Max(S)
        BY DEF PreviousCodedFi
      <3> HIDE DEF f, S
      <3> QED BY <1>2, <2>3, <3>1, MaxFacts
    <2>5. f \in DOMAIN frame_data /\ IsCoded(frame_data[f])
      BY <2>4
    <2> HIDE DEF f
    <2>6. frame_data[f] # Placeholder
      BY <2>5 DEF IsCoded, Placeholder
    <2> QED BY <1>2, <2>5, <2>6 DEF BuildInv, TypeOK, f
  <1> DEFINE s == ShownUpTo(InGop - 1)
             t == ShownUpTo(InGop)
             idx == get_idx_in_group_output(InGop)
  <1>8. /\ fd \in FrameDataType
        /\ IsFrame(fd) /\ fd.frame_type # "KEY" /\ fd.input_frameno = WantedInput
        /\ fd.show_frame = get_show_frame(idx)
        /\ IsCoded(fd) = ~get_show_existing_frame(idx)
    <2> HIDE DEF prev
    <2> QED BY <1>2, <1>3, <1>7, InterFrameFacts
  <1>9. /\ s \in Nat /\ t \in Nat
        /\ get_show_frame(idx) => WantedInput = GopIn + s /\ t = s + 1
        /\ ~get_show_frame(idx) => t = s
    BY <1>3, PositionFacts DEF WantedInput
  <1> HIDE DEF fd, prev
  <1>10. Built(fd, NextOut - GopOut, GopIn)
    BY <1>3, <1>4, <1>5, <1>6, <1>8 DEF Built, WantedInput
  <1> HIDE DEF s, t, idx
  <1>11. /\ Least(GopIn + t, NextKeyframe) <= frame_count
         /\ Least(GopIn + t, NextKeyframe) <= next_lookahead_frame
    <2>1. CASE get_show_frame(idx)
      <3>1. GopIn + t = WantedInput + 1
        BY <1>3, <1>9, <2>1
      <3> QED BY <1>2, <1>3, <1>4, <1>6, <3>1 DEF Least
    <2>2. CASE ~get_show_frame(idx)
      BY <1>3, <1>9, <2>2 DEF s
    <2> QED BY <2>1, <2>2
  <1>12. /\ Least(GopIn + ShownUpTo(NextOut - GopOut), NextKey(GopIn)) <= frame_count
         /\ Least(GopIn + ShownUpTo(NextOut - GopOut), NextKey(GopIn)) <= next_lookahead_frame
    BY <1>3, <1>5, <1>11 DEF t
  <1>13. GopOut \in 0 .. NextOut
    BY <1>2, <1>3
  <1> QED BY <1>1, <1>2, <1>3, <1>8, <1>10, <1>12, <1>13, BuildInvStep

-----------------------------------------------------------------------------
(* The steps of receive_packet *)

\* The frame that is next to be output: the positions before it are skipped,
\* and nothing but what it shows is due.
LEMMA CurrentFacts ==
  ASSUME PipelineInv, NextFrames # {}
  PROVE  /\ Current \in output_frameno .. NextOut - 1 /\ Current \in Nat
         /\ Current \in DOMAIN frame_data
         /\ Current = 0 \/ Current - 1 \in DOMAIN frame_data
         /\ IsFrame(frame_data[Current]) /\ frame_data[Current] \in FrameDataType
         /\ \A m \in output_frameno .. Current - 1 : ~IsFrame(frame_data[m])
         /\ Due(Current) = Due(output_frameno) /\ Due(Current) = Len(packets)
PROOF
  <1>0. TypeOK /\ CallsInv /\ ResidentInv /\ PositionsInv /\ PacketsInv
    BY DEF PipelineInv
  <1>1. NextOut \in Nat /\ output_frameno \in Nat /\ output_frameno <= NextOut
    BY <1>0 DEF TypeOK, ResidentInv, NextOut
  <1> DEFINE c == Current
             S == NextFrames
  <1>2. \A n \in DOMAIN frame_data : n \in 0 .. NextOut - 1
    BY <1>0, OutputResident
  <1>3. S \subseteq Nat
    BY <1>1, <1>2 DEF NextFrames
  <1>4. c \in S /\ \A x \in S : c <= x
    <2>1. c = Min(S)
      BY DEF Current
    <2> HIDE DEF c, S
    <2> QED BY <1>3, <2>1, MinFacts DEF S
  <1>5. /\ c \in DOMAIN frame_data /\ c >= output_frameno /\ IsFrame(frame_data[c])
        /\ c \in 0 .. NextOut - 1
    BY <1>2, <1>4 DEF NextFrames
  <1> HIDE DEF c
  <1>6. c \in output_frameno .. NextOut - 1 /\ c \in Nat
    BY <1>1, <1>5
  <1>7. ASSUME NEW m \in output_frameno .. c - 1 PROVE ~IsFrame(frame_data[m])
    <2>1. m \in output_frameno .. NextOut - 1 /\ ~(c <= m) /\ m >= output_frameno
      BY <1>1, <1>6
    <2>2. m \in DOMAIN frame_data
      BY <1>0, <2>1, OutputResident
    <2> QED BY <1>4, <2>1, <2>2 DEF NextFrames
  <1>8. c = 0 \/ c - 1 \in DOMAIN frame_data
    <2>1. CASE c = output_frameno
      BY <1>0, <1>1, <2>1, OutputResident
    <2>2. CASE c # output_frameno
      <3>1. c - 1 \in output_frameno .. NextOut - 1
        BY <1>1, <1>6, <2>2
      <3> QED BY <1>0, <3>1, OutputResident
    <2> QED BY <2>1, <2>2
  <1>9. Due(c) = Due(output_frameno)
    <2>1. c \in output_frameno .. NextOut
      BY <1>1, <1>6
    <2> QED BY <1>0, <1>7, <2>1, DueBetween
  <1>10. Due(output_frameno) = Len(packets)
    BY <1>0 DEF PacketsInv
  <1>11. frame_data[c] \in FrameDataType
    <2>1. frame_data[c] # Placeholder
      BY <1>5 DEF IsFrame, Placeholder
    <2> QED BY <1>0, <1>5, <2>1 DEF TypeOK
  <1> QED BY <1>5, <1>6, <1>7, <1>8, <1>9, <1>10, <1>11 DEF c

\* Skipped positions belong to the GOP of the last frame output.
LEMMA SkippedGop ==
  ASSUME PipelineInv, NEW n \in output_frameno .. NextOut - 1, P(n) # 0,
         \A m \in output_frameno .. n - 1 : ~IsFrame(frame_data[m])
  PROVE  output_frameno > 0 /\ K(n) = K(output_frameno - 1)
PROOF
  <1>0. TypeOK /\ CallsInv /\ ResidentInv /\ PositionsInv
    BY DEF PipelineInv
  <1>1. NextOut \in Nat /\ output_frameno \in Nat /\ output_frameno <= NextOut
    BY <1>0 DEF TypeOK, ResidentInv, NextOut
  <1>2. n \in DOMAIN frame_data /\ n \in Nat
    BY <1>0, <1>1, OutputResident
  <1>3. GopInv(n) /\ G(n) \in 0 .. n /\ G(n) # n
    <2>1. GopInv(n) /\ G(n) \in 0 .. n
      BY <1>0, <1>2 DEF PositionsInv, GopInv
    <2> QED BY <1>2, <2>1 DEF P
  <1> DEFINE g == G(n)
  <1>4. g < output_frameno
    <2> SUFFICES ASSUME ~(g < output_frameno) PROVE FALSE
      OBVIOUS
    <2>1. g \in output_frameno .. n - 1 /\ g \in output_frameno .. NextOut - 1
      BY <1>1, <1>2, <1>3
    <2>2. g \in DOMAIN frame_data
      BY <1>0, <2>1, OutputResident
    <2>3. G(g) = g
      BY <1>2, <1>3, <2>1, <2>2 DEF GopInv
    <2> HIDE DEF g
    <2>4. P(g) = 0
      BY <1>1, <2>1, <2>3 DEF P
    <2>5. IsCoded(frame_data[g])
      BY <1>0, <2>2, <2>4 DEF PositionsInv, BuiltInv, Built
    <2>6. ~IsFrame(frame_data[g])
      BY <2>1
    <2> QED BY <2>5, <2>6 DEF IsFrame, IsCoded
  <1>5. output_frameno > 0
    BY <1>1, <1>3, <1>4
  <1>6. output_frameno - 1 \in DOMAIN frame_data /\ g <= output_frameno - 1
        /\ output_frameno - 1 <= n
    BY <1>0, <1>1, <1>2, <1>3, <1>4, <1>5, OutputResident
  <1> QED BY <1>3, <1>5, <1>6 DEF GopInv

\* A call that returns no packet skips at most positions without a frame.
LEMMA SkipInv ==
  ASSUME PipelineInv,
         output_frameno' = output_frameno \/ (NextFrames # {} /\ output_frameno' = Current),
         status' \in {"NeedMoreData", "LimitReached", "NotReady"},
         NeverStarvedAfterFlush',
         UNCHANGED <<inputVars, frame_q, t35_q, lookVars, gopVars, frame_data,
                     next_lookahead_output_frameno, frames_processed, packet_data,
                     packets, pc>>
  PROVE  PipelineInv'
PROOF
  <1>0. /\ TypeOK /\ HistoryInv /\ CallsInv /\ QueueInv /\ ResidentInv /\ PositionsInv
        /\ PacketsInv /\ KeyOutput /\ KeyframeIntervalRespected /\ FlushedInv
    BY DEF PipelineInv
  <1>1. NextOut \in Nat /\ output_frameno \in Nat /\ output_frameno <= NextOut
    BY <1>0 DEF TypeOK, ResidentInv, NextOut
  <1>2. UNCHANGED <<frame_count, limit, is_flushing, keyframes_forced, opaque_q, sent, frame_q,
                    t35_q, keyframes, next_lookahead_frame, gop_output_frameno_start,
                    gop_input_frameno_start, frame_data, next_lookahead_output_frameno,
                    frames_processed, packet_data, packets, pc>>
    BY DEF inputVars, lookVars, gopVars
  <1>3. PICK o, p : o = output_frameno /\ p = output_frameno'
    OBVIOUS
  <1>4. /\ p \in Nat /\ p >= o /\ p <= NextOut
        /\ \A m \in o .. p - 1 : ~IsFrame(frame_data[m])
        /\ Due(p) = Due(o)
    <2>1. CASE p = o
      <3>1. o \in Nat /\ o <= NextOut
        BY <1>1, <1>3
      <3>2. o .. p - 1 = {}
        BY <2>1, <3>1
      <3>3. Due(p) = Due(o)
        BY <2>1
      <3>4. \A m \in o .. p - 1 : ~IsFrame(frame_data[m])
        BY <3>2
      <3>5. p \in Nat /\ p >= o /\ p <= NextOut
        BY <2>1, <3>1
      <3> QED BY <3>3, <3>4, <3>5
    <2>2. CASE p # o
      <3>1. p = Current /\ NextFrames # {}
        BY <1>3, <2>2
      <3>2. /\ p \in o .. NextOut - 1
            /\ \A m \in o .. p - 1 : ~IsFrame(frame_data[m])
            /\ Due(p) = Due(o)
        BY <1>3, <3>1, CurrentFacts
      <3>3. o \in Nat /\ NextOut \in Nat
        BY <1>1, <1>3
      <3>4. p \in Nat /\ p >= o /\ p <= NextOut
        BY <3>2, <3>3
      <3> QED BY <3>2, <3>4
    <2> QED BY <2>1, <2>2
  <1>5. TypeOK'
    BY <1>0, <1>2, <1>3, <1>4 DEF TypeOK
  <1>6. HistoryInv' /\ CallsInv' /\ QueueInv' /\ KeyframeIntervalRespected'
    BY <1>0, <1>2 DEF HistoryInv, CallsInv, QueueInv, LastQueued, KeyframeIntervalRespected
  <1>7. ResidentInv'
    <2>1. PICK lo \in 0 .. output_frameno :
            /\ output_frameno > 0 => lo < output_frameno
            /\ DOMAIN frame_data = lo .. NextOut - 1
            /\ \A n \in DOMAIN frame_data :
                 n \in DOMAIN gop_output_frameno_start /\ n \in DOMAIN gop_input_frameno_start
            /\ NextOut > 0 => IsFrame(frame_data[lo])
      BY <1>0 DEF ResidentInv
    <2>2. lo \in 0 .. output_frameno' /\ (output_frameno' > 0 => lo < output_frameno')
      BY <1>1, <1>3, <1>4, <2>1
    <2>3. NextOut' = NextOut /\ output_frameno' <= NextOut'
      BY <1>2, <1>3, <1>4 DEF NextOut
    <2> QED BY <1>0, <1>2, <2>1, <2>2, <2>3 DEF ResidentInv, IsFrame, IsCoded
  <1>8. PositionsInv'
    <2>1. KeysStep
      BY <1>0, <1>2, KeysStepFacts
    <2>2. \A n \in DOMAIN frame_data' :
            G(n)' = G(n) /\ K(n)' = K(n) /\ SameFrame(frame_data'[n], frame_data[n])
      BY <1>2 DEF G, K, SameFrame
    <2>3. /\ frame_count' \in Nat /\ next_lookahead_frame' \in Nat
          /\ frame_count <= frame_count' /\ next_lookahead_frame <= next_lookahead_frame'
      BY <1>0, <1>2 DEF TypeOK
    <2> QED BY <1>0, <1>2, <2>1, <2>2, <2>3, PositionsKept
  <1>9. Due(output_frameno)' = Due(output_frameno) /\ Due(NextOut)' = Due(NextOut)
    <2>1. \A n : Due(n)' = Due(n)
      BY <1>2 DEF Due, DueAfter, ShownUpTo, P, G, K, NextKey, next_keyframe_input_frameno
    <2>2. PICK N : N = NextOut
      OBVIOUS
    <2>3. Due(output_frameno)' = Due(p)'
      BY <1>3 DEF Due, DueAfter, ShownUpTo, P, G, K, NextKey, next_keyframe_input_frameno
    <2>4. Due(NextOut)' = Due(N)'
      <3>1. NextOut' = N
        BY <1>2, <2>2 DEF NextOut
      <3> QED BY <3>1 DEF Due, DueAfter, ShownUpTo, P, G, K, NextKey, next_keyframe_input_frameno
    <2> QED BY <1>3, <1>4, <2>1, <2>2, <2>3, <2>4
  <1>10. PacketsInv'
    <2>1. \A i \in keyframes_forced : i < next_lookahead_frame' => i \in keyframes'
      BY <1>0, <1>2 DEF PacketsInv
    <2> QED BY <1>0, <1>2, <1>9, <2>1, PacketsKept
  <1>11. KeyOutput'
    <2>1. ASSUME p > 0 PROVE o > 0 /\ K(p - 1) = K(o - 1)
      <3>1. CASE p = o
        BY <2>1, <3>1
      <3>2. CASE p # o
        <4>0. o \in Nat /\ p \in Nat /\ p > o /\ p <= NextOut /\ NextOut \in Nat
          <5>1. o \in Nat
            BY <1>1, <1>3
          <5> QED BY <1>1, <1>4, <3>2, <5>1
        <4>1. p - 1 \in o .. NextOut - 1 /\ p - 1 \in o .. p - 1
          BY <4>0
        <4>2. p - 1 \in DOMAIN frame_data /\ ~IsFrame(frame_data[p - 1])
          BY <1>0, <1>3, <1>4, <4>1, OutputResident
        <4>3. P(p - 1) # 0
          BY <1>0, <4>2 DEF PositionsInv, BuiltInv, Built, IsFrame, IsCoded
        <4>4. \A m \in o .. (p - 1) - 1 : ~IsFrame(frame_data[m])
          <5>1. \A m \in o .. (p - 1) - 1 : m \in o .. p - 1
            BY <4>0
          <5> QED BY <1>4, <5>1
        <4> QED BY <1>3, <4>1, <4>3, <4>4, SkippedGop
      <3> QED BY <3>1, <3>2
    <2>2. \A n : K(n)' = K(n)
      BY <1>2 DEF K
    <2>3. K(output_frameno - 1)' = K(p - 1)'
      BY <1>3 DEF K
    <2> SUFFICES ASSUME output_frameno' > 0
                 PROVE  /\ K(output_frameno - 1)' < Len(packets')
                        /\ packets'[K(output_frameno - 1)' + 1].frame_type = "KEY"
      BY DEF KeyOutput
    <2>4. K(output_frameno - 1)' = K(output_frameno - 1) /\ output_frameno > 0
      BY <1>3, <2>1, <2>2, <2>3
    <2> QED BY <1>0, <1>2, <2>4 DEF KeyOutput
  <1>12. FlushedInv'
    BY <1>0, <1>2, <1>9 DEF FlushedInv
  <1> QED BY <1>5, <1>6, <1>7, <1>8, <1>10, <1>11, <1>12 DEF PipelineInv

\* After a flush there is always something to return.
LEMMA FlushedNeverStarved ==
  ASSUME PipelineInv, is_flushing, pc = "idle", NEW ready \in BOOLEAN
  PROVE  Refusal(ready) # "NeedMoreData"
PROOF
  <1>0. TypeOK /\ HistoryInv /\ CallsInv /\ QueueInv /\ ResidentInv /\ PositionsInv /\ PacketsInv
    BY DEF PipelineInv
  <1>1. /\ limit = frame_count /\ next_lookahead_frame >= frame_count /\ frame_count \in Nat
        /\ next_lookahead_frame \in Nat /\ Due(NextOut) = frame_count
        /\ frames_processed = Len(packets) /\ Len(packets) = Due(output_frameno)
    BY DEF PipelineInv, CallsInv, TypeOK, FlushedInv, PacketsInv
  <1>2. ~needs_more_fi_lookahead
    BY <1>1 DEF needs_more_fi_lookahead, needs_more_frames, NoLimit
  <1>3. NextFrames = {} => done_processing
    <2> SUFFICES ASSUME NextFrames = {} PROVE done_processing
      OBVIOUS
    <2>1. output_frameno \in Nat /\ NextOut \in Nat /\ output_frameno <= NextOut
      BY <1>0 DEF TypeOK, ResidentInv, NextOut
    <2>2. \A m \in output_frameno .. NextOut - 1 : ~IsFrame(frame_data[m])
      <3> TAKE m \in output_frameno .. NextOut - 1
      <3>1. m \in DOMAIN frame_data /\ m >= output_frameno
        BY <1>0, <2>1, OutputResident
      <3> QED BY <3>1 DEF NextFrames
    <2>3. NextOut \in output_frameno .. NextOut
      BY <2>1
    <2>4. Due(NextOut) = Due(output_frameno)
      BY <1>0, <2>2, <2>3, DueBetween
    <2> QED BY <1>1, <2>4 DEF done_processing, NoLimit
  <1>4. NextFrames # {} => HasFrame(frame_data[Current].input_frameno)
    <2> SUFFICES ASSUME NextFrames # {} PROVE HasFrame(frame_data[Current].input_frameno)
      OBVIOUS
    <2>1. /\ Current \in DOMAIN frame_data /\ (Current = 0 \/ Current - 1 \in DOMAIN frame_data)
          /\ IsFrame(frame_data[Current]) /\ Due(Current) = Len(packets)
      BY CurrentFacts
    <2>2. /\ frame_data[Current].input_frameno \in Nat
          /\ frame_data[Current].input_frameno >= Len(packets)
          /\ frame_data[Current].input_frameno < frame_count
      BY <1>0, <2>1, PositionDue
    <2> QED BY <1>0, <2>2, QueueFacts
  <1> QED BY <1>2, <1>3, <1>4 DEF Refusal

\* A refused call.
LEMMA ReceiveRefusedInv ==
  ASSUME PipelineInv, NEW ready \in BOOLEAN, ReceiveRefused(ready)
  PROVE  PipelineInv'
PROOF
  <1>1. /\ pc = "idle" /\ Refusal(ready) # "no" /\ status' = Refusal(ready)
        /\ UNCHANGED <<inputVars, frame_q, t35_q, lookVars, gopVars, frame_data,
                       next_lookahead_output_frameno, frames_processed, packet_data,
                       packets, pc>>
        /\ is_flushing' = is_flushing
    BY DEF ReceiveRefused, inputVars
  <1>2. output_frameno' = output_frameno \/ (NextFrames # {} /\ output_frameno' = Current)
    BY DEF ReceiveRefused
  <1>3. Refusal(ready) \in {"NeedMoreData", "LimitReached", "NotReady"}
    BY <1>1 DEF Refusal
  <1>4. NeverStarvedAfterFlush'
    BY <1>1, FlushedNeverStarved DEF NeverStarvedAfterFlush
  <1> QED BY <1>1, <1>2, <1>3, <1>4, SkipInv

\* Encoding changes reference buffers only.
LEMMA AfterEncodeFacts ==
  ASSUME PipelineInv, NextFrames # {}
  PROVE  /\ DOMAIN AfterEncode(Current) = DOMAIN frame_data
         /\ \A n \in DOMAIN frame_data :
              /\ SameFrame(AfterEncode(Current)[n], frame_data[n])
              /\ AfterEncode(Current)[n] = Placeholder \/ AfterEncode(Current)[n] \in FrameDataType
PROOF
  <1>0. TypeOK
    BY DEF PipelineInv
  <1> DEFINE c == Current
             fd == frame_data[c]
             buf == Refresh(fd.rec_buffer, fd.refresh, Reconstruction(c))
             fds == AfterEncode(c)
  <1>1. c \in DOMAIN frame_data /\ c \in Nat /\ fd \in FrameDataType
    BY CurrentFacts
  <1>2. buf \in [REF_FRAMES -> RefType]
    <2>1. fd.rec_buffer \in [REF_FRAMES -> RefType] /\ fd.order_hint \in Nat
          /\ fd.input_frameno \in Nat
      BY <1>1 DEF FrameDataType
    <2>2. Reconstruction(c) \in RefType
      BY <1>1, <2>1, RefTypes DEF Reconstruction
    <2> QED BY <2>1, <2>2, RefreshType
  <1>3. fds = [m \in DOMAIN frame_data |->
                 IF m = c THEN [fd EXCEPT !.rec_buffer = buf]
                 ELSE IF m \in Subsequent(c)
                 THEN [frame_data[m] EXCEPT
                         !.rec_buffer = buf,
                         !.sign_bias = sign_bias(frame_data[m].ref_frames, buf,
                                                 frame_data[m].order_hint)]
                 ELSE frame_data[m]]
    BY DEF AfterEncode
  <1> HIDE DEF c, buf, fds
  <1>4. ASSUME NEW n \in DOMAIN frame_data
        PROVE  /\ SameFrame(fds[n], frame_data[n])
               /\ fds[n] = Placeholder \/ fds[n] \in FrameDataType
    <2>1. frame_data[n] = Placeholder \/ frame_data[n] \in FrameDataType
      BY <1>0 DEF TypeOK
    <2>2. CASE n = c
      <3>1. fds[n] = [fd EXCEPT !.rec_buffer = buf]
        BY <1>3, <2>2
      <3>2. [fd EXCEPT !.rec_buffer = buf] \in FrameDataType
        <4> HIDE DEF fd
        <4> QED BY <1>1, <1>2 DEF FrameDataType
      <3>3. SameFrame([fd EXCEPT !.rec_buffer = buf], fd)
        <4> HIDE DEF fd
        <4> QED BY <1>1 DEF SameFrame, FrameDataType
      <3> QED BY <2>2, <3>1, <3>2, <3>3
    <2>3. CASE n # c /\ n \in Subsequent(c)
      <3> DEFINE f == frame_data[n]
                 bias == sign_bias(f.ref_frames, buf, f.order_hint)
      <3>1. fds[n] = [f EXCEPT !.rec_buffer = buf, !.sign_bias = bias]
        BY <1>3, <2>3
      <3>2. f # Placeholder
        BY <2>3 DEF Subsequent, IsFrame, Placeholder
      <3>3. f \in FrameDataType
        BY <2>1, <3>2
      <3>4. bias \subseteq INTER_REFS
        BY DEF sign_bias
      <3> HIDE DEF f, bias
      <3>5. [f EXCEPT !.rec_buffer = buf, !.sign_bias = bias] \in FrameDataType
        BY <1>2, <3>3, <3>4 DEF FrameDataType
      <3>6. SameFrame([f EXCEPT !.rec_buffer = buf, !.sign_bias = bias], f)
        BY <3>3 DEF SameFrame, FrameDataType
      <3> QED BY <3>1, <3>5, <3>6 DEF f
    <2>4. CASE n # c /\ n \notin Subsequent(c)
      <3>1. fds[n] = frame_data[n]
        BY <1>3, <2>4
      <3> QED BY <2>1, <3>1 DEF SameFrame
    <2> QED BY <2>2, <2>3, <2>4
  <1>5. DOMAIN fds = DOMAIN frame_data
    BY <1>3
  <1> QED BY <1>4, <1>5 DEF fds, c

\* Where nothing is refused there is a frame to encode, and another coded one
\* while frames may still come.
LEMMA EncodesFacts ==
  ASSUME PipelineInv, NEW ready, Refusal(ready) = "no"
  PROVE  /\ NextFrames # {}
         /\ ~is_flushing => \E m \in Current .. NextOut - 1 : IsCoded(frame_data[m])
PROOF
  <1>0. TypeOK /\ CallsInv /\ ResidentInv
    BY DEF PipelineInv
  <1>1. NextFrames # {} /\ ~needs_more_fi_lookahead
    BY DEF Refusal
  <1>2. ASSUME ~is_flushing PROVE \E m \in Current .. NextOut - 1 : IsCoded(frame_data[m])
    <2>1. limit = NoLimit
      BY <1>0, <1>2 DEF CallsInv
    <2>2. ~(Cardinality(ReadyFrames) < RdoLookaheadFrames + 1)
      BY <1>1, <2>1 DEF needs_more_fi_lookahead, needs_more_frames
    <2>3. ReadyFrames # {}
      BY <2>2, FS_EmptySet, PipelineAssumption
    <2>4. PICK m : m \in DOMAIN frame_data /\ m >= output_frameno /\ IsCoded(frame_data[m])
      BY <2>3 DEF ReadyFrames
    <2>5. m \in NextFrames
      BY <2>4 DEF NextFrames, IsCoded, IsFrame
    <2>6. \A n \in DOMAIN frame_data : n \in 0 .. NextOut - 1
      BY <1>0, OutputResident
    <2>7. NextOut \in Nat /\ Current \in Nat
      BY <1>0, <1>1, CurrentFacts DEF TypeOK, NextOut
    <2>8. Current <= m
      <3> DEFINE S == NextFrames
      <3>1. S \subseteq Nat /\ Current = Min(S)
        BY <2>6, <2>7 DEF NextFrames, Current
      <3> HIDE DEF S
      <3> QED BY <2>5, <3>1, MinFacts DEF S
    <2>9. m \in Current .. NextOut - 1
      BY <2>4, <2>6, <2>7, <2>8
    <2> QED BY <2>4, <2>9
  <1> QED BY <1>1, <1>2

\* What is true of the frame that is output.
LEMMA OutputFacts ==
  ASSUME PipelineInv, NextFrames # {}
  PROVE  LET fd == frame_data[Current] IN
         /\ K(Current) \in Nat /\ DueAfter(Current) \in Nat
         /\ fd.input_frameno \in Nat /\ fd.input_frameno < frame_count
         /\ IF P(Current) = 0
            THEN /\ fd.frame_type = "KEY" /\ fd.show_frame /\ fd.input_frameno = K(Current)
            ELSE /\ fd.input_frameno < NextKey(K(Current)) /\ K(Current) < fd.input_frameno
                 /\ output_frameno > 0 /\ K(Current) = K(output_frameno - 1)
         /\ IF fd.show_frame
            THEN fd.input_frameno = Len(packets) /\ DueAfter(Current) = Len(packets) + 1
            ELSE DueAfter(Current) = Len(packets)
         /\ fd.input_frameno < next_lookahead_frame
         /\ IsCoded(fd) \/ fd.show_frame
PROOF
  <1>0. TypeOK /\ CallsInv /\ ResidentInv /\ PositionsInv
    BY DEF PipelineInv
  <1> DEFINE c == Current
             fd == frame_data[c]
  <1>1. /\ c \in output_frameno .. NextOut - 1 /\ c \in Nat
        /\ c \in DOMAIN frame_data /\ (c = 0 \/ c - 1 \in DOMAIN frame_data)
        /\ IsFrame(fd)
        /\ \A m \in output_frameno .. c - 1 : ~IsFrame(frame_data[m])
        /\ Due(c) = Len(packets)
    BY CurrentFacts
  <1> HIDE DEF c
  <1>2. /\ DueAfter(c) \in Nat
        /\ fd.input_frameno \in Nat
        /\ fd.input_frameno < frame_count
        /\ fd.input_frameno < next_lookahead_frame
        /\ IF fd.show_frame
           THEN /\ fd.input_frameno = Len(packets) /\ DueAfter(c) = Len(packets) + 1
           ELSE DueAfter(c) = Len(packets)
        /\ IsCoded(fd) \/ fd.show_frame
    BY <1>0, <1>1, PositionDue
  <1>3. BuiltInv(c) /\ GopInv(c) /\ K(c) \in Nat /\ P(c) \in Nat
    BY <1>0, <1>1 DEF PositionsInv, GopInv, P
  <1>4. CASE P(c) = 0
    BY <1>2, <1>3, <1>4 DEF BuiltInv, Built, c
  <1>5. CASE P(c) # 0
    <2>1. fd.input_frameno = get_input_frameno(P(c), K(c)) /\ fd.input_frameno < NextKey(K(c))
      BY <1>1, <1>3, <1>5 DEF BuiltInv, Built
    <2>2. K(c) < fd.input_frameno
      <3>1. get_input_frameno(P(c), K(c)) > K(c) /\ get_input_frameno(P(c), K(c)) \in Nat
        BY <1>3, <1>5, PositionFacts
      <3> QED BY <1>3, <2>1, <3>1
    <2>3. output_frameno > 0 /\ K(c) = K(output_frameno - 1)
      BY <1>1, <1>5, SkippedGop
    <2> QED BY <1>2, <1>3, <1>5, <2>1, <2>2, <2>3 DEF c
  <1> QED BY <1>4, <1>5

\* A hidden frame: nothing is output, nothing more is due.
LEMMA EncodeHiddenInv ==
  ASSUME PipelineInv, NEW ready \in BOOLEAN, EncodeHidden(ready)
  PROVE  PipelineInv'
PROOF
  <1>0. /\ TypeOK /\ HistoryInv /\ CallsInv /\ QueueInv /\ ResidentInv /\ PositionsInv
        /\ PacketsInv /\ KeyOutput /\ KeyframeIntervalRespected /\ FlushedInv
    BY DEF PipelineInv
  <1>1. NextOut \in Nat /\ output_frameno \in Nat /\ output_frameno <= NextOut
    BY <1>0 DEF TypeOK, ResidentInv, NextOut
  <1>2. PICK c, N : c = Current /\ N = NextOut
    OBVIOUS
  <1>3. /\ pc = "idle" /\ Refusal(ready) = "no" /\ IsCoded(frame_data[c])
        /\ ~frame_data[c].show_frame /\ output_frameno' = c + 1
        /\ frame_data' = AfterEncode(Current) /\ status' = "Encoded"
        /\ UNCHANGED <<frame_count, limit, is_flushing, keyframes_forced, opaque_q, sent, frame_q,
                       t35_q, keyframes, next_lookahead_frame, gop_output_frameno_start,
                       gop_input_frameno_start, next_lookahead_output_frameno,
                       frames_processed, packets, pc>>
    BY <1>2 DEF EncodeHidden, inputVars, lookVars, gopVars
  <1>4. NextFrames # {}
    BY <1>3, EncodesFacts
  <1>5. c \in output_frameno .. N - 1 /\ c \in Nat /\ c \in DOMAIN frame_data
    BY <1>2, <1>4, CurrentFacts
  <1>6. /\ DueAfter(c) = Len(packets) /\ P(c) # 0
        /\ output_frameno > 0 /\ K(c) = K(output_frameno - 1)
    BY <1>2, <1>3, <1>4, OutputFacts
  <1>7. /\ DOMAIN frame_data' = DOMAIN frame_data
        /\ \A n \in DOMAIN frame_data :
             /\ SameFrame(frame_data'[n], frame_data[n])
             /\ frame_data'[n] = Placeholder \/ frame_data'[n] \in FrameDataType
    BY <1>3, <1>4, AfterEncodeFacts
  <1>8. PositionsInv' /\ \A n \in DOMAIN frame_data' : DueAfter(n)' = DueAfter(n)
    <2>1. KeysStep
      BY <1>0, <1>3, KeysStepFacts
    <2>2. \A n \in DOMAIN frame_data' :
            G(n)' = G(n) /\ K(n)' = K(n) /\ SameFrame(frame_data'[n], frame_data[n])
      BY <1>3, <1>7 DEF G, K
    <2>3. /\ frame_count' \in Nat /\ next_lookahead_frame' \in Nat
          /\ frame_count <= frame_count' /\ next_lookahead_frame <= next_lookahead_frame'
      BY <1>0, <1>3 DEF TypeOK
    <2> QED BY <1>0, <1>7, <2>1, <2>2, <2>3, PositionsKept
  <1>9. Due(output_frameno)' = Due(output_frameno) /\ Due(NextOut)' = Due(NextOut)
    <2>1. Due(output_frameno)' = DueAfter(c)'
      <3>1. output_frameno' # 0 /\ output_frameno' - 1 = c
        BY <1>3, <1>5
      <3> QED BY <3>1 DEF Due, DueAfter, ShownUpTo, P, G, K, NextKey, next_keyframe_input_frameno
    <2>2. Due(output_frameno) = Len(packets)
      BY <1>0 DEF PacketsInv
    <2>3. PICK m : m = N - 1
      OBVIOUS
    <2>4. N # 0 /\ m \in DOMAIN frame_data
      <3>1. N > 0
        BY <1>1, <1>2, <1>5
      <3> QED BY <1>0, <1>2, <2>3, <3>1, LastResident
    <2>5. Due(NextOut) = DueAfter(m) /\ Due(NextOut)' = DueAfter(m)'
      <3>1. NextOut' = N /\ NextOut' - 1 = m
        BY <1>2, <1>3, <2>3 DEF NextOut
      <3> QED BY <1>2, <2>3, <2>4, <3>1
            DEF Due, DueAfter, ShownUpTo, P, G, K, NextKey, next_keyframe_input_frameno
    <2> QED BY <1>5, <1>6, <1>7, <1>8, <2>1, <2>2, <2>4, <2>5
  <1>10. TypeOK'
    <2>1. /\ DOMAIN frame_data' \subseteq Nat /\ output_frameno' \in Nat
          /\ \A n \in DOMAIN frame_data' :
               frame_data'[n] = Placeholder \/ frame_data'[n] \in FrameDataType
      BY <1>0, <1>3, <1>5, <1>7 DEF TypeOK
    <2> QED BY <1>0, <1>3, <2>1 DEF TypeOK
  <1>11. HistoryInv' /\ CallsInv' /\ QueueInv' /\ KeyframeIntervalRespected'
    BY <1>0, <1>3 DEF HistoryInv, CallsInv, QueueInv, LastQueued, KeyframeIntervalRespected
  <1>12. ResidentInv'
    <2>1. PICK lo \in 0 .. output_frameno :
            /\ output_frameno > 0 => lo < output_frameno
            /\ DOMAIN frame_data = lo .. NextOut - 1
            /\ \A n \in DOMAIN frame_data :
                 n \in DOMAIN gop_output_frameno_start /\ n \in DOMAIN gop_input_frameno_start
            /\ NextOut > 0 => IsFrame(frame_data[lo])
      BY <1>0 DEF ResidentInv
    <2>2. lo \in 0 .. output_frameno' /\ lo < output_frameno'
      BY <1>1, <1>3, <1>5, <2>1
    <2>3. NextOut' = NextOut /\ output_frameno' <= NextOut' /\ NextOut > 0
      BY <1>1, <1>2, <1>3, <1>5 DEF NextOut
    <2>4. IsFrame(frame_data'[lo])
      <3>1. lo \in DOMAIN frame_data /\ IsFrame(frame_data[lo])
        BY <1>1, <2>1, <2>3
      <3> QED BY <1>7, <3>1 DEF SameFrame, IsFrame
    <2>5. \E m \in DOMAIN frame_data' : IsCoded(frame_data'[m])
      BY <1>3, <1>5, <1>7 DEF SameFrame, IsCoded
    <2> QED BY <1>3, <1>7, <2>1, <2>2, <2>3, <2>4, <2>5 DEF ResidentInv, IsFrame, IsCoded
  <1>13. PacketsInv'
    <2>1. \A i \in keyframes_forced : i < next_lookahead_frame' => i \in keyframes'
      BY <1>0, <1>3 DEF PacketsInv
    <2> QED BY <1>0, <1>3, <1>9, <2>1, PacketsKept
  <1>14. KeyOutput'
    <2>1. K(output_frameno - 1)' = K(output_frameno - 1)
      <3>1. output_frameno' - 1 = c
        BY <1>3, <1>5
      <3>2. K(output_frameno - 1)' = K(c)
        BY <1>3, <3>1 DEF K
      <3> QED BY <1>6, <3>2
    <2> QED BY <1>0, <1>3, <1>6, <2>1 DEF KeyOutput
  <1>15. FlushedInv' /\ NeverStarvedAfterFlush'
    BY <1>0, <1>3, <1>9 DEF FlushedInv, NeverStarvedAfterFlush
  <1> QED BY <1>8, <1>10, <1>11, <1>12, <1>13, <1>14, <1>15 DEF PipelineInv

\* A sequence with an element appended.
LEMMA AppendFacts ==
  ASSUME NEW s, s \in Seq(Range(s)), Len(s) \in Nat, NEW x
  PROVE  /\ Append(s, x) \in Seq(Range(Append(s, x)))
         /\ Len(Append(s, x)) = Len(s) + 1
         /\ DOMAIN s = 1 .. Len(s) /\ DOMAIN Append(s, x) = 1 .. Len(s) + 1
         /\ Append(s, x)[Len(s) + 1] = x
         /\ \A i \in 1 .. Len(s) : Append(s, x)[i] = s[i]
PROOF
  <1> DEFINE T == Range(s) \cup {x}
             t == Append(s, x)
  <1>1. s \in Seq(T) /\ x \in T
    <2>1. \A i \in DOMAIN s : s[i] \in T
      BY DEF Range
    <2> HIDE DEF T
    <2>2. s \in Seq(T)
      BY <2>1
    <2> QED BY <2>2 DEF T
  <1> HIDE DEF T
  <1>2. /\ t \in Seq(T) /\ Len(t) = Len(s) + 1
        /\ DOMAIN s = 1 .. Len(s) /\ DOMAIN t = 1 .. Len(s) + 1
        /\ t[Len(s) + 1] = x
        /\ \A i \in 1 .. Len(s) : t[i] = s[i]
    BY <1>1
  <1> HIDE DEF t
  <1>3. t \in Seq(Range(t))
    <2>1. \A i \in DOMAIN t : t[i] \in Range(t)
      BY DEF Range
    <2> QED BY <1>2, <2>1
  <1> QED BY <1>2, <1>3 DEF t

\* What GarbageCollectOutput keeps: at least the last encoded frame and all
\* after it.
LEMMA CollectFacts ==
  ASSUME NEW c \in Nat, NEW N \in Nat, c < N, output_frameno' = c + 1, NEW lo \in 0 .. c,
         NEW input \in Nat, NEW fds, DOMAIN fds = lo .. N - 1,
         GarbageCollectOutput(input, fds)
  PROVE  /\ \E l \in lo .. c : DOMAIN frame_data' = l .. N - 1 /\ (l = lo \/ l = c)
         /\ \A n \in DOMAIN frame_data' : frame_data'[n] = fds[n]
         /\ DOMAIN gop_output_frameno_start' \subseteq DOMAIN gop_output_frameno_start
         /\ DOMAIN gop_input_frameno_start' \subseteq DOMAIN gop_input_frameno_start
         /\ \A n \in DOMAIN gop_output_frameno_start' :
              gop_output_frameno_start'[n] = gop_output_frameno_start[n]
         /\ \A n \in DOMAIN gop_input_frameno_start' :
              gop_input_frameno_start'[n] = gop_input_frameno_start[n]
         /\ \A n \in DOMAIN frame_data' :
              /\ n \in DOMAIN gop_output_frameno_start => n \in DOMAIN gop_output_frameno_start'
              /\ n \in DOMAIN gop_input_frameno_start => n \in DOMAIN gop_input_frameno_start'
PROOF
  <1>1. output_frameno' - 1 = c
    OBVIOUS
  <1>2. CASE input = 0 \/ output_frameno' < 2
    <2>1. /\ frame_data' = fds
          /\ UNCHANGED <<gop_output_frameno_start, gop_input_frameno_start>>
      BY <1>2 DEF GarbageCollectOutput
    <2>2. lo \in lo .. c
      OBVIOUS
    <2> QED BY <2>1, <2>2
  <1>3. CASE ~(input = 0 \/ output_frameno' < 2)
    <2>1. /\ frame_data' = Restrict(fds, {n \in DOMAIN fds : n >= c})
          /\ gop_output_frameno_start' =
               Restrict(gop_output_frameno_start, {n \in DOMAIN gop_output_frameno_start : n >= c})
          /\ gop_input_frameno_start' =
               Restrict(gop_input_frameno_start, {n \in DOMAIN gop_input_frameno_start : n >= c})
      BY <1>1, <1>3 DEF GarbageCollectOutput
    <2>2. {n \in lo .. N - 1 : n >= c} = c .. N - 1
      OBVIOUS
    <2>3. DOMAIN frame_data' = c .. N - 1 /\ \A n \in c .. N - 1 : frame_data'[n] = fds[n]
      BY <2>1, <2>2 DEF Restrict
    <2>4. /\ DOMAIN gop_output_frameno_start' = {n \in DOMAIN gop_output_frameno_start : n >= c}
          /\ \A n \in DOMAIN gop_output_frameno_start' :
               gop_output_frameno_start'[n] = gop_output_frameno_start[n]
      BY <2>1 DEF Restrict
    <2>5. /\ DOMAIN gop_input_frameno_start' = {n \in DOMAIN gop_input_frameno_start : n >= c}
          /\ \A n \in DOMAIN gop_input_frameno_start' :
               gop_input_frameno_start'[n] = gop_input_frameno_start[n]
      BY <2>1 DEF Restrict
    <2>6. c \in lo .. c /\ \A n \in c .. N - 1 : n >= c
      OBVIOUS
    <2> QED BY <2>3, <2>4, <2>5, <2>6
  <1> QED BY <1>2, <1>3

\* A packet: the frame that was due, with its own data.
LEMMA EmitInv ==
  ASSUME PipelineInv, NEW ready, Refusal(ready) = "no", pc = "idle",
         frame_data[Current].show_frame, NEW fds, NEW rec,
         DOMAIN fds = DOMAIN frame_data,
         \A n \in DOMAIN frame_data :
           /\ SameFrame(fds[n], frame_data[n])
           /\ fds[n] = Placeholder \/ fds[n] \in FrameDataType,
         output_frameno' = Current + 1,
         EmitPacket(Current, rec, fds),
         UNCHANGED <<frame_count, limit, is_flushing, keyframes_forced, sent, t35_q,
                     lookVars, next_lookahead_output_frameno, pc>>
  PROVE  PipelineInv'
PROOF
  <1>0. /\ TypeOK /\ HistoryInv /\ CallsInv /\ QueueInv /\ ResidentInv /\ PositionsInv
        /\ PacketsInv /\ KeyOutput /\ KeyframeIntervalRespected /\ FlushedInv
    BY DEF PipelineInv
  <1>1. /\ NextOut \in Nat /\ output_frameno \in Nat /\ output_frameno <= NextOut
        /\ frame_count \in Nat /\ next_lookahead_frame \in Nat /\ Len(packets) \in Nat
    BY <1>0 DEF TypeOK, ResidentInv, NextOut, HistoryInv
  <1>2. PICK c, N, L, x :
          /\ c = Current /\ N = NextOut /\ L = Len(packets)
          /\ x = [input_frameno |-> frame_data[c].input_frameno,
                  frame_type |-> frame_data[c].frame_type, rec |-> rec,
                  opaque |-> frame_data[c].input_frameno \in opaque_q,
                  tu |-> Append(packet_data, BitstreamFrame(c))]
    OBVIOUS
  <1>3. NextFrames # {}
    BY EncodesFacts
  <1>4. /\ c \in output_frameno .. N - 1 /\ c \in Nat /\ c \in DOMAIN frame_data
        /\ IsFrame(frame_data[c]) /\ frame_data[c] \in FrameDataType
    BY <1>2, <1>3, CurrentFacts
  <1>5. /\ K(c) \in Nat /\ DueAfter(c) = L + 1
        /\ frame_data[c].input_frameno = L /\ L < frame_count /\ L < next_lookahead_frame
        /\ IF P(c) = 0
           THEN frame_data[c].frame_type = "KEY" /\ L = K(c)
           ELSE /\ L < NextKey(K(c)) /\ K(c) < L
                /\ output_frameno > 0 /\ K(c) = K(output_frameno - 1)
    BY <1>2, <1>3, OutputFacts
  <1>6. /\ packets' = Append(packets, x)
        /\ x.input_frameno = L /\ x.frame_type = frame_data[c].frame_type
        /\ x.opaque = (L \in opaque_q)
        /\ frames_processed' = frames_processed + 1
        /\ opaque_q' = opaque_q \ {L}
        /\ GarbageCollectInput(L) /\ GarbageCollectOutput(L, fds)
        /\ status' = "Packet"
    BY <1>2, <1>5 DEF EmitPacket
  <1>7. UNCHANGED <<frame_count, limit, is_flushing, keyframes_forced, sent, t35_q,
                    keyframes, next_lookahead_frame, next_lookahead_output_frameno, pc>>
    BY DEF lookVars
  <1>8. PICK lo \in 0 .. output_frameno :
          /\ output_frameno > 0 => lo < output_frameno
          /\ DOMAIN frame_data = lo .. N - 1
          /\ \A n \in DOMAIN frame_data :
               n \in DOMAIN gop_output_frameno_start /\ n \in DOMAIN gop_input_frameno_start
          /\ N > 0 => IsFrame(frame_data[lo])
    BY <1>0, <1>2 DEF ResidentInv
  <1>9. /\ N \in Nat /\ c \in Nat /\ c < N /\ L \in Nat /\ lo \in 0 .. c /\ output_frameno' = c + 1
    BY <1>1, <1>2, <1>4, <1>8
  <1>10. /\ \E l \in lo .. c : DOMAIN frame_data' = l .. N - 1 /\ (l = lo \/ l = c)
         /\ \A n \in DOMAIN frame_data' : frame_data'[n] = fds[n]
         /\ DOMAIN gop_output_frameno_start' \subseteq DOMAIN gop_output_frameno_start
         /\ DOMAIN gop_input_frameno_start' \subseteq DOMAIN gop_input_frameno_start
         /\ \A n \in DOMAIN gop_output_frameno_start' :
              gop_output_frameno_start'[n] = gop_output_frameno_start[n]
         /\ \A n \in DOMAIN gop_input_frameno_start' :
              gop_input_frameno_start'[n] = gop_input_frameno_start[n]
         /\ \A n \in DOMAIN frame_data' :
              /\ n \in DOMAIN gop_output_frameno_start => n \in DOMAIN gop_output_frameno_start'
              /\ n \in DOMAIN gop_input_frameno_start => n \in DOMAIN gop_input_frameno_start'
    BY <1>4, <1>6, <1>8, <1>9, CollectFacts
  <1>11. PICK l \in lo .. c : DOMAIN frame_data' = l .. N - 1 /\ (l = lo \/ l = c)
    BY <1>10
  <1>12. l \in Nat /\ DOMAIN frame_data' \subseteq DOMAIN frame_data
    BY <1>8, <1>9, <1>11
  <1>13. \A n \in DOMAIN frame_data' :
           /\ G(n)' = G(n) /\ K(n)' = K(n) /\ SameFrame(frame_data'[n], frame_data[n])
           /\ frame_data'[n] = Placeholder \/ frame_data'[n] \in FrameDataType
           /\ n \in DOMAIN gop_output_frameno_start' /\ n \in DOMAIN gop_input_frameno_start'
    <2> TAKE n \in DOMAIN frame_data'
    <2>1. /\ n \in DOMAIN frame_data /\ frame_data'[n] = fds[n]
          /\ n \in DOMAIN gop_output_frameno_start' /\ n \in DOMAIN gop_input_frameno_start'
      BY <1>8, <1>10, <1>12
    <2>2. G(n)' = G(n) /\ K(n)' = K(n)
      BY <1>10, <2>1 DEF G, K
    <2> QED BY <2>1, <2>2
  <1>14. PositionsInv' /\ \A n \in DOMAIN frame_data' : DueAfter(n)' = DueAfter(n)
    <2>1. KeysStep
      BY <1>0, <1>7, KeysStepFacts
    <2>2. /\ frame_count' \in Nat /\ next_lookahead_frame' \in Nat
          /\ frame_count <= frame_count' /\ next_lookahead_frame <= next_lookahead_frame'
      BY <1>1, <1>7
    <2> QED BY <1>0, <1>12, <1>13, <2>1, <2>2, PositionsKept
  <1>15. Due(output_frameno)' = L + 1 /\ Due(NextOut)' = Due(NextOut)
    <2>1. c \in DOMAIN frame_data' /\ N - 1 \in DOMAIN frame_data'
      BY <1>9, <1>11
    <2>2. Due(output_frameno)' = DueAfter(c)'
      <3>1. output_frameno' # 0 /\ output_frameno' - 1 = c
        BY <1>9, <1>4
      <3> QED BY <3>1 DEF Due, DueAfter, ShownUpTo, P, G, K, NextKey, next_keyframe_input_frameno
    <2>3. PICK m : m = N - 1
      OBVIOUS
    <2>4. Due(NextOut) = DueAfter(m) /\ Due(NextOut)' = DueAfter(m)'
      <3>1. NextOut' = N /\ NextOut' - 1 = m /\ N # 0
        BY <1>2, <1>7, <1>9, <2>3 DEF NextOut
      <3> QED BY <1>2, <2>3, <3>1
            DEF Due, DueAfter, ShownUpTo, P, G, K, NextKey, next_keyframe_input_frameno
    <2> QED BY <1>5, <1>14, <2>1, <2>2, <2>3, <2>4
  <1>16. /\ packets' \in Seq(Range(packets')) /\ Len(packets') = L + 1
         /\ DOMAIN packets = 1 .. L /\ DOMAIN packets' = 1 .. L + 1
         /\ packets'[L + 1] = x /\ \A i \in 1 .. L : packets'[i] = packets[i]
    <2>1. packets \in Seq(Range(packets)) /\ Len(packets) \in Nat
      BY <1>0 DEF HistoryInv
    <2> QED BY <1>2, <1>6, <2>1, AppendFacts
  <1>17. PICK b \in 0 .. frame_count : DOMAIN frame_q = b .. LastQueued /\ (b = 0 \/ b < L)
    BY <1>0, <1>2 DEF QueueInv
  <1>18. \E q \in 0 .. frame_count :
           /\ DOMAIN frame_q' = q .. LastQueued /\ (q = 0 \/ q < L + 1)
           /\ \A n \in DOMAIN frame_q' : n \in DOMAIN frame_q /\ frame_q'[n] = frame_q[n]
    <2>1. CASE L = 0
      BY <1>6, <1>17, <2>1 DEF GarbageCollectInput
    <2>2. CASE L # 0
      <3>1. frame_q' = Restrict(frame_q, {n \in DOMAIN frame_q : n >= L})
        BY <1>6, <2>2 DEF GarbageCollectInput
      <3>2. LastQueued \in Int
        BY <1>1 DEF LastQueued
      <3>3. {n \in b .. LastQueued : n >= L} = L .. LastQueued
        BY <1>1, <1>9, <1>17, <3>2
      <3>4. /\ DOMAIN frame_q' = L .. LastQueued
            /\ \A n \in DOMAIN frame_q' : n \in DOMAIN frame_q /\ frame_q'[n] = frame_q[n]
        BY <1>17, <3>1, <3>3 DEF Restrict
      <3>5. L \in 0 .. frame_count /\ L < L + 1
        BY <1>1, <1>5, <1>9
      <3> QED BY <3>4, <3>5
    <2> QED BY <2>1, <2>2
  <1>19. TypeOK'
    <2>1. /\ DOMAIN frame_data' \subseteq Nat /\ output_frameno' \in Nat
          /\ \A n \in DOMAIN frame_data' :
               frame_data'[n] = Placeholder \/ frame_data'[n] \in FrameDataType
      BY <1>0, <1>4, <1>9, <1>12, <1>13 DEF TypeOK
    <2>2. /\ DOMAIN gop_output_frameno_start' \subseteq Nat
          /\ \A n \in DOMAIN gop_output_frameno_start' : gop_output_frameno_start'[n] \in 0 .. n
          /\ DOMAIN gop_input_frameno_start' \subseteq Nat
          /\ \A n \in DOMAIN gop_input_frameno_start' : gop_input_frameno_start'[n] \in Nat
      BY <1>0, <1>10 DEF TypeOK
    <2>3. /\ DOMAIN frame_q' \subseteq Nat /\ \A n \in DOMAIN frame_q' : frame_q'[n] \in BOOLEAN
      BY <1>0, <1>18 DEF TypeOK
    <2>4. opaque_q' \subseteq Nat
      BY <1>0, <1>6 DEF TypeOK
    <2>5. frames_processed' \in Nat
      BY <1>0, <1>6 DEF TypeOK
    <2> QED BY <1>0, <1>6, <1>7, <2>1, <2>2, <2>3, <2>4, <2>5 DEF TypeOK
  <1>20. HistoryInv' /\ CallsInv'
    BY <1>0, <1>7, <1>9, <1>16 DEF HistoryInv, CallsInv
  <1>21. QueueInv'
    <2>1. LastQueued' = LastQueued
      BY <1>7 DEF LastQueued
    <2>2. \A n \in DOMAIN frame_q' : frame_q'[n] = (n < frame_count')
      BY <1>0, <1>7, <1>18 DEF QueueInv
    <2>3. Len(packets') <= frame_count'
      BY <1>1, <1>5, <1>7, <1>9, <1>16
    <2> QED BY <1>7, <1>16, <1>18, <2>1, <2>2, <2>3 DEF QueueInv
  <1>22. ResidentInv'
    <2>1. NextOut' = N /\ output_frameno' <= N /\ N > 0
      BY <1>2, <1>7, <1>9 DEF NextOut
    <2>2. l \in 0 .. output_frameno' /\ l < output_frameno'
      BY <1>9, <1>11, <1>12
    <2>3. IsFrame(frame_data'[l])
      <3>1. IsFrame(frame_data[l])
        BY <1>4, <1>8, <1>11, <2>1
      <3>2. l \in DOMAIN frame_data'
        BY <1>9, <1>11, <1>12
      <3> QED BY <1>13, <3>1, <3>2 DEF SameFrame, IsFrame
    <2>4. ~is_flushing => \E m \in DOMAIN frame_data' : IsCoded(frame_data'[m])
      <3> SUFFICES ASSUME ~is_flushing PROVE \E m \in DOMAIN frame_data' : IsCoded(frame_data'[m])
        OBVIOUS
      <3>1. PICK m \in c .. N - 1 : IsCoded(frame_data[m])
        BY <1>2, EncodesFacts
      <3>2. m \in DOMAIN frame_data'
        BY <1>9, <1>11
      <3> QED BY <1>13, <3>1, <3>2 DEF SameFrame, IsCoded
    <2> QED BY <1>7, <1>11, <1>13, <2>1, <2>2, <2>3, <2>4 DEF ResidentInv, IsFrame, IsCoded
  <1>23. PacketsInv'
    <2>1. /\ frames_processed = L /\ Len(sent) = frame_count
          /\ opaque_q = {i \in L .. frame_count - 1 : sent[i + 1].opaque}
          /\ keyframes_forced = {i \in 0 .. frame_count - 1 : sent[i + 1].key}
          /\ 0 \in keyframes
          /\ \A i \in keyframes_forced : i < next_lookahead_frame => i \in keyframes
          /\ \A i \in DOMAIN packets :
               /\ packets[i].input_frameno = i - 1
               /\ packets[i].opaque = sent[i].opaque
               /\ sent[i].key => packets[i].frame_type = "KEY"
      BY <1>0, <1>2 DEF PacketsInv
    <2>2. opaque_q' = {i \in L + 1 .. frame_count - 1 : sent[i + 1].opaque}
      <3>1. \A i : i \in L + 1 .. frame_count - 1 <=> i \in L .. frame_count - 1 /\ i # L
        BY <1>1, <1>9
      <3> QED BY <1>6, <2>1, <3>1
    <2>3. L \in 0 .. frame_count - 1 /\ L \in L .. frame_count - 1
      BY <1>1, <1>5, <1>9
    <2>4. sent[L + 1].opaque \in BOOLEAN /\ sent[L + 1].key \in BOOLEAN
      <3>1. sent \in Seq(Params) /\ L + 1 \in 1 .. Len(sent)
        BY <1>0, <1>1, <1>9, <2>1, <2>3 DEF HistoryInv
      <3>2. sent[L + 1] \in Params
        BY <3>1
      <3> QED BY <3>2, PipelineAssumption
    <2>5. x.opaque = sent[L + 1].opaque
      <3>1. L \in opaque_q <=> sent[L + 1].opaque
        BY <2>1, <2>3
      <3>2. (L \in opaque_q) = sent[L + 1].opaque
        BY <2>4, <3>1
      <3> QED BY <1>6, <3>2
    <2>6. sent[L + 1].key => x.frame_type = "KEY"
      <3> SUFFICES ASSUME sent[L + 1].key PROVE x.frame_type = "KEY"
        OBVIOUS
      <3>1. L \in keyframes
        BY <1>5, <2>1, <2>3
      <3>2. K(c) < L => NextKey(K(c)) <= L /\ NextKey(K(c)) \in Nat
        BY <1>0, <1>5, <1>9, <3>1, NextKeyBounds
      <3>3. P(c) = 0
        BY <1>5, <1>9, <3>2
      <3> QED BY <1>5, <1>6, <3>3
    <2>7. \A i \in DOMAIN packets' :
            /\ packets'[i].input_frameno = i - 1
            /\ packets'[i].opaque = sent[i].opaque
            /\ sent[i].key => packets'[i].frame_type = "KEY"
      <3> TAKE i \in DOMAIN packets'
      <3>1. CASE i = L + 1
        <4>1. packets'[i] = x /\ i - 1 = L
          BY <1>9, <1>16, <3>1
        <4> QED BY <1>6, <2>5, <2>6, <3>1, <4>1
      <3>2. CASE i # L + 1
        <4>1. i \in 1 .. L
          BY <1>9, <1>16, <3>2
        <4>2. packets'[i] = packets[i] /\ i \in DOMAIN packets
          BY <1>16, <4>1
        <4> QED BY <2>1, <4>2
      <3> QED BY <3>1, <3>2
    <2>8. /\ frames_processed' = Len(packets') /\ Len(packets') = Due(output_frameno)'
          /\ Len(sent') = frame_count'
      BY <1>6, <1>7, <1>15, <1>16, <2>1
    <2>9. /\ opaque_q' = {i \in Len(packets') .. frame_count' - 1 : sent'[i + 1].opaque}
          /\ keyframes_forced' = {i \in 0 .. frame_count' - 1 : sent'[i + 1].key}
      BY <1>7, <1>16, <2>1, <2>2
    <2>10. /\ 0 \in keyframes'
           /\ \A i \in keyframes_forced' : i < next_lookahead_frame' => i \in keyframes'
      BY <1>7, <2>1
    <2> QED BY <1>7, <2>7, <2>8, <2>9, <2>10 DEF PacketsInv
  <1>24. K(c) \in 0 .. L /\ packets'[K(c) + 1].frame_type = "KEY" /\ L - K(c) < MaxKeyFrameInterval
    <2>1. CASE P(c) = 0
      <3>1. L = K(c) /\ packets'[K(c) + 1].frame_type = "KEY"
        BY <1>5, <1>6, <1>16, <2>1
      <3> QED BY <1>9, <3>1, PipelineAssumption
    <2>2. CASE P(c) # 0
      <3>1. /\ L < NextKey(K(c)) /\ K(c) < L /\ K(c) \in Nat
            /\ output_frameno > 0 /\ K(c) = K(output_frameno - 1)
        BY <1>5, <2>2
      <3>2. NextKey(K(c)) \in Nat /\ NextKey(K(c)) <= K(c) + MaxKeyFrameInterval
        BY <1>0, <3>1, NextKeyBounds
      <3>3. L - K(c) < MaxKeyFrameInterval /\ K(c) + 1 \in 1 .. L /\ K(c) \in 0 .. L
        BY <1>9, <3>1, <3>2, PipelineAssumption
      <3>4. packets[K(c) + 1].frame_type = "KEY"
        BY <1>0, <3>1 DEF KeyOutput
      <3> QED BY <1>16, <3>3, <3>4
    <2> QED BY <2>1, <2>2
  <1>25. KeyOutput'
    <2>1. K(output_frameno - 1)' = K(c)
      <3>1. output_frameno' - 1 = c /\ c \in DOMAIN frame_data'
        BY <1>9, <1>11
      <3>2. K(output_frameno - 1)' = K(c)'
        BY <3>1 DEF K
      <3> QED BY <1>13, <3>1, <3>2
    <2>2. K(c) < Len(packets')
      BY <1>9, <1>16, <1>24
    <2> QED BY <1>24, <2>1, <2>2 DEF KeyOutput
  <1>26. KeyframeIntervalRespected'
    <2> SUFFICES ASSUME NEW i \in DOMAIN packets'
                 PROVE  \E k \in DOMAIN packets' :
                          /\ k <= i /\ i - k < MaxKeyFrameInterval
                          /\ packets'[k].frame_type = "KEY"
      BY DEF KeyframeIntervalRespected
    <2>1. CASE i = L + 1
      <3>1. PICK k : k = K(c) + 1
        OBVIOUS
      <3>2. k \in 1 .. L + 1 /\ k <= i /\ i - k = L - K(c)
        BY <1>5, <1>9, <1>24, <2>1, <3>1
      <3> QED BY <1>16, <1>24, <3>1, <3>2
    <2>2. CASE i # L + 1
      <3>1. i \in DOMAIN packets
        BY <1>9, <1>16, <2>2
      <3>2. PICK k \in DOMAIN packets :
              k <= i /\ i - k < MaxKeyFrameInterval /\ packets[k].frame_type = "KEY"
        BY <1>0, <3>1 DEF KeyframeIntervalRespected
      <3>3. k \in DOMAIN packets' /\ packets'[k] = packets[k]
        BY <1>9, <1>16
      <3> QED BY <3>2, <3>3
    <2> QED BY <2>1, <2>2
  <1>27. FlushedInv' /\ NeverStarvedAfterFlush'
    BY <1>0, <1>6, <1>7, <1>15 DEF FlushedInv, NeverStarvedAfterFlush
  <1> QED BY <1>14, <1>19, <1>20, <1>21, <1>22, <1>23, <1>25, <1>26, <1>27 DEF PipelineInv

\* A shown frame.
LEMMA EncodeShownInv ==
  ASSUME PipelineInv, NEW ready \in BOOLEAN, EncodeShown(ready)
  PROVE  PipelineInv'
PROOF
  <1>1. NextFrames # {}
    BY EncodesFacts DEF EncodeShown
  <1> DEFINE fds == AfterEncode(Current)
  <1>2. /\ DOMAIN fds = DOMAIN frame_data
        /\ \A n \in DOMAIN frame_data :
             /\ SameFrame(fds[n], frame_data[n])
             /\ fds[n] = Placeholder \/ fds[n] \in FrameDataType
    BY <1>1, AfterEncodeFacts
  <1>3. EmitPacket(Current, Reconstruction(Current), fds)
    BY DEF EncodeShown
  <1> HIDE DEF fds
  <1> QED BY <1>2, <1>3, EmitInv DEF EncodeShown

\* A frame that was coded before.
LEMMA EncodeShowExistingInv ==
  ASSUME PipelineInv, NEW ready \in BOOLEAN, EncodeShowExisting(ready)
  PROVE  PipelineInv'
PROOF
  <1>1. NextFrames # {}
    BY EncodesFacts DEF EncodeShowExisting
  <1>2. frame_data[Current].show_frame
    BY <1>1, OutputFacts DEF EncodeShowExisting
  <1>3. \A n \in DOMAIN frame_data :
             /\ SameFrame(frame_data[n], frame_data[n])
             /\ frame_data[n] = Placeholder \/ frame_data[n] \in FrameDataType
    BY DEF PipelineInv, TypeOK, SameFrame
  <1> QED BY <1>2, <1>3, EmitInv DEF EncodeShowExisting

-----------------------------------------------------------------------------
(* The theorems *)

\* The initial state: a new context.
LEMMA InitInv == Init => PipelineInv
PROOF
  <1> SUFFICES ASSUME Init PROVE PipelineInv
    OBVIOUS
  <1>1. /\ frame_count = 0 /\ limit = NoLimit /\ is_flushing = FALSE
        /\ frame_q = <<>> /\ opaque_q = {} /\ t35_q = {} /\ keyframes_forced = {}
        /\ keyframes = {0} /\ next_lookahead_frame = 1
        /\ next_lookahead_output_frameno = 0
        /\ gop_output_frameno_start = <<>> /\ gop_input_frameno_start = <<>>
        /\ frame_data = <<>>
        /\ output_frameno = 0 /\ frames_processed = 0
        /\ pc = "idle" /\ status = "Ok" /\ sent = <<>> /\ packets = <<>>
    BY DEF Init, InitWithLimit
  <1>2. /\ DOMAIN frame_q = {} /\ DOMAIN gop_output_frameno_start = {}
        /\ DOMAIN gop_input_frameno_start = {} /\ DOMAIN frame_data = {}
        /\ DOMAIN packets = {} /\ Len(packets) = 0 /\ Len(sent) = 0
    BY <1>1
  <1>3. TypeOK
    <2>1. /\ frame_count \in Nat /\ next_lookahead_frame \in Nat \ {0}
          /\ next_lookahead_output_frameno \in Nat
          /\ output_frameno \in Nat /\ frames_processed \in Nat
      BY <1>1
    <2>4. limit \in Nat \cup {NoLimit}
      BY <1>1
    <2>5. is_flushing \in BOOLEAN
      BY <1>1
    <2>2. /\ opaque_q \subseteq Nat /\ t35_q \subseteq Nat /\ keyframes_forced \subseteq Nat
          /\ keyframes \subseteq Nat
      BY <1>1
    <2>3. /\ pc \in {"idle", "place", "flush", "remaining", "invariants"}
          /\ status \in {"Ok", "EnoughData", "NeedMoreData", "LimitReached", "NotReady",
                         "Encoded", "Packet"}
      BY <1>1
    <2> QED BY <1>2, <2>1, <2>2, <2>3, <2>4, <2>5 DEF TypeOK
  <1>4. HistoryInv
    <2>1. sent \in Seq(Params)
      BY <1>1
    <2>2. packets \in Seq(Range(packets))
      BY <1>1
    <2> QED BY <1>2, <2>1, <2>2 DEF HistoryInv
  <1>5. CallsInv
    BY <1>1, GroupFacts DEF CallsInv
  <1>6. QueueInv
    <2>1. 0 .. LastQueued = {} /\ 0 \in 0 .. frame_count
      BY <1>1 DEF LastQueued
    <2> QED BY <1>1, <1>2, <2>1 DEF QueueInv
  <1>7. ResidentInv
    <2>1. NextOut = 0 /\ 0 .. NextOut - 1 = {} /\ 0 \in 0 .. output_frameno
      BY <1>1 DEF NextOut
    <2> QED BY <1>1, <1>2, <2>1 DEF ResidentInv
  <1>8. PositionsInv
    BY <1>2 DEF PositionsInv
  <1>9. PacketsInv
    <2>1. Due(output_frameno) = 0 /\ 0 .. frame_count - 1 = {}
      BY <1>1 DEF Due
    <2> QED BY <1>1, <1>2, <2>1 DEF PacketsInv
  <1>10. KeyOutput /\ KeyframeIntervalRespected /\ FlushedInv /\ NeverStarvedAfterFlush
    BY <1>1, <1>2 DEF KeyOutput, KeyframeIntervalRespected, FlushedInv, NeverStarvedAfterFlush
  <1> QED BY <1>3, <1>4, <1>5, <1>6, <1>7, <1>8, <1>9, <1>10 DEF PipelineInv

\* Every step preserves the invariant.
LEMMA NextInv ==
  ASSUME MaxFrames < RcFrameLimit, PipelineInv, [Next]_vars
  PROVE  PipelineInv'
PROOF
  <1>1. ASSUME frame_count < MaxFrames, NEW params \in Params, SendFrame(params)
        PROVE  PipelineInv'
    BY <1>1, SendFrameInv
  <1>2. CASE SendFrameRefused
    BY <1>2, StatusInv DEF SendFrameRefused
  <1>3. CASE Flush
    BY <1>3, FlushInv
  <1>4. CASE FlushAgain
    BY <1>4, StatusInv DEF FlushAgain
  <1>5. CASE SendFrameReturns
    BY <1>5, PlaceKeyframeInv, StartRemainingInv, PlaceRemainingKeyframesInv, InvariantsDoneInv,
       BuildKeyFrameInv, BuildPlaceholderInv, BuildInterFrameInv DEF SendFrameReturns
  <1>6. ASSUME NEW ready \in RcReady, ReceivePacket(ready) PROVE PipelineInv'
    <2>1. ready \in BOOLEAN
      BY DEF RcReady
    <2> QED BY <1>6, <2>1, ReceiveRefusedInv, EncodeShowExistingInv, EncodeShownInv,
               EncodeHiddenInv DEF ReceivePacket
  <1>7. CASE UNCHANGED vars
    <2>1. /\ status' = status
          /\ UNCHANGED <<inputVars, frame_q, t35_q, lookVars, gopVars, frame_data,
                         next_lookahead_output_frameno, outputVars, pc>>
      BY <1>7 DEF vars
    <2> QED BY <2>1, StatusInv
  <1> QED BY <1>1, <1>2, <1>3, <1>4, <1>5, <1>6, <1>7 DEF Next

\* The pipeline keeps its books consistent: for every configuration, every
\* sequence of calls and every answer of the scene change detector, and for
\* fewer frames than rate control can count (Context::send_frame ends the
\* stream at that number, one frame too late).
THEOREM PipelineInvHolds ==
  ASSUME MaxFrames < RcFrameLimit PROVE Spec => []PipelineInv
PROOF
  <1>1. PipelineInv /\ [Next]_vars => PipelineInv'
    BY NextInv
  <1> QED BY <1>1, InitInv, PTL DEF Spec

\* The type invariant: every FrameData is well formed.
THEOREM TypeOKHolds == ASSUME MaxFrames < RcFrameLimit PROVE Spec => []TypeOK
PROOF
  <1>1. PipelineInv => TypeOK
    BY DEF PipelineInv
  <1> QED BY <1>1, PipelineInvHolds, PTL

\* Packets come out in display order, one per frame, whatever is re-ordered,
\* hidden, shown again or skipped (finalize_packet).
THEOREM InDisplayOrderHolds == ASSUME MaxFrames < RcFrameLimit PROVE Spec => []InDisplayOrder
PROOF
  <1>1. PipelineInv => InDisplayOrder
    BY DEF PipelineInv, PacketsInv, InDisplayOrder
  <1> QED BY <1>1, PipelineInvHolds, PTL

\* The opaque data of a packet is that of its own frame (opaque_q).
THEOREM OpaqueDeliveredHolds == ASSUME MaxFrames < RcFrameLimit PROVE Spec => []OpaqueDelivered
PROOF
  <1>1. PipelineInv => OpaqueDelivered
    BY DEF PipelineInv, PacketsInv, OpaqueDelivered
  <1> QED BY <1>1, PipelineInvHolds, PTL

\* A frame sent with FrameTypeOverride::Key comes out as a keyframe, however
\* it falls into a re-ordering group.
THEOREM ForcedKeyframesHonouredHolds ==
  ASSUME MaxFrames < RcFrameLimit PROVE Spec => []ForcedKeyframesHonoured
PROOF
  <1>1. PipelineInv => ForcedKeyframesHonoured
    BY DEF PipelineInv, PacketsInv, ForcedKeyframesHonoured
  <1> QED BY <1>1, PipelineInvHolds, PTL

\* Every packet is less than MaxKeyFrameInterval packets after a keyframe
\* (next_keyframe_input_frameno).
THEOREM KeyframeIntervalRespectedHolds ==
  ASSUME MaxFrames < RcFrameLimit PROVE Spec => []KeyframeIntervalRespected
PROOF
  <1>1. PipelineInv => KeyframeIntervalRespected
    BY DEF PipelineInv
  <1> QED BY <1>1, PipelineInvHolds, PTL

\* The keyframe decision about a frame has been taken when its
\* FrameInvariants are built (needs_more_frame_q_lookahead).
THEOREM DecidedBeforeBuiltHolds ==
  ASSUME MaxFrames < RcFrameLimit PROVE Spec => []DecidedBeforeBuilt
PROOF
  <1>1. ASSUME PipelineInv PROVE DecidedBeforeBuilt
    <2> SUFFICES ASSUME NEW n \in DOMAIN frame_data, IsFrame(frame_data[n])
                 PROVE  frame_data[n].input_frameno < next_lookahead_frame
      BY DEF DecidedBeforeBuilt
    <2>1. BuiltInv(n) /\ K(n) < next_lookahead_frame
      BY <1>1 DEF PipelineInv, PositionsInv, GopInv
    <2> QED BY <2>1 DEF BuiltInv, Built
  <1>2. PipelineInv => DecidedBeforeBuilt
    BY <1>1
  <1> QED BY <1>2, PipelineInvHolds, PTL

\* After flush() the encoder never asks for data again (receive_packet).
THEOREM NeverStarvedAfterFlushHolds ==
  ASSUME MaxFrames < RcFrameLimit PROVE Spec => []NeverStarvedAfterFlush
PROOF
  <1>1. PipelineInv => NeverStarvedAfterFlush
    BY DEF PipelineInv
  <1> QED BY <1>1, PipelineInvHolds, PTL

-----------------------------------------------------------------------------
(* The loop of send_frame ends *)

\* The first input frame of the group that position p is in.
FirstOfGroup(p, k) ==
  IF p = 0 THEN k ELSE k + 1 + group_input_len * ((p - 1) \div group_output_len)

\* The GOP of a position began after no more positions than the groups of all
\* frames before it have, and the group of the position has a frame.
LengthAt(n) ==
  /\ G(n) <= group_output_len * K(n)
  /\ FirstOfGroup(P(n), K(n)) < NextKey(K(n))
  /\ FirstOfGroup(P(n), K(n)) < frame_count
  /\ FirstOfGroup(P(n), K(n)) < next_lookahead_frame

LengthInv == NextOut > 0 => LengthAt(NextOut - 1)

\* A position is within the positions of the frames up to the first of its
\* group, which changes at the beginning of a group only.
LEMMA FirstFacts ==
  ASSUME NEW p \in Nat, NEW k \in Nat
  PROVE  /\ FirstOfGroup(p, k) \in Nat
         /\ group_output_len * k + p + 1 <= group_output_len * (FirstOfGroup(p, k) + 1)
         /\ p # 0 => FirstOfGroup(p, k) <= get_input_frameno(p, k)
         /\ p # 0 /\ (p - 1) % group_output_len # 0 =>
              p # 1 /\ FirstOfGroup(p, k) = FirstOfGroup(p - 1, k)
         /\ p # 0 /\ (p - 1) % group_output_len = 0 =>
              FirstOfGroup(p, k) = k + ShownUpTo(p - 1)
PROOF
  <1>1. CASE p = 0
    BY <1>1, GroupFacts DEF FirstOfGroup
  <1>2. CASE p # 0 /\ reorder /\ pyramid_depth = 2 /\ group_input_len = 4 /\ group_output_len = 6
    <2> DEFINE d == (p - 1) \div 6
               i == (p - 1) % 6
               e == (p - 2) \div 6
               j == (p - 2) % 6
    <2>1. d \in Nat /\ i \in 0 .. 5 /\ p - 1 = 6 * d + i
      BY <1>2
    <2>2. p # 1 => e \in Nat /\ j \in 0 .. 5 /\ p - 2 = 6 * e + j
      BY <1>2
    <2>3. FirstOfGroup(p, k) = k + 1 + 4 * d
      BY <1>2 DEF FirstOfGroup
    <2>4. p # 1 => FirstOfGroup(p - 1, k) = k + 1 + 4 * e
      <3>1. (p - 1) - 1 = p - 2 /\ (p - 1 = 0 <=> p = 1)
        BY <1>2
      <3> QED BY <1>2, <3>1 DEF FirstOfGroup
    <2>5. get_input_frameno(p, k) = k + 4 * d + (IF i < 2 THEN IF i = 0 THEN 4 ELSE 2 ELSE i - 1)
      BY <1>2, <2>1 DEF get_idx_in_group_output, get_input_frameno, get_order_hint
    <2>6. ShownUpTo(p - 1) = IF p = 1 THEN 1 ELSE 1 + 4 * e + (IF j >= 2 THEN j - 1 ELSE 0)
      <3>1. (p - 1) - 1 = p - 2 /\ (p - 1 = 0 <=> p = 1)
        BY <1>2
      <3> QED BY <1>2, <2>2, <3>1 DEF get_idx_in_group_output, ShownUpTo, get_show_frame
    <2>7. (p - 1) % group_output_len = i
      BY <1>2
    <2> HIDE DEF d, i, e, j
    <2>8. p # 1 => IF i = 0 THEN j = 5 /\ d = e + 1 ELSE j = i - 1 /\ d = e
      BY <1>2, <2>1, <2>2
    <2>9. p = 1 => i = 0 /\ d = 0
      BY <2>1
    <2>10. 6 * k + p + 1 <= 6 * (k + 1 + 4 * d + 1)
      BY <2>1
    <2> QED BY <1>2, <2>1, <2>2, <2>3, <2>4, <2>5, <2>6, <2>7, <2>8, <2>9, <2>10
  <1>3. CASE p # 0 /\ ~reorder /\ pyramid_depth = 0 /\ group_input_len = 1 /\ group_output_len = 1
    <2>1. (p - 1) \div 1 = p - 1 /\ (p - 1) % 1 = 0 /\ p - 1 \in Nat
      BY <1>3
    <2>2. FirstOfGroup(p, k) = k + p
      BY <1>3, <2>1 DEF FirstOfGroup
    <2>3. get_input_frameno(p, k) = k + p
      BY <1>3, <2>1 DEF get_idx_in_group_output, get_input_frameno, get_order_hint
    <2>4. get_show_frame(get_idx_in_group_output(p))
      BY <1>3, <2>1 DEF get_show_frame, get_idx_in_group_output
    <2>5. k + p = k + ShownUpTo(p - 1)
      BY <1>3, <2>3, <2>4, PositionFacts
    <2> QED BY <1>3, <2>1, <2>2, <2>3, <2>5
  <1> QED BY <1>1, <1>2, <1>3, GroupFacts

\* Before the beginning of a group every frame of the groups before is shown at
\* a position after which only later frames come.
LEMMA ShownAt ==
  ASSUME NEW p \in Nat \ {0}, NEW k \in Nat, NEW r \in Nat, reorder,
         (p - 1) % group_output_len = 0, r < ShownUpTo(p - 1)
  PROVE  \E s \in 0 .. p - 1 :
           /\ get_input_frameno(s, k) = k + r
           /\ \A q \in s + 1 .. p - 1 : get_input_frameno(q, k) > k + r
PROOF
  <1>1. reorder /\ pyramid_depth = 2 /\ group_input_len = 4 /\ group_output_len = 6
    BY GroupFacts
  <1>2. PICK d \in Nat : p - 1 = 6 * d
    <2>1. (p - 1) \div 6 \in Nat /\ p - 1 = 6 * ((p - 1) \div 6)
      BY <1>1
    <2> QED BY <2>1
  <1>3. r <= 4 * d
    <2>1. FirstOfGroup(p, k) = k + ShownUpTo(p - 1)
      BY FirstFacts
    <2>2. (p - 1) \div 6 = d
      BY <1>2
    <2>3. FirstOfGroup(p, k) = k + 1 + 4 * d
      BY <1>1, <2>2 DEF FirstOfGroup
    <2>4. ShownUpTo(p - 1) \in Nat
      BY PositionFacts
    <2> QED BY <2>1, <2>3, <2>4
  <1>4. ASSUME NEW q \in Nat \ {0}
        PROVE  \E f \in Nat, i \in 0 .. 5 :
                 /\ q - 1 = 6 * f + i
                 /\ get_input_frameno(q, k) =
                      k + 4 * f + (IF i < 2 THEN IF i = 0 THEN 4 ELSE 2 ELSE i - 1)
    <2> DEFINE f == (q - 1) \div 6
               i == (q - 1) % 6
    <2>1. f \in Nat /\ i \in 0 .. 5 /\ q - 1 = 6 * f + i
      OBVIOUS
    <2>2. get_input_frameno(q, k) =
            k + 4 * f + (IF i < 2 THEN IF i = 0 THEN 4 ELSE 2 ELSE i - 1)
      BY <1>1, <2>1 DEF get_idx_in_group_output, get_input_frameno, get_order_hint
    <2> HIDE DEF f, i
    <2> QED BY <2>1, <2>2
  <1>5. CASE r = 0
    <2>1. get_input_frameno(0, k) = k + r
      BY <1>5 DEF get_input_frameno
    <2>2. ASSUME NEW q \in 0 + 1 .. p - 1 PROVE get_input_frameno(q, k) > k + r
      <3>1. q \in Nat \ {0}
        BY <2>2
      <3>2. get_input_frameno(q, k) > k
        BY <3>1, PositionFacts
      <3> QED BY <1>5, <3>2
    <2>3. 0 \in 0 .. p - 1
      OBVIOUS
    <2> QED BY <2>1, <2>2, <2>3
  <1>6. CASE r # 0
    <2>1. PICK e \in Nat, o \in 0 .. 3 : r - 1 = 4 * e + o
      <3>1. (r - 1) \div 4 \in Nat /\ (r - 1) % 4 \in 0 .. 3
            /\ r - 1 = 4 * ((r - 1) \div 4) + ((r - 1) % 4)
        BY <1>6
      <3> QED BY <3>1
    <2>2. PICK s \in Nat \ {0} : s = 6 * e + o + 3
      OBVIOUS
    <2>3. s \in 0 .. p - 1
      BY <1>2, <1>3, <2>1, <2>2
    <2>4. get_input_frameno(s, k) = k + r
      <3>1. PICK f \in Nat, i \in 0 .. 5 :
              /\ s - 1 = 6 * f + i
              /\ get_input_frameno(s, k) =
                   k + 4 * f + (IF i < 2 THEN IF i = 0 THEN 4 ELSE 2 ELSE i - 1)
        BY <1>4
      <3>2. f = e /\ i = o + 2
        BY <2>1, <2>2, <3>1
      <3> QED BY <2>1, <3>1, <3>2
    <2>5. ASSUME NEW q \in s + 1 .. p - 1 PROVE get_input_frameno(q, k) > k + r
      <3>1. q \in Nat \ {0}
        BY <2>2, <2>5
      <3>2. PICK f \in Nat, i \in 0 .. 5 :
              /\ q - 1 = 6 * f + i
              /\ get_input_frameno(q, k) =
                   k + 4 * f + (IF i < 2 THEN IF i = 0 THEN 4 ELSE 2 ELSE i - 1)
        BY <1>4, <3>1
      <3>3. f > e \/ (f = e /\ i > o + 2)
        BY <2>1, <2>2, <2>5, <3>2
      <3> QED BY <2>1, <3>2, <3>3
    <2> QED BY <2>3, <2>4, <2>5
  <1> QED BY <1>5, <1>6

\* Once every frame before the next keyframe has been shown, the group is
\* complete: the last frame built is the one before the keyframe.
LEMMA ShownIsComplete ==
  ASSUME BuildInv, NextOut > 0, (InGop - 1) % group_output_len = 0,
         NextKeyframe <= GopIn + ShownUpTo(InGop - 1)
  PROVE  GopComplete
PROOF
  <1>1. CASE ~reorder
    BY <1>1 DEF GopComplete
  <1>2. CASE reorder
    <2>1. InGop \in Nat \ {0} /\ GopIn \in Nat /\ NextKeyframe \in Nat /\ NextKeyframe > GopIn
      BY GopFacts
    <2>2. ShownUpTo(InGop - 1) \in Nat
      BY <2>1, PositionFacts
    <2>3. PICK r \in Nat : NextKeyframe - 1 = GopIn + r /\ r < ShownUpTo(InGop - 1)
      <3>1. (NextKeyframe - 1) - GopIn \in Nat
        BY <2>1
      <3> QED BY <2>1, <2>2, <3>1
    <2>4. PICK s \in 0 .. InGop - 1 :
            /\ get_input_frameno(s, GopIn) = GopIn + r
            /\ \A j \in s + 1 .. InGop - 1 : get_input_frameno(j, GopIn) > GopIn + r
      BY <1>2, <2>1, <2>3, ShownAt
    <2>5. PICK q \in 0 .. InGop - 1 :
            /\ frame_data[PreviousFi(NextOut)].input_frameno = get_input_frameno(q, GopIn)
            /\ get_input_frameno(q, GopIn) < NextKeyframe
            /\ \A j \in q + 1 .. InGop - 1 : get_input_frameno(j, GopIn) >= NextKeyframe
      BY PreviousFacts
    <2>6. ~(s > q)
      <3> SUFFICES ASSUME s > q PROVE FALSE
        OBVIOUS
      <3>1. s \in q + 1 .. InGop - 1
        BY <2>1
      <3>2. get_input_frameno(s, GopIn) >= NextKeyframe
        BY <2>5, <3>1
      <3> QED BY <2>1, <2>3, <2>4, <3>2
    <2>7. ~(q > s)
      <3> SUFFICES ASSUME q > s PROVE FALSE
        OBVIOUS
      <3>1. q \in s + 1 .. InGop - 1
        BY <2>1
      <3>2. get_input_frameno(q, GopIn) > GopIn + r
        BY <2>4, <3>1
      <3>3. get_input_frameno(q, GopIn) \in Nat
        <4>1. q \in Nat \ {0}
          BY <3>1
        <4> QED BY <2>1, <4>1, PositionFacts
      <3> QED BY <2>1, <2>3, <2>5, <3>2, <3>3
    <2>8. q = s
      BY <2>1, <2>6, <2>7
    <2> QED BY <1>2, <2>3, <2>4, <2>5, <2>8 DEF GopComplete
  <1> QED BY <1>1, <1>2

\* What is known of the last position built.
LEMMA LengthFacts ==
  ASSUME PipelineInv, LengthInv, NextOut > 0
  PROVE  LET first == FirstOfGroup(InGop - 1, GopIn)
         IN /\ NextOut \in Nat /\ first \in Nat
            /\ GopOut <= group_output_len * GopIn
            /\ first < NextKeyframe /\ first < frame_count /\ first < next_lookahead_frame
            /\ group_output_len \in Nat \ {0}
            /\ group_output_len * (first + 1) \in Nat
            /\ NextOut <= group_output_len * (first + 1)
PROOF
  <1> DEFINE first == FirstOfGroup(InGop - 1, GopIn)
  <1>1. BuildInv /\ NextOut \in Nat
    BY DEF PipelineInv, BuildInv, TypeOK, NextOut
  <1>2. /\ GopOut = G(NextOut - 1) /\ GopIn = K(NextOut - 1) /\ P(NextOut - 1) = InGop - 1
        /\ GopOut \in 0 .. NextOut - 1 /\ GopIn \in Nat /\ InGop \in Nat \ {0}
        /\ NextKeyframe = NextKey(GopIn)
    BY <1>1, GopFacts
  <1>3. LengthAt(NextOut - 1)
    BY DEF LengthInv
  <1>4. /\ GopOut <= group_output_len * GopIn
        /\ first < NextKeyframe /\ first < frame_count /\ first < next_lookahead_frame
    BY <1>2, <1>3 DEF LengthAt
  <1>5. group_output_len \in Nat \ {0}
    BY GroupFacts
  <1>6. InGop - 1 \in Nat
    BY <1>2
  <1>7. /\ first \in Nat
        /\ group_output_len * GopIn + (InGop - 1) + 1 <= group_output_len * (first + 1)
    BY <1>2, <1>6, FirstFacts
  <1> HIDE DEF first
  <1>8. NextOut = GopOut + InGop
    BY <1>1, <1>2 DEF InGop
  <1>9. group_output_len * (first + 1) \in Nat /\ group_output_len * GopIn \in Nat
    BY <1>2, <1>7, GroupFacts
  <1>10. NextOut <= group_output_len * (first + 1)
    BY <1>1, <1>2, <1>4, <1>7, <1>8, <1>9
  <1> QED BY <1>1, <1>4, <1>5, <1>7, <1>9, <1>10 DEF first

\* A larger number of frames has more positions.
LEMMA PositionsGrow ==
  ASSUME NEW a \in Nat, NEW b \in Nat, a <= b
  PROVE  group_output_len * a <= group_output_len * b
PROOF
  BY GroupFacts

\* A step that builds nothing keeps this.
LEMMA LengthKept ==
  ASSUME PipelineInv, LengthInv, KeysStep, NextOut' = NextOut,
         frame_count <= frame_count', next_lookahead_frame <= next_lookahead_frame',
         frame_count' \in Nat, next_lookahead_frame' \in Nat,
         NextOut > 0 =>
           /\ gop_output_frameno_start'[NextOut - 1] = gop_output_frameno_start[NextOut - 1]
           /\ gop_input_frameno_start'[NextOut - 1] = gop_input_frameno_start[NextOut - 1]
  PROVE  LengthInv'
PROOF
  <1> SUFFICES ASSUME NextOut > 0 PROVE LengthAt(NextOut - 1)'
    BY DEF LengthInv
  <1>1. PICK N : N = NextOut - 1 /\ N = NextOut' - 1
    OBVIOUS
  <1>2. TypeOK /\ ResidentInv /\ PositionsInv /\ frame_count \in Nat /\ next_lookahead_frame \in Nat
    BY DEF PipelineInv, TypeOK
  <1>3. LengthAt(N) /\ GopInv(N) /\ N \in Nat
    <2>1. N \in DOMAIN frame_data
      BY <1>1, <1>2, LastResident
    <2> QED BY <1>1, <1>2, <2>1 DEF LengthInv, PositionsInv, TypeOK
  <1>4. G(N)' = G(N) /\ K(N)' = K(N)
    BY <1>1 DEF G, K
  <1>5. P(N)' = P(N)
    BY <1>4 DEF P
  <1>6. P(N) \in Nat /\ K(N) \in Nat
    BY <1>3 DEF GopInv, P
  <1>7. PICK k \in Nat, f \in Nat :
          /\ k = K(N) /\ f = FirstOfGroup(P(N), K(N)) /\ f = FirstOfGroup(P(N), K(N))'
    <2>1. FirstOfGroup(P(N), K(N)) \in Nat
      BY <1>6, FirstFacts
    <2>2. FirstOfGroup(P(N), K(N))' = FirstOfGroup(P(N), K(N))
      BY <1>4, <1>5 DEF FirstOfGroup
    <2> QED BY <1>6, <2>1, <2>2
  <1>8. NextKey(K(N)) = NextKey(k) /\ NextKey(K(N))' = NextKey(k)'
    <2>1. K(N)' = k
      BY <1>4, <1>7
    <2> QED BY <1>7, <2>1 DEF NextKey, next_keyframe_input_frameno
  <1>9. /\ NextKey(k) \in Nat /\ NextKey(k)' \in Nat
        /\ \A x \in Nat : x <= frame_count /\ x <= next_lookahead_frame
                            /\ x <= NextKey(k) => x <= NextKey(k)'
    BY DEF KeysStep
  <1>10. f < NextKey(k) /\ f < frame_count /\ f < next_lookahead_frame
    BY <1>3, <1>7, <1>8 DEF LengthAt
  <1>11. f + 1 <= NextKey(k)'
    <2>1. f + 1 \in Nat /\ f + 1 <= NextKey(k) /\ f + 1 <= frame_count
          /\ f + 1 <= next_lookahead_frame
      BY <1>2, <1>9, <1>10
    <2> QED BY <1>9, <2>1
  <1>12. f < NextKey(k)' /\ f < frame_count' /\ f < next_lookahead_frame'
    BY <1>2, <1>9, <1>10, <1>11
  <1>13. G(N) <= group_output_len * K(N)
    BY <1>3 DEF LengthAt
  <1>14. LengthAt(N)'
    BY <1>4, <1>7, <1>8, <1>12, <1>13 DEF LengthAt
  <1> QED BY <1>1, <1>14 DEF LengthAt, FirstOfGroup, P, G, K, NextKey, next_keyframe_input_frameno

\* A position that is built.
LEMMA LengthBuilt ==
  ASSUME PipelineInv, BuildsFrame, NEW fd, NEW g \in 0 .. NextOut, NEW k \in Nat,
         InsertGop(g, k), InsertFrameData(fd), g <= group_output_len * k,
         FirstOfGroup(NextOut - g, k) < NextKey(k),
         FirstOfGroup(NextOut - g, k) < frame_count,
         FirstOfGroup(NextOut - g, k) < next_lookahead_frame
  PROVE  LengthInv'
PROOF
  <1>1. PICK N \in Nat : N = NextOut
    BY DEF PipelineInv, TypeOK, NextOut
  <1>2. /\ NextOut' = N + 1
        /\ UNCHANGED <<keyframes, limit, frame_count, next_lookahead_frame>>
    BY <1>1 DEF InsertFrameData, inputVars, lookVars, NextOut
  <1>3. G(N)' = g /\ K(N)' = k
    BY <1>1 DEF InsertGop, Insert, G, K
  <1>4. P(N)' = N - g
    BY <1>3 DEF P
  <1>5. NextKey(K(N))' = NextKey(k)
    <2>1. NextKey(K(N))' = NextKey(k)'
      BY <1>3 DEF NextKey, next_keyframe_input_frameno
    <2>2. NextKey(k)' = NextKey(k)
      BY <1>2, NextKeyDef, NextKeyDefNext
    <2> QED BY <2>1, <2>2
  <1>6. FirstOfGroup(P(N), K(N))' = FirstOfGroup(N - g, k)
    BY <1>3, <1>4 DEF FirstOfGroup
  <1>7. LengthAt(N)'
    BY <1>1, <1>2, <1>3, <1>5, <1>6 DEF LengthAt
  <1>8. NextOut' - 1 = N
    BY <1>2
  <1> QED BY <1>7, <1>8 DEF LengthInv, LengthAt, FirstOfGroup, P, G, K, NextKey,
                            next_keyframe_input_frameno

\* A new GOP begins with the frame that is due, and after no more positions
\* than the frames before it have.
LEMMA LengthKeyFrame == PipelineInv /\ LengthInv /\ BuildKeyFrame => LengthInv'
PROOF
  <1> SUFFICES ASSUME PipelineInv, LengthInv, BuildKeyFrame PROVE LengthInv'
    OBVIOUS
  <1>1. /\ BuildsFrame /\ StartsGop /\ InsertGop(NextOut, KeyInput)
        /\ InsertFrameData(KeyFrameData(NextOut, KeyInput, T35Taken))
    BY DEF BuildKeyFrame
  <1>2. /\ TypeOK /\ CallsInv /\ BuildInv /\ NextOut \in Nat /\ frame_count \in Nat
        /\ next_lookahead_frame \in Nat \ {0} /\ WantedInput \in Nat
        /\ \A n : HasFrame(n) => n \in Nat /\ n < frame_count
        /\ WantedInput < next_lookahead_frame \/ frame_count <= next_lookahead_frame
        /\ NextOut = 0 => KeyInput = 0
    BY <1>1, BuildFacts DEF PipelineInv
  <1>3. PICK k \in Nat : k = KeyInput /\ k < frame_count
    BY <1>1, <1>2 DEF BuildsFrame, SourceMissing
  <1>4. NextOut <= group_output_len * k /\ k < next_lookahead_frame
    <2>1. CASE NextOut = 0
      <3>1. k = 0 /\ group_output_len * 0 = 0
        BY <1>2, <1>3, <2>1, GroupFacts
      <3> QED BY <1>2, <2>1, <3>1
    <2>2. CASE NextOut > 0
      <3>1. k = NextKeyframe /\ WantedInput >= k
        BY <1>1, <1>2, <1>3, <2>2, StartsGopFacts
      <3>2. PICK f \in Nat : /\ f < NextKeyframe /\ NextOut <= group_output_len * (f + 1)
                             /\ group_output_len * (f + 1) \in Nat
        BY <2>2, LengthFacts
      <3>3. group_output_len * (f + 1) <= group_output_len * k
        <4>1. f + 1 \in Nat /\ f + 1 <= k
          BY <1>3, <3>1, <3>2
        <4> QED BY <1>3, <4>1, PositionsGrow
      <3>4. group_output_len * k \in Nat
        BY <1>3, GroupFacts
      <3>5. NextOut <= group_output_len * k
        BY <1>2, <3>2, <3>3, <3>4
      <3>6. k < next_lookahead_frame
        BY <1>2, <1>3, <3>1
      <3> QED BY <3>5, <3>6
    <2> QED BY <1>2, <2>1, <2>2
  <1>5. NextKey(k) > k
    BY <1>2, <1>3, NextKeyBounds DEF CallsInv
  <1>6. NextOut - NextOut = 0 /\ NextOut \in 0 .. NextOut
    BY <1>2
  <1>7. FirstOfGroup(NextOut - NextOut, k) = k
    BY <1>6 DEF FirstOfGroup
  <1>8. NextKey(k) \in Nat
    BY <1>2, NextKeyBounds
  <1>9. k < NextKey(k)
    BY <1>5, <1>8
  <1> QED BY <1>1, <1>3, <1>4, <1>6, <1>7, <1>9, LengthBuilt

\* A frame of a group is not before the first one.
LEMMA LengthInterFrame == PipelineInv /\ LengthInv /\ BuildInterFrame => LengthInv'
PROOF
  <1> SUFFICES ASSUME PipelineInv, LengthInv, BuildInterFrame PROVE LengthInv'
    OBVIOUS
  <1>1. PICK fd : /\ BuildsFrame /\ ~StartsGop /\ ~PastKeyframe
                  /\ InsertGop(GopOut, GopIn) /\ InsertFrameData(fd)
    BY DEF BuildInterFrame
  <1>2. /\ BuildInv /\ NextOut \in Nat /\ frame_count \in Nat /\ next_lookahead_frame \in Nat \ {0}
        /\ NextOut > 0
        /\ \A n : HasFrame(n) => n \in Nat /\ n < frame_count
        /\ WantedInput < frame_count => WantedInput < next_lookahead_frame
    BY <1>1, BuildFacts
  <1>3. /\ GopOut \in 0 .. NextOut - 1 /\ GopIn \in Nat /\ InGop \in Nat \ {0}
        /\ WantedInput \in Nat /\ NextKeyframe = NextKey(GopIn) /\ NextKeyframe \in Nat
    BY <1>2, GopFacts
  <1>4. /\ WantedInput < NextKeyframe /\ WantedInput < frame_count
        /\ WantedInput < next_lookahead_frame
    BY <1>1, <1>2, <1>3, StartsGopFacts DEF BuildsFrame, SourceMissing
  <1>5. FirstOfGroup(InGop, GopIn) \in Nat /\ FirstOfGroup(InGop, GopIn) <= WantedInput
    BY <1>3, FirstFacts DEF WantedInput
  <1>6. NextOut - GopOut = InGop
    BY DEF InGop
  <1>7. GopOut <= group_output_len * GopIn
    BY <1>2, LengthFacts
  <1>8. /\ FirstOfGroup(InGop, GopIn) < NextKey(GopIn)
        /\ FirstOfGroup(InGop, GopIn) < frame_count
        /\ FirstOfGroup(InGop, GopIn) < next_lookahead_frame
    BY <1>2, <1>3, <1>4, <1>5
  <1>9. GopOut \in 0 .. NextOut
    BY <1>2, <1>3
  <1> QED BY <1>1, <1>3, <1>6, <1>7, <1>8, <1>9, LengthBuilt

\* A position is skipped within a group that has a frame: at the beginning of
\* one that has none the GOP would be complete.
LEMMA LengthPlaceholder == PipelineInv /\ LengthInv /\ BuildPlaceholder => LengthInv'
PROOF
  <1> SUFFICES ASSUME PipelineInv, LengthInv, BuildPlaceholder PROVE LengthInv'
    OBVIOUS
  <1>1. /\ BuildsFrame /\ ~StartsGop /\ PastKeyframe /\ InsertGop(GopOut, GopIn)
        /\ InsertFrameData(Placeholder)
    BY DEF BuildPlaceholder
  <1>2. /\ BuildInv /\ NextOut \in Nat /\ frame_count \in Nat /\ next_lookahead_frame \in Nat \ {0}
        /\ NextOut > 0
    BY <1>1, BuildFacts
  <1>3. /\ GopOut \in 0 .. NextOut - 1 /\ GopIn \in Nat /\ InGop \in Nat \ {0}
        /\ NextKeyframe = NextKey(GopIn) /\ NextKeyframe \in Nat
        /\ Due(NextOut) = Least(GopIn + ShownUpTo(InGop - 1), NextKeyframe)
        /\ Due(NextOut) <= frame_count /\ Due(NextOut) <= next_lookahead_frame
    BY <1>2, GopFacts
  <1>4. ~GopComplete
    BY <1>1 DEF StartsGop
  <1> DEFINE first == FirstOfGroup(InGop, GopIn)
             last == FirstOfGroup(InGop - 1, GopIn)
  <1>5. /\ last \in Nat /\ last < NextKeyframe /\ last < frame_count
        /\ last < next_lookahead_frame /\ GopOut <= group_output_len * GopIn
    BY <1>2, LengthFacts
  <1>6. first \in Nat
    BY <1>3, FirstFacts
  <1>7. /\ WantedInput \in Nat /\ WantedInput >= NextKeyframe
        /\ WantedInput < next_lookahead_frame \/ frame_count <= next_lookahead_frame
    BY <1>1, <1>2, BuildFacts, StartsGopFacts
  <1>8. first < NextKeyframe /\ first < frame_count /\ first < next_lookahead_frame
    <2>1. CASE (InGop - 1) % group_output_len # 0
      <3>1. first = last
        BY <1>3, <2>1, FirstFacts
      <3> QED BY <1>5, <3>1
    <2>2. CASE (InGop - 1) % group_output_len = 0
      <3>1. first = GopIn + ShownUpTo(InGop - 1)
        BY <1>3, <2>2, FirstFacts
      <3>2. ~(NextKeyframe <= first)
        BY <1>2, <1>4, <2>2, <3>1, ShownIsComplete
      <3> HIDE DEF first
      <3>3. first < NextKeyframe
        BY <1>3, <1>6, <3>2
      <3>4. first < frame_count
        <4>1. CASE is_flushing
          <5>1. limit = frame_count /\ NextKeyframe <= limit
            BY <1>2, <1>3, <4>1, NextKeyBounds DEF BuildInv, CallsInv, NoLimit
          <5> QED BY <1>2, <1>3, <1>6, <3>3, <5>1
        <4>2. CASE ~is_flushing
          <5>1. limit = NoLimit
                /\ lookahead_end = IF frame_count = 0 THEN 0 ELSE frame_count - 1
            BY <1>2, <4>2, QueueFacts DEF BuildInv, CallsInv
          <5>2. ~(lookahead_end < WantedInput + (group_input_len + 1) + 1)
            BY <1>1, <5>1 DEF BuildsFrame, needs_more_frame_q_lookahead, needs_more_frames,
                              keyframe_lookahead_distance
          <5>3. group_input_len \in Nat
            BY GroupFacts
          <5>4. WantedInput < frame_count
            BY <1>2, <1>7, <5>1, <5>2, <5>3
          <5> QED BY <1>2, <1>3, <1>6, <1>7, <3>3, <5>4
        <4> QED BY <4>1, <4>2
      <3>5. first < next_lookahead_frame
        BY <1>2, <1>3, <1>6, <1>7, <3>3, <3>4
      <3> QED BY <3>3, <3>4, <3>5
    <2> QED BY <2>1, <2>2
  <1>9. NextOut - GopOut = InGop
    BY DEF InGop
  <1>10. GopOut \in 0 .. NextOut
    BY <1>2, <1>3
  <1> QED BY <1>1, <1>3, <1>5, <1>8, <1>9, <1>10, LengthBuilt

\* Every step of the pipeline.
LEMMA LengthNext ==
  ASSUME MaxFrames < RcFrameLimit, PipelineInv, LengthInv, [Next]_vars
  PROVE  LengthInv'
PROOF
  <1>1. TypeOK /\ CallsInv /\ frame_count \in Nat /\ next_lookahead_frame \in Nat
    BY DEF PipelineInv, TypeOK
  <1>2. ASSUME UNCHANGED <<next_lookahead_output_frameno, gopVars>>,
               keyframes' = keyframes \/ keyframes' = keyframes \cup {next_lookahead_frame},
               limit' = limit \/ (limit = NoLimit /\ limit' = frame_count),
               frame_count' \in {frame_count, frame_count + 1},
               next_lookahead_frame' \in {next_lookahead_frame, next_lookahead_frame + 1}
        PROVE  LengthInv'
    <2>1. KeysStep
      BY <1>1, <1>2, KeysStepFacts
    <2>2. /\ NextOut' = NextOut
          /\ UNCHANGED <<gop_output_frameno_start, gop_input_frameno_start>>
      BY <1>2 DEF NextOut, gopVars
    <2>3. /\ frame_count <= frame_count' /\ frame_count' \in Nat
          /\ next_lookahead_frame <= next_lookahead_frame' /\ next_lookahead_frame' \in Nat
      BY <1>1, <1>2
    <2> QED BY <2>1, <2>2, <2>3, LengthKept
  <1>3. ASSUME frame_count < MaxFrames, NEW params \in Params, SendFrame(params)
        PROVE  LengthInv'
    <2>1. frame_count # RcFrameLimit - 1
      BY <1>1, <1>3, PipelineAssumption
    <2>2. /\ UNCHANGED <<next_lookahead_output_frameno, gopVars>>
          /\ keyframes' = keyframes /\ limit' = limit /\ frame_count' = frame_count + 1
          /\ next_lookahead_frame' = next_lookahead_frame
      BY <1>3, <2>1 DEF SendFrame, QueueFrame, lookVars
    <2> QED BY <1>2, <2>2
  <1>4. CASE SendFrameRefused \/ FlushAgain \/ UNCHANGED vars
    <2>1. UNCHANGED <<inputVars, lookVars, next_lookahead_output_frameno, gopVars>>
      BY <1>4 DEF SendFrameRefused, FlushAgain, vars
    <2> QED BY <1>2, <2>1 DEF inputVars, lookVars
  <1>5. CASE Flush
    <2>1. limit = NoLimit
      BY <1>1, <1>5 DEF Flush, CallsInv
    <2>2. /\ UNCHANGED <<next_lookahead_output_frameno, gopVars>>
          /\ keyframes' = keyframes /\ limit' = frame_count /\ frame_count' = frame_count
          /\ next_lookahead_frame' = next_lookahead_frame
      BY <1>5 DEF Flush, QueueNone, lookVars
    <2> QED BY <1>2, <2>1, <2>2
  <1>6. CASE PlaceKeyframe \/ StartRemaining \/ PlaceRemainingKeyframes
    <2>1. /\ UNCHANGED <<inputVars, next_lookahead_output_frameno, gopVars>>
          /\ compute_keyframe_placement \/ UNCHANGED lookVars
      BY <1>6 DEF PlaceKeyframe, StartRemaining, PlaceRemainingKeyframes
    <2>2. /\ keyframes' = keyframes \/ keyframes' = keyframes \cup {next_lookahead_frame}
          /\ next_lookahead_frame' \in {next_lookahead_frame, next_lookahead_frame + 1}
      BY <2>1, PlacementFacts DEF lookVars
    <2> QED BY <1>2, <2>1, <2>2 DEF inputVars
  <1>7. CASE InvariantsDone
    <2>1. /\ UNCHANGED <<inputVars, lookVars, next_lookahead_output_frameno>>
          /\ InsertGop(GopOut, GopIn)
      BY <1>7 DEF InvariantsDone
    <2>2. KeysStep
      BY <1>1, <2>1, KeysStepFacts DEF inputVars, lookVars
    <2>3. NextOut' = NextOut
      BY <2>1 DEF NextOut
    <2>4. ASSUME NextOut > 0
          PROVE  /\ gop_output_frameno_start'[NextOut - 1] = gop_output_frameno_start[NextOut - 1]
                 /\ gop_input_frameno_start'[NextOut - 1] = gop_input_frameno_start[NextOut - 1]
      <3>1. PICK n \in Nat : n = NextOut - 1 /\ n # NextOut
        BY <2>4 DEF PipelineInv, TypeOK, NextOut
      <3>2. n \in DOMAIN gop_output_frameno_start /\ n \in DOMAIN gop_input_frameno_start
        BY <2>4, <3>1, LastResident DEF PipelineInv, ResidentInv
      <3>3. gop_output_frameno_start'[n] = gop_output_frameno_start[n]
        BY <2>1, <3>1, <3>2 DEF InsertGop, Insert
      <3>4. gop_input_frameno_start'[n] = gop_input_frameno_start[n]
        BY <2>1, <3>1, <3>2 DEF InsertGop, Insert
      <3> QED BY <3>1, <3>3, <3>4
    <2>5. UNCHANGED <<frame_count, next_lookahead_frame>>
      BY <2>1 DEF inputVars, lookVars
    <2>6. /\ frame_count <= frame_count' /\ frame_count' \in Nat
          /\ next_lookahead_frame <= next_lookahead_frame' /\ next_lookahead_frame' \in Nat
      BY <1>1, <2>5
    <2> QED BY <2>2, <2>3, <2>4, <2>6, LengthKept
  <1>8. CASE BuildKeyFrame \/ BuildPlaceholder \/ BuildInterFrame
    BY <1>8, LengthKeyFrame, LengthPlaceholder, LengthInterFrame
  <1>9. ASSUME NEW ready \in RcReady, ReceiveRefused(ready) \/ EncodeHidden(ready)
        PROVE  LengthInv'
    <2>1. UNCHANGED <<inputVars, lookVars, next_lookahead_output_frameno, gopVars>>
      BY <1>9 DEF ReceiveRefused, EncodeHidden
    <2> QED BY <1>2, <2>1 DEF inputVars, lookVars
  <1>10. ASSUME NEW ready \in RcReady, EncodeShown(ready) \/ EncodeShowExisting(ready)
         PROVE  LengthInv'
    <2>1. /\ UNCHANGED <<frame_count, limit, lookVars, next_lookahead_output_frameno>>
          /\ Refusal(ready) = "no" /\ output_frameno' = Current + 1
      BY <1>10 DEF EncodeShown, EncodeShowExisting
    <2>2. PICK fds : /\ GarbageCollectOutput(frame_data[Current].input_frameno, fds)
                     /\ DOMAIN fds = DOMAIN frame_data
      <3>1. DOMAIN AfterEncode(Current) = DOMAIN frame_data
        BY DEF AfterEncode
      <3> QED BY <1>10, <3>1 DEF EncodeShown, EncodeShowExisting, EmitPacket
    <2>3. NextFrames # {} /\ ResidentInv
      BY <2>1, EncodesFacts DEF PipelineInv
    <2>4. PICK c \in Nat, N \in Nat : c = Current /\ N = NextOut /\ c < N /\ c >= output_frameno
      <3>1. Current \in output_frameno .. NextOut - 1 /\ Current \in Nat
        BY <2>3, CurrentFacts
      <3>2. NextOut \in Nat /\ output_frameno \in Nat
        BY <1>1 DEF TypeOK, NextOut
      <3> QED BY <3>1, <3>2
    <2>5. PICK i \in Nat : i = frame_data[c].input_frameno
      BY <2>3, <2>4, OutputFacts
    <2>6. PICK lo \in 0 .. c : DOMAIN frame_data = lo .. N - 1
      <3>1. PICK l \in 0 .. output_frameno :
              (output_frameno > 0 => l < output_frameno) /\ DOMAIN frame_data = l .. NextOut - 1
        BY <2>3 DEF ResidentInv
      <3>2. output_frameno \in Nat
        BY <1>1 DEF TypeOK
      <3> QED BY <2>4, <3>1, <3>2
    <2>7. /\ \E l \in lo .. c : DOMAIN frame_data' = l .. N - 1
          /\ \A n \in DOMAIN gop_output_frameno_start' :
               gop_output_frameno_start'[n] = gop_output_frameno_start[n]
          /\ \A n \in DOMAIN gop_input_frameno_start' :
               gop_input_frameno_start'[n] = gop_input_frameno_start[n]
          /\ \A n \in DOMAIN frame_data' :
               /\ n \in DOMAIN gop_output_frameno_start => n \in DOMAIN gop_output_frameno_start'
               /\ n \in DOMAIN gop_input_frameno_start => n \in DOMAIN gop_input_frameno_start'
      BY <2>1, <2>2, <2>4, <2>5, <2>6, CollectFacts
    <2>8. N - 1 \in DOMAIN frame_data' /\ N - 1 \in DOMAIN frame_data
      BY <2>4, <2>6, <2>7
    <2>9. /\ N - 1 \in DOMAIN gop_output_frameno_start'
          /\ N - 1 \in DOMAIN gop_input_frameno_start'
      BY <2>3, <2>7, <2>8 DEF ResidentInv
    <2>10. /\ gop_output_frameno_start'[NextOut - 1] = gop_output_frameno_start[NextOut - 1]
           /\ gop_input_frameno_start'[NextOut - 1] = gop_input_frameno_start[NextOut - 1]
      BY <2>4, <2>7, <2>9
    <2>11. KeysStep
      BY <1>1, <2>1, KeysStepFacts DEF lookVars
    <2>12. /\ NextOut' = NextOut
           /\ frame_count <= frame_count' /\ frame_count' \in Nat
           /\ next_lookahead_frame <= next_lookahead_frame' /\ next_lookahead_frame' \in Nat
      BY <1>1, <2>1 DEF lookVars, NextOut
    <2> QED BY <2>10, <2>11, <2>12, LengthKept
  <1>11. ASSUME NEW ready \in RcReady, ReceivePacket(ready) PROVE LengthInv'
    BY <1>9, <1>10, <1>11 DEF ReceivePacket
  <1> QED BY <1>3, <1>4, <1>5, <1>6, <1>7, <1>8, <1>11 DEF Next, SendFrameReturns

\* The loop of send_frame ends: it is never further than the positions of the
\* frames that were sent need (compute_frame_invariants), whatever cuts are
\* found and wherever the stream ends.
THEOREM LookaheadEndsHolds ==
  ASSUME MaxFrames < RcFrameLimit PROVE Spec => []LookaheadEnds
PROOF
  <1>1. Init => LengthInv
    BY DEF Init, InitWithLimit, LengthInv, NextOut
  <1>2. PipelineInv /\ LengthInv /\ [Next]_vars => LengthInv'
    BY LengthNext
  <1>3. PipelineInv /\ LengthInv => LookaheadEnds
    <2> SUFFICES ASSUME PipelineInv, LengthInv PROVE LookaheadEnds
      OBVIOUS
    <2>1. NextOut \in Nat /\ frame_count \in Nat /\ group_output_len * frame_count \in Nat
      BY GroupFacts DEF PipelineInv, TypeOK, NextOut
    <2>2. CASE NextOut = 0
      BY <2>1, <2>2 DEF LookaheadEnds, NextOut
    <2>3. CASE NextOut > 0
      <3>1. PICK f \in Nat : /\ f < frame_count /\ NextOut <= group_output_len * (f + 1)
                             /\ group_output_len * (f + 1) \in Nat
        BY <2>3, LengthFacts
      <3>2. group_output_len * (f + 1) <= group_output_len * frame_count
        <4>1. f + 1 \in Nat /\ f + 1 <= frame_count
          BY <2>1, <3>1
        <4> QED BY <2>1, <4>1, PositionsGrow
      <3>3. NextOut <= group_output_len * frame_count
        BY <2>1, <3>1, <3>2
      <3> QED BY <3>3 DEF LookaheadEnds, NextOut
    <2> QED BY <2>1, <2>2, <2>3
  <1> QED BY <1>1, <1>2, <1>3, PipelineInvHolds, PTL DEF Spec

-----------------------------------------------------------------------------
(* The frame service *)

\* The frame numbers of the packets, as the service sees them.
delivered == [i \in DOMAIN packets |-> packets[i].input_frameno]

\* They are the frame numbers from 0 on.
LEMMA DeliveredFacts ==
  ASSUME PipelineInv
  PROVE  /\ delivered = [i \in 1 .. Len(packets) |-> i - 1]
         /\ delivered \in Seq(Nat) /\ Len(delivered) = Len(packets)
         /\ DOMAIN packets = 1 .. Len(packets)
PROOF
  <1>1. packets \in Seq(Range(packets)) /\ Len(packets) \in Nat
    BY DEF PipelineInv, HistoryInv
  <1>2. DOMAIN packets = 1 .. Len(packets)
    BY <1>1
  <1>3. \A i \in DOMAIN packets : packets[i].input_frameno = i - 1
    BY DEF PipelineInv, PacketsInv
  <1> DEFINE L == Len(packets)
  <1>4. delivered = [i \in 1 .. L |-> i - 1]
    BY <1>2, <1>3 DEF delivered
  <1> HIDE DEF L
  <1>5. L \in Nat
    BY <1>1 DEF L
  <1>6. delivered \in [1 .. L -> Nat]
    BY <1>4, <1>5
  <1>7. delivered \in Seq(Nat) /\ Len(delivered) = L
    BY <1>5, <1>6
  <1> QED BY <1>2, <1>4, <1>7 DEF L

\* A step of the pipeline accepts a frame, closes the stream, delivers the
\* frame that is due, or does none of these.
LEMMA ServiceStep ==
  ASSUME MaxFrames < RcFrameLimit, PipelineInv, [Next]_vars
  PROVE  [Service!Next]_(Service!vars)
PROOF
  <1>0. PipelineInv'
    BY NextInv
  <1>1. UNCHANGED <<frame_count, is_flushing, packets>> => UNCHANGED Service!vars
    BY DEF Service!vars
  <1>2. ASSUME frame_count < MaxFrames, NEW params \in Params, SendFrame(params)
        PROVE  Service!Submit
    <2>1. frame_count \in Nat /\ MaxFrames \in Nat /\ RcFrameLimit \in Nat
      BY PipelineAssumption DEF PipelineInv, TypeOK
    <2>2. frame_count # RcFrameLimit - 1
      BY <1>2, <2>1
    <2> QED BY <1>2, <2>2 DEF SendFrame, QueueFrame, RefusesFrame, outputVars, Service!Submit
  <1>3. CASE SendFrameRefused
    BY <1>1, <1>3 DEF SendFrameRefused, inputVars, outputVars
  <1>4. CASE Flush
    <2>1. Service!Close
      BY <1>4 DEF Flush, QueueNone, outputVars, Service!Close
    <2> QED BY <2>1 DEF Service!Next
  <1>5. CASE FlushAgain
    BY <1>1, <1>5 DEF FlushAgain, inputVars, outputVars
  <1>6. CASE SendFrameReturns
    <2>1. UNCHANGED <<inputVars, outputVars>>
      BY <1>6 DEF SendFrameReturns, PlaceKeyframe, StartRemaining, PlaceRemainingKeyframes,
                  InvariantsDone, BuildKeyFrame, BuildPlaceholder, BuildInterFrame,
                  InsertFrameData
    <2> QED BY <1>1, <2>1 DEF inputVars, outputVars
  <1>7. ASSUME NEW ready \in RcReady, ReceivePacket(ready)
        PROVE  [Service!Next]_(Service!vars)
    <2>1. CASE ReceiveRefused(ready) \/ EncodeHidden(ready)
      BY <1>1, <2>1 DEF ReceiveRefused, EncodeHidden, inputVars
    <2>2. CASE EncodeShowExisting(ready) \/ EncodeShown(ready)
      <3>1. /\ UNCHANGED <<frame_count, is_flushing>>
            /\ \E x : packets' = Append(packets, x)
        BY <2>2 DEF EncodeShowExisting, EncodeShown, EmitPacket
      <3> DEFINE L == Len(packets)
      <3>2. L \in Nat /\ packets \in Seq(Range(packets)) /\ frame_count \in Nat
        BY DEF PipelineInv, HistoryInv, TypeOK
      <3>3. Len(packets') = L + 1
        BY <3>1, <3>2, AppendFacts
      <3>4. /\ delivered = [i \in 1 .. L |-> i - 1] /\ delivered \in Seq(Nat)
            /\ Len(delivered) = L
        BY DeliveredFacts
      <3>5. delivered' = [i \in 1 .. L + 1 |-> i - 1]
        <4>1. \A i \in DOMAIN packets' : packets'[i].input_frameno = i - 1
          BY <1>0 DEF PipelineInv, PacketsInv
        <4>2. packets' \in Seq(Range(packets'))
          BY <1>0 DEF PipelineInv, HistoryInv
        <4>3. DOMAIN packets' = 1 .. L + 1
          BY <3>3, <4>2
        <4> HIDE DEF L
        <4> QED BY <4>1, <4>3 DEF delivered
      <3> HIDE DEF L
      <3>6. delivered' = Append(delivered, Len(delivered))
        <4>1. /\ DOMAIN Append(delivered, L) = 1 .. L + 1
              /\ \A i \in 1 .. L + 1 : Append(delivered, L)[i] = i - 1
              /\ Append(delivered, L) \in Seq(Nat)
          BY <3>2, <3>4
        <4>2. Append(delivered, L) = [i \in 1 .. L + 1 |-> i - 1]
          <5> DEFINE a == Append(delivered, L)
                     d == [i \in 1 .. L + 1 |-> i - 1]
          <5>1. a \in Seq(Nat) /\ Len(a) = L + 1 /\ \A i \in 1 .. L + 1 : a[i] = i - 1
            BY <3>2, <3>4, <4>1
          <5>2. d \in Seq(Nat) /\ Len(d) = L + 1 /\ \A i \in 1 .. L + 1 : d[i] = i - 1
            <6>1. d \in [1 .. L + 1 -> Nat] /\ L + 1 \in Nat
              BY <3>2
            <6> QED BY <6>1
          <5> HIDE DEF a, d
          <5>3. a = d
            BY <5>1, <5>2, SeqEqual
          <5> QED BY <5>3 DEF a, d
        <4> QED BY <3>4, <3>5, <4>2
      <3>7. Len(delivered) < frame_count
        <4>1. Len(packets') <= frame_count'
          BY <1>0 DEF PipelineInv, QueueInv
        <4> QED BY <3>1, <3>2, <3>3, <3>4, <4>1
      <3>8. Service!Deliver
        BY <3>1, <3>6, <3>7 DEF Service!Deliver, delivered
      <3> QED BY <3>8 DEF Service!Next
    <2> QED BY <1>7, <2>1, <2>2 DEF ReceivePacket
  <1>8. CASE UNCHANGED vars
    BY <1>1, <1>8 DEF vars, inputVars, outputVars
  <1> QED BY <1>2, <1>3, <1>4, <1>5, <1>6, <1>7, <1>8 DEF Next, Service!Next

\* The pipeline implements the in-order frame service: the frames that were
\* accepted come out in the order in which they went in, each once, and none
\* is accepted after the stream is closed (send_frame, flush,
\* receive_packet).
THEOREM ImplementsServiceOrder ==
  ASSUME MaxFrames < RcFrameLimit PROVE Spec => Service!SafeSpec
PROOF
  <1>1. Init => Service!Init
    <2> SUFFICES ASSUME Init PROVE Service!Init
      OBVIOUS
    <2>1. frame_count = 0 /\ is_flushing = FALSE /\ packets = <<>>
      BY DEF Init, InitWithLimit
    <2>2. [i \in DOMAIN packets |-> packets[i].input_frameno] = <<>>
      BY <2>1
    <2> QED BY <2>1, <2>2 DEF Service!Init
  <1>2. PipelineInv /\ [Next]_vars => [Service!Next]_(Service!vars)
    BY ServiceStep
  <1> QED BY <1>1, <1>2, PipelineInvHolds, PTL DEF Spec, Service!SafeSpec
=============================================================================
