---------------------------- MODULE ByGopProofs ----------------------------
(***************************************************************************)
(* Safety of the by-GOP channel for every number of workers and threads,   *)
(* every channel size, every input and every choice of cuts.               *)
(***************************************************************************)
EXTENDS ByGop, FiniteSetTheorems, TLAPS

SubGopType == [first : Nat, len : Nat \ {0}, end_gop : BOOLEAN]

-----------------------------------------------------------------------------
(* The inductive invariant, in three parts. *)

\* scenechange: SubGops follow each other without a gap.
SplitTypeOK ==
  /\ received \in Nat /\ emitted \in Nat /\ frames \in Nat /\ processed \in Nat
  /\ subgops \in Seq(SubGopType)
  /\ sc_pc \in {"input", "drain", "done"}

SubGopChain ==
  /\ \A i \in 1 .. Len(subgops) : subgops[i].first = EndOf(i - 1)
  /\ \A i \in 0 .. Len(subgops) : EndOf(i) <= emitted
  /\ EndOf(Len(subgops)) = emitted

SplitInv == SplitTypeOK /\ SplitInBounds /\ SubGopChain

\* encode: GOPs follow each other without a gap, and only the last is open.
GopTypeOK ==
  /\ sent \in 0 .. MaxFrames /\ received <= sent
  /\ taken \in 0 .. Len(subgops)
  /\ enc_pc \in {"get_worker", "recv", "done"}
  /\ count \in Nat
  /\ gop_first \in [0 .. count - 1 -> Nat]
  /\ gop_sent \in [0 .. count - 1 -> Nat]
  /\ gop_packets \in [0 .. count - 1 -> Nat]
  /\ gop_closed \subseteq 0 .. count - 1
  /\ gop_done \subseteq gop_closed
  /\ started \in 0 .. Tasks

GopChain ==
  /\ count = 0 => taken = 0 /\ enc_pc = "get_worker"
  /\ count > 0 => /\ gop_first[0] = 0
                  /\ gop_first[count - 1] + gop_sent[count - 1] = EndOf(taken)
                  /\ count - 1 \in gop_closed => enc_pc = "done"
  /\ \A g \in 0 .. count - 1 :
       /\ g < count - 1 => gop_first[g + 1] = gop_first[g] + gop_sent[g]
       /\ gop_first[g] + gop_sent[g] <= EndOf(taken)

\* Workers and reassemble: a GOP is done only when it is closed and all its
\* packets are out.
GopOrNone == 0 .. count - 1 \cup {None}

WorkInv ==
  /\ idle \in Seq(Workers)
  /\ mail \in [Workers -> Seq(Int)]
  /\ \A w \in Workers : \A i \in 1 .. Len(mail[w]) : mail[w][i] \in GopOrNone
  /\ doing \in [Workers -> {"wait", "encode", "return", "exit"}]
  /\ gop_of \in [Workers -> Int]
  /\ \A w \in Workers :
       /\ doing[w] \in {"encode", "return"} => gop_of[w] \in 0 .. count - 1
       /\ doing[w] = "return" => /\ gop_of[w] \in gop_closed
                                 /\ gop_packets[gop_of[w]] = gop_sent[gop_of[w]]
  /\ \A g \in 0 .. count - 1 : gop_packets[g] <= gop_sent[g]
  /\ \A g \in gop_done : gop_packets[g] = gop_sent[g]

\* The first frame of GOP g, or of the GOP that would come next.
GopStart(g) == IF g < count THEN gop_first[g] ELSE EndOf(taken)

ReaInv ==
  /\ gops_read \in 0 .. count
  /\ last_idx \in Nat
  /\ drained \in Nat
  /\ rea_pc \in {"recv", "drain", "close", "done"}
  /\ delivered \in Seq(Nat)
  /\ 0 .. last_idx - 1 \subseteq gop_done
  /\ IF rea_pc = "drain"
     THEN /\ gops_read = last_idx + 1
          /\ drained <= gop_packets[last_idx]
          /\ Len(delivered) = gop_first[last_idx] + drained
     ELSE gops_read = last_idx /\ Len(delivered) = GopStart(last_idx)

Inv == SplitInv /\ GopTypeOK /\ GopChain /\ WorkInv /\ ReaInv /\ DeliveredInOrder

-----------------------------------------------------------------------------
(* scenechange *)

\* What a step of scenechange leaves alone: the SubGops already sent.
KeepsSubGops ==
  /\ Len(subgops) <= Len(subgops')
  /\ \A i \in 1 .. Len(subgops) : subgops'[i] = subgops[i]

\* Frame numbers computed from SubGops are natural numbers.
LEMMA EndOfType ==
  ASSUME subgops \in Seq(SubGopType), NEW i \in 0 .. Len(subgops)
  PROVE  EndOf(i) \in Nat
PROOF
  <1>1. CASE i = 0
    BY <1>1 DEF EndOf
  <1>2. CASE i # 0
    <2>1. subgops[i] \in SubGopType
      BY <1>2
    <2> QED BY <1>2, <2>1 DEF EndOf, SubGopType
  <1> QED BY <1>1, <1>2

\* Sending a SubGop (the send after SceneChange::split, and the last one)
\* extends the chain and keeps it whole.
LEMMA EmitExtends ==
  ASSUME SplitTypeOK, SubGopChain, NEW pos \in Nat \ {0}, NEW end_gop \in BOOLEAN,
         Emit(pos, end_gop)
  PROVE  /\ subgops' \in Seq(SubGopType) /\ emitted' \in Nat
         /\ SubGopChain' /\ KeepsSubGops
PROOF
  <1> DEFINE sg == [first |-> emitted, len |-> pos, end_gop |-> end_gop]
  <1>1. sg \in SubGopType
    BY DEF SubGopType, SplitTypeOK
  <1>2. /\ subgops' = Append(subgops, sg)
        /\ emitted' = emitted + pos
        /\ subgops \in Seq(SubGopType) /\ emitted \in Nat
    BY DEF Emit, SplitTypeOK
  <1> HIDE DEF sg
  <1>3. /\ subgops' \in Seq(SubGopType)
        /\ Len(subgops) \in Nat
        /\ Len(subgops') = Len(subgops) + 1
        /\ \A i \in 1 .. Len(subgops) : subgops'[i] = subgops[i]
        /\ subgops'[Len(subgops) + 1] = sg
    BY <1>1, <1>2
  <1>4. \A i \in 0 .. Len(subgops) : EndOf(i)' = EndOf(i)
    BY <1>3 DEF EndOf
  <1>5. sg.first = emitted /\ sg.len = pos
    BY DEF sg
  <1>6. EndOf(Len(subgops))' = emitted'
    <2>1. Len(subgops') # 0 /\ subgops'[Len(subgops')] = sg
      BY <1>3
    <2> QED BY <1>2, <1>5, <2>1 DEF EndOf
  <1>7. SubGopChain'
    <2>1. ASSUME NEW i \in 1 .. Len(subgops') PROVE subgops'[i].first = EndOf(i - 1)'
      <3>1. CASE i \in 1 .. Len(subgops)
        BY <3>1, <1>3, <1>4 DEF SubGopChain
      <3>2. CASE i = Len(subgops) + 1
        BY <3>2, <1>3, <1>4, <1>5 DEF SubGopChain
      <3> QED BY <3>1, <3>2, <1>3
    <2>2. ASSUME NEW i \in 0 .. Len(subgops') PROVE EndOf(i)' <= emitted'
      <3>1. CASE i \in 0 .. Len(subgops)
        <4>1. EndOf(i) \in Nat
          BY <3>1, <1>2, EndOfType
        <4>2. EndOf(i) <= emitted
          BY <3>1 DEF SubGopChain
        <4> QED BY <4>1, <4>2, <3>1, <1>2, <1>4
      <3>2. CASE i = Len(subgops')
        BY <3>2, <1>2, <1>6
      <3> QED BY <3>1, <3>2, <1>3
    <2> QED BY <2>1, <2>2, <1>3, <1>6 DEF SubGopChain
  <1> QED BY <1>2, <1>3, <1>7 DEF KeepsSubGops

\* SceneChange::split, however the detector answers, with `room` frames left
\* in the lookahead beyond the ones it has counted.
LEMMA SplitExtends ==
  ASSUME SplitTypeOK, SubGopChain, NEW new_gop \in BOOLEAN, split(new_gop),
         frames < lookahead_distance
  PROVE  /\ subgops' \in Seq(SubGopType) /\ emitted' \in Nat
         /\ frames' \in Nat /\ processed' \in Nat
         /\ SubGopChain' /\ KeepsSubGops
         /\ \/ frames = lookahead_distance - 1 /\ frames' = 0
               /\ emitted' = emitted + lookahead_distance
            \/ frames' = 0 /\ emitted' = emitted + frames + 1
               /\ frames < lookahead_distance - 1
            \/ frames' = frames + 1 /\ emitted' = emitted
               /\ frames < lookahead_distance - 1
PROOF
  <1> USE PyramidAssumption DEF lookahead_distance
  <1>0. frames \in Nat /\ processed \in Nat /\ emitted \in Nat
    BY DEF SplitTypeOK
  <1>1. CASE /\ frames > pyramid_size
             /\ frames' = frames - (pyramid_size + 1)
             /\ Emit(pyramid_size + 2, new_gop)
    <2>1. pyramid_size + 2 \in Nat \ {0}
      OBVIOUS
    <2>2. /\ subgops' \in Seq(SubGopType) /\ emitted' \in Nat
          /\ SubGopChain' /\ KeepsSubGops
      BY <1>1, <2>1, EmitExtends
    <2>3. emitted' = emitted + (pyramid_size + 2)
      BY <1>1 DEF Emit
    <2> QED BY <1>0, <1>1, <2>2, <2>3 DEF split
  <1>2. CASE /\ frames <= pyramid_size /\ new_gop
             /\ frames' = 0
             /\ Emit(frames + 1, TRUE)
    <2>1. frames + 1 \in Nat \ {0}
      BY <1>0
    <2>2. /\ subgops' \in Seq(SubGopType) /\ emitted' \in Nat
          /\ SubGopChain' /\ KeepsSubGops
      BY <1>2, <2>1, EmitExtends
    <2>3. emitted' = emitted + (frames + 1)
      BY <1>2 DEF Emit
    <2> QED BY <1>0, <1>2, <2>2, <2>3 DEF split
  <1>3. CASE /\ frames <= pyramid_size /\ ~new_gop
             /\ frames' = frames + 1
             /\ UNCHANGED <<subgops, emitted>>
    BY <1>0, <1>3 DEF split, SubGopChain, EndOf, KeepsSubGops, SplitTypeOK
  <1> QED BY <1>1, <1>2, <1>3 DEF split

SplitStep ==
  \/ Collect
  \/ InputEnds
  \/ EmitRest
  \/ \E new_gop \in BOOLEAN : Analyse(new_gop) \/ Drain(new_gop)

\* Every step of scenechange preserves its part of the invariant, and the
\* SubGops sent before.
LEMMA SplitInvariant ==
  ASSUME SplitInv, SplitStep
  PROVE  SplitInv' /\ KeepsSubGops
PROOF
  <1> USE PyramidAssumption
  <1>0. /\ received \in Nat /\ emitted \in Nat /\ frames \in Nat /\ processed \in Nat
        /\ SplitTypeOK /\ SubGopChain /\ frames < lookahead_distance
    BY DEF SplitInv, SplitTypeOK, SplitInBounds
  <1>1. CASE Collect
    BY <1>0, <1>1 DEF Collect, SplitInv, SplitTypeOK, SplitInBounds, SubGopChain,
       EndOf, KeepsSubGops, lookahead_len, lookahead_distance
  <1>2. CASE InputEnds
    BY <1>0, <1>2 DEF InputEnds, SplitInv, SplitTypeOK, SplitInBounds, SubGopChain,
       EndOf, KeepsSubGops, lookahead_len, lookahead_distance
  <1>3. CASE EmitRest
    <2>1. CASE lookahead_len > 0
      <3>1. lookahead_len \in Nat \ {0}
        BY <1>0, <2>1 DEF lookahead_len
      <3>2. Emit(lookahead_len, TRUE)
        BY <1>3, <2>1 DEF EmitRest
      <3>3. /\ subgops' \in Seq(SubGopType) /\ emitted' \in Nat
            /\ SubGopChain' /\ KeepsSubGops
        BY <1>0, <3>1, <3>2, EmitExtends
      <3>4. emitted' = emitted + lookahead_len
        BY <3>2 DEF Emit
      <3> QED BY <1>0, <1>3, <3>3, <3>4
              DEF EmitRest, SplitInv, SplitTypeOK, SplitInBounds, lookahead_len
    <2>2. CASE ~(lookahead_len > 0)
      BY <1>0, <1>3, <2>2 DEF EmitRest, SplitInv, SplitTypeOK, SplitInBounds,
         SubGopChain, EndOf, KeepsSubGops, lookahead_len
    <2> QED BY <2>1, <2>2
  <1>4. ASSUME NEW new_gop \in BOOLEAN, Analyse(new_gop)
        PROVE  SplitInv' /\ KeepsSubGops
    <2>1. split(new_gop) /\ received' = received + 1 /\ sc_pc' = sc_pc
          /\ sc_pc = "input" /\ lookahead_len + 1 >= lookahead_distance
      BY <1>4 DEF Analyse
    <2>2. lookahead_len = frames + lookahead_distance - 1
      BY <1>0, <2>1 DEF SplitInv, SplitInBounds, lookahead_len, lookahead_distance
    <2> QED BY <1>0, <2>1, <2>2, SplitExtends
            DEF SplitInv, SplitTypeOK, SplitInBounds, lookahead_len, lookahead_distance
  <1>5. ASSUME NEW new_gop \in BOOLEAN, Drain(new_gop)
        PROVE  SplitInv' /\ KeepsSubGops
    <2>1. split(new_gop) /\ received' = received /\ sc_pc' = sc_pc
          /\ sc_pc = "drain" /\ lookahead_len > lookahead_distance
      BY <1>5 DEF Drain
    <2> QED BY <1>0, <2>1, SplitExtends
            DEF SplitInv, SplitTypeOK, SplitInBounds, lookahead_len, lookahead_distance
  <1> QED BY <1>1, <1>2, <1>3, <1>4, <1>5 DEF SplitStep

-----------------------------------------------------------------------------
(* The whole channel *)

\* Everything but scenechange's part.
RestInv == GopTypeOK /\ GopChain /\ WorkInv /\ ReaInv /\ DeliveredInOrder

\* The invariant holds when new_by_gop_channel has set up the tasks.
LEMMA InitInv == Init => Inv
PROOF
  <1> SUFFICES ASSUME Init PROVE Inv
    OBVIOUS
  <1> USE PyramidAssumption, ByGopAssumption DEF Init, SplitInit
  <1>1. SplitInv
    BY DEF SplitInv, SplitTypeOK, SplitInBounds, SubGopChain, EndOf, lookahead_len,
           lookahead_distance
  <1>2. GopTypeOK /\ GopChain
    <2>1. 0 .. count - 1 = {}
      OBVIOUS
    <2>2. \A S : <<>> \in [{} -> S]
      OBVIOUS
    <2>3. /\ gop_first \in [0 .. count - 1 -> Nat]
          /\ gop_sent \in [0 .. count - 1 -> Nat]
          /\ gop_packets \in [0 .. count - 1 -> Nat]
      BY <2>1, <2>2, Zenon
    <2>4. taken \in 0 .. Len(subgops)
      OBVIOUS
    <2>5. GopTypeOK
      BY <2>1, <2>3, <2>4 DEF GopTypeOK, Tasks
    <2>6. GopChain
      BY <2>1 DEF GopChain
    <2> QED BY <2>5, <2>6
  <1>3. WorkInv
    BY DEF WorkInv, Workers, None
  <1>4. ReaInv /\ DeliveredInOrder
    BY DEF ReaInv, DeliveredInOrder, GopStart, EndOf
  <1> QED BY <1>1, <1>2, <1>3, <1>4 DEF Inv

\* The entries of a GOP are natural numbers.
LEMMA GopEntries ==
  ASSUME GopTypeOK, NEW g \in 0 .. count - 1
  PROVE  gop_first[g] \in Nat /\ gop_sent[g] \in Nat /\ gop_packets[g] \in Nat
PROOF BY DEF GopTypeOK

\* A step that leaves all tasks but scenechange alone.
LEMMA SplitKeepsRest ==
  ASSUME SplitTypeOK, RestInv, KeepsSubGops, subgops' \in Seq(SubGopType),
         received' <= sent,
         UNCHANGED <<sent, dropped, encVars, gopVars, workVars, reaVars, started>>
  PROVE  RestInv'
PROOF
  <1> USE DEF encVars, gopVars, workVars, reaVars
  <1>1. taken \in 0 .. Len(subgops) /\ Len(subgops) <= Len(subgops') /\ taken' = taken
        /\ Len(subgops) \in Nat /\ Len(subgops') \in Nat
    BY DEF RestInv, GopTypeOK, KeepsSubGops, SplitTypeOK
  <1>2. EndOf(taken)' = EndOf(taken)
    BY <1>1 DEF EndOf, KeepsSubGops
  <1>3. GopTypeOK'
    <2>1. taken' \in 0 .. Len(subgops')
      BY <1>1
    <2> QED BY <2>1 DEF RestInv, GopTypeOK
  <1>4. GopChain'
    BY <1>2 DEF RestInv, GopChain
  <1>5. WorkInv'
    BY DEF RestInv, WorkInv, GopOrNone
  <1>6. ReaInv' /\ DeliveredInOrder'
    BY <1>2 DEF RestInv, ReaInv, GopStart, DeliveredInOrder
  <1> QED BY <1>3, <1>4, <1>5, <1>6 DEF RestInv

\* The steps of scenechange, with the receive from the application and the
\* send to encode.
LEMMA ScPreserves ==
  ASSUME Inv, ScReceive \/ ScFinish
  PROVE  Inv'
PROOF
  <1>1. SplitStep
    BY DEF ScReceive, ScFinish, SplitStep, NewGop
  <1>2. SplitInv' /\ KeepsSubGops /\ SplitInv /\ RestInv
    BY <1>1, SplitInvariant DEF Inv, RestInv
  <1>3. received' <= sent
    <2>1. received \in Nat /\ sent \in Nat /\ received <= sent
      BY <1>2 DEF SplitInv, SplitTypeOK, RestInv, GopTypeOK
    <2>2. CASE ScReceive
      BY <2>1, <2>2 DEF ScReceive, Collect, Analyse
    <2>3. CASE ScFinish
      <3>1. received' = received
        BY <2>3 DEF ScFinish, InputEnds, EmitRest, Drain
      <3> QED BY <2>1, <3>1
    <2> QED BY <2>2, <2>3
  <1>4. UNCHANGED <<sent, dropped, encVars, gopVars, workVars, reaVars, started>>
    BY DEF ScReceive, ScFinish
  <1>5. SplitTypeOK /\ subgops' \in Seq(SubGopType)
    BY <1>2 DEF SplitInv, SplitTypeOK
  <1>6. RestInv'
    BY <1>2, <1>3, <1>4, <1>5, SplitKeepsRest
  <1> QED BY <1>2, <1>6 DEF Inv, RestInv


\* get_worker: the new GOP begins where the last one ended.
LEMMA GetWorkerPreserves ==
  ASSUME Inv, GetWorker
  PROVE  Inv'
PROOF
  <1> USE ByGopAssumption
  <1>0. /\ SplitInv /\ GopTypeOK /\ GopChain /\ WorkInv /\ ReaInv
        /\ count \in Nat /\ enc_pc = "get_worker" /\ idle # <<>> /\ idle \in Seq(Workers)
    BY DEF Inv, GetWorker, GopTypeOK, WorkInv
  <1>1. EndOf(taken) \in Nat /\ (taken = 0 => EndOf(taken) = 0)
    BY <1>0, EndOfType DEF SplitInv, SplitTypeOK, GopTypeOK, EndOf
  <1>2. UNCHANGED <<splitVars, sent, dropped, taken, gop_done, doing, gop_of, reaVars,
                    started>>
    BY DEF GetWorker
  <1>3. SplitInv' /\ EndOf(taken)' = EndOf(taken)
    BY <1>0, <1>2 DEF splitVars, SplitInv, SplitTypeOK, SplitInBounds, SubGopChain, EndOf,
                      lookahead_len
  <1>4. /\ count' = count + 1
        /\ enc_pc' = "recv"
        /\ gop_first' = [g \in 0 .. count |-> IF g = count THEN EndOf(taken) ELSE gop_first[g]]
        /\ gop_sent' = [g \in 0 .. count |-> IF g = count THEN 0 ELSE gop_sent[g]]
        /\ gop_packets' = [g \in 0 .. count |-> IF g = count THEN 0 ELSE gop_packets[g]]
        /\ gop_closed' = 0 .. count - 1
    BY DEF GetWorker, Extend
  <1>5. GopTypeOK'
    <2>1. 0 .. count' - 1 = 0 .. count
      BY <1>0, <1>4
    <2>2. gop_first' \in [0 .. count -> Nat]
      BY <1>0, <1>1, <1>4 DEF GopTypeOK
    <2>3. gop_sent' \in [0 .. count -> Nat] /\ gop_packets' \in [0 .. count -> Nat]
      BY <1>0, <1>4 DEF GopTypeOK
    <2>4. gop_closed' \subseteq 0 .. count /\ gop_done' \subseteq gop_closed'
      BY <1>0, <1>2, <1>4 DEF GopTypeOK
    <2>5. /\ sent' \in 0 .. MaxFrames /\ received' <= sent'
          /\ taken' \in 0 .. Len(subgops')
          /\ started' \in 0 .. Tasks
      BY <1>0, <1>2 DEF GopTypeOK, splitVars
    <2>6. count' \in Nat /\ enc_pc' \in {"get_worker", "recv", "done"}
      BY <1>0, <1>4
    <2> QED BY <2>1, <2>2, <2>3, <2>4, <2>5, <2>6 DEF GopTypeOK
  <1>6. GopChain'
    <2>1. gop_first'[0] = 0 /\ gop_first'[count] = EndOf(taken) /\ gop_sent'[count] = 0
      BY <1>0, <1>1, <1>4 DEF GopChain
    <2>2. ASSUME NEW g \in 0 .. count
          PROVE  /\ g < count => gop_first'[g + 1] = gop_first'[g] + gop_sent'[g]
                 /\ gop_first'[g] + gop_sent'[g] <= EndOf(taken)
      <3>1. CASE g = count
        BY <3>1, <2>1, <1>0, <1>1
      <3>2. CASE g < count
        <4>1. gop_first'[g] = gop_first[g] /\ gop_sent'[g] = gop_sent[g]
              /\ g \in 0 .. count - 1
          BY <3>2, <1>0, <1>4
        <4>2. gop_first'[g + 1] = IF g + 1 = count THEN EndOf(taken) ELSE gop_first[g + 1]
          BY <3>2, <1>0, <1>4
        <4>3. gop_first[g] + gop_sent[g] <= EndOf(taken)
          BY <4>1, <1>0 DEF GopChain
        <4>4. gop_first'[g + 1] = gop_first[g] + gop_sent[g]
          <5>1. CASE g + 1 = count
            BY <5>1, <4>2, <1>0 DEF GopChain
          <5>2. CASE g + 1 # count
            BY <5>2, <4>1, <4>2, <1>0 DEF GopChain
          <5> QED BY <5>1, <5>2
        <4> QED BY <4>1, <4>3, <4>4
      <3> QED BY <3>1, <3>2, <1>0
    <2> QED BY <1>0, <1>1, <1>2, <1>3, <1>4, <2>1, <2>2 DEF GopChain
  <1>7. WorkInv'
    <2>1. idle' \in Seq(Workers) /\ Head(idle) \in Workers
      BY <1>0 DEF GetWorker
    <2>2. mail' = [mail EXCEPT ![Head(idle)] = Append(@, count)]
      BY DEF GetWorker
    <2>3. /\ mail' \in [Workers -> Seq(Int)]
          /\ \A w \in Workers : \A i \in 1 .. Len(mail'[w]) : mail'[w][i] \in GopOrNone'
      <3>1. mail \in [Workers -> Seq(Int)]
        BY <1>0 DEF WorkInv
      <3>2. GopOrNone \subseteq GopOrNone' /\ count \in GopOrNone'
        BY <1>0, <1>4 DEF GopOrNone, None
      <3>3. ASSUME NEW w \in Workers
            PROVE  /\ mail'[w] \in Seq(Int)
                   /\ \A i \in 1 .. Len(mail'[w]) : mail'[w][i] \in GopOrNone'
        <4>1. mail[w] \in Seq(Int) /\ \A i \in 1 .. Len(mail[w]) : mail[w][i] \in GopOrNone
          BY <1>0 DEF WorkInv
        <4>2. CASE mail'[w] = mail[w]
          BY <3>2, <4>1, <4>2
        <4>3. CASE mail'[w] = Append(mail[w], count)
          <5>1. count \in Int /\ Len(mail[w]) \in Nat
            BY <1>0, <4>1
          <5>2. /\ mail'[w] \in Seq(Int)
                /\ Len(mail'[w]) = Len(mail[w]) + 1
                /\ \A i \in 1 .. Len(mail[w]) : mail'[w][i] = mail[w][i]
                /\ mail'[w][Len(mail[w]) + 1] = count
            BY <4>1, <4>3, <5>1
          <5>3. \A i \in 1 .. Len(mail[w]) : mail'[w][i] \in GopOrNone'
            BY <3>2, <4>1, <5>2
          <5>4. \A i \in 1 .. Len(mail[w]) + 1 :
                  i \in 1 .. Len(mail[w]) \/ i = Len(mail[w]) + 1
            BY <5>1
          <5> QED BY <3>2, <5>2, <5>3, <5>4
        <4> QED BY <2>2, <3>1, <4>2, <4>3
      <3> QED BY <2>2, <3>1, <3>3
    <2>4. \A w \in Workers : doing[w] \in {"encode", "return"} => gop_of[w] \in 0 .. count - 1
      BY <1>0 DEF WorkInv
    <2>5. \A g \in 0 .. count - 1 :
            gop_packets'[g] = gop_packets[g] /\ gop_sent'[g] = gop_sent[g]
      BY <1>0, <1>4
    <2>6. \A w \in Workers :
            doing[w] = "return" => /\ gop_of[w] \in gop_closed'
                                   /\ gop_packets'[gop_of[w]] = gop_sent'[gop_of[w]]
      BY <1>0, <1>4, <2>4, <2>5 DEF WorkInv
    <2>7. \A g \in 0 .. count : gop_packets'[g] <= gop_sent'[g]
      BY <1>0, <1>4, <2>5 DEF WorkInv
    <2>8. \A g \in gop_done : gop_packets'[g] = gop_sent'[g]
      BY <1>0, <2>5 DEF WorkInv, GopTypeOK
    <2>9. 0 .. count' - 1 = 0 .. count /\ 0 .. count - 1 \subseteq 0 .. count
      BY <1>0, <1>4
    <2> QED BY <1>0, <1>2, <2>1, <2>3, <2>4, <2>6, <2>7, <2>8, <2>9 DEF WorkInv
  <1>8. ReaInv'
    BY <1>0, <1>1, <1>2, <1>3, <1>4 DEF ReaInv, GopStart, reaVars, GopTypeOK
  <1>9. DeliveredInOrder'
    BY <1>2 DEF Inv, DeliveredInOrder, reaVars
  <1> QED BY <1>3, <1>5, <1>6, <1>7, <1>8, <1>9 DEF Inv

\* encode: a SubGop goes to the open GOP, which is not yet done.
LEMMA DispatchPreserves ==
  ASSUME Inv, Dispatch
  PROVE  Inv'
PROOF
  <1> USE ByGopAssumption
  <1>0. /\ SplitInv /\ GopTypeOK /\ GopChain /\ WorkInv /\ ReaInv
        /\ count \in Nat /\ count > 0 /\ enc_pc = "recv" /\ taken < Len(subgops)
        /\ taken \in Nat /\ Len(subgops) \in Nat /\ subgops \in Seq(SubGopType)
    <2>1. SplitInv /\ GopTypeOK /\ GopChain /\ WorkInv /\ ReaInv
      BY DEF Inv
    <2>2. enc_pc = "recv" /\ taken < Len(subgops)
      BY DEF Dispatch
    <2>3. count \in Nat /\ taken \in Nat /\ subgops \in Seq(SubGopType) /\ Len(subgops) \in Nat
      BY <2>1 DEF GopTypeOK, SplitInv, SplitTypeOK
    <2>4. count # 0
      BY <2>1, <2>2 DEF GopChain
    <2> QED BY <2>1, <2>2, <2>3, <2>4
  <1>1. subgops[taken + 1] \in SubGopType
    BY <1>0
  <1> DEFINE n == subgops[taken + 1].len
  <1>2. n \in Nat
    BY <1>1 DEF SubGopType
  <1>3. UNCHANGED <<splitVars, sent, dropped, count, gop_first, gop_closed, gop_packets,
                    gop_done, workVars, reaVars, started>>
        /\ taken' = taken + 1 /\ enc_pc' \in {"get_worker", "recv"}
        /\ gop_sent' = [gop_sent EXCEPT ![count - 1] = @ + n]
    BY DEF Dispatch
  <1>4. SplitInv'
    BY <1>0, <1>3 DEF splitVars, SplitInv, SplitTypeOK, SplitInBounds, SubGopChain, EndOf,
                      lookahead_len
  <1>5. EndOf(taken) \in Nat
    BY <1>0, EndOfType
  <1>6. EndOf(taken)' = EndOf(taken) + n
    <2>1. EndOf(taken)' = subgops[taken + 1].first + n
      BY <1>0, <1>3 DEF EndOf, splitVars
    <2>2. subgops[taken + 1].first = EndOf(taken)
      BY <1>0 DEF SplitInv, SubGopChain
    <2> QED BY <2>1, <2>2
  <1> HIDE DEF n
  <1>7. count - 1 \notin gop_closed /\ count - 1 \notin gop_done
    BY <1>0 DEF GopChain, GopTypeOK
  <1>8. /\ \A g \in 0 .. count - 1 : g # count - 1 => gop_sent'[g] = gop_sent[g]
        /\ gop_sent'[count - 1] = gop_sent[count - 1] + n
        /\ gop_sent' \in [0 .. count - 1 -> Nat]
    BY <1>0, <1>2, <1>3, SMTT(60) DEF GopTypeOK
  <1>9. GopTypeOK'
    <2>1. taken' \in 0 .. Len(subgops')
      BY <1>0, <1>3 DEF splitVars
    <2> QED BY <1>0, <1>3, <1>8, <2>1 DEF GopTypeOK, splitVars
  <1>10. GopChain'
    <2>1. ASSUME NEW g \in 0 .. count - 1
          PROVE  /\ g < count - 1 => gop_first[g + 1] = gop_first[g] + gop_sent'[g]
                 /\ gop_first[g] + gop_sent'[g] <= EndOf(taken)'
      <3>1. CASE g = count - 1
        <4>1. gop_first[g] \in Nat /\ gop_sent[g] \in Nat
          BY <1>0, GopEntries
        <4> QED BY <3>1, <4>1, <1>0, <1>2, <1>5, <1>6, <1>8 DEF GopChain
      <3>2. CASE g < count - 1
        <4>1. gop_sent'[g] = gop_sent[g] /\ gop_first[g] \in Nat /\ gop_sent[g] \in Nat
          BY <3>2, <1>0, <1>8, GopEntries
        <4> QED BY <3>2, <4>1, <1>0, <1>2, <1>5, <1>6 DEF GopChain
      <3> QED BY <3>1, <3>2, <1>0
    <2>2. gop_first[count - 1] + gop_sent'[count - 1] = EndOf(taken)'
      BY <1>0, <1>2, <1>5, <1>6, <1>8, SMTT(60) DEF GopChain, GopTypeOK
    <2> QED BY <1>0, <1>3, <1>7, <2>1, <2>2 DEF GopChain
  <1>11. WorkInv'
    <2>1. ASSUME NEW g \in 0 .. count - 1 PROVE gop_packets[g] <= gop_sent'[g]
      <3>1. gop_packets[g] \in Nat /\ gop_sent[g] \in Nat /\ gop_packets[g] <= gop_sent[g]
        BY <1>0, GopEntries DEF WorkInv
      <3>2. gop_sent'[g] = gop_sent[g] \/ gop_sent'[g] = gop_sent[g] + n
        BY <1>8
      <3> QED BY <1>2, <3>1, <3>2
    <2>2. \A g \in gop_done : gop_packets[g] = gop_sent'[g]
      BY <1>0, <1>7, <1>8 DEF WorkInv, GopTypeOK
    <2>3. \A w \in Workers :
            doing[w] = "return" => gop_packets[gop_of[w]] = gop_sent'[gop_of[w]]
      <3> SUFFICES ASSUME NEW w \in Workers, doing[w] = "return"
                   PROVE  gop_packets[gop_of[w]] = gop_sent'[gop_of[w]]
        OBVIOUS
      <3>1. /\ gop_of[w] \in gop_closed /\ gop_of[w] \in 0 .. count - 1
            /\ gop_packets[gop_of[w]] = gop_sent[gop_of[w]]
        BY <1>0 DEF WorkInv
      <3> QED BY <1>7, <1>8, <3>1
    <2> QED BY <1>0, <1>3, <2>1, <2>2, <2>3 DEF WorkInv, GopOrNone, workVars
  <1>12. ReaInv'
    <2>1. last_idx < count
      BY <1>0, <1>7 DEF ReaInv
    <2> QED BY <1>0, <1>3, <2>1 DEF ReaInv, GopStart, reaVars
  <1>13. DeliveredInOrder'
    BY <1>3 DEF Inv, DeliveredInOrder, reaVars
  <1> QED BY <1>4, <1>9, <1>10, <1>11, <1>12, <1>13 DEF Inv

\* encode ends: the last GOP is closed.
LEMMA EncodeEndsPreserves ==
  ASSUME Inv, EncodeEnds
  PROVE  Inv'
PROOF
  <1>0. /\ SplitInv /\ GopTypeOK /\ GopChain /\ WorkInv /\ ReaInv /\ DeliveredInOrder
        /\ count \in Nat /\ count # 0 /\ enc_pc = "recv" /\ gop_done \subseteq gop_closed
    BY DEF Inv, EncodeEnds, GopTypeOK, GopChain
  <1>1. /\ enc_pc' = "done"
        /\ gop_closed' = gop_closed \cup {count - 1}
        /\ UNCHANGED <<splitVars, sent, dropped, taken, count, gop_first, gop_sent,
                       gop_packets, gop_done, workVars, reaVars, started>>
    BY DEF EncodeEnds
  <1>2. SplitInv' /\ EndOf(taken)' = EndOf(taken)
    BY <1>0, <1>1 DEF splitVars, SplitInv, SplitTypeOK, SplitInBounds, SubGopChain, EndOf,
                      lookahead_len
  <1>3. GopTypeOK'
    <2>1. gop_closed' \subseteq 0 .. count' - 1 /\ gop_done' \subseteq gop_closed'
      BY <1>0, <1>1 DEF GopTypeOK
    <2>2. /\ sent' \in 0 .. MaxFrames /\ received' <= sent'
          /\ taken' \in 0 .. Len(subgops')
          /\ started' \in 0 .. Tasks
      BY <1>0, <1>1 DEF GopTypeOK, splitVars
    <2>3. /\ gop_first' \in [0 .. count' - 1 -> Nat]
          /\ gop_sent' \in [0 .. count' - 1 -> Nat]
          /\ gop_packets' \in [0 .. count' - 1 -> Nat]
      BY <1>0, <1>1 DEF GopTypeOK
    <2> QED BY <1>0, <1>1, <2>1, <2>2, <2>3 DEF GopTypeOK
  <1>4. GopChain'
    BY <1>0, <1>1, <1>2 DEF GopChain
  <1>5. WorkInv'
    BY <1>0, <1>1 DEF WorkInv, GopOrNone, workVars
  <1>6. ReaInv' /\ DeliveredInOrder'
    BY <1>0, <1>1, <1>2 DEF ReaInv, GopStart, DeliveredInOrder, reaVars
  <1> QED BY <1>2, <1>3, <1>4, <1>5, <1>6 DEF Inv

-----------------------------------------------------------------------------
(* Workers *)

\* What a worker's step leaves alone, besides scenechange and encode.
LEMMA WorkerFrame ==
  ASSUME Inv, UNCHANGED <<splitVars, sent, dropped, encVars, gop_first, gop_sent,
                          gop_closed, reaVars, started>>,
         gop_packets' \in [0 .. count - 1 -> Nat],
         \A g \in 0 .. count - 1 : gop_packets[g] <= gop_packets'[g],
         gop_done \subseteq gop_done', gop_done' \subseteq gop_closed,
         WorkInv'
  PROVE  Inv'
PROOF
  <1> USE DEF encVars, reaVars
  <1>0. SplitInv /\ GopTypeOK /\ GopChain /\ WorkInv /\ ReaInv /\ DeliveredInOrder
    BY DEF Inv
  <1>1. SplitInv' /\ EndOf(taken)' = EndOf(taken)
    BY <1>0 DEF splitVars, SplitInv, SplitTypeOK, SplitInBounds, SubGopChain, EndOf,
                lookahead_len
  <1>2. GopTypeOK'
    BY <1>0 DEF GopTypeOK, splitVars
  <1>3. GopChain'
    BY <1>0, <1>1 DEF GopChain
  <1>4. ReaInv'
    <2>1. ASSUME rea_pc = "drain" PROVE drained <= gop_packets'[last_idx]
      <3>1. last_idx \in 0 .. count - 1 /\ drained <= gop_packets[last_idx] /\ drained \in Nat
        BY <1>0, <2>1 DEF ReaInv, GopTypeOK
      <3>2. gop_packets[last_idx] \in Nat /\ gop_packets'[last_idx] \in Nat
        BY <1>0, <3>1, GopEntries
      <3>3. gop_packets[last_idx] <= gop_packets'[last_idx]
        BY <3>1
      <3> QED BY <3>1, <3>2, <3>3
    <2> QED BY <1>0, <1>1, <2>1 DEF ReaInv, GopStart
  <1>5. DeliveredInOrder'
    BY <1>0 DEF DeliveredInOrder
  <1> QED BY <1>1, <1>2, <1>3, <1>4, <1>5 DEF Inv

\* A worker takes a GOP that encode has put into its channel.
LEMMA WorkerReceivesPreserves ==
  ASSUME Inv, NEW w \in Workers, WorkerReceives(w)
  PROVE  Inv'
PROOF
  <1> USE ByGopAssumption DEF encVars, gopVars
  <1>0. WorkInv /\ GopTypeOK /\ count \in Nat
    BY DEF Inv, GopTypeOK
  <1>1. UNCHANGED <<splitVars, sent, dropped, encVars, gopVars, idle, reaVars, started>>
    BY DEF WorkerReceives
  <1>2. mail[w] \in Seq(Int) /\ mail[w] # <<>>
        /\ \A i \in 1 .. Len(mail[w]) : mail[w][i] \in GopOrNone
    BY <1>0 DEF WorkInv, WorkerReceives
  <1>3. Head(mail[w]) \in Int /\ Head(mail[w]) \in GopOrNone
    BY <1>2
  <1>4. /\ Tail(mail[w]) \in Seq(Int)
        /\ \A i \in 1 .. Len(Tail(mail[w])) : Tail(mail[w])[i] \in GopOrNone
    BY <1>2
  <1>5. WorkInv'
    <2>1. /\ mail' \in [Workers -> Seq(Int)]
          /\ \A v \in Workers : \A i \in 1 .. Len(mail'[v]) : mail'[v][i] \in GopOrNone
      BY <1>0, <1>4 DEF WorkInv, WorkerReceives
    <2>2. GopOrNone' = GopOrNone
      BY <1>1 DEF GopOrNone
    <2>3. /\ doing' \in [Workers -> {"wait", "encode", "return", "exit"}]
          /\ gop_of' \in [Workers -> Int]
          /\ \A v \in Workers \ {w} : doing'[v] = doing[v] /\ gop_of'[v] = gop_of[v]
          /\ gop_of'[w] = Head(mail[w])
          /\ doing'[w] = IF Head(mail[w]) = None THEN "exit" ELSE "encode"
      BY <1>0, <1>3 DEF WorkInv, WorkerReceives
    <2>4. doing'[w] = "encode" => gop_of'[w] \in 0 .. count - 1
      BY <1>3, <2>3 DEF GopOrNone
    <2> QED BY <1>0, <1>1, <2>1, <2>2, <2>3, <2>4 DEF WorkInv
  <1>6. gop_done' \subseteq gop_closed /\ gop_packets' \in [0 .. count - 1 -> Nat]
        /\ \A g \in 0 .. count - 1 : gop_packets[g] <= gop_packets'[g]
    <2>1. \A g \in 0 .. count - 1 : gop_packets[g] \in Nat
      BY <1>0, GopEntries
    <2> QED BY <1>0, <1>1, <2>1 DEF GopTypeOK
  <1> QED BY <1>1, <1>5, <1>6, WorkerFrame

\* A packet more for a GOP that has not had all of them.
LEMMA WorkerEncodesPreserves ==
  ASSUME Inv, NEW w \in Workers, WorkerEncodes(w)
  PROVE  Inv'
PROOF
  <1> DEFINE h == gop_of[w]
  <1>0. WorkInv /\ GopTypeOK /\ count \in Nat /\ gop_packets \in [0 .. count - 1 -> Nat]
    BY DEF Inv, GopTypeOK
  <1>1. UNCHANGED <<splitVars, sent, dropped, encVars, gop_first, gop_sent, gop_closed,
                    gop_done, workVars, reaVars, started>>
        /\ gop_packets' = [gop_packets EXCEPT ![h] = @ + 1]
        /\ gop_packets[h] < gop_sent[h]
        /\ doing[w] = "encode"
    BY DEF WorkerEncodes
  <1>2. h \in 0 .. count - 1 /\ h \notin gop_done
    BY <1>0, <1>1 DEF WorkInv
  <1> HIDE DEF h
  <1>3. gop_packets[h] \in Nat /\ gop_sent[h] \in Nat
    BY <1>0, <1>2, GopEntries
  <1>4. /\ gop_packets'[h] = gop_packets[h] + 1
        /\ \A g \in 0 .. count - 1 : g # h => gop_packets'[g] = gop_packets[g]
        /\ gop_packets' \in [0 .. count - 1 -> Nat]
    BY <1>0, <1>1, <1>2, <1>3
  <1>5. \A g \in 0 .. count - 1 : gop_packets[g] <= gop_packets'[g] /\ gop_packets'[g] <= gop_sent[g]
    <2> TAKE g \in 0 .. count - 1
    <2>1. gop_packets[g] \in Nat /\ gop_sent[g] \in Nat /\ gop_packets[g] <= gop_sent[g]
      BY <1>0, GopEntries DEF WorkInv
    <2>2. CASE g = h
      BY <1>1, <1>3, <1>4, <2>2
    <2>3. CASE g # h
      BY <1>4, <2>1, <2>3
    <2> QED BY <2>2, <2>3
  <1>6. WorkInv'
    <2>1. \A g \in gop_done : gop_packets'[g] = gop_sent[g]
      BY <1>0, <1>2, <1>4 DEF WorkInv, GopTypeOK
    <2>2. \A v \in Workers : doing[v] = "return" => gop_packets'[gop_of[v]] = gop_sent[gop_of[v]]
      <3> SUFFICES ASSUME NEW v \in Workers, doing[v] = "return"
                   PROVE  gop_packets'[gop_of[v]] = gop_sent[gop_of[v]]
        OBVIOUS
      <3>1. gop_of[v] \in 0 .. count - 1 /\ gop_packets[gop_of[v]] = gop_sent[gop_of[v]]
        BY <1>0 DEF WorkInv
      <3>2. gop_of[v] # h
        BY <1>1, <1>3, <3>1
      <3> QED BY <1>4, <3>1, <3>2
    <2> QED BY <1>0, <1>1, <1>5, <2>1, <2>2 DEF WorkInv, GopOrNone, workVars, encVars
  <1>7. gop_done' \subseteq gop_closed
    BY <1>0, <1>1 DEF GopTypeOK
  <1> QED BY <1>1, <1>4, <1>5, <1>6, <1>7, WorkerFrame

\* The worker of a finished GOP offers itself, then drops the packet sender.
LEMMA WorkerFinishesPreserves ==
  ASSUME Inv, NEW w \in Workers, WorkerReturns(w) \/ WorkerDropsLoad(w)
  PROVE  Inv'
PROOF
  <1> USE DEF encVars, gopVars
  <1>0. WorkInv /\ GopTypeOK /\ gop_packets \in [0 .. count - 1 -> Nat]
    BY DEF Inv, GopTypeOK
  <1>1. UNCHANGED <<splitVars, sent, dropped, encVars, gop_first, gop_sent, gop_closed,
                    gop_packets, reaVars, started>>
    BY DEF WorkerReturns, WorkerDropsLoad
  <1>2. \A g \in 0 .. count - 1 : gop_packets[g] <= gop_packets'[g]
    <2>1. \A g \in 0 .. count - 1 : gop_packets[g] \in Nat
      BY <1>0, GopEntries
    <2> QED BY <1>1, <2>1
  <1>3. CASE WorkerReturns(w)
    <2>1. WorkInv'
      <3>1. idle' \in Seq(Workers)
        BY <1>0, <1>3 DEF WorkInv, WorkerReturns
      <3> QED BY <1>0, <1>1, <1>3, <3>1 DEF WorkInv, GopOrNone, WorkerReturns
    <2>2. gop_done' = gop_done /\ gop_done' \subseteq gop_closed
      BY <1>0, <1>3 DEF WorkerReturns, GopTypeOK
    <2> QED BY <1>0, <1>1, <1>2, <2>1, <2>2, WorkerFrame
  <1>4. CASE WorkerDropsLoad(w)
    <2>1. gop_done' = gop_done \cup {gop_of[w]} /\ doing[w] = "return"
      BY <1>4 DEF WorkerDropsLoad
    <2>2. gop_of[w] \in gop_closed /\ gop_packets[gop_of[w]] = gop_sent[gop_of[w]]
      BY <1>0, <2>1 DEF WorkInv
    <2>3. WorkInv'
      BY <1>0, <1>1, <1>4, <2>1, <2>2 DEF WorkInv, GopOrNone, WorkerDropsLoad
    <2>4. gop_done \subseteq gop_done' /\ gop_done' \subseteq gop_closed
      BY <1>0, <2>1, <2>2 DEF GopTypeOK
    <2> QED BY <1>0, <1>1, <1>2, <2>3, <2>4, WorkerFrame
  <1> QED BY <1>3, <1>4

-----------------------------------------------------------------------------
(* reassemble *)

\* What a step of reassemble leaves alone.
LEMMA ReassembleFrame ==
  ASSUME Inv, UNCHANGED <<splitVars, sent, dropped, encVars, gopVars, started>>,
         WorkInv', ReaInv', DeliveredInOrder'
  PROVE  Inv'
PROOF
  <1> USE DEF encVars, gopVars
  <1>0. SplitInv /\ GopTypeOK /\ GopChain
    BY DEF Inv
  <1>1. SplitInv' /\ EndOf(taken)' = EndOf(taken)
    BY <1>0 DEF splitVars, SplitInv, SplitTypeOK, SplitInBounds, SubGopChain, EndOf,
                lookahead_len
  <1>2. GopTypeOK'
    BY <1>0 DEF GopTypeOK, splitVars
  <1>3. GopChain'
    BY <1>0, <1>1 DEF GopChain
  <1> QED BY <1>1, <1>2, <1>3 DEF Inv

\* reassemble's own loop: a new GOP, a packet, the end of a GOP.
LEMMA ReassemblePreserves ==
  ASSUME Inv, NextGop \/ Forward \/ GopForwarded
  PROVE  Inv'
PROOF
  <1> USE DEF encVars, gopVars
  <1>0. /\ SplitInv /\ GopTypeOK /\ GopChain /\ WorkInv /\ ReaInv /\ DeliveredInOrder
        /\ count \in Nat /\ gops_read \in Nat /\ last_idx \in Nat /\ drained \in Nat
        /\ gops_read <= count /\ delivered \in Seq(Nat) /\ Len(delivered) \in Nat
    <2>1. SplitInv /\ GopTypeOK /\ GopChain /\ WorkInv /\ ReaInv /\ DeliveredInOrder
      BY DEF Inv
    <2>2. count \in Nat
      BY <2>1 DEF GopTypeOK
    <2>3. gops_read \in 0 .. count /\ last_idx \in Nat /\ drained \in Nat /\ delivered \in Seq(Nat)
      BY <2>1 DEF ReaInv
    <2> QED BY <2>1, <2>2, <2>3
  <1>1. UNCHANGED <<splitVars, sent, dropped, encVars, gopVars, workVars, started>>
    BY DEF NextGop, Forward, GopForwarded
  <1>2. WorkInv'
    BY <1>0, <1>1 DEF WorkInv, workVars, GopOrNone
  <1>3. EndOf(taken)' = EndOf(taken)
    BY <1>1 DEF EndOf, splitVars
  <1>4. CASE NextGop
    <2>1. DeliveredInOrder'
      BY <1>0, <1>4 DEF NextGop, DeliveredInOrder
    <2>2. CASE /\ gops_read < count
               /\ gops_read' = gops_read + 1
               /\ rea_pc' = IF gops_read = last_idx THEN "drain" ELSE "recv"
               /\ drained' = 0
      <3>1. rea_pc = "recv" /\ gops_read = last_idx /\ Len(delivered) = gop_first[last_idx]
        BY <1>0, <1>4, <2>2 DEF NextGop, ReaInv, GopStart
      <3>2. gop_packets[last_idx] \in Nat /\ gop_first[last_idx] \in Nat
        BY <1>0, <2>2, <3>1, GopEntries
      <3>3. ReaInv'
        BY <1>0, <1>1, <1>4, <2>2, <3>1, <3>2 DEF NextGop, ReaInv
      <3> QED BY <1>1, <1>2, <2>1, <3>3, ReassembleFrame
    <2>3. CASE rea_pc' = "close" /\ UNCHANGED <<gops_read, drained>>
      <3>1. ReaInv'
        BY <1>0, <1>1, <1>3, <1>4, <2>3 DEF NextGop, ReaInv, GopStart
      <3> QED BY <1>1, <1>2, <2>1, <3>1, ReassembleFrame
    <2> QED BY <1>4, <2>2, <2>3 DEF NextGop
  <1>5. CASE Forward
    <2>1. /\ rea_pc = "drain" /\ rea_pc' = "drain" /\ gops_read = last_idx + 1
          /\ Len(delivered) = gop_first[last_idx] + drained
          /\ drained < gop_packets[last_idx] /\ drained' = drained + 1
          /\ gops_read' = gops_read /\ last_idx' = last_idx
          /\ delivered' = Append(delivered, gop_first[last_idx] + drained)
      BY <1>0, <1>5 DEF Forward, ReaInv
    <2>2. gop_packets[last_idx] \in Nat /\ gop_first[last_idx] \in Nat
      BY <1>0, <2>1, GopEntries
    <2>3. /\ delivered' = Append(delivered, Len(delivered))
          /\ delivered' \in Seq(Nat) /\ Len(delivered') = Len(delivered) + 1
      BY <1>0, <2>1, <2>2
    <2>4. DeliveredInOrder'
      BY <1>0, <2>3 DEF DeliveredInOrder
    <2>5. ReaInv'
      BY <1>0, <1>1, <2>1, <2>2, <2>3 DEF ReaInv
    <2> QED BY <1>1, <1>2, <2>4, <2>5, ReassembleFrame
  <1>6. CASE GopForwarded
    <2>1. /\ rea_pc = "drain" /\ rea_pc' = "recv" /\ gops_read = last_idx + 1
          /\ Len(delivered) = gop_first[last_idx] + drained
          /\ last_idx \in gop_done /\ drained = gop_packets[last_idx]
          /\ gops_read' = gops_read /\ last_idx' = last_idx + 1 /\ drained' = drained
          /\ delivered' = delivered
      BY <1>0, <1>6 DEF GopForwarded, ReaInv
    <2>2. gop_packets[last_idx] = gop_sent[last_idx]
      BY <1>0, <2>1 DEF WorkInv
    <2>3. Len(delivered) = GopStart(last_idx + 1)
      <3>1. CASE last_idx + 1 < count
        <4>1. last_idx \in 0 .. count - 1 /\ last_idx < count - 1
          BY <1>0, <3>1
        <4>2. gop_first[last_idx + 1] = gop_first[last_idx] + gop_sent[last_idx]
          BY <1>0, <4>1 DEF GopChain
        <4> QED BY <2>1, <2>2, <3>1, <4>2 DEF GopStart
      <3>2. CASE last_idx + 1 = count
        <4>1. last_idx = count - 1 /\ count > 0 /\ ~(last_idx + 1 < count)
          BY <1>0, <3>2
        <4>2. gop_first[last_idx] + gop_sent[last_idx] = EndOf(taken)
          BY <1>0, <4>1 DEF GopChain
        <4> QED BY <2>1, <2>2, <4>1, <4>2 DEF GopStart
      <3> QED BY <1>0, <2>1, <3>1, <3>2
    <2>4. GopStart(last_idx)' = GopStart(last_idx + 1)
      BY <1>1, <1>3, <2>1 DEF GopStart
    <2>5. 0 .. last_idx' - 1 \subseteq gop_done
      BY <1>0, <2>1 DEF ReaInv
    <2>6. ReaInv'
      BY <1>0, <1>1, <2>1, <2>3, <2>4, <2>5 DEF ReaInv
    <2>7. DeliveredInOrder'
      BY <1>0, <2>1 DEF DeliveredInOrder
    <2> QED BY <1>1, <1>2, <2>6, <2>7, ReassembleFrame
  <1> QED BY <1>4, <1>5, <1>6

\* WorkerPoolRecv::close sends None, which is no GOP.
LEMMA ClosePreserves ==
  ASSUME Inv, Close
  PROVE  Inv'
PROOF
  <1> USE DEF encVars, gopVars
  <1>0. WorkInv /\ ReaInv /\ DeliveredInOrder
    BY DEF Inv
  <1>1. /\ UNCHANGED <<splitVars, sent, dropped, encVars, gopVars, doing, gop_of, gops_read,
                       last_idx, drained, delivered, started>>
        /\ rea_pc = "close" /\ rea_pc' \in {"close", "done"}
    BY DEF Close
  <1>2. EndOf(taken)' = EndOf(taken)
    BY <1>1 DEF EndOf, splitVars
  <1>3. ReaInv' /\ DeliveredInOrder'
    BY <1>0, <1>1, <1>2 DEF ReaInv, GopStart, DeliveredInOrder
  <1>4. WorkInv'
    <2>1. CASE idle' = idle /\ mail' = mail
      BY <1>0, <1>1, <2>1 DEF WorkInv, GopOrNone
    <2>2. CASE /\ idle # <<>> /\ idle' = Tail(idle)
               /\ mail' = [mail EXCEPT ![Head(idle)] = Append(@, None)]
      <3>1. idle \in Seq(Workers) /\ mail \in [Workers -> Seq(Int)]
        BY <1>0 DEF WorkInv
      <3>2. idle' \in Seq(Workers) /\ Head(idle) \in Workers
        BY <2>2, <3>1
      <3>3. None \in Int /\ None \in GopOrNone /\ GopOrNone' = GopOrNone
        BY <1>1 DEF None, GopOrNone
      <3>4. ASSUME NEW w \in Workers
            PROVE  /\ mail'[w] \in Seq(Int)
                   /\ \A i \in 1 .. Len(mail'[w]) : mail'[w][i] \in GopOrNone
        <4>1. mail[w] \in Seq(Int) /\ \A i \in 1 .. Len(mail[w]) : mail[w][i] \in GopOrNone
          BY <1>0 DEF WorkInv
        <4>2. CASE mail'[w] = mail[w]
          BY <4>1, <4>2
        <4>3. CASE mail'[w] = Append(mail[w], None)
          <5>1. /\ mail'[w] \in Seq(Int)
                /\ Len(mail'[w]) = Len(mail[w]) + 1 /\ Len(mail[w]) \in Nat
                /\ \A i \in 1 .. Len(mail[w]) : mail'[w][i] = mail[w][i]
                /\ mail'[w][Len(mail[w]) + 1] = None
            BY <3>3, <4>1, <4>3
          <5>2. \A i \in 1 .. Len(mail[w]) + 1 :
                  i \in 1 .. Len(mail[w]) \/ i = Len(mail[w]) + 1
            BY <5>1
          <5> QED BY <3>3, <4>1, <5>1, <5>2
        <4> QED BY <2>2, <3>1, <4>2, <4>3
      <3> QED BY <1>0, <1>1, <2>2, <3>1, <3>2, <3>3, <3>4 DEF WorkInv
    <2> QED BY <2>1, <2>2 DEF Close
  <1> QED BY <1>1, <1>3, <1>4, ReassembleFrame

-----------------------------------------------------------------------------
(* The theorems *)

\* FrameSender::send, its drop, the start of a task and stuttering.
LEMMA AppPreserves ==
  ASSUME Inv, StartTask \/ AppSend \/ AppDrop \/ UNCHANGED vars
  PROVE  Inv'
PROOF
  <1> USE ByGopAssumption
  <1>0. SplitInv /\ GopTypeOK /\ GopChain /\ WorkInv /\ ReaInv /\ DeliveredInOrder
    BY DEF Inv
  <1>1. UNCHANGED <<splitVars, encVars, gopVars, workVars, reaVars>>
    BY DEF StartTask, AppSend, AppDrop, vars
  <1>2. SplitInv' /\ EndOf(taken)' = EndOf(taken)
    BY <1>0, <1>1 DEF splitVars, encVars, SplitInv, SplitTypeOK, SplitInBounds, SubGopChain,
                      EndOf, lookahead_len
  <1>3. sent' \in 0 .. MaxFrames /\ received' <= sent' /\ started' \in 0 .. Tasks
    <2>1. /\ received \in Nat /\ sent \in 0 .. MaxFrames /\ received <= sent
          /\ started \in 0 .. Tasks /\ received' = received
      BY <1>0, <1>1 DEF SplitInv, SplitTypeOK, GopTypeOK, splitVars
    <2>2. CASE AppSend
      BY <2>1, <2>2 DEF AppSend
    <2>3. CASE StartTask
      BY <2>1, <2>3 DEF StartTask, Tasks
    <2>4. CASE AppDrop \/ UNCHANGED vars
      BY <2>1, <2>4 DEF AppDrop, vars
    <2> QED BY <2>2, <2>3, <2>4
  <1>4. GopTypeOK'
    BY <1>0, <1>1, <1>3 DEF GopTypeOK, splitVars, encVars, gopVars
  <1>5. GopChain'
    BY <1>0, <1>1, <1>2 DEF GopChain, encVars, gopVars
  <1>6. WorkInv'
    BY <1>0, <1>1 DEF WorkInv, GopOrNone, workVars, encVars, gopVars
  <1>7. ReaInv' /\ DeliveredInOrder'
    BY <1>0, <1>1, <1>2 DEF ReaInv, GopStart, DeliveredInOrder, reaVars, encVars, gopVars
  <1> QED BY <1>2, <1>4, <1>5, <1>6, <1>7 DEF Inv

\* Every step of every task preserves the invariant.
LEMMA NextInv == Inv /\ [Next]_vars => Inv'
PROOF
  <1> SUFFICES ASSUME Inv, [Next]_vars PROVE Inv'
    OBVIOUS
  <1>1. CASE StartTask \/ AppSend \/ AppDrop \/ Terminated \/ UNCHANGED vars
    BY <1>1, AppPreserves DEF Terminated
  <1>2. CASE ScReceive \/ ScFinish
    BY <1>2, ScPreserves
  <1>3. CASE GetWorker
    BY <1>3, GetWorkerPreserves
  <1>4. CASE Dispatch
    BY <1>4, DispatchPreserves
  <1>5. CASE EncodeEnds
    BY <1>5, EncodeEndsPreserves
  <1>6. CASE NextGop \/ Forward \/ GopForwarded
    BY <1>6, ReassemblePreserves
  <1>7. CASE Close
    BY <1>7, ClosePreserves
  <1>8. ASSUME NEW w \in Workers, WorkerStep(w) PROVE Inv'
    BY <1>8, WorkerReceivesPreserves, WorkerEncodesPreserves, WorkerFinishesPreserves
       DEF WorkerStep
  <1> QED BY <1>1, <1>2, <1>3, <1>4, <1>5, <1>6, <1>7, <1>8 DEF Next, Progress

\* In every state of the by-GOP channel the SubGops, the GOPs and the
\* delivered packets form gapless chains, and a GOP is done only when all
\* its packets are out.
THEOREM InvHolds == Spec => []Inv
PROOF
  <1>1. Init => Inv
    BY InitInv
  <1>2. Inv /\ [Next]_vars => Inv'
    BY NextInv
  <1> QED BY <1>1, <1>2, PTL DEF Spec

\* Whatever the number of workers and threads and whatever their speeds,
\* packets reach the application in the order of the frames, none lost or
\* repeated (reassemble).
THEOREM DeliveredInOrderHolds == Spec => []DeliveredInOrder
PROOF
  <1>1. Inv => DeliveredInOrder
    BY DEF Inv
  <1> QED BY <1>1, InvHolds, PTL

\* For every pyramid size, SceneChange::split never indexes beyond the
\* lookahead.
THEOREM SplitInBoundsHolds == Spec => []SplitInBounds
PROOF
  <1>1. Inv => SplitInBounds
    BY DEF Inv, SplitInv
  <1> QED BY <1>1, InvHolds, PTL

DroppedOK == dropped \in BOOLEAN

\* `dropped` stays a Boolean.
LEMMA DroppedType == Spec => []DroppedOK
PROOF
  <1>1. Init => DroppedOK
    BY DEF Init, DroppedOK
  <1>2. DroppedOK /\ [Next]_vars => DroppedOK'
    <2> SUFFICES ASSUME dropped \in BOOLEAN, [Next]_vars PROVE dropped' \in BOOLEAN
      BY DEF DroppedOK
    <2>1. dropped' = dropped \/ dropped' = TRUE
      BY DEF Next, vars, Progress, WorkerStep, Terminated, StartTask, AppSend, AppDrop,
             ScReceive, ScFinish, GetWorker, Dispatch, EncodeEnds, NextGop, Forward,
             GopForwarded, Close, WorkerReceives, WorkerEncodes, WorkerReturns, WorkerDropsLoad
    <2> QED BY <2>1
  <1> QED BY <1>1, <1>2, PTL DEF Spec

\* The variables of all tasks keep their types, and the tables of the GOPs
\* always have one entry for each GOP that was dispatched.
THEOREM TypeOKHolds == Spec => []TypeOK
PROOF
  <1>1. Inv /\ DroppedOK => TypeOK
    <2> SUFFICES ASSUME Inv, dropped \in BOOLEAN PROVE TypeOK
      BY DEF DroppedOK
    <2>1. SplitTypeOK /\ GopTypeOK /\ WorkInv /\ ReaInv
      BY DEF Inv, SplitInv
    <2>2. last_idx \in 0 .. gops_read
      <3>1. gops_read \in Nat /\ last_idx \in Nat
        BY <2>1 DEF ReaInv, GopTypeOK
      <3>2. gops_read = last_idx \/ gops_read = last_idx + 1
        BY <2>1 DEF ReaInv
      <3> QED BY <3>1, <3>2
    <2>3. /\ received \in Nat /\ emitted \in Nat /\ frames \in Nat /\ processed \in Nat
      BY <2>1 DEF SplitTypeOK
    <2>4. /\ sent \in 0 .. MaxFrames
          /\ taken \in 0 .. Len(subgops)
          /\ enc_pc \in {"get_worker", "recv", "done"}
          /\ count \in Nat
          /\ gop_first \in [0 .. count - 1 -> Nat]
          /\ gop_sent \in [0 .. count - 1 -> Nat]
          /\ gop_packets \in [0 .. count - 1 -> Nat]
          /\ gop_closed \subseteq 0 .. count - 1
          /\ gop_done \subseteq gop_closed
          /\ started \in 0 .. Tasks
      BY <2>1 DEF GopTypeOK
    <2>5. /\ idle \in Seq(Workers)
          /\ mail \in [Workers -> Seq(Int)]
          /\ doing \in [Workers -> {"wait", "encode", "return", "exit"}]
          /\ gop_of \in [Workers -> Int]
      BY <2>1 DEF WorkInv
    <2>6. /\ gops_read \in 0 .. count
          /\ drained \in Nat
          /\ rea_pc \in {"recv", "drain", "close", "done"}
          /\ delivered \in Seq(Nat)
      BY <2>1 DEF ReaInv
    <2> QED BY <2>2, <2>3, <2>4, <2>5, <2>6, Zenon DEF TypeOK
  <1> QED BY <1>1, InvHolds, DroppedType, PTL

\* A packet is forwarded only for a frame that was sent.
LEMMA ForwardsSent ==
  ASSUME Inv, Forward
  PROVE  Len(delivered) < sent /\ delivered' = Append(delivered, Len(delivered))
PROOF
  <1>0. SplitInv /\ GopTypeOK /\ GopChain /\ WorkInv /\ ReaInv
    BY DEF Inv
  <1>1. /\ count \in Nat /\ taken \in 0 .. Len(subgops) /\ gops_read \in 0 .. count
        /\ last_idx \in Nat /\ drained \in Nat /\ received \in Nat /\ emitted \in Nat
        /\ sent \in Nat /\ received <= sent
    BY <1>0, ByGopAssumption DEF GopTypeOK, ReaInv, SplitInv, SplitTypeOK
  <1>2. /\ gops_read = last_idx + 1
        /\ Len(delivered) = gop_first[last_idx] + drained
        /\ drained < gop_packets[last_idx]
        /\ delivered' = Append(delivered, gop_first[last_idx] + drained)
    BY <1>0 DEF Forward, ReaInv
  <1>3. last_idx \in 0 .. count - 1
    BY <1>1, <1>2
  <1>4. /\ gop_packets[last_idx] \in Nat /\ gop_first[last_idx] \in Nat
        /\ gop_sent[last_idx] \in Nat
    BY <1>0, <1>3, GopEntries
  <1>5. gop_packets[last_idx] <= gop_sent[last_idx]
    BY <1>0, <1>3 DEF WorkInv
  <1>6. gop_first[last_idx] + gop_sent[last_idx] <= EndOf(taken)
    BY <1>0, <1>3 DEF GopChain
  <1>7. EndOf(taken) <= emitted /\ EndOf(taken) \in Nat
    BY <1>0, <1>1, EndOfType DEF SplitInv, SplitTypeOK, SubGopChain
  <1>8. emitted <= received
    BY <1>0, <1>1 DEF SplitInv, SplitInBounds, lookahead_len
  <1> QED BY <1>1, <1>2, <1>4, <1>5, <1>6, <1>7, <1>8, SMTT(60)

\* The by-GOP channel implements the order guarantee of the frame service:
\* sending, dropping the sender and forwarding a packet are its steps, all
\* other steps of the tasks are invisible.
THEOREM ImplementsServiceHolds == Spec => ImplementsService
PROOF
  <1>1. Init => Service!Init
    BY DEF Init, Service!Init
  <1>2. Inv /\ [Next]_vars => [Service!Next]_(Service!vars)
    <2> SUFFICES ASSUME Inv, [Next]_vars PROVE [Service!Next]_(Service!vars)
      OBVIOUS
    <2>1. CASE AppSend
      BY <2>1 DEF AppSend, reaVars, Service!Next, Service!Submit
    <2>2. CASE AppDrop
      BY <2>2 DEF AppDrop, reaVars, Service!Next, Service!Close
    <2>3. CASE Forward
      <3>1. Len(delivered) < sent /\ delivered' = Append(delivered, Len(delivered))
        BY <2>3, ForwardsSent
      <3> QED BY <2>3, <3>1 DEF Forward, Service!Next, Service!Deliver
    <2>4. CASE UNCHANGED <<sent, dropped, delivered>>
      BY <2>4 DEF Service!vars
    <2>5. ASSUME NEW w \in Workers, WorkerStep(w) PROVE UNCHANGED <<sent, dropped, delivered>>
      BY <2>5 DEF WorkerStep, reaVars, WorkerReceives, WorkerEncodes, WorkerReturns,
                  WorkerDropsLoad
    <2>6. CASE \/ StartTask \/ ScReceive \/ ScFinish \/ GetWorker \/ Dispatch \/ EncodeEnds
               \/ NextGop \/ GopForwarded \/ Close \/ Terminated \/ UNCHANGED vars
      BY <2>4, <2>6 DEF reaVars, vars, StartTask, ScReceive, ScFinish, GetWorker, Dispatch,
                        EncodeEnds, NextGop, GopForwarded, Close, Terminated
    <2> QED BY <2>1, <2>2, <2>3, <2>4, <2>5, <2>6 DEF Next, Progress
  <1> QED BY <1>1, <1>2, InvHolds, PTL DEF Spec, ImplementsService, Service!SafeSpec

-----------------------------------------------------------------------------
(* Who works on what, and where the GOPs begin: the invariant above is     *)
(* used in the step of every action.                                       *)

Offered(w) == \E i \in 1 .. Len(idle) : idle[i] = w

\* A worker is on offer once, or has one message, or neither; and it is
\* neither at work nor gone meanwhile.
OfferInv ==
  /\ \A i, j \in 1 .. Len(idle) : idle[i] = idle[j] => i = j
  /\ \A w \in Workers :
       /\ Len(mail[w]) <= 1
       /\ Offered(w) => mail[w] = <<>>
       /\ Offered(w) \/ mail[w] # <<>> => doing[w] \in {"wait", "return"}

\* scenechange: the cuts are the ends of the SubGops that end a GOP, apart
\* from the end of the input.
CutInv ==
  /\ sc_pc # "done" => processed = emitted + frames
  /\ \A i, j \in 0 .. Len(subgops) : i < j => EndOf(i) < EndOf(j)
  /\ \A i \in 1 .. Len(subgops) :
       subgops[i].end_gop => \/ EndOf(i) \in cuts
                             \/ sc_pc = "done" /\ EndOf(i) = received
  /\ \A c \in cuts : \E i \in 1 .. Len(subgops) :
       subgops[i].end_gop /\ EndOf(i) = c

\* encode: a GOP begins where a SubGop that ends a GOP was taken, and the
\* next one has begun unless encode still waits for its worker.
Begun(n) == \E g \in 0 .. count - 1 : gop_first[g] = EndOf(n)

StartInv ==
  /\ enc_pc = "get_worker" /\ taken > 0 => subgops[taken].end_gop
  /\ \A g \in 0 .. count - 1 :
       \/ gop_first[g] = 0
       \/ \E i \in 1 .. taken : subgops[i].end_gop /\ gop_first[g] = EndOf(i)
  /\ \A i \in 1 .. taken :
       subgops[i].end_gop => Begun(i) \/ (i = taken /\ enc_pc = "get_worker")

-----------------------------------------------------------------------------
(* Offers *)

\* get_worker and WorkerPoolRecv::close take the first worker on offer and
\* send it a message: it is then on offer no more.
LEMMA HandOverKeepsOffers ==
  ASSUME WorkInv, OfferInv, idle # <<>>, NEW load \in Int,
         idle' = Tail(idle), doing' = doing,
         mail' = [mail EXCEPT ![Head(idle)] = Append(@, load)]
  PROVE  OfferInv'
PROOF
  <1>1. idle \in Seq(Workers) /\ mail \in [Workers -> Seq(Int)]
    BY DEF WorkInv
  <1>2. /\ Len(idle) \in Nat \ {0} /\ Len(idle') = Len(idle) - 1
        /\ \A i \in 1 .. Len(idle') : idle'[i] = idle[i + 1]
        /\ Head(idle) = idle[1] /\ Head(idle) \in Workers
    BY <1>1
  <1>3. \A i, j \in 1 .. Len(idle') : idle'[i] = idle'[j] => i = j
    BY <1>2 DEF OfferInv
  <1>4. ASSUME NEW w \in Workers, Offered(w)'
        PROVE  Offered(w) /\ w # Head(idle)
    <2>1. PICK i \in 1 .. Len(idle') : idle'[i] = w
      BY <1>4 DEF Offered
    <2>2. i + 1 \in 1 .. Len(idle) /\ 1 \in 1 .. Len(idle) /\ idle[i + 1] = w /\ i + 1 # 1
      BY <1>2, <2>1
    <2> QED BY <1>2, <2>2 DEF Offered, OfferInv
  <1>5. ASSUME NEW w \in Workers
        PROVE  /\ Len(mail'[w]) <= 1
               /\ Offered(w)' => mail'[w] = <<>>
               /\ Offered(w)' \/ mail'[w] # <<>> => doing'[w] \in {"wait", "return"}
    <2>1. CASE w = Head(idle)
      <3>1. Offered(w)
        BY <1>2, <2>1 DEF Offered
      <3>2. mail[w] = <<>> /\ doing[w] \in {"wait", "return"}
        BY <3>1 DEF OfferInv
      <3>3. mail'[w] = Append(mail[w], load) /\ mail[w] \in Seq(Int) /\ Len(mail[w]) = 0
        BY <1>1, <2>1, <3>2
      <3>4. Len(mail'[w]) = 1
        BY <3>3
      <3> QED BY <1>4, <2>1, <3>2, <3>4
    <2>2. CASE w # Head(idle)
      <3>1. mail'[w] = mail[w]
        BY <1>1, <2>2
      <3> QED BY <1>4, <3>1 DEF OfferInv
    <2> QED BY <2>1, <2>2
  <1> QED BY <1>3, <1>5 DEF OfferInv

\* The worker's own steps: it takes its only message, offers itself when it
\* is not on offer, and goes back to waiting.
LEMMA WorkerKeepsOffers ==
  ASSUME WorkInv, OfferInv, NEW w \in Workers, WorkerStep(w)
  PROVE  OfferInv'
PROOF
  <1>0. /\ idle \in Seq(Workers) /\ mail \in [Workers -> Seq(Int)]
        /\ doing \in [Workers -> {"wait", "encode", "return", "exit"}]
        /\ mail[w] \in Seq(Int)
    BY DEF WorkInv
  <1>1. CASE WorkerReceives(w)
    <2>1. /\ idle' = idle /\ mail[w] # <<>>
          /\ mail' = [mail EXCEPT ![w] = Tail(@)]
          /\ \A v \in Workers \ {w} : mail'[v] = mail[v] /\ doing'[v] = doing[v]
      BY <1>0, <1>1 DEF WorkerReceives
    <2>2. Len(mail[w]) <= 1
      BY DEF OfferInv
    <2>3. ~Offered(w)
      BY <2>1, Zenon DEF OfferInv
    <2>4. mail'[w] = <<>>
      BY <1>0, <2>1, <2>2
    <2> QED BY <2>1, <2>3, <2>4 DEF OfferInv, Offered
  <1>2. CASE WorkerEncodes(w)
    BY <1>2 DEF WorkerEncodes, workVars, OfferInv, Offered
  <1>3. CASE WorkerReturns(w)
    <2>1. /\ idle' = Append(idle, w) /\ mail' = mail /\ doing[w] = "encode"
          /\ doing'[w] = "return"
          /\ \A v \in Workers \ {w} : doing'[v] = doing[v]
      BY <1>0, <1>3 DEF WorkerReturns
    <2>2. ~Offered(w) /\ mail[w] = <<>>
      BY <2>1 DEF OfferInv
    <2>3. /\ Len(idle) \in Nat /\ Len(idle') = Len(idle) + 1 /\ idle'[Len(idle) + 1] = w
          /\ \A i \in 1 .. Len(idle) : idle'[i] = idle[i] /\ idle[i] # w
      BY <1>0, <2>1, <2>2 DEF Offered
    <2>4. \A i, j \in 1 .. Len(idle') : idle'[i] = idle'[j] => i = j
      <3>1. \A i \in 1 .. Len(idle') : i \in 1 .. Len(idle) \/ i = Len(idle) + 1
        BY <2>3
      <3> QED BY <2>3, <3>1 DEF OfferInv
    <2>5. \A v \in Workers \ {w} : Offered(v)' => Offered(v)
      <3> SUFFICES ASSUME NEW v \in Workers \ {w}, NEW i \in 1 .. Len(idle'), idle'[i] = v
                   PROVE  Offered(v)
        BY DEF Offered
      <3>1. i \in 1 .. Len(idle)
        BY <2>3
      <3> QED BY <2>3, <3>1 DEF Offered
    <2> QED BY <2>1, <2>2, <2>4, <2>5 DEF OfferInv
  <1>4. CASE WorkerDropsLoad(w)
    <2>1. /\ idle' = idle /\ mail' = mail /\ doing'[w] = "wait"
          /\ \A v \in Workers \ {w} : doing'[v] = doing[v]
      BY <1>0, <1>4 DEF WorkerDropsLoad
    <2> QED BY <2>1 DEF OfferInv, Offered
  <1> QED BY <1>1, <1>2, <1>3, <1>4 DEF WorkerStep

\* Nobody but encode, reassemble's close and the worker itself changes who
\* is on offer.
LEMMA NextOffers == Inv /\ OfferInv /\ [Next]_vars => OfferInv'
PROOF
  <1> SUFFICES ASSUME Inv, OfferInv, [Next]_vars PROVE OfferInv'
    OBVIOUS
  <1>0. WorkInv /\ count \in Int /\ None \in Int
    BY DEF Inv, GopTypeOK, None
  <1>1. CASE UNCHANGED workVars
    BY <1>1 DEF workVars, OfferInv, Offered
  <1>2. CASE \/ StartTask \/ AppSend \/ AppDrop \/ ScReceive \/ ScFinish \/ Dispatch
             \/ EncodeEnds \/ NextGop \/ Forward \/ GopForwarded \/ Terminated
             \/ UNCHANGED vars
    <2>1. UNCHANGED workVars
      BY <1>2 DEF StartTask, AppSend, AppDrop, ScReceive, ScFinish, Dispatch, EncodeEnds,
                  NextGop, Forward, GopForwarded, Terminated, vars
    <2> QED BY <1>1, <2>1
  <1>3. CASE GetWorker
    BY <1>0, <1>3, HandOverKeepsOffers DEF GetWorker
  <1>4. CASE Close
    <2>1. CASE idle' = idle /\ mail' = mail
      BY <1>1, <1>4, <2>1 DEF Close, workVars
    <2>2. CASE /\ idle # <<>> /\ idle' = Tail(idle)
               /\ mail' = [mail EXCEPT ![Head(idle)] = Append(@, None)]
      BY <1>0, <1>4, <2>2, HandOverKeepsOffers DEF Close
    <2> QED BY <1>4, <2>1, <2>2 DEF Close
  <1>5. ASSUME NEW w \in Workers, WorkerStep(w) PROVE OfferInv'
    BY <1>0, <1>5, WorkerKeepsOffers
  <1> QED BY <1>2, <1>3, <1>4, <1>5 DEF Next, Progress

\* However the tasks interleave, a worker is on offer at most once.
LEMMA OfferInvHolds == Spec => []OfferInv
PROOF
  <1>1. Init => OfferInv
    BY ByGopAssumption DEF Init, OfferInv, Workers
  <1> QED BY <1>1, NextOffers, InvHolds, PTL DEF Spec

\* A worker has at most one GOP at a time: `encode` and the close of the
\* pool never hand work to a worker that has some, is at work or has exited.
THEOREM OneGopPerWorkerHolds == Spec => []OneGopPerWorker
PROOF
  <1>1. WorkInv /\ OfferInv => OneGopPerWorker
    <2> SUFFICES ASSUME WorkInv, OfferInv, NEW w \in Workers
                 PROVE  LET offers == Cardinality({i \in DOMAIN idle : idle[i] = w})
                        IN /\ offers + Len(mail[w]) <= 1
                           /\ doing[w] \in {"encode", "exit"} => offers + Len(mail[w]) = 0
      BY DEF OneGopPerWorker
    <2> DEFINE places == {i \in DOMAIN idle : idle[i] = w}
    <2>0. DOMAIN idle = 1 .. Len(idle) /\ Len(mail[w]) \in Nat
          /\ (mail[w] # <<>> <=> Len(mail[w]) # 0)
      BY DEF WorkInv
    <2>1. CASE Offered(w)
      <3>1. PICK i \in 1 .. Len(idle) : idle[i] = w
        BY <2>1 DEF Offered
      <3>2. places = {i}
        BY <2>0, <3>1 DEF OfferInv
      <3>3. Cardinality(places) = 1
        BY <3>2, FS_Singleton
      <3>4. Len(mail[w]) = 0 /\ doing[w] \in {"wait", "return"}
        BY <2>0, <2>1 DEF OfferInv
      <3> QED BY <3>3, <3>4
    <2>2. CASE ~Offered(w)
      <3>1. places = {}
        BY <2>0, <2>2 DEF Offered
      <3>2. Cardinality(places) = 0
        BY <3>1, FS_EmptySet
      <3>3. Len(mail[w]) <= 1 /\ (Len(mail[w]) # 0 => doing[w] \in {"wait", "return"})
        BY <2>0 DEF OfferInv
      <3> HIDE DEF places
      <3>4. Cardinality(places) + Len(mail[w]) = Len(mail[w])
        BY <2>0, <3>2
      <3> QED BY <2>0, <3>3, <3>4 DEF places
    <2> QED BY <2>1, <2>2
  <1>2. Inv => WorkInv
    BY DEF Inv
  <1> QED BY <1>1, <1>2, InvHolds, OfferInvHolds, PTL

-----------------------------------------------------------------------------
(* Cuts *)

EndsIncrease == \A i, j \in 0 .. Len(subgops) : i < j => EndOf(i) < EndOf(j)

\* The SubGop that is sent ends after all the others.
LEMMA EmitEnds ==
  ASSUME SplitTypeOK, SubGopChain, EndsIncrease,
         NEW pos \in Nat \ {0}, NEW end_gop \in BOOLEAN, Emit(pos, end_gop),
         NEW n, n = Len(subgops)
  PROVE  /\ n \in Nat /\ Len(subgops') = n + 1
         /\ \A i \in 0 .. n : EndOf(i)' = EndOf(i)
         /\ \A i \in 1 .. n : subgops'[i] = subgops[i]
         /\ EndOf(n + 1)' = emitted + pos
         /\ subgops'[n + 1].end_gop = end_gop
         /\ EndsIncrease'
PROOF
  <1> DEFINE sg == [first |-> emitted, len |-> pos, end_gop |-> end_gop]
  <1>1. sg \in SubGopType /\ sg.first = emitted /\ sg.len = pos /\ sg.end_gop = end_gop
    BY DEF SubGopType, SplitTypeOK
  <1>2. /\ subgops' = Append(subgops, sg) /\ subgops \in Seq(SubGopType)
        /\ emitted \in Nat
    BY DEF Emit, SplitTypeOK
  <1> HIDE DEF sg
  <1>3. /\ n \in Nat /\ Len(subgops') = n + 1
        /\ \A i \in 1 .. n : subgops'[i] = subgops[i]
        /\ subgops'[n + 1] = sg
    BY <1>1, <1>2
  <1>4. \A i \in 0 .. n : EndOf(i)' = EndOf(i)
    BY <1>3 DEF EndOf
  <1>5. EndOf(n + 1)' = emitted + pos
    BY <1>1, <1>3 DEF EndOf
  <1>6. \A i \in 0 .. n : EndOf(i) \in Nat /\ EndOf(i) <= emitted
    BY <1>2, EndOfType DEF SubGopChain
  <1>7. EndsIncrease'
    <2> SUFFICES ASSUME NEW i \in 0 .. n + 1, NEW j \in 0 .. n + 1, i < j
                 PROVE  EndOf(i)' < EndOf(j)'
      BY <1>3 DEF EndsIncrease
    <2>1. i \in 0 .. n
      BY <1>3
    <2>2. CASE j = n + 1
      BY <1>2, <1>4, <1>5, <1>6, <2>1, <2>2
    <2>3. CASE j \in 0 .. n
      BY <1>4, <2>1, <2>3 DEF EndsIncrease
    <2> QED BY <1>3, <2>2, <2>3
  <1> QED BY <1>1, <1>3, <1>4, <1>5, <1>7

EndIsCut ==
  \A i \in 1 .. Len(subgops) :
    subgops[i].end_gop => \/ EndOf(i) \in cuts
                          \/ sc_pc = "done" /\ EndOf(i) = received

CutIsEnd ==
  \A c \in cuts : \E i \in 1 .. Len(subgops) : subgops[i].end_gop /\ EndOf(i) = c

\* SceneChange::split reports a cut at the very frame where it ends the GOP.
LEMMA SplitCuts ==
  ASSUME SplitInv, CutInv, sc_pc # "done", sc_pc' = sc_pc,
         NEW new_gop \in BOOLEAN, split(new_gop)
  PROVE  CutInv'
PROOF
  <1> USE PyramidAssumption
  <1>0. /\ SplitTypeOK /\ SubGopChain /\ EndsIncrease /\ EndIsCut /\ CutIsEnd
        /\ frames \in Nat /\ processed \in Nat /\ emitted \in Nat
        /\ frames <= pyramid_size + 1 /\ processed = emitted + frames
    BY DEF SplitInv, SplitTypeOK, SplitInBounds, lookahead_distance, CutInv, EndsIncrease,
           EndIsCut, CutIsEnd
  <1>1. /\ processed' = processed + 1
        /\ cuts' = IF new_gop THEN cuts \cup {processed + 1} ELSE cuts
    BY DEF split
  <1>2. ASSUME NEW pos \in Nat \ {0}, pos = frames + 1, frames' = 0, Emit(pos, new_gop)
        PROVE  CutInv'
    <2>0. PICK n : n = Len(subgops)
      OBVIOUS
    <2>1. /\ n \in Nat /\ Len(subgops') = n + 1
          /\ \A i \in 0 .. n : EndOf(i)' = EndOf(i)
          /\ \A i \in 1 .. n : subgops'[i] = subgops[i]
          /\ EndOf(n + 1)' = processed'
          /\ subgops'[n + 1].end_gop = new_gop
          /\ EndsIncrease'
      <3>1. emitted + pos = processed'
        BY <1>0, <1>1, <1>2
      <3> QED BY <1>0, <1>2, <2>0, <3>1, EmitEnds
    <2>2. processed' = emitted' + frames'
      BY <1>0, <1>1, <1>2 DEF Emit
    <2>3. \A i \in 1 .. n + 1 : i \in 1 .. n \/ i = n + 1
      BY <2>1
    <2>4. EndIsCut'
      <3> SUFFICES ASSUME NEW i \in 1 .. n + 1, subgops'[i].end_gop
                   PROVE  EndOf(i)' \in cuts'
        BY <2>1 DEF EndIsCut
      <3>1. CASE i \in 1 .. n
        <4>1. i \in 0 .. n
          BY <2>1, <3>1
        <4>2. EndOf(i) \in cuts
          BY <1>0, <2>0, <2>1, <3>1 DEF EndIsCut
        <4> QED BY <1>1, <2>1, <4>1, <4>2
      <3>2. CASE i = n + 1
        BY <1>1, <2>1, <3>2
      <3> QED BY <2>3, <3>1, <3>2
    <2>5. CutIsEnd'
      <3> SUFFICES ASSUME NEW c \in cuts'
                   PROVE  \E i \in 1 .. n + 1 : subgops'[i].end_gop /\ EndOf(i)' = c
        BY <2>1 DEF CutIsEnd
      <3>1. CASE c \in cuts
        <4>1. PICK i \in 1 .. n : subgops[i].end_gop /\ EndOf(i) = c
          BY <1>0, <2>0, <3>1 DEF CutIsEnd
        <4>2. i \in 1 .. n + 1 /\ i \in 0 .. n
          BY <2>1
        <4> QED BY <2>1, <4>1, <4>2
      <3>2. CASE new_gop /\ c = processed + 1
        <4>1. n + 1 \in 1 .. n + 1
          BY <2>1
        <4> QED BY <1>1, <2>1, <3>2, <4>1
      <3> QED BY <1>1, <3>1, <3>2
    <2> QED BY <2>1, <2>2, <2>4, <2>5 DEF CutInv, EndsIncrease, EndIsCut, CutIsEnd
  <1>3. CASE /\ frames > pyramid_size
             /\ frames' = frames - (pyramid_size + 1)
             /\ Emit(pyramid_size + 2, new_gop)
    <2>1. pyramid_size + 2 \in Nat \ {0} /\ pyramid_size + 2 = frames + 1 /\ frames' = 0
      BY <1>0, <1>3
    <2> QED BY <1>2, <1>3, <2>1
  <1>4. CASE frames <= pyramid_size /\ new_gop /\ frames' = 0 /\ Emit(frames + 1, TRUE)
    <2>1. frames + 1 \in Nat \ {0} /\ new_gop = TRUE
      BY <1>0, <1>4
    <2> QED BY <1>2, <1>4, <2>1
  <1>5. CASE /\ frames <= pyramid_size /\ ~new_gop
             /\ frames' = frames + 1
             /\ UNCHANGED <<subgops, emitted>>
    <2>1. processed' = emitted' + frames' /\ cuts' = cuts
      BY <1>0, <1>1, <1>5
    <2>2. \A i : EndOf(i)' = EndOf(i)
      BY <1>5 DEF EndOf
    <2>3. EndIsCut' /\ CutIsEnd' /\ EndsIncrease'
      BY <1>0, <1>5, <2>1, <2>2 DEF EndIsCut, CutIsEnd, EndsIncrease
    <2> QED BY <2>1, <2>3 DEF CutInv, EndIsCut, CutIsEnd, EndsIncrease
  <1> QED BY <1>3, <1>4, <1>5 DEF split

\* Every step of scenechange keeps the cuts and the ends of GOPs together;
\* the frames that are left over end a GOP at the end of the input.
LEMMA SplitStepCuts ==
  ASSUME SplitInv, CutInv, SplitStep
  PROVE  CutInv'
PROOF
  <1>0. SplitTypeOK /\ SubGopChain /\ EndsIncrease /\ EndIsCut /\ CutIsEnd
    BY DEF SplitInv, CutInv, EndsIncrease, EndIsCut, CutIsEnd
  <1>1. CASE Collect \/ InputEnds
    <2>1. /\ UNCHANGED <<emitted, frames, processed, cuts, subgops>>
          /\ sc_pc # "done" /\ sc_pc' # "done"
      BY <1>1 DEF Collect, InputEnds
    <2>2. \A i : EndOf(i)' = EndOf(i)
      BY <2>1 DEF EndOf
    <2> QED BY <2>1, <2>2 DEF CutInv
  <1>2. CASE EmitRest
    <2>1. /\ sc_pc = "drain" /\ sc_pc' = "done"
          /\ UNCHANGED <<received, cuts>>
          /\ received \in Nat /\ emitted \in Nat /\ lookahead_len >= 0
      BY <1>2 DEF EmitRest, SplitInv, SplitTypeOK, SplitInBounds
    <2>2. CASE lookahead_len > 0
      <3>1. lookahead_len \in Nat \ {0} /\ emitted + lookahead_len = received
        BY <2>1, <2>2 DEF lookahead_len
      <3>2. Emit(lookahead_len, TRUE)
        BY <1>2, <2>2 DEF EmitRest
      <3>3. PICK n : n = Len(subgops)
        OBVIOUS
      <3>4. /\ n \in Nat /\ Len(subgops') = n + 1
            /\ \A i \in 0 .. n : EndOf(i)' = EndOf(i)
            /\ \A i \in 1 .. n : subgops'[i] = subgops[i]
            /\ EndOf(n + 1)' = received
            /\ subgops'[n + 1].end_gop = TRUE
            /\ EndsIncrease'
        BY <1>0, <3>1, <3>2, <3>3, EmitEnds
      <3>5. \A i \in 1 .. n + 1 : i = n + 1 \/ (i \in 1 .. n /\ i \in 0 .. n)
        BY <3>4
      <3>6. EndIsCut'
        <4> SUFFICES ASSUME NEW i \in 1 .. n + 1, subgops'[i].end_gop
                     PROVE  EndOf(i)' \in cuts \/ EndOf(i)' = received
          BY <2>1, <3>4 DEF EndIsCut
        <4>1. CASE i \in 1 .. n /\ i \in 0 .. n
          BY <1>0, <2>1, <3>3, <3>4, <4>1 DEF EndIsCut
        <4> QED BY <3>4, <3>5, <4>1
      <3>7. CutIsEnd'
        <4> SUFFICES ASSUME NEW c \in cuts
                     PROVE  \E i \in 1 .. n + 1 : subgops'[i].end_gop /\ EndOf(i)' = c
          BY <2>1, <3>4 DEF CutIsEnd
        <4>1. PICK i \in 1 .. n : subgops[i].end_gop /\ EndOf(i) = c
          BY <1>0, <3>3 DEF CutIsEnd
        <4>2. i \in 1 .. n + 1 /\ i \in 0 .. n
          BY <3>4
        <4> QED BY <3>4, <4>1, <4>2
      <3> QED BY <2>1, <3>4, <3>6, <3>7 DEF CutInv, EndsIncrease, EndIsCut, CutIsEnd
    <2>3. CASE ~(lookahead_len > 0)
      <3>1. UNCHANGED subgops
        BY <1>2, <2>3 DEF EmitRest
      <3>2. \A i : EndOf(i)' = EndOf(i)
        BY <3>1 DEF EndOf
      <3>3. EndIsCut' /\ CutIsEnd' /\ EndsIncrease'
        BY <1>0, <2>1, <3>1, <3>2 DEF EndIsCut, CutIsEnd, EndsIncrease
      <3> QED BY <2>1, <3>3 DEF CutInv, EndsIncrease, EndIsCut, CutIsEnd
    <2> QED BY <2>2, <2>3
  <1>3. ASSUME NEW new_gop \in BOOLEAN, Analyse(new_gop) \/ Drain(new_gop)
        PROVE  CutInv'
    <2>1. split(new_gop) /\ sc_pc # "done" /\ sc_pc' = sc_pc
      BY <1>3 DEF Analyse, Drain
    <2> QED BY <2>1, SplitCuts
  <1> QED BY <1>1, <1>2, <1>3 DEF SplitStep

-----------------------------------------------------------------------------
(* Where GOPs begin *)

\* A step that leaves encode and the GOPs alone, and the SubGops taken.
LEMMA KeepsStarts ==
  ASSUME Inv, StartInv, KeepsSubGops, UNCHANGED <<taken, enc_pc, count, gop_first>>
  PROVE  StartInv'
PROOF
  <1>1. taken \in 0 .. Len(subgops)
    BY DEF Inv, GopTypeOK
  <1>2. \A i \in 1 .. taken : EndOf(i)' = EndOf(i) /\ subgops'[i] = subgops[i]
    BY <1>1 DEF EndOf, KeepsSubGops
  <1>3. taken > 0 => taken \in 1 .. taken
    BY <1>1
  <1>4. \A i \in 1 .. taken : Begun(i)' <=> Begun(i)
    BY <1>2 DEF Begun
  <1> QED BY <1>2, <1>3, <1>4 DEF StartInv

\* get_worker: the new GOP begins at the SubGop that ended the last one.
LEMMA GetWorkerStarts ==
  ASSUME Inv, StartInv, GetWorker
  PROVE  StartInv'
PROOF
  <1>0. /\ count \in Nat /\ taken \in Nat
        /\ count' = count + 1 /\ taken' = taken /\ enc_pc = "get_worker" /\ enc_pc' = "recv"
        /\ subgops' = subgops
        /\ gop_first' = [g \in 0 .. count |-> IF g = count THEN EndOf(taken) ELSE gop_first[g]]
    BY DEF Inv, GopTypeOK, GetWorker, Extend, splitVars
  <1>1. \A i : EndOf(i)' = EndOf(i)
    BY <1>0 DEF EndOf
  <1>2. /\ 0 .. count' - 1 = 0 .. count
        /\ \A g \in 0 .. count : g = count \/ g \in 0 .. count - 1
        /\ \A g \in 0 .. count - 1 : g \in 0 .. count /\ gop_first'[g] = gop_first[g]
        /\ gop_first'[count] = EndOf(taken)
    BY <1>0
  <1>3. ASSUME NEW g \in 0 .. count
        PROVE  \/ gop_first'[g] = 0
               \/ \E i \in 1 .. taken : subgops[i].end_gop /\ gop_first'[g] = EndOf(i)
    <2>1. CASE g = count
      <3>1. CASE taken = 0
        BY <1>2, <2>1, <3>1 DEF EndOf
      <3>2. CASE taken > 0
        <4>1. taken \in 1 .. taken /\ subgops[taken].end_gop
          BY <1>0, <3>2 DEF StartInv
        <4> QED BY <1>2, <2>1, <4>1
      <3> QED BY <1>0, <3>1, <3>2
    <2>2. CASE g \in 0 .. count - 1
      BY <1>2, <2>2 DEF StartInv
    <2> QED BY <1>2, <2>1, <2>2
  <1>4. ASSUME NEW i \in 1 .. taken, subgops[i].end_gop
        PROVE  \E g \in 0 .. count : gop_first'[g] = EndOf(i)
    <2>1. CASE i = taken
      <3>1. count \in 0 .. count
        BY <1>0
      <3> QED BY <1>2, <2>1, <3>1
    <2>2. CASE i # taken
      <3>1. PICK g \in 0 .. count - 1 : gop_first[g] = EndOf(i)
        BY <1>4, <2>2 DEF StartInv, Begun
      <3> QED BY <1>2, <3>1
    <2> QED BY <2>1, <2>2
  <1> QED BY <1>0, <1>1, <1>2, <1>3, <1>4 DEF StartInv, Begun

\* encode: after the SubGop that ends a GOP it waits for another worker.
LEMMA DispatchStarts ==
  ASSUME Inv, StartInv, Dispatch
  PROVE  StartInv'
PROOF
  <1>0. PICK n : n = taken
    OBVIOUS
  <1>1. /\ n \in Nat /\ taken' = n + 1
        /\ UNCHANGED <<subgops, count, gop_first>>
        /\ enc_pc = "recv"
        /\ enc_pc' = IF subgops[n + 1].end_gop THEN "get_worker" ELSE "recv"
    BY <1>0 DEF Inv, GopTypeOK, Dispatch, splitVars
  <1>2. \A i : EndOf(i)' = EndOf(i) /\ (Begun(i)' <=> Begun(i))
    BY <1>1 DEF EndOf, Begun
  <1>3. \A i \in 1 .. n + 1 : i = n + 1 \/ i \in 1 .. n
    BY <1>1
  <1>4. \A i \in 1 .. n : i \in 1 .. n + 1
    BY <1>1
  <1>5. ASSUME NEW g \in 0 .. count - 1
        PROVE  \/ gop_first[g] = 0
               \/ \E i \in 1 .. n + 1 : subgops[i].end_gop /\ gop_first[g] = EndOf(i)
    BY <1>0, <1>4 DEF StartInv
  <1>6. ASSUME NEW i \in 1 .. n + 1, subgops[i].end_gop
        PROVE  Begun(i) \/ (i = n + 1 /\ enc_pc' = "get_worker")
    <2>1. CASE i = n + 1
      BY <1>1, <1>6, <2>1
    <2>2. CASE i \in 1 .. n
      BY <1>0, <1>1, <1>6, <2>2, Zenon DEF StartInv
    <2> QED BY <1>3, <2>1, <2>2
  <1>7. enc_pc' = "get_worker" => subgops[n + 1].end_gop
    BY <1>1
  <1> QED BY <1>1, <1>2, <1>5, <1>6, <1>7 DEF StartInv

\* scenechange and encode together keep both invariants.
LEMMA NextCuts ==
  Inv /\ CutInv /\ StartInv /\ [Next]_vars => CutInv' /\ StartInv'
PROOF
  <1> SUFFICES ASSUME Inv, CutInv, StartInv, [Next]_vars PROVE CutInv' /\ StartInv'
    OBVIOUS
  <1>0. SplitInv
    BY DEF Inv
  <1>1. ASSUME UNCHANGED splitVars PROVE CutInv' /\ KeepsSubGops
    <2>1. \A i : EndOf(i)' = EndOf(i)
      BY <1>1 DEF EndOf, splitVars
    <2>2. CutInv'
      BY <1>1, <2>1 DEF CutInv, splitVars
    <2>3. KeepsSubGops
      BY <1>0, <1>1 DEF KeepsSubGops, splitVars, SplitInv, SplitTypeOK
    <2> QED BY <2>2, <2>3
  <1>2. CASE ScReceive \/ ScFinish
    <2>1. SplitStep
      BY <1>2 DEF ScReceive, ScFinish, SplitStep, NewGop
    <2>2. CutInv' /\ KeepsSubGops
      BY <1>0, <2>1, SplitStepCuts, SplitInvariant
    <2>3. UNCHANGED <<taken, enc_pc, count, gop_first>>
      BY <1>2 DEF ScReceive, ScFinish, encVars, gopVars
    <2> QED BY <2>2, <2>3, KeepsStarts
  <1>3. CASE GetWorker
    BY <1>1, <1>3, GetWorkerStarts DEF GetWorker
  <1>4. CASE Dispatch
    BY <1>1, <1>4, DispatchStarts DEF Dispatch
  <1>5. CASE EncodeEnds
    <2>1. /\ UNCHANGED splitVars /\ enc_pc' = "done"
          /\ UNCHANGED <<taken, count, gop_first>> /\ enc_pc = "recv"
      BY <1>5 DEF EncodeEnds
    <2>2. \A i : EndOf(i)' = EndOf(i) /\ subgops' = subgops
      BY <2>1 DEF EndOf, splitVars
    <2>3. StartInv'
      BY <2>1, <2>2 DEF StartInv, Begun
    <2> QED BY <1>1, <2>1, <2>3
  <1>6. CASE UNCHANGED <<splitVars, taken, enc_pc, count, gop_first>>
    BY <1>1, <1>6, KeepsStarts
  <1>7. CASE \/ StartTask \/ AppSend \/ AppDrop \/ NextGop \/ Forward \/ GopForwarded
             \/ Close \/ Terminated \/ UNCHANGED vars
    BY <1>6, <1>7 DEF StartTask, AppSend, AppDrop, NextGop, Forward, GopForwarded, Close,
                      Terminated, vars, encVars, gopVars
  <1>8. ASSUME NEW w \in Workers, WorkerStep(w) PROVE CutInv' /\ StartInv'
    BY <1>6, <1>8 DEF WorkerStep, WorkerReceives, WorkerEncodes, WorkerReturns,
                      WorkerDropsLoad, encVars, gopVars
  <1> QED BY <1>2, <1>3, <1>4, <1>5, <1>7, <1>8 DEF Next, Progress

\* The cuts of the detector, the ends of SubGops and the starts of GOPs
\* agree in every state.
LEMMA CutInvHolds == Spec => [](CutInv /\ StartInv)
PROOF
  <1>1. Init => CutInv /\ StartInv
    BY DEF Init, SplitInit, CutInv, StartInv
  <1> QED BY <1>1, NextCuts, InvHolds, PTL DEF Spec

\* A GOP begins exactly at a cut the detector reported, at the first frame
\* or at the end of the input: SceneChange::split and the dispatch in
\* `encode` agree, for every pyramid size and every sequence of answers.
THEOREM GopsStartAtCutsHolds == Spec => []GopsStartAtCuts
PROOF
  <1>1. Inv /\ CutInv /\ StartInv => GopsStartAtCuts
    <2> SUFFICES ASSUME Inv, CutInv, StartInv PROVE GopsStartAtCuts
      OBVIOUS
    <2>0. taken \in 0 .. Len(subgops) /\ Len(subgops) \in Nat /\ subgops \in Seq(SubGopType)
      BY DEF Inv, GopTypeOK, SplitInv, SplitTypeOK
    <2>1. ASSUME NEW g \in 0 .. count - 1
          PROVE  \/ gop_first[g] \in cuts \cup {0}
                 \/ sc_pc = "done" /\ gop_first[g] = received
      <3>1. CASE gop_first[g] = 0
        BY <3>1
      <3>2. CASE \E i \in 1 .. taken : subgops[i].end_gop /\ gop_first[g] = EndOf(i)
        <4>1. PICK i \in 1 .. taken : subgops[i].end_gop /\ gop_first[g] = EndOf(i)
          BY <3>2
        <4>2. i \in 1 .. Len(subgops)
          BY <2>0
        <4> QED BY <4>1, <4>2 DEF CutInv
      <3> QED BY <3>1, <3>2 DEF StartInv
    <2>2. ASSUME NEW c \in cuts, c < EndOf(taken)
          PROVE  \E g \in 0 .. count - 1 : gop_first[g] = c
      <3>1. PICK i \in 1 .. Len(subgops) : subgops[i].end_gop /\ EndOf(i) = c
        BY DEF CutInv
      <3>2. EndOf(i) \in Nat /\ EndOf(taken) \in Nat
        BY <2>0, EndOfType
      <3>3. i < taken
        <4>1. CASE i = taken
          BY <2>2, <3>1, <3>2, <4>1
        <4>2. CASE taken < i
          <5>1. EndOf(taken) < EndOf(i)
            BY <2>0, <4>2 DEF CutInv
          <5> QED BY <2>2, <3>1, <3>2, <5>1
        <4> QED BY <2>0, <4>1, <4>2
      <3>4. i \in 1 .. taken /\ i # taken
        BY <2>0, <3>3
      <3> QED BY <3>1, <3>4 DEF StartInv, Begun
    <2> QED BY <2>1, <2>2 DEF GopsStartAtCuts
  <1> QED BY <1>1, InvHolds, CutInvHolds, PTL
=============================================================================
