------------------------------ MODULE TileProofs ------------------------------
(***************************************************************************)
(* Proofs about what encode_tile writes: the rollback of the symbol writer *)
(* (SymbolWriter), for every layout of the CDFContext, every set of        *)
(* symbols and every nesting of checkpoints; the integer codes             *)
(* (IntegerCodes), for every number they are used for; and the queue of    *)
(* the superblocks that wait for their loop filters (LfQueue), for every   *)
(* frame, every division into tiles and every size of restoration units.   *)
(***************************************************************************)
EXTENDS SymbolWriter, IntegerCodes, LfQueue, BoundedRecursion

Words == DOMAIN InitialFc
Cdfs == DOMAIN Layout
Written == Cdfs \X Nat

\* A function on the words.
IsWords(words) == words = [i \in Words |-> words[i]]

\* A sequence, of whatever it may be.
IsSeq(s) == \E S : s \in Seq(S)

\* Words that are in no CDF.
Padding(i) == \A c \in Cdfs : i \notin OwnWords(c)

-----------------------------------------------------------------------------
(* Sequences *)

\* One more element.
LEMMA AppendFacts ==
  ASSUME NEW s, IsSeq(s), NEW x
  PROVE  /\ IsSeq(Append(s, x)) /\ Len(s) \in Nat /\ Len(Append(s, x)) = Len(s) + 1
         /\ Append(s, x)[Len(s) + 1] = x
         /\ \A i \in 1 .. Len(s) : Append(s, x)[i] = s[i]
PROOF
  <1>1. PICK S : s \in Seq(S)
    BY DEF IsSeq
  <1> DEFINE T == S \cup {x}
  <1>2. s \in Seq(T)
    BY <1>1
  <1>3. x \in T
    OBVIOUS
  <1> HIDE DEF T
  <1>4. Append(s, x) \in Seq(T)
    BY <1>2, <1>3
  <1>5. /\ Len(s) \in Nat /\ Len(Append(s, x)) = Len(s) + 1
        /\ Append(s, x)[Len(s) + 1] = x
        /\ \A i \in 1 .. Len(s) : Append(s, x)[i] = s[i]
    BY <1>2, <1>3
  <1> QED BY <1>4, <1>5 DEF IsSeq

\* The first n elements.
LEMMA PrefixFacts ==
  ASSUME NEW s, IsSeq(s), NEW n \in 0 .. Len(s)
  PROVE  /\ IsSeq(SubSeq(s, 1, n)) /\ Len(SubSeq(s, 1, n)) = n
         /\ \A i \in 1 .. n : SubSeq(s, 1, n)[i] = s[i]
         /\ \A k \in 0 .. n : SubSeq(SubSeq(s, 1, n), 1, k) = SubSeq(s, 1, k)
         /\ Len(s) \in Nat
         /\ SubSeq(s, 1, Len(s)) = s
PROOF
  <1>1. PICK S : s \in Seq(S)
    BY DEF IsSeq
  <1>2. SubSeq(s, 1, n) \in Seq(S) /\ Len(s) \in Nat
    BY <1>1
  <1>3. Len(SubSeq(s, 1, n)) = n /\ \A i \in 1 .. n : SubSeq(s, 1, n)[i] = s[i]
    BY <1>1
  <1>4. ASSUME NEW k \in 0 .. n PROVE SubSeq(SubSeq(s, 1, n), 1, k) = SubSeq(s, 1, k)
    BY <1>1, <1>2, <1>3
  <1>5. SubSeq(s, 1, Len(s)) = s
    BY <1>1
  <1> QED BY <1>2, <1>3, <1>4, <1>5 DEF IsSeq

\* A prefix is not changed by one more element, and is one more element longer
\* than the prefix before.
LEMMA PrefixAppend ==
  ASSUME NEW s, IsSeq(s), NEW x, NEW n \in 0 .. Len(s)
  PROVE  /\ SubSeq(Append(s, x), 1, n) = SubSeq(s, 1, n)
         /\ n < Len(s) => SubSeq(s, 1, n + 1) = Append(SubSeq(s, 1, n), s[n + 1])
PROOF
  <1>1. PICK S : s \in Seq(S)
    BY DEF IsSeq
  <1> DEFINE T == S \cup {x}
  <1>2. s \in Seq(T)
    BY <1>1
  <1>3. x \in T
    OBVIOUS
  <1> HIDE DEF T
  <1>4. SubSeq(Append(s, x), 1, n) = SubSeq(s, 1, n)
    BY <1>2, <1>3
  <1>5. ASSUME n < Len(s) PROVE SubSeq(s, 1, n + 1) = Append(SubSeq(s, 1, n), s[n + 1])
    BY <1>2, <1>5
  <1> QED BY <1>4, <1>5

\* A sequence and a prefix of another one, which grows by an element.
LEMMA PrefixAfter ==
  ASSUME NEW T, NEW s \in Seq(T), NEW q \in Seq(T), NEW n \in 0 .. Len(q) - 1
  PROVE  /\ s \o SubSeq(q, 1, n) \in Seq(T)
         /\ s \o SubSeq(q, 1, n + 1) = Append(s \o SubSeq(q, 1, n), q[n + 1])
PROOF
  <1> DEFINE a == SubSeq(q, 1, n)
             x == q[n + 1]
  <1>1. a \in Seq(T) /\ x \in T
    OBVIOUS
  <1>2. SubSeq(q, 1, n + 1) = Append(a, x)
    OBVIOUS
  <1> HIDE DEF a, x
  <1>3. s \o a \in Seq(T)
    BY <1>1
  <1>4. s \o Append(a, x) = Append(s \o a, x)
    BY <1>1
  <1> QED BY <1>2, <1>3, <1>4 DEF a, x

-----------------------------------------------------------------------------
(* Updated *)

\* Only the words of the CDF change, and they depend on themselves only.
LEMMA UpdatedFacts ==
  ASSUME NEW w, IsWords(w), NEW c \in Cdfs, NEW s
  PROVE  /\ IsWords(Updated(w, c, s))
         /\ \A i \in Words : i \notin OwnWords(c) => Updated(w, c, s)[i] = w[i]
         /\ \A v : /\ IsWords(v)
                   /\ \A i \in OwnWords(c) : v[i] = w[i]
                   => \A i \in OwnWords(c) : i \in Words => Updated(v, c, s)[i] = Updated(w, c, s)[i]
PROOF
  <1>1. Layout[c].offset \in Nat /\ Layout[c].len \in Nat
    BY LayoutAssumption DEF Cdfs
  <1>2. DOMAIN w = Words
    BY DEF IsWords
  <1>3. Updated(w, c, s) =
          [i \in Words |-> IF i \in OwnWords(c)
             THEN update_cdf(Cdf(w, c), s)[i - Layout[c].offset + 1] ELSE w[i]]
    BY <1>2 DEF Updated
  <1>4. ASSUME NEW v, IsWords(v), \A i \in OwnWords(c) : v[i] = w[i]
        PROVE  \A i \in OwnWords(c) : i \in Words => Updated(v, c, s)[i] = Updated(w, c, s)[i]
    <2>1. \A i \in 1 .. Layout[c].len : Layout[c].offset + i - 1 \in OwnWords(c)
      BY <1>1 DEF OwnWords
    <2>2. Cdf(v, c) = Cdf(w, c)
      BY <1>4, <2>1 DEF Cdf
    <2>3. DOMAIN v = Words
      BY <1>4 DEF IsWords
    <2>4. Updated(v, c, s) =
          [i \in Words |-> IF i \in OwnWords(c)
             THEN update_cdf(Cdf(v, c), s)[i - Layout[c].offset + 1] ELSE v[i]]
      BY <2>3 DEF Updated
    <2> QED BY <1>3, <2>2, <2>4
  <1>5. IsWords(Updated(w, c, s))
    BY <1>3 DEF IsWords
  <1>6. \A i \in Words : i \notin OwnWords(c) => Updated(w, c, s)[i] = w[i]
    BY <1>3
  <1> QED BY <1>4, <1>5, <1>6

\* Updates of different CDFs commute.
LEMMA UpdatedCommutes ==
  ASSUME NEW w, IsWords(w), NEW c \in Cdfs, NEW d \in Cdfs, c # d, NEW s, NEW t
  PROVE  Updated(Updated(w, c, s), d, t) = Updated(Updated(w, d, t), c, s)
PROOF
  <1> DEFINE wc == Updated(w, c, s)
             wd == Updated(w, d, t)
  <1>1. /\ IsWords(wc) /\ IsWords(wd)
        /\ \A i \in Words : i \notin OwnWords(c) => wc[i] = w[i]
        /\ \A i \in Words : i \notin OwnWords(d) => wd[i] = w[i]
    BY UpdatedFacts
  <1>2. OwnWords(c) \cap OwnWords(d) = {}
    BY LayoutAssumption DEF Cdfs
  <1>3. OwnWords(c) \subseteq Words /\ OwnWords(d) \subseteq Words
    <2>1. OwnWords(c) \subseteq LoggedWords(c) /\ OwnWords(d) \subseteq LoggedWords(d)
      BY LayoutAssumption DEF Cdfs, OwnWords, LoggedWords, Small
    <2> QED BY <2>1, LayoutAssumption DEF Cdfs, Words
  <1>4. \A i \in OwnWords(c) : Updated(wd, c, s)[i] = wc[i]
    <2>1. \A i \in OwnWords(c) : wd[i] = w[i]
      BY <1>1, <1>2, <1>3
    <2> HIDE DEF wd
    <2> QED BY <1>1, <1>3, <2>1, UpdatedFacts
  <1>5. \A i \in OwnWords(d) : Updated(wc, d, t)[i] = wd[i]
    <2>1. \A i \in OwnWords(d) : wc[i] = w[i]
      BY <1>1, <1>2, <1>3
    <2> HIDE DEF wc
    <2> QED BY <1>1, <1>3, <2>1, UpdatedFacts
  <1> HIDE DEF wc, wd
  <1>6. /\ IsWords(Updated(wc, d, t)) /\ IsWords(Updated(wd, c, s))
        /\ \A i \in Words : i \notin OwnWords(d) => Updated(wc, d, t)[i] = wc[i]
        /\ \A i \in Words : i \notin OwnWords(c) => Updated(wd, c, s)[i] = wd[i]
    BY <1>1, UpdatedFacts
  <1>7. \A i \in Words : Updated(wc, d, t)[i] = Updated(wd, c, s)[i]
    BY <1>1, <1>2, <1>4, <1>5, <1>6
  <1>8. Updated(wc, d, t) = Updated(wd, c, s)
    BY <1>6, <1>7 DEF IsWords
  <1> QED BY <1>8 DEF wc, wd

\* The words of a CDF are words, and are among those that the log saves.
LEMMA OwnLogged ==
  ASSUME NEW c \in Cdfs
  PROVE  OwnWords(c) \subseteq LoggedWords(c) /\ LoggedWords(c) \subseteq Words
PROOF
  <1>1. OwnWords(c) \subseteq LoggedWords(c)
    BY LayoutAssumption DEF Cdfs, OwnWords, LoggedWords, Small
  <1> QED BY <1>1, LayoutAssumption DEF Cdfs, Words

\* An update of another CDF does not change a CDF.
LEMMA UpdatedElsewhere ==
  ASSUME NEW w, IsWords(w), NEW c \in Cdfs, NEW d \in Cdfs, c # d, NEW t
  PROVE  Cdf(Updated(w, d, t), c) = Cdf(w, c)
PROOF
  <1>1. \A i \in OwnWords(c) : i \in Words /\ i \notin OwnWords(d)
    BY OwnLogged, LayoutAssumption DEF Cdfs
  <1>2. \A i \in 1 .. Layout[c].len : Layout[c].offset + i - 1 \in OwnWords(c)
    BY LayoutAssumption DEF Cdfs, OwnWords
  <1>3. \A i \in OwnWords(c) : Updated(w, d, t)[i] = w[i]
    BY <1>1, UpdatedFacts
  <1> QED BY <1>2, <1>3 DEF Cdf

-----------------------------------------------------------------------------
(* Adapted *)

\* The steps of Adapted.
AdaptsBy(after, s) ==
  /\ after[0] = InitialFc
  /\ \A n \in 1 .. Len(s) : after[n] = Updated(after[n - 1], s[n][1], s[n][2])

\* Adapted is the end of such steps.
LEMMA AdaptedSteps ==
  ASSUME NEW s, Len(s) \in Nat
  PROVE  \E after : AdaptsBy(after, s) /\ Adapted(s) = after[Len(s)]
PROOF
  <1> DEFINE N == Len(s)
             Step(w, n) == Updated(w, s[n][1], s[n][2])
             Upto(fn, m) == fn = [n \in 0 .. m |-> IF n = 0 THEN InitialFc ELSE Step(fn[n - 1], n)]
             Good == {m \in 0 .. N : \E fn : Upto(fn, m)}
             after == CHOOSE fn : Upto(fn, N)
  <1> HIDE DEF Step
  <1>1. 0 \in Good
    <2> DEFINE fn == [n \in 0 .. 0 |-> InitialFc]
    <2>1. fn = [n \in 0 .. 0 |-> IF n = 0 THEN InitialFc ELSE Step(fn[n - 1], n)]
      OBVIOUS
    <2> HIDE DEF fn
    <2>2. Upto(fn, 0) /\ 0 \in 0 .. N
      BY <2>1
    <2> QED BY <2>2
  <1>2. ASSUME NEW m \in 0 .. N - 1, m \in Good PROVE m + 1 \in Good
    <2>1. PICK fn : Upto(fn, m)
      BY <1>2
    <2> DEFINE g == [n \in 0 .. m + 1 |-> IF n = m + 1 THEN Step(fn[m], m + 1) ELSE fn[n]]
    <2>2. ASSUME NEW n \in 0 .. m + 1
          PROVE  g[n] = IF n = 0 THEN InitialFc ELSE Step(g[n - 1], n)
      <3>1. CASE n = 0
        <4>1. 0 \in 0 .. m /\ 0 # m + 1
          OBVIOUS
        <4> QED BY <2>1, <3>1, <4>1
      <3>2. CASE n \in 1 .. m
        <4>1. n \in 0 .. m /\ n # 0 /\ n # m + 1 /\ n - 1 \in 0 .. m + 1 /\ n - 1 # m + 1
          BY <3>2
        <4>2. g[n] = fn[n] /\ g[n - 1] = fn[n - 1]
          BY <4>1
        <4>3. fn[n] = Step(fn[n - 1], n)
          BY <2>1, <4>1
        <4> QED BY <4>1, <4>2, <4>3
      <3>3. CASE n = m + 1
        <4>1. n # 0 /\ n - 1 = m /\ m \in 0 .. m + 1 /\ m # m + 1
          BY <3>3
        <4> QED BY <3>3, <4>1
      <3>4. n = 0 \/ n \in 1 .. m \/ n = m + 1
        OBVIOUS
      <3> QED BY <3>1, <3>2, <3>3, <3>4
    <2>3. DOMAIN g = 0 .. m + 1 /\ g = [n \in 0 .. m + 1 |-> g[n]]
      OBVIOUS
    <2> HIDE DEF g
    <2>4. Upto(g, m + 1) /\ m + 1 \in 0 .. N
      BY <2>2, <2>3
    <2> QED BY <2>4
  <1>3. N \in Good
    <2>1. N \in Nat /\ N \in 0 .. N
      OBVIOUS
    <2> HIDE DEF Good, N
    <2> QED BY <1>1, <1>2, <2>1, InductionUpTo
  <1>4. Upto(after, N)
    <2> HIDE DEF Upto
    <2> QED BY <1>3
  <1>5. Adapted(s) = after[N]
    BY DEF Adapted, Step
  <1> HIDE DEF after
  <1>6. after[0] = InitialFc /\ \A n \in 1 .. N : after[n] = Step(after[n - 1], n)
    <2>1. 0 \in 0 .. N /\ \A n \in 1 .. N : n \in 0 .. N /\ n # 0
      OBVIOUS
    <2> HIDE DEF N
    <2> QED BY <1>4, <2>1
  <1> QED BY <1>5, <1>6 DEF AdaptsBy, Step

\* Steps for sequences that begin alike begin alike.
LEMMA AdaptsAlike ==
  ASSUME NEW s, NEW t, NEW a, NEW b, NEW n \in Nat, Len(s) \in Nat, Len(t) \in Nat,
         n <= Len(s), n <= Len(t),
         AdaptsBy(a, s), AdaptsBy(b, t), \A i \in 1 .. n : s[i] = t[i]
  PROVE  \A i \in 0 .. n : a[i] = b[i]
PROOF
  <1> DEFINE S == {i \in 0 .. n : a[i] = b[i]}
  <1>1. 0 \in S
    BY DEF AdaptsBy
  <1>2. ASSUME NEW i \in 0 .. n - 1, i \in S PROVE i + 1 \in S
    <2>1. i + 1 \in 1 .. Len(s) /\ i + 1 \in 1 .. Len(t) /\ (i + 1) - 1 = i
          /\ i + 1 \in 1 .. n /\ i + 1 \in 0 .. n
      OBVIOUS
    <2>2. /\ a[i + 1] = Updated(a[i], s[i + 1][1], s[i + 1][2])
          /\ b[i + 1] = Updated(b[i], t[i + 1][1], t[i + 1][2])
      BY <2>1 DEF AdaptsBy
    <2>3. s[i + 1] = t[i + 1] /\ a[i] = b[i]
      BY <1>2, <2>1
    <2> QED BY <2>1, <2>2, <2>3
  <1> HIDE DEF S
  <1>3. \A i \in 0 .. n : i \in S
    BY <1>1, <1>2, InductionUpTo
  <1> QED BY <1>3 DEF S

\* What a symbol does to the words.
AdaptedTo(w, p) == Updated(w, p[1], p[2])

\* No symbols, and one more symbol.
LEMMA AdaptedFacts ==
  /\ Adapted(<<>>) = InitialFc
  /\ \A s \in Seq(Written), p \in Written : Adapted(Append(s, p)) = AdaptedTo(Adapted(s), p)
PROOF
  <1>1. Adapted(<<>>) = InitialFc
    <2>1. Len(<<>>) = 0
      OBVIOUS
    <2>2. PICK a : AdaptsBy(a, <<>>) /\ Adapted(<<>>) = a[Len(<<>>)]
      BY <2>1, AdaptedSteps
    <2> QED BY <2>1, <2>2 DEF AdaptsBy
  <1>2. ASSUME NEW s \in Seq(Written), NEW p \in Written
        PROVE  Adapted(Append(s, p)) = AdaptedTo(Adapted(s), p)
    <2> DEFINE t == Append(s, p)
               N == Len(s)
    <2>1. /\ Len(t) = N + 1 /\ N \in Nat
          /\ t[N + 1] = p /\ \A i \in 1 .. N : s[i] = t[i]
      OBVIOUS
    <2>2. PICK a : AdaptsBy(a, s) /\ Adapted(s) = a[N]
      BY <2>1, AdaptedSteps
    <2> HIDE DEF t
    <2>3. PICK b : AdaptsBy(b, t) /\ Adapted(t) = b[N + 1]
      BY <2>1, AdaptedSteps
    <2>4. a[N] = b[N]
      <3>1. N <= Len(s) /\ N <= Len(t) /\ Len(t) \in Nat /\ N \in 0 .. N
        BY <2>1
      <3> HIDE DEF N
      <3> QED BY <2>1, <2>2, <2>3, <3>1, AdaptsAlike DEF N
    <2>5. N + 1 \in 1 .. Len(t) /\ (N + 1) - 1 = N
      BY <2>1
    <2> HIDE DEF N
    <2>6. b[N + 1] = Updated(b[N], t[N + 1][1], t[N + 1][2])
      BY <2>3, <2>5 DEF AdaptsBy
    <2> QED BY <2>1, <2>2, <2>3, <2>4, <2>6 DEF t, AdaptedTo
  <1> QED BY <1>1, <1>2

\* Symbols adapt words to words, and no padding.
LEMMA AdaptedWords ==
  ASSUME NEW s \in Seq(Written)
  PROVE  /\ IsWords(Adapted(s))
         /\ \A i \in Words : Padding(i) => Adapted(s)[i] = InitialFc[i]
PROOF
  <1> DEFINE N == Len(s)
             Good(w) == IsWords(w) /\ \A i \in Words : Padding(i) => w[i] = InitialFc[i]
  <1>0. N \in Nat /\ N \in 0 .. N /\ 0 \in 0 .. N /\ \A n \in 1 .. N : s[n] \in Written
    OBVIOUS
  <1>1. PICK a : AdaptsBy(a, s) /\ Adapted(s) = a[N]
    BY AdaptedSteps
  <1> DEFINE S == {n \in 0 .. N : Good(a[n])}
  <1>2. 0 \in S
    <2>1. a[0] = InitialFc /\ 0 \in 0 .. N
      BY <1>0, <1>1 DEF AdaptsBy
    <2>2. Good(InitialFc)
      BY LayoutAssumption DEF IsWords, Words
    <2> HIDE DEF Good
    <2> QED BY <2>1, <2>2
  <1>3. ASSUME NEW n \in 0 .. N - 1, n \in S PROVE n + 1 \in S
    <2>1. n + 1 \in 1 .. N /\ n + 1 \in 0 .. N /\ (n + 1) - 1 = n
      BY <1>0
    <2>2. s[n + 1][1] \in Cdfs
      BY <1>0, <2>1 DEF Written
    <2>3. a[n + 1] = Updated(a[n], s[n + 1][1], s[n + 1][2])
      BY <1>1, <2>1 DEF AdaptsBy
    <2>4. Good(a[n])
      BY <1>3
    <2>5. Good(a[n + 1])
      BY <2>2, <2>3, <2>4, UpdatedFacts DEF Padding
    <2> HIDE DEF Good
    <2> QED BY <2>1, <2>5
  <1>4. N \in S
    <2> HIDE DEF S, N
    <2> QED BY <1>0, <1>2, <1>3, InductionUpTo
  <1> QED BY <1>1, <1>4

\* A symbol that is written to the Encoder in front of recorded symbols of
\* other CDFs adapts the words as if it had come after them.
LEMMA AdaptedInFront ==
  ASSUME NEW s \in Seq(Written), NEW q \in Seq(Written), NEW p \in Written,
         \A n \in 1 .. Len(q) : q[n][1] # p[1]
  PROVE  Adapted(Append(s, p) \o q) = AdaptedTo(Adapted(s \o q), p)
PROOF
  <1> DEFINE N == Len(q)
             X(n) == s \o SubSeq(q, 1, n)
             Y(n) == Append(s, p) \o SubSeq(q, 1, n)
             S == {n \in 0 .. N : Adapted(Y(n)) = AdaptedTo(Adapted(X(n)), p)}
  <1>0. N \in Nat /\ N \in 0 .. N /\ 0 \in 0 .. N /\ \A n \in 1 .. N : q[n] \in Written
    OBVIOUS
  <1>1. 0 \in S
    <2>1. X(0) = s /\ Y(0) = Append(s, p)
      OBVIOUS
    <2>2. Adapted(Append(s, p)) = AdaptedTo(Adapted(s), p)
      BY AdaptedFacts
    <2> HIDE DEF X, Y, N
    <2> QED BY <1>0, <2>1, <2>2
  <1>2. ASSUME NEW n \in 0 .. N - 1, n \in S PROVE n + 1 \in S
    <2>1. n + 1 \in 1 .. N /\ n + 1 \in 0 .. N
      BY <1>0
    <2>2. q[n + 1] \in Written /\ q[n + 1][1] # p[1]
      BY <1>0, <2>1
    <2>3. X(n) \in Seq(Written) /\ X(n + 1) = Append(X(n), q[n + 1])
      BY PrefixAfter
    <2>4. Y(n) \in Seq(Written) /\ Y(n + 1) = Append(Y(n), q[n + 1])
      <3>1. Append(s, p) \in Seq(Written)
        OBVIOUS
      <3> QED BY <3>1, PrefixAfter
    <2>5. Adapted(Y(n)) = AdaptedTo(Adapted(X(n)), p)
      BY <1>2
    <2> HIDE DEF X, Y
    <2>6. /\ Adapted(X(n + 1)) = AdaptedTo(Adapted(X(n)), q[n + 1])
          /\ Adapted(Y(n + 1)) = AdaptedTo(Adapted(Y(n)), q[n + 1])
      BY <2>2, <2>3, <2>4, AdaptedFacts
    <2>7. IsWords(Adapted(X(n)))
      BY <2>3, AdaptedWords
    <2>8. p[1] \in Cdfs /\ q[n + 1][1] \in Cdfs
      BY <2>2 DEF Written
    <2>9. AdaptedTo(AdaptedTo(Adapted(X(n)), p), q[n + 1]) =
            AdaptedTo(AdaptedTo(Adapted(X(n)), q[n + 1]), p)
      BY <2>2, <2>7, <2>8, UpdatedCommutes DEF AdaptedTo
    <2> QED BY <2>1, <2>5, <2>6, <2>9
  <1>3. N \in S
    <2> HIDE DEF S, N
    <2> QED BY <1>0, <1>1, <1>2, InductionUpTo
  <1>4. X(N) = s \o q /\ Y(N) = Append(s, p) \o q
    <2>1. SubSeq(q, 1, N) = q
      OBVIOUS
    <2> QED BY <2>1
  <1> QED BY <1>3, <1>4

-----------------------------------------------------------------------------
(* Recorded *)

\* The steps of Recorded.
RecordsBy(after, s) ==
  after[0] = NewRecorder /\ \A n \in 1 .. Len(s) : after[n] = record(after[n - 1], s[n])

\* Recorded is the end of such steps.
LEMMA RecordedSteps ==
  ASSUME NEW s, Len(s) \in Nat
  PROVE  \E after : RecordsBy(after, s) /\ Recorded(s) = after[Len(s)]
PROOF
  <1> DEFINE N == Len(s)
             Step(r, n) == record(r, s[n])
             Upto(fn, m) == fn = [n \in 0 .. m |-> IF n = 0 THEN NewRecorder ELSE Step(fn[n - 1], n)]
             Good == {m \in 0 .. N : \E fn : Upto(fn, m)}
             after == CHOOSE fn : Upto(fn, N)
  <1>0. N \in Nat /\ N \in 0 .. N
    OBVIOUS
  <1> HIDE DEF Step
  <1>1. 0 \in Good
    <2> DEFINE fn == [n \in 0 .. 0 |-> NewRecorder]
    <2>1. fn = [n \in 0 .. 0 |-> IF n = 0 THEN NewRecorder ELSE Step(fn[n - 1], n)]
      OBVIOUS
    <2> HIDE DEF fn
    <2>2. Upto(fn, 0) /\ 0 \in 0 .. N
      BY <1>0, <2>1
    <2> QED BY <2>2
  <1>2. ASSUME NEW m \in 0 .. N - 1, m \in Good PROVE m + 1 \in Good
    <2>1. PICK fn : Upto(fn, m)
      BY <1>2
    <2> DEFINE g == [n \in 0 .. m + 1 |-> IF n = m + 1 THEN Step(fn[m], m + 1) ELSE fn[n]]
    <2>2. ASSUME NEW n \in 0 .. m + 1
          PROVE  g[n] = IF n = 0 THEN NewRecorder ELSE Step(g[n - 1], n)
      <3>1. CASE n = 0
        <4>1. 0 \in 0 .. m /\ 0 # m + 1
          BY <1>0
        <4> QED BY <2>1, <3>1, <4>1
      <3>2. CASE n \in 1 .. m
        <4>1. n \in 0 .. m /\ n # 0 /\ n # m + 1 /\ n - 1 \in 0 .. m + 1 /\ n - 1 # m + 1
          BY <1>0, <3>2
        <4>2. g[n] = fn[n] /\ g[n - 1] = fn[n - 1]
          BY <4>1
        <4>3. fn[n] = Step(fn[n - 1], n)
          BY <2>1, <4>1
        <4> QED BY <4>1, <4>2, <4>3
      <3>3. CASE n = m + 1
        <4>1. n # 0 /\ n - 1 = m /\ m \in 0 .. m + 1 /\ m # m + 1
          BY <1>0, <3>3
        <4> QED BY <3>3, <4>1
      <3>4. n = 0 \/ n \in 1 .. m \/ n = m + 1
        BY <1>0
      <3> QED BY <3>1, <3>2, <3>3, <3>4
    <2>3. DOMAIN g = 0 .. m + 1 /\ g = [n \in 0 .. m + 1 |-> g[n]]
      OBVIOUS
    <2> HIDE DEF g
    <2>4. Upto(g, m + 1)
      BY <2>2, <2>3
    <2>5. m + 1 \in 0 .. N
      BY <1>0
    <2> QED BY <2>4, <2>5
  <1>3. N \in Good
    <2> HIDE DEF Good, N
    <2> QED BY <1>0, <1>1, <1>2, InductionUpTo
  <1>4. Upto(after, N)
    <2> HIDE DEF Upto
    <2> QED BY <1>3
  <1>5. Recorded(s) = after[N]
    BY DEF Recorded, Step
  <1> HIDE DEF after
  <1>6. after[0] = NewRecorder /\ \A n \in 1 .. N : after[n] = Step(after[n - 1], n)
    <2>1. 0 \in 0 .. N /\ \A n \in 1 .. N : n \in 0 .. N /\ n # 0
      OBVIOUS
    <2> HIDE DEF N
    <2> QED BY <1>4, <2>1
  <1> QED BY <1>5, <1>6 DEF RecordsBy, Step

\* No tokens, one more token, and what the Recorder holds.
LEMMA RecordedFacts ==
  /\ Recorded(<<>>) = NewRecorder
  /\ \A s, t : IsSeq(s) => Recorded(Append(s, t)) = record(Recorded(s), t)
  /\ \A s : IsSeq(s) => Recorded(s) = [rng |-> Recorded(s).rng, bits |-> Recorded(s).bits,
                                       storage |-> s]
PROOF
  <1>1. Recorded(<<>>) = NewRecorder
    <2>1. Len(<<>>) = 0
      OBVIOUS
    <2>2. PICK a : RecordsBy(a, <<>>) /\ Recorded(<<>>) = a[Len(<<>>)]
      BY <2>1, RecordedSteps
    <2> QED BY <2>1, <2>2 DEF RecordsBy
  <1>2. ASSUME NEW s, NEW x, IsSeq(s)
        PROVE  Recorded(Append(s, x)) = record(Recorded(s), x)
    <2> DEFINE t == Append(s, x)
               N == Len(s)
    <2>1. /\ Len(t) = N + 1 /\ N \in Nat
          /\ t[N + 1] = x /\ \A i \in 1 .. N : s[i] = t[i]
      BY <1>2, AppendFacts
    <2>2. PICK a : RecordsBy(a, s) /\ Recorded(s) = a[N]
      BY <2>1, RecordedSteps
    <2> HIDE DEF t
    <2>3. PICK b : RecordsBy(b, t) /\ Recorded(t) = b[N + 1]
      BY <2>1, RecordedSteps
    <2> DEFINE S == {i \in 0 .. N : a[i] = b[i]}
    <2>4. /\ a[0] = NewRecorder /\ \A n \in 1 .. N : a[n] = record(a[n - 1], s[n])
          /\ b[0] = NewRecorder /\ \A n \in 1 .. N + 1 : b[n] = record(b[n - 1], t[n])
      BY <2>1, <2>2, <2>3 DEF RecordsBy
    <2> HIDE DEF N
    <2>5. 0 \in S
      BY <2>1, <2>4
    <2>6. ASSUME NEW i \in 0 .. N - 1, i \in S PROVE i + 1 \in S
      <3>1. i + 1 \in 1 .. N /\ i + 1 \in 0 .. N /\ i + 1 \in 1 .. N + 1 /\ (i + 1) - 1 = i
        BY <2>1
      <3>2. a[i + 1] = record(a[i], s[i + 1]) /\ b[i + 1] = record(b[i], t[i + 1])
        BY <2>4, <3>1
      <3> QED BY <2>1, <2>6, <3>1, <3>2
    <2> HIDE DEF S
    <2>7. \A i \in 0 .. N : i \in S
      BY <2>1, <2>5, <2>6, InductionUpTo
    <2>8. a[N] = b[N] /\ N + 1 \in 1 .. N + 1 /\ (N + 1) - 1 = N
      BY <2>1, <2>7 DEF S
    <2>9. b[N + 1] = record(b[N], t[N + 1])
      BY <2>4, <2>8
    <2> QED BY <2>1, <2>2, <2>3, <2>8, <2>9 DEF t
  <1>3. ASSUME NEW s, IsSeq(s)
        PROVE  Recorded(s) = [rng |-> Recorded(s).rng, bits |-> Recorded(s).bits, storage |-> s]
    <2> DEFINE N == Len(s)
               Is(r, t) == r = [rng |-> r.rng, bits |-> r.bits, storage |-> t]
    <2>1. N \in Nat /\ SubSeq(s, 1, N) = s
      <3>1. N \in Nat
        BY <1>3, AppendFacts
      <3>2. N \in 0 .. N
        BY <3>1
      <3> QED BY <1>3, <3>1, <3>2, PrefixFacts
    <2>2. PICK a : RecordsBy(a, s) /\ Recorded(s) = a[N]
      BY <2>1, RecordedSteps
    <2> DEFINE S == {n \in 0 .. N : Is(a[n], SubSeq(s, 1, n))}
    <2>3. 0 \in S
      <3>1. a[0] = NewRecorder /\ 0 \in 0 .. N
        BY <2>1, <2>2 DEF RecordsBy
      <3>2. SubSeq(s, 1, 0) = <<>>
        <4>1. PICK T : s \in Seq(T)
          BY <1>3 DEF IsSeq
        <4> QED BY <4>1
      <3>3. Is(NewRecorder, <<>>)
        BY DEF NewRecorder
      <3> HIDE DEF Is
      <3> QED BY <3>1, <3>2, <3>3
    <2>4. ASSUME NEW n \in 0 .. N - 1, n \in S PROVE n + 1 \in S
      <3>1. n + 1 \in 1 .. N /\ n + 1 \in 0 .. N /\ (n + 1) - 1 = n /\ n \in 0 .. N /\ n < N
        BY <2>1
      <3>2. a[n + 1] = record(a[n], s[n + 1])
        BY <2>2, <3>1 DEF RecordsBy
      <3>3. Is(a[n], SubSeq(s, 1, n))
        BY <2>4
      <3>4. a[n].storage = SubSeq(s, 1, n)
        BY <3>3
      <3>5. SubSeq(s, 1, n + 1) = Append(SubSeq(s, 1, n), s[n + 1])
        BY <1>3, <3>1, PrefixAppend
      <3>6. Is(record(a[n], s[n + 1]), Append(a[n].storage, s[n + 1]))
        BY DEF record
      <3> HIDE DEF Is
      <3> QED BY <3>1, <3>2, <3>4, <3>5, <3>6
    <2>5. N \in S
      <3>1. N \in 0 .. N
        BY <2>1
      <3> HIDE DEF S, N
      <3> QED BY <2>1, <2>3, <2>4, <3>1, InductionUpTo
    <2> QED BY <2>1, <2>2, <2>5
  <1> QED BY <1>1, <1>2, <1>3

-----------------------------------------------------------------------------
(* log_rollback *)

\* The oldest entry after the first n that holds a word.
Oldest(part, n, i, k) ==
  /\ k \in n + 1 .. Len(part)
  /\ i \in DOMAIN part[k]
  /\ \A j \in n + 1 .. k - 1 : i \notin DOMAIN part[j]

\* No entry after the first n holds the word.
Unlogged(part, n, i) == \A k \in n + 1 .. Len(part) : i \notin DOMAIN part[k]

\* A word is in no entry, or in an oldest one.
LEMMA OldestExists ==
  ASSUME NEW part, Len(part) \in Nat, NEW n \in 0 .. Len(part), NEW i
  PROVE  Unlogged(part, n, i) \/ \E k : Oldest(part, n, i, k)
PROOF
  <1> DEFINE Hits == {k \in n + 1 .. Len(part) : i \in DOMAIN part[k]}
  <1> SUFFICES ASSUME Hits # {} PROVE \E k : Oldest(part, n, i, k)
    BY DEF Unlogged
  <1>1. Hits \subseteq Nat
    OBVIOUS
  <1>2. PICK k \in Hits : \A m \in Hits : k <= m
    <2> HIDE DEF Hits
    <2> QED BY <1>1, LeastElement
  <1>3. Oldest(part, n, i, k)
    BY <1>2 DEF Oldest
  <1> QED BY <1>3

\* Rolled back, a word has the value of the oldest entry that holds it, and
\* else the one it had.
LEMMA RollbackFacts ==
  ASSUME NEW words, words = [i \in DOMAIN words |-> words[i]],
         NEW part, Len(part) \in Nat, NEW n \in 0 .. Len(part)
  PROVE  LET w == log_rollback(words, part, n)
         IN /\ w = [i \in DOMAIN words |-> w[i]]
            /\ \A i \in DOMAIN words :
                 /\ Unlogged(part, n, i) => w[i] = words[i]
                 /\ \A k : Oldest(part, n, i, k) => w[i] = part[k][i]
PROOF
  <1> DEFINE N == Len(part) - n
             Step(w, k) == Restored(w, part[Len(part) - k + 1])
             Upto(fn, m) == fn = [k \in 0 .. m |-> IF k = 0 THEN words ELSE Step(fn[k - 1], k)]
             Good == {m \in 0 .. N : \E fn : Upto(fn, m)}
             after == CHOOSE fn : Upto(fn, N)
  <1>0. N \in Nat /\ N \in 0 .. N
    OBVIOUS
  <1> HIDE DEF Step
  <1>1. 0 \in Good
    <2> DEFINE fn == [l \in 0 .. 0 |-> words]
    <2>1. fn = [l \in 0 .. 0 |-> IF l = 0 THEN words ELSE Step(fn[l - 1], l)]
      OBVIOUS
    <2> HIDE DEF fn
    <2>2. Upto(fn, 0) /\ 0 \in 0 .. N
      BY <1>0, <2>1
    <2> QED BY <2>2
  <1>2. ASSUME NEW m \in 0 .. N - 1, m \in Good PROVE m + 1 \in Good
    <2>1. PICK fn : Upto(fn, m)
      BY <1>2
    <2> DEFINE g == [l \in 0 .. m + 1 |-> IF l = m + 1 THEN Step(fn[m], m + 1) ELSE fn[l]]
    <2>2. ASSUME NEW l \in 0 .. m + 1
          PROVE  g[l] = IF l = 0 THEN words ELSE Step(g[l - 1], l)
      <3>1. CASE l = 0
        <4>1. 0 \in 0 .. m /\ 0 # m + 1
          BY <1>0
        <4> QED BY <2>1, <3>1, <4>1
      <3>2. CASE l \in 1 .. m
        <4>1. l \in 0 .. m /\ l # 0 /\ l # m + 1 /\ l - 1 \in 0 .. m + 1 /\ l - 1 # m + 1
          BY <1>0, <3>2
        <4>2. g[l] = fn[l] /\ g[l - 1] = fn[l - 1]
          BY <4>1
        <4>3. fn[l] = Step(fn[l - 1], l)
          BY <2>1, <4>1
        <4> QED BY <4>1, <4>2, <4>3
      <3>3. CASE l = m + 1
        <4>1. l # 0 /\ l - 1 = m /\ m \in 0 .. m + 1 /\ m # m + 1
          BY <1>0, <3>3
        <4> QED BY <3>3, <4>1
      <3>4. l = 0 \/ l \in 1 .. m \/ l = m + 1
        BY <1>0
      <3> QED BY <3>1, <3>2, <3>3, <3>4
    <2>3. DOMAIN g = 0 .. m + 1 /\ g = [l \in 0 .. m + 1 |-> g[l]]
      OBVIOUS
    <2> HIDE DEF g
    <2>4. Upto(g, m + 1)
      BY <2>2, <2>3
    <2>5. m + 1 \in 0 .. N
      BY <1>0
    <2> QED BY <2>4, <2>5
  <1>3. N \in Good
    <2> HIDE DEF Good, N
    <2> QED BY <1>0, <1>1, <1>2, InductionUpTo
  <1>4. Upto(after, N)
    <2> HIDE DEF Upto
    <2> QED BY <1>3
  <1>5. log_rollback(words, part, n) = after[N]
    BY DEF log_rollback, Step
  <1> HIDE DEF after
  <1>6. after[0] = words /\ \A k \in 1 .. N : after[k] = Step(after[k - 1], k)
    <2>1. 0 \in 0 .. N /\ \A k \in 1 .. N : k \in 0 .. N /\ k # 0
      BY <1>0
    <2> HIDE DEF N
    <2> QED BY <1>4, <2>1
  <1> DEFINE Ok(w, m) == /\ w = [i \in DOMAIN words |-> w[i]]
                         /\ \A i \in DOMAIN words :
                              /\ Unlogged(part, m, i) => w[i] = words[i]
                              /\ \A k : Oldest(part, m, i, k) => w[i] = part[k][i]
             S == {k \in 0 .. N : Ok(after[k], Len(part) - k)}
  <1>7. 0 \in S
    <2>1. Len(part) - 0 = Len(part) /\ 0 \in 0 .. N
      BY <1>0
    <2>2. \A i, k : ~Oldest(part, Len(part), i, k)
      BY DEF Oldest
    <2>3. Ok(words, Len(part))
      BY <2>2
    <2> HIDE DEF Ok
    <2> QED BY <1>6, <2>1, <2>3
  <1>8. ASSUME NEW k \in 0 .. N - 1, k \in S PROVE k + 1 \in S
    <2> DEFINE m == Len(part) - k
               w == after[k]
               v == after[k + 1]
    <2>1. /\ k + 1 \in 1 .. N /\ k + 1 \in 0 .. N /\ (k + 1) - 1 = k
          /\ m \in 1 .. Len(part) /\ Len(part) - (k + 1) = m - 1 /\ Len(part) - (k + 1) + 1 = m
      BY <1>0, SMTT(60)
    <2>2. v = Restored(w, part[m])
      <3>1. v = Step(w, k + 1)
        BY <1>6, <2>1
      <3> QED BY <2>1, <3>1 DEF Step
    <2>3. Ok(w, m)
      BY <1>8
    <2> HIDE DEF m, w, v
    <2>4. DOMAIN w = DOMAIN words
      BY <2>3
    <2>5. v = [i \in DOMAIN words |-> IF i \in DOMAIN part[m] THEN part[m][i] ELSE w[i]]
      BY <2>2, <2>4 DEF Restored
    <2>6. ASSUME NEW i \in DOMAIN words, Unlogged(part, m - 1, i) PROVE v[i] = words[i]
      <3>1. i \notin DOMAIN part[m] /\ Unlogged(part, m, i)
        BY <2>1, <2>6, SMTT(60) DEF Unlogged
      <3> QED BY <2>3, <2>5, <3>1
    <2>7. ASSUME NEW i \in DOMAIN words, NEW j, Oldest(part, m - 1, i, j) PROVE v[i] = part[j][i]
      <3>1. CASE j = m
        <4>1. i \in DOMAIN part[m]
          BY <2>7, <3>1 DEF Oldest
        <4> QED BY <2>5, <3>1, <4>1
      <3>2. CASE j # m
        <4>1. i \notin DOMAIN part[m] /\ Oldest(part, m, i, j)
          <5>1. /\ j \in (m - 1) + 1 .. Len(part) /\ i \in DOMAIN part[j]
                /\ \A l \in (m - 1) + 1 .. j - 1 : i \notin DOMAIN part[l]
            BY <2>7 DEF Oldest
          <5>2. j \in m + 1 .. Len(part) /\ m \in (m - 1) + 1 .. j - 1
            BY <2>1, <3>2, <5>1, SMTT(60)
          <5>3. \A l \in m + 1 .. j - 1 : l \in (m - 1) + 1 .. j - 1
            BY <2>1, <5>2
          <5> QED BY <5>1, <5>2, <5>3 DEF Oldest
        <4> QED BY <2>3, <2>5, <4>1
      <3> QED BY <3>1, <3>2
    <2>8. v = [i \in DOMAIN words |-> v[i]]
      BY <2>5
    <2>9. Ok(v, m - 1)
      BY <2>6, <2>7, <2>8
    <2> HIDE DEF Ok
    <2> QED BY <2>1, <2>9 DEF v, m
  <1>9. N \in S
    <2> HIDE DEF S, N
    <2> QED BY <1>0, <1>7, <1>8, InductionUpTo
  <1>10. Len(part) - N = n
    BY <1>0
  <1>11. Ok(after[N], n)
    <2> HIDE DEF Ok, N
    <2> QED BY <1>9, <1>10
  <1> QED BY <1>5, <1>11

-----------------------------------------------------------------------------
(* Encoded *)

\* The token of the n-th symbol: its CDF is as the symbols before it leave it.
TokenOf(s, p) == token(Cdf(Adapted(s), p[1]), p[2])

\* The steps of Encoded.
EncodesBy(after, s) ==
  /\ after[0] = NewEncoder
  /\ \A n \in 1 .. Len(s) : after[n] = store(after[n - 1], TokenOf(SubSeq(s, 1, n - 1), s[n]))

\* Encoded is the end of such steps.
LEMMA EncodedSteps ==
  ASSUME NEW s, Len(s) \in Nat
  PROVE  \E after : EncodesBy(after, s) /\ Encoded(s) = after[Len(s)]
PROOF
  <1> DEFINE N == Len(s)
             Step(e, n) == store(e, token(Cdf(Adapted(SubSeq(s, 1, n - 1)), s[n][1]), s[n][2]))
             Upto(fn, m) == fn = [n \in 0 .. m |-> IF n = 0 THEN NewEncoder ELSE Step(fn[n - 1], n)]
             Good == {m \in 0 .. N : \E fn : Upto(fn, m)}
             after == CHOOSE fn : Upto(fn, N)
  <1>0. N \in Nat /\ N \in 0 .. N
    OBVIOUS
  <1> HIDE DEF Step
  <1>1. 0 \in Good
    <2> DEFINE fn == [n \in 0 .. 0 |-> NewEncoder]
    <2>1. fn = [n \in 0 .. 0 |-> IF n = 0 THEN NewEncoder ELSE Step(fn[n - 1], n)]
      OBVIOUS
    <2> HIDE DEF fn
    <2>2. Upto(fn, 0) /\ 0 \in 0 .. N
      BY <1>0, <2>1
    <2> QED BY <2>2
  <1>2. ASSUME NEW m \in 0 .. N - 1, m \in Good PROVE m + 1 \in Good
    <2>1. PICK fn : Upto(fn, m)
      BY <1>2
    <2> DEFINE g == [n \in 0 .. m + 1 |-> IF n = m + 1 THEN Step(fn[m], m + 1) ELSE fn[n]]
    <2>2. ASSUME NEW n \in 0 .. m + 1
          PROVE  g[n] = IF n = 0 THEN NewEncoder ELSE Step(g[n - 1], n)
      <3>1. CASE n = 0
        <4>1. 0 \in 0 .. m /\ 0 # m + 1
          BY <1>0
        <4> QED BY <2>1, <3>1, <4>1
      <3>2. CASE n \in 1 .. m
        <4>1. n \in 0 .. m /\ n # 0 /\ n # m + 1 /\ n - 1 \in 0 .. m + 1 /\ n - 1 # m + 1
          BY <1>0, <3>2
        <4>2. g[n] = fn[n] /\ g[n - 1] = fn[n - 1]
          BY <4>1
        <4>3. fn[n] = Step(fn[n - 1], n)
          BY <2>1, <4>1
        <4> QED BY <4>1, <4>2, <4>3
      <3>3. CASE n = m + 1
        <4>1. n # 0 /\ n - 1 = m /\ m \in 0 .. m + 1 /\ m # m + 1
          BY <1>0, <3>3
        <4> QED BY <3>3, <4>1
      <3>4. n = 0 \/ n \in 1 .. m \/ n = m + 1
        BY <1>0
      <3> QED BY <3>1, <3>2, <3>3, <3>4
    <2>3. DOMAIN g = 0 .. m + 1 /\ g = [n \in 0 .. m + 1 |-> g[n]]
      OBVIOUS
    <2> HIDE DEF g
    <2>4. Upto(g, m + 1)
      BY <2>2, <2>3
    <2>5. m + 1 \in 0 .. N
      BY <1>0
    <2> QED BY <2>4, <2>5
  <1>3. N \in Good
    <2> HIDE DEF Good, N
    <2> QED BY <1>0, <1>1, <1>2, InductionUpTo
  <1>4. Upto(after, N)
    <2> HIDE DEF Upto
    <2> QED BY <1>3
  <1>5. Encoded(s) = after[N]
    BY DEF Encoded, Step
  <1> HIDE DEF after
  <1>6. after[0] = NewEncoder /\ \A n \in 1 .. N : after[n] = Step(after[n - 1], n)
    <2>1. 0 \in 0 .. N /\ \A n \in 1 .. N : n \in 0 .. N /\ n # 0
      OBVIOUS
    <2> HIDE DEF N
    <2> QED BY <1>4, <2>1
  <1> QED BY <1>5, <1>6 DEF EncodesBy, TokenOf, Step

\* No symbols, and one more symbol.
LEMMA EncodedFacts ==
  /\ Encoded(<<>>) = NewEncoder
  /\ \A s \in Seq(Written), p \in Written :
       Encoded(Append(s, p)) = store(Encoded(s), TokenOf(s, p))
PROOF
  <1>1. Encoded(<<>>) = NewEncoder
    <2>1. Len(<<>>) = 0
      OBVIOUS
    <2>2. PICK a : EncodesBy(a, <<>>) /\ Encoded(<<>>) = a[Len(<<>>)]
      BY <2>1, EncodedSteps
    <2> QED BY <2>1, <2>2 DEF EncodesBy
  <1>2. ASSUME NEW s \in Seq(Written), NEW p \in Written
        PROVE  Encoded(Append(s, p)) = store(Encoded(s), TokenOf(s, p))
    <2> DEFINE t == Append(s, p)
               N == Len(s)
    <2>1. /\ Len(t) = N + 1 /\ N \in Nat
          /\ t[N + 1] = p /\ \A i \in 1 .. N : s[i] = t[i]
          /\ \A i \in 0 .. N : SubSeq(s, 1, i) = SubSeq(t, 1, i)
          /\ SubSeq(t, 1, N) = s
      OBVIOUS
    <2>2. PICK a : EncodesBy(a, s) /\ Encoded(s) = a[N]
      BY <2>1, EncodedSteps
    <2> HIDE DEF t
    <2>3. PICK b : EncodesBy(b, t) /\ Encoded(t) = b[N + 1]
      BY <2>1, EncodedSteps
    <2> DEFINE S == {i \in 0 .. N : a[i] = b[i]}
    <2>4. /\ a[0] = NewEncoder
          /\ \A n \in 1 .. N : a[n] = store(a[n - 1], TokenOf(SubSeq(s, 1, n - 1), s[n]))
          /\ b[0] = NewEncoder
          /\ \A n \in 1 .. N + 1 : b[n] = store(b[n - 1], TokenOf(SubSeq(t, 1, n - 1), t[n]))
      BY <2>1, <2>2, <2>3 DEF EncodesBy
    <2> HIDE DEF N
    <2>5. 0 \in S
      BY <2>1, <2>4
    <2>6. ASSUME NEW i \in 0 .. N - 1, i \in S PROVE i + 1 \in S
      <3>1. i + 1 \in 1 .. N /\ i + 1 \in 0 .. N /\ i + 1 \in 1 .. N + 1 /\ (i + 1) - 1 = i
            /\ i \in 0 .. N
        BY <2>1
      <3>2. /\ a[i + 1] = store(a[i], TokenOf(SubSeq(s, 1, i), s[i + 1]))
            /\ b[i + 1] = store(b[i], TokenOf(SubSeq(t, 1, i), t[i + 1]))
        BY <2>4, <3>1
      <3>3. SubSeq(s, 1, i) = SubSeq(t, 1, i) /\ s[i + 1] = t[i + 1] /\ a[i] = b[i]
        BY <2>1, <2>6, <3>1
      <3> QED BY <3>1, <3>2, <3>3
    <2> HIDE DEF S
    <2>7. \A i \in 0 .. N : i \in S
      BY <2>1, <2>5, <2>6, InductionUpTo
    <2>8. a[N] = b[N] /\ N + 1 \in 1 .. N + 1 /\ (N + 1) - 1 = N
      BY <2>1, <2>7 DEF S
    <2>9. b[N + 1] = store(b[N], TokenOf(SubSeq(t, 1, N), t[N + 1]))
      BY <2>4, <2>8
    <2> QED BY <2>1, <2>2, <2>3, <2>8, <2>9 DEF t
  <1> QED BY <1>1, <1>2

\* The steps of replay.
ReplaysBy(after, tokens, e) ==
  after[0] = e /\ \A n \in 1 .. Len(tokens) : after[n] = store(after[n - 1], tokens[n])

\* replay is the end of such steps.
LEMMA ReplaySteps ==
  ASSUME NEW r, Len(r.storage) \in Nat, NEW e
  PROVE  \E after : ReplaysBy(after, r.storage, e) /\ replay(r, e) = after[Len(r.storage)]
PROOF
  <1> DEFINE N == Len(r.storage)
             Step(x, n) == store(x, r.storage[n])
             Upto(fn, m) == fn = [n \in 0 .. m |-> IF n = 0 THEN e ELSE Step(fn[n - 1], n)]
             Good == {m \in 0 .. N : \E fn : Upto(fn, m)}
             after == CHOOSE fn : Upto(fn, N)
  <1>0. N \in Nat /\ N \in 0 .. N
    OBVIOUS
  <1> HIDE DEF Step
  <1>1. 0 \in Good
    <2> DEFINE fn == [n \in 0 .. 0 |-> e]
    <2>1. fn = [n \in 0 .. 0 |-> IF n = 0 THEN e ELSE Step(fn[n - 1], n)]
      OBVIOUS
    <2> HIDE DEF fn
    <2>2. Upto(fn, 0) /\ 0 \in 0 .. N
      BY <1>0, <2>1
    <2> QED BY <2>2
  <1>2. ASSUME NEW m \in 0 .. N - 1, m \in Good PROVE m + 1 \in Good
    <2>1. PICK fn : Upto(fn, m)
      BY <1>2
    <2> DEFINE g == [n \in 0 .. m + 1 |-> IF n = m + 1 THEN Step(fn[m], m + 1) ELSE fn[n]]
    <2>2. ASSUME NEW n \in 0 .. m + 1
          PROVE  g[n] = IF n = 0 THEN e ELSE Step(g[n - 1], n)
      <3>1. CASE n = 0
        <4>1. 0 \in 0 .. m /\ 0 # m + 1
          BY <1>0
        <4> QED BY <2>1, <3>1, <4>1
      <3>2. CASE n \in 1 .. m
        <4>1. n \in 0 .. m /\ n # 0 /\ n # m + 1 /\ n - 1 \in 0 .. m + 1 /\ n - 1 # m + 1
          BY <1>0, <3>2
        <4>2. g[n] = fn[n] /\ g[n - 1] = fn[n - 1]
          BY <4>1
        <4>3. fn[n] = Step(fn[n - 1], n)
          BY <2>1, <4>1
        <4> QED BY <4>1, <4>2, <4>3
      <3>3. CASE n = m + 1
        <4>1. n # 0 /\ n - 1 = m /\ m \in 0 .. m + 1 /\ m # m + 1
          BY <1>0, <3>3
        <4> QED BY <3>3, <4>1
      <3>4. n = 0 \/ n \in 1 .. m \/ n = m + 1
        BY <1>0
      <3> QED BY <3>1, <3>2, <3>3, <3>4
    <2>3. DOMAIN g = 0 .. m + 1 /\ g = [n \in 0 .. m + 1 |-> g[n]]
      OBVIOUS
    <2> HIDE DEF g
    <2>4. Upto(g, m + 1)
      BY <2>2, <2>3
    <2>5. m + 1 \in 0 .. N
      BY <1>0
    <2> QED BY <2>4, <2>5
  <1>3. N \in Good
    <2> HIDE DEF Good, N
    <2> QED BY <1>0, <1>1, <1>2, InductionUpTo
  <1>4. Upto(after, N)
    <2> HIDE DEF Upto
    <2> QED BY <1>3
  <1>5. replay(r, e) = after[N]
    BY DEF replay, Step
  <1> HIDE DEF after
  <1>6. after[0] = e /\ \A n \in 1 .. N : after[n] = Step(after[n - 1], n)
    <2>1. 0 \in 0 .. N /\ \A n \in 1 .. N : n \in 0 .. N /\ n # 0
      OBVIOUS
    <2> HIDE DEF N
    <2> QED BY <1>4, <2>1
  <1> QED BY <1>5, <1>6 DEF ReplaysBy, Step

\* Replayed, a Recorder whose tokens are the ones of q after s adds the symbols
\* q to an Encoder that has seen s.
LEMMA ReplayFacts ==
  ASSUME NEW s \in Seq(Written), NEW q \in Seq(Written), NEW r, Len(r.storage) = Len(q),
         \A n \in 1 .. Len(q) : r.storage[n] = TokenOf(s \o SubSeq(q, 1, n - 1), q[n])
  PROVE  replay(r, Encoded(s)) = Encoded(s \o q)
PROOF
  <1> DEFINE N == Len(q)
             X(n) == s \o SubSeq(q, 1, n)
  <1>0. N \in Nat /\ N \in 0 .. N /\ 0 \in 0 .. N /\ \A n \in 1 .. N : q[n] \in Written
    OBVIOUS
  <1>1. PICK a : ReplaysBy(a, r.storage, Encoded(s)) /\ replay(r, Encoded(s)) = a[N]
    BY <1>0, ReplaySteps
  <1> DEFINE S == {n \in 0 .. N : a[n] = Encoded(X(n))}
  <1>2. 0 \in S
    <2>1. X(0) = s
      OBVIOUS
    <2> HIDE DEF X, N
    <2> QED BY <1>0, <1>1, <2>1 DEF ReplaysBy
  <1>3. ASSUME NEW n \in 0 .. N - 1, n \in S PROVE n + 1 \in S
    <2>1. n + 1 \in 1 .. N /\ n + 1 \in 0 .. N /\ (n + 1) - 1 = n
      BY <1>0
    <2>2. X(n) \in Seq(Written) /\ X(n + 1) = Append(X(n), q[n + 1])
      BY PrefixAfter
    <2>3. a[n + 1] = store(a[n], r.storage[n + 1])
      BY <1>1, <2>1 DEF ReplaysBy
    <2>4. r.storage[n + 1] = TokenOf(X(n), q[n + 1])
      BY <2>1
    <2>5. a[n] = Encoded(X(n))
      BY <1>3
    <2> HIDE DEF X
    <2>6. Encoded(X(n + 1)) = store(Encoded(X(n)), TokenOf(X(n), q[n + 1]))
      BY <1>0, <2>1, <2>2, EncodedFacts
    <2> QED BY <2>1, <2>3, <2>4, <2>5, <2>6
  <1>4. N \in S
    <2> HIDE DEF S, N
    <2> QED BY <1>0, <1>2, <1>3, InductionUpTo
  <1>5. X(N) = s \o q
    <2>1. SubSeq(q, 1, N) = q
      OBVIOUS
    <2> QED BY <2>1
  <1> QED BY <1>1, <1>4, <1>5

\* Symbols of other CDFs do not change a CDF.
LEMMA CdfElsewhere ==
  ASSUME NEW s \in Seq(Written), NEW q \in Seq(Written), NEW c \in Cdfs,
         \A n \in 1 .. Len(q) : q[n][1] # c
  PROVE  Cdf(Adapted(s \o q), c) = Cdf(Adapted(s), c)
PROOF
  <1> DEFINE N == Len(q)
             X(n) == s \o SubSeq(q, 1, n)
             S == {n \in 0 .. N : Cdf(Adapted(X(n)), c) = Cdf(Adapted(s), c)}
  <1>0. N \in Nat /\ N \in 0 .. N /\ 0 \in 0 .. N /\ \A n \in 1 .. N : q[n] \in Written
    OBVIOUS
  <1>1. 0 \in S
    <2>1. X(0) = s
      OBVIOUS
    <2> HIDE DEF X, N
    <2> QED BY <1>0, <2>1
  <1>2. ASSUME NEW n \in 0 .. N - 1, n \in S PROVE n + 1 \in S
    <2>1. n + 1 \in 1 .. N /\ n + 1 \in 0 .. N
      BY <1>0
    <2>2. q[n + 1] \in Written /\ q[n + 1][1] # c /\ q[n + 1][1] \in Cdfs
      BY <1>0, <2>1 DEF Written
    <2>3. X(n) \in Seq(Written) /\ X(n + 1) = Append(X(n), q[n + 1])
      BY PrefixAfter
    <2>4. Cdf(Adapted(X(n)), c) = Cdf(Adapted(s), c)
      BY <1>2
    <2> HIDE DEF X
    <2>5. Adapted(X(n + 1)) = AdaptedTo(Adapted(X(n)), q[n + 1])
      BY <2>2, <2>3, AdaptedFacts
    <2>6. Cdf(AdaptedTo(Adapted(X(n)), q[n + 1]), c) = Cdf(Adapted(X(n)), c)
      <3>1. IsWords(Adapted(X(n)))
        BY <2>3, AdaptedWords
      <3> QED BY <2>2, <3>1, UpdatedElsewhere DEF AdaptedTo
    <2> QED BY <2>1, <2>4, <2>5, <2>6
  <1>3. N \in S
    <2> HIDE DEF S, N
    <2> QED BY <1>0, <1>1, <1>2, InductionUpTo
  <1>4. X(N) = s \o q
    <2>1. SubSeq(q, 1, N) = q
      OBVIOUS
    <2> QED BY <2>1
  <1> QED BY <1>3, <1>4

-----------------------------------------------------------------------------
(* The invariant *)

\* The entries of a part of the log are of its CDFs.
Part(c) == IF Small(c) THEN "small" ELSE "large"
EntriesOf(part, name) ==
  \A k \in 1 .. Len(part) :
    \E c \in Cdfs : Part(c) = name /\ DOMAIN part[k] = LoggedWords(c)

\* The log is two sequences of entries.
IsLog(log) ==
  /\ log = [small |-> log.small, large |-> log.large]
  /\ IsSeq(log.small) /\ EntriesOf(log.small, "small")
  /\ IsSeq(log.large) /\ EntriesOf(log.large, "large")

\* What was recorded is not of write_lrf, and its tokens are the ones that the
\* Encoder would have been given.
PendingInv ==
  /\ stored \in Seq(Written) /\ pending \in Seq(Written)
  /\ IsSeq(rec.storage) /\ Len(rec.storage) = Len(pending)
  /\ \A n \in 1 .. Len(pending) :
       /\ pending[n][1] \notin DirectCdfs
       /\ rec.storage[n] = TokenOf(stored \o SubSeq(pending, 1, n - 1), pending[n])

\* The oldest entries after the first n hold the words of the goal.
PartHolds(part, n, goal) ==
  \A i \in Words : \A k : Oldest(part, n, i, k) => part[k][i] = goal[i]

\* A checkpoint is within the log; the entries after it, and the words that
\* are in none of them, hold what is to be restored.
InLog(m, log) == m.small \in 0 .. Len(log.small) /\ m.large \in 0 .. Len(log.large)

Holds(m, log, words, goal) ==
  /\ PartHolds(log.small, m.small, goal)
  /\ PartHolds(log.large, m.large, goal)
  /\ \A i \in Words :
       Unlogged(log.small, m.small, i) /\ Unlogged(log.large, m.large, i)
         => words[i] = goal[i]

\* The words when a checkpoint was taken, and its Recorder.
Target(m) == Adapted(stored \o SubSeq(pending, 1, m.w.backend_var))
MarkOfRecorder(m) ==
  m.w = recorder_checkpoint(Recorded(SubSeq(rec.storage, 1, m.w.backend_var)))

\* Checkpoints are nested.
Within(m, n) ==
  m.small <= n.small /\ m.large <= n.large /\ m.w.backend_var <= n.w.backend_var

MarksInv ==
  /\ IsSeq(marks)
  /\ \A k \in 1 .. Len(marks) :
       /\ InLog(marks[k], fc_log) /\ Holds(marks[k], fc_log, fc, Target(marks[k]))
       /\ marks[k].w.backend_var \in 0 .. Len(pending) /\ MarkOfRecorder(marks[k])
  /\ \A j, k \in 1 .. Len(marks) : j <= k => Within(marks[j], marks[k])

SwInv == IsLog(fc_log) /\ PendingInv /\ MarksInv /\ RollbackComplete

\* The empty sequence is one.
LEMMA EmptyIsSeq == IsSeq(<<>>) /\ Len(<<>>) = 0
PROOF
  <1>1. <<>> \in Seq({}) /\ Len(<<>>) = 0
    OBVIOUS
  <1> QED BY <1>1 DEF IsSeq

\* It holds when a tile begins.
LEMMA SwInitInv == SwInit => SwInv
PROOF
  <1> SUFFICES ASSUME SwInit PROVE SwInv
    OBVIOUS
  <1>0. Len(<<>>) = 0 /\ IsSeq(<<>>)
    BY EmptyIsSeq
  <1>1. IsLog(fc_log)
    BY <1>0 DEF SwInit, IsLog, EmptyLog, EntriesOf
  <1>2. PendingInv
    BY <1>0 DEF SwInit, PendingInv, NewRecorder
  <1>3. MarksInv
    BY <1>0 DEF SwInit, MarksInv
  <1>4. RollbackComplete
    <2>1. <<>> \o <<>> = <<>>
      OBVIOUS
    <2> QED BY <2>1, AdaptedFacts, RecordedFacts, EncodedFacts
            DEF SwInit, RollbackComplete, NewRecorder
  <1> QED BY <1>1, <1>2, <1>3, <1>4 DEF SwInv

-----------------------------------------------------------------------------
(* A symbol is recorded *)

\* A word that entries of both parts hold is padding.
LEMMA InBothParts ==
  ASSUME NEW c \in Cdfs, NEW d \in Cdfs, Part(c) # Part(d),
         NEW i, i \in LoggedWords(c), i \in LoggedWords(d)
  PROVE  Padding(i)
PROOF
  <1> SUFFICES ASSUME NEW e \in Cdfs, i \in OwnWords(e) PROVE FALSE
    BY DEF Padding
  <1>0. \A a, b \in Cdfs : Part(a) # Part(b) => LoggedWords(a) \cap OwnWords(b) = {}
    <2> SUFFICES ASSUME NEW a \in Cdfs, NEW b \in Cdfs, Part(a) # Part(b)
                 PROVE  LoggedWords(a) \cap OwnWords(b) = {}
      OBVIOUS
    <2>1. Small(a) # Small(b) /\ a # b
      BY DEF Part, Small
    <2> QED BY <2>1, LayoutAssumption DEF Cdfs
  <1>1. Part(e) # Part(c) \/ Part(e) # Part(d)
    OBVIOUS
  <1>2. CASE Part(e) # Part(c)
    BY <1>0, <1>2
  <1>3. CASE Part(e) # Part(d)
    BY <1>0, <1>3
  <1> QED BY <1>1, <1>2, <1>3

\* One more entry, with the words as they are, in a part of the log.
LEMMA PartGrows ==
  ASSUME NEW part, IsSeq(part), NEW name, EntriesOf(part, name),
         NEW other, Len(other) \in Nat, NEW others, EntriesOf(other, others), name # others,
         NEW c \in Cdfs, Part(c) = name, NEW words,
         NEW n \in 0 .. Len(part), NEW l \in 0 .. Len(other), NEW goal,
         PartHolds(part, n, goal),
         \A i \in Words : Padding(i) => words[i] = goal[i],
         \A i \in Words : Unlogged(part, n, i) /\ Unlogged(other, l, i) => words[i] = goal[i],
         NEW e, DOMAIN e = LoggedWords(c), \A i \in LoggedWords(c) : e[i] = words[i]
  PROVE  /\ PartHolds(Append(part, e), n, goal)
         /\ \A i \in Words : Unlogged(Append(part, e), n, i) =>
              Unlogged(part, n, i) /\ i \notin LoggedWords(c)
PROOF
  <1> DEFINE new == Append(part, e)
             N == Len(part)
  <1>1. /\ N \in Nat /\ Len(new) = N + 1 /\ new[N + 1] = e
        /\ \A i \in 1 .. N : new[i] = part[i]
    BY AppendFacts
  <1> HIDE DEF new
  <1>2. ASSUME NEW i \in Words, NEW k, Oldest(new, n, i, k) PROVE new[k][i] = goal[i]
    <2>1. k \in n + 1 .. N + 1 /\ i \in DOMAIN new[k]
          /\ \A j \in n + 1 .. k - 1 : i \notin DOMAIN new[j]
      BY <1>1, <1>2 DEF Oldest
    <2>2. CASE k \in n + 1 .. N
      <3>1. k \in 1 .. N /\ \A j \in n + 1 .. k - 1 : j \in 1 .. N
        BY <1>1, <2>2
      <3>2. Oldest(part, n, i, k)
        BY <1>1, <2>1, <2>2, <3>1 DEF Oldest
      <3> QED BY <1>1, <3>1, <3>2 DEF PartHolds
    <2>3. CASE k = N + 1
      <3>1. i \in LoggedWords(c) /\ new[k][i] = words[i]
        BY <1>1, <2>1, <2>3
      <3>2. Unlogged(part, n, i)
        <4>1. \A j \in n + 1 .. N : j \in n + 1 .. k - 1 /\ j \in 1 .. N
          BY <1>1, <2>3
        <4> QED BY <1>1, <2>1, <4>1 DEF Unlogged
      <3>3. CASE Unlogged(other, l, i)
        BY <3>1, <3>2, <3>3
      <3>4. CASE ~Unlogged(other, l, i)
        <4>1. PICK j \in l + 1 .. Len(other) : i \in DOMAIN other[j]
          BY <3>4 DEF Unlogged
        <4>2. j \in 1 .. Len(other)
          BY <4>1
        <4>3. PICK d \in Cdfs : Part(d) = others /\ DOMAIN other[j] = LoggedWords(d)
          BY <4>2 DEF EntriesOf
        <4>4. Padding(i)
          BY <3>1, <4>1, <4>3, InBothParts
        <4> QED BY <3>1, <4>4
      <3> QED BY <3>3, <3>4
    <2>4. k \in n + 1 .. N \/ k = N + 1
      BY <1>1, <2>1
    <2> QED BY <2>2, <2>3, <2>4
  <1>3. ASSUME NEW i \in Words, Unlogged(new, n, i)
        PROVE  Unlogged(part, n, i) /\ i \notin LoggedWords(c)
    <2>1. N + 1 \in n + 1 .. N + 1
      BY <1>1
    <2>2. i \notin LoggedWords(c)
      BY <1>1, <1>3, <2>1 DEF Unlogged
    <2>3. \A k \in n + 1 .. N : k \in n + 1 .. N + 1 /\ k \in 1 .. N
      BY <1>1
    <2>4. Unlogged(part, n, i)
      BY <1>1, <1>3, <2>3 DEF Unlogged
    <2> QED BY <2>2, <2>4
  <1> QED BY <1>2, <1>3 DEF PartHolds, new

\* push, with the log and the words it works on.
Pushed(log, words, c) ==
  LET entry == [i \in LoggedWords(c) |-> words[i]]
  IN IF Small(c) THEN [log EXCEPT !.small = Append(@, entry)]
                 ELSE [log EXCEPT !.large = Append(@, entry)]

\* push adds an entry to one part of the log.
LEMMA PushFacts ==
  ASSUME NEW log, IsLog(log), NEW words, NEW c \in Cdfs
  PROVE  LET new == Pushed(log, words, c)
             entry == [i \in LoggedWords(c) |-> words[i]]
         IN /\ IsLog(new)
            /\ \/ Small(c) /\ new.small = Append(log.small, entry) /\ new.large = log.large
               \/ ~Small(c) /\ new.large = Append(log.large, entry) /\ new.small = log.small
            /\ \A m : InLog(m, log) => InLog(m, new)
            /\ Len(log.small) \in 0 .. Len(new.small) /\ Len(log.large) \in 0 .. Len(new.large)
PROOF
  <1> DEFINE e == [i \in LoggedWords(c) |-> words[i]]
             new == Pushed(log, words, c)
  <1>0. DOMAIN e = LoggedWords(c)
    OBVIOUS
  <1> HIDE DEF e
  <1>1. IsSeq(log.small) /\ IsSeq(log.large) /\ log = [small |-> log.small, large |-> log.large]
    BY DEF IsLog
  <1>2. Len(log.small) \in Nat /\ Len(log.large) \in Nat
    BY <1>1, AppendFacts
  <1>3. ASSUME NEW part, IsSeq(part), EntriesOf(part, Part(c))
        PROVE  EntriesOf(Append(part, e), Part(c)) /\ IsSeq(Append(part, e))
               /\ Len(Append(part, e)) = Len(part) + 1
    <2>1. /\ Len(part) \in Nat /\ Len(Append(part, e)) = Len(part) + 1
          /\ IsSeq(Append(part, e)) /\ Append(part, e)[Len(part) + 1] = e
          /\ \A i \in 1 .. Len(part) : Append(part, e)[i] = part[i]
      BY <1>3, AppendFacts
    <2>2. \A k \in 1 .. Len(part) + 1 : k \in 1 .. Len(part) \/ k = Len(part) + 1
      BY <2>1
    <2> QED BY <1>0, <1>3, <2>1, <2>2 DEF EntriesOf
  <1>4. CASE Small(c)
    <2>1. new = [small |-> Append(log.small, e), large |-> log.large]
      BY <1>1, <1>4 DEF Pushed, e
    <2> HIDE DEF new
    <2>2. new.small = Append(log.small, e) /\ new.large = log.large
      BY <2>1
    <2>3. EntriesOf(log.small, Part(c)) /\ Part(c) = "small"
      BY <1>4 DEF IsLog, Part
    <2>4. EntriesOf(new.small, "small") /\ IsSeq(new.small) /\ Len(new.small) = Len(log.small) + 1
      BY <1>1, <1>3, <2>2, <2>3
    <2>5. IsLog(new)
      BY <2>1, <2>2, <2>4 DEF IsLog
    <2>6. \A m : InLog(m, log) => InLog(m, new)
      BY <1>2, <2>2, <2>4 DEF InLog
    <2>7. Len(log.small) \in 0 .. Len(new.small) /\ Len(log.large) \in 0 .. Len(new.large)
      BY <1>2, <2>2, <2>4
    <2> QED BY <1>4, <2>2, <2>5, <2>6, <2>7 DEF new, e
  <1>5. CASE ~Small(c)
    <2>1. new = [small |-> log.small, large |-> Append(log.large, e)]
      BY <1>1, <1>5 DEF Pushed, e
    <2> HIDE DEF new
    <2>2. new.large = Append(log.large, e) /\ new.small = log.small
      BY <2>1
    <2>3. EntriesOf(log.large, Part(c)) /\ Part(c) = "large"
      BY <1>5 DEF IsLog, Part
    <2>4. EntriesOf(new.large, "large") /\ IsSeq(new.large) /\ Len(new.large) = Len(log.large) + 1
      BY <1>1, <1>3, <2>2, <2>3
    <2>5. IsLog(new)
      BY <2>1, <2>2, <2>4 DEF IsLog
    <2>6. \A m : InLog(m, log) => InLog(m, new)
      BY <1>2, <2>2, <2>4 DEF InLog
    <2>7. Len(log.small) \in 0 .. Len(new.small) /\ Len(log.large) \in 0 .. Len(new.large)
      BY <1>2, <2>2, <2>4
    <2> QED BY <1>5, <2>2, <2>5, <2>6, <2>7 DEF new, e
  <1> QED BY <1>4, <1>5

\* An update, logged before, leaves what a checkpoint restores.
LEMMA UpdateHolds ==
  ASSUME NEW log, IsLog(log), NEW words, IsWords(words), NEW c \in Cdfs, NEW s,
         NEW m, InLog(m, log), NEW goal, Holds(m, log, words, goal),
         \A i \in Words : Padding(i) => words[i] = goal[i]
  PROVE  Holds(m, Pushed(log, words, c), Updated(words, c, s), goal)
PROOF
  <1> DEFINE new == Pushed(log, words, c)
             e == [i \in LoggedWords(c) |-> words[i]]
             Kept(i) == Unlogged(new.small, m.small, i) /\ Unlogged(new.large, m.large, i)
  <1>1. /\ IsSeq(log.small) /\ EntriesOf(log.small, "small")
        /\ IsSeq(log.large) /\ EntriesOf(log.large, "large")
    BY DEF IsLog
  <1>2. Len(log.small) \in Nat /\ Len(log.large) \in Nat
    BY <1>1, AppendFacts
  <1>3. m.small \in 0 .. Len(log.small) /\ m.large \in 0 .. Len(log.large)
    BY DEF InLog
  <1>4. \/ Small(c) /\ new.small = Append(log.small, e) /\ new.large = log.large
        \/ ~Small(c) /\ new.large = Append(log.large, e) /\ new.small = log.small
    BY PushFacts
  <1> HIDE DEF new
  <1>5. /\ PartHolds(log.small, m.small, goal) /\ PartHolds(log.large, m.large, goal)
        /\ \A i \in Words : Unlogged(log.small, m.small, i) /\ Unlogged(log.large, m.large, i)
             => words[i] = goal[i]
    BY DEF Holds
  <1>6. /\ PartHolds(new.small, m.small, goal) /\ PartHolds(new.large, m.large, goal)
        /\ \A i \in Words : Kept(i) =>
             /\ Unlogged(log.small, m.small, i) /\ Unlogged(log.large, m.large, i)
             /\ i \notin LoggedWords(c)
    <2>1. CASE Small(c)
      <3>1. new.small = Append(log.small, e) /\ new.large = log.large
        BY <1>4, <2>1
      <3>2. Part(c) = "small" /\ "small" # "large"
        BY <2>1 DEF Part
      <3>3. /\ PartHolds(Append(log.small, e), m.small, goal)
            /\ \A i \in Words : Unlogged(Append(log.small, e), m.small, i) =>
                 Unlogged(log.small, m.small, i) /\ i \notin LoggedWords(c)
        <4>1. DOMAIN e = LoggedWords(c) /\ \A i \in LoggedWords(c) : e[i] = words[i]
          OBVIOUS
        <4> HIDE DEF e
        <4> QED BY <1>1, <1>2, <1>3, <1>5, <3>2, <4>1, PartGrows
      <3> HIDE DEF e
      <3> QED BY <1>5, <3>1, <3>3
    <2>2. CASE ~Small(c)
      <3>1. new.large = Append(log.large, e) /\ new.small = log.small
        BY <1>4, <2>2
      <3>2. Part(c) = "large" /\ "small" # "large"
        BY <2>2 DEF Part
      <3>3. /\ PartHolds(Append(log.large, e), m.large, goal)
            /\ \A i \in Words : Unlogged(Append(log.large, e), m.large, i) =>
                 Unlogged(log.large, m.large, i) /\ i \notin LoggedWords(c)
        <4>1. DOMAIN e = LoggedWords(c) /\ \A i \in LoggedWords(c) : e[i] = words[i]
          OBVIOUS
        <4> HIDE DEF e
        <4> QED BY <1>1, <1>2, <1>3, <1>5, <3>2, <4>1, PartGrows, SMTT(60)
      <3> HIDE DEF e
      <3> QED BY <1>5, <3>1, <3>3
    <2> QED BY <2>1, <2>2
  <1>7. ASSUME NEW i \in Words, Kept(i) PROVE Updated(words, c, s)[i] = goal[i]
    <2>1. i \notin OwnWords(c)
      BY <1>6, <1>7, OwnLogged
    <2>2. Updated(words, c, s)[i] = words[i]
      BY <2>1, UpdatedFacts
    <2> QED BY <1>5, <1>6, <1>7, <2>2
  <1> QED BY <1>6, <1>7 DEF Holds, new

\* A symbol is recorded.
LEMMA RecordSymbolInv ==
  ASSUME SwInv, NEW p \in Symbols, RecordSymbol(p[1], p[2])
  PROVE  SwInv'
PROOF
  <1> DEFINE c == p[1]
             s == p[2]
             x == <<c, s>>
             t == token(Cdf(fc, c), s)
  <1>1. c \in Cdfs /\ s \in Nat /\ c \notin DirectCdfs /\ x \in Written
    BY WriterAssumption, LayoutAssumption DEF RecordSymbol, Cdfs, Written
  <1>2. /\ IsLog(fc_log) /\ PendingInv /\ MarksInv
        /\ fc = Adapted(stored \o pending) /\ rec = Recorded(rec.storage) /\ enc = Encoded(stored)
    BY DEF SwInv, RollbackComplete
  <1>3. /\ stored \in Seq(Written) /\ pending \in Seq(Written) /\ IsSeq(rec.storage)
        /\ Len(rec.storage) = Len(pending) /\ stored \o pending \in Seq(Written)
        /\ Len(pending) \in Nat /\ Len(stored) \in Nat
    BY <1>2 DEF PendingInv
  <1>4. /\ fc_log' = Pushed(fc_log, fc, c) /\ rec' = record(rec, t) /\ fc' = Updated(fc, c, s)
        /\ pending' = Append(pending, x) /\ stored' = stored /\ enc' = enc /\ marks' = marks
    BY DEF RecordSymbol, push, Pushed
  <1>5. x[1] = c /\ x[2] = s /\ t = TokenOf(stored \o pending, x)
    BY <1>2 DEF TokenOf
  <1>6. IsWords(fc)
    BY <1>2, <1>3, AdaptedWords
  <1>7. rec'.storage = Append(rec.storage, t) /\ Recorded(Append(rec.storage, t)) = rec'
    <2>1. rec'.storage = Append(rec.storage, t)
      BY <1>4 DEF record
    <2> HIDE DEF t
    <2> QED BY <1>2, <1>3, <1>4, <2>1, RecordedFacts
  <1> HIDE DEF c, s, t, x
  <1>8. fc' = Adapted(stored \o pending')
    <2>1. stored \o Append(pending, x) = Append(stored \o pending, x)
      BY <1>1, <1>3
    <2> QED BY <1>1, <1>2, <1>3, <1>4, <1>5, <2>1, AdaptedFacts DEF AdaptedTo
  <1>9. RollbackComplete'
    BY <1>2, <1>4, <1>7, <1>8 DEF RollbackComplete
  <1>10. IsLog(fc_log')
    BY <1>1, <1>2, <1>4, PushFacts
  <1>11. PendingInv'
    <2>1. /\ pending' \in Seq(Written) /\ Len(pending') = Len(pending) + 1
          /\ pending'[Len(pending) + 1] = x /\ \A n \in 1 .. Len(pending) : pending'[n] = pending[n]
          /\ \A n \in 0 .. Len(pending) : SubSeq(pending', 1, n) = SubSeq(pending, 1, n)
          /\ SubSeq(pending', 1, Len(pending)) = pending
      BY <1>1, <1>3, <1>4
    <2>2. IsSeq(rec'.storage) /\ Len(rec'.storage) = Len(rec.storage) + 1
          /\ rec'.storage[Len(pending) + 1] = t
          /\ \A n \in 1 .. Len(pending) : rec'.storage[n] = rec.storage[n]
      BY <1>3, <1>7, AppendFacts
    <2>3. ASSUME NEW n \in 1 .. Len(pending')
          PROVE  /\ pending'[n][1] \notin DirectCdfs
                 /\ rec'.storage[n] = TokenOf(stored \o SubSeq(pending', 1, n - 1), pending'[n])
      <3>1. CASE n = Len(pending) + 1
        <4>1. n - 1 = Len(pending)
          BY <1>3, <3>1
        <4>2. pending'[n] = x
          BY <2>1, <3>1
        <4>3. rec'.storage[n] = t
          BY <2>2, <3>1
        <4>4. SubSeq(pending', 1, n - 1) = pending
          BY <2>1, <4>1
        <4> QED BY <1>1, <1>5, <4>2, <4>3, <4>4
      <3>2. CASE n \in 1 .. Len(pending)
        <4>1. n - 1 \in 0 .. Len(pending)
          BY <1>3, <3>2
        <4>2. /\ pending[n][1] \notin DirectCdfs
              /\ rec.storage[n] = TokenOf(stored \o SubSeq(pending, 1, n - 1), pending[n])
          BY <1>2, <3>2 DEF PendingInv
        <4> QED BY <2>1, <2>2, <3>2, <4>1, <4>2
      <3>3. n = Len(pending) + 1 \/ n \in 1 .. Len(pending)
        BY <1>3, <2>1
      <3> QED BY <3>1, <3>2, <3>3
    <2> QED BY <1>3, <1>4, <2>1, <2>2, <2>3 DEF PendingInv
  <1>12. MarksInv'
    <2> SUFFICES ASSUME NEW k \in 1 .. Len(marks)
                 PROVE  /\ InLog(marks[k], fc_log')
                        /\ Holds(marks[k], fc_log', fc', Adapted(stored \o SubSeq(pending', 1, marks[k].w.backend_var)))
                        /\ marks[k].w.backend_var \in 0 .. Len(pending')
                        /\ marks[k].w = recorder_checkpoint(
                             Recorded(SubSeq(rec'.storage, 1, marks[k].w.backend_var)))
      BY <1>2, <1>4 DEF MarksInv, Target, MarkOfRecorder, Within
    <2> DEFINE m == marks[k]
               b == m.w.backend_var
               T == Adapted(stored \o SubSeq(pending, 1, b))
    <2>1. /\ InLog(m, fc_log) /\ Holds(m, fc_log, fc, T)
          /\ b \in 0 .. Len(pending)
          /\ m.w = recorder_checkpoint(Recorded(SubSeq(rec.storage, 1, b)))
      BY <1>2 DEF MarksInv, Target, MarkOfRecorder
    <2> HIDE DEF b
    <2>2. SubSeq(pending', 1, b) = SubSeq(pending, 1, b) /\ b \in 0 .. Len(pending')
      BY <1>1, <1>3, <1>4, <2>1
    <2>3. SubSeq(rec'.storage, 1, b) = SubSeq(rec.storage, 1, b)
      BY <1>3, <1>7, <2>1, PrefixAppend
    <2>4. InLog(m, fc_log')
      BY <1>1, <1>2, <1>4, <2>1, PushFacts
    <2>5. \A i \in Words : Padding(i) => fc[i] = T[i]
      <3>1. stored \o SubSeq(pending, 1, b) \in Seq(Written)
        BY <1>3, <2>1
      <3> QED BY <1>2, <1>3, <3>1, AdaptedWords
    <2>6. Holds(m, fc_log', fc', T)
      <3> HIDE DEF m, T
      <3> QED BY <1>1, <1>2, <1>4, <1>6, <2>1, <2>5, UpdateHolds
    <2> QED BY <2>1, <2>2, <2>3, <2>4, <2>6 DEF b
  <1> QED BY <1>9, <1>10, <1>11, <1>12 DEF SwInv

-----------------------------------------------------------------------------
(* A symbol is written to the Encoder *)

\* The words that are adapted are logged before they change.
LEMMA WriteDirectInv ==
  ASSUME SwInv, NEW p \in Symbols, WriteDirect(p[1], p[2])
  PROVE  SwInv'
PROOF
  <1> DEFINE c == p[1]
             s == p[2]
             x == <<c, s>>
  <1>1. c \in Cdfs /\ s \in Nat /\ c \in DirectCdfs /\ x \in Written /\ marks = <<>>
    BY WriterAssumption, LayoutAssumption DEF WriteDirect, Cdfs, Written
  <1>2. /\ IsLog(fc_log) /\ PendingInv /\ MarksInv
        /\ fc = Adapted(stored \o pending) /\ rec = Recorded(rec.storage) /\ enc = Encoded(stored)
    BY DEF SwInv, RollbackComplete
  <1>3. /\ stored \in Seq(Written) /\ pending \in Seq(Written) /\ IsSeq(rec.storage)
        /\ Len(rec.storage) = Len(pending) /\ Len(pending) \in Nat
    BY <1>2 DEF PendingInv
  <1>4. /\ fc_log' = Pushed(fc_log, fc, c) /\ enc' = store(enc, token(Cdf(fc, c), s))
        /\ fc' = Updated(fc, c, s)
        /\ stored' = Append(stored, x) /\ pending' = pending /\ rec' = rec /\ marks' = marks
    BY DEF WriteDirect, push, Pushed
  <1>5. x[1] = c /\ x[2] = s
    OBVIOUS
  <1> HIDE DEF c, s, x
  <1>6. \A n \in 1 .. Len(pending) : pending[n] \in Written /\ pending[n][1] # c
    BY <1>1, <1>2, <1>3 DEF PendingInv
  <1>7. fc' = Adapted(stored' \o pending')
    BY <1>1, <1>2, <1>3, <1>4, <1>5, <1>6, AdaptedInFront DEF AdaptedTo
  <1>8. enc' = Encoded(stored')
    <2>1. Cdf(fc, c) = Cdf(Adapted(stored), c)
      BY <1>1, <1>2, <1>3, <1>6, CdfElsewhere
    <2> QED BY <1>1, <1>2, <1>3, <1>4, <1>5, <2>1, EncodedFacts DEF TokenOf
  <1>9. RollbackComplete'
    BY <1>2, <1>4, <1>7, <1>8 DEF RollbackComplete
  <1>10. IsLog(fc_log')
    BY <1>1, <1>2, <1>4, PushFacts
  <1>11. PendingInv'
    <2>1. stored' \in Seq(Written)
      BY <1>1, <1>3, <1>4
    <2>2. ASSUME NEW n \in 1 .. Len(pending)
          PROVE  rec.storage[n] = TokenOf(stored' \o SubSeq(pending, 1, n - 1), pending[n])
      <3> DEFINE q == SubSeq(pending, 1, n - 1)
                 d == pending[n][1]
      <3>1. rec.storage[n] = TokenOf(stored \o q, pending[n])
        BY <1>2 DEF PendingInv
      <3>2. q \in Seq(Written) /\ Len(q) = n - 1 /\ \A i \in 1 .. Len(q) : q[i] = pending[i]
        BY <1>3
      <3>3. \A i \in 1 .. Len(q) : q[i][1] # x[1]
        <4>1. \A i \in 1 .. Len(q) : i \in 1 .. Len(pending)
          BY <1>3, <3>2
        <4> QED BY <1>5, <1>6, <3>2, <4>1
      <3>4. d \in Cdfs /\ d # c
        BY <1>6 DEF Written
      <3> HIDE DEF q, d
      <3>5. Adapted(stored' \o q) = Updated(Adapted(stored \o q), c, s)
        BY <1>1, <1>3, <1>4, <1>5, <3>2, <3>3, AdaptedInFront DEF AdaptedTo
      <3>6. IsWords(Adapted(stored \o q))
        <4>1. stored \o q \in Seq(Written)
          BY <1>3, <3>2
        <4> QED BY <4>1, AdaptedWords
      <3>7. Cdf(Adapted(stored' \o q), d) = Cdf(Adapted(stored \o q), d)
        BY <1>1, <3>4, <3>5, <3>6, UpdatedElsewhere
      <3> QED BY <3>1, <3>7 DEF TokenOf, d, q
    <2> QED BY <1>2, <1>4, <2>1, <2>2 DEF PendingInv
  <1>12. MarksInv'
    BY <1>1, <1>4, EmptyIsSeq DEF MarksInv
  <1> QED BY <1>9, <1>10, <1>11, <1>12 DEF SwInv

-----------------------------------------------------------------------------
(* Checkpoints *)

\* A checkpoint is taken.
LEMMA CheckpointInv == ASSUME SwInv, Checkpoint PROVE SwInv'
PROOF
  <1> DEFINE m == [small |-> Len(fc_log.small), large |-> Len(fc_log.large),
                   w |-> recorder_checkpoint(rec)]
             N == Len(marks)
  <1>1. /\ IsLog(fc_log) /\ PendingInv /\ MarksInv /\ RollbackComplete
        /\ fc = Adapted(stored \o pending) /\ rec = Recorded(rec.storage)
    BY DEF SwInv, RollbackComplete
  <1>2. /\ pending \in Seq(Written) /\ IsSeq(rec.storage) /\ Len(rec.storage) = Len(pending)
        /\ Len(pending) \in Nat
    BY <1>1 DEF PendingInv
  <1>3. /\ marks' = Append(marks, m) /\ fc_log' = fc_log /\ fc' = fc /\ rec' = rec
        /\ pending' = pending /\ stored' = stored /\ enc' = enc
    BY DEF Checkpoint
  <1>4. Len(fc_log.small) \in Nat /\ Len(fc_log.large) \in Nat
    <2>1. IsSeq(fc_log.small) /\ IsSeq(fc_log.large)
      BY <1>1 DEF IsLog
    <2> QED BY <2>1, AppendFacts
  <1>5. /\ m.small = Len(fc_log.small) /\ m.large = Len(fc_log.large)
        /\ m.w = recorder_checkpoint(rec) /\ m.w.backend_var = Len(pending)
    BY <1>2 DEF recorder_checkpoint
  <1> HIDE DEF m
  <1>6. SubSeq(pending, 1, Len(pending)) = pending
        /\ SubSeq(rec.storage, 1, Len(pending)) = rec.storage
    <2>1. Len(rec.storage) \in 0 .. Len(rec.storage)
      BY <1>2
    <2>2. SubSeq(rec.storage, 1, Len(rec.storage)) = rec.storage
      BY <1>2, <2>1, PrefixFacts
    <2> QED BY <1>2, <2>2
  <1>7. Holds(m, fc_log, fc, Target(m))
    <2>1. fc = Target(m)
      BY <1>1, <1>5, <1>6 DEF Target
    <2>2. PartHolds(fc_log.small, m.small, Target(m))
      BY <1>4, <1>5 DEF PartHolds, Oldest
    <2>3. PartHolds(fc_log.large, m.large, Target(m))
      BY <1>4, <1>5 DEF PartHolds, Oldest
    <2> QED BY <2>1, <2>2, <2>3 DEF Holds
  <1>8. InLog(m, fc_log) /\ m.w.backend_var \in 0 .. Len(pending) /\ MarkOfRecorder(m)
    <2>1. SubSeq(rec.storage, 1, m.w.backend_var) = rec.storage
      BY <1>5, <1>6, Zenon
    <2>2. MarkOfRecorder(m)
      BY <1>1, <1>5, <2>1, Zenon DEF MarkOfRecorder
    <2> QED BY <1>2, <1>4, <1>5, <2>2 DEF InLog
  <1> DEFINE Good(x) == /\ InLog(x, fc_log) /\ Holds(x, fc_log, fc, Target(x))
                        /\ x.w.backend_var \in 0 .. Len(pending) /\ MarkOfRecorder(x)
  <1>9. /\ IsSeq(marks) /\ \A k \in 1 .. N : Good(marks[k])
        /\ \A j, k \in 1 .. N : j <= k => Within(marks[j], marks[k])
    BY <1>1 DEF MarksInv
  <1>10. /\ IsSeq(marks') /\ N \in Nat /\ Len(marks') = N + 1 /\ marks'[N + 1] = m
         /\ \A k \in 1 .. N : marks'[k] = marks[k]
    BY <1>3, <1>9, AppendFacts
  <1>11. Good(m)
    BY <1>7, <1>8
  <1>12. \A x : Good(x) => Within(x, m)
    BY <1>4, <1>5, <1>2 DEF Within, InLog
  <1> HIDE DEF N
  <1>13. \A k \in 1 .. N + 1 : Good(marks'[k])
    <2>1. \A k \in 1 .. N + 1 : k \in 1 .. N \/ k = N + 1
      BY <1>10
    <2> HIDE DEF Good
    <2> QED BY <1>9, <1>10, <1>11, <2>1
  <1>14. ASSUME NEW j \in 1 .. N + 1, NEW k \in 1 .. N + 1, j <= k
         PROVE  Within(marks'[j], marks'[k])
    <2>1. CASE k = N + 1
      <3> HIDE DEF Good
      <3> QED BY <1>10, <1>12, <1>13, <2>1
    <2>2. CASE k # N + 1
      <3>1. j \in 1 .. N /\ k \in 1 .. N
        BY <1>10, <1>14, <2>2
      <3> QED BY <1>9, <1>10, <1>14, <3>1
    <2> QED BY <2>1, <2>2
  <1>15. MarksInv'
    <2>1. Len(marks') = N + 1 /\ IsSeq(marks')
      BY <1>10
    <2> QED BY <1>3, <1>13, <1>14, <2>1 DEF MarksInv, Target, MarkOfRecorder
  <1> QED BY <1>1, <1>3, <1>15 DEF SwInv, PendingInv, RollbackComplete

\* A decision is taken: its checkpoint is forgotten.
LEMMA DecideInv == ASSUME SwInv, Decide PROVE SwInv'
PROOF
  <1> DEFINE N == Len(marks)
  <1>1. IsLog(fc_log) /\ PendingInv /\ MarksInv /\ RollbackComplete
    BY DEF SwInv
  <1>2. /\ marks # <<>> /\ marks' = SubSeq(marks, 1, N - 1) /\ fc_log' = fc_log /\ fc' = fc
        /\ rec' = rec /\ pending' = pending /\ stored' = stored /\ enc' = enc
    BY DEF Decide
  <1>3. IsSeq(marks) /\ N \in Nat /\ N # 0
    <2>1. PICK S : marks \in Seq(S)
      BY <1>1 DEF MarksInv, IsSeq
    <2> QED BY <1>1, <1>2, <2>1 DEF MarksInv
  <1>4. /\ IsSeq(marks') /\ Len(marks') = N - 1
        /\ \A k \in 1 .. N - 1 : marks'[k] = marks[k]
    <2>1. N - 1 \in 0 .. N
      BY <1>3
    <2> QED BY <1>2, <1>3, <2>1, PrefixFacts
  <1>5. \A k \in 1 .. N - 1 : k \in 1 .. N
    BY <1>3
  <1>6. MarksInv'
    <2> HIDE DEF N
    <2> QED BY <1>1, <1>2, <1>4, <1>5 DEF MarksInv, Target, MarkOfRecorder, N
  <1> QED BY <1>1, <1>2, <1>6 DEF SwInv, PendingInv, RollbackComplete

\* A part is cut to its first n entries: what was the oldest entry after l of
\* them still is, and a word that none of the rest after l holds is held by the
\* same entries after n as after l.
LEMMA PartCut ==
  ASSUME NEW part, Len(part) \in Nat, NEW n \in 0 .. Len(part), NEW l \in 0 .. n,
         NEW new, Len(new) = n, \A k \in 1 .. n : new[k] = part[k],
         NEW t, PartHolds(part, l, t)
  PROVE  /\ PartHolds(new, l, t)
         /\ \A i : Unlogged(new, l, i) =>
              /\ Unlogged(part, n, i) => Unlogged(part, l, i)
              /\ \A k : Oldest(part, n, i, k) => Oldest(part, l, i, k)
PROOF
  <1>1. ASSUME NEW i \in Words, NEW k, Oldest(new, l, i, k) PROVE new[k][i] = t[i]
    <2>1. /\ k \in 1 .. n /\ k \in l + 1 .. Len(part)
          /\ \A j \in l + 1 .. k - 1 : j \in 1 .. n
      BY <1>1 DEF Oldest
    <2>2. Oldest(part, l, i, k)
      BY <1>1, <2>1 DEF Oldest
    <2> QED BY <2>1, <2>2 DEF PartHolds
  <1>2. ASSUME NEW i, Unlogged(new, l, i)
        PROVE  \A k \in l + 1 .. n : i \notin DOMAIN part[k]
    <2>1. \A k \in l + 1 .. n : k \in 1 .. n
      OBVIOUS
    <2> QED BY <1>2, <2>1 DEF Unlogged
  <1>3. ASSUME NEW i, Unlogged(new, l, i), Unlogged(part, n, i) PROVE Unlogged(part, l, i)
    <2>1. \A k \in l + 1 .. Len(part) : k \in l + 1 .. n \/ k \in n + 1 .. Len(part)
      OBVIOUS
    <2> QED BY <1>2, <1>3, <2>1 DEF Unlogged
  <1>4. ASSUME NEW i, Unlogged(new, l, i), NEW k, Oldest(part, n, i, k)
        PROVE  Oldest(part, l, i, k)
    <2>1. k \in n + 1 .. Len(part) /\ i \in DOMAIN part[k]
          /\ \A j \in n + 1 .. k - 1 : i \notin DOMAIN part[j]
      BY <1>4 DEF Oldest
    <2>2. \A j \in l + 1 .. k - 1 : j \in l + 1 .. n \/ j \in n + 1 .. k - 1
      BY <2>1
    <2>3. k \in l + 1 .. Len(part)
      BY <2>1
    <2> QED BY <1>2, <1>4, <2>1, <2>2, <2>3 DEF Oldest
  <1> QED BY <1>1, <1>3, <1>4 DEF PartHolds

\* The words and the log are rolled back to a checkpoint; they hold what an
\* earlier one restores.
LEMMA RollbackHolds ==
  ASSUME NEW log, IsLog(log), NEW words, IsWords(words), NEW m, InLog(m, log),
         NEW goal, IsWords(goal), Holds(m, log, words, goal)
  PROVE  LET w == log_rollback(log_rollback(words, log.small, m.small), log.large, m.large)
             new == [small |-> SubSeq(log.small, 1, m.small),
                     large |-> SubSeq(log.large, 1, m.large)]
         IN /\ w = goal /\ IsLog(new)
            /\ \A x, t : /\ InLog(x, log) /\ x.small <= m.small /\ x.large <= m.large
                        /\ Holds(x, log, words, t)
                        => InLog(x, new) /\ Holds(x, new, w, t)
PROOF
  <1> DEFINE v == log_rollback(words, log.small, m.small)
             w == log_rollback(v, log.large, m.large)
             new == [small |-> SubSeq(log.small, 1, m.small),
                     large |-> SubSeq(log.large, 1, m.large)]
  <1>1. /\ IsSeq(log.small) /\ EntriesOf(log.small, "small")
        /\ IsSeq(log.large) /\ EntriesOf(log.large, "large")
        /\ m.small \in 0 .. Len(log.small) /\ m.large \in 0 .. Len(log.large)
    BY DEF IsLog, InLog
  <1>2. Len(log.small) \in Nat /\ Len(log.large) \in Nat
    BY <1>1, AppendFacts
  <1>3. words = [i \in DOMAIN words |-> words[i]] /\ DOMAIN words = Words
    BY DEF IsWords
  <1>4. /\ v = [i \in Words |-> v[i]]
        /\ \A i \in Words :
             /\ Unlogged(log.small, m.small, i) => v[i] = words[i]
             /\ \A k : Oldest(log.small, m.small, i, k) => v[i] = log.small[k][i]
    BY <1>1, <1>2, <1>3, RollbackFacts
  <1> HIDE DEF v
  <1>5. v = [i \in DOMAIN v |-> v[i]] /\ DOMAIN v = Words
    BY <1>4
  <1>6. /\ w = [i \in Words |-> w[i]]
        /\ \A i \in Words :
             /\ Unlogged(log.large, m.large, i) => w[i] = v[i]
             /\ \A k : Oldest(log.large, m.large, i, k) => w[i] = log.large[k][i]
    BY <1>1, <1>2, <1>5, RollbackFacts
  <1> HIDE DEF w
  <1>7. ASSUME NEW i \in Words PROVE w[i] = goal[i]
    <2>1. CASE \E k : Oldest(log.large, m.large, i, k)
      BY <1>6, <2>1 DEF Holds, PartHolds
    <2>2. CASE Unlogged(log.large, m.large, i) /\ \E k : Oldest(log.small, m.small, i, k)
      BY <1>4, <1>6, <2>2 DEF Holds, PartHolds
    <2>3. CASE Unlogged(log.large, m.large, i) /\ Unlogged(log.small, m.small, i)
      BY <1>4, <1>6, <2>3 DEF Holds
    <2>4. Unlogged(log.large, m.large, i) \/ \E k : Oldest(log.large, m.large, i, k)
      BY <1>1, <1>2, OldestExists
    <2>5. Unlogged(log.small, m.small, i) \/ \E k : Oldest(log.small, m.small, i, k)
      BY <1>1, <1>2, OldestExists
    <2> QED BY <2>1, <2>2, <2>3, <2>4, <2>5
  <1>8. w = goal
    BY <1>6, <1>7 DEF IsWords
  <1>9. /\ IsSeq(new.small) /\ Len(new.small) = m.small
        /\ \A k \in 1 .. m.small : new.small[k] = log.small[k]
        /\ IsSeq(new.large) /\ Len(new.large) = m.large
        /\ \A k \in 1 .. m.large : new.large[k] = log.large[k]
    BY <1>1, PrefixFacts
  <1>10. new = [small |-> new.small, large |-> new.large]
    OBVIOUS
  <1> HIDE DEF new
  <1>11. IsLog(new)
    <2>1. /\ \A k \in 1 .. m.small : k \in 1 .. Len(log.small)
          /\ \A k \in 1 .. m.large : k \in 1 .. Len(log.large)
      BY <1>1, <1>2
    <2>2. EntriesOf(new.small, "small") /\ EntriesOf(new.large, "large")
      BY <1>1, <1>9, <2>1 DEF EntriesOf
    <2> QED BY <1>9, <1>10, <2>2 DEF IsLog
  <1>12. ASSUME NEW x, NEW t, InLog(x, log), x.small <= m.small, x.large <= m.large,
                Holds(x, log, words, t)
         PROVE  InLog(x, new) /\ Holds(x, new, w, t)
    <2>1. /\ x.small \in 0 .. m.small /\ x.large \in 0 .. m.large
          /\ PartHolds(log.small, x.small, t) /\ PartHolds(log.large, x.large, t)
      BY <1>1, <1>2, <1>12 DEF InLog, Holds
    <2>2. InLog(x, new)
      BY <1>9, <2>1 DEF InLog
    <2>3. /\ PartHolds(new.small, x.small, t)
          /\ \A i : Unlogged(new.small, x.small, i) =>
               /\ Unlogged(log.small, m.small, i) => Unlogged(log.small, x.small, i)
               /\ \A k : Oldest(log.small, m.small, i, k) => Oldest(log.small, x.small, i, k)
      BY <1>1, <1>2, <1>9, <2>1, PartCut
    <2>4. /\ PartHolds(new.large, x.large, t)
          /\ \A i : Unlogged(new.large, x.large, i) =>
               /\ Unlogged(log.large, m.large, i) => Unlogged(log.large, x.large, i)
               /\ \A k : Oldest(log.large, m.large, i, k) => Oldest(log.large, x.large, i, k)
      BY <1>1, <1>2, <1>9, <2>1, PartCut
    <2>5. ASSUME NEW i \in Words, Unlogged(new.small, x.small, i), Unlogged(new.large, x.large, i)
          PROVE  w[i] = t[i]
      <3>1. CASE \E k : Oldest(log.large, m.large, i, k)
        BY <1>6, <2>1, <2>4, <2>5, <3>1 DEF PartHolds
      <3>2. CASE Unlogged(log.large, m.large, i) /\ \E k : Oldest(log.small, m.small, i, k)
        BY <1>4, <1>6, <2>1, <2>3, <2>5, <3>2 DEF PartHolds
      <3>3. CASE Unlogged(log.large, m.large, i) /\ Unlogged(log.small, m.small, i)
        BY <1>4, <1>6, <1>12, <2>3, <2>4, <2>5, <3>3 DEF Holds
      <3>4. Unlogged(log.large, m.large, i) \/ \E k : Oldest(log.large, m.large, i, k)
        BY <1>1, <1>2, OldestExists
      <3>5. Unlogged(log.small, m.small, i) \/ \E k : Oldest(log.small, m.small, i, k)
        BY <1>1, <1>2, OldestExists
      <3> QED BY <3>1, <3>2, <3>3, <3>4, <3>5
    <2> QED BY <2>2, <2>3, <2>4, <2>5 DEF Holds
  <1> QED BY <1>8, <1>11, <1>12 DEF w, v, new

\* The words, the log and the Recorder are rolled back to the innermost
\* checkpoint, which stays.
LEMMA RollbackInv == ASSUME SwInv, Rollback PROVE SwInv'
PROOF
  <1> DEFINE N == Len(marks)
             m == marks[N]
             b == m.w.backend_var
             T(x) == Adapted(stored \o SubSeq(pending, 1, x.w.backend_var))
  <1>1. /\ IsLog(fc_log) /\ PendingInv /\ MarksInv
        /\ fc = Adapted(stored \o pending) /\ rec = Recorded(rec.storage) /\ enc = Encoded(stored)
    BY DEF SwInv, RollbackComplete
  <1>2. /\ stored \in Seq(Written) /\ pending \in Seq(Written) /\ IsSeq(rec.storage)
        /\ Len(rec.storage) = Len(pending) /\ Len(pending) \in Nat
        /\ stored \o pending \in Seq(Written)
    BY <1>1 DEF PendingInv
  <1>3. marks # <<>> /\ stored' = stored /\ enc' = enc /\ marks' = marks
    BY DEF Rollback
  <1>4. IsSeq(marks) /\ N \in 1 .. N /\ N \in Nat
    <2>1. PICK S : marks \in Seq(S)
      BY <1>1 DEF MarksInv, IsSeq
    <2> QED BY <1>1, <1>3, <2>1 DEF MarksInv
  <1>5. ASSUME NEW k \in 1 .. N
        PROVE  /\ InLog(marks[k], fc_log) /\ Holds(marks[k], fc_log, fc, T(marks[k]))
               /\ marks[k].w.backend_var \in 0 .. b
               /\ marks[k].w.backend_var \in 0 .. Len(pending)
               /\ marks[k].small <= m.small /\ marks[k].large <= m.large
               /\ marks[k].w = recorder_checkpoint(
                    Recorded(SubSeq(rec.storage, 1, marks[k].w.backend_var)))
    <2>1. Within(marks[k], m)
      BY <1>1, <1>4 DEF MarksInv
    <2>2. b \in Nat
      BY <1>1, <1>4 DEF MarksInv
    <2> QED BY <1>1, <2>1, <2>2 DEF MarksInv, Target, MarkOfRecorder, Within
  <1>6. /\ InLog(m, fc_log) /\ Holds(m, fc_log, fc, T(m)) /\ b \in 0 .. Len(pending)
        /\ m.w = recorder_checkpoint(Recorded(SubSeq(rec.storage, 1, b)))
    BY <1>4, <1>5
  <1>7. /\ fc' = log_rollback(log_rollback(fc, fc_log.small, m.small), fc_log.large, m.large)
        /\ fc_log' = [small |-> SubSeq(fc_log.small, 1, m.small),
                      large |-> SubSeq(fc_log.large, 1, m.large)]
        /\ rec' = recorder_rollback(rec, m.w)
        /\ pending' = SubSeq(pending, 1, b)
    BY DEF Rollback
  <1>8. stored \o pending' \in Seq(Written) /\ pending' \in Seq(Written) /\ Len(pending') = b
    BY <1>2, <1>6, <1>7
  <1>9. IsWords(fc) /\ IsWords(T(m)) /\ T(m) = Adapted(stored \o pending')
    BY <1>1, <1>2, <1>7, <1>8, AdaptedWords
  <1>10. /\ IsSeq(SubSeq(rec.storage, 1, b)) /\ Len(SubSeq(rec.storage, 1, b)) = b
         /\ \A i \in 1 .. b : SubSeq(rec.storage, 1, b)[i] = rec.storage[i]
         /\ \A k \in 0 .. b : SubSeq(SubSeq(rec.storage, 1, b), 1, k) = SubSeq(rec.storage, 1, k)
    BY <1>2, <1>6, PrefixFacts, SMTT(60)
  <1>11. rec'.storage = SubSeq(rec.storage, 1, b) /\ rec' = Recorded(SubSeq(rec.storage, 1, b))
    <2> DEFINE R == Recorded(SubSeq(rec.storage, 1, b))
    <2>1. R = [rng |-> R.rng, bits |-> R.bits, storage |-> SubSeq(rec.storage, 1, b)]
      BY <1>10, RecordedFacts
    <2> HIDE DEF R
    <2>2. m.w.rng = R.rng /\ m.w.stream_size = R.bits
      BY <1>6 DEF recorder_checkpoint, R
    <2>3. rec' = [rng |-> R.rng, bits |-> R.bits, storage |-> SubSeq(rec.storage, 1, b)]
      BY <1>7, <2>2 DEF recorder_rollback
    <2> QED BY <2>1, <2>3 DEF R
  <1>12. /\ fc' = T(m) /\ IsLog(fc_log')
         /\ \A x, t : /\ InLog(x, fc_log) /\ x.small <= m.small /\ x.large <= m.large
                     /\ Holds(x, fc_log, fc, t)
                     => InLog(x, fc_log') /\ Holds(x, fc_log', fc', t)
    <2> HIDE DEF m, T
    <2> QED BY <1>1, <1>6, <1>7, <1>9, RollbackHolds
  <1>13. RollbackComplete'
    BY <1>1, <1>3, <1>9, <1>11, <1>12 DEF RollbackComplete
  <1>14. PendingInv'
    <2>1. ASSUME NEW n \in 1 .. b
          PROVE  /\ pending'[n] = pending[n] /\ n \in 1 .. Len(pending)
                 /\ SubSeq(pending', 1, n - 1) = SubSeq(pending, 1, n - 1)
                 /\ rec'.storage[n] = rec.storage[n]
      <3> HIDE DEF b
      <3>1. n \in 1 .. Len(pending) /\ pending'[n] = pending[n]
        BY <1>2, <1>6, <1>7
      <3>2. SubSeq(pending', 1, n - 1) = SubSeq(pending, 1, n - 1)
        BY <1>2, <1>6, <1>7
      <3> QED BY <1>10, <1>11, <3>1, <3>2
    <2>2. ASSUME NEW n \in 1 .. b
          PROVE  /\ pending'[n][1] \notin DirectCdfs
                 /\ rec'.storage[n] = TokenOf(stored \o SubSeq(pending', 1, n - 1), pending'[n])
      BY <1>1, <2>1 DEF PendingInv
    <2> HIDE DEF b
    <2> QED BY <1>2, <1>3, <1>8, <1>10, <1>11, <2>2 DEF PendingInv
  <1>15. MarksInv'
    <2>1. ASSUME NEW k \in 1 .. N
          PROVE  /\ InLog(marks[k], fc_log')
                 /\ Holds(marks[k], fc_log', fc', Adapted(stored \o SubSeq(pending', 1, marks[k].w.backend_var)))
                 /\ marks[k].w.backend_var \in 0 .. Len(pending')
                 /\ marks[k].w = recorder_checkpoint(
                      Recorded(SubSeq(rec'.storage, 1, marks[k].w.backend_var)))
      <3> DEFINE l == marks[k].w.backend_var
      <3>1. l \in 0 .. b /\ l \in 0 .. Len(pending)
        BY <1>5
      <3>2. InLog(marks[k], fc_log') /\ Holds(marks[k], fc_log', fc', T(marks[k]))
        <4> HIDE DEF T
        <4> QED BY <1>5, <1>12
      <3>3. marks[k].w = recorder_checkpoint(Recorded(SubSeq(rec.storage, 1, l)))
        BY <1>5
      <3> HIDE DEF l, b
      <3>4. SubSeq(pending', 1, l) = SubSeq(pending, 1, l)
        BY <1>2, <1>6, <1>7, <3>1
      <3>5. SubSeq(rec'.storage, 1, l) = SubSeq(rec.storage, 1, l)
        BY <1>10, <1>11, <3>1
      <3> QED BY <1>8, <3>1, <3>2, <3>3, <3>4, <3>5 DEF l
    <2> HIDE DEF b, m
    <2> QED BY <1>1, <1>3, <1>4, <2>1 DEF MarksInv, Target, MarkOfRecorder
  <1> QED BY <1>12, <1>13, <1>14, <1>15 DEF SwInv

-----------------------------------------------------------------------------
(* The end of a superblock, and of the tile *)

\* The Recorder is replayed into the Encoder, and begins anew.
LEMMA EndSuperblockInv == ASSUME SwInv, EndSuperblock PROVE SwInv'
PROOF
  <1>1. /\ IsLog(fc_log) /\ PendingInv
        /\ fc = Adapted(stored \o pending) /\ rec = Recorded(rec.storage) /\ enc = Encoded(stored)
    BY DEF SwInv, RollbackComplete
  <1>2. /\ stored \in Seq(Written) /\ pending \in Seq(Written) /\ Len(rec.storage) = Len(pending)
        /\ \A n \in 1 .. Len(pending) :
             rec.storage[n] = TokenOf(stored \o SubSeq(pending, 1, n - 1), pending[n])
    BY <1>1 DEF PendingInv
  <1>3. /\ marks = <<>> /\ enc' = replay(rec, enc) /\ rec' = NewRecorder
        /\ stored' = stored \o pending /\ pending' = <<>> /\ fc_log' = EmptyLog
        /\ fc' = fc /\ marks' = marks
    BY DEF EndSuperblock
  <1>4. Len(<<>>) = 0 /\ IsSeq(<<>>)
    BY EmptyIsSeq
  <1>5. IsLog(fc_log')
    BY <1>3, <1>4 DEF IsLog, EmptyLog, EntriesOf
  <1>6. stored' \in Seq(Written) /\ stored' \o <<>> = stored'
    BY <1>2, <1>3
  <1>7. PendingInv'
    BY <1>3, <1>4, <1>6 DEF PendingInv, NewRecorder
  <1>8. MarksInv'
    BY <1>3, <1>4 DEF MarksInv
  <1>9. enc' = Encoded(stored')
    BY <1>1, <1>2, <1>3, ReplayFacts
  <1>10. rec' = Recorded(rec'.storage)
    BY <1>3, RecordedFacts DEF NewRecorder
  <1>11. fc' = Adapted(stored' \o pending')
    BY <1>1, <1>3, <1>6
  <1>12. RollbackComplete'
    BY <1>9, <1>10, <1>11 DEF RollbackComplete
  <1> QED BY <1>5, <1>7, <1>8, <1>12 DEF SwInv

\* Every step keeps the invariant.
LEMMA SwNextInv == SwInv /\ [SwNext]_swVars => SwInv'
PROOF
  <1> SUFFICES ASSUME SwInv, [SwNext]_swVars PROVE SwInv'
    OBVIOUS
  <1>1. ASSUME NEW p \in Symbols, RecordSymbol(p[1], p[2]) PROVE SwInv'
    BY <1>1, RecordSymbolInv
  <1>2. ASSUME NEW p \in Symbols, WriteDirect(p[1], p[2]) PROVE SwInv'
    BY <1>2, WriteDirectInv
  <1>3. CASE Checkpoint
    BY <1>3, CheckpointInv
  <1>4. CASE Rollback
    BY <1>4, RollbackInv
  <1>5. CASE Decide
    BY <1>5, DecideInv
  <1>6. CASE EndSuperblock
    BY <1>6, EndSuperblockInv
  <1>7. CASE EndTile \/ TileDone \/ UNCHANGED swVars
    <2>1. UNCHANGED <<fc, fc_log, rec, pending, enc, stored, marks>>
      BY <1>7 DEF EndTile, TileDone, swVars
    <2> QED BY <2>1 DEF SwInv, PendingInv, MarksInv, RollbackComplete, Target, MarkOfRecorder
  <1> QED BY <1>1, <1>2, <1>3, <1>4, <1>5, <1>6, <1>7 DEF SwNext

\* Whatever mode decision tries and rolls back, for every layout of CDFs that
\* LayoutAssumption allows: the CDFs are the ones adapted to the symbols kept,
\* the Recorder has only seen the symbols it holds, and the Encoder was given
\* the symbols of the bitstream with the CDFs a decoder has for them
\* (CDFContextLog, symbol_with_update, WriterRecorder::replay).
THEOREM RollbackCompleteHolds == SwSpec => []RollbackComplete
PROOF
  <1>1. SwInv => RollbackComplete
    BY DEF SwInv
  <1> QED BY <1>1, SwInitInv, SwNextInv, PTL DEF SwSpec

-----------------------------------------------------------------------------
(* Arithmetic *)

\* The powers of two in 32 bits.
LEMMA PowTwo ==
  ASSUME NEW j \in 0 .. 30
  PROVE  2^(j + 1) = 2 * 2^j /\ 2^j \in Nat \ {0} /\ 2^(j + 1) \in Nat \ {0}
PROOF
  <1>0. /\ 2^0 = 1 /\ 2^1 = 2 /\ 2^2 = 4 /\ 2^3 = 8 /\ 2^4 = 16
        /\ 2^5 = 32 /\ 2^6 = 64 /\ 2^7 = 128 /\ 2^8 = 256 /\ 2^9 = 512
        /\ 2^10 = 1024 /\ 2^11 = 2048 /\ 2^12 = 4096 /\ 2^13 = 8192 /\ 2^14 = 16384
        /\ 2^15 = 32768 /\ 2^16 = 65536 /\ 2^17 = 131072 /\ 2^18 = 262144 /\ 2^19 = 524288
        /\ 2^20 = 1048576 /\ 2^21 = 2097152 /\ 2^22 = 4194304 /\ 2^23 = 8388608 /\ 2^24 = 16777216
        /\ 2^25 = 33554432 /\ 2^26 = 67108864 /\ 2^27 = 134217728 /\ 2^28 = 268435456 /\ 2^29 = 536870912
        /\ 2^30 = 1073741824 /\ 2^31 = 2147483648
    OBVIOUS
  <1>1. CASE j = 0
    BY <1>0, <1>1
  <1>2. CASE j = 1
    BY <1>0, <1>2
  <1>3. CASE j = 2
    BY <1>0, <1>3
  <1>4. CASE j = 3
    BY <1>0, <1>4
  <1>5. CASE j = 4
    BY <1>0, <1>5
  <1>6. CASE j = 5
    BY <1>0, <1>6
  <1>7. CASE j = 6
    BY <1>0, <1>7
  <1>8. CASE j = 7
    BY <1>0, <1>8
  <1>9. CASE j = 8
    BY <1>0, <1>9
  <1>10. CASE j = 9
    BY <1>0, <1>10
  <1>11. CASE j = 10
    BY <1>0, <1>11
  <1>12. CASE j = 11
    BY <1>0, <1>12
  <1>13. CASE j = 12
    BY <1>0, <1>13
  <1>14. CASE j = 13
    BY <1>0, <1>14
  <1>15. CASE j = 14
    BY <1>0, <1>15
  <1>16. CASE j = 15
    BY <1>0, <1>16
  <1>17. CASE j = 16
    BY <1>0, <1>17
  <1>18. CASE j = 17
    BY <1>0, <1>18
  <1>19. CASE j = 18
    BY <1>0, <1>19
  <1>20. CASE j = 19
    BY <1>0, <1>20
  <1>21. CASE j = 20
    BY <1>0, <1>21
  <1>22. CASE j = 21
    BY <1>0, <1>22
  <1>23. CASE j = 22
    BY <1>0, <1>23
  <1>24. CASE j = 23
    BY <1>0, <1>24
  <1>25. CASE j = 24
    BY <1>0, <1>25
  <1>26. CASE j = 25
    BY <1>0, <1>26
  <1>27. CASE j = 26
    BY <1>0, <1>27
  <1>28. CASE j = 27
    BY <1>0, <1>28
  <1>29. CASE j = 28
    BY <1>0, <1>29
  <1>30. CASE j = 29
    BY <1>0, <1>30
  <1>31. CASE j = 30
    BY <1>0, <1>31
  <1> QED BY <1>1, <1>2, <1>3, <1>4, <1>5, <1>6, <1>7, <1>8, <1>9, <1>10, <1>11, <1>12, <1>13, <1>14, <1>15,
            <1>16, <1>17, <1>18, <1>19, <1>20, <1>21, <1>22, <1>23, <1>24, <1>25, <1>26, <1>27, <1>28, <1>29, <1>30, <1>31

\* Quotient and remainder are the only numbers of their kind.
LEMMA DivUnique ==
  ASSUME NEW P \in Nat \ {0}, NEW x \in Nat, NEW a \in Nat, NEW s \in Nat, s < P, x = P * a + s
  PROVE  x \div P = a /\ x % P = s
PROOF
  <1> DEFINE q == x \div P
             r == x % P
  <1>1. q \in Nat /\ r \in Nat /\ r < P /\ x = P * q + r
    OBVIOUS
  <1> HIDE DEF q, r
  <1>2. ASSUME q < a PROVE FALSE
    <2>1. PICK d \in Nat : a = q + d /\ d >= 1
      <3>1. a - q \in Nat /\ a = q + (a - q) /\ a - q >= 1
        BY <1>1, <1>2
      <3> QED BY <3>1
    <2>2. P * a = P * q + P * d /\ P * d >= P /\ P * q \in Nat /\ P * d \in Nat
      BY <1>1, <2>1
    <2> QED BY <1>1, <2>2
  <1>3. ASSUME a < q PROVE FALSE
    <2>1. PICK d \in Nat : q = a + d /\ d >= 1
      <3>1. q - a \in Nat /\ q = a + (q - a) /\ q - a >= 1
        BY <1>1, <1>3
      <3> QED BY <3>1
    <2>2. P * q = P * a + P * d /\ P * d >= P /\ P * a \in Nat /\ P * d \in Nat
      BY <1>1, <2>1
    <2> QED BY <1>1, <2>2
  <1>4. q = a
    BY <1>1, <1>2, <1>3
  <1>5. r = s
    <2>1. P * a \in Nat
      OBVIOUS
    <2> QED BY <1>1, <1>4, <2>1
  <1> QED BY <1>4, <1>5 DEF q, r

\* One more bit of a number.
LEMMA HalfDiv ==
  ASSUME NEW P \in Nat \ {0}, NEW x \in Nat
  PROVE  /\ x \div P = 2 * (x \div (2 * P)) + ((x \div P) % 2)
         /\ (x \div P) % 2 \in {0, 1} /\ x \div P \in Nat
PROOF
  <1> DEFINE q == x \div P
             r == x % P
             a == q \div 2
             b == q % 2
             t == a * P
             u == b * P
  <1>1. q \in Nat /\ r \in Nat /\ r < P /\ x = P * q + r
    OBVIOUS
  <1> HIDE DEF q, r
  <1>2. a \in Nat /\ b \in {0, 1} /\ q = 2 * a + b
    BY <1>1
  <1> HIDE DEF a, b
  <1>3. P * q = 2 * t + u /\ t \in Nat /\ u \in Nat /\ u + r < 2 * P
    BY <1>1, <1>2
  <1>4. x = (2 * P) * a + (u + r) /\ 2 * P \in Nat \ {0} /\ u + r \in Nat
    BY <1>1, <1>2, <1>3
  <1> HIDE DEF u
  <1>5. x \div (2 * P) = a
    BY <1>2, <1>3, <1>4, DivUnique
  <1>6. q = 2 * (x \div (2 * P)) + b /\ b \in {0, 1} /\ q \in Nat
    BY <1>1, <1>2, <1>5
  <1> QED BY <1>6, Zenon DEF q, b


\* bit_length: the number is below its power of two, and not below the one before.
LEMMA BitLength ==
  ASSUME NEW x \in Nat, x < 2^31
  PROVE  /\ bit_length(x) \in 0 .. 31 /\ x < 2^bit_length(x)
         /\ bit_length(x) # 0 => x >= 2^(bit_length(x) - 1)
         /\ x # 0 => bit_length(x) # 0
PROOF
  <1> DEFINE S == {l \in 0 .. 31 : x < 2^l}
             Is(l) == x < 2^l /\ \A m \in 0 .. l - 1 : x >= 2^m
  <1>1. S \subseteq Nat /\ 31 \in S
    OBVIOUS
  <1>2. PICK l \in S : \A m \in S : l <= m
    <2>1. S # {}
      BY <1>1
    <2> HIDE DEF S
    <2> QED BY <1>1, <2>1, LeastElement
  <1>3. ASSUME NEW m \in 0 .. l - 1 PROVE x >= 2^m
    <2>1. m \in 0 .. 30 /\ m \notin S /\ m \in 0 .. 31
      BY <1>2, <1>3
    <2>2. 2^m \in Nat
      BY <2>1, PowTwo
    <2> QED BY <2>1, <2>2
  <1>4. l \in 0 .. 31 /\ Is(l)
    BY <1>2, <1>3
  <1>5. bit_length(x) = CHOOSE l_1 \in 0 .. 31 : Is(l_1)
    BY DEF bit_length
  <1> DEFINE b == bit_length(x)
  <1>6. b \in 0 .. 31 /\ Is(b)
    <2> HIDE DEF Is
    <2> QED BY <1>4, <1>5
  <1> HIDE DEF b
  <1>7. b # 0 => b - 1 \in 0 .. b - 1
    BY <1>6
  <1>8. x # 0 => b # 0
    <2>1. 2^0 = 1
      OBVIOUS
    <2> SUFFICES ASSUME b = 0 PROVE x = 0
      OBVIOUS
    <2>2. x < 2^0
      BY <1>6
    <2> QED BY <2>1, <2>2
  <1> QED BY <1>6, <1>7, <1>8 DEF b

-----------------------------------------------------------------------------
(* Bits *)

Bit == {0, 1}

\* The bits of a literal; the first is set if the number needs it.
LEMMA LiteralFacts ==
  ASSUME NEW count \in 0 .. 31, NEW x \in Nat
  PROVE  /\ literal(count, x) \in Seq(Bit) /\ Len(literal(count, x)) = count
         /\ \A i \in 1 .. count : literal(count, x)[i] = (x \div 2^(count - i)) % 2
         /\ \A i \in 1 .. count : 2^(count - i) \in Nat \ {0} /\ count - i \in 0 .. 30
PROOF
  <1>1. ASSUME NEW i \in 1 .. count
        PROVE  /\ count - i \in 0 .. 30 /\ 2^(count - i) \in Nat \ {0}
               /\ (x \div 2^(count - i)) % 2 \in Bit
    <2>1. count - i \in 0 .. 30
      OBVIOUS
    <2>2. 2^(count - i) \in Nat \ {0}
      BY <2>1, PowTwo
    <2>3. (x \div 2^(count - i)) % 2 \in {0, 1}
      <3> DEFINE P == 2^(count - i)
      <3> HIDE DEF P
      <3>1. (x \div P) % 2 \in {0, 1}
        BY <2>2, HalfDiv DEF P
      <3> QED BY <3>1 DEF P
    <2> QED BY <2>1, <2>2, <2>3 DEF Bit
  <1> DEFINE B(i) == (x \div 2^(count - i)) % 2
  <1>2. literal(count, x) = [i \in 1 .. count |-> B(i)]
    BY DEF literal
  <1>3. \A i \in 1 .. count : B(i) \in Bit
    BY <1>1
  <1> HIDE DEF B
  <1>4. [i \in 1 .. count |-> B(i)] \in Seq(Bit) /\ Len([i \in 1 .. count |-> B(i)]) = count
    <2>1. count \in Nat
      OBVIOUS
    <2> QED BY <1>3, <2>1
  <1>5. \A i \in 1 .. count : literal(count, x)[i] = B(i)
    BY <1>2
  <1> QED BY <1>1, <1>2, <1>4, <1>5 DEF B

\* The parts of a concatenation.
LEMMA ConcatFacts ==
  ASSUME NEW a \in Seq(Bit), NEW b \in Seq(Bit)
  PROVE  /\ a \o b \in Seq(Bit) /\ Len(a) \in Nat /\ Len(b) \in Nat
         /\ Len(a \o b) = Len(a) + Len(b)
         /\ \A i \in 1 .. Len(a) : (a \o b)[i] = a[i]
         /\ \A i \in 1 .. Len(b) : (a \o b)[Len(a) + i] = b[i]
         /\ SubSeq(a \o b, 1, Len(a)) = a
         /\ SubSeq(a \o b, Len(a) + 1, Len(a) + Len(b)) = b
PROOF
  <1>1. /\ a \o b \in Seq(Bit) /\ Len(a) \in Nat /\ Len(b) \in Nat
        /\ Len(a \o b) = Len(a) + Len(b)
    OBVIOUS
  <1>2. \A i \in 1 .. Len(a) : (a \o b)[i] = a[i]
    OBVIOUS
  <1>3. \A i \in 1 .. Len(b) : (a \o b)[Len(a) + i] = b[i]
    OBVIOUS
  <1>4. SubSeq(a \o b, 1, Len(a)) = a
    BY <1>1, <1>2
  <1>5. SubSeq(a \o b, Len(a) + 1, Len(a) + Len(b)) = b
    BY <1>1, <1>3
  <1> QED BY <1>1, <1>2, <1>3, <1>4, <1>5

\* The steps of Value.
ValuesBy(after, s) ==
  after[0] = 0 /\ \A n \in 1 .. Len(s) : after[n] = 2 * after[n - 1] + s[n]

\* Value is the end of such steps.
LEMMA ValueSteps ==
  ASSUME NEW s, Len(s) \in Nat
  PROVE  \E after : ValuesBy(after, s) /\ Value(s) = after[Len(s)]
PROOF
  <1> DEFINE N == Len(s)
             Step(x, n) == 2 * x + s[n]
             Upto(fn, m) == fn = [n \in 0 .. m |-> IF n = 0 THEN 0 ELSE Step(fn[n - 1], n)]
             Good == {m \in 0 .. N : \E fn : Upto(fn, m)}
             after == CHOOSE fn : Upto(fn, N)
  <1>0. N \in Nat /\ N \in 0 .. N
    OBVIOUS
  <1> HIDE DEF Step
  <1>1. 0 \in Good
    <2> DEFINE fn == [n \in 0 .. 0 |-> 0]
    <2>1. fn = [n \in 0 .. 0 |-> IF n = 0 THEN 0 ELSE Step(fn[n - 1], n)]
      OBVIOUS
    <2> HIDE DEF fn
    <2>2. Upto(fn, 0) /\ 0 \in 0 .. N
      BY <1>0, <2>1
    <2> QED BY <2>2
  <1>2. ASSUME NEW m \in 0 .. N - 1, m \in Good PROVE m + 1 \in Good
    <2>1. PICK fn : Upto(fn, m)
      BY <1>2
    <2> DEFINE g == [n \in 0 .. m + 1 |-> IF n = m + 1 THEN Step(fn[m], m + 1) ELSE fn[n]]
    <2>2. ASSUME NEW n \in 0 .. m + 1
          PROVE  g[n] = IF n = 0 THEN 0 ELSE Step(g[n - 1], n)
      <3>1. CASE n = 0
        <4>1. 0 \in 0 .. m /\ 0 # m + 1
          BY <1>0
        <4> QED BY <2>1, <3>1, <4>1
      <3>2. CASE n \in 1 .. m
        <4>1. n \in 0 .. m /\ n # 0 /\ n # m + 1 /\ n - 1 \in 0 .. m + 1 /\ n - 1 # m + 1
          BY <1>0, <3>2
        <4>2. g[n] = fn[n] /\ g[n - 1] = fn[n - 1]
          BY <4>1
        <4>3. fn[n] = Step(fn[n - 1], n)
          BY <2>1, <4>1
        <4> QED BY <4>1, <4>2, <4>3
      <3>3. CASE n = m + 1
        <4>1. n # 0 /\ n - 1 = m /\ m \in 0 .. m + 1 /\ m # m + 1
          BY <1>0, <3>3
        <4> QED BY <3>3, <4>1
      <3>4. n = 0 \/ n \in 1 .. m \/ n = m + 1
        BY <1>0
      <3> QED BY <3>1, <3>2, <3>3, <3>4
    <2>3. DOMAIN g = 0 .. m + 1 /\ g = [n \in 0 .. m + 1 |-> g[n]]
      OBVIOUS
    <2> HIDE DEF g
    <2>4. Upto(g, m + 1)
      BY <2>2, <2>3
    <2>5. m + 1 \in 0 .. N
      BY <1>0
    <2> QED BY <2>4, <2>5
  <1>3. N \in Good
    <2> HIDE DEF Good, N
    <2> QED BY <1>0, <1>1, <1>2, InductionUpTo
  <1>4. Upto(after, N)
    <2> HIDE DEF Upto
    <2> QED BY <1>3
  <1>5. Value(s) = after[N]
    BY DEF Value, Step
  <1> HIDE DEF after
  <1>6. after[0] = 0 /\ \A n \in 1 .. N : after[n] = Step(after[n - 1], n)
    <2>1. 0 \in 0 .. N /\ \A n \in 1 .. N : n \in 0 .. N /\ n # 0
      OBVIOUS
    <2> HIDE DEF N
    <2> QED BY <1>4, <2>1
  <1> QED BY <1>5, <1>6 DEF ValuesBy, Step

\* A literal has the value it was written for.
LEMMA ValueOfLiteral ==
  ASSUME NEW count \in 0 .. 31, NEW x \in Nat, x < 2^count
  PROVE  Value(literal(count, x)) = x
PROOF
  <1> DEFINE L == literal(count, x)
  <1>1. /\ Len(L) = count /\ \A i \in 1 .. count : L[i] = (x \div 2^(count - i)) % 2
        /\ \A i \in 1 .. count : count - i \in 0 .. 30
    BY LiteralFacts
  <1>2. PICK a : ValuesBy(a, L) /\ Value(L) = a[count]
    BY <1>1, ValueSteps
  <1> HIDE DEF L
  <1> DEFINE S == {n \in 0 .. count : a[n] = x \div 2^(count - n)}
  <1>3. 0 \in S
    <2>1. 2^count \in Nat \ {0}
      <3>1. CASE count = 31
        BY <3>1
      <3>2. CASE count # 31
        BY <3>2, PowTwo
      <3> QED BY <3>1, <3>2
    <2> DEFINE P == 2^count
    <2> HIDE DEF P
    <2>2. x = P * 0 + x /\ P \in Nat \ {0} /\ x < P
      BY <2>1 DEF P
    <2>3. x \div P = 0
      BY <2>2, DivUnique
    <2>4. a[0] = 0 /\ count - 0 = count /\ 0 \in 0 .. count
      BY <1>2 DEF ValuesBy
    <2> QED BY <2>3, <2>4 DEF P
  <1>4. ASSUME NEW n \in 0 .. count - 1, n \in S PROVE n + 1 \in S
    <2> DEFINE j == count - (n + 1)
    <2>1. n + 1 \in 1 .. count /\ n + 1 \in 0 .. count /\ (n + 1) - 1 = n /\ count - n = j + 1
          /\ j \in 0 .. 30
      OBVIOUS
    <2>2. a[n + 1] = 2 * a[n] + L[n + 1]
      BY <1>1, <1>2, <2>1 DEF ValuesBy
    <2>3. L[n + 1] = (x \div 2^j) % 2
      BY <1>1, <2>1
    <2>4. a[n] = x \div 2^(j + 1)
      BY <1>4, <2>1
    <2> HIDE DEF j
    <2> DEFINE P == 2^j
    <2>5. P \in Nat \ {0} /\ 2^(j + 1) = 2 * P
      BY <2>1, PowTwo
    <2> HIDE DEF P
    <2>6. x \div P = 2 * (x \div (2 * P)) + ((x \div P) % 2)
      BY <2>5, HalfDiv
    <2>7. a[n] = x \div (2 * P) /\ L[n + 1] = (x \div P) % 2
      BY <2>3, <2>4, <2>5 DEF P
    <2>8. a[n + 1] = x \div P
      BY <2>2, <2>6, <2>7
    <2> QED BY <2>1, <2>8 DEF P, j
  <1>5. count \in S
    <2>1. count \in Nat /\ count \in 0 .. count
      OBVIOUS
    <2> HIDE DEF S
    <2> QED BY <1>3, <1>4, <2>1, InductionUpTo
  <1>6. x \div 2^(count - count) = x
    <2>1. count - count = 0 /\ 2^0 = 1
      OBVIOUS
    <2>2. x = 1 * x + 0
      OBVIOUS
    <2>3. x \div 1 = x
      BY <2>2, DivUnique
    <2> QED BY <2>1, <2>3
  <1> QED BY <1>2, <1>5, <1>6 DEF L

-----------------------------------------------------------------------------
(* The codes *)

\* Golomb: the decoder finds the first 1, which is the first bit of the number.
LEMMA GolombInverts ==
  ASSUME NEW v \in Nat, v + 1 < 2^31
  PROVE  LET s == write_golomb(v) IN decode_golomb(s).v = v /\ decode_golomb(s).used = Len(s)
PROOF
  <1> DEFINE x == v + 1
             l == bit_length(x)
             Z == [i \in 1 .. l - 1 |-> 0]
             L == literal(l, x)
             s == Z \o L
             First(z) == s[z + 1] = 1 /\ \A i \in 1 .. z : s[i] = 0
             zeros == CHOOSE z \in 0 .. Len(s) - 1 : First(z)
  <1>1. l \in 1 .. 31 /\ l \in 0 .. 31 /\ x < 2^l /\ x >= 2^(l - 1) /\ x \in Nat
    BY BitLength
  <1> HIDE DEF l, x
  <1>2. Z \in Seq(Bit) /\ Len(Z) = l - 1 /\ \A i \in 1 .. l - 1 : Z[i] = 0
    <2>1. l - 1 \in Nat
      BY <1>1
    <2> QED BY <2>1 DEF Bit
  <1>3. /\ L \in Seq(Bit) /\ Len(L) = l
        /\ \A i \in 1 .. l : L[i] = (x \div 2^(l - i)) % 2
    BY <1>1, LiteralFacts
  <1> HIDE DEF Z
  <1>4. L[1] = 1
    <2> DEFINE P == 2^(l - 1)
    <2>1. l - 1 \in 0 .. 30 /\ (l - 1) + 1 = l /\ 1 \in 1 .. l
      BY <1>1
    <2>2. P \in Nat \ {0} /\ 2^l = 2 * P
      BY <2>1, PowTwo
    <2>3. L[1] = (x \div P) % 2
      BY <1>3, <2>1
    <2>4. x >= P /\ x < 2 * P
      BY <1>1, <2>2
    <2> HIDE DEF P
    <2>5. x - P \in Nat /\ x - P < P /\ x = P * 1 + (x - P)
      BY <1>1, <2>2, <2>4
    <2>6. x \div P = 1
      BY <1>1, <2>2, <2>5, DivUnique
    <2> QED BY <2>3, <2>6
  <1>5. Value(L) = x
    BY <1>1, ValueOfLiteral
  <1> HIDE DEF L
  <1>6. /\ s \in Seq(Bit) /\ Len(s) = 2 * l - 1
        /\ \A i \in 1 .. l - 1 : s[i] = 0
        /\ s[l] = 1
        /\ SubSeq(s, l, 2 * l - 1) = L
    <2>1. /\ s \in Seq(Bit) /\ Len(s) = Len(Z) + Len(L)
          /\ \A i \in 1 .. Len(Z) : s[i] = Z[i]
          /\ \A i \in 1 .. Len(L) : s[Len(Z) + i] = L[i]
          /\ SubSeq(s, Len(Z) + 1, Len(Z) + Len(L)) = L
      BY <1>2, <1>3, ConcatFacts
    <2>2. Len(Z) + 1 = l /\ Len(Z) + Len(L) = 2 * l - 1 /\ 1 \in 1 .. Len(L)
      BY <1>1, <1>2, <1>3
    <2> HIDE DEF s
    <2> QED BY <1>2, <1>4, <2>1, <2>2
  <1> HIDE DEF s
  <1>7. zeros = l - 1
    <2>1. l - 1 \in 0 .. Len(s) - 1 /\ First(l - 1)
      BY <1>1, <1>6
    <2>2. ASSUME NEW z \in 0 .. Len(s) - 1, First(z) PROVE z = l - 1
      <3>1. CASE z < l - 1
        <4>1. z + 1 \in 1 .. l - 1
          BY <1>1, <3>1
        <4> QED BY <1>6, <2>2, <4>1
      <3>2. CASE z > l - 1
        <4>1. l \in 1 .. z
          BY <1>1, <3>2
        <4> QED BY <1>6, <2>2, <4>1
      <3> QED BY <1>1, <3>1, <3>2
    <2> HIDE DEF First
    <2> QED BY <2>1, <2>2
  <1>8. decode_golomb(s) = [v |-> Value(SubSeq(s, zeros + 1, 2 * zeros + 1)) - 1, used |-> 2 * zeros + 1]
    BY DEF decode_golomb
  <1> HIDE DEF zeros
  <1>9. zeros + 1 = l /\ 2 * zeros + 1 = 2 * l - 1
    BY <1>1, <1>7
  <1>10. decode_golomb(s).v = x - 1 /\ decode_golomb(s).used = Len(s)
    <2>1. Value(SubSeq(s, zeros + 1, 2 * zeros + 1)) = x
      BY <1>5, <1>6, <1>9
    <2> QED BY <1>6, <1>8, <1>9, <2>1
  <1>11. write_golomb(v) = s
    BY DEF write_golomb, s, Z, L, l, x
  <1>12. x - 1 = v
    BY DEF x
  <1> QED BY <1>10, <1>11, <1>12

\* Quasi-uniform: small values have one bit less; the decoder tells them by
\* their first bits.
LEMMA QuniformInverts ==
  ASSUME NEW n \in Nat, n < 2^31, NEW v \in 0 .. n - 1
  PROVE  LET s == write_quniform(n, v)
         IN /\ s \in Seq(Bit)
            /\ decode_ns(n, s).v = v /\ decode_ns(n, s).used = Len(s)
            /\ count_quniform(n, v) = Len(s)
PROOF
  <1> DEFINE s == write_quniform(n, v)
             l == bit_length(n)
             m == 2^l - n
  <1>1. CASE n <= 1
    <2>1. s = <<>> /\ v = 0
      BY <1>1 DEF write_quniform
    <2>2. decode_ns(n, s) = [v |-> 0, used |-> 0] /\ count_quniform(n, v) = 0
      BY <1>1 DEF decode_ns, count_quniform
    <2> QED BY <2>1, <2>2
  <1>2. CASE n > 1
    <2> DEFINE P == 2^(l - 1)
    <2>1. l \in 1 .. 31 /\ n < 2^l /\ n >= P
      BY <1>2, BitLength
    <2>2. P \in Nat \ {0} /\ 2^l = 2 * P
      <3>1. l - 1 \in 0 .. 30 /\ (l - 1) + 1 = l
        BY <2>1
      <3> HIDE DEF l
      <3> QED BY <3>1, PowTwo
    <2> HIDE DEF P
    <2>3. m = 2 * P - n /\ m \in 1 .. P
      BY <2>1, <2>2
    <2>4. l - 1 \in 0 .. 31 /\ 1 \in 0 .. 31
      BY <2>1
    <2>5. CASE v < m
      <3> DEFINE L == literal(l - 1, v)
      <3>1. s = L /\ count_quniform(n, v) = l - 1
        BY <1>2, <2>5 DEF write_quniform, count_quniform
      <3> HIDE DEF l
      <3>0. v \in Nat /\ v < P
        BY <2>2, <2>3, <2>5
      <3>2. L \in Seq(Bit) /\ Len(L) = l - 1
        BY <2>4, <3>0, LiteralFacts
      <3>3. v < 2^(l - 1)
        BY <3>0 DEF P
      <3>4. Value(L) = v
        BY <2>4, <3>0, <3>3, ValueOfLiteral
      <3> HIDE DEF L
      <3>5. SubSeq(s, 1, l - 1) = L
        BY <3>1, <3>2
      <3>6. decode_ns(n, s) = [v |-> v, used |-> l - 1]
        <4>1. Value(SubSeq(s, 1, l - 1)) = v
          BY <3>4, <3>5
        <4> HIDE DEF s
        <4> QED BY <1>2, <2>5, <4>1 DEF decode_ns, l
      <3> HIDE DEF s
      <3>7. /\ s \in Seq(Bit) /\ decode_ns(n, s).v = v /\ decode_ns(n, s).used = Len(s)
            /\ count_quniform(n, v) = Len(s)
        BY <3>1, <3>2, <3>6
      <3> QED BY <3>7 DEF s
    <2>6. CASE v >= m
      <3> DEFINE h == (v - m) \div 2
                 b == (v - m) % 2
                 L == literal(l - 1, m + h)
                 B == literal(1, b)
      <3>0. v - m \in Nat /\ h \in Nat /\ b \in {0, 1} /\ v - m = 2 * h + b
        BY <2>3, <2>6
      <3>1. s = L \o B /\ count_quniform(n, v) = l
        <4>1. ~(n <= 1) /\ ~(v < m)
          BY <1>2, <2>3, <2>6
        <4> QED BY <4>1 DEF write_quniform, count_quniform
      <3> HIDE DEF h, b, l, m
      <3>2. m + h \in Nat /\ m + h < P /\ m + h >= m
        <4>1. n \in Nat /\ v \in Nat /\ v < n /\ m \in Nat /\ P \in Nat
          BY <2>2, <2>3
        <4>2. v = m + 2 * h + b /\ n = 2 * P - m
          BY <2>3, <3>0, <4>1
        <4> QED BY <3>0, <4>1, <4>2
      <3>3. L \in Seq(Bit) /\ Len(L) = l - 1
        BY <2>4, <3>2, LiteralFacts
      <3>4. Value(L) = m + h
        BY <2>4, <3>2, ValueOfLiteral DEF P
      <3>5. B \in Seq(Bit) /\ Len(B) = 1 /\ B[1] = b
        <4>1. B \in Seq(Bit) /\ Len(B) = 1 /\ B[1] = (b \div 2^(1 - 1)) % 2
          <5>1. 1 \in 0 .. 31 /\ b \in Nat /\ 1 \in 1 .. 1
            BY <3>0
          <5> QED BY <5>1, LiteralFacts
        <4>2. 1 - 1 = 0 /\ 2^0 = 1
          OBVIOUS
        <4>3. B[1] = (b \div 1) % 2
          BY <4>1, <4>2
        <4>4. (b \div 1) % 2 = b
          BY <3>0
        <4> QED BY <4>1, <4>3, <4>4
      <3> HIDE DEF L, B, l
      <3>6. s \in Seq(Bit) /\ Len(s) = l /\ SubSeq(s, 1, l - 1) = L /\ s[l] = b
        <4> HIDE DEF s
        <4>1. /\ s \in Seq(Bit) /\ Len(s) = Len(L) + Len(B)
              /\ \A i \in 1 .. Len(B) : s[Len(L) + i] = B[i]
              /\ SubSeq(s, 1, Len(L)) = L
          BY <3>1, <3>3, <3>5, ConcatFacts
        <4>2. Len(L) + 1 = l /\ 1 \in 1 .. Len(B)
          BY <2>1, <3>3, <3>5
        <4> QED BY <3>3, <3>5, <4>1, <4>2
      <3>7. decode_ns(n, s) = [v |-> 2 * (m + h) - m + s[l], used |-> l]
        <4>1. Value(SubSeq(s, 1, l - 1)) = m + h
          BY <3>4, <3>6
        <4>2. ~(n <= 1) /\ ~(m + h < m)
          BY <1>2, <2>3, <3>0
        <4> HIDE DEF s, h
        <4> QED BY <4>1, <4>2 DEF decode_ns, l, m
      <3>8. 2 * (m + h) - m + s[l] = v
        <4> HIDE DEF s
        <4>1. m \in Nat /\ v \in Nat /\ s[l] = b
          BY <2>2, <2>3, <3>6
        <4> QED BY <3>0, <4>1
      <3> HIDE DEF s
      <3>9. /\ s \in Seq(Bit) /\ decode_ns(n, s).v = v /\ decode_ns(n, s).used = Len(s)
            /\ count_quniform(n, v) = Len(s)
        BY <3>1, <3>6, <3>7, <3>8
      <3> QED BY <3>9 DEF s
    <2> QED BY <2>3, <2>5, <2>6
  <1> QED BY <1>1, <1>2

\* The intervals of the subexponential code are adjacent.
LEMMA IntervalFacts ==
  ASSUME NEW k \in 0 .. 15, NEW i \in 0 .. 29 - k
  PROVE  /\ b_of(k, i) \in 0 .. 28 /\ mk_of(k, i) \in Nat /\ 2^b_of(k, i) \in Nat \ {0}
         /\ mk_of(k, i + 1) = mk_of(k, i) + 2^b_of(k, i)
PROOF
  <1>1. CASE i = 0
    <2>1. b_of(k, i) = k /\ mk_of(k, i) = 0 /\ mk_of(k, i + 1) = 2^(k + 1 - 1)
      BY <1>1 DEF b_of, mk_of
    <2>2. k \in 0 .. 28 /\ k \in 0 .. 30 /\ k + 1 - 1 = k
      OBVIOUS
    <2>3. 2^k \in Nat \ {0}
      BY <2>2, PowTwo
    <2> QED BY <2>1, <2>2, <2>3
  <1>2. CASE i # 0
    <2> DEFINE b == k + i - 1
    <2>1. b \in 0 .. 28 /\ b \in 0 .. 30 /\ k + (i + 1) - 1 = b + 1 /\ i + 1 # 0
      BY <1>2
    <2>2. b_of(k, i) = b /\ mk_of(k, i) = 2^b /\ mk_of(k, i + 1) = 2^(b + 1)
      BY <1>2, <2>1 DEF b_of, mk_of
    <2> HIDE DEF b
    <2>3. 2^b \in Nat \ {0} /\ 2^(b + 1) = 2 * 2^b
      BY <2>1, PowTwo
    <2> QED BY <2>1, <2>2, <2>3
  <1> QED BY <1>1, <1>2

\* The loop of write_subexp ends, in the interval of the value.
LEMMA IntervalOf ==
  ASSUME NEW n \in Nat, n <= 2^30, NEW k \in 0 .. 15, NEW v \in 0 .. n - 1
  PROVE  LET i == interval(n, k, v)
         IN /\ i \in 0 .. 29 - k /\ v >= mk_of(k, i)
            /\ last_interval(n, k, i) \/ v < mk_of(k, i) + 2^b_of(k, i)
            /\ \A j \in 0 .. i - 1 : ~last_interval(n, k, j)
PROOF
  <1> DEFINE End(z) == last_interval(n, k, z) \/ v < mk_of(k, z) + 2^b_of(k, z)
             Before(z) == ~last_interval(n, k, z) /\ v >= mk_of(k, z) + 2^b_of(k, z)
             Here(z) == End(z) /\ \A j \in 0 .. z - 1 : Before(j)
             S == {z \in 0 .. 29 - k : End(z)}
             i == interval(n, k, v)
             w == 29 - k
  <1>1. w \in 14 .. 29 /\ last_interval(n, k, w)
    <2>1. w \in 14 .. 29 /\ w # 0 /\ k + w - 1 = 28
      OBVIOUS
    <2>2. mk_of(k, w) = 2^28 /\ b_of(k, w) = 28
      BY <2>1 DEF mk_of, b_of
    <2>3. n <= 2^28 + 3 * 2^28
      OBVIOUS
    <2> QED BY <2>1, <2>2, <2>3 DEF last_interval
  <1>2. S \subseteq Nat /\ w \in S
    BY <1>1
  <1>3. PICK l \in S : \A m \in S : l <= m
    <2>1. S # {}
      BY <1>2
    <2> HIDE DEF S
    <2> QED BY <1>2, <2>1, LeastElement
  <1>4. ASSUME NEW z \in 0 .. w PROVE End(z) \/ Before(z)
    <2>1. mk_of(k, z) \in Nat /\ 2^b_of(k, z) \in Nat
      BY <1>4, IntervalFacts
    <2>2. v \in Int /\ mk_of(k, z) + 2^b_of(k, z) \in Int
      BY <2>1
    <2> QED BY <2>2
  <1>5. ASSUME NEW j \in 0 .. l - 1 PROVE Before(j)
    <2>1. j \in 0 .. w /\ j \notin S
      BY <1>1, <1>3
    <2> HIDE DEF End, Before
    <2> QED BY <1>4, <2>1
  <1>6. l \in 0 .. 31 /\ l \in 0 .. w /\ Here(l)
    BY <1>1, <1>3, <1>5
  <1>7. i = CHOOSE z \in 0 .. 31 : Here(z)
    BY DEF interval
  <1>8. i \in 0 .. 31 /\ Here(i)
    <2> HIDE DEF Here, i
    <2> QED BY <1>6, <1>7
  <1> HIDE DEF i
  <1>9. i \in 0 .. w
    <2> SUFFICES ASSUME i > w PROVE FALSE
      BY <1>1, <1>8
    <2>1. w \in 0 .. i - 1
      BY <1>1, <1>8
    <2> QED BY <1>1, <1>8, <2>1
  <1>10. v >= mk_of(k, i)
    <2>1. CASE i = 0
      BY <2>1 DEF mk_of
    <2>2. CASE i # 0
      <3>1. i - 1 \in 0 .. 29 - k /\ i - 1 \in 0 .. i - 1 /\ (i - 1) + 1 = i
        BY <1>9, <2>2
      <3>2. mk_of(k, (i - 1) + 1) = mk_of(k, i - 1) + 2^b_of(k, i - 1)
        BY <3>1, IntervalFacts
      <3>3. v >= mk_of(k, i - 1) + 2^b_of(k, i - 1)
        BY <1>8, <3>1
      <3> QED BY <3>1, <3>2, <3>3
    <2> QED BY <2>1, <2>2
  <1>11. /\ i \in 0 .. 29 - k /\ v >= mk_of(k, i)
         /\ last_interval(n, k, i) \/ v < mk_of(k, i) + 2^b_of(k, i)
         /\ \A j \in 0 .. i - 1 : ~last_interval(n, k, j)
    BY <1>8, <1>9, <1>10
  <1> QED BY <1>11 DEF i


\* Subexponential: the decoder counts the ones up to the interval, since there
\* is a zero after them or the interval is the last; the rest is the offset.
LEMMA SubexpInverts ==
  ASSUME NEW n \in Nat, n <= 2^30, NEW k \in 0 .. 15, NEW v \in 0 .. n - 1
  PROVE  LET s == write_subexp(n, k, v)
         IN /\ decode_subexp(n, k, s).v = v /\ decode_subexp(n, k, s).used = Len(s)
            /\ count_subexp(n, k, v) = Len(s)
PROOF
  <1> DEFINE s == write_subexp(n, k, v)
             i == interval(n, k, v)
             mk == mk_of(k, i)
             b == b_of(k, i)
             ones == [j \in 1 .. i |-> 1]
             small(z) == last_interval(n, k, z)
             There(z) == /\ small(z) \/ (z < Len(s) /\ s[z + 1] = 0)
                         /\ \A j \in 0 .. z - 1 : ~small(j) /\ s[j + 1] = 1
             d == CHOOSE z \in 0 .. Len(s) : There(z)
  <1>1. /\ i \in 0 .. 29 - k /\ v >= mk
        /\ small(i) \/ v < mk + 2^b
        /\ \A j \in 0 .. i - 1 : ~small(j)
    BY IntervalOf
  <1>2. b \in 0 .. 28 /\ mk \in Nat /\ 2^b \in Nat \ {0}
    BY <1>1, IntervalFacts
  <1>3. i \in Nat /\ ones \in Seq(Bit) /\ Len(ones) = i /\ \A j \in 1 .. i : ones[j] = 1
    <2> HIDE DEF i
    <2>1. i \in Nat
      BY <1>1
    <2> QED BY <2>1 DEF Bit
  <1>4. /\ small(i) => s = ones \o write_quniform(n - mk, v - mk)
        /\ ~small(i) => s = (ones \o <<0>>) \o literal(b, v - mk)
    BY DEF write_subexp
  <1>5. count_subexp(n, k, v) = IF small(i) THEN i + count_quniform(n - mk, v - mk) ELSE i + 1 + b
    BY DEF count_subexp
  <1>6. decode_subexp(n, k, s) =
          IF small(d) THEN [v |-> mk_of(k, d) + decode_ns(n - mk_of(k, d), Drop(s, d)).v,
                            used |-> d + decode_ns(n - mk_of(k, d), Drop(s, d)).used]
          ELSE [v |-> mk_of(k, d) + Value(SubSeq(s, d + 2, d + 1 + b_of(k, d))),
                used |-> d + 1 + b_of(k, d)]
    <2> HIDE DEF s
    <2> QED BY DEF decode_subexp, last_interval
  <1> HIDE DEF s, i, small, ones, mk, b
  <1>7. ASSUME s \in Seq(Bit), i <= Len(s), \A j \in 1 .. i : s[j] = 1,
               small(i) \/ (i < Len(s) /\ s[i + 1] = 0)
        PROVE  d = i
    <2>1. i \in 0 .. Len(s) /\ There(i)
      <3>1. Len(s) \in Nat
        BY <1>7
      <3>2. ASSUME NEW j \in 0 .. i - 1 PROVE s[j + 1] = 1
        <4>1. j + 1 \in 1 .. i
          BY <1>3
        <4> QED BY <1>7, <4>1
      <3> QED BY <1>1, <1>3, <1>7, <3>1, <3>2
    <2>2. ASSUME NEW z \in 0 .. Len(s), There(z) PROVE z = i
      <3>1. CASE z < i
        <4>1. z \in 0 .. i - 1 /\ z + 1 \in 1 .. i
          BY <1>3, <3>1
        <4>2. ~small(z) /\ s[z + 1] = 1
          BY <1>1, <1>7, <4>1
        <4> QED BY <2>2, <4>2
      <3>2. CASE z > i
        <4>1. i \in 0 .. z - 1
          BY <1>3, <3>2
        <4>2. ~small(i) /\ s[i + 1] = 1
          BY <2>2, <4>1
        <4> QED BY <1>7, <4>2
      <3>3. z \in Int /\ i \in Int
        BY <1>3
      <3> QED BY <3>1, <3>2, <3>3
    <2> HIDE DEF There
    <2> QED BY <2>1, <2>2
  <1> HIDE DEF d
  <1>8. v - mk \in Nat /\ mk + (v - mk) = v
    BY <1>1, <1>2
  <1>9. CASE small(i)
    <2> DEFINE q == write_quniform(n - mk, v - mk)
    <2>1. n - mk \in Nat /\ n - mk < 2^31 /\ v - mk \in 0 .. (n - mk) - 1
      BY <1>2, <1>8
    <2>2. /\ q \in Seq(Bit) /\ decode_ns(n - mk, q).v = v - mk
          /\ decode_ns(n - mk, q).used = Len(q) /\ count_quniform(n - mk, v - mk) = Len(q)
      <3> QED BY <2>1, QuniformInverts
    <2>3. s = ones \o q
      BY <1>4, <1>9
    <2> HIDE DEF q
    <2>4. /\ s \in Seq(Bit) /\ Len(q) \in Nat /\ Len(s) = i + Len(q)
          /\ \A j \in 1 .. i : s[j] = ones[j]
          /\ SubSeq(s, i + 1, i + Len(q)) = q
      BY <1>3, <2>2, <2>3, ConcatFacts
    <2>5. d = i
      BY <1>3, <1>7, <1>9, <2>4
    <2>6. Drop(s, d) = q
      BY <2>4, <2>5 DEF Drop
    <2>7. decode_subexp(n, k, s) = [v |-> mk + (v - mk), used |-> i + Len(q)]
      BY <1>6, <1>9, <2>2, <2>5, <2>6 DEF mk
    <2>8. /\ decode_subexp(n, k, s).v = v /\ decode_subexp(n, k, s).used = Len(s)
          /\ count_subexp(n, k, v) = Len(s)
      BY <1>5, <1>8, <1>9, <2>2, <2>4, <2>7
    <2> QED BY <2>8 DEF s
  <1>10. CASE ~small(i)
    <2> DEFINE L == literal(b, v - mk)
               O == ones \o <<0>>
    <2>1. b \in 0 .. 31 /\ v - mk < 2^b
      BY <1>1, <1>2, <1>8, <1>10
    <2>2. L \in Seq(Bit) /\ Len(L) = b /\ Value(L) = v - mk
      <3> QED BY <1>8, <2>1, LiteralFacts, ValueOfLiteral
    <2>3. s = O \o L
      BY <1>4, <1>10
    <2> HIDE DEF L
    <2>4. <<0>> \in Seq(Bit) /\ Len(<<0>>) = 1 /\ <<0>>[1] = 0 /\ 1 \in 1 .. 1
      BY DEF Bit
    <2>5. /\ O \in Seq(Bit) /\ Len(O) = i + 1 /\ O[i + 1] = 0
          /\ \A j \in 1 .. i : O[j] = ones[j]
      BY <1>3, <2>4, ConcatFacts
    <2> HIDE DEF O
    <2>6. /\ s \in Seq(Bit) /\ Len(s) = (i + 1) + b
          /\ \A j \in 1 .. i + 1 : s[j] = O[j]
          /\ SubSeq(s, (i + 1) + 1, (i + 1) + b) = L
      <3>1. /\ O \o L \in Seq(Bit) /\ Len(O \o L) = Len(O) + Len(L)
            /\ \A j \in 1 .. Len(O) : (O \o L)[j] = O[j]
            /\ SubSeq(O \o L, Len(O) + 1, Len(O) + Len(L)) = L
        BY <2>2, <2>5, ConcatFacts
      <3>2. Len(O) = i + 1 /\ Len(L) = b
        BY <2>2, <2>5
      <3> HIDE DEF There
      <3> QED BY <2>3, <3>1, <3>2
    <2>7. i <= Len(s) /\ i < Len(s) /\ s[i + 1] = 0 /\ \A j \in 1 .. i : s[j] = 1
      <3>1. i + 1 \in 1 .. i + 1 /\ i <= (i + 1) + b /\ i < (i + 1) + b
        BY <1>2, <1>3
      <3>2. \A j \in 1 .. i : j \in 1 .. i + 1
        BY <1>3
      <3> QED BY <1>3, <2>5, <2>6, <3>1, <3>2
    <2>8. d = i
      BY <1>7, <2>6, <2>7
    <2>9. (i + 1) + 1 = i + 2 /\ (i + 1) + b = i + 1 + b
      BY <1>2, <1>3
    <2>10. decode_subexp(n, k, s) = [v |-> mk + (v - mk), used |-> i + 1 + b]
      BY <1>6, <1>10, <2>2, <2>6, <2>8, <2>9 DEF mk, b
    <2>11. /\ decode_subexp(n, k, s).v = v /\ decode_subexp(n, k, s).used = Len(s)
           /\ count_subexp(n, k, v) = Len(s)
      BY <1>5, <1>8, <1>10, <2>6, <2>9, <2>10
    <2> QED BY <2>11 DEF s
  <1> QED BY <1>9, <1>10

\* recenter is undone, and stays in the range of the value.
LEMMA RecenterInverts ==
  ASSUME NEW n \in Nat, NEW r \in 0 .. n - 1, 2 * r <= n, NEW v \in 0 .. n - 1
  PROVE  inverse_recenter(r, recenter(r, v)) = v /\ recenter(r, v) \in 0 .. n - 1
PROOF
  <1> DEFINE w == recenter(r, v)
  <1>1. CASE v > 2 * r
    <2>1. w = v
      BY <1>1 DEF recenter
    <2> QED BY <1>1, <2>1 DEF inverse_recenter
  <1>2. CASE ~(v > 2 * r) /\ v >= r
    <2>1. w = 2 * (v - r)
      BY <1>2 DEF recenter
    <2>2. ~(w > 2 * r) /\ w % 2 = 0 /\ w \div 2 = v - r /\ w \in 0 .. n - 1
      BY <1>2, <2>1
    <2> HIDE DEF w
    <2>3. inverse_recenter(r, w) = r + (v - r)
      BY <2>2 DEF inverse_recenter
    <2> QED BY <2>2, <2>3 DEF w
  <1>3. CASE ~(v > 2 * r) /\ ~(v >= r)
    <2>1. w = 2 * (r - v) - 1
      BY <1>3 DEF recenter
    <2>2. ~(w > 2 * r) /\ w % 2 = 1 /\ (w + 1) \div 2 = r - v /\ w \in 0 .. n - 1
      BY <1>3, <2>1
    <2> HIDE DEF w
    <2>3. inverse_recenter(r, w) = r - (r - v)
      BY <2>2 DEF inverse_recenter
    <2> QED BY <2>2, <2>3 DEF w
  <1> QED BY <1>1, <1>2, <1>3

\* Subexponential relative to a reference, from either end.
LEMMA WithRefInverts ==
  ASSUME NEW n \in Nat, n <= 2^30, NEW k \in 0 .. 15, NEW r \in 0 .. n - 1, NEW v \in 0 .. n - 1
  PROVE  LET s == write_unsigned_subexp_with_ref(n, k, r, v)
             d == decode_unsigned_subexp_with_ref(n, k, r, s)
         IN d.v = v /\ d.used = Len(s) /\ count_unsigned_subexp_with_ref(n, k, r, v) = Len(s)
PROOF
  <1> DEFINE w == recentered(n, r, v)
             s == write_subexp(n, k, w)
             back(x) == IF 2 * r <= n THEN inverse_recenter(r, x)
                        ELSE n - 1 - inverse_recenter(n - 1 - r, x)
  <1>1. w \in 0 .. n - 1 /\ back(w) = v
    <2>1. CASE 2 * r <= n
      BY <2>1, RecenterInverts DEF recentered
    <2>2. CASE ~(2 * r <= n)
      <3> DEFINE q == n - 1 - r
                 u == n - 1 - v
      <3>1. q \in 0 .. n - 1 /\ 2 * q <= n /\ u \in 0 .. n - 1 /\ n - 1 - u = v
        BY <2>2
      <3>2. w = recenter(q, u) /\ back(w) = n - 1 - inverse_recenter(q, w)
        BY <2>2 DEF recentered
      <3> HIDE DEF q, u, w, back
      <3>3. inverse_recenter(q, w) = u /\ w \in 0 .. n - 1
        BY <3>1, <3>2, RecenterInverts
      <3> QED BY <3>1, <3>2, <3>3
    <2> QED BY <2>1, <2>2
  <1>2. /\ write_unsigned_subexp_with_ref(n, k, r, v) = s
        /\ count_unsigned_subexp_with_ref(n, k, r, v) = count_subexp(n, k, w)
    BY DEF write_unsigned_subexp_with_ref, count_unsigned_subexp_with_ref
  <1> HIDE DEF w
  <1>3. /\ decode_subexp(n, k, s).v = w /\ decode_subexp(n, k, s).used = Len(s)
        /\ count_subexp(n, k, w) = Len(s)
    BY <1>1, SubexpInverts
  <1>4. /\ decode_unsigned_subexp_with_ref(n, k, r, s).v = back(w)
        /\ decode_unsigned_subexp_with_ref(n, k, r, s).used = Len(s)
    <2> HIDE DEF s
    <2>1. \E x, y : decode_subexp(n, k, s) = [v |-> x, used |-> y]
      BY Zenon DEF decode_subexp
    <2>2. PICK x, y : decode_subexp(n, k, s) = [v |-> x, used |-> y]
      BY <2>1
    <2>3. x = w /\ y = Len(s)
      BY <1>3, <2>2
    <2>4. decode_unsigned_subexp_with_ref(n, k, r, s) = [[v |-> x, used |-> y] EXCEPT !.v = back(x)]
      BY <2>2 DEF decode_unsigned_subexp_with_ref
    <2> QED BY <2>3, <2>4
  <1> HIDE DEF s, back
  <1> QED BY <1>1, <1>2, <1>3, <1>4

-----------------------------------------------------------------------------
(* The specification *)

\* What Code writes.
CodeOf(j) ==
  CASE j.code = "golomb" -> write_golomb(j.v)
    [] j.code = "quniform" -> write_quniform(j.n, j.v)
    [] j.code = "subexp" -> write_unsigned_subexp_with_ref(j.n, j.k, j.r, j.v)

CodesInv == job \in Jobs /\ (bits = NotCoded \/ bits = CodeOf(job))

\* The value is not coded yet, or bits is its code.
LEMMA CodesInductive == CodesSpec => []CodesInv
PROOF
  <1>1. CodesInit => CodesInv
    BY DEF CodesInit, CodesInv
  <1>2. CodesInv /\ [CodesNext]_codeVars => CodesInv'
    <2> SUFFICES ASSUME CodesInv, [CodesNext]_codeVars PROVE CodesInv'
      OBVIOUS
    <2>1. CASE Code
      <3>1. job' = job /\ bits' = CodeOf(job)
        BY <2>1 DEF Code, CodeOf
      <3> QED BY <3>1 DEF CodesInv, CodeOf
    <2>2. CASE UNCHANGED codeVars
      BY <2>2 DEF CodesInv, CodeOf, codeVars, NotCoded
    <2> QED BY <2>1, <2>2 DEF CodesNext, Coded
  <1> QED BY <1>1, <1>2, PTL DEF CodesSpec

\* For every value to code: a decoder reads the value that write_golomb,
\* write_quniform or write_unsigned_subexp_with_ref was given, to the last bit,
\* and the count functions return the number of bits that are written.
THEOREM CodesInvertHolds == CodesSpec => []CodesInvert
PROOF
  <1>1. CodesInv => CodesInvert
    <2> SUFFICES ASSUME CodesInv, bits # NotCoded PROVE CodesInvert
      BY DEF CodesInvert
    <2> DEFINE n == job.n
               k == job.k
               r == job.r
               v == job.v
    <2>1. bits = CodeOf(job) /\ job \in Jobs
      BY DEF CodesInv
    <2>2. /\ job.code \in {"golomb", "quniform", "subexp"}
          /\ n \in Nat /\ k \in Nat /\ r \in Nat /\ v \in Nat
          /\ r < n /\ v < n /\ n <= 2^30 /\ k <= 15
      BY <2>1, JobsAssumption
    <2>3. v \in 0 .. n - 1 /\ r \in 0 .. n - 1 /\ k \in 0 .. 15 /\ n < 2^31 /\ v + 1 < 2^31
      BY <2>2
    <2> HIDE DEF n, k, r, v
    <2>4. CASE job.code = "golomb"
      <3>1. bits = write_golomb(v)
        BY <2>1, <2>4 DEF CodeOf, v
      <3>2. decode_golomb(bits).v = v /\ decode_golomb(bits).used = Len(bits)
        BY <2>2, <2>3, <3>1, GolombInverts
      <3> QED BY <2>4, <3>2 DEF CodesInvert, v
    <2>5. CASE job.code = "quniform"
      <3>1. bits = write_quniform(n, v)
        BY <2>1, <2>5 DEF CodeOf, n, v
      <3>2. /\ decode_ns(n, bits).v = v /\ decode_ns(n, bits).used = Len(bits)
            /\ count_quniform(n, v) = Len(bits)
        BY <2>2, <2>3, <3>1, QuniformInverts
      <3> QED BY <2>5, <3>2 DEF CodesInvert, n, v
    <2>6. CASE job.code = "subexp"
      <3>1. bits = write_unsigned_subexp_with_ref(n, k, r, v)
        BY <2>1, <2>6 DEF CodeOf, n, k, r, v
      <3>2. /\ decode_unsigned_subexp_with_ref(n, k, r, bits).v = v
            /\ decode_unsigned_subexp_with_ref(n, k, r, bits).used = Len(bits)
            /\ count_unsigned_subexp_with_ref(n, k, r, v) = Len(bits)
        BY <2>2, <2>3, <3>1, WithRefInverts, ZenonT(60)
      <3> QED BY <2>6, <3>2 DEF CodesInvert, n, k, r, v
    <2> QED BY <2>2, <2>4, <2>5, <2>6
  <1> QED BY <1>1, CodesInductive, PTL

-----------------------------------------------------------------------------
(* The division of a frame *)

\* CeilDiv is the number of pieces that are needed.
LEMMA CeilDivFacts ==
  ASSUME NEW a \in Nat \ {0}, NEW b \in Nat \ {0}
  PROVE  /\ CeilDiv(a, b) \in Nat \ {0}
         /\ CeilDiv(a, b) * b >= a /\ (CeilDiv(a, b) - 1) * b < a
         /\ CeilDiv(a, b) <= a
PROOF
  <1> DEFINE q == (a + b - 1) \div b
             r == (a + b - 1) % b
             p == b * q
  <1>1. q \in Nat /\ r \in Nat /\ r < b /\ a + b - 1 = p + r
    <2>1. a + b - 1 \in Nat
      OBVIOUS
    <2> QED BY <2>1
  <1>2. CeilDiv(a, b) = q
    BY DEF CeilDiv
  <1> HIDE DEF q, r
  <1>3. q * b = p /\ (q - 1) * b = p - b /\ p \in Nat
    BY <1>1
  <1>4. q # 0
    BY <1>1
  <1>5. p >= a /\ p - b < a
    <2> HIDE DEF p
    <2> QED BY <1>1, <1>3
  <1>6. q <= a
    <2> SUFFICES ASSUME q >= a + 1 PROVE FALSE
      BY <1>1
    <2>1. (q - 1) * b >= q - 1
      <3>1. q - 1 \in Nat
        BY <1>1, <1>4
      <3> DEFINE u == q - 1
      <3> HIDE DEF u
      <3>2. u * b >= u
        BY <3>1 DEF u
      <3> QED BY <3>2 DEF u
    <2> HIDE DEF p
    <2> QED BY <1>1, <1>3, <1>5, <2>1
  <1> QED BY <1>1, <1>2, <1>3, <1>4, <1>5, <1>6

\* tile_log2 is the least logarithm that reaches the target.
LEMMA TileLog2Least ==
  ASSUME NEW blk \in Nat, NEW target_ \in Nat, target_ <= blk * 2^16
  PROVE  /\ tile_log2(blk, target_) \in 0 .. 16
         /\ blk * 2^tile_log2(blk, target_) >= target_
         /\ \A k \in Nat : blk * 2^k >= target_ => tile_log2(blk, target_) <= k
PROOF
  <1> DEFINE S == {k \in 0 .. 16 : blk * 2^k >= target_}
             Least(x) == \A y \in S : x <= y
             m == tile_log2(blk, target_)
  <1>1. S \subseteq Nat /\ 16 \in S /\ S \subseteq 0 .. 16
    OBVIOUS
  <1>2. \E x \in S : Least(x)
    <2>1. S # {}
      BY <1>1
    <2> HIDE DEF S
    <2> QED BY <1>1, <2>1, LeastElement
  <1>3. m = CHOOSE x \in S : Least(x)
    BY DEF tile_log2, Min
  <1>4. m \in S /\ Least(m)
    <2> HIDE DEF S, Least, m
    <2> QED BY <1>2, <1>3
  <1> HIDE DEF m
  <1>5. m \in 0 .. 16 /\ blk * 2^m >= target_
    BY <1>4
  <1>6. ASSUME NEW k \in Nat, blk * 2^k >= target_ PROVE m <= k
    <2>1. CASE k <= 16
      <3>1. k \in 0 .. 16
        BY <2>1
      <3>2. k \in S
        BY <1>6, <3>1
      <3> QED BY <1>4, <3>2
    <2>2. CASE k > 16
      BY <1>5, <2>2
    <2> QED BY <2>1, <2>2
  <1> QED BY <1>5, <1>6 DEF m

\* tile_log2 of a target in its reach.
LEMMA TileLog2 ==
  ASSUME NEW blk \in Nat, NEW target_ \in Nat, target_ <= blk * 2^16
  PROVE  tile_log2(blk, target_) \in 0 .. 16
PROOF
  BY TileLog2Least

\* The sizes that units and superblocks have.
UnitSbs == {1, 2, 4, 8}

\* What a power of two that divides n says of the smaller ones.
LEMMA TrailingZeros ==
  ASSUME NEW n \in Nat
  PROVE  LET p == 2^trailing_zeros(n)
         IN /\ p \in Nat \ {0} /\ trailing_zeros(n) \in 0 .. 10
            /\ \A d \in UnitSbs : d <= p => n % d = 0
            /\ n % 2 = 0 => p >= 2
            /\ p \in {1, 2, 4} \/ (p >= 8 /\ p % 8 = 0)
PROOF
  <1> DEFINE S == {k \in 0 .. 10 : n % 2^k = 0}
             Greatest(x) == \A y \in S : x >= y
             T == {10 - k : k \in S}
             t == trailing_zeros(n)
  <1>1. S \subseteq 0 .. 10 /\ 0 \in S
    <2>1. 2^0 = 1 /\ n % 1 = 0
      OBVIOUS
    <2> QED BY <2>1
  <1>2. n % 2 = 0 => 1 \in S
    <2>1. 2^1 = 2
      OBVIOUS
    <2> QED BY <2>1
  <1>3. t = CHOOSE x \in S : Greatest(x)
    BY DEF trailing_zeros, Max
  <1>4. \E x \in S : Greatest(x)
    <2>1. T \subseteq Nat /\ T # {}
      <3> HIDE DEF S
      <3> QED BY <1>1
    <2>2. PICK m \in T : \A o \in T : m <= o
      <3> HIDE DEF T
      <3> QED BY <2>1, LeastElement
    <2>3. PICK x \in S : m = 10 - x
      BY <2>2
    <2>4. ASSUME NEW y \in S PROVE x >= y
      <3>1. 10 - y \in T
        OBVIOUS
      <3>2. 10 - x <= 10 - y
        BY <2>2, <2>3, <3>1
      <3> HIDE DEF S
      <3> QED BY <1>1, <2>3, <3>2
    <2> QED BY <2>3, <2>4
  <1>5. t \in S /\ Greatest(t)
    <2> HIDE DEF S, Greatest, t
    <2> QED BY <1>3, <1>4
  <1> HIDE DEF t
  <1>6. t \in 0 .. 10 /\ n % 2^t = 0 /\ (n % 2 = 0 => t >= 1)
    BY <1>2, <1>5
  <1> HIDE DEF S, T, Greatest
  <1>7. /\ 2^0 = 1 /\ 2^1 = 2 /\ 2^2 = 4 /\ 2^3 = 8 /\ 2^4 = 16 /\ 2^5 = 32 /\ 2^6 = 64
        /\ 2^7 = 128 /\ 2^8 = 256 /\ 2^9 = 512 /\ 2^10 = 1024
    OBVIOUS
  <1> DEFINE p == 2^t
             Fits == /\ p \in Nat \ {0} /\ t \in 0 .. 10 /\ (n % 2 = 0 => p >= 2)
                     /\ \A d \in {1, 2, 4, 8} : d <= p => n % d = 0
                     /\ p \in {1, 2, 4} \/ (p >= 8 /\ p % 8 = 0)
  <1>8. CASE t = 0
    <2>1. p = 1
      BY <1>7, <1>8
    <2> HIDE DEF p
    <2>2. \A d \in {1, 2, 4, 8} : d <= p => n % d = 0
      BY <2>1
    <2>3. Fits
      BY <1>6, <1>8, <2>1, <2>2
    <2> QED BY <2>3 DEF p, t, UnitSbs
  <1>9. CASE t \in {1, 2}
    <2>1. p \in {2, 4} /\ n % p = 0
      <3>1. CASE t = 1
        BY <1>6, <1>7, <3>1
      <3>2. CASE t = 2
        BY <1>6, <1>7, <3>2
      <3> QED BY <1>9, <3>1, <3>2
    <2> HIDE DEF p
    <2>2. \A d \in {1, 2, 4, 8} : d <= p => n % d = 0
      BY <2>1
    <2>3. Fits
      BY <1>6, <2>1, <2>2
    <2> QED BY <2>3 DEF p, t, UnitSbs
  <1>10. CASE t \in 3 .. 10
    <2>1. n % 8 = 0 /\ p >= 8 /\ p % 8 = 0 /\ p \in Nat
      <3>1. CASE t = 3
        <4>1. p = 8 /\ n % 8 = 0
          BY <1>6, <1>7, <3>1
        <4> QED BY <4>1
      <3>2. CASE t = 4
        <4>1. p = 16 /\ n % 16 = 0
          BY <1>6, <1>7, <3>2
        <4> QED BY <4>1
      <3>3. CASE t = 5
        <4>1. p = 32 /\ n % 32 = 0
          BY <1>6, <1>7, <3>3
        <4> QED BY <4>1
      <3>4. CASE t = 6
        <4>1. p = 64 /\ n % 64 = 0
          BY <1>6, <1>7, <3>4
        <4> QED BY <4>1
      <3>5. CASE t = 7
        <4>1. p = 128 /\ n % 128 = 0
          BY <1>6, <1>7, <3>5
        <4> QED BY <4>1
      <3>6. CASE t = 8
        <4>1. p = 256 /\ n % 256 = 0
          BY <1>6, <1>7, <3>6
        <4> QED BY <4>1
      <3>7. CASE t = 9
        <4>1. p = 512 /\ n % 512 = 0
          BY <1>6, <1>7, <3>7
        <4> QED BY <4>1
      <3>8. CASE t = 10
        <4>1. p = 1024 /\ n % 1024 = 0
          BY <1>6, <1>7, <3>8
        <4> QED BY <4>1
      <3>9. t \in {3, 4, 5, 6, 7, 8, 9, 10}
        BY <1>10
      <3> QED BY <3>1, <3>2, <3>3, <3>4, <3>5, <3>6, <3>7, <3>8, <3>9
    <2> HIDE DEF p
    <2>2. \A d \in {1, 2, 4, 8} : n % d = 0
      BY <2>1
    <2>3. Fits
      BY <1>6, <2>1, <2>2
    <2> QED BY <2>3 DEF p, t, UnitSbs
  <1>11. t = 0 \/ t \in {1, 2} \/ t \in 3 .. 10
    BY <1>6
  <1> QED BY <1>8, <1>9, <1>10, <1>11

\* The superblocks of a frame, across and down.
Across(g) == Superblocks(g.width)
Down(g) == Superblocks(g.height)

\* The size of a frame in superblocks.
LEMMA FrameFacts ==
  ASSUME NEW g \in Frames
  PROVE  /\ g.width \in Nat \ {0} /\ g.height \in Nat \ {0} /\ g.width <= 65535 /\ g.height <= 65535
         /\ Across(g) \in Nat \ {0} /\ Down(g) \in Nat \ {0} /\ Across(g) <= 1024 /\ Down(g) <= 1024
         /\ g.cols \in Nat /\ g.rows \in Nat /\ g.tiles \in Nat
         /\ g.xdec \in {0, 1} /\ g.ydec \in {0, 1} /\ g.ydec <= g.xdec /\ g.q \in 0 .. 2
PROOF
  <1>1. /\ g.width \in Nat \ {0} /\ g.height \in Nat \ {0} /\ g.width <= 65535 /\ g.height <= 65535
        /\ g.cols \in Nat /\ g.rows \in Nat /\ g.tiles \in Nat
        /\ g.xdec \in {0, 1} /\ g.ydec \in {0, 1} /\ g.ydec <= g.xdec /\ g.q \in 0 .. 2
    <2>1. 2^16 = 65536
      OBVIOUS
    <2> QED BY <2>1, FramesAssumption
  <1>2. Across(g) \in Nat \ {0} /\ Down(g) \in Nat \ {0} /\ Across(g) <= 1024 /\ Down(g) <= 1024
    BY <1>1 DEF Across, Down, Superblocks, CeilDiv
  <1> QED BY <1>1, <1>2

\* The limits are numbers.
LEMMA LimitFacts ==
  ASSUME NEW g \in Frames
  PROVE  LET lim == TileLimits(g)
         IN /\ lim.min_cols \in 0 .. 16 /\ lim.max_cols \in 0 .. 16 /\ lim.max_rows \in 0 .. 16
            /\ lim.min_tiles_ratelimit \in 0 .. 16
PROOF
  <1> DEFINE wd == MAX_TILE_WIDTH \div 64
             ar == MAX_TILE_AREA \div 4096
             cw == CeilDiv(g.width, 8)
             ch == CeilDiv(g.height, 8)
             area == cw * ch * 64
             min_cols == tile_log2(wd, Across(g))
             min_area == tile_log2(ar, Across(g) * Down(g))
             min_tiles == AtLeast(min_cols, min_area)
             min_rate == tile_log2(1, CeilDiv(area, RateArea))
  <1>1. /\ MAX_TILE_WIDTH \in Nat /\ MAX_TILE_WIDTH >= 64 /\ MAX_TILE_AREA \in Nat /\ MAX_TILE_AREA >= 65536
        /\ RateArea \in Nat /\ RateArea >= 65536 /\ MAX_TILE_COLS \in Nat /\ MAX_TILE_ROWS \in Nat
    <2>1. 2^16 = 65536
      OBVIOUS
    <2>2. MAX_TILE_WIDTH \in Nat \ {0} /\ MAX_TILE_WIDTH % 128 = 0
      BY TilingAssumption
    <2>3. MAX_TILE_WIDTH >= 64
      BY <2>2
    <2> QED BY <2>1, <2>3, TilingAssumption
  <1>2. Across(g) \in Nat \ {0} /\ Down(g) \in Nat \ {0} /\ Across(g) <= 1024 /\ Down(g) <= 1024 /\ g.width \in Nat \ {0} /\ g.height \in Nat \ {0} /\ g.width <= 65535 /\ g.height <= 65535
    BY FrameFacts
  <1>3. wd \in Nat /\ wd >= 1 /\ ar \in Nat /\ ar >= 16
    BY <1>1
  <1> HIDE DEF wd, ar
  <1>4. min_cols \in 0 .. 16
    <2>1. Across(g) \in Nat /\ Across(g) <= wd * 2^16
      BY <1>2, <1>3
    <2> QED BY <1>3, <2>1, TileLog2
  <1>5. min_area \in 0 .. 16
    <2>1. Across(g) * Down(g) \in Nat /\ Across(g) * Down(g) <= 1024 * 1024
      <3> DEFINE a == Across(g)
                 d == Down(g)
      <3> HIDE DEF a, d
      <3>1. a \in Nat /\ a <= 1024 /\ d \in Nat /\ d <= 1024
        BY <1>2 DEF a, d
      <3>2. a * d \in Nat /\ a * d <= 1024 * 1024
        BY <3>1
      <3> QED BY <3>2 DEF a, d
    <2>2. ar * 2^16 >= 1024 * 1024
      BY <1>3
    <2>3. ar * 2^16 \in Nat
      BY <1>3
    <2>4. Across(g) * Down(g) <= ar * 2^16
      BY <2>1, <2>2, <2>3
    <2> QED BY <1>3, <2>1, <2>4, TileLog2
  <1>6. min_rate \in 0 .. 16
    <2>1. cw \in Nat \ {0} /\ ch \in Nat \ {0} /\ cw <= 8192 /\ ch <= 8192
      BY <1>2 DEF CeilDiv
    <2> HIDE DEF cw, ch
    <2>2. cw * ch \in Nat \ {0} /\ cw * ch <= 8192 * 8192
      BY <2>1
    <2>3. area \in Nat \ {0} /\ area <= 65536 * 65536
      BY <2>2
    <2> DEFINE c == CeilDiv(area, RateArea)
    <2>4. c \in Nat \ {0} /\ (c - 1) * RateArea < area
      <3> HIDE DEF area
      <3>1. RateArea \in Nat \ {0}
        BY <1>1
      <3> QED BY <2>3, <3>1, CeilDivFacts
    <2> HIDE DEF c, area
    <2>5. c <= 65536
      <3> SUFFICES ASSUME c - 1 >= 65536 PROVE FALSE
        BY <2>4
      <3>1. (c - 1) * RateArea >= 65536 * 65536
        BY <1>1, <2>4
      <3>2. (c - 1) * RateArea \in Nat
        BY <1>1, <2>4
      <3> QED BY <2>3, <2>4, <3>1, <3>2
    <2>6. c \in Nat /\ 1 \in Nat /\ c <= 1 * 2^16
      BY <2>4, <2>5
    <2>7. tile_log2(1, c) \in 0 .. 16
      BY <2>6, TileLog2
    <2> QED BY <2>7 DEF c
  <1>7. /\ tile_log2(1, AtMost(Across(g), MAX_TILE_COLS)) \in 0 .. 16
        /\ tile_log2(1, AtMost(Down(g), MAX_TILE_ROWS)) \in 0 .. 16
    <2>1. /\ AtMost(Across(g), MAX_TILE_COLS) \in Nat /\ AtMost(Across(g), MAX_TILE_COLS) <= 1 * 2^16
          /\ AtMost(Down(g), MAX_TILE_ROWS) \in Nat /\ AtMost(Down(g), MAX_TILE_ROWS) <= 1 * 2^16
      BY <1>1, <1>2 DEF AtMost
    <2>2. 1 \in Nat
      OBVIOUS
    <2> QED BY <2>1, <2>2, TileLog2
  <1>8. min_tiles \in 0 .. 16 /\ AtLeast(min_tiles, min_rate) \in 0 .. 16
    <2> HIDE DEF min_cols, min_area, min_rate
    <2> QED BY <1>4, <1>5, <1>6 DEF AtLeast
  <1>9. /\ TileLimits(g).min_cols = min_cols
        /\ TileLimits(g).max_cols = tile_log2(1, AtMost(Across(g), MAX_TILE_COLS))
        /\ TileLimits(g).max_rows = tile_log2(1, AtMost(Down(g), MAX_TILE_ROWS))
        /\ TileLimits(g).min_tiles_ratelimit = AtLeast(min_tiles, min_rate)
    BY DEF TileLimits, Across, Down, wd, ar
  <1> HIDE DEF min_cols, min_tiles, min_rate
  <1> QED BY <1>4, <1>7, <1>8, <1>9

\* from_target_tiles divides the frame into tiles of some size; in 4:2:2 they
\* have an even width.
LEMMA TilesOf ==
  ASSUME NEW g \in Frames, NEW c \in Nat, NEW r \in Nat
  PROVE  LET t == from_target_tiles(g, c, r)
         IN /\ t.tile_width_sb \in Nat \ {0} /\ t.tile_height_sb \in Nat \ {0}
            /\ t.cols = CeilDiv(Across(g), t.tile_width_sb)
            /\ t.rows = CeilDiv(Down(g), t.tile_height_sb)
            /\ is_422_p(g) => t.tile_width_sb % 2 = 0
            /\ t.tile_rows_log2 \in 0 .. 16
PROOF
  <1> DEFINE lim == TileLimits(g)
             a == AtMost(AtLeast(c, lim.min_cols), lim.max_cols)
             w == tile_width_sb(g, a)
             cols == CeilDiv(Across(g), w)
             clog == tile_log2(1, cols)
             min_rows == AtLeast(lim.min_tiles_ratelimit - clog, 0)
             b == AtMost(AtLeast(r, min_rows), lim.max_rows)
             h == CeilDiv(Down(g), 2^b)
  <1>1. /\ lim.min_cols \in 0 .. 16 /\ lim.max_cols \in 0 .. 16 /\ lim.max_rows \in 0 .. 16
        /\ lim.min_tiles_ratelimit \in 0 .. 16
    BY LimitFacts
  <1>2. Across(g) \in Nat \ {0} /\ Down(g) \in Nat \ {0} /\ Across(g) <= 1024
    BY FrameFacts
  <1> HIDE DEF lim
  <1>3. a \in 0 .. 16 /\ a \in 0 .. 30
    BY <1>1 DEF AtMost, AtLeast
  <1> HIDE DEF a
  <1>4. w \in Nat \ {0} /\ (is_422_p(g) => w % 2 = 0)
    <2> DEFINE pre == CeilDiv(Across(g), 2^a)
    <2>1. pre \in Nat \ {0}
      <3>1. 2^a \in Nat \ {0}
        BY <1>3, PowTwo
      <3> QED BY <1>2, <3>1, CeilDivFacts, ZenonT(60)
    <2>2. w = IF is_422_p(g) THEN 2 * CeilDiv(pre, 2) ELSE pre
      BY DEF tile_width_sb, Across
    <2> HIDE DEF pre, w
    <2>3. CeilDiv(pre, 2) \in Nat \ {0}
      BY <2>1, CeilDivFacts
    <2>4. CASE is_422_p(g)
      BY <2>2, <2>3, <2>4
    <2>5. CASE ~is_422_p(g)
      BY <2>1, <2>2, <2>5
    <2> QED BY <2>4, <2>5
  <1> HIDE DEF w
  <1>5. cols \in Nat \ {0} /\ cols <= 1024
    <2>1. cols \in Nat \ {0} /\ cols <= Across(g)
      BY <1>2, <1>4, CeilDivFacts, ZenonT(60)
    <2> HIDE DEF cols
    <2> QED BY <1>2, <2>1
  <1> HIDE DEF cols
  <1>6. clog \in 0 .. 16
    <2>1. cols <= 1 * 2^16 /\ 1 \in Nat
      BY <1>5
    <2> QED BY <1>5, <2>1, TileLog2
  <1> HIDE DEF clog
  <1>7. b \in 0 .. 16 /\ b \in 0 .. 30
    BY <1>1, <1>6 DEF AtMost, AtLeast
  <1> HIDE DEF b
  <1>8. h \in Nat \ {0}
    <2>1. 2^b \in Nat \ {0}
      BY <1>7, PowTwo
    <2> QED BY <1>2, <2>1, CeilDivFacts, ZenonT(60)
  <1>9. /\ from_target_tiles(g, c, r).tile_width_sb = w
        /\ from_target_tiles(g, c, r).tile_height_sb = h
        /\ from_target_tiles(g, c, r).cols = cols
        /\ from_target_tiles(g, c, r).rows = CeilDiv(Down(g), h)
        /\ from_target_tiles(g, c, r).tile_rows_log2 = b
    BY DEF from_target_tiles, w, cols, clog, a, b, lim, Across, Down
  <1> HIDE DEF h
  <1> QED BY <1>4, <1>7, <1>8, <1>9 DEF cols

\* One side of the frame: where a tile begins, and what it has.
LEMMA SideFacts ==
  ASSUME NEW total \in Nat \ {0}, NEW size \in Nat \ {0},
         NEW i \in 0 .. CeilDiv(total, size) - 1
  PROVE  LET x == i * size
             w == AtMost(size, total - x)
         IN /\ x \in Nat /\ w \in Nat \ {0} /\ x + w <= total
            /\ x + w = total \/ (w = size /\ CeilDiv(total, size) > 1)
PROOF
  <1> DEFINE c == CeilDiv(total, size)
             x == i * size
             w == AtMost(size, total - x)
             m == (c - 1) * size
  <1>1. c \in Nat \ {0} /\ c * size >= total /\ (c - 1) * size < total
    BY CeilDivFacts
  <1>2. i \in Nat /\ i <= c - 1
    BY <1>1
  <1> HIDE DEF c
  <1>3. x \in Nat /\ x <= m /\ m < total /\ m \in Nat
    <2>1. x \in Nat
      BY <1>2
    <2> DEFINE d == (c - 1) - i
               e == d * size
    <2>2. d \in Nat
      BY <1>1, <1>2
    <2> HIDE DEF d
    <2>3. e \in Nat
      BY <2>2
    <2>4. m = x + e
      <3>1. c - 1 = i + d
        BY <1>1, <1>2 DEF d
      <3>2. (i + d) * size = i * size + d * size
        BY <1>2, <2>2
      <3> QED BY <3>1, <3>2
    <2> HIDE DEF x, e, m
    <2>5. m < total
      BY <1>1 DEF m
    <2> QED BY <2>1, <2>3, <2>4, <2>5
  <1>4. c = 1 => size >= total /\ x = 0
    <2> SUFFICES ASSUME c = 1 PROVE size >= total /\ x = 0
      OBVIOUS
    <2>1. i = 0
      BY <1>2
    <2>2. 1 * size = size
      OBVIOUS
    <2> QED BY <1>1, <2>1, <2>2
  <1> HIDE DEF x, m
  <1>5. CASE size < total - x
    <2>1. w = size
      BY <1>5 DEF AtMost
    <2>2. c > 1
      BY <1>1, <1>3, <1>4, <1>5
    <2> QED BY <1>3, <1>5, <2>1, <2>2 DEF c, x
  <1>6. CASE ~(size < total - x)
    <2>1. w = total - x
      BY <1>6 DEF AtMost
    <2>2. w \in Nat \ {0} /\ x + w = total
      BY <1>3, <2>1
    <2> QED BY <1>3, <2>2 DEF x
  <1> QED BY <1>5, <1>6

\* The powers of two grow.
LEMMA PowMonotone ==
  ASSUME NEW i \in 0 .. 30, NEW j \in 0 .. 30, i <= j
  PROVE  2^i <= 2^j
PROOF
  <1> DEFINE n == j - i
             S == {k \in 0 .. n : 2^i <= 2^(i + k)}
  <1>0. n \in 0 .. 30 /\ n \in Nat /\ i + n = j
    OBVIOUS
  <1> HIDE DEF n
  <1>1. 0 \in S
    <2>1. 2^i \in Nat
      BY PowTwo
    <2>2. i + 0 = i /\ 0 \in 0 .. n
      BY <1>0
    <2> QED BY <2>1, <2>2
  <1>2. ASSUME NEW k \in 0 .. n - 1, k \in S PROVE k + 1 \in S
    <2>1. i + k \in 0 .. 30 /\ k + 1 \in 0 .. n /\ i + (k + 1) = (i + k) + 1
      BY <1>0
    <2>2. 2^((i + k) + 1) = 2 * 2^(i + k) /\ 2^(i + k) \in Nat /\ 2^i \in Nat
      BY <2>1, PowTwo
    <2>3. 2^i <= 2^(i + k)
      BY <1>2
    <2>4. 2^i <= 2^((i + k) + 1)
      BY <2>2, <2>3
    <2> QED BY <2>1, <2>4
  <1>3. n \in S
    <2>1. n \in 0 .. n
      BY <1>0
    <2> HIDE DEF S
    <2> QED BY <1>0, <1>1, <1>2, <2>1, InductionUpTo
  <1> QED BY <1>0, <1>3

\* The sizes that RestorationState::new chooses: a unit of chroma covers at least
\* what one of luma does, and in a frame with several tiles a unit is no larger
\* than the powers of two in the sides of a tile allow.
LEMMA SizeFacts ==
  ASSUME NEW g \in Frames, NEW t,
         t.tile_width_sb \in Nat \ {0}, t.tile_height_sb \in Nat \ {0},
         is_422_p(g) => t.tile_width_sb % 2 = 0
  PROVE  LET s == UnitSizes(g, t)
             A == 2^(trailing_zeros(t.tile_width_sb))
             B == 2^(trailing_zeros(t.tile_height_sb))
             px == 64 \div 2^g.xdec
             py == 64 \div 2^g.ydec
         IN /\ s.y \in {64, 128, 256} /\ s.uv \in {32, 64, 128, 256}
            /\ (g.ydec = 0 => s.uv = s.y) /\ s.y <= 2 * s.uv
            /\ t.cols > 1 \/ t.rows > 1 =>
                 s.y <= 64 * A /\ s.y <= 64 * B /\ s.uv <= px * A /\ s.uv <= py * B
            /\ ~g.restoration => s.y = 64 /\ (g.ydec = 1 => s.uv = 32)
            /\ px \in {32, 64} /\ py \in {32, 64}
            /\ (g.xdec = 0 <=> px = 64) /\ (g.ydec = 0 <=> py = 64)
PROOF
  <1> DEFINE tw == t.tile_width_sb
             th == t.tile_height_sb
             ta == trailing_zeros(tw)
             tb == trailing_zeros(th)
             A == 2^ta
             B == 2^tb
             M == 2^(AtMost(ta, tb))
             large == g.large /\ g.restoration
             tiled == t.cols > 1 \/ t.rows > 1
             ysize == tile_aligned_y_unit_size(t)
             uvsize == tile_aligned_uv_unit_size(g, t)
             y0 == 256 \div 2^(IF large THEN g.q ELSE 2)
             uv0 == IF large THEN y0 \div 2^(lrf_chroma_shift(g))
                    ELSE IF stripe_uv_decimate(g) THEN 32 ELSE 64
             y == IF tiled THEN AtMost(y0, ysize) ELSE y0
             uv == IF tiled THEN AtMost(uv0, uvsize) ELSE uv0
             s == UnitSizes(g, t)
             Shape(p) == p \in {1, 2, 4} \/ (p \in Nat /\ p >= 8)
  <1>1. /\ g.xdec \in {0, 1} /\ g.ydec \in {0, 1} /\ g.ydec <= g.xdec /\ g.q \in 0 .. 2
        /\ g.width \in Nat \ {0} /\ g.height \in Nat \ {0}
    BY FrameFacts
  <1>2. /\ A \in Nat \ {0} /\ Shape(A) /\ \A d \in UnitSbs : d <= A => tw % d = 0
        /\ is_422_p(g) => A >= 2
    BY TrailingZeros
  <1>3. /\ B \in Nat \ {0} /\ Shape(B) /\ \A d \in UnitSbs : d <= B => th % d = 0
    BY TrailingZeros
  <1>4. ta \in 0 .. 10 /\ tb \in 0 .. 10
    BY TrailingZeros
  <1>5. s = IF g.ydec = 0 THEN [y |-> AtMost(y, uv), uv |-> AtMost(y, uv)] ELSE [y |-> y, uv |-> uv]
    BY DEF UnitSizes
  <1>6. ysize = 64 * M /\ uvsize = AtMost((64 \div 2^g.xdec) * A, (64 \div 2^g.ydec) * B)
    BY DEF tile_aligned_y_unit_size, tile_aligned_uv_unit_size
  <1> HIDE DEF ta, tb
  <1>7. M <= A /\ M <= B /\ (M = A \/ M = B)
    <2>1. CASE ta < tb
      <3>1. AtMost(ta, tb) = ta /\ A <= B
        <4>1. ta \in 0 .. 30 /\ tb \in 0 .. 30 /\ ta <= tb
          BY <1>4, <2>1
        <4>2. 2^ta <= 2^tb
          BY <4>1, PowMonotone
        <4> QED BY <2>1, <4>2 DEF AtMost
      <3> QED BY <1>2, <3>1
    <2>2. CASE ~(ta < tb)
      <3>1. AtMost(ta, tb) = tb /\ B <= A
        <4>1. ta \in 0 .. 30 /\ tb \in 0 .. 30 /\ tb <= ta
          BY <1>4, <2>2
        <4>2. 2^tb <= 2^ta
          BY <4>1, PowMonotone
        <4> QED BY <2>2, <4>2 DEF AtMost
      <3> QED BY <1>3, <3>1
    <2> QED BY <2>1, <2>2
  <1> HIDE DEF A, B, M
  <1>8. y0 \in {64, 128, 256} /\ (~large => y0 = 64)
    <2>1. 2^0 = 1 /\ 2^1 = 2 /\ 2^2 = 4
      OBVIOUS
    <2> DEFINE e == IF large THEN g.q ELSE 2
    <2>2. e \in {0, 1, 2} /\ (~large => e = 2)
      BY <1>1
    <2> HIDE DEF e
    <2>3. 256 \div 2^e \in {64, 128, 256} /\ (e = 2 => 256 \div 2^e = 64)
      <3>1. CASE e = 0
        BY <2>1, <3>1
      <3>2. CASE e = 1
        BY <2>1, <3>2
      <3>3. CASE e = 2
        BY <2>1, <3>3
      <3> QED BY <2>2, <3>1, <3>2, <3>3
    <2> QED BY <2>2, <2>3 DEF e
  <1> HIDE DEF y0
  <1>9. /\ uv0 \in {32, 64, 128, 256}
        /\ g.ydec = 0 => uv0 \in {64, 128, 256}
        /\ y0 <= 2 * uv0
        /\ ~g.restoration => y0 = 64 /\ (g.ydec = 1 => uv0 = 32)
    <2>1. lrf_chroma_shift(g) \in {0, 1} /\ (g.ydec = 0 => lrf_chroma_shift(g) = 0)
      BY DEF lrf_chroma_shift, stripe_uv_decimate
    <2>2. 2^0 = 1 /\ 2^1 = 2
      OBVIOUS
    <2>3. CASE large
      <3>1. uv0 = y0 \div 2^(lrf_chroma_shift(g))
        BY <2>3
      <3>2. CASE lrf_chroma_shift(g) = 0
        <4>1. uv0 = y0 \div 1
          BY <2>2, <3>1, <3>2
        <4> QED BY <1>8, <2>3, <4>1
      <3>3. CASE lrf_chroma_shift(g) = 1
        <4>1. uv0 = y0 \div 2 /\ g.ydec # 0
          BY <2>1, <2>2, <3>1, <3>3
        <4> QED BY <1>8, <2>3, <4>1
      <3> QED BY <2>1, <3>2, <3>3
    <2>4. CASE ~large
      BY <1>1, <1>8, <2>4 DEF stripe_uv_decimate
    <2> QED BY <2>3, <2>4
  <1> HIDE DEF uv0, large
  <1>10. /\ y \in {64, 128, 256}
         /\ tiled => y <= 64 * A /\ y <= 64 * B
    <2>1. 64 * M \in Nat /\ (64 * M \in {64, 128, 256} \/ 64 * M >= 512)
      BY <1>2, <1>3, <1>7
    <2>2. y = y0 \/ (y = 64 * M /\ 64 * M <= y0)
      BY <1>6, <1>8, <2>1 DEF AtMost
    <2>3. tiled => y <= 64 * M
      BY <1>6, <1>8, <2>1 DEF AtMost
    <2> HIDE DEF y, tiled
    <2>4. y \in {64, 128, 256}
      BY <1>8, <2>1, <2>2
    <2> QED BY <1>2, <1>3, <1>7, <2>3, <2>4
  <1> HIDE DEF y
  <1> DEFINE px == 64 \div 2^g.xdec
             py == 64 \div 2^g.ydec
  <1>11. /\ px \in {32, 64} /\ py \in {32, 64} /\ (g.xdec = 0 <=> px = 64) /\ (g.ydec = 0 <=> py = 64)
    <2>1. 2^0 = 1 /\ 2^1 = 2 /\ 64 \div 1 = 64 /\ 64 \div 2 = 32
      OBVIOUS
    <2>2. CASE g.xdec = 0
      <3>1. g.ydec = 0
        BY <1>1, <2>2
      <3> QED BY <2>1, <2>2, <3>1
    <2>3. CASE g.xdec = 1 /\ g.ydec = 0
      BY <2>1, <2>3
    <2>4. CASE g.xdec = 1 /\ g.ydec = 1
      BY <2>1, <2>4
    <2> QED BY <1>1, <2>2, <2>3, <2>4
  <1> HIDE DEF px, py
  <1>12. /\ uv \in {32, 64, 128, 256} /\ (g.ydec = 0 => uv \in {64, 128, 256})
         /\ tiled => uv <= px * A /\ uv <= py * B
    <2> DEFINE a == px * A
               b == py * B
               Sizes == {32, 64, 128, 256}
    <2>0. uvsize = AtMost(a, b)
      BY <1>6 DEF px, py
    <2>1. a \in Nat /\ (a \in Sizes \/ a >= 256) /\ (g.ydec = 0 => a >= 64)
      <3>1. CASE px = 32
        <4>1. g.ydec = 0 => A >= 2
          BY <1>1, <1>2, <1>11, <3>1 DEF is_422_p
        <4> QED BY <1>2, <3>1, <4>1
      <3>2. CASE px = 64
        BY <1>2, <3>2
      <3> QED BY <1>11, <3>1, <3>2
    <2>2. b \in Nat /\ (b \in Sizes \/ b >= 256) /\ (g.ydec = 0 => b >= 64)
      <3>1. CASE py = 32
        BY <1>3, <1>11, <3>1
      <3>2. CASE py = 64
        BY <1>3, <3>2
      <3> QED BY <1>11, <3>1, <3>2
    <2> HIDE DEF a, b
    <2>3. uv \in {uv0, a, b} /\ uv <= uv0 /\ (tiled => uv <= a /\ uv <= b)
      BY <1>9, <2>0, <2>1, <2>2 DEF AtMost
    <2> HIDE DEF uv, tiled
    <2>4. uv \in Sizes /\ (g.ydec = 0 => uv >= 64)
      BY <1>9, <2>1, <2>2, <2>3
    <2> QED BY <2>3, <2>4 DEF a, b
  <1> HIDE DEF uv, tiled
  <1>13. M \in Nat \ {0}
    BY <1>2, <1>3, <1>7
  <1>14. y <= 2 * uv \/ g.ydec = 0
    <2>1. CASE g.ydec = 1
      <3>1. px = 32 /\ py = 32
        BY <1>1, <1>11, <2>1
      <3>2. uvsize = AtMost(32 * A, 32 * B) /\ ysize = 64 * M
        BY <1>6, <3>1 DEF px, py
      <3>3. 64 * M <= 64 * A /\ 64 * M <= 64 * B
        BY <1>2, <1>3, <1>7, <1>13
      <3>4. ysize <= 2 * uvsize /\ ysize \in Nat /\ uvsize \in Nat
        BY <1>2, <1>3, <1>13, <3>2, <3>3 DEF AtMost
      <3> HIDE DEF ysize, uvsize
      <3> QED BY <1>8, <1>9, <3>4 DEF y, uv, AtMost
    <2> QED BY <1>1, <2>1
  <1>15. ~g.restoration => y = 64 /\ (g.ydec = 1 => uv = 32)
    <2> SUFFICES ASSUME ~g.restoration PROVE y = 64 /\ (g.ydec = 1 => uv = 32)
      OBVIOUS
    <2>1. y <= y0 /\ uv <= uv0 /\ y0 = 64 /\ (g.ydec = 1 => uv0 = 32)
      <3>1. y0 = 64 /\ (g.ydec = 1 => uv0 = 32)
        BY <1>9
      <3>2. ysize \in Nat /\ uvsize \in Nat
        <4>1. px * A \in Nat /\ py * B \in Nat
          BY <1>2, <1>3, <1>11
        <4>2. uvsize = AtMost(px * A, py * B)
          BY <1>6 DEF px, py
        <4> QED BY <1>6, <1>13, <4>1, <4>2 DEF AtMost
      <3> HIDE DEF ysize, uvsize
      <3> QED BY <1>8, <1>9, <3>1, <3>2 DEF y, uv, AtMost
    <2> QED BY <1>10, <1>12, <2>1
  <1> HIDE DEF y, uv, s
  <1>16. CASE g.ydec = 0
    <2> DEFINE z == AtMost(y, uv)
    <2>1. s.y = z /\ s.uv = z
      BY <1>5, <1>16
    <2>2. z \in {64, 128, 256} /\ z <= y /\ z <= uv
      BY <1>10, <1>12, <1>16 DEF AtMost
    <2>3. ~g.restoration => z = 64
      BY <1>10, <1>12, <1>15, <1>16 DEF AtMost
    <2> HIDE DEF z
    <2>4. tiled => z <= 64 * A /\ z <= 64 * B /\ z <= px * A /\ z <= py * B
      <3>1. px * A \in Nat /\ py * B \in Nat /\ 64 * A \in Nat /\ 64 * B \in Nat
        BY <1>2, <1>3, <1>11
      <3> QED BY <1>10, <1>12, <2>2, <3>1
    <2> QED BY <1>11, <1>16, <2>1, <2>2, <2>3, <2>4 DEF s, A, B, ta, tb, tw, th, px, py, tiled
  <1>17. CASE g.ydec # 0
    <2>1. s.y = y /\ s.uv = uv
      BY <1>5, <1>17
    <2> QED BY <1>10, <1>11, <1>12, <1>14, <1>15, <1>17, <2>1 DEF s, A, B, ta, tb, tw, th, px, py, tiled
  <1> QED BY <1>16, <1>17

\* The units are whole superblocks, and the tiles of a frame with several are
\* whole units.
LEMMA UnitFacts ==
  ASSUME NEW g \in Frames, NEW t,
         t.tile_width_sb \in Nat \ {0}, t.tile_height_sb \in Nat \ {0},
         is_422_p(g) => t.tile_width_sb % 2 = 0,
         NEW pli \in 0 .. 2
  PROVE  LET p == RestorationPlane(g, t, pli)
         IN /\ p.h_sbs \in UnitSbs /\ p.v_sbs \in UnitSbs
            /\ t.cols > 1 \/ t.rows > 1 =>
                 t.tile_width_sb % p.h_sbs = 0 /\ t.tile_height_sb % p.v_sbs = 0
            /\ p.cols \in Nat /\ p.rows \in Nat
PROOF
  <1> DEFINE tw == t.tile_width_sb
             th == t.tile_height_sb
             A == 2^(trailing_zeros(tw))
             B == 2^(trailing_zeros(th))
             px == 64 \div 2^g.xdec
             py == 64 \div 2^g.ydec
             tiled == t.cols > 1 \/ t.rows > 1
             s == UnitSizes(g, t)
  <1>1. /\ g.xdec \in {0, 1} /\ g.ydec \in {0, 1} /\ g.ydec <= g.xdec
        /\ g.width \in Nat \ {0} /\ g.height \in Nat \ {0}
    BY FrameFacts
  <1>2. A \in Nat \ {0} /\ \A d \in UnitSbs : d <= A => tw % d = 0
    BY TrailingZeros
  <1>3. B \in Nat \ {0} /\ \A d \in UnitSbs : d <= B => th % d = 0
    BY TrailingZeros
  <1>4. /\ s.y \in {64, 128, 256} /\ s.uv \in {32, 64, 128, 256}
        /\ (g.ydec = 0 => s.uv = s.y) /\ s.y <= 2 * s.uv
        /\ tiled => s.y <= 64 * A /\ s.y <= 64 * B /\ s.uv <= px * A /\ s.uv <= py * B
        /\ px \in {32, 64} /\ py \in {32, 64}
        /\ (g.xdec = 0 <=> px = 64) /\ (g.ydec = 0 <=> py = 64)
    BY SizeFacts
  <1> HIDE DEF A, B, px, py, tiled, s
  <1> DEFINE size == IF pli = 0 THEN s.y ELSE s.uv
             qx == 64 \div 2^(xdec(g, pli))
             qy == 64 \div 2^(ydec(g, pli))
             p == RestorationPlane(g, t, pli)
             h == size \div qx
             v == size \div qy
  <1>5. qx \in {32, 64} /\ qy \in {32, 64}
    <2>1. 2^0 = 1 /\ 64 \div 1 = 64
      OBVIOUS
    <2>2. CASE pli = 0
      BY <2>1, <2>2 DEF xdec, ydec
    <2>3. CASE pli # 0
      BY <1>4, <2>3 DEF xdec, ydec, px, py
    <2> QED BY <2>2, <2>3
  <1>6. /\ size \in {32, 64, 128, 256} /\ size >= qx /\ size >= qy
        /\ tiled => size <= qx * A /\ size <= qy * B
    <2>1. 2^0 = 1 /\ 64 \div 1 = 64
      OBVIOUS
    <2>2. CASE pli = 0
      <3>1. qx = 64 /\ qy = 64 /\ size = s.y
        BY <2>1, <2>2 DEF xdec, ydec
      <3> HIDE DEF size, qx, qy
      <3> QED BY <1>4, <3>1
    <2>3. CASE pli # 0
      <3>1. qx = px /\ qy = py /\ size = s.uv
        BY <2>3 DEF xdec, ydec, px, py
      <3>2. s.uv >= px /\ s.uv >= py
        <4>1. CASE g.ydec = 0
          BY <1>4, <4>1
        <4>2. CASE g.ydec # 0
          BY <1>1, <1>4, <4>2
        <4> QED BY <4>1, <4>2
      <3> HIDE DEF size, qx, qy
      <3> QED BY <1>4, <3>1, <3>2
    <2> QED BY <2>2, <2>3
  <1>7. /\ p.h_sbs = h /\ p.v_sbs = v
        /\ p.cols = Units(g.width, xdec(g, pli), size) /\ p.rows = Units(g.height, ydec(g, pli), size)
    BY DEF RestorationPlane, s
  <1>8. xdec(g, pli) \in {0, 1} /\ ydec(g, pli) \in {0, 1}
    BY <1>1 DEF xdec, ydec
  <1> HIDE DEF size, qx, qy, p
  <1>9. /\ h \in UnitSbs /\ (tiled => h <= A)
    <2>1. CASE qx = 32
      BY <1>2, <1>6, <2>1 DEF UnitSbs
    <2>2. CASE qx = 64
      BY <1>2, <1>6, <2>2 DEF UnitSbs
    <2> QED BY <1>5, <2>1, <2>2
  <1>10. /\ v \in UnitSbs /\ (tiled => v <= B)
    <2>1. CASE qy = 32
      BY <1>3, <1>6, <2>1 DEF UnitSbs
    <2>2. CASE qy = 64
      BY <1>3, <1>6, <2>2 DEF UnitSbs
    <2> QED BY <1>5, <2>1, <2>2
  <1>11. ASSUME NEW pixels \in Nat \ {0}, NEW dec \in {0, 1} PROVE Units(pixels, dec, size) \in Nat
    <2>1. 2^dec \in Nat \ {0}
      <3>1. dec \in 0 .. 30
        OBVIOUS
      <3> QED BY <3>1, PowTwo
    <2> DEFINE c == CeilDiv(pixels, 2^dec)
    <2>2. c \in Nat
      BY <2>1, CeilDivFacts
    <2> HIDE DEF c
    <2>3. (c + size \div 2) \div size \in Nat
      BY <1>6, <2>2
    <2>4. Units(pixels, dec, size) = AtLeast((c + size \div 2) \div size, 1)
      BY DEF Units, c
    <2> DEFINE z == (c + size \div 2) \div size
    <2> HIDE DEF z
    <2>5. AtLeast(z, 1) \in Nat
      BY <2>3 DEF AtLeast, z
    <2> QED BY <2>4, <2>5 DEF z
  <1>12. p.cols \in Nat /\ p.rows \in Nat
    BY <1>1, <1>7, <1>8, <1>11
  <1> HIDE DEF h, v
  <1>13. tiled => tw % h = 0 /\ th % v = 0
    BY <1>2, <1>3, <1>9, <1>10
  <1> QED BY <1>7, <1>9, <1>10, <1>12, <1>13 DEF p, tiled

-----------------------------------------------------------------------------
(* The tile *)

PlanesOf(g) == IF g.mono THEN {0} ELSE {0, 1, 2}

\* The tile is in the frame; along each side it is whole units or ends with
\* the frame, and has no unit that does not begin in it.
Geometry(g, t) ==
  /\ t.x \in Nat /\ t.y \in Nat /\ t.w \in Nat \ {0} /\ t.h \in Nat \ {0}
  /\ t.x + t.w <= Across(g) /\ t.y + t.h <= Down(g)
  /\ \A pli \in PlanesOf(g) :
       /\ t.rp[pli].h_sbs \in UnitSbs /\ t.rp[pli].v_sbs \in UnitSbs
       /\ t.w % t.rp[pli].h_sbs = 0 \/ t.x + t.w = Across(g)
       /\ t.h % t.rp[pli].v_sbs = 0 \/ t.y + t.h = Down(g)
       /\ t.units[pli].cols \in Nat /\ t.units[pli].rows \in Nat
       /\ (t.units[pli].cols - 1) * t.rp[pli].h_sbs < t.w
       /\ (t.units[pli].rows - 1) * t.rp[pli].v_sbs < t.h

\* The units of a tile along a side: at most those that begin in it.
LEMMA UnitsInTile ==
  ASSUME NEW w \in Nat \ {0}, NEW h \in UnitSbs, NEW x \in Nat, NEW cols \in Nat
  PROVE  LET c == AtMost(CeilDiv(w, h), cols - AtMost(x \div h, cols))
         IN c \in Nat /\ (c - 1) * h < w
PROOF
  <1> DEFINE n == CeilDiv(w, h)
             m == cols - AtMost(x \div h, cols)
             c == AtMost(n, m)
  <1>1. h \in Nat \ {0}
    BY DEF UnitSbs
  <1>2. n \in Nat /\ (n - 1) * h < w
    BY <1>1, CeilDivFacts
  <1>3. m \in Nat
    <2>1. x \div h \in Nat
      BY <1>1
    <2> QED BY <2>1 DEF AtMost
  <1> HIDE DEF n, m
  <1>4. c \in Nat /\ c <= n
    BY <1>2, <1>3 DEF AtMost
  <1> HIDE DEF c
  <1>5. (c - 1) * h <= (n - 1) * h
    BY <1>2, <1>4 DEF UnitSbs
  <1>6. (c - 1) * h \in Int /\ (n - 1) * h \in Int
    BY <1>1, <1>2, <1>4
  <1>7. (c - 1) * h < w
    BY <1>2, <1>5, <1>6
  <1> QED BY <1>4, <1>7 DEF c, n, m

\* TileState has this geometry.
LEMMA TileGeometry ==
  ASSUME f \in Frames, NEW c \in Nat, NEW r \in Nat, NEW t, t = from_target_tiles(f, c, r),
         NEW n \in Nat, n < t.cols * t.rows
  PROVE  Geometry(f, TileState(t, n))
PROOF
  <1> DEFINE tw == t.tile_width_sb
             th == t.tile_height_sb
             i == n % t.cols
             j == n \div t.cols
             rect == TileRect(f, t, n)
             s == TileState(t, n)
  <1>1. /\ tw \in Nat \ {0} /\ th \in Nat \ {0} /\ t.cols = CeilDiv(Across(f), tw)
        /\ t.rows = CeilDiv(Down(f), th) /\ (is_422_p(f) => tw % 2 = 0)
    BY TilesOf
  <1>2. Across(f) \in Nat \ {0} /\ Down(f) \in Nat \ {0}
    BY FrameFacts
  <1>3. t.cols \in Nat \ {0} /\ t.rows \in Nat \ {0}
    BY <1>1, <1>2, CeilDivFacts
  <1>4. i \in 0 .. t.cols - 1 /\ j \in 0 .. t.rows - 1
    <2> DEFINE a == t.cols
               b == t.rows
    <2>1. a \in Nat \ {0} /\ b \in Nat \ {0} /\ n < a * b
      BY <1>3
    <2> HIDE DEF a, b
    <2>2. n % a \in 0 .. a - 1
      BY <2>1
    <2> DEFINE q == n \div a
    <2>3. q \in Nat /\ n >= a * q
      BY <2>1
    <2> HIDE DEF q
    <2>4. q < b
      <3> SUFFICES ASSUME q >= b PROVE FALSE
        BY <2>1, <2>3
      <3>1. a * q >= a * b
        BY <2>1, <2>3
      <3>2. a * q \in Nat /\ a * b \in Nat
        BY <2>1, <2>3
      <3> QED BY <2>1, <2>3, <3>1, <3>2
    <2>5. q \in 0 .. b - 1
      BY <2>1, <2>3, <2>4
    <2> QED BY <2>2, <2>5 DEF q, a, b
  <1>5. rect = [x |-> i * tw, y |-> j * th, w |-> AtMost(tw, Across(f) - i * tw),
                h |-> AtMost(th, Down(f) - j * th)]
    BY DEF TileRect, Across, Down
  <1> HIDE DEF i, j, rect
  <1>6. /\ rect.x \in Nat /\ rect.w \in Nat \ {0} /\ rect.x + rect.w <= Across(f)
        /\ rect.x + rect.w = Across(f) \/ (rect.w = tw /\ t.cols > 1)
    <2> HIDE DEF tw
    <2>1. i \in 0 .. CeilDiv(Across(f), tw) - 1
      BY <1>1, <1>4
    <2>2. rect.x = i * tw /\ rect.w = AtMost(tw, Across(f) - i * tw)
      BY <1>5
    <2> QED BY <1>1, <1>2, <2>1, <2>2, SideFacts
  <1>7. /\ rect.y \in Nat /\ rect.h \in Nat \ {0} /\ rect.y + rect.h <= Down(f)
        /\ rect.y + rect.h = Down(f) \/ (rect.h = th /\ t.rows > 1)
    <2> HIDE DEF th
    <2>1. j \in 0 .. CeilDiv(Down(f), th) - 1
      BY <1>1, <1>4
    <2>2. rect.y = j * th /\ rect.h = AtMost(th, Down(f) - j * th)
      BY <1>5
    <2> QED BY <1>1, <1>2, <2>1, <2>2, SideFacts
  <1>8. /\ s.x = rect.x /\ s.y = rect.y /\ s.w = rect.w /\ s.h = rect.h
        /\ \A pli \in Planes : /\ s.rp[pli] = RestorationPlane(f, t, pli)
                               /\ s.units[pli] = get_units_region(RestorationPlane(f, t, pli), rect)
    BY DEF TileState, rect
  <1>9. PlanesOf(f) = Planes /\ Planes \subseteq 0 .. 2
    BY DEF PlanesOf, Planes
  <1> HIDE DEF s
  <1>10. ASSUME NEW pli \in Planes
         PROVE  /\ s.rp[pli].h_sbs \in UnitSbs /\ s.rp[pli].v_sbs \in UnitSbs
                /\ s.w % s.rp[pli].h_sbs = 0 \/ s.x + s.w = Across(f)
                /\ s.h % s.rp[pli].v_sbs = 0 \/ s.y + s.h = Down(f)
                /\ s.units[pli].cols \in Nat /\ s.units[pli].rows \in Nat
                /\ (s.units[pli].cols - 1) * s.rp[pli].h_sbs < s.w
                /\ (s.units[pli].rows - 1) * s.rp[pli].v_sbs < s.h
    <2> DEFINE p == RestorationPlane(f, t, pli)
               u == get_units_region(p, rect)
    <2>1. pli \in 0 .. 2
      BY <1>9
    <2>2. /\ p.h_sbs \in UnitSbs /\ p.v_sbs \in UnitSbs
          /\ t.cols > 1 \/ t.rows > 1 => tw % p.h_sbs = 0 /\ th % p.v_sbs = 0
          /\ p.cols \in Nat /\ p.rows \in Nat
      BY <1>1, <2>1, UnitFacts
    <2> HIDE DEF p
    <2>3. /\ u.cols = AtMost(CeilDiv(rect.w, p.h_sbs), p.cols - AtMost(rect.x \div p.h_sbs, p.cols))
          /\ u.rows = AtMost(CeilDiv(rect.h, p.v_sbs), p.rows - AtMost(rect.y \div p.v_sbs, p.rows))
      BY DEF get_units_region
    <2>4. u.cols \in Nat /\ (u.cols - 1) * p.h_sbs < rect.w
      <3> DEFINE m == AtMost(CeilDiv(rect.w, p.h_sbs), p.cols - AtMost(rect.x \div p.h_sbs, p.cols))
      <3>1. rect.w \in Nat \ {0} /\ rect.x \in Nat
        BY <1>6
      <3>2. m \in Nat /\ (m - 1) * p.h_sbs < rect.w
        BY <2>2, <3>1, UnitsInTile
      <3> HIDE DEF m, u
      <3>3. u.cols = m
        BY <2>3 DEF m
      <3> QED BY <3>2, <3>3
    <2>5. u.rows \in Nat /\ (u.rows - 1) * p.v_sbs < rect.h
      <3> DEFINE m == AtMost(CeilDiv(rect.h, p.v_sbs), p.rows - AtMost(rect.y \div p.v_sbs, p.rows))
      <3>1. rect.h \in Nat \ {0} /\ rect.y \in Nat
        BY <1>7
      <3>2. m \in Nat /\ (m - 1) * p.v_sbs < rect.h
        BY <2>2, <3>1, UnitsInTile
      <3> HIDE DEF m, u
      <3>3. u.rows = m
        BY <2>3 DEF m
      <3> QED BY <3>2, <3>3
    <2>6. s.rp[pli] = p /\ s.units[pli] = u
      BY <1>8 DEF p
    <2> HIDE DEF u
    <2>7. rect.w % p.h_sbs = 0 \/ rect.x + rect.w = Across(f)
      BY <1>6, <2>2
    <2>8. rect.h % p.v_sbs = 0 \/ rect.y + rect.h = Down(f)
      BY <1>7, <2>2
    <2> QED BY <1>8, <2>2, <2>4, <2>5, <2>6, <2>7, <2>8
  <1>11. Geometry(f, s)
    BY <1>6, <1>7, <1>8, <1>9, <1>10 DEF Geometry
  <1> QED BY <1>11 DEF s

-----------------------------------------------------------------------------
(* The units of a tile, in the order of its superblocks *)

\* HasUnit, lru_index and restoration_unit_last_sb_for_rdo of a tile t.
HasUnitIn(t, pli, x, y) ==
  /\ x \div t.rp[pli].h_sbs < t.units[pli].cols
  /\ y \div t.rp[pli].v_sbs < t.units[pli].rows
LruIn(t, pli, x, y) ==
  IF HasUnitIn(t, pli, x, y)
  THEN (y \div t.rp[pli].v_sbs) * t.units[pli].cols + x \div t.rp[pli].h_sbs
  ELSE -1
EndsUnit(g, t, pli, x, y) ==
  /\ \/ x % t.rp[pli].h_sbs = t.rp[pli].h_sbs - 1 /\ x \div t.rp[pli].h_sbs < t.units[pli].cols
     \/ t.x + x = Across(g) - 1
  /\ \/ y % t.rp[pli].v_sbs = t.rp[pli].v_sbs - 1 /\ y \div t.rp[pli].v_sbs < t.units[pli].rows
     \/ t.y + y = Down(g) - 1

\* The superblock makes its unit of the plane ready.
MakesReady(g, t, pli, x, y) == LruIn(t, pli, x, y) # -1 /\ EndsUnit(g, t, pli, x, y)

\* The last unit of the tile, -1 if it has none.
LastUnit(t, pli) == t.units[pli].cols * t.units[pli].rows - 1

\* These are the definitions of the model.
LEMMA SameUnits ==
  ASSUME NEW pli, NEW x, NEW y
  PROVE  /\ lru_index(pli, x, y) = LruIn(ts, pli, x, y)
         /\ restoration_unit_last_sb_for_rdo(pli, x, y) <=> EndsUnit(f, ts, pli, x, y)
PROOF
  BY DEF lru_index, restoration_unit_last_sb_for_rdo, HasUnit, rp, units,
         LruIn, HasUnitIn, EndsUnit, Across, Down

\* Division by the size of a unit.
LEMMA SbsDiv ==
  ASSUME NEW d \in UnitSbs, NEW x \in Nat
  PROVE  /\ x \div d \in Nat /\ d \in Nat \ {0}
         /\ \A c \in Nat : (x \div d < c) => x < c * d
         /\ \A c \in Nat : x < c * d => x \div d < c
         /\ \A z \in Nat : z <= x => z \div d <= x \div d
         /\ \A z \in Nat : z < x /\ z % d = d - 1 => z \div d < x \div d
PROOF
  <1>1. CASE d = 1
    BY <1>1
  <1>2. CASE d = 2
    BY <1>2
  <1>3. CASE d = 4
    BY <1>3
  <1>4. CASE d = 8
    BY <1>4
  <1> QED BY <1>1, <1>2, <1>3, <1>4 DEF UnitSbs

\* Numbers of units are in range.
LEMMA LruRange ==
  ASSUME NEW g, NEW t, Geometry(g, t), NEW pli \in PlanesOf(g), NEW x \in Nat, NEW y \in Nat
  PROVE  /\ LruIn(t, pli, x, y) \in Int /\ LruIn(t, pli, x, y) <= LastUnit(t, pli)
         /\ LruIn(t, pli, x, y) >= -1 /\ LastUnit(t, pli) \in Int /\ LastUnit(t, pli) >= -1
         /\ LruIn(t, pli, x, y) # -1 <=> HasUnitIn(t, pli, x, y)
PROOF
  <1> DEFINE h == t.rp[pli].h_sbs
             v == t.rp[pli].v_sbs
             cols == t.units[pli].cols
             rows == t.units[pli].rows
             c == x \div h
             r == y \div v
  <1>1. h \in UnitSbs /\ v \in UnitSbs /\ cols \in Nat /\ rows \in Nat
    BY DEF Geometry
  <1>2. c \in Nat /\ r \in Nat
    <2> HIDE DEF h, v
    <2> QED BY <1>1, SbsDiv
  <1>3. /\ HasUnitIn(t, pli, x, y) <=> c < cols /\ r < rows
        /\ LruIn(t, pli, x, y) = IF c < cols /\ r < rows THEN r * cols + c ELSE -1
        /\ LastUnit(t, pli) = cols * rows - 1
    BY DEF HasUnitIn, LruIn, LastUnit
  <1> HIDE DEF h, v, cols, rows, c, r
  <1>4. cols * rows \in Nat
    BY <1>1
  <1>5. CASE c < cols /\ r < rows
    <2>1. r * cols \in Nat
      BY <1>1, <1>2
    <2>2. r * cols + c <= cols * rows - 1
      <3> DEFINE e == rows - 1 - r
      <3>1. e \in Nat /\ rows = r + 1 + e
        BY <1>1, <1>2, <1>5
      <3> HIDE DEF e
      <3>2. cols * rows = r * cols + cols + e * cols /\ e * cols \in Nat
        BY <1>1, <1>2, <3>1
      <3> QED BY <1>1, <1>2, <1>5, <2>1, <3>2
    <2> DEFINE z == r * cols + c
    <2>3. z \in Nat /\ LruIn(t, pli, x, y) = z /\ z <= cols * rows - 1
      BY <1>2, <1>3, <1>5, <2>1, <2>2
    <2> HIDE DEF z
    <2> QED BY <1>3, <1>4, <1>5, <2>3
  <1>6. CASE ~(c < cols /\ r < rows)
    BY <1>3, <1>4, <1>6
  <1> QED BY <1>5, <1>6

\* Units become ready in the order of their numbers.
LEMMA ReadyInOrder ==
  ASSUME NEW g, NEW t, Geometry(g, t), NEW pli \in PlanesOf(g), Down(g) \in Nat,
         NEW x1 \in Nat, NEW y1 \in Nat, NEW x2 \in Nat, NEW y2 \in Nat, y2 < t.h,
         MakesReady(g, t, pli, x1, y1), MakesReady(g, t, pli, x2, y2),
         y1 < y2 \/ (y1 = y2 /\ x1 <= x2)
  PROVE  LruIn(t, pli, x1, y1) <= LruIn(t, pli, x2, y2)
PROOF
  <1> DEFINE h == t.rp[pli].h_sbs
             v == t.rp[pli].v_sbs
             cols == t.units[pli].cols
             c1 == x1 \div h
             r1 == y1 \div v
             c2 == x2 \div h
             r2 == y2 \div v
  <1>1. /\ h \in UnitSbs /\ v \in UnitSbs /\ cols \in Nat
        /\ t.y \in Nat /\ t.h \in Nat /\ t.y + t.h <= Down(g)
    BY DEF Geometry
  <1>2. HasUnitIn(t, pli, x1, y1) /\ HasUnitIn(t, pli, x2, y2)
    BY LruRange DEF MakesReady
  <1>3. /\ LruIn(t, pli, x1, y1) = r1 * cols + c1 /\ c1 < cols
        /\ LruIn(t, pli, x2, y2) = r2 * cols + c2 /\ c2 < cols
    BY <1>2 DEF LruIn, HasUnitIn
  <1>4. c1 \in Nat /\ r1 \in Nat /\ c2 \in Nat /\ r2 \in Nat
    <2> HIDE DEF h, v
    <2> QED BY <1>1, SbsDiv
  <1>5. CASE y1 < y2
    <2>1. y1 % v = v - 1
      <3>1. t.y + y1 # Down(g) - 1
        BY <1>1, <1>5
      <3> QED BY <3>1 DEF MakesReady, EndsUnit
    <2>2. r1 < r2
      <3> HIDE DEF v
      <3> QED BY <1>1, <1>5, <2>1, SbsDiv
    <2> HIDE DEF r1, r2, c1, c2, cols
    <2> DEFINE e == r2 - r1 - 1
    <2>3. e \in Nat /\ r2 = r1 + 1 + e
      BY <1>4, <2>2
    <2> HIDE DEF e
    <2>4. r2 * cols = r1 * cols + cols + e * cols /\ e * cols \in Nat /\ r1 * cols \in Nat
      BY <1>1, <1>4, <2>3
    <2> QED BY <1>1, <1>3, <1>4, <2>4
  <1>6. CASE y1 = y2 /\ x1 <= x2
    <2>1. r1 = r2
      BY <1>6
    <2>2. c1 <= c2
      <3> HIDE DEF h
      <3> QED BY <1>1, <1>6, SbsDiv
    <2> HIDE DEF r1, r2, c1, c2, cols
    <2>3. r2 * cols \in Nat
      BY <1>1, <1>4
    <2> QED BY <1>3, <1>4, <2>1, <2>2, <2>3
  <1> QED BY <1>5, <1>6

\* Along one side: the last superblock of the last unit.
LEMMA LastAlong ==
  ASSUME NEW d \in UnitSbs, NEW cols \in Nat \ {0}, NEW w \in Nat \ {0}, (cols - 1) * d < w
  PROVE  \E x \in 0 .. w - 1 : /\ x \div d = cols - 1
                               /\ x % d = d - 1 \/ (x = w - 1 /\ w % d # 0)
PROOF
  <1>1. d = 1 \/ d = 2 \/ d = 4 \/ d = 8
    BY DEF UnitSbs
  <1>2. CASE cols * d <= w
    <2> DEFINE x == cols * d - 1
    <2>1. x \in 0 .. w - 1 /\ x \div d = cols - 1 /\ x % d = d - 1
      <3>1. CASE d = 1
        BY <1>2, <3>1
      <3>2. CASE d = 2
        BY <1>2, <3>2
      <3>3. CASE d = 4
        BY <1>2, <3>3
      <3>4. CASE d = 8
        BY <1>2, <3>4
      <3> QED BY <1>1, <3>1, <3>2, <3>3, <3>4
    <2> HIDE DEF x
    <2> QED BY <2>1
  <1>3. CASE cols * d > w
    <2> DEFINE x == w - 1
    <2>1. x \in 0 .. w - 1 /\ x \div d = cols - 1 /\ w % d # 0
      <3>1. CASE d = 1
        BY <1>3, <3>1
      <3>2. CASE d = 2
        BY <1>3, <3>2
      <3>3. CASE d = 4
        BY <1>3, <3>3
      <3>4. CASE d = 8
        BY <1>3, <3>4
      <3> QED BY <1>1, <3>1, <3>2, <3>3, <3>4
    <2>2. x = w - 1
      OBVIOUS
    <2> HIDE DEF x
    <2> QED BY <2>1, <2>2
  <1>4. cols * d \in Nat
    <2>1. d \in Nat
      BY <1>1
    <2> QED BY <2>1
  <1> QED BY <1>2, <1>3, <1>4

\* Some superblock of the tile makes the last unit ready.
LEMMA LastUnitEnds ==
  ASSUME NEW g, NEW t, Geometry(g, t), NEW pli \in PlanesOf(g), LastUnit(t, pli) # -1,
         Across(g) \in Nat, Down(g) \in Nat
  PROVE  \E x \in 0 .. t.w - 1, y \in 0 .. t.h - 1 :
           MakesReady(g, t, pli, x, y) /\ LruIn(t, pli, x, y) = LastUnit(t, pli)
PROOF
  <1> DEFINE h == t.rp[pli].h_sbs
             v == t.rp[pli].v_sbs
             cols == t.units[pli].cols
             rows == t.units[pli].rows
  <1>1. /\ h \in UnitSbs /\ v \in UnitSbs /\ cols \in Nat /\ rows \in Nat
        /\ t.w \in Nat \ {0} /\ t.h \in Nat \ {0} /\ t.x \in Nat /\ t.y \in Nat
        /\ (cols - 1) * h < t.w /\ (rows - 1) * v < t.h
        /\ t.w % h = 0 \/ t.x + t.w = Across(g)
        /\ t.h % v = 0 \/ t.y + t.h = Down(g)
    BY DEF Geometry
  <1>2. LastUnit(t, pli) = cols * rows - 1
    BY DEF LastUnit
  <1>3. cols # 0 /\ rows # 0
    <2> HIDE DEF cols, rows
    <2> QED BY <1>1, <1>2
  <1>4. PICK x \in 0 .. t.w - 1 : x \div h = cols - 1 /\ (x % h = h - 1 \/ (x = t.w - 1 /\ t.w % h # 0))
    <2> HIDE DEF h, cols
    <2> QED BY <1>1, <1>3, LastAlong
  <1>5. PICK y \in 0 .. t.h - 1 : y \div v = rows - 1 /\ (y % v = v - 1 \/ (y = t.h - 1 /\ t.h % v # 0))
    <2> HIDE DEF v, rows
    <2> QED BY <1>1, <1>3, LastAlong
  <1>6. /\ x \div h < cols /\ y \div v < rows
        /\ x % h = h - 1 \/ t.x + x = Across(g) - 1
        /\ y % v = v - 1 \/ t.y + y = Down(g) - 1
    <2> HIDE DEF h, v, cols, rows
    <2>1. x \div h < cols /\ y \div v < rows
      BY <1>1, <1>4, <1>5
    <2>2. x = t.w - 1 /\ t.w % h # 0 => t.x + x = Across(g) - 1
      BY <1>1
    <2>3. y = t.h - 1 /\ t.h % v # 0 => t.y + y = Down(g) - 1
      BY <1>1
    <2> QED BY <1>4, <1>5, <2>1, <2>2, <2>3
  <1>7. EndsUnit(g, t, pli, x, y) /\ HasUnitIn(t, pli, x, y)
    BY <1>6 DEF EndsUnit, HasUnitIn
  <1>8. LruIn(t, pli, x, y) = (rows - 1) * cols + (cols - 1)
    BY <1>4, <1>5, <1>7 DEF LruIn
  <1>9. (rows - 1) * cols + (cols - 1) = cols * rows - 1
    <2> HIDE DEF cols, rows
    <2> QED BY <1>1
  <1>10. LruIn(t, pli, x, y) = LastUnit(t, pli)
    BY <1>2, <1>8, <1>9
  <1> QED BY <1>7, <1>10 DEF MakesReady

\* The last superblock of the tile completes its unit, if it has one.
LEMMA CornerEnds ==
  ASSUME NEW g, NEW t, Geometry(g, t), NEW pli \in PlanesOf(g), Across(g) \in Nat, Down(g) \in Nat,
         LruIn(t, pli, t.w - 1, t.h - 1) # -1
  PROVE  EndsUnit(g, t, pli, t.w - 1, t.h - 1)
PROOF
  <1> DEFINE h == t.rp[pli].h_sbs
             v == t.rp[pli].v_sbs
  <1>1. /\ h \in UnitSbs /\ v \in UnitSbs
        /\ t.w \in Nat \ {0} /\ t.h \in Nat \ {0} /\ t.x \in Nat /\ t.y \in Nat
        /\ t.w % h = 0 \/ t.x + t.w = Across(g)
        /\ t.h % v = 0 \/ t.y + t.h = Down(g)
    BY DEF Geometry
  <1>2. HasUnitIn(t, pli, t.w - 1, t.h - 1)
    BY DEF LruIn
  <1>3. ASSUME NEW n \in Nat \ {0}, NEW d \in UnitSbs, n % d = 0 PROVE (n - 1) % d = d - 1
    <2>1. CASE d = 1
      BY <1>3, <2>1
    <2>2. CASE d = 2
      BY <1>3, <2>2
    <2>3. CASE d = 4
      BY <1>3, <2>3
    <2>4. CASE d = 8
      BY <1>3, <2>4
    <2> QED BY <2>1, <2>2, <2>3, <2>4 DEF UnitSbs
  <1>4. (t.w - 1) % h = h - 1 \/ t.x + (t.w - 1) = Across(g) - 1
    <2> HIDE DEF h
    <2>1. CASE t.w % h = 0
      BY <1>1, <1>3, <2>1
    <2>2. CASE t.x + t.w = Across(g)
      BY <1>1, <2>2
    <2> QED BY <1>1, <2>1, <2>2
  <1>5. (t.h - 1) % v = v - 1 \/ t.y + (t.h - 1) = Down(g) - 1
    <2> HIDE DEF v
    <2>1. CASE t.h % v = 0
      BY <1>1, <1>3, <2>1
    <2>2. CASE t.y + t.h = Down(g)
      BY <1>1, <2>2
    <2> QED BY <1>1, <2>1, <2>2
  <1> QED BY <1>2, <1>4, <1>5 DEF EndsUnit, HasUnitIn

\* The units that encoded superblocks completed are ready.
ReadyInv(g, t, ready, n) ==
  \A pli \in PlanesOf(g) :
    /\ ready[pli] \in Int /\ ready[pli] >= -1
    /\ \A x \in 0 .. t.w - 1, y \in 0 .. t.h - 1 :
         y * t.w + x < n /\ MakesReady(g, t, pli, x, y) => LruIn(t, pli, x, y) <= ready[pli]

\* The superblocks of a tile in raster order.
LEMMA RasterFacts ==
  ASSUME NEW w \in Nat \ {0}, NEW h \in Nat \ {0}, NEW n \in Nat, n < w * h
  PROVE  /\ n % w \in 0 .. w - 1 /\ n \div w \in 0 .. h - 1
         /\ (n \div w) * w + (n % w) = n
         /\ \A x \in 0 .. w - 1, y \in 0 .. h - 1 :
              y * w + x < n + 1 => y < n \div w \/ (y = n \div w /\ x <= n % w)
         /\ n + 1 = w * h => n % w = w - 1 /\ n \div w = h - 1
PROOF
  <1> DEFINE a == n % w
             b == n \div w
             p == b * w
  <1>1. a \in 0 .. w - 1 /\ b \in Nat /\ n = w * b + a
    OBVIOUS
  <1> HIDE DEF a, b
  <1>2. p \in Nat /\ n = p + a
    BY <1>1
  <1>3. b <= h - 1
    <2> SUFFICES ASSUME b >= h PROVE FALSE
      BY <1>1
    <2>1. b * w >= w * h
      BY <1>1
    <2>2. w * h \in Nat
      OBVIOUS
    <2> HIDE DEF p
    <2> QED BY <1>1, <1>2, <2>1, <2>2 DEF p
  <1>4. ASSUME NEW x \in 0 .. w - 1, NEW y \in 0 .. h - 1, y * w + x < n + 1
        PROVE  y < b \/ (y = b /\ x <= a)
    <2>1. CASE y > b
      <3> DEFINE e == y - b - 1
      <3>1. e \in Nat /\ y = b + 1 + e
        BY <1>1, <2>1
      <3> HIDE DEF e
      <3>2. y * w = p + w + e * w /\ e * w \in Nat
        BY <1>1, <3>1
      <3> HIDE DEF p
      <3> QED BY <1>1, <1>2, <1>4, <3>2
    <2>2. CASE y = b
      <3>1. y * w = p
        BY <2>2
      <3> HIDE DEF p
      <3> QED BY <1>1, <1>2, <1>4, <2>2, <3>1
    <2> QED BY <1>1, <2>1, <2>2
  <1>5. n + 1 = w * h => a = w - 1 /\ b = h - 1
    <2> SUFFICES ASSUME n + 1 = w * h PROVE a = w - 1 /\ b = h - 1
      OBVIOUS
    <2> DEFINE e == h - 1 - b
    <2>1. e \in Nat /\ h = b + 1 + e
      BY <1>1, <1>3
    <2> HIDE DEF e
    <2>2. w * h = p + w + e * w /\ e * w \in Nat
      BY <1>1, <2>1
    <2>3. a + 1 = w + e * w
      <3> HIDE DEF p
      <3> QED BY <1>1, <1>2, <2>2
    <2>4. e * w = 0 /\ a = w - 1
      <3> DEFINE z == e * w
      <3> HIDE DEF z
      <3>1. z \in Nat /\ a + 1 = w + z
        BY <2>2, <2>3 DEF z
      <3>2. z = 0 /\ a = w - 1
        BY <1>1, <3>1
      <3> QED BY <3>2 DEF z
    <2>5. e = 0
      BY <2>1, <2>4
    <2> QED BY <1>1, <2>1, <2>4, <2>5
  <1>6. a \in 0 .. w - 1 /\ b \in 0 .. h - 1 /\ b * w + a = n
    BY <1>1, <1>2, <1>3
  <1> HIDE DEF p
  <1> QED BY <1>4, <1>5, <1>6 DEF a, b

\* A superblock is encoded: ReadyInv holds with what it completes.
LEMMA ReadyStep ==
  ASSUME NEW g, NEW t, Geometry(g, t), Down(g) \in Nat, NEW ready, NEW n \in Nat, n < t.w * t.h,
         ReadyInv(g, t, ready, n), NEW after,
         \A pli \in PlanesOf(g) :
           after[pli] = IF MakesReady(g, t, pli, n % t.w, n \div t.w)
                        THEN LruIn(t, pli, n % t.w, n \div t.w) ELSE ready[pli]
  PROVE  ReadyInv(g, t, after, n + 1)
PROOF
  <1> DEFINE x0 == n % t.w
             y0 == n \div t.w
  <1>1. t.w \in Nat \ {0} /\ t.h \in Nat \ {0}
    BY DEF Geometry
  <1>2. /\ x0 \in 0 .. t.w - 1 /\ y0 \in 0 .. t.h - 1 /\ y0 * t.w + x0 = n
        /\ \A x \in 0 .. t.w - 1, y \in 0 .. t.h - 1 :
              y * t.w + x < n + 1 => y < y0 \/ (y = y0 /\ x <= x0)
    BY <1>1, RasterFacts, ZenonT(60)
  <1> SUFFICES ASSUME NEW pli \in PlanesOf(g)
               PROVE  /\ after[pli] \in Int /\ after[pli] >= -1
                      /\ \A x \in 0 .. t.w - 1, y \in 0 .. t.h - 1 :
                           y * t.w + x < n + 1 /\ MakesReady(g, t, pli, x, y)
                             => LruIn(t, pli, x, y) <= after[pli]
    BY DEF ReadyInv
  <1> HIDE DEF x0, y0
  <1>3. after[pli] = IF MakesReady(g, t, pli, x0, y0) THEN LruIn(t, pli, x0, y0) ELSE ready[pli]
    BY DEF x0, y0
  <1>4. x0 \in Nat /\ y0 \in Nat /\ y0 < t.h
    BY <1>1, <1>2
  <1>5. CASE MakesReady(g, t, pli, x0, y0)
    <2>1. after[pli] \in Int /\ after[pli] >= -1
      BY <1>3, <1>4, <1>5, LruRange
    <2>2. ASSUME NEW x \in 0 .. t.w - 1, NEW y \in 0 .. t.h - 1, y * t.w + x < n + 1,
                 MakesReady(g, t, pli, x, y)
          PROVE  LruIn(t, pli, x, y) <= after[pli]
      <3>1. y < y0 \/ (y = y0 /\ x <= x0)
        BY <1>2, <2>2
      <3>2. x \in Nat /\ y \in Nat
        BY <1>1
      <3>3. LruIn(t, pli, x, y) <= LruIn(t, pli, x0, y0)
        BY <1>4, <1>5, <2>2, <3>1, <3>2, ReadyInOrder
      <3> QED BY <1>3, <1>5, <3>3
    <2> QED BY <2>1, <2>2
  <1>6. CASE ~MakesReady(g, t, pli, x0, y0)
    <2>1. after[pli] = ready[pli]
      BY <1>3, <1>6
    <2>2. after[pli] \in Int /\ after[pli] >= -1
      BY <2>1 DEF ReadyInv
    <2>3. ASSUME NEW x \in 0 .. t.w - 1, NEW y \in 0 .. t.h - 1, y * t.w + x < n + 1,
                 MakesReady(g, t, pli, x, y)
          PROVE  LruIn(t, pli, x, y) <= after[pli]
      <3> DEFINE z == y * t.w
      <3>1. z \in Int
        BY <1>1
      <3>2. z + x # n
        <4> SUFFICES ASSUME z + x = n PROVE FALSE
          OBVIOUS
        <4>1. y < y0 \/ (y = y0 /\ x <= x0)
          BY <1>2, <2>3
        <4>2. ~(y = y0 /\ x = x0)
          BY <1>6, <2>3
        <4>3. CASE y < y0
          <5> DEFINE e == y0 - y - 1
          <5>1. e \in Nat /\ y0 = y + 1 + e
            BY <1>4, <4>3
          <5> HIDE DEF e
          <5>2. y0 * t.w = z + t.w + e * t.w /\ e * t.w \in Nat
            BY <1>1, <5>1
          <5> HIDE DEF z
          <5>3. y0 * t.w + x0 > z + x
            BY <1>1, <1>2, <3>1, <5>2
          <5> QED BY <1>2, <1>4, <5>3
        <4>4. CASE y = y0 /\ x < x0
          <5>1. y0 * t.w = z
            BY <4>4
          <5> HIDE DEF z
          <5> QED BY <1>2, <1>4, <3>1, <4>4, <5>1
        <4> QED BY <1>4, <4>1, <4>2, <4>3, <4>4
      <3>3. z + x < n
        <4> HIDE DEF z
        <4>1. z + x < n + 1
          BY <2>3 DEF z
        <4> QED BY <3>1, <3>2, <4>1
      <3> QED BY <2>1, <2>3, <3>3 DEF ReadyInv
    <2> QED BY <2>2, <2>3
  <1> QED BY <1>5, <1>6

\* When all superblocks are encoded, all units are ready.
LEMMA AllReady ==
  ASSUME NEW g, NEW t, Geometry(g, t), Across(g) \in Nat, Down(g) \in Nat, NEW ready,
         ReadyInv(g, t, ready, t.w * t.h), NEW pli \in PlanesOf(g)
  PROVE  ready[pli] \in Int /\ LastUnit(t, pli) \in Int /\ LastUnit(t, pli) <= ready[pli]
PROOF
  <1>1. t.w \in Nat \ {0} /\ t.h \in Nat \ {0}
    BY DEF Geometry
  <1>2. ready[pli] \in Int /\ ready[pli] >= -1
    BY DEF ReadyInv
  <1>3. LastUnit(t, pli) \in Int
    <2>1. 0 \in Nat
      OBVIOUS
    <2> QED BY <2>1, LruRange
  <1>4. CASE LastUnit(t, pli) = -1
    BY <1>2, <1>4
  <1>5. CASE LastUnit(t, pli) # -1
    <2>1. PICK x \in 0 .. t.w - 1, y \in 0 .. t.h - 1 :
            MakesReady(g, t, pli, x, y) /\ LruIn(t, pli, x, y) = LastUnit(t, pli)
      BY <1>5, LastUnitEnds
    <2>2. y * t.w + x < t.w * t.h
      <3> DEFINE e == t.h - 1 - y
      <3>1. e \in Nat /\ t.h = y + 1 + e
        BY <1>1
      <3> HIDE DEF e
      <3>2. t.w * t.h = y * t.w + t.w + e * t.w /\ e * t.w \in Nat /\ y * t.w \in Nat
        BY <1>1, <3>1
      <3> QED BY <1>1, <3>2
    <2>3. LruIn(t, pli, x, y) <= ready[pli]
      BY <2>1, <2>2 DEF ReadyInv
    <2> QED BY <1>2, <1>3, <2>1, <2>3
  <1> QED BY <1>2, <1>3, <1>4, <1>5

\* The units of the planes are nested: those of both chroma planes are the same,
\* and consist of whole ones of luma.  Without restoration they are one
\* superblock high.
Nested(g, t) ==
  /\ ~g.mono => /\ t.rp[2] = t.rp[1] /\ t.units[2] = t.units[1]
                /\ t.rp[0].h_sbs <= t.rp[1].h_sbs /\ t.rp[0].v_sbs <= t.rp[1].v_sbs
  /\ ~g.restoration => \A pli \in PlanesOf(g) : t.rp[pli].v_sbs = 1

\* The units of a tile are nested.
LEMMA TileNested ==
  ASSUME f \in Frames, NEW c \in Nat, NEW r \in Nat, NEW t, t = from_target_tiles(f, c, r), NEW n
  PROVE  Nested(f, TileState(t, n))
PROOF
  <1> DEFINE u == TileState(t, n)
             s == UnitSizes(f, t)
             px == 64 \div 2^f.xdec
             py == 64 \div 2^f.ydec
             P(pli) == RestorationPlane(f, t, pli)
  <1>1. /\ s.y \in {64, 128, 256} /\ s.uv \in {32, 64, 128, 256}
        /\ (f.ydec = 0 => s.uv = s.y) /\ s.y <= 2 * s.uv
        /\ ~f.restoration => s.y = 64 /\ (f.ydec = 1 => s.uv = 32)
        /\ px \in {32, 64} /\ py \in {32, 64}
        /\ (f.xdec = 0 <=> px = 64) /\ (f.ydec = 0 <=> py = 64)
    <2>1. /\ t.tile_width_sb \in Nat \ {0} /\ t.tile_height_sb \in Nat \ {0}
          /\ is_422_p(f) => t.tile_width_sb % 2 = 0
      BY TilesOf
    <2> QED BY <2>1, SizeFacts
  <1>2. f.xdec \in {0, 1} /\ f.ydec \in {0, 1} /\ f.ydec <= f.xdec
    BY FrameFacts
  <1>3. \A pli \in Planes : /\ u.rp[pli] = P(pli)
                            /\ u.units[pli] = get_units_region(P(pli), TileRect(f, t, n))
    BY DEF TileState
  <1>4. /\ P(0).h_sbs = s.y \div 64 /\ P(0).v_sbs = s.y \div 64
        /\ \A pli \in {1, 2} : P(pli).h_sbs = s.uv \div px /\ P(pli).v_sbs = s.uv \div py
        /\ P(2) = P(1)
    <2>1. 2^0 = 1 /\ 64 \div 1 = 64
      OBVIOUS
    <2> QED BY <2>1 DEF RestorationPlane, xdec, ydec
  <1>5. PlanesOf(f) = Planes /\ Planes \subseteq {0, 1, 2}
    BY DEF PlanesOf, Planes
  <1> HIDE DEF u, s, px, py, P
  <1>6. /\ s.y \div 64 <= s.uv \div px /\ s.y \div 64 <= s.uv \div py
        /\ ~f.restoration => s.y \div 64 = 1 /\ s.uv \div py = 1
    <2>1. CASE f.ydec = 0
      <3>1. py = 64 /\ s.uv = s.y
        BY <1>1, <2>1
      <3>2. CASE px = 32
        BY <1>1, <3>1, <3>2
      <3>3. CASE px = 64
        BY <1>1, <3>1, <3>3
      <3> QED BY <1>1, <3>2, <3>3
    <2>2. CASE f.ydec = 1
      <3>1. px = 32 /\ py = 32
        BY <1>1, <1>2, <2>2
      <3> QED BY <1>1, <2>2, <3>1
    <2> QED BY <1>2, <2>1, <2>2
  <1>7. ASSUME ~f.mono PROVE /\ u.rp[2] = u.rp[1] /\ u.units[2] = u.units[1]
                             /\ u.rp[0].h_sbs <= u.rp[1].h_sbs /\ u.rp[0].v_sbs <= u.rp[1].v_sbs
    <2>1. {0, 1, 2} \subseteq Planes
      BY <1>7 DEF Planes
    <2> QED BY <1>3, <1>4, <1>6, <2>1
  <1>8. ASSUME ~f.restoration, NEW pli \in PlanesOf(f) PROVE u.rp[pli].v_sbs = 1
    <2>1. u.rp[pli] = P(pli) /\ pli \in {0, 1, 2}
      BY <1>3, <1>5
    <2> QED BY <1>4, <1>6, <1>8, <2>1
  <1> QED BY <1>7, <1>8 DEF Nested, u

-----------------------------------------------------------------------------
(* The decisions *)

\* Superblocks in raster order.
LEMMA RasterOrder ==
  ASSUME NEW w \in Nat \ {0}, NEW x1 \in 0 .. w - 1, NEW y1 \in Nat,
         NEW x2 \in 0 .. w - 1, NEW y2 \in Nat
  PROVE  /\ y1 * w + x1 \in Nat /\ y2 * w + x2 \in Nat
         /\ y1 * w + x1 < y2 * w + x2 <=> y1 < y2 \/ (y1 = y2 /\ x1 < x2)
PROOF
  <1> DEFINE a == y1 * w
             b == y2 * w
  <1>1. a \in Nat /\ b \in Nat
    OBVIOUS
  <1>2. ASSUME y1 < y2 PROVE a + w <= b
    <2> DEFINE e == y2 - y1 - 1
    <2>1. e \in Nat /\ y2 = y1 + 1 + e
      BY <1>2
    <2> HIDE DEF e
    <2>2. b = a + w + e * w /\ e * w \in Nat
      BY <2>1
    <2> HIDE DEF a, b
    <2> QED BY <1>1, <2>2
  <1>3. ASSUME y2 < y1 PROVE b + w <= a
    <2> DEFINE e == y1 - y2 - 1
    <2>1. e \in Nat /\ y1 = y2 + 1 + e
      BY <1>3
    <2> HIDE DEF e
    <2>2. a = b + w + e * w /\ e * w \in Nat
      BY <2>1
    <2> HIDE DEF a, b
    <2> QED BY <1>1, <2>2
  <1>4. y1 = y2 => a = b
    OBVIOUS
  <1> HIDE DEF a, b
  <1>5. a + x1 \in Nat /\ b + x2 \in Nat
    BY <1>1
  <1>6. a + x1 < b + x2 <=> y1 < y2 \/ (y1 = y2 /\ x1 < x2)
    <2>1. CASE y1 < y2
      BY <1>1, <1>2, <2>1
    <2>2. CASE y2 < y1
      BY <1>1, <1>3, <2>2
    <2>3. CASE y1 = y2
      BY <1>1, <1>4, <2>3
    <2> QED BY <2>1, <2>2, <2>3
  <1> QED BY <1>5, <1>6 DEF a, b

\* What is in a unit is in the same larger unit.
LEMMA SbsNested ==
  ASSUME NEW d \in UnitSbs, NEW e \in UnitSbs, d <= e, NEW x \in Nat, NEW z \in Nat,
         x \div d = z \div d
  PROVE  x \div e = z \div e
PROOF
  <1>1. CASE d = 1
    BY <1>1
  <1>2. CASE d = 2
    <2>1. CASE e = 2
      BY <1>2, <2>1
    <2>2. CASE e = 4
      BY <1>2, <2>2
    <2>3. CASE e = 8
      BY <1>2, <2>3
    <2> QED BY <1>2, <2>1, <2>2, <2>3 DEF UnitSbs
  <1>3. CASE d = 4
    <2>1. CASE e = 4
      BY <1>3, <2>1
    <2>2. CASE e = 8
      BY <1>3, <2>2
    <2> QED BY <1>3, <2>1, <2>2 DEF UnitSbs
  <1>4. CASE d = 8
    <2>1. e = 8
      BY <1>4 DEF UnitSbs
    <2> QED BY <1>4, <2>1
  <1> QED BY <1>1, <1>2, <1>3, <1>4 DEF UnitSbs

\* Along a side of a unit.
LEMMA SbsSame ==
  ASSUME NEW d \in UnitSbs, NEW x \in Nat, NEW z \in Nat
  PROVE  /\ x \div d = z \div d => x < z + d
         /\ x \div d = z \div d /\ z % d = 0 => x >= z
         /\ z % d # 0 => z - 1 \in Nat /\ (z - 1) \div d = z \div d
         /\ x <= z /\ z % d = d - 1 => x \div d <= z \div d
         /\ x \div d <= z \div d /\ z % d = d - 1 => x <= z
         /\ x - (x % d) \in Nat /\ (x - (x % d)) % d = 0 /\ (x - (x % d)) \div d = x \div d
         /\ x - (x % d) <= x
PROOF
  <1>1. CASE d = 1
    BY <1>1
  <1>2. CASE d = 2
    BY <1>2
  <1>3. CASE d = 4
    BY <1>3
  <1>4. CASE d = 8
    BY <1>4
  <1> QED BY <1>1, <1>2, <1>3, <1>4 DEF UnitSbs

\* Later superblocks of no later unit are in the same row of units, no further
\* to the right.
LEMMA LruOrder ==
  ASSUME NEW g, NEW t, Geometry(g, t), NEW pli \in PlanesOf(g),
         NEW x1 \in Nat, NEW y1 \in Nat, NEW x2 \in Nat, NEW y2 \in Nat, y1 <= y2,
         LruIn(t, pli, x2, y2) # -1, LruIn(t, pli, x2, y2) <= LruIn(t, pli, x1, y1)
  PROVE  /\ HasUnitIn(t, pli, x1, y1) /\ HasUnitIn(t, pli, x2, y2)
         /\ y2 \div t.rp[pli].v_sbs = y1 \div t.rp[pli].v_sbs
         /\ x2 \div t.rp[pli].h_sbs <= x1 \div t.rp[pli].h_sbs
PROOF
  <1> DEFINE h == t.rp[pli].h_sbs
             v == t.rp[pli].v_sbs
             cols == t.units[pli].cols
             c1 == x1 \div h
             r1 == y1 \div v
             c2 == x2 \div h
             r2 == y2 \div v
  <1>1. h \in UnitSbs /\ v \in UnitSbs /\ cols \in Nat
    BY DEF Geometry
  <1>2. /\ HasUnitIn(t, pli, x2, y2)
        /\ LruIn(t, pli, x1, y1) # -1 => HasUnitIn(t, pli, x1, y1)
        /\ LruIn(t, pli, x1, y1) \in Int /\ LruIn(t, pli, x1, y1) >= -1
        /\ LruIn(t, pli, x2, y2) \in Int /\ LruIn(t, pli, x2, y2) >= -1
    BY LruRange
  <1>3. HasUnitIn(t, pli, x1, y1)
    BY <1>2
  <1>4. /\ LruIn(t, pli, x1, y1) = r1 * cols + c1 /\ c1 < cols
        /\ LruIn(t, pli, x2, y2) = r2 * cols + c2 /\ c2 < cols
    BY <1>2, <1>3 DEF LruIn, HasUnitIn
  <1>5. c1 \in Nat /\ r1 \in Nat /\ c2 \in Nat /\ r2 \in Nat /\ r1 <= r2
    <2> HIDE DEF h, v
    <2> QED BY <1>1, SbsDiv
  <1> HIDE DEF c1, c2, r1, r2, cols
  <1>6. r2 = r1
    <2> SUFFICES ASSUME r1 < r2 PROVE FALSE
      BY <1>5
    <2> DEFINE e == r2 - r1 - 1
    <2>1. e \in Nat /\ r2 = r1 + 1 + e
      BY <1>5
    <2> HIDE DEF e
    <2>2. r2 * cols = r1 * cols + cols + e * cols /\ e * cols \in Nat /\ r1 * cols \in Nat
      BY <1>1, <1>5, <2>1
    <2> QED BY <1>1, <1>4, <1>5, <2>2
  <1>7. c2 <= c1
    <2>1. r1 * cols \in Nat /\ r2 * cols = r1 * cols
      BY <1>1, <1>5, <1>6
    <2> QED BY <1>4, <1>5, <2>1
  <1> QED BY <1>2, <1>3, <1>6, <1>7 DEF c1, c2, r1, r2

\* The plane with the largest units.
Coarsest(g) == IF g.mono THEN 0 ELSE 1

\* The units of plane p are in those of plane q.
Finer(t, p, q) == t.rp[p].h_sbs <= t.rp[q].h_sbs /\ t.rp[p].v_sbs <= t.rp[q].v_sbs

\* Two superblocks of the same unit of plane pli.
Together(t, pli, x1, y1, x2, y2) ==
  /\ x1 \div t.rp[pli].h_sbs = x2 \div t.rp[pli].h_sbs
  /\ y1 \div t.rp[pli].v_sbs = y2 \div t.rp[pli].v_sbs

\* Any two planes are nested, in the coarsest one all are.
LEMMA PlaneOrder ==
  ASSUME NEW g, NEW t, Geometry(g, t), Nested(g, t)
  PROVE  /\ Coarsest(g) \in PlanesOf(g)
         /\ \A p \in PlanesOf(g) : Finer(t, p, Coarsest(g))
         /\ \A p, q \in PlanesOf(g) : Finer(t, p, q) \/ Finer(t, q, p)
PROOF
  <1>1. \A pli \in PlanesOf(g) : t.rp[pli].h_sbs \in Nat /\ t.rp[pli].v_sbs \in Nat
    BY DEF Geometry, UnitSbs
  <1>2. CASE g.mono
    <2>1. PlanesOf(g) = {0} /\ Coarsest(g) = 0
      BY <1>2 DEF PlanesOf, Coarsest
    <2> QED BY <1>1, <2>1 DEF Finer
  <1>3. CASE ~g.mono
    <2>1. PlanesOf(g) = {0, 1, 2} /\ Coarsest(g) = 1
      BY <1>3 DEF PlanesOf, Coarsest
    <2>2. t.rp[2] = t.rp[1] /\ t.rp[0].h_sbs <= t.rp[1].h_sbs /\ t.rp[0].v_sbs <= t.rp[1].v_sbs
      BY <1>3 DEF Nested
    <2>3. \A p, q \in {0, 1, 2} : Finer(t, p, q) \/ Finer(t, q, p)
      BY <1>1, <2>1, <2>2 DEF Finer
    <2>4. \A p \in {0, 1, 2} : Finer(t, p, 1)
      BY <1>1, <2>1, <2>2 DEF Finer
    <2> QED BY <2>1, <2>3, <2>4
  <1> QED BY <1>2, <1>3

\* What is together in a plane is together in a coarser one.
LEMMA NestedUnits ==
  ASSUME NEW g, NEW t, Geometry(g, t), NEW p \in PlanesOf(g), NEW q \in PlanesOf(g), Finer(t, p, q),
         NEW x1 \in Nat, NEW y1 \in Nat, NEW x2 \in Nat, NEW y2 \in Nat,
         Together(t, p, x1, y1, x2, y2)
  PROVE  Together(t, q, x1, y1, x2, y2) /\ LruIn(t, q, x1, y1) = LruIn(t, q, x2, y2)
PROOF
  <1>1. /\ t.rp[p].h_sbs \in UnitSbs /\ t.rp[p].v_sbs \in UnitSbs
        /\ t.rp[q].h_sbs \in UnitSbs /\ t.rp[q].v_sbs \in UnitSbs
    BY DEF Geometry
  <1>2. x1 \div t.rp[q].h_sbs = x2 \div t.rp[q].h_sbs
    BY <1>1, SbsNested DEF Finer, Together
  <1>3. y1 \div t.rp[q].v_sbs = y2 \div t.rp[q].v_sbs
    BY <1>1, SbsNested DEF Finer, Together
  <1> QED BY <1>2, <1>3 DEF Together, LruIn, HasUnitIn

-----------------------------------------------------------------------------
(* What the decisions made so far mean.  n superblocks of the tile have been  *)
(* encoded and k written; rdoed is last_lru_rdoed, cd and lr are what has     *)
(* been decided.                                                              *)

EncodedIn(t, n, x, y) == y * t.w + x < n
NumberIs(t, k, x, y) == y * t.w + x = k
CompleteIn(t, n, pli, i) ==
  \A x \in 0 .. t.w - 1, y \in 0 .. t.h - 1 : LruIn(t, pli, x, y) = i => EncodedIn(t, n, x, y)

\* Units are ready only when all their superblocks are encoded.
ReadySound(g, t, n, ready) ==
  \A pli \in PlanesOf(g), i \in Nat : i <= ready[pli] => CompleteIn(t, n, pli, i)

\* Only what was encoded has been decided.
SawEncoded(t, n, cd, lr) ==
  /\ cd \subseteq Nat \X Nat /\ \A b \in cd : EncodedIn(t, n, b[1], b[2])
  /\ \A u \in lr : CompleteIn(t, n, u[1], u[2])

\* Both chroma planes agree, and the last decision in luma was one in chroma.
Rdoed(g, t, k, rdoed) ==
  /\ \A pli \in PlanesOf(g) : rdoed[pli] \in Int /\ rdoed[pli] >= -1
  /\ ~g.mono =>
       /\ rdoed[2] = rdoed[1]
       /\ \/ rdoed[0] = -1
          \/ \E x \in 0 .. t.w - 1, y \in 0 .. t.h - 1 :
               /\ EncodedIn(t, k, x, y)
               /\ LruIn(t, 0, x, y) = rdoed[0] /\ LruIn(t, 1, x, y) <= rdoed[1]

\* The largest unit that the superblock belongs to has had its decision.
Covered(g, t, rdoed, x, y) ==
  /\ LruIn(t, Coarsest(g), x, y) <= rdoed[Coarsest(g)]
  /\ LruIn(t, Coarsest(g), x, y) = -1 =>
       \A pli \in PlanesOf(g) : LruIn(t, pli, x, y) <= rdoed[pli]
WrittenCovered(g, t, k, rdoed) ==
  g.restoration => \A x \in 0 .. t.w - 1, y \in 0 .. t.h - 1 :
                     EncodedIn(t, k, x, y) => Covered(g, t, rdoed, x, y)

\* All that is written with the superblock has been decided.
Settled(g, t, cd, lr, x, y) ==
  /\ <<x, y>> \in cd
  /\ g.restoration => \A pli \in PlanesOf(g) :
                        LruIn(t, pli, x, y) # -1 => <<pli, LruIn(t, pli, x, y)>> \in lr

\* The superblock needs no decision of its own.
Skips(g, t, rdoed, x, y) ==
  \E pli \in PlanesOf(g) : LruIn(t, pli, x, y) # -1 /\ LruIn(t, pli, x, y) <= rdoed[pli]

\* Those that need none are settled.
SkipsSettled(g, t, k, rdoed, cd, lr) ==
  \A x \in 0 .. t.w - 1, y \in 0 .. t.h - 1 :
    ~EncodedIn(t, k, x, y) /\ Skips(g, t, rdoed, x, y) => Settled(g, t, cd, lr, x, y)

DecisionInv(g, t, n, k, rdoed, cd, lr) ==
  /\ SawEncoded(t, n, cd, lr) /\ Rdoed(g, t, k, rdoed)
  /\ WrittenCovered(g, t, k, rdoed) /\ SkipsSettled(g, t, k, rdoed, cd, lr)

\* A superblock that needs no decision is covered.
LEMMA SkipsCovered ==
  ASSUME NEW g, NEW t, Geometry(g, t), Nested(g, t), g.restoration, NEW k, NEW rdoed,
         Rdoed(g, t, k, rdoed), WrittenCovered(g, t, k, rdoed),
         NEW x0 \in 0 .. t.w - 1, NEW y0 \in 0 .. t.h - 1, NumberIs(t, k, x0, y0),
         Skips(g, t, rdoed, x0, y0)
  PROVE  Covered(g, t, rdoed, x0, y0)
PROOF
  <1>0. t.w \in Nat \ {0} /\ t.h \in Nat \ {0} /\ x0 \in Nat /\ y0 \in Nat
    BY DEF Geometry
  <1>1. PICK p \in PlanesOf(g) : LruIn(t, p, x0, y0) # -1 /\ LruIn(t, p, x0, y0) <= rdoed[p]
    BY DEF Skips
  <1>2. \A pli \in PlanesOf(g) : /\ LruIn(t, pli, x0, y0) \in Int /\ LruIn(t, pli, x0, y0) >= -1
                                 /\ rdoed[pli] \in Int /\ rdoed[pli] >= -1
    BY <1>0, LruRange DEF Rdoed
  <1>3. CASE g.mono
    <2>1. PlanesOf(g) = {0} /\ Coarsest(g) = 0
      BY <1>3 DEF PlanesOf, Coarsest
    <2> QED BY <1>1, <2>1 DEF Covered
  <1>4. CASE ~g.mono
    <2>1. PlanesOf(g) = {0, 1, 2} /\ Coarsest(g) = 1
      BY <1>4 DEF PlanesOf, Coarsest
    <2>2. rdoed[2] = rdoed[1] /\ LruIn(t, 2, x0, y0) = LruIn(t, 1, x0, y0)
      BY <1>4 DEF Rdoed, Nested, LruIn, HasUnitIn
    <2>3. CASE p # 0
      <3>1. LruIn(t, 1, x0, y0) # -1 /\ LruIn(t, 1, x0, y0) <= rdoed[1]
        BY <1>1, <2>1, <2>2, <2>3
      <3> QED BY <2>1, <3>1 DEF Covered
    <2>4. CASE p = 0 /\ LruIn(t, 1, x0, y0) = -1
      <3>1. LruIn(t, 1, x0, y0) <= rdoed[1]
        BY <1>2, <2>1, <2>4
      <3>2. \A pli \in {0, 1, 2} : LruIn(t, pli, x0, y0) <= rdoed[pli]
        BY <1>1, <2>2, <2>4, <3>1
      <3> QED BY <2>1, <3>1, <3>2 DEF Covered
    <2>5. CASE p = 0 /\ LruIn(t, 1, x0, y0) # -1
      <3>1. rdoed[0] # -1
        BY <1>1, <1>2, <2>1, <2>5
      <3>2. PICK x \in 0 .. t.w - 1, y \in 0 .. t.h - 1 :
              EncodedIn(t, k, x, y) /\ LruIn(t, 0, x, y) = rdoed[0] /\ LruIn(t, 1, x, y) <= rdoed[1]
        BY <1>4, <3>1 DEF Rdoed
      <3>3. x \in Nat /\ y \in Nat
        BY <1>0
      <3>4. y < y0 \/ (y = y0 /\ x < x0)
        BY <1>0, <3>2, <3>3, RasterOrder DEF EncodedIn, NumberIs
      <3>5. 0 \in PlanesOf(g) /\ 1 \in PlanesOf(g) /\ Finer(t, 0, 1)
        BY <1>4, <2>1 DEF Nested, Finer
      <3> DEFINE h == t.rp[0].h_sbs
                 v == t.rp[0].v_sbs
      <3>6. h \in UnitSbs /\ v \in UnitSbs
        BY <3>5 DEF Geometry
      <3>7. y0 \div v = y \div v /\ x0 \div h <= x \div h
        <4>1. y <= y0 /\ LruIn(t, 0, x0, y0) <= LruIn(t, 0, x, y)
          BY <1>0, <1>1, <2>5, <3>2, <3>3, <3>4
        <4> QED BY <1>0, <1>1, <2>5, <3>3, <3>5, <4>1, LruOrder
      <3> HIDE DEF h, v
      <3>8. LruIn(t, 1, x0, y0) <= rdoed[1]
        <4>1. CASE y = y0
          <5>1. x0 \div h = x \div h
            <6>1. x \div h <= x0 \div h /\ x \div h \in Nat /\ x0 \div h \in Nat
              BY <1>0, <3>3, <3>4, <3>6, <4>1, SbsDiv
            <6> QED BY <3>7, <6>1
          <5>2. Together(t, 0, x0, y0, x, y)
            BY <3>7, <5>1 DEF Together, h, v
          <5>3. LruIn(t, 1, x0, y0) = LruIn(t, 1, x, y)
            BY <1>0, <3>3, <3>5, <5>2, NestedUnits
          <5> QED BY <3>2, <5>3
        <4>2. CASE y < y0
          <5> DEFINE z == y0 - 1
          <5>1. z \in Nat /\ z \in 0 .. t.h - 1 /\ y <= z /\ z <= y0 /\ z < y0
            BY <1>0, <3>3, <4>2
          <5> HIDE DEF z
          <5>2. z \div v = y0 \div v
            <6>1. y \div v <= z \div v /\ z \div v <= y0 \div v
              BY <1>0, <3>3, <3>6, <5>1, SbsDiv
            <6>2. y \div v \in Nat /\ z \div v \in Nat /\ y0 \div v \in Nat
              BY <1>0, <3>3, <3>6, <5>1, SbsDiv
            <6> QED BY <3>7, <6>1, <6>2
          <5>3. Together(t, 0, x0, y0, x0, z)
            BY <5>2 DEF Together, h, v
          <5>4. LruIn(t, 1, x0, y0) = LruIn(t, 1, x0, z)
            BY <1>0, <3>5, <5>1, <5>3, NestedUnits
          <5>5. EncodedIn(t, k, x0, z)
            BY <1>0, <5>1, RasterOrder DEF EncodedIn, NumberIs
          <5>6. Covered(g, t, rdoed, x0, z)
            BY <5>1, <5>5 DEF WrittenCovered
          <5> QED BY <2>1, <5>4, <5>6 DEF Covered
        <4> QED BY <1>0, <3>3, <3>4, <4>1, <4>2
      <3> QED BY <2>1, <2>5, <3>8 DEF Covered
    <2> QED BY <2>3, <2>4, <2>5
  <1> QED BY <1>3, <1>4

\* The superblocks up to one.
LEMMA RasterNext ==
  ASSUME NEW t, t.w \in Nat \ {0}, NEW x0 \in 0 .. t.w - 1, NEW y0 \in Nat, NEW k, NumberIs(t, k, x0, y0),
         NEW x \in 0 .. t.w - 1, NEW y \in Nat
  PROVE  /\ k \in Nat
         /\ EncodedIn(t, k, x, y) <=> y < y0 \/ (y = y0 /\ x < x0)
         /\ EncodedIn(t, k + 1, x, y) <=> EncodedIn(t, k, x, y) \/ (x = x0 /\ y = y0)
PROOF
  <1> DEFINE m == y * t.w + x
  <1>1. k \in Nat /\ m \in Nat /\ (m < k <=> y < y0 \/ (y = y0 /\ x < x0))
        /\ (k < m <=> y0 < y \/ (y = y0 /\ x0 < x))
    BY RasterOrder DEF NumberIs
  <1>2. /\ EncodedIn(t, k, x, y) <=> m < k
        /\ EncodedIn(t, k + 1, x, y) <=> m < k + 1
    BY DEF EncodedIn
  <1> HIDE DEF m
  <1>3. m < k + 1 <=> m < k \/ m = k
    BY <1>1
  <1>4. m = k <=> x = x0 /\ y = y0
    BY <1>1 DEF m, NumberIs
  <1> QED BY <1>1, <1>2, <1>3, <1>4

\* Superblocks with the same number are together.
LEMMA LruSame ==
  ASSUME NEW g, NEW t, Geometry(g, t), NEW pli \in PlanesOf(g),
         NEW x1 \in Nat, NEW y1 \in Nat, NEW x2 \in Nat, NEW y2 \in Nat,
         LruIn(t, pli, x1, y1) # -1, LruIn(t, pli, x1, y1) = LruIn(t, pli, x2, y2)
  PROVE  Together(t, pli, x1, y1, x2, y2)
PROOF
  <1> DEFINE h == t.rp[pli].h_sbs
             v == t.rp[pli].v_sbs
  <1>1. LruIn(t, pli, x1, y1) \in Int /\ LruIn(t, pli, x2, y2) \in Int
    BY LruRange
  <1>2. h \in UnitSbs /\ v \in UnitSbs
    BY DEF Geometry
  <1>3. y1 \div v = y2 \div v
    <2>1. CASE y1 <= y2
      BY <1>1, <2>1, LruOrder
    <2>2. CASE y2 <= y1
      BY <1>1, <2>2, LruOrder
    <2> QED BY <2>1, <2>2
  <1> DEFINE cols == t.units[pli].cols
             r == y1 \div v
             c1 == x1 \div h
             c2 == x2 \div h
  <1>4. LruIn(t, pli, x1, y1) = r * cols + c1 /\ LruIn(t, pli, x2, y2) = r * cols + c2
    BY <1>3 DEF LruIn
  <1>5. r \in Nat /\ c1 \in Nat /\ c2 \in Nat /\ cols \in Nat
    <2>1. cols \in Nat
      BY DEF Geometry
    <2> HIDE DEF h, v, cols
    <2> QED BY <1>2, <2>1, SbsDiv
  <1> HIDE DEF r, c1, c2, cols
  <1>6. c1 = c2
    <2> DEFINE m == r * cols
    <2>1. m \in Nat
      BY <1>5
    <2>2. LruIn(t, pli, x1, y1) = m + c1 /\ LruIn(t, pli, x2, y2) = m + c2
      BY <1>4
    <2>3. m + c1 = m + c2
      BY <2>2
    <2> HIDE DEF m
    <2> QED BY <1>5, <2>1, <2>3
  <1> QED BY <1>3, <1>6 DEF Together, c1, c2

\* The corner of a small unit in a larger one.
LEMMA SbsCorner ==
  ASSUME NEW d \in UnitSbs, NEW e \in UnitSbs, d <= e, NEW x0 \in Nat, NEW x \in Nat,
         x0 % e = 0, x0 <= x, x < x0 + e
  PROVE  LET z == x - (x % d) IN x0 <= z /\ z < x0 + e /\ (z - x0) % d = 0
PROOF
  <1>1. CASE d = 1
    BY <1>1 DEF UnitSbs
  <1>2. CASE d = 2
    <2>1. CASE e = 2
      BY <1>2, <2>1
    <2>2. CASE e = 4
      BY <1>2, <2>2
    <2>3. CASE e = 8
      BY <1>2, <2>3
    <2> QED BY <1>2, <2>1, <2>2, <2>3 DEF UnitSbs
  <1>3. CASE d = 4
    <2>1. CASE e = 4
      BY <1>3, <2>1
    <2>2. CASE e = 8
      BY <1>3, <2>2
    <2> QED BY <1>3, <2>1, <2>2 DEF UnitSbs
  <1>4. CASE d = 8
    <2>1. e = 8
      BY <1>4 DEF UnitSbs
    <2> QED BY <1>4, <2>1
  <1> QED BY <1>1, <1>2, <1>3, <1>4 DEF UnitSbs

\* What rdo_loop_decision at a superblock decides, at least: what is encoded of
\* the units that begin there, and all complete units in them.
DecidesAt(g, t, n, x0, y0, cd, lr) ==
  \A p \in PlanesOf(g) :
    \A x \in x0 .. x0 + t.rp[p].h_sbs - 1, y \in y0 .. y0 + t.rp[p].v_sbs - 1 :
      /\ x < t.w /\ y < t.h /\ EncodedIn(t, n, x, y) => <<x, y>> \in cd
      /\ g.restoration => \A q \in PlanesOf(g) :
           /\ (x - x0) % t.rp[q].h_sbs = 0 /\ (y - y0) % t.rp[q].v_sbs = 0
           /\ HasUnitIn(t, q, x, y) /\ CompleteIn(t, n, q, LruIn(t, q, x, y))
           => <<q, LruIn(t, q, x, y)>> \in lr

\* The superblock at which a decision is made is settled.
LEMMA HeadSettled ==
  ASSUME NEW g, NEW t, Geometry(g, t), NEW n, NEW ready, ReadySound(g, t, n, ready),
         NEW x0 \in 0 .. t.w - 1, NEW y0 \in 0 .. t.h - 1, EncodedIn(t, n, x0, y0),
         \A pli \in PlanesOf(g) : LruIn(t, pli, x0, y0) <= ready[pli],
         NEW cd, NEW lr, DecidesAt(g, t, n, x0, y0, cd, lr)
  PROVE  Settled(g, t, cd, lr, x0, y0)
PROOF
  <1>0. t.w \in Nat \ {0} /\ t.h \in Nat \ {0} /\ x0 \in Nat /\ y0 \in Nat /\ x0 < t.w /\ y0 < t.h
    BY DEF Geometry
  <1>1. \A p \in PlanesOf(g) : /\ t.rp[p].h_sbs \in UnitSbs /\ t.rp[p].v_sbs \in UnitSbs
                               /\ x0 \in x0 .. x0 + t.rp[p].h_sbs - 1
                               /\ y0 \in y0 .. y0 + t.rp[p].v_sbs - 1
                               /\ (x0 - x0) % t.rp[p].h_sbs = 0 /\ (y0 - y0) % t.rp[p].v_sbs = 0
    <2> SUFFICES ASSUME NEW p \in PlanesOf(g), NEW d \in UnitSbs, NEW z \in Nat
                 PROVE  z \in z .. z + d - 1 /\ (z - z) % d = 0
      BY <1>0 DEF Geometry
    <2> QED BY DEF UnitSbs
  <1>2. 0 \in PlanesOf(g)
    BY DEF PlanesOf
  <1>3. <<x0, y0>> \in cd
    BY <1>0, <1>1, <1>2 DEF DecidesAt
  <1>4. ASSUME g.restoration, NEW q \in PlanesOf(g), LruIn(t, q, x0, y0) # -1
        PROVE  <<q, LruIn(t, q, x0, y0)>> \in lr
    <2>1. HasUnitIn(t, q, x0, y0) /\ LruIn(t, q, x0, y0) \in Nat
      <3>1. /\ HasUnitIn(t, q, x0, y0) /\ LruIn(t, q, x0, y0) \in Int
            /\ LruIn(t, q, x0, y0) >= -1
        BY <1>0, <1>4, LruRange
      <3> QED BY <1>4, <3>1
    <2>2. CompleteIn(t, n, q, LruIn(t, q, x0, y0))
      BY <2>1 DEF ReadySound
    <2> QED BY <1>1, <1>4, <2>1, <2>2 DEF DecidesAt
  <1> QED BY <1>3, <1>4 DEF Settled

\* So is the rest of a unit that begins there.
LEMMA UnitSettled ==
  ASSUME NEW g, NEW t, Geometry(g, t), Nested(g, t), NEW n, NEW ready, ReadySound(g, t, n, ready),
         NEW x0 \in 0 .. t.w - 1, NEW y0 \in 0 .. t.h - 1,
         \A pli \in PlanesOf(g) : LruIn(t, pli, x0, y0) <= ready[pli],
         NEW cd, NEW lr, DecidesAt(g, t, n, x0, y0, cd, lr),
         NEW p \in PlanesOf(g), LruIn(t, p, x0, y0) # -1,
         NEW x \in 0 .. t.w - 1, NEW y \in 0 .. t.h - 1, x0 <= x, y0 <= y,
         Together(t, p, x, y, x0, y0),
         g.restoration => x0 % t.rp[p].h_sbs = 0 /\ y0 % t.rp[p].v_sbs = 0
  PROVE  Settled(g, t, cd, lr, x, y)
PROOF
  <1>0. /\ t.w \in Nat \ {0} /\ t.h \in Nat \ {0} /\ x0 \in Nat /\ y0 \in Nat /\ x \in Nat /\ y \in Nat
        /\ x < t.w /\ y < t.h
    BY DEF Geometry
  <1> DEFINE hp == t.rp[p].h_sbs
             vp == t.rp[p].v_sbs
  <1>1. hp \in UnitSbs /\ vp \in UnitSbs
    BY DEF Geometry
  <1>2. x < x0 + hp /\ y < y0 + vp
    BY <1>0, <1>1, SbsSame DEF Together
  <1>3. x \in x0 .. x0 + hp - 1 /\ y \in y0 .. y0 + vp - 1
    <2> HIDE DEF hp, vp
    <2> QED BY <1>0, <1>1, <1>2 DEF UnitSbs
  <1>4. ASSUME NEW q \in PlanesOf(g), LruIn(t, q, x0, y0) # -1
        PROVE  CompleteIn(t, n, q, LruIn(t, q, x0, y0)) /\ HasUnitIn(t, q, x0, y0)
    <2>1. LruIn(t, q, x0, y0) \in Nat /\ HasUnitIn(t, q, x0, y0)
      <3>1. /\ HasUnitIn(t, q, x0, y0) /\ LruIn(t, q, x0, y0) \in Int
            /\ LruIn(t, q, x0, y0) >= -1
        BY <1>0, <1>4, LruRange
      <3> QED BY <1>4, <3>1
    <2> QED BY <2>1 DEF ReadySound
  <1>5. Finer(t, p, p)
    BY <1>1 DEF Finer, UnitSbs
  <1>6. LruIn(t, p, x, y) = LruIn(t, p, x0, y0)
    BY <1>0, <1>5, NestedUnits
  <1>7. EncodedIn(t, n, x, y)
    BY <1>4, <1>6 DEF CompleteIn
  <1>8. <<x, y>> \in cd
    BY <1>0, <1>3, <1>7 DEF DecidesAt
  <1>9. ASSUME g.restoration, NEW q \in PlanesOf(g), LruIn(t, q, x, y) # -1
        PROVE  <<q, LruIn(t, q, x, y)>> \in lr
    <2> DEFINE hq == t.rp[q].h_sbs
               vq == t.rp[q].v_sbs
    <2>1. hq \in UnitSbs /\ vq \in UnitSbs
      BY DEF Geometry
    <2>2. CASE Finer(t, p, q)
      <3>1. LruIn(t, q, x, y) = LruIn(t, q, x0, y0)
        BY <1>0, <2>2, NestedUnits
      <3>2. CompleteIn(t, n, q, LruIn(t, q, x0, y0)) /\ HasUnitIn(t, q, x0, y0)
        BY <1>4, <1>9, <3>1
      <3>3. /\ x0 \in x0 .. x0 + hp - 1 /\ y0 \in y0 .. y0 + vp - 1
            /\ (x0 - x0) % hq = 0 /\ (y0 - y0) % vq = 0
        <4> SUFFICES ASSUME NEW d \in UnitSbs, NEW e \in UnitSbs, NEW z \in Nat
                     PROVE  z \in z .. z + d - 1 /\ (z - z) % e = 0
          BY <1>0, <1>1, <2>1
        <4> QED BY DEF UnitSbs
      <3> QED BY <1>9, <3>1, <3>2, <3>3 DEF DecidesAt
    <2>3. CASE Finer(t, q, p)
      <3> DEFINE z == x - (x % hq)
                 w == y - (y % vq)
      <3>1. x0 <= z /\ z < x0 + hp /\ (z - x0) % hq = 0
        BY <1>0, <1>1, <1>2, <1>9, <2>1, <2>3, SbsCorner DEF Finer
      <3>2. y0 <= w /\ w < y0 + vp /\ (w - y0) % vq = 0
        BY <1>0, <1>1, <1>2, <1>9, <2>1, <2>3, SbsCorner DEF Finer
      <3>3. z \in Nat /\ w \in Nat /\ z \div hq = x \div hq /\ w \div vq = y \div vq
        BY <1>0, <2>1, SbsSame
      <3> HIDE DEF z, w
      <3>4. z \in x0 .. x0 + hp - 1 /\ w \in y0 .. y0 + vp - 1
        BY <1>0, <1>1, <3>1, <3>2, <3>3 DEF UnitSbs
      <3>5. LruIn(t, q, z, w) = LruIn(t, q, x, y) /\ (HasUnitIn(t, q, z, w) <=> HasUnitIn(t, q, x, y))
        BY <3>3 DEF LruIn, HasUnitIn
      <3>6. HasUnitIn(t, q, x, y)
        BY <1>0, <1>9, LruRange
      <3>7. CompleteIn(t, n, q, LruIn(t, q, x, y))
        <4> SUFFICES ASSUME NEW a \in 0 .. t.w - 1, NEW b \in 0 .. t.h - 1,
                            LruIn(t, q, a, b) = LruIn(t, q, x, y)
                     PROVE  EncodedIn(t, n, a, b)
          BY DEF CompleteIn
        <4>1. a \in Nat /\ b \in Nat
          BY <1>0
        <4>2. Together(t, q, a, b, x, y)
          BY <1>0, <1>9, <4>1, LruSame
        <4>3. LruIn(t, p, a, b) = LruIn(t, p, x, y)
          BY <1>0, <2>3, <4>1, <4>2, NestedUnits
        <4> QED BY <1>4, <1>6, <4>3 DEF CompleteIn
      <3> QED BY <1>9, <3>1, <3>2, <3>4, <3>5, <3>6, <3>7 DEF DecidesAt
    <2> QED BY <2>2, <2>3, PlaneOrder
  <1> QED BY <1>8, <1>9 DEF Settled

\* A written superblock of a unit without decision is in a larger one that has had
\* it.
LEMMA WrittenSkips ==
  ASSUME NEW g, NEW t, Geometry(g, t), Nested(g, t), g.restoration, NEW k, NEW rdoed,
         Rdoed(g, t, k, rdoed), WrittenCovered(g, t, k, rdoed), NEW p \in PlanesOf(g),
         NEW x1 \in 0 .. t.w - 1, NEW y1 \in 0 .. t.h - 1, EncodedIn(t, k, x1, y1),
         NEW x \in 0 .. t.w - 1, NEW y \in 0 .. t.h - 1, Together(t, p, x1, y1, x, y),
         ~(LruIn(t, p, x, y) <= rdoed[p])
  PROVE  Skips(g, t, rdoed, x, y)
PROOF
  <1> DEFINE b == Coarsest(g)
  <1>0. t.w \in Nat \ {0} /\ t.h \in Nat \ {0} /\ x1 \in Nat /\ y1 \in Nat /\ x \in Nat /\ y \in Nat
    BY DEF Geometry
  <1>1. b \in PlanesOf(g) /\ Finer(t, p, b) /\ Finer(t, p, p)
    BY PlaneOrder DEF Finer
  <1> HIDE DEF b
  <1>2. LruIn(t, p, x1, y1) = LruIn(t, p, x, y) /\ LruIn(t, b, x1, y1) = LruIn(t, b, x, y)
    BY <1>0, <1>1, NestedUnits
  <1>3. Covered(g, t, rdoed, x1, y1)
    BY DEF WrittenCovered
  <1>4. LruIn(t, b, x1, y1) # -1 /\ LruIn(t, b, x1, y1) <= rdoed[b]
    BY <1>2, <1>3 DEF Covered, b
  <1> QED BY <1>1, <1>2, <1>4 DEF Skips

\* A decision keeps DecisionInv.
LEMMA DecisionStep ==
  ASSUME NEW g, NEW t, Geometry(g, t), Nested(g, t), NEW n, NEW k, NEW ready, NEW rdoed, NEW cd, NEW lr,
         ReadySound(g, t, n, ready), DecisionInv(g, t, n, k, rdoed, cd, lr),
         NEW x0 \in 0 .. t.w - 1, NEW y0 \in 0 .. t.h - 1, NumberIs(t, k, x0, y0), EncodedIn(t, n, x0, y0),
         \A pli \in PlanesOf(g) : LruIn(t, pli, x0, y0) <= ready[pli],
         ~Skips(g, t, rdoed, x0, y0),
         NEW after, \A pli \in PlanesOf(g) : after[pli] = AtLeast(rdoed[pli], LruIn(t, pli, x0, y0)),
         NEW cd2, cd \subseteq cd2, NEW lr2, lr \subseteq lr2, SawEncoded(t, n, cd2, lr2),
         DecidesAt(g, t, n, x0, y0, cd2, lr2)
  PROVE  DecisionInv(g, t, n, k + 1, after, cd2, lr2) /\ Settled(g, t, cd2, lr2, x0, y0)
PROOF
  <1>0. t.w \in Nat \ {0} /\ t.h \in Nat \ {0} /\ x0 \in Nat /\ y0 \in Nat
    BY DEF Geometry
  <1>1. /\ Rdoed(g, t, k, rdoed) /\ WrittenCovered(g, t, k, rdoed)
        /\ SkipsSettled(g, t, k, rdoed, cd, lr)
    BY DEF DecisionInv
  <1>2. \A pli \in PlanesOf(g) : /\ LruIn(t, pli, x0, y0) \in Int /\ LruIn(t, pli, x0, y0) >= -1
                                 /\ rdoed[pli] \in Int /\ rdoed[pli] >= -1
    BY <1>0, <1>1, LruRange DEF Rdoed
  <1>3. \A pli \in PlanesOf(g) : /\ after[pli] \in Int /\ after[pli] >= -1
                                 /\ rdoed[pli] <= after[pli] /\ LruIn(t, pli, x0, y0) <= after[pli]
                                 /\ after[pli] = rdoed[pli] \/ after[pli] = LruIn(t, pli, x0, y0)
    BY <1>2 DEF AtLeast
  <1>4. \A x \in 0 .. t.w - 1, y \in 0 .. t.h - 1 :
          /\ x \in Nat /\ y \in Nat
          /\ EncodedIn(t, k, x, y) <=> y < y0 \/ (y = y0 /\ x < x0)
          /\ EncodedIn(t, k + 1, x, y) <=> EncodedIn(t, k, x, y) \/ (x = x0 /\ y = y0)
    <2> SUFFICES ASSUME NEW x \in 0 .. t.w - 1, NEW y \in 0 .. t.h - 1
                 PROVE  /\ x \in Nat /\ y \in Nat
                        /\ EncodedIn(t, k, x, y) <=> y < y0 \/ (y = y0 /\ x < x0)
                        /\ EncodedIn(t, k + 1, x, y) <=> EncodedIn(t, k, x, y) \/ (x = x0 /\ y = y0)
      OBVIOUS
    <2>1. x \in Nat /\ y \in Nat
      BY <1>0
    <2>2. EncodedIn(t, k, x, y) <=> y < y0 \/ (y = y0 /\ x < x0)
      BY <1>0, <2>1, RasterNext
    <2>3. EncodedIn(t, k + 1, x, y) <=> EncodedIn(t, k, x, y) \/ (x = x0 /\ y = y0)
      BY <1>0, <2>1, RasterNext
    <2> QED BY <2>1, <2>2, <2>3
  <1>5. Settled(g, t, cd2, lr2, x0, y0)
    BY HeadSettled
  <1>6. Rdoed(g, t, k + 1, after)
    <2>1. ASSUME ~g.mono
          PROVE  /\ after[2] = after[1]
                 /\ \/ after[0] = -1
                    \/ \E x \in 0 .. t.w - 1, y \in 0 .. t.h - 1 :
                         /\ EncodedIn(t, k + 1, x, y)
                         /\ LruIn(t, 0, x, y) = after[0] /\ LruIn(t, 1, x, y) <= after[1]
      <3>1. {0, 1, 2} \subseteq PlanesOf(g)
        BY <2>1 DEF PlanesOf
      <3>2. rdoed[2] = rdoed[1] /\ LruIn(t, 2, x0, y0) = LruIn(t, 1, x0, y0)
        BY <1>1, <2>1 DEF Rdoed, Nested, LruIn, HasUnitIn
      <3>3. after[2] = after[1]
        BY <3>1, <3>2
      <3>4. CASE after[0] = LruIn(t, 0, x0, y0)
        <4>1. EncodedIn(t, k + 1, x0, y0) /\ LruIn(t, 1, x0, y0) <= after[1]
          BY <1>3, <1>4, <3>1
        <4> QED BY <3>3, <3>4, <4>1
      <3>5. CASE after[0] = rdoed[0] /\ rdoed[0] # -1
        <4>1. PICK x \in 0 .. t.w - 1, y \in 0 .. t.h - 1 :
                EncodedIn(t, k, x, y) /\ LruIn(t, 0, x, y) = rdoed[0] /\ LruIn(t, 1, x, y) <= rdoed[1]
          BY <1>1, <2>1, <3>5 DEF Rdoed
        <4>2. LruIn(t, 1, x, y) \in Int
          BY <1>4, <3>1, LruRange
        <4>3. LruIn(t, 1, x, y) <= after[1]
          BY <1>2, <1>3, <3>1, <4>1, <4>2
        <4> QED BY <1>4, <3>3, <3>5, <4>1, <4>3
      <3>6. CASE after[0] = -1
        BY <3>3, <3>6
      <3> QED BY <1>3, <3>1, <3>4, <3>5, <3>6
    <2> QED BY <1>3, <2>1 DEF Rdoed
  <1>7. WrittenCovered(g, t, k + 1, after)
    <2> SUFFICES ASSUME g.restoration, NEW x \in 0 .. t.w - 1, NEW y \in 0 .. t.h - 1,
                        EncodedIn(t, k + 1, x, y)
                 PROVE  Covered(g, t, after, x, y)
      BY DEF WrittenCovered
    <2>1. Coarsest(g) \in PlanesOf(g)
      BY PlaneOrder
    <2>2. CASE x = x0 /\ y = y0
      BY <1>3, <2>1, <2>2 DEF Covered
    <2>3. CASE EncodedIn(t, k, x, y)
      <3>1. Covered(g, t, rdoed, x, y)
        BY <1>1, <2>3 DEF WrittenCovered
      <3>2. \A pli \in PlanesOf(g) : LruIn(t, pli, x, y) \in Int
        BY <1>4, LruRange
      <3>3. \A pli \in PlanesOf(g) : LruIn(t, pli, x, y) <= rdoed[pli] => LruIn(t, pli, x, y) <= after[pli]
        BY <1>2, <1>3, <3>2
      <3> QED BY <2>1, <3>1, <3>3 DEF Covered
    <2> QED BY <1>4, <2>2, <2>3
  <1>8. SkipsSettled(g, t, k + 1, after, cd2, lr2)
    <2> SUFFICES ASSUME NEW x \in 0 .. t.w - 1, NEW y \in 0 .. t.h - 1,
                        ~EncodedIn(t, k + 1, x, y), Skips(g, t, after, x, y)
                 PROVE  Settled(g, t, cd2, lr2, x, y)
      BY DEF SkipsSettled
    <2>1. ~EncodedIn(t, k, x, y) /\ x \in Nat /\ y \in Nat /\ (y0 < y \/ (y0 = y /\ x0 < x))
      BY <1>0, <1>4
    <2>2. ASSUME Skips(g, t, rdoed, x, y) PROVE Settled(g, t, cd2, lr2, x, y)
      <3>1. Settled(g, t, cd, lr, x, y)
        BY <1>1, <2>1, <2>2 DEF SkipsSettled
      <3> QED BY <3>1 DEF Settled
    <2>3. PICK p \in PlanesOf(g) : LruIn(t, p, x, y) # -1 /\ LruIn(t, p, x, y) <= after[p]
      BY DEF Skips
    <2>4. CASE LruIn(t, p, x, y) <= rdoed[p]
      BY <2>2, <2>3, <2>4 DEF Skips
    <2>5. CASE ~(LruIn(t, p, x, y) <= rdoed[p])
      <3> DEFINE h == t.rp[p].h_sbs
                 v == t.rp[p].v_sbs
      <3>1. h \in UnitSbs /\ v \in UnitSbs
        BY DEF Geometry
      <3>2. LruIn(t, p, x, y) <= LruIn(t, p, x0, y0) /\ y0 <= y
        BY <1>0, <1>3, <2>1, <2>3, <2>5
      <3>3. /\ HasUnitIn(t, p, x0, y0) /\ y \div v = y0 \div v /\ x \div h <= x0 \div h
        BY <1>0, <2>1, <2>3, <3>2, LruOrder
      <3>4. LruIn(t, p, x0, y0) # -1
        BY <1>0, <3>3, LruRange
      <3>5. x \div h \in Nat /\ x0 \div h \in Nat
        <4> HIDE DEF h
        <4> QED BY <1>0, <2>1, <3>1, SbsDiv
      <3>6. CASE ~g.restoration
        <4>1. v = 1
          BY <3>6 DEF Nested
        <4>2. y = y0 /\ x0 <= x
          <5> HIDE DEF v
          <5>1. y \div 1 = y0 \div 1
            BY <3>3, <4>1
          <5> QED BY <1>0, <2>1, <5>1
        <4>3. x0 \div h <= x \div h
          <5> HIDE DEF h
          <5> QED BY <1>0, <2>1, <3>1, <4>2, SbsDiv
        <4>4. Together(t, p, x, y, x0, y0)
          <5>1. x \div h = x0 \div h
            <6> HIDE DEF h
            <6> QED BY <3>3, <3>5, <4>3
          <5> QED BY <3>3, <5>1 DEF Together
        <4> QED BY <3>2, <3>4, <3>6, <4>2, <4>4, UnitSettled
      <3>7. CASE g.restoration /\ x \div h # x0 \div h
        <4>1. x < x0
          <5> HIDE DEF h
          <5> QED BY <1>0, <2>1, <3>1, <3>3, <3>5, <3>7, SbsDiv, SMTT(60)
        <4>2. EncodedIn(t, k, x, y0)
          BY <1>4, <4>1
        <4>3. Together(t, p, x, y0, x, y)
          BY <3>3 DEF Together
        <4>4. Skips(g, t, rdoed, x, y)
          BY <1>1, <2>5, <3>7, <4>2, <4>3, WrittenSkips
        <4> QED BY <2>2, <4>4
      <3>8. CASE g.restoration /\ x \div h = x0 \div h
        <4>1. Together(t, p, x, y, x0, y0)
          BY <3>3, <3>8 DEF Together
        <4>2. LruIn(t, p, x, y) = LruIn(t, p, x0, y0)
          BY <4>1 DEF Together, LruIn, HasUnitIn
        <4>3. ASSUME NEW x1 \in 0 .. t.w - 1, NEW y1 \in 0 .. t.h - 1, EncodedIn(t, k, x1, y1)
              PROVE  ~Together(t, p, x1, y1, x0, y0)
          BY <1>1, <2>5, <3>8, <4>2, <4>3, WrittenSkips
        <4>4. x0 % h = 0
          <5> SUFFICES ASSUME x0 % h # 0 PROVE FALSE
            OBVIOUS
          <5> DEFINE z == x0 - 1
          <5>1. z \in Nat /\ z \div h = x0 \div h
            <6> HIDE DEF h
            <6> QED BY <1>0, <3>1, SbsSame
          <5>2. z \in 0 .. t.w - 1 /\ z < x0
            BY <1>0, <5>1
          <5> HIDE DEF z
          <5>3. EncodedIn(t, k, z, y0)
            BY <1>4, <5>2
          <5> QED BY <4>3, <5>1, <5>2, <5>3 DEF Together
        <4>5. y0 % v = 0
          <5> SUFFICES ASSUME y0 % v # 0 PROVE FALSE
            OBVIOUS
          <5> DEFINE z == y0 - 1
          <5>1. z \in Nat /\ z \div v = y0 \div v
            <6> HIDE DEF v
            <6> QED BY <1>0, <3>1, SbsSame
          <5>2. z \in 0 .. t.h - 1 /\ z < y0
            BY <1>0, <5>1
          <5> HIDE DEF z
          <5>3. EncodedIn(t, k, x0, z)
            BY <1>4, <5>2
          <5> QED BY <4>3, <5>1, <5>2, <5>3 DEF Together
        <4>6. x0 <= x
          <5> HIDE DEF h
          <5> QED BY <1>0, <2>1, <3>1, <3>8, <4>4, SbsSame
        <4> QED BY <3>2, <3>4, <4>1, <4>4, <4>5, <4>6, UnitSettled
      <3> QED BY <3>6, <3>7, <3>8
    <2> QED BY <2>4, <2>5
  <1> QED BY <1>5, <1>6, <1>7, <1>8 DEF DecisionInv

\* A superblock that is covered, if that matters, is written.
LEMMA WriteStep ==
  ASSUME NEW g, NEW t, Geometry(g, t), NEW n, NEW k, NEW rdoed, NEW cd, NEW lr,
         DecisionInv(g, t, n, k, rdoed, cd, lr),
         NEW x0 \in 0 .. t.w - 1, NEW y0 \in 0 .. t.h - 1, NumberIs(t, k, x0, y0),
         g.restoration => Covered(g, t, rdoed, x0, y0)
  PROVE  DecisionInv(g, t, n, k + 1, rdoed, cd, lr)
PROOF
  <1>0. t.w \in Nat \ {0} /\ t.h \in Nat \ {0} /\ x0 \in Nat /\ y0 \in Nat
    BY DEF Geometry
  <1>1. ASSUME NEW x \in 0 .. t.w - 1, NEW y \in 0 .. t.h - 1
        PROVE  EncodedIn(t, k + 1, x, y) <=> EncodedIn(t, k, x, y) \/ (x = x0 /\ y = y0)
    <2>1. y \in Nat
      BY <1>0
    <2> QED BY <1>0, <2>1, RasterNext
  <1>2. Rdoed(g, t, k + 1, rdoed)
    BY <1>1 DEF DecisionInv, Rdoed
  <1>3. WrittenCovered(g, t, k + 1, rdoed)
    BY <1>1 DEF DecisionInv, WrittenCovered
  <1>4. SkipsSettled(g, t, k + 1, rdoed, cd, lr)
    BY <1>1 DEF DecisionInv, SkipsSettled
  <1> QED BY <1>2, <1>3, <1>4 DEF DecisionInv

\* Another superblock is encoded.
LEMMA EncodeStep ==
  ASSUME NEW g, NEW t, Geometry(g, t), NEW n \in Nat, NEW k, NEW rdoed, NEW cd, NEW lr,
         DecisionInv(g, t, n, k, rdoed, cd, lr)
  PROVE  DecisionInv(g, t, n + 1, k, rdoed, cd, lr)
PROOF
  <1>0. t.w \in Nat \ {0} /\ t.h \in Nat \ {0}
    BY DEF Geometry
  <1>1. ASSUME NEW x \in Nat, NEW y \in Nat, EncodedIn(t, n, x, y) PROVE EncodedIn(t, n + 1, x, y)
    <2> DEFINE m == y * t.w + x
    <2>1. m \in Nat
      BY <1>0
    <2>2. m < n
      BY <1>1 DEF EncodedIn
    <2> HIDE DEF m
    <2>3. m < n + 1
      BY <2>1, <2>2
    <2> QED BY <2>3 DEF EncodedIn, m
  <1>2. \A b \in cd : EncodedIn(t, n + 1, b[1], b[2])
    <2> SUFFICES ASSUME NEW b \in cd PROVE EncodedIn(t, n + 1, b[1], b[2])
      OBVIOUS
    <2>1. b[1] \in Nat /\ b[2] \in Nat
      BY DEF DecisionInv, SawEncoded
    <2>2. EncodedIn(t, n, b[1], b[2])
      BY DEF DecisionInv, SawEncoded
    <2> QED BY <1>1, <2>1, <2>2
  <1>3. \A u \in lr : CompleteIn(t, n + 1, u[1], u[2])
    <2> SUFFICES ASSUME NEW u \in lr, NEW x \in 0 .. t.w - 1, NEW y \in 0 .. t.h - 1,
                        LruIn(t, u[1], x, y) = u[2]
                 PROVE  EncodedIn(t, n + 1, x, y)
      BY DEF CompleteIn
    <2>1. EncodedIn(t, n, x, y)
      BY DEF DecisionInv, SawEncoded, CompleteIn
    <2>2. x \in Nat /\ y \in Nat
      BY <1>0
    <2> QED BY <1>1, <2>1, <2>2
  <1> QED BY <1>2, <1>3 DEF DecisionInv, SawEncoded

\* A unit that becomes ready is complete, and so are those before it.
LEMMA ReadySoundStep ==
  ASSUME NEW g, NEW t, Geometry(g, t), Across(g) \in Nat, Down(g) \in Nat, NEW ready, NEW n,
         ReadySound(g, t, n, ready),
         NEW x0 \in 0 .. t.w - 1, NEW y0 \in 0 .. t.h - 1, NumberIs(t, n, x0, y0), NEW after,
         \A pli \in PlanesOf(g) :
           after[pli] = IF MakesReady(g, t, pli, x0, y0) THEN LruIn(t, pli, x0, y0) ELSE ready[pli]
  PROVE  ReadySound(g, t, n + 1, after)
PROOF
  <1>0. /\ t.w \in Nat \ {0} /\ t.h \in Nat \ {0} /\ x0 \in Nat /\ y0 \in Nat
        /\ t.x \in Nat /\ t.y \in Nat /\ t.x + t.w <= Across(g) /\ t.y + t.h <= Down(g)
    BY DEF Geometry
  <1> SUFFICES ASSUME NEW pli \in PlanesOf(g), NEW i \in Nat, i <= after[pli],
                      NEW x \in 0 .. t.w - 1, NEW y \in 0 .. t.h - 1, LruIn(t, pli, x, y) = i
               PROVE  EncodedIn(t, n + 1, x, y)
    BY DEF ReadySound, CompleteIn
  <1>1. x \in Nat /\ y \in Nat /\ x < t.w /\ y < t.h
    BY <1>0
  <1>2. /\ EncodedIn(t, n, x, y) <=> y < y0 \/ (y = y0 /\ x < x0)
        /\ EncodedIn(t, n + 1, x, y) <=> EncodedIn(t, n, x, y) \/ (x = x0 /\ y = y0)
    BY <1>0, <1>1, RasterNext
  <1>3. CASE ~MakesReady(g, t, pli, x0, y0)
    <2>1. after[pli] = ready[pli]
      BY <1>3
    <2>2. EncodedIn(t, n, x, y)
      BY <2>1 DEF ReadySound, CompleteIn
    <2> QED BY <1>2, <2>2
  <1>4. CASE MakesReady(g, t, pli, x0, y0) /\ y0 <= y
    <2> DEFINE h == t.rp[pli].h_sbs
               v == t.rp[pli].v_sbs
    <2>1. h \in UnitSbs /\ v \in UnitSbs
      BY DEF Geometry
    <2>2. LruIn(t, pli, x, y) <= LruIn(t, pli, x0, y0) /\ LruIn(t, pli, x, y) # -1
      BY <1>4
    <2>3. y \div v = y0 \div v /\ x \div h <= x0 \div h
      BY <1>0, <1>1, <1>4, <2>2, LruOrder
    <2>4. /\ x0 % h = h - 1 \/ t.x + x0 = Across(g) - 1
          /\ y0 % v = v - 1 \/ t.y + y0 = Down(g) - 1
      BY <1>4 DEF MakesReady, EndsUnit
    <2> HIDE DEF h, v
    <2>5. y \div v <= y0 \div v
      <3>1. y \div v \in Nat
        BY <1>1, <2>1, SbsDiv
      <3> QED BY <2>3, <3>1
    <2>6. y <= y0
      <3>1. CASE y0 % v = v - 1
        BY <1>0, <1>1, <2>1, <2>5, <3>1, SbsSame
      <3>2. CASE t.y + y0 = Down(g) - 1
        BY <1>0, <1>1, <3>2
      <3> QED BY <2>4, <3>1, <3>2
    <2>7. x <= x0
      <3>1. CASE x0 % h = h - 1
        BY <1>0, <1>1, <2>1, <2>3, <3>1, SbsSame
      <3>2. CASE t.x + x0 = Across(g) - 1
        BY <1>0, <1>1, <3>2
      <3> QED BY <2>4, <3>1, <3>2
    <2> QED BY <1>0, <1>1, <1>2, <1>4, <2>6, <2>7
  <1>5. CASE ~(y0 <= y)
    BY <1>0, <1>1, <1>2, <1>5
  <1> QED BY <1>3, <1>4, <1>5

-----------------------------------------------------------------------------
(* rdo_loop_decision *)

\* These are the definitions of the model.
LEMMA SameEncoded ==
  /\ \A n, x, y : EncodedSb(n, x, y) <=> EncodedIn(ts, n, x, y)
  /\ \A n, pli, i : CompleteUnit(n, pli, i) <=> CompleteIn(ts, n, pli, i)
  /\ \A pli, x, y : HasUnit(pli, x, y) <=> HasUnitIn(ts, pli, x, y)
  /\ Planes = PlanesOf(f)
PROOF
  <1>1. \A n, x, y : EncodedSb(n, x, y) <=> EncodedIn(ts, n, x, y)
    BY DEF EncodedSb, EncodedIn
  <1>2. \A pli, x, y : HasUnit(pli, x, y) <=> HasUnitIn(ts, pli, x, y)
    BY DEF HasUnit, HasUnitIn, rp, units
  <1>3. \A n, pli, i : CompleteUnit(n, pli, i) <=> CompleteIn(ts, n, pli, i)
    BY <1>1, SameUnits DEF CompleteUnit, CompleteIn
  <1>4. Planes = PlanesOf(f)
    BY DEF Planes, PlanesOf
  <1> QED BY <1>1, <1>2, <1>3, <1>4

\* The area of a decision is that of the largest unit.
LEMMA AreaSize ==
  ASSUME Geometry(f, ts), Nested(f, ts)
  PROVE  /\ sb_w = ts.rp[Coarsest(f)].h_sbs /\ sb_h = ts.rp[Coarsest(f)].v_sbs
         /\ sb_w \in UnitSbs /\ sb_h \in UnitSbs
         /\ \A pli \in Planes : ts.rp[pli].h_sbs <= sb_w /\ ts.rp[pli].v_sbs <= sb_h
PROOF
  <1> DEFINE b == Coarsest(f)
             H == {rp(pli).h_sbs : pli \in Planes}
             V == {rp(pli).v_sbs : pli \in Planes}
             hb == ts.rp[b].h_sbs
             vb == ts.rp[b].v_sbs
  <1>1. b \in Planes /\ Planes = PlanesOf(f) /\ \A p \in Planes : Finer(ts, p, b)
    BY PlaneOrder, SameEncoded
  <1>2. \A p \in Planes : ts.rp[p].h_sbs \in UnitSbs /\ ts.rp[p].v_sbs \in UnitSbs
    BY <1>1 DEF Geometry
  <1>3. hb \in H /\ vb \in V /\ H \subseteq Nat /\ V \subseteq Nat
    BY <1>1, <1>2 DEF rp, UnitSbs
  <1>4. (\A z \in H : hb >= z) /\ (\A z \in V : vb >= z)
    BY <1>1, <1>2 DEF rp, Finer, UnitSbs
  <1>5. sb_w = Max(H) /\ sb_h = Max(V)
    BY DEF sb_w, sb_h
  <1>6. hb \in UnitSbs /\ vb \in UnitSbs
    BY <1>1, <1>2
  <1>7. \A pli \in Planes : ts.rp[pli].h_sbs <= hb /\ ts.rp[pli].v_sbs <= vb
    BY <1>1 DEF Finer
  <1> HIDE DEF H, V, hb, vb, b
  <1>8. ASSUME NEW S, S \subseteq Nat, NEW m \in S, \A z \in S : m >= z PROVE Max(S) = m
    <2>1. Max(S) \in S /\ \A z \in S : Max(S) >= z
      <3>1. \E y \in S : \A z \in S : y >= z
        BY <1>8
      <3> QED BY <3>1 DEF Max
    <2>2. Max(S) >= m /\ m >= Max(S) /\ Max(S) \in Nat /\ m \in Nat
      BY <1>8, <2>1
    <2> QED BY <2>2
  <1>9. Max(H) = hb /\ Max(V) = vb
    BY <1>3, <1>4, <1>8
  <1> QED BY <1>5, <1>6, <1>7, <1>9 DEF hb, vb, b

\* The sets of rdo_loop_decision.
RdoInside(qe) == {<<u[1], lru_index(u[1], u[2], u[3])>> : u \in RdoUnits(qe)}
DecidedCdef(n, qe, cd) == (cd \ RdoArea(qe)) \cup {b \in RdoArea(qe) : EncodedSb(n, b[1], b[2])}
DecidedLrf(n, qe, lr) ==
  IF ~f.restoration THEN lr
  ELSE (lr \ RdoInside(qe)) \cup {u \in RdoInside(qe) : CompleteUnit(n, u[1], u[2])}

\* They have all that was decided before, and what is in
\* the area.
LEMMA DecisionSets ==
  ASSUME Geometry(f, ts), Nested(f, ts), NEW n, NEW cd, NEW lr, SawEncoded(ts, n, cd, lr), NEW qe,
         qe.x \in 0 .. ts.w - 1, qe.y \in 0 .. ts.h - 1
  PROVE  LET cd2 == DecidedCdef(n, qe, cd)
             lr2 == DecidedLrf(n, qe, lr)
         IN /\ cd \subseteq cd2 /\ lr \subseteq lr2 /\ SawEncoded(ts, n, cd2, lr2)
            /\ DecidesAt(f, ts, n, qe.x, qe.y, cd2, lr2)
PROOF
  <1> DEFINE area == RdoArea(qe)
             inside == {<<u[1], lru_index(u[1], u[2], u[3])>> : u \in RdoUnits(qe)}
             cd2 == (cd \ area) \cup {b \in area : EncodedSb(n, b[1], b[2])}
             lr2 == IF ~f.restoration THEN lr
                    ELSE (lr \ inside) \cup {u \in inside : CompleteUnit(n, u[1], u[2])}
             x0 == qe.x
             y0 == qe.y
  <1>0. /\ ts.w \in Nat \ {0} /\ ts.h \in Nat \ {0} /\ x0 \in Nat /\ y0 \in Nat
    BY DEF Geometry
  <1>1. /\ cd \subseteq Nat \X Nat /\ \A b \in cd : EncodedSb(n, b[1], b[2])
        /\ \A u \in lr : CompleteUnit(n, u[1], u[2])
    BY SameEncoded DEF SawEncoded
  <1>2. /\ sb_w \in UnitSbs /\ sb_h \in UnitSbs
        /\ \A pli \in Planes : ts.rp[pli].h_sbs <= sb_w /\ ts.rp[pli].v_sbs <= sb_h
    BY AreaSize
  <1>3. area = (x0 .. AtMost(x0 + sb_w, ts.w) - 1) \X (y0 .. AtMost(y0 + sb_h, ts.h) - 1)
    BY DEF RdoArea
  <1>4. area \subseteq Nat \X Nat
    <2>1. AtMost(x0 + sb_w, ts.w) \in Nat /\ AtMost(y0 + sb_h, ts.h) \in Nat
      BY <1>0, <1>2 DEF AtMost, UnitSbs
    <2> HIDE DEF area, x0, y0
    <2>2. x0 .. AtMost(x0 + sb_w, ts.w) - 1 \subseteq Nat /\ y0 .. AtMost(y0 + sb_h, ts.h) - 1 \subseteq Nat
      BY <1>0, <2>1
    <2> QED BY <1>3, <2>2
  <1> HIDE DEF area, inside
  <1>5. cd \subseteq cd2 /\ lr \subseteq lr2
    BY <1>1
  <1>6. SawEncoded(ts, n, cd2, lr2)
    <2>1. cd2 \subseteq Nat \X Nat
      BY <1>1, <1>4
    <2>2. \A b \in cd2 : EncodedIn(ts, n, b[1], b[2])
      BY <1>1, SameEncoded
    <2>3. \A u \in lr2 : CompleteIn(ts, n, u[1], u[2])
      BY <1>1, SameEncoded
    <2> HIDE DEF cd2, lr2
    <2> QED BY <2>1, <2>2, <2>3 DEF SawEncoded
  <1>7. DecidesAt(f, ts, n, x0, y0, cd2, lr2)
    <2> SUFFICES ASSUME NEW p \in Planes, NEW x \in x0 .. x0 + ts.rp[p].h_sbs - 1,
                        NEW y \in y0 .. y0 + ts.rp[p].v_sbs - 1
                 PROVE  /\ x < ts.w /\ y < ts.h /\ EncodedIn(ts, n, x, y) => <<x, y>> \in cd2
                        /\ f.restoration => \A q \in Planes :
                             /\ (x - x0) % ts.rp[q].h_sbs = 0 /\ (y - y0) % ts.rp[q].v_sbs = 0
                             /\ HasUnitIn(ts, q, x, y) /\ CompleteIn(ts, n, q, LruIn(ts, q, x, y))
                             => <<q, LruIn(ts, q, x, y)>> \in lr2
      BY SameEncoded DEF DecidesAt
    <2> HIDE DEF x0, y0
    <2>1. ts.rp[p].h_sbs \in UnitSbs /\ ts.rp[p].v_sbs \in UnitSbs
      BY SameEncoded DEF Geometry
    <2>2. x \in Nat /\ y \in Nat /\ x \in x0 .. x0 + sb_w - 1 /\ y \in y0 .. y0 + sb_h - 1
      <3> DEFINE h == ts.rp[p].h_sbs
                 v == ts.rp[p].v_sbs
      <3>1. h \in Nat /\ v \in Nat /\ h <= sb_w /\ v <= sb_h /\ sb_w \in Nat /\ sb_h \in Nat
        BY <1>2, <2>1 DEF UnitSbs
      <3>2. x \in x0 .. x0 + h - 1 /\ y \in y0 .. y0 + v - 1
        OBVIOUS
      <3> HIDE DEF h, v
      <3> QED BY <1>0, <3>1, <3>2
    <2>3. ASSUME x < ts.w, y < ts.h, EncodedIn(ts, n, x, y) PROVE <<x, y>> \in cd2
      <3>1. x \in x0 .. AtMost(x0 + sb_w, ts.w) - 1 /\ y \in y0 .. AtMost(y0 + sb_h, ts.h) - 1
        BY <1>0, <1>2, <2>2, <2>3 DEF AtMost, UnitSbs
      <3>2. <<x, y>> \in area
        BY <1>3, <3>1
      <3>3. EncodedSb(n, x, y)
        BY <2>3, SameEncoded
      <3> QED BY <3>2, <3>3
    <2>4. ASSUME f.restoration, NEW q \in Planes,
                 (x - x0) % ts.rp[q].h_sbs = 0, (y - y0) % ts.rp[q].v_sbs = 0,
                 HasUnitIn(ts, q, x, y), CompleteIn(ts, n, q, LruIn(ts, q, x, y))
          PROVE  <<q, LruIn(ts, q, x, y)>> \in lr2
      <3> DEFINE u == <<q, x, y>>
      <3>1. u \in RdoUnits(qe)
        <4>1. HasUnit(q, x, y)
          BY <2>4, SameEncoded
        <4>2. u \in Planes \X (qe.x .. qe.x + sb_w - 1) \X (qe.y .. qe.y + sb_h - 1)
          BY <2>2 DEF x0, y0
        <4> QED BY <2>4, <4>1, <4>2 DEF RdoUnits, rp, x0, y0
      <3>2. <<q, lru_index(q, x, y)>> \in inside
        <4>1. u[1] = q /\ u[2] = x /\ u[3] = y
          OBVIOUS
        <4> HIDE DEF u
        <4>2. <<u[1], lru_index(u[1], u[2], u[3])>> \in inside
          BY <3>1 DEF inside
        <4> QED BY <4>1, <4>2
      <3>3. lru_index(q, x, y) = LruIn(ts, q, x, y)
        BY SameUnits
      <3>4. CompleteUnit(n, q, LruIn(ts, q, x, y))
        BY <2>4, SameEncoded
      <3> QED BY <2>4, <3>2, <3>3, <3>4
    <2> HIDE DEF cd2, lr2
    <2> QED BY <2>3, <2>4
  <1>8. cd2 = DecidedCdef(n, qe, cd) /\ lr2 = DecidedLrf(n, qe, lr)
    BY DEF area, inside, DecidedCdef, DecidedLrf, RdoInside
  <1> HIDE DEF cd2, lr2
  <1> QED BY <1>5, <1>6, <1>7, <1>8

-----------------------------------------------------------------------------
(* Where the filter of a unit is coded *)

\* The tile begins with a unit, and its units are those of the frame that begin
\* in it; h_sbs and v_sbs are the size of a unit.
Placed(g, t) ==
  \A pli \in PlanesOf(g) :
    LET p == t.rp[pli]
        u == t.units[pli]
    IN /\ p.cols \in Nat /\ p.rows \in Nat
       /\ p.unit_size = p.h_sbs * (64 \div 2^xdec(g, pli))
       /\ p.unit_size = p.v_sbs * (64 \div 2^ydec(g, pli))
       /\ 64 \div 2^xdec(g, pli) \in {32, 64} /\ 64 \div 2^ydec(g, pli) \in {32, 64}
       /\ t.x % p.h_sbs = 0 /\ t.y % p.v_sbs = 0
       /\ u.x = AtMost(t.x \div p.h_sbs, p.cols)
       /\ u.y = AtMost(t.y \div p.v_sbs, p.rows)
       /\ u.cols = AtMost(CeilDiv(t.w, p.h_sbs), p.cols - u.x)
       /\ u.rows = AtMost(CeilDiv(t.h, p.v_sbs), p.rows - u.y)

\* A multiple of whole units.
LEMMA SbsMultiple ==
  ASSUME NEW h \in UnitSbs, NEW i \in Nat, NEW w \in Nat, w % h = 0
  PROVE  (i * w) % h = 0
PROOF
  <1>1. PICK m \in Nat : w = m * h
    <2> DEFINE m == w \div h
    <2>1. m \in Nat /\ w = m * h
      BY DEF UnitSbs
    <2> HIDE DEF m
    <2> QED BY <2>1
  <1> DEFINE z == i * m
  <1>2. z \in Nat /\ i * w = z * h
    <2>1. i * (m * h) = (i * m) * h
      BY DEF UnitSbs
    <2> QED BY <1>1, <2>1
  <1> HIDE DEF z
  <1>3. (z * h) % h = 0
    BY <1>2 DEF UnitSbs
  <1> QED BY <1>2, <1>3

\* The tiles of a frame are placed so.
LEMMA TilePlaced ==
  ASSUME f \in Frames, NEW c \in Nat, NEW r \in Nat, NEW t, t = from_target_tiles(f, c, r),
         NEW n \in Nat, n < t.cols * t.rows
  PROVE  Placed(f, TileState(t, n))
PROOF
  <1> DEFINE tw == t.tile_width_sb
             th == t.tile_height_sb
             i == n % t.cols
             j == n \div t.cols
             rect == TileRect(f, t, n)
             s == TileState(t, n)
  <1>1. /\ tw \in Nat \ {0} /\ th \in Nat \ {0} /\ t.cols = CeilDiv(Across(f), tw)
        /\ t.rows = CeilDiv(Down(f), th) /\ (is_422_p(f) => tw % 2 = 0)
    BY TilesOf
  <1>2. t.cols \in Nat \ {0} /\ t.rows \in Nat \ {0}
    <2>1. Across(f) \in Nat \ {0} /\ Down(f) \in Nat \ {0}
      BY FrameFacts
    <2> QED BY <1>1, <2>1, CeilDivFacts
  <1>3. /\ i \in Nat /\ j \in Nat /\ (t.cols = 1 => i = 0) /\ (t.cols = 1 /\ t.rows = 1 => j = 0)
        /\ rect.x = i * tw /\ rect.y = j * th
    <2> DEFINE a == t.cols
    <2>1. a \in Nat \ {0} /\ (a = 1 => n < 1 * t.rows)
      BY <1>2
    <2> HIDE DEF a
    <2>2. n % a \in Nat /\ n \div a \in Nat /\ (a = 1 => n % a = 0)
      BY <2>1
    <2>3. a = 1 /\ t.rows = 1 => n \div a = 0
      BY <2>1
    <2> QED BY <2>2, <2>3 DEF a, TileRect
  <1>4. /\ s.x = rect.x /\ s.y = rect.y /\ s.w = rect.w /\ s.h = rect.h
        /\ \A pli \in Planes : /\ s.rp[pli] = RestorationPlane(f, t, pli)
                               /\ s.units[pli] = get_units_region(RestorationPlane(f, t, pli), rect)
    BY DEF TileState, rect
  <1>5. PlanesOf(f) = Planes /\ Planes \subseteq 0 .. 2
    BY DEF PlanesOf, Planes
  <1> HIDE DEF i, j, rect, s
  <1> SUFFICES ASSUME NEW pli \in Planes
               PROVE  LET p == s.rp[pli]
                          u == s.units[pli]
                      IN /\ p.cols \in Nat /\ p.rows \in Nat
                         /\ p.unit_size = p.h_sbs * (64 \div 2^xdec(f, pli))
                         /\ p.unit_size = p.v_sbs * (64 \div 2^ydec(f, pli))
                         /\ 64 \div 2^xdec(f, pli) \in {32, 64} /\ 64 \div 2^ydec(f, pli) \in {32, 64}
                         /\ s.x % p.h_sbs = 0 /\ s.y % p.v_sbs = 0
                         /\ u.x = AtMost(s.x \div p.h_sbs, p.cols)
                         /\ u.y = AtMost(s.y \div p.v_sbs, p.rows)
                         /\ u.cols = AtMost(CeilDiv(s.w, p.h_sbs), p.cols - u.x)
                         /\ u.rows = AtMost(CeilDiv(s.h, p.v_sbs), p.rows - u.y)
    BY <1>5 DEF Placed, s
  <1> DEFINE p == RestorationPlane(f, t, pli)
             u == get_units_region(p, rect)
  <1>6. /\ p.h_sbs \in UnitSbs /\ p.v_sbs \in UnitSbs
        /\ t.cols > 1 \/ t.rows > 1 => tw % p.h_sbs = 0 /\ th % p.v_sbs = 0
        /\ p.cols \in Nat /\ p.rows \in Nat
    <2>1. pli \in 0 .. 2
      BY <1>5
    <2> QED BY <1>1, <2>1, UnitFacts
  <1>7. /\ u.x = AtMost(rect.x \div p.h_sbs, p.cols) /\ u.y = AtMost(rect.y \div p.v_sbs, p.rows)
        /\ u.cols = AtMost(CeilDiv(rect.w, p.h_sbs), p.cols - u.x)
        /\ u.rows = AtMost(CeilDiv(rect.h, p.v_sbs), p.rows - u.y)
    <2> HIDE DEF p
    <2> QED BY DEF get_units_region
  <1>8. /\ p.unit_size = p.h_sbs * (64 \div 2^xdec(f, pli))
        /\ p.unit_size = p.v_sbs * (64 \div 2^ydec(f, pli))
        /\ 64 \div 2^xdec(f, pli) \in {32, 64} /\ 64 \div 2^ydec(f, pli) \in {32, 64}
    <2> DEFINE sz == UnitSizes(f, t)
               px == 64 \div 2^f.xdec
               py == 64 \div 2^f.ydec
    <2>1. /\ sz.y \in {64, 128, 256} /\ sz.uv \in {32, 64, 128, 256}
          /\ (f.ydec = 0 => sz.uv = sz.y) /\ px \in {32, 64} /\ py \in {32, 64}
          /\ (f.ydec = 0 <=> py = 64)
      BY <1>1, SizeFacts
    <2>2. CASE pli = 0
      <3>1. 2^0 = 1 /\ 64 \div 1 = 64
        OBVIOUS
      <3>2. p.unit_size = sz.y /\ p.h_sbs = sz.y \div 64 /\ p.v_sbs = sz.y \div 64
        BY <2>2, <3>1 DEF RestorationPlane, xdec, ydec
      <3>3. 64 \div 2^xdec(f, pli) = 64 /\ 64 \div 2^ydec(f, pli) = 64
        BY <2>2, <3>1 DEF xdec, ydec
      <3> HIDE DEF p, sz
      <3>4. sz.y = (sz.y \div 64) * 64
        BY <2>1
      <3> QED BY <3>2, <3>3, <3>4
    <2>3. CASE pli # 0
      <3>1. p.unit_size = sz.uv /\ p.h_sbs = sz.uv \div px /\ p.v_sbs = sz.uv \div py
        BY <2>3 DEF RestorationPlane, xdec, ydec
      <3>2. 64 \div 2^xdec(f, pli) = px /\ 64 \div 2^ydec(f, pli) = py
        BY <2>3 DEF xdec, ydec
      <3>3. p.h_sbs \in UnitSbs /\ p.v_sbs \in UnitSbs
        BY <1>6
      <3> HIDE DEF p, sz, px, py
      <3>4. sz.uv = (sz.uv \div px) * px
        <4>1. CASE px = 32
          BY <2>1, <4>1
        <4>2. CASE px = 64
          BY <2>1, <3>1, <3>3, <4>2 DEF UnitSbs
        <4> QED BY <2>1, <4>1, <4>2
      <3>5. sz.uv = (sz.uv \div py) * py
        <4>1. CASE py = 32
          BY <2>1, <4>1
        <4>2. CASE py = 64
          BY <2>1, <3>1, <3>3, <4>2 DEF UnitSbs
        <4> QED BY <2>1, <4>1, <4>2
      <3> QED BY <2>1, <3>1, <3>2, <3>4, <3>5
    <2> QED BY <2>2, <2>3
  <1> HIDE DEF p
  <1>9. rect.x % p.h_sbs = 0 /\ rect.y % p.v_sbs = 0
    <2>0. 0 % p.h_sbs = 0 /\ 0 % p.v_sbs = 0
      BY <1>6 DEF UnitSbs
    <2>1. CASE t.cols > 1 \/ t.rows > 1
      <3>1. tw % p.h_sbs = 0 /\ th % p.v_sbs = 0
        BY <1>6, <2>1
      <3>2. (i * tw) % p.h_sbs = 0 /\ (j * th) % p.v_sbs = 0
        BY <1>1, <1>3, <1>6, <3>1, SbsMultiple
      <3> QED BY <1>3, <3>2
    <2>2. CASE ~(t.cols > 1 \/ t.rows > 1)
      <3>1. i = 0 /\ j = 0
        BY <1>2, <1>3, <2>2
      <3>2. rect.x = 0 /\ rect.y = 0
        BY <1>1, <1>3, <3>1
      <3> QED BY <2>0, <3>2
    <2> QED BY <2>1, <2>2
  <1>10. s.rp[pli] = p /\ s.units[pli] = u
    BY <1>4 DEF p
  <1> HIDE DEF u
  <1> QED BY <1>4, <1>6, <1>7, <1>8, <1>9, <1>10

\* The pixels along a unit of h superblocks of px pixels.
UnitPixels(h, px) == h * px

\* The unit of h superblocks that begins at superblock `at`, if one does.
UnitAt(at, h, count) == IF at % h = 0 /\ at \div h < count THEN {at \div h} ELSE {}

\* The units that a decoder reads at a superblock, along one side of a plane in
\* which the superblock has px pixels: the one that begins there, if there is one.
ReadAlong(at, px, size, count) ==
  CeilDiv(at * px, size) .. AtMost(CeilDiv((at + 1) * px, size), count) - 1
LEMMA ReadRange ==
  ASSUME NEW h \in UnitSbs, NEW px \in {32, 64}, NEW at \in Nat, NEW count \in Nat,
         NEW size, size = UnitPixels(h, px)
  PROVE  ReadAlong(at, px, size, count) = UnitAt(at, h, count)
PROOF
  <1>0. size = h * px
    BY DEF UnitPixels
  <1> DEFINE a == CeilDiv(at * px, h * px)
             b == CeilDiv((at + 1) * px, h * px)
             c == at \div h
  <1>1. /\ at % h = 0 => a = c /\ b = c + 1
        /\ at % h # 0 => a = c + 1 /\ b = c + 1
        /\ c \in Nat
    <2>1. CASE px = 32
      <3>1. CASE h = 1
        BY <2>1, <3>1 DEF CeilDiv
      <3>2. CASE h = 2
        BY <2>1, <3>2 DEF CeilDiv
      <3>3. CASE h = 4
        BY <2>1, <3>3 DEF CeilDiv
      <3>4. CASE h = 8
        BY <2>1, <3>4 DEF CeilDiv
      <3> QED BY <3>1, <3>2, <3>3, <3>4 DEF UnitSbs
    <2>2. CASE px = 64
      <3>1. CASE h = 1
        BY <2>2, <3>1 DEF CeilDiv
      <3>2. CASE h = 2
        BY <2>2, <3>2 DEF CeilDiv
      <3>3. CASE h = 4
        BY <2>2, <3>3 DEF CeilDiv
      <3>4. CASE h = 8
        BY <2>2, <3>4 DEF CeilDiv
      <3> QED BY <3>1, <3>2, <3>3, <3>4 DEF UnitSbs
    <2> QED BY <2>1, <2>2
  <1> HIDE DEF a, b, c, ReadAlong
  <1>2. CASE at % h = 0
    <2>1. CASE c < count
      <3>1. AtMost(b, count) - 1 = c
        BY <1>1, <1>2, <2>1 DEF AtMost
      <3>2. c .. c = {c}
        BY <1>1
      <3> QED BY <1>0, <1>1, <1>2, <2>1, <3>1, <3>2 DEF a, b, c, ReadAlong, UnitAt
    <2>2. CASE ~(c < count)
      <3>1. AtMost(b, count) - 1 = count - 1 /\ count - 1 < c
        BY <1>1, <1>2, <2>2 DEF AtMost
      <3>2. c .. count - 1 = {}
        BY <1>1, <3>1
      <3> QED BY <1>0, <1>1, <1>2, <2>2, <3>1, <3>2 DEF a, b, c, ReadAlong, UnitAt
    <2> QED BY <2>1, <2>2
  <1>3. CASE at % h # 0
    <2>1. AtMost(b, count) - 1 < a /\ AtMost(b, count) - 1 \in Int /\ a \in Int
      BY <1>1, <1>3 DEF AtMost
    <2>2. a .. AtMost(b, count) - 1 = {}
      BY <2>1
    <2> QED BY <1>0, <1>3, <2>2 DEF a, b, c, ReadAlong, UnitAt
  <1> QED BY <1>2, <1>3

\* A unit of the tile, by its number in the frame.
LEMMA UnitOfFrame ==
  ASSUME NEW h \in UnitSbs, NEW x \in Nat, x % h = 0, NEW w \in Nat \ {0}, NEW x0 \in 0 .. w - 1,
         NEW count \in Nat
  PROVE  LET u == AtMost(x \div h, count)
             c == AtMost(CeilDiv(w, h), count - u)
         IN /\ (x + x0) % h = 0 <=> x0 % h = 0
            /\ (x + x0) \div h < count <=> x0 \div h < c
            /\ x0 \div h < c => u + x0 \div h = (x + x0) \div h
PROOF
  <1> DEFINE a == x \div h
             b == x0 \div h
             n == CeilDiv(w, h)
             u == AtMost(a, count)
             c == AtMost(n, count - u)
  <1>1. /\ (x + x0) % h = 0 <=> x0 % h = 0
        /\ (x + x0) \div h = a + b /\ a \in Nat /\ b \in Nat /\ n \in Nat /\ b < n
    <2>1. CASE h = 1
      BY <2>1 DEF CeilDiv
    <2>2. CASE h = 2
      BY <2>2 DEF CeilDiv
    <2>3. CASE h = 4
      BY <2>3 DEF CeilDiv
    <2>4. CASE h = 8
      BY <2>4 DEF CeilDiv
    <2> QED BY <2>1, <2>2, <2>3, <2>4 DEF UnitSbs
  <1> HIDE DEF a, b, n
  <1>2. (a + b < count <=> b < c) /\ (b < c => u + b = a + b)
    BY <1>1 DEF AtMost
  <1> QED BY <1>1, <1>2 DEF a, b, n

\* The number of the last unit that was coded: of all that belong to written
\* superblocks the last.
CodedInv(g, t, k, coded) ==
  g.restoration => \A pli \in PlanesOf(g) :
    /\ coded[pli] \in Int /\ coded[pli] >= -1
    /\ \A x \in 0 .. t.w - 1, y \in 0 .. t.h - 1 :
         EncodedIn(t, k, x, y) => LruIn(t, pli, x, y) <= coded[pli]
    /\ coded[pli] # -1 => \E x \in 0 .. t.w - 1, y \in 0 .. t.h - 1 :
                            EncodedIn(t, k, x, y) /\ LruIn(t, pli, x, y) = coded[pli]

\* A unit has not been coded exactly at its corner.
LEMMA CodedAtCorner ==
  ASSUME NEW g, NEW t, Geometry(g, t), g.restoration, NEW k, NEW coded, CodedInv(g, t, k, coded),
         NEW pli \in PlanesOf(g), NEW x0 \in 0 .. t.w - 1, NEW y0 \in 0 .. t.h - 1, NumberIs(t, k, x0, y0),
         LruIn(t, pli, x0, y0) # -1
  PROVE  coded[pli] < LruIn(t, pli, x0, y0) <=> x0 % t.rp[pli].h_sbs = 0 /\ y0 % t.rp[pli].v_sbs = 0
PROOF
  <1> DEFINE h == t.rp[pli].h_sbs
             v == t.rp[pli].v_sbs
             i == LruIn(t, pli, x0, y0)
  <1>0. t.w \in Nat \ {0} /\ t.h \in Nat \ {0} /\ x0 \in Nat /\ y0 \in Nat /\ h \in UnitSbs /\ v \in UnitSbs
    BY DEF Geometry
  <1>1. i \in Int /\ i >= -1 /\ coded[pli] \in Int /\ coded[pli] >= -1
    BY <1>0, LruRange DEF CodedInv
  <1>2. ASSUME NEW x \in 0 .. t.w - 1, NEW y \in 0 .. t.h - 1
        PROVE  /\ x \in Nat /\ y \in Nat
               /\ EncodedIn(t, k, x, y) <=> y < y0 \/ (y = y0 /\ x < x0)
    <2>1. x \in Nat /\ y \in Nat
      BY <1>0
    <2> QED BY <1>0, <2>1, RasterNext
  <1>3. ASSUME x0 % h = 0, y0 % v = 0 PROVE coded[pli] < i
    <2> SUFFICES ASSUME i <= coded[pli] PROVE FALSE
      BY <1>1
    <2>1. PICK x \in 0 .. t.w - 1, y \in 0 .. t.h - 1 :
            EncodedIn(t, k, x, y) /\ LruIn(t, pli, x, y) = coded[pli]
      BY <1>1 DEF CodedInv
    <2>2. x \in Nat /\ y \in Nat /\ (y < y0 \/ (y = y0 /\ x < x0))
      BY <1>2, <2>1
    <2>3. y0 \div v = y \div v /\ x0 \div h <= x \div h
      <3>1. y <= y0
        BY <1>0, <2>2
      <3> QED BY <1>0, <2>1, <2>2, <3>1, LruOrder
    <2> HIDE DEF h, v
    <2>4. y >= y0
      BY <1>0, <1>3, <2>2, <2>3, SbsSame
    <2>5. y = y0 /\ x < x0
      BY <1>0, <2>2, <2>4
    <2>6. x \div h <= x0 \div h /\ x \div h \in Nat /\ x0 \div h \in Nat
      BY <1>0, <2>2, <2>5, SbsDiv
    <2>7. x \div h = x0 \div h
      BY <2>3, <2>6
    <2>8. x >= x0
      BY <1>0, <1>3, <2>2, <2>7, SbsSame
    <2> QED BY <1>0, <2>2, <2>5, <2>8
  <1>4. ASSUME x0 % h # 0 PROVE ~(coded[pli] < i)
    <2>1. x0 - 1 \in Nat /\ (x0 - 1) \div h = x0 \div h
      <3> HIDE DEF h
      <3> QED BY <1>0, <1>4, SbsSame
    <2>2. x0 - 1 \in 0 .. t.w - 1 /\ x0 - 1 < x0
      BY <1>0, <2>1
    <2>3. EncodedIn(t, k, x0 - 1, y0)
      BY <1>2, <2>2
    <2>4. LruIn(t, pli, x0 - 1, y0) = i
      BY <2>1 DEF LruIn, HasUnitIn
    <2>5. i <= coded[pli]
      BY <2>2, <2>3, <2>4 DEF CodedInv
    <2> QED BY <1>1, <2>5
  <1>5. ASSUME y0 % v # 0 PROVE ~(coded[pli] < i)
    <2>1. y0 - 1 \in Nat /\ (y0 - 1) \div v = y0 \div v
      <3> HIDE DEF v
      <3> QED BY <1>0, <1>5, SbsSame
    <2>2. y0 - 1 \in 0 .. t.h - 1 /\ y0 - 1 < y0
      BY <1>0, <2>1
    <2>3. EncodedIn(t, k, x0, y0 - 1)
      BY <1>2, <2>2
    <2>4. LruIn(t, pli, x0, y0 - 1) = i
      BY <2>1 DEF LruIn, HasUnitIn
    <2>5. i <= coded[pli]
      BY <2>2, <2>3, <2>4 DEF CodedInv
    <2> QED BY <1>1, <2>5
  <1> QED BY <1>3, <1>4, <1>5

\* The units are coded that have not been.
LEMMA CodedStep ==
  ASSUME NEW g, NEW t, Geometry(g, t), NEW k, NEW coded, CodedInv(g, t, k, coded),
         NEW x0 \in 0 .. t.w - 1, NEW y0 \in 0 .. t.h - 1, NumberIs(t, k, x0, y0), NEW after,
         g.restoration => \A pli \in PlanesOf(g) :
           after[pli] = IF LruIn(t, pli, x0, y0) # -1 /\ coded[pli] < LruIn(t, pli, x0, y0)
                        THEN LruIn(t, pli, x0, y0) ELSE coded[pli]
  PROVE  CodedInv(g, t, k + 1, after)
PROOF
  <1> SUFFICES ASSUME g.restoration, NEW pli \in PlanesOf(g)
               PROVE  /\ after[pli] \in Int /\ after[pli] >= -1
                      /\ \A x \in 0 .. t.w - 1, y \in 0 .. t.h - 1 :
                           EncodedIn(t, k + 1, x, y) => LruIn(t, pli, x, y) <= after[pli]
                      /\ after[pli] # -1 => \E x \in 0 .. t.w - 1, y \in 0 .. t.h - 1 :
                           EncodedIn(t, k + 1, x, y) /\ LruIn(t, pli, x, y) = after[pli]
    BY DEF CodedInv
  <1>0. t.w \in Nat \ {0} /\ t.h \in Nat \ {0} /\ x0 \in Nat /\ y0 \in Nat
    BY DEF Geometry
  <1>1. /\ LruIn(t, pli, x0, y0) \in Int /\ LruIn(t, pli, x0, y0) >= -1
        /\ coded[pli] \in Int /\ coded[pli] >= -1
    BY <1>0, LruRange DEF CodedInv
  <1>2. ASSUME NEW x \in 0 .. t.w - 1, NEW y \in 0 .. t.h - 1
        PROVE  /\ EncodedIn(t, k + 1, x, y) <=> EncodedIn(t, k, x, y) \/ (x = x0 /\ y = y0)
               /\ LruIn(t, pli, x, y) \in Int
    <2>1. x \in Nat /\ y \in Nat
      BY <1>0
    <2> QED BY <1>0, <2>1, RasterNext, LruRange
  <1>3. /\ after[pli] \in Int /\ after[pli] >= -1 /\ coded[pli] <= after[pli]
        /\ LruIn(t, pli, x0, y0) <= after[pli]
        /\ after[pli] = coded[pli] \/ after[pli] = LruIn(t, pli, x0, y0)
    BY <1>1
  <1>4. ASSUME NEW x \in 0 .. t.w - 1, NEW y \in 0 .. t.h - 1, EncodedIn(t, k + 1, x, y)
        PROVE  LruIn(t, pli, x, y) <= after[pli]
    <2>1. CASE EncodedIn(t, k, x, y)
      <3>1. LruIn(t, pli, x, y) <= coded[pli]
        BY <2>1 DEF CodedInv
      <3> QED BY <1>1, <1>2, <1>3, <3>1
    <2>2. CASE x = x0 /\ y = y0
      BY <1>3, <2>2
    <2> QED BY <1>2, <1>4, <2>1, <2>2
  <1>5. ASSUME after[pli] # -1
        PROVE  \E x \in 0 .. t.w - 1, y \in 0 .. t.h - 1 :
                 EncodedIn(t, k + 1, x, y) /\ LruIn(t, pli, x, y) = after[pli]
    <2>1. CASE after[pli] = coded[pli]
      BY <1>2, <1>5, <2>1 DEF CodedInv
    <2>2. CASE after[pli] = LruIn(t, pli, x0, y0)
      BY <1>2, <2>2
    <2> QED BY <1>3, <2>1, <2>2
  <1> QED BY <1>3, <1>4, <1>5

\* What is coded at the corners of the units of the tile is what is read there.
LEMMA CodedIsRead ==
  ASSUME Geometry(f, ts), Placed(f, ts), NEW x0 \in 0 .. ts.w - 1, NEW y0 \in 0 .. ts.h - 1,
         NEW now, now = {pli \in Planes : /\ HasUnitIn(ts, pli, x0, y0)
                                          /\ x0 % rp(pli).h_sbs = 0 /\ y0 % rp(pli).v_sbs = 0}
  PROVE  {<<pli, units(pli).x + x0 \div rp(pli).h_sbs, units(pli).y + y0 \div rp(pli).v_sbs>> :
            pli \in now} = read_lr(ts.x + x0, ts.y + y0)
PROOF
  <1> DEFINE X == ts.x + x0
             Y == ts.y + y0
             px(pli) == 64 \div 2^xdec(f, pli)
             py(pli) == 64 \div 2^ydec(f, pli)
             A(pli) == ReadAlong(X, px(pli), rp(pli).unit_size, rp(pli).cols)
             B(pli) == ReadAlong(Y, py(pli), rp(pli).unit_size, rp(pli).rows)
             a(pli) == units(pli).x + x0 \div rp(pli).h_sbs
             b(pli) == units(pli).y + y0 \div rp(pli).v_sbs
  <1>1. read_lr(X, Y) = UNION {{pli} \X A(pli) \X B(pli) : pli \in Planes}
    BY DEF read_lr, ReadAlong
  <1>2. ts.x \in Nat /\ ts.y \in Nat /\ ts.w \in Nat \ {0} /\ ts.h \in Nat \ {0} /\ X \in Nat /\ Y \in Nat
    BY DEF Geometry
  <1>3. ASSUME NEW pli \in Planes
        PROVE  /\ pli \in now => A(pli) = {a(pli)} /\ B(pli) = {b(pli)}
               /\ pli \notin now => A(pli) = {} \/ B(pli) = {}
    <2> DEFINE h == rp(pli).h_sbs
               v == rp(pli).v_sbs
               m == rp(pli).cols
               n == rp(pli).rows
    <2>1. pli \in PlanesOf(f) /\ PlanesOf(f) = Planes
      BY SameEncoded
    <2>2. h \in UnitSbs /\ v \in UnitSbs
      BY <2>1 DEF Geometry, rp
    <2>3. /\ m \in Nat /\ n \in Nat /\ ts.x % h = 0 /\ ts.y % v = 0
          /\ rp(pli).unit_size = h * px(pli) /\ rp(pli).unit_size = v * py(pli)
          /\ units(pli).x = AtMost(ts.x \div h, m) /\ units(pli).y = AtMost(ts.y \div v, n)
          /\ units(pli).cols = AtMost(CeilDiv(ts.w, h), m - units(pli).x)
          /\ units(pli).rows = AtMost(CeilDiv(ts.h, v), n - units(pli).y)
      BY <2>1 DEF Placed, rp, units
    <2>4. px(pli) \in {32, 64} /\ py(pli) \in {32, 64}
      BY <2>1 DEF Placed
    <2>5. A(pli) = IF X % h = 0 /\ X \div h < m THEN {X \div h} ELSE {}
      <3> DEFINE d == px(pli)
      <3>1. d \in {32, 64} /\ rp(pli).unit_size = h * d
        BY <2>3, <2>4
      <3> DEFINE size == rp(pli).unit_size
      <3>2. A(pli) = ReadAlong(X, d, size, m) /\ size = UnitPixels(h, d)
        BY <3>1 DEF UnitPixels
      <3>3. X \in Nat /\ h \in UnitSbs /\ m \in Nat /\ d \in {32, 64}
        BY <1>2, <2>2, <2>3, <3>1
      <3> HIDE DEF A, d, h, m, X, size
      <3>4. ReadAlong(X, d, size, m) = UnitAt(X, h, m)
        BY <3>2, <3>3, ReadRange
      <3> QED BY <3>2, <3>4 DEF UnitAt
    <2>6. B(pli) = IF Y % v = 0 /\ Y \div v < n THEN {Y \div v} ELSE {}
      <3> DEFINE d == py(pli)
      <3>1. d \in {32, 64} /\ rp(pli).unit_size = v * d
        BY <2>3, <2>4
      <3> DEFINE size == rp(pli).unit_size
      <3>2. B(pli) = ReadAlong(Y, d, size, n) /\ size = UnitPixels(v, d)
        BY <3>1 DEF UnitPixels
      <3>3. Y \in Nat /\ v \in UnitSbs /\ n \in Nat /\ d \in {32, 64}
        BY <1>2, <2>2, <2>3, <3>1
      <3> HIDE DEF B, d, v, n, Y, size
      <3>4. ReadAlong(Y, d, size, n) = UnitAt(Y, v, n)
        BY <3>2, <3>3, ReadRange
      <3> QED BY <3>2, <3>4 DEF UnitAt
    <2>7. /\ X % h = 0 <=> x0 % h = 0
          /\ X \div h < m <=> x0 \div h < units(pli).cols
          /\ x0 \div h < units(pli).cols => a(pli) = X \div h
      <3> HIDE DEF h, m
      <3>1. LET u == AtMost(ts.x \div h, m)
                c == AtMost(CeilDiv(ts.w, h), m - u)
            IN /\ (ts.x + x0) % h = 0 <=> x0 % h = 0
               /\ (ts.x + x0) \div h < m <=> x0 \div h < c
               /\ x0 \div h < c => u + x0 \div h = (ts.x + x0) \div h
        BY <1>2, <2>2, <2>3, UnitOfFrame
      <3>2. a(pli) = units(pli).x + x0 \div h
        BY DEF h
      <3> HIDE DEF a
      <3> QED BY <2>3, <3>1, <3>2
    <2>8. /\ Y % v = 0 <=> y0 % v = 0
          /\ Y \div v < n <=> y0 \div v < units(pli).rows
          /\ y0 \div v < units(pli).rows => b(pli) = Y \div v
      <3> HIDE DEF v, n
      <3>1. LET u == AtMost(ts.y \div v, n)
                c == AtMost(CeilDiv(ts.h, v), n - u)
            IN /\ (ts.y + y0) % v = 0 <=> y0 % v = 0
               /\ (ts.y + y0) \div v < n <=> y0 \div v < c
               /\ y0 \div v < c => u + y0 \div v = (ts.y + y0) \div v
        BY <1>2, <2>2, <2>3, UnitOfFrame
      <3>2. b(pli) = units(pli).y + y0 \div v
        BY DEF v
      <3> HIDE DEF b
      <3> QED BY <2>3, <3>1, <3>2
    <2>9. pli \in now <=> /\ x0 \div h < units(pli).cols /\ y0 \div v < units(pli).rows
                          /\ x0 % h = 0 /\ y0 % v = 0
      BY DEF HasUnitIn, rp, units
    <2> HIDE DEF A, B, a, b, h, v, m, n, X, Y
    <2> QED BY <2>5, <2>6, <2>7, <2>8, <2>9
  <1> HIDE DEF A, B, a, b, X, Y
  <1>4. now \subseteq Planes
    OBVIOUS
  <1>5. ASSUME NEW z PROVE z \in {<<pli, a(pli), b(pli)>> : pli \in now}
                            <=> \E pli \in Planes : z \in {pli} \X A(pli) \X B(pli)
    <2>1. ASSUME NEW pli \in Planes PROVE z \in {pli} \X A(pli) \X B(pli)
                                            <=> pli \in now /\ z = <<pli, a(pli), b(pli)>>
      <3>1. CASE pli \in now
        <4>1. A(pli) = {a(pli)} /\ B(pli) = {b(pli)}
          BY <1>3, <3>1
        <4> QED BY <3>1, <4>1
      <3>2. CASE pli \notin now
        <4>1. A(pli) = {} \/ B(pli) = {}
          BY <1>3, <3>2
        <4> QED BY <3>2, <4>1
      <3> QED BY <3>1, <3>2
    <2> QED BY <1>4, <2>1
  <1>6. {<<pli, a(pli), b(pli)>> : pli \in now} = read_lr(X, Y)
    BY <1>1, <1>5
  <1> QED BY <1>6 DEF a, b, X, Y

-----------------------------------------------------------------------------
(* The walk of check_lf_queue *)

\* A state of the walk.
IsWalk(s) ==
  \E n, q, ready, rdoed, coded, cd, lr, wr, wa :
    s = [n |-> n, q |-> q, last |-> [ready |-> ready, rdoed |-> rdoed, coded |-> coded],
         cdef |-> cd, lrf |-> lr, written |-> wr, wait |-> wa]

\* An entry that waits for a unit.
Waits(qe, ready) == \E pli \in Planes : qe.lru[pli] > ready[pli]

\* A decision leaves the queue and what is ready.
LEMMA DecisionKeeps ==
  ASSUME NEW s, NEW qe, IsWalk(s)
  PROVE  LET d == rdo_loop_decision(s, qe)
         IN /\ IsWalk(d) /\ d.q = s.q /\ d.wait = s.wait /\ d.last.ready = s.last.ready
            /\ d.n = s.n /\ d.written = s.written /\ d.last.coded = s.last.coded
            /\ d.cdef = DecidedCdef(s.n, qe, s.cdef) /\ d.lrf = DecidedLrf(s.n, qe, s.lrf)
            /\ \A pli \in Planes : d.last.rdoed[pli] = AtLeast(s.last.rdoed[pli], qe.lru[pli])
PROOF
  <1> DEFINE A == DecidedCdef(s.n, qe, s.cdef)
             B == DecidedLrf(s.n, qe, s.lrf)
             C == [pli \in 0 .. 2 |-> IF pli \in Planes
                                      THEN AtLeast(s.last.rdoed[pli], qe.lru[pli]) ELSE s.last.rdoed[pli]]
             d == rdo_loop_decision(s, qe)
  <1>1. d = [s EXCEPT !.cdef = A, !.lrf = B, !.last.rdoed = C]
    BY DEF rdo_loop_decision, DecidedCdef, DecidedLrf, RdoInside
  <1> HIDE DEF A, B, C, d
  <1>2. PICK n, q, ready, rdoed, coded, cd, lr, wr, wa :
          s = [n |-> n, q |-> q, last |-> [ready |-> ready, rdoed |-> rdoed, coded |-> coded],
               cdef |-> cd, lrf |-> lr, written |-> wr, wait |-> wa]
    BY DEF IsWalk
  <1>3. d = [n |-> n, q |-> q, last |-> [ready |-> ready, rdoed |-> C, coded |-> coded],
             cdef |-> A, lrf |-> B, written |-> wr, wait |-> wa]
    BY <1>1, <1>2
  <1>4. IsWalk(d)
    BY <1>3 DEF IsWalk
  <1>5. /\ d.q = s.q /\ d.wait = s.wait /\ d.last.ready = s.last.ready /\ d.n = s.n
        /\ d.written = s.written /\ d.cdef = A /\ d.lrf = B /\ d.last.rdoed = C
        /\ d.last.coded = s.last.coded
    BY <1>2, <1>3
  <1>6. \A pli \in Planes : C[pli] = AtLeast(s.last.rdoed[pli], qe.lru[pli])
    BY DEF C, Planes
  <1> QED BY <1>4, <1>5, <1>6 DEF d, A, B

\* What is written for the superblock has been decided.
WritesDecided(s, qe) ==
  /\ qe.cdef_coded => <<qe.x, qe.y>> \in s.cdef
  /\ f.restoration => \A pli \in Planes : qe.lru[pli] # -1 => <<pli, qe.lru[pli]>> \in s.lrf

\* The planes whose unit is coded with the superblock.
CodedNow(coded, qe) == {pli \in Planes : f.restoration /\ qe.lru[pli] # -1 /\ coded[pli] < qe.lru[pli]}

\* They are the ones that are read there.
WritesRead(coded, qe) ==
  f.restoration =>
    {<<pli, units(pli).x + qe.x \div rp(pli).h_sbs, units(pli).y + qe.y \div rp(pli).v_sbs>> :
       pli \in CodedNow(coded, qe)} = read_lr(ts.x + qe.x, ts.y + qe.y)

\* What is written has been decided, and is where it is read.
WrittenWell(r) == r.decided /\ (f.restoration => r.lrf = read_lr(r.x, r.y))

\* The superblock is written and leaves the queue.
LEMMA WriteTakes ==
  ASSUME NEW s, NEW qe, IsWalk(s)
  PROVE  LET d == WriteSb(s, qe)
         IN /\ IsWalk(d) /\ d.q = Tail(s.q) /\ d.wait = s.wait /\ d.last.ready = s.last.ready
            /\ d.n = s.n /\ d.last.rdoed = s.last.rdoed /\ d.cdef = s.cdef /\ d.lrf = s.lrf
            /\ f.restoration => \A pli \in Planes :
                 d.last.coded[pli] = IF qe.lru[pli] # -1 /\ s.last.coded[pli] < qe.lru[pli]
                                     THEN qe.lru[pli] ELSE s.last.coded[pli]
            /\ (\A r \in s.written : WrittenWell(r)) /\ WritesDecided(s, qe) /\ WritesRead(s.last.coded, qe)
                 => \A r \in d.written : WrittenWell(r)
PROOF
  <1> DEFINE now == CodedNow(s.last.coded, qe)
             A == [pli \in 0 .. 2 |-> IF pli \in now THEN qe.lru[pli] ELSE s.last.coded[pli]]
             U == {<<pli, units(pli).x + qe.x \div rp(pli).h_sbs,
                          units(pli).y + qe.y \div rp(pli).v_sbs>> : pli \in now}
             D == /\ qe.cdef_coded => <<qe.x, qe.y>> \in s.cdef
                  /\ \A pli \in now : <<pli, qe.lru[pli]>> \in s.lrf
             new == [x |-> ts.x + qe.x, y |-> ts.y + qe.y, lrf |-> U, decided |-> D]
             B == s.written \cup {new}
             d == WriteSb(s, qe)
  <1>1. d = [s EXCEPT !.last.coded = A, !.written = B, !.q = Tail(s.q)]
    BY DEF WriteSb, CodedNow
  <1> HIDE DEF A, B, d
  <1>2. PICK n, q, ready, rdoed, coded, cd, lr, wr, wa :
          s = [n |-> n, q |-> q, last |-> [ready |-> ready, rdoed |-> rdoed, coded |-> coded],
               cdef |-> cd, lrf |-> lr, written |-> wr, wait |-> wa]
    BY DEF IsWalk
  <1>3. d = [n |-> n, q |-> Tail(q), last |-> [ready |-> ready, rdoed |-> rdoed, coded |-> A],
             cdef |-> cd, lrf |-> lr, written |-> B, wait |-> wa]
    BY <1>1, <1>2
  <1>4. IsWalk(d)
    BY <1>3 DEF IsWalk
  <1>5. /\ d.q = Tail(s.q) /\ d.wait = s.wait /\ d.last.ready = s.last.ready
        /\ d.n = s.n /\ d.last.rdoed = s.last.rdoed /\ d.cdef = s.cdef /\ d.lrf = s.lrf
        /\ d.written = B /\ d.last.coded = A
    BY <1>2, <1>3
  <1>6. ASSUME \A r \in s.written : WrittenWell(r), WritesDecided(s, qe), WritesRead(s.last.coded, qe)
        PROVE  \A r \in B : WrittenWell(r)
    <2>1. D
      BY <1>6 DEF WritesDecided, CodedNow
    <2>2. f.restoration => U = read_lr(ts.x + qe.x, ts.y + qe.y)
      BY <1>6 DEF WritesRead
    <2>3. new.x = ts.x + qe.x /\ new.y = ts.y + qe.y /\ new.lrf = U /\ (new.decided <=> D)
      <3> HIDE DEF U, D
      <3> QED OBVIOUS
    <2> HIDE DEF U, D, new
    <2>4. WrittenWell(new)
      BY <2>1, <2>2, <2>3 DEF WrittenWell
    <2> QED BY <1>6, <2>4 DEF B
  <1>7. ASSUME f.restoration, NEW pli \in Planes
        PROVE  A[pli] = IF qe.lru[pli] # -1 /\ s.last.coded[pli] < qe.lru[pli]
                        THEN qe.lru[pli] ELSE s.last.coded[pli]
    <2>1. pli \in 0 .. 2
      BY DEF Planes
    <2> QED BY <1>7, <2>1 DEF A, CodedNow
  <1> QED BY <1>4, <1>5, <1>6, <1>7 DEF d

\* One step of the walk.
LEMMA HeadFacts ==
  ASSUME NEW s, NEW qe, IsWalk(s), s.wait \in BOOLEAN
  PROVE  LET d == CheckHead(s, qe)
         IN /\ IsWalk(d) /\ d.last.ready = s.last.ready /\ d.wait \in BOOLEAN
            /\ s.wait \/ Waits(qe, s.last.ready) => d.wait /\ d.q = s.q
            /\ ~(s.wait \/ Waits(qe, s.last.ready)) => ~d.wait /\ d.q = Tail(s.q)
PROOF
  <1> DEFINE d == CheckHead(s, qe)
  <1>1. CASE s.wait \/ Waits(qe, s.last.ready)
    <2>1. d = [s EXCEPT !.wait = TRUE]
      BY <1>1 DEF CheckHead, Waits
    <2> HIDE DEF d
    <2>2. PICK n, q, ready, rdoed, coded, cd, lr, wr, wa :
            s = [n |-> n, q |-> q, last |-> [ready |-> ready, rdoed |-> rdoed, coded |-> coded],
                 cdef |-> cd, lrf |-> lr, written |-> wr, wait |-> wa]
      BY DEF IsWalk
    <2>3. d = [n |-> n, q |-> q, last |-> [ready |-> ready, rdoed |-> rdoed, coded |-> coded],
               cdef |-> cd, lrf |-> lr, written |-> wr, wait |-> TRUE]
      BY <2>1, <2>2
    <2>4. IsWalk(d)
      BY <2>3 DEF IsWalk
    <2>5. d.last.ready = s.last.ready /\ d.wait /\ d.wait \in BOOLEAN /\ d.q = s.q
      BY <2>2, <2>3
    <2> QED BY <1>1, <2>4, <2>5 DEF d
  <1>2. CASE ~(s.wait \/ Waits(qe, s.last.ready))
    <2>1. d = WriteSb(s, qe) \/ d = WriteSb(rdo_loop_decision(s, qe), qe)
      BY <1>2 DEF CheckHead, Waits
    <2>2. IsWalk(d) /\ d.q = Tail(s.q) /\ d.wait = s.wait /\ d.last.ready = s.last.ready
      <3> HIDE DEF d
      <3>1. CASE d = WriteSb(s, qe)
        BY <3>1, WriteTakes
      <3>2. CASE d = WriteSb(rdo_loop_decision(s, qe), qe)
        <4> DEFINE e == rdo_loop_decision(s, qe)
        <4>1. IsWalk(e) /\ e.q = s.q /\ e.wait = s.wait /\ e.last.ready = s.last.ready
          BY DecisionKeeps
        <4> HIDE DEF e
        <4>2. LET z == WriteSb(e, qe)
              IN IsWalk(z) /\ z.q = Tail(e.q) /\ z.wait = e.wait /\ z.last.ready = e.last.ready
          BY <4>1, WriteTakes
        <4> QED BY <3>2, <4>1, <4>2 DEF e
      <3> QED BY <2>1, <3>1, <3>2
    <2> QED BY <1>2, <2>2
  <1> QED BY <1>1, <1>2

\* The entry of superblock number k.
SbEntry(g, t, k, e) ==
  /\ e.x \in 0 .. t.w - 1 /\ e.y \in 0 .. t.h - 1 /\ NumberIs(t, k, e.x, e.y)
  /\ \A pli \in PlanesOf(g) : e.lru[pli] = LruIn(t, pli, e.x, e.y)

\* What the walk keeps, k superblocks being written.
WalkInv(s, k) ==
  /\ \A pli \in PlanesOf(f) : s.last.ready[pli] \in Int
  /\ ReadySound(f, ts, s.n, s.last.ready)
  /\ DecisionInv(f, ts, s.n, k, s.last.rdoed, s.cdef, s.lrf)
  /\ CodedInv(f, ts, k, s.last.coded)
  /\ \A r \in s.written : WrittenWell(r)

\* One step of the walk decides before it writes, and codes what is read.
LEMMA HeadDecides ==
  ASSUME Geometry(f, ts), Nested(f, ts), Placed(f, ts), NEW s, NEW qe, IsWalk(s), s.wait \in BOOLEAN,
         NEW k, WalkInv(s, k), SbEntry(f, ts, k, qe), k < s.n
  PROVE  LET d == CheckHead(s, qe)
         IN /\ d.n = s.n
            /\ s.wait \/ Waits(qe, s.last.ready) => WalkInv(d, k)
            /\ ~(s.wait \/ Waits(qe, s.last.ready)) => WalkInv(d, k + 1)
PROOF
  <1> DEFINE d == CheckHead(s, qe)
             x0 == qe.x
             y0 == qe.y
             rdoed == s.last.rdoed
  <1>1. CASE s.wait \/ Waits(qe, s.last.ready)
    <2>1. d = [s EXCEPT !.wait = TRUE]
      BY <1>1 DEF CheckHead, Waits
    <2> HIDE DEF d
    <2>2. PICK n, q, ready, rd, coded, cd, lr, wr, wa :
            s = [n |-> n, q |-> q, last |-> [ready |-> ready, rdoed |-> rd, coded |-> coded],
                 cdef |-> cd, lrf |-> lr, written |-> wr, wait |-> wa]
      BY DEF IsWalk
    <2>3. /\ d.n = s.n /\ d.last = s.last /\ d.cdef = s.cdef /\ d.lrf = s.lrf
          /\ d.written = s.written
      BY <2>1, <2>2
    <2>4. WalkInv(d, k)
      BY <2>3 DEF WalkInv
    <2> QED BY <1>1, <2>3, <2>4 DEF d
  <1>2. CASE ~(s.wait \/ Waits(qe, s.last.ready))
    <2>0. PlanesOf(f) = Planes
      BY SameEncoded
    <2>1. /\ x0 \in 0 .. ts.w - 1 /\ y0 \in 0 .. ts.h - 1 /\ NumberIs(ts, k, x0, y0)
          /\ \A pli \in Planes : qe.lru[pli] = LruIn(ts, pli, x0, y0)
      BY <2>0 DEF SbEntry
    <2>2. EncodedIn(ts, s.n, x0, y0) /\ ~EncodedIn(ts, k, x0, y0)
      <3>1. EncodedIn(ts, s.n, x0, y0)
        BY <2>1 DEF EncodedIn, NumberIs
      <3>2. k \in Nat
        <4>1. ts.w \in Nat \ {0} /\ ts.h \in Nat \ {0} /\ x0 \in Nat /\ y0 \in Nat
          BY <2>1 DEF Geometry
        <4>2. y0 * ts.w + x0 \in Nat
          BY <4>1
        <4> QED BY <2>1, <4>2 DEF NumberIs
      <3> QED BY <2>1, <3>1, <3>2 DEF EncodedIn, NumberIs
    <2>3. \A pli \in PlanesOf(f) : LruIn(ts, pli, x0, y0) <= s.last.ready[pli]
      <3> SUFFICES ASSUME NEW pli \in Planes PROVE LruIn(ts, pli, x0, y0) <= s.last.ready[pli]
        BY <2>0
      <3>1. ~(qe.lru[pli] > s.last.ready[pli])
        BY <1>2 DEF Waits
      <3>2. s.last.ready[pli] \in Int
        BY <2>0 DEF WalkInv
      <3>3. LruIn(ts, pli, x0, y0) \in Int
        <4>1. x0 \in Nat /\ y0 \in Nat
          BY <2>1 DEF Geometry
        <4> QED BY <2>0, <4>1, LruRange
      <3> HIDE DEF x0, y0
      <3> QED BY <2>1, <3>1, <3>2, <3>3
    <2>4. already_rdoed(s, qe) <=> Skips(f, ts, rdoed, x0, y0)
      BY <2>0, <2>1 DEF already_rdoed, Skips
    <2>5. ReadySound(f, ts, s.n, s.last.ready) /\ DecisionInv(f, ts, s.n, k, rdoed, s.cdef, s.lrf)
      BY DEF WalkInv
    <2>5c. CodedInv(f, ts, k, s.last.coded)
      BY DEF WalkInv
    <2>5r. WritesRead(s.last.coded, qe)
      <3> SUFFICES ASSUME f.restoration PROVE WritesRead(s.last.coded, qe)
        BY DEF WritesRead
      <3> DEFINE now == CodedNow(s.last.coded, qe)
      <3>1. ASSUME NEW pli \in Planes
            PROVE  pli \in now <=> /\ HasUnitIn(ts, pli, x0, y0)
                                   /\ x0 % rp(pli).h_sbs = 0 /\ y0 % rp(pli).v_sbs = 0
        <4> HIDE DEF x0, y0
        <4>0. x0 \in Nat /\ y0 \in Nat
          BY <2>1 DEF Geometry
        <4>1. pli \in PlanesOf(f) /\ qe.lru[pli] = LruIn(ts, pli, x0, y0)
          BY <2>0, <2>1
        <4>2. LruIn(ts, pli, x0, y0) # -1 <=> HasUnitIn(ts, pli, x0, y0)
          BY <4>0, <4>1, LruRange
        <4>3. pli \in now <=> LruIn(ts, pli, x0, y0) # -1 /\ s.last.coded[pli] < LruIn(ts, pli, x0, y0)
          BY <4>1 DEF CodedNow
        <4>4. ASSUME LruIn(ts, pli, x0, y0) # -1
              PROVE  s.last.coded[pli] < LruIn(ts, pli, x0, y0)
                       <=> x0 % ts.rp[pli].h_sbs = 0 /\ y0 % ts.rp[pli].v_sbs = 0
          BY <2>1, <2>5c, <4>1, <4>4, CodedAtCorner
        <4> HIDE DEF now
        <4> QED BY <4>2, <4>3, <4>4 DEF rp
      <3>2. now = {pli \in Planes : /\ HasUnitIn(ts, pli, x0, y0)
                                    /\ x0 % rp(pli).h_sbs = 0 /\ y0 % rp(pli).v_sbs = 0}
        <4>1. now \subseteq Planes
          BY DEF CodedNow
        <4> HIDE DEF now, x0, y0
        <4> QED BY <3>1, <4>1
      <3> HIDE DEF now, x0, y0
      <3>3. {<<pli, units(pli).x + x0 \div rp(pli).h_sbs, units(pli).y + y0 \div rp(pli).v_sbs>> :
               pli \in now} = read_lr(ts.x + x0, ts.y + y0)
        BY <2>1, <3>2, CodedIsRead
      <3> QED BY <3>3 DEF WritesRead, now, x0, y0
    <2>5s. ASSUME NEW after, f.restoration => \A pli \in Planes :
                    after[pli] = IF qe.lru[pli] # -1 /\ s.last.coded[pli] < qe.lru[pli]
                                 THEN qe.lru[pli] ELSE s.last.coded[pli]
           PROVE  CodedInv(f, ts, k + 1, after)
      <3>1. f.restoration => \A pli \in PlanesOf(f) :
              after[pli] = IF LruIn(ts, pli, x0, y0) # -1 /\ s.last.coded[pli] < LruIn(ts, pli, x0, y0)
                           THEN LruIn(ts, pli, x0, y0) ELSE s.last.coded[pli]
        BY <2>0, <2>1, <2>5s
      <3> HIDE DEF x0, y0
      <3> QED BY <2>1, <2>5c, <3>1, CodedStep
    <2>6. CASE (qe.cdef_coded \/ f.restoration) /\ ~already_rdoed(s, qe)
      <3> DEFINE e == rdo_loop_decision(s, qe)
      <3>1. /\ IsWalk(e) /\ e.last.ready = s.last.ready /\ e.n = s.n /\ e.written = s.written
            /\ e.last.coded = s.last.coded
            /\ e.cdef = DecidedCdef(s.n, qe, s.cdef) /\ e.lrf = DecidedLrf(s.n, qe, s.lrf)
            /\ \A pli \in Planes : e.last.rdoed[pli] = AtLeast(rdoed[pli], qe.lru[pli])
        BY DecisionKeeps
      <3> HIDE DEF e
      <3>2. /\ s.cdef \subseteq e.cdef /\ s.lrf \subseteq e.lrf /\ SawEncoded(ts, s.n, e.cdef, e.lrf)
            /\ DecidesAt(f, ts, s.n, x0, y0, e.cdef, e.lrf)
        <4>1. SawEncoded(ts, s.n, s.cdef, s.lrf)
          BY <2>5 DEF DecisionInv
        <4> QED BY <2>1, <3>1, <4>1, DecisionSets
      <3>3. \A pli \in PlanesOf(f) : e.last.rdoed[pli] = AtLeast(rdoed[pli], LruIn(ts, pli, x0, y0))
        BY <2>0, <2>1, <3>1
      <3>4. /\ DecisionInv(f, ts, s.n, k + 1, e.last.rdoed, e.cdef, e.lrf)
            /\ Settled(f, ts, e.cdef, e.lrf, x0, y0)
        <4>1. ~Skips(f, ts, rdoed, x0, y0)
          BY <2>4, <2>6
        <4> HIDE DEF x0, y0, rdoed
        <4> QED BY <2>1, <2>2, <2>3, <2>5, <3>2, <3>3, <4>1, DecisionStep
      <3>5. WritesDecided(e, qe)
        BY <2>0, <2>1, <3>4 DEF Settled, WritesDecided
      <3>6. d = WriteSb(e, qe)
        BY <1>2, <2>6 DEF CheckHead, Waits, e
      <3> HIDE DEF d
      <3>7. /\ d.n = e.n /\ d.last.ready = e.last.ready /\ d.last.rdoed = e.last.rdoed
            /\ d.cdef = e.cdef /\ d.lrf = e.lrf /\ \A r \in d.written : WrittenWell(r)
            /\ f.restoration => \A pli \in Planes :
                 d.last.coded[pli] = IF qe.lru[pli] # -1 /\ e.last.coded[pli] < qe.lru[pli]
                                     THEN qe.lru[pli] ELSE e.last.coded[pli]
        <4>1. (\A r \in e.written : WrittenWell(r)) /\ WritesRead(e.last.coded, qe)
          BY <2>5r, <3>1 DEF WalkInv
        <4> QED BY <3>1, <3>5, <3>6, <4>1, WriteTakes
      <3>8. WalkInv(d, k + 1)
        <4>1. CodedInv(f, ts, k + 1, d.last.coded)
          BY <2>5s, <3>1, <3>7
        <4> QED BY <2>5, <3>1, <3>4, <3>7, <4>1 DEF WalkInv
      <3> QED BY <1>2, <3>1, <3>7, <3>8 DEF d
    <2>7. CASE ~((qe.cdef_coded \/ f.restoration) /\ ~already_rdoed(s, qe))
      <3>1. d = WriteSb(s, qe)
        BY <1>2, <2>7 DEF CheckHead, Waits
      <3>2. f.restoration => Covered(f, ts, rdoed, x0, y0)
        <4> SUFFICES ASSUME f.restoration PROVE Covered(f, ts, rdoed, x0, y0)
          OBVIOUS
        <4>1. Skips(f, ts, rdoed, x0, y0)
          BY <2>4, <2>7
        <4>2. Rdoed(f, ts, k, rdoed) /\ WrittenCovered(f, ts, k, rdoed)
          BY <2>5 DEF DecisionInv
        <4> HIDE DEF x0, y0, rdoed
        <4> QED BY <2>1, <4>1, <4>2, SkipsCovered
      <3>3. DecisionInv(f, ts, s.n, k + 1, rdoed, s.cdef, s.lrf)
        <4> HIDE DEF x0, y0, rdoed
        <4> QED BY <2>1, <2>5, <3>2, WriteStep
      <3>4. WritesDecided(s, qe)
        <4>1. CASE already_rdoed(s, qe)
          <5>1. Settled(f, ts, s.cdef, s.lrf, x0, y0)
            BY <2>1, <2>2, <2>4, <2>5, <4>1 DEF DecisionInv, SkipsSettled
          <5> QED BY <2>0, <2>1, <5>1 DEF Settled, WritesDecided
        <4>2. CASE ~already_rdoed(s, qe)
          BY <2>7, <4>2 DEF WritesDecided
        <4> QED BY <4>1, <4>2
      <3> HIDE DEF d
      <3>5. /\ d.n = s.n /\ d.last.ready = s.last.ready /\ d.last.rdoed = rdoed
            /\ d.cdef = s.cdef /\ d.lrf = s.lrf /\ \A r \in d.written : WrittenWell(r)
            /\ f.restoration => \A pli \in Planes :
                 d.last.coded[pli] = IF qe.lru[pli] # -1 /\ s.last.coded[pli] < qe.lru[pli]
                                     THEN qe.lru[pli] ELSE s.last.coded[pli]
        <4>1. \A r \in s.written : WrittenWell(r)
          BY DEF WalkInv
        <4> QED BY <2>5r, <3>1, <3>4, <4>1, WriteTakes
      <3>6. WalkInv(d, k + 1)
        <4>1. CodedInv(f, ts, k + 1, d.last.coded)
          BY <2>5s, <3>5
        <4> QED BY <2>5, <3>3, <3>5, <4>1 DEF WalkInv
      <3> QED BY <1>2, <3>5, <3>6 DEF d
    <2> QED BY <2>6, <2>7
  <1> QED BY <1>1, <1>2

\* The steps of check_lf_queue.
WalksBy(walk, s) ==
  walk[0] = s /\ \A n \in 1 .. Len(s.q) : walk[n] = CheckHead(walk[n - 1], s.q[n])

\* check_lf_queue is the end of such steps.
LEMMA WalkSteps ==
  ASSUME NEW s, Len(s.q) \in Nat
  PROVE  \E walk : WalksBy(walk, s) /\ check_lf_queue(s) = walk[Len(s.q)]
PROOF
  <1> DEFINE N == Len(s.q)
             Step(x, n) == CheckHead(x, s.q[n])
             Upto(w, m) == w = [n \in 0 .. m |-> IF n = 0 THEN s ELSE Step(w[n - 1], n)]
             Good == {m \in 0 .. N : \E w : Upto(w, m)}
             walk == CHOOSE w : Upto(w, N)
  <1>0. N \in Nat /\ N \in 0 .. N
    OBVIOUS
  <1> HIDE DEF Step
  <1>1. 0 \in Good
    <2> DEFINE w == [n \in 0 .. 0 |-> s]
    <2>1. w = [n \in 0 .. 0 |-> IF n = 0 THEN s ELSE Step(w[n - 1], n)]
      OBVIOUS
    <2> HIDE DEF w
    <2>2. Upto(w, 0) /\ 0 \in 0 .. N
      BY <1>0, <2>1
    <2> QED BY <2>2
  <1>2. ASSUME NEW m \in 0 .. N - 1, m \in Good PROVE m + 1 \in Good
    <2>1. PICK w : Upto(w, m)
      BY <1>2
    <2> DEFINE u == [n \in 0 .. m + 1 |-> IF n = m + 1 THEN Step(w[m], m + 1) ELSE w[n]]
    <2>2. ASSUME NEW n \in 0 .. m + 1
          PROVE  u[n] = IF n = 0 THEN s ELSE Step(u[n - 1], n)
      <3>1. CASE n = 0
        <4>1. 0 \in 0 .. m /\ 0 # m + 1
          BY <1>0
        <4> QED BY <2>1, <3>1, <4>1
      <3>2. CASE n \in 1 .. m
        <4>1. n \in 0 .. m /\ n # 0 /\ n # m + 1 /\ n - 1 \in 0 .. m + 1 /\ n - 1 # m + 1
          BY <1>0, <3>2
        <4>2. u[n] = w[n] /\ u[n - 1] = w[n - 1]
          BY <4>1
        <4>3. w[n] = Step(w[n - 1], n)
          BY <2>1, <4>1
        <4> QED BY <4>1, <4>2, <4>3
      <3>3. CASE n = m + 1
        <4>1. n # 0 /\ n - 1 = m /\ m \in 0 .. m + 1 /\ m # m + 1
          BY <1>0, <3>3
        <4> QED BY <3>3, <4>1
      <3>4. n = 0 \/ n \in 1 .. m \/ n = m + 1
        BY <1>0
      <3> QED BY <3>1, <3>2, <3>3, <3>4
    <2>3. DOMAIN u = 0 .. m + 1 /\ u = [n \in 0 .. m + 1 |-> u[n]]
      OBVIOUS
    <2> HIDE DEF u
    <2>4. Upto(u, m + 1)
      BY <2>2, <2>3
    <2>5. m + 1 \in 0 .. N
      BY <1>0
    <2> QED BY <2>4, <2>5
  <1>3. N \in Good
    <2> HIDE DEF Good, N
    <2> QED BY <1>0, <1>1, <1>2, InductionUpTo
  <1>4. Upto(walk, N)
    <2> HIDE DEF Upto
    <2> QED BY <1>3
  <1>5. check_lf_queue(s) = walk[N]
    BY DEF check_lf_queue, Step
  <1> HIDE DEF walk
  <1>6. walk[0] = s /\ \A n \in 1 .. N : walk[n] = Step(walk[n - 1], n)
    <2>1. 0 \in 0 .. N /\ \A n \in 1 .. N : n \in 0 .. N /\ n # 0
      OBVIOUS
    <2> HIDE DEF N
    <2> QED BY <1>4, <2>1
  <1> QED BY <1>5, <1>6 DEF WalksBy, Step

\* The walk takes entries from the front, all of them if none waits, and keeps
\* WalkInv.
LEMMA WalkTakes ==
  ASSUME Geometry(f, ts), Nested(f, ts), Placed(f, ts), NEW s, IsWalk(s), IsSeq(s.q), s.wait = FALSE,
         NEW k \in Nat, k + Len(s.q) = s.n, WalkInv(s, k),
         \A i \in 1 .. Len(s.q) : SbEntry(f, ts, k + i - 1, s.q[i])
  PROVE  LET d == check_lf_queue(s)
         IN /\ IsWalk(d) /\ d.last.ready = s.last.ready /\ d.n = s.n
            /\ \E m \in 0 .. Len(s.q) : d.q = SubSeq(s.q, m + 1, Len(s.q)) /\ WalkInv(d, k + m)
            /\ (\A i \in 1 .. Len(s.q) : ~Waits(s.q[i], s.last.ready)) => d.q = <<>>
PROOF
  <1> DEFINE L == Len(s.q)
             rdy == s.last.ready
             Free(n) == \A i \in 1 .. n : ~Waits(s.q[i], rdy)
             d == check_lf_queue(s)
  <1>0. PICK S : s.q \in Seq(S)
    BY DEF IsSeq
  <1>1. L \in Nat
    BY <1>0
  <1>2. PICK walk : WalksBy(walk, s) /\ d = walk[L]
    BY <1>1, WalkSteps
  <1> HIDE DEF L, rdy, d
  <1> DEFINE At(n) == /\ IsWalk(walk[n]) /\ walk[n].last.ready = rdy /\ walk[n].wait \in BOOLEAN
                      /\ walk[n].n = s.n
                      /\ \E m \in 0 .. n : /\ walk[n].q = SubSeq(s.q, m + 1, L)
                                           /\ ~walk[n].wait => m = n
                                           /\ WalkInv(walk[n], k + m)
                      /\ Free(n) => ~walk[n].wait
             G == {n \in 0 .. L : At(n)}
  <1>3. 0 \in G
    <2>1. walk[0] = s
      BY <1>2 DEF WalksBy
    <2>2. SubSeq(s.q, 0 + 1, L) = s.q
      BY <1>0 DEF L
    <2>3. At(0)
      <3>1. ~s.wait /\ s.wait \in BOOLEAN
        BY Zenon
      <3>2. k + 0 = k /\ 0 \in 0 .. 0 /\ s.q = SubSeq(s.q, 0 + 1, L) /\ (~s.wait => 0 = 0)
        BY <2>2
      <3>3. \E m \in 0 .. 0 : s.q = SubSeq(s.q, m + 1, L) /\ (~s.wait => m = 0) /\ WalkInv(s, k + m)
        BY <3>2
      <3> QED BY <2>1, <3>1, <3>3 DEF rdy
    <2>4. 0 \in 0 .. L
      BY <1>1
    <2> HIDE DEF At
    <2> QED BY <2>3, <2>4
  <1>4. ASSUME NEW n \in 0 .. L - 1, n \in G PROVE n + 1 \in G
    <2> DEFINE e == s.q[n + 1]
               a == walk[n]
               b == walk[n + 1]
    <2>1. n + 1 \in 1 .. L /\ n + 1 \in 0 .. L /\ (n + 1) - 1 = n /\ n \in Nat
      BY <1>1
    <2>2. b = CheckHead(a, e)
      BY <1>2, <2>1 DEF WalksBy, L
    <2>3. At(n)
      BY <1>4
    <2>4. /\ IsWalk(a) /\ a.last.ready = rdy /\ a.wait \in BOOLEAN /\ (Free(n) => ~a.wait)
          /\ a.n = s.n
      BY <2>3
    <2>5. PICK m \in 0 .. n : /\ a.q = SubSeq(s.q, m + 1, L) /\ (~a.wait => m = n)
                              /\ WalkInv(a, k + m)
      BY <2>3
    <2>5a. SbEntry(f, ts, k + n, e)
      <3>1. k + (n + 1) - 1 = k + n
        BY <2>1
      <3> QED BY <2>1, <3>1 DEF L
    <2>5b. k + n < s.n
      BY <1>1, <2>1 DEF L
    <2> HIDE DEF a, b, e, At
    <2>6. /\ IsWalk(b) /\ b.last.ready = rdy /\ b.wait \in BOOLEAN
          /\ a.wait \/ Waits(e, rdy) => b.wait /\ b.q = a.q
          /\ ~(a.wait \/ Waits(e, rdy)) => ~b.wait /\ b.q = Tail(a.q)
      BY <2>2, <2>4, HeadFacts
    <2>6a. /\ b.n = s.n
           /\ a.wait \/ Waits(e, rdy) => WalkInv(b, k + m)
           /\ ~(a.wait \/ Waits(e, rdy)) => WalkInv(b, k + m + 1)
      <3>1. CASE a.wait
        <4>1. b = [a EXCEPT !.wait = TRUE]
          BY <2>2, <3>1 DEF CheckHead
        <4>2. PICK n_, q, ready, rdoed, coded, cd, lr, wr, wa :
                a = [n |-> n_, q |-> q, last |-> [ready |-> ready, rdoed |-> rdoed, coded |-> coded],
                     cdef |-> cd, lrf |-> lr, written |-> wr, wait |-> wa]
          BY <2>4 DEF IsWalk
        <4>3. /\ b.n = a.n /\ b.last = a.last /\ b.cdef = a.cdef /\ b.lrf = a.lrf
              /\ b.written = a.written
          BY <4>1, <4>2
        <4>4. WalkInv(b, k + m)
          BY <2>5, <4>3 DEF WalkInv
        <4> QED BY <2>4, <3>1, <4>3, <4>4
      <3>2. CASE ~a.wait
        <4>1. m = n
          BY <2>5, <3>2
        <4>2. WalkInv(a, k + n) /\ k + n < a.n
          BY <2>4, <2>5, <2>5b, <4>1
        <4>3. LET d_ == CheckHead(a, e)
              IN /\ d_.n = a.n
                 /\ a.wait \/ Waits(e, a.last.ready) => WalkInv(d_, k + n)
                 /\ ~(a.wait \/ Waits(e, a.last.ready)) => WalkInv(d_, (k + n) + 1)
          BY <2>4, <2>5a, <4>2, HeadDecides
        <4> QED BY <2>2, <2>4, <3>2, <4>1, <4>3
      <3> QED BY <3>1, <3>2
    <2>7. \E j \in 0 .. n + 1 : /\ b.q = SubSeq(s.q, j + 1, L) /\ (~b.wait => j = n + 1)
                                 /\ WalkInv(b, k + j)
      <3>1. CASE a.wait \/ Waits(e, rdy)
        <4>1. m \in 0 .. n + 1
          BY <2>1
        <4>2. WalkInv(b, k + m)
          BY <2>6a, <3>1
        <4> QED BY <2>5, <2>6, <3>1, <4>1, <4>2
      <3>2. CASE ~(a.wait \/ Waits(e, rdy))
        <4>1. m = n /\ a.q = SubSeq(s.q, n + 1, L)
          BY <2>5, <3>2
        <4>2. Tail(SubSeq(s.q, n + 1, L)) = SubSeq(s.q, (n + 1) + 1, L)
          BY <1>0, <2>1 DEF L
        <4>3. n + 1 \in 0 .. n + 1
          BY <2>1
        <4>4. b.q = SubSeq(s.q, (n + 1) + 1, L)
          BY <2>6, <3>2, <4>1, <4>2, Zenon
        <4>5. WalkInv(b, k + (n + 1))
          <5>1. k + m + 1 = k + (n + 1)
            BY <2>1, <4>1
          <5> QED BY <2>6a, <3>2, <5>1
        <4> QED BY <4>3, <4>4, <4>5
      <3> QED BY <3>1, <3>2
    <2>8. Free(n + 1) => ~b.wait
      <3> SUFFICES ASSUME Free(n + 1) PROVE ~b.wait
        OBVIOUS
      <3>1. Free(n)
        <4>1. \A i \in 1 .. n : i \in 1 .. n + 1
          BY <2>1
        <4> QED BY <4>1
      <3>2. ~Waits(e, rdy)
        <4>1. n + 1 \in 1 .. n + 1
          BY <2>1
        <4> QED BY <4>1 DEF e
      <3> QED BY <2>4, <2>6, <3>1, <3>2
    <2>9. At(n + 1)
      BY <2>6, <2>6a, <2>7, <2>8 DEF At, b
    <2> QED BY <2>1, <2>9
  <1>5. At(L)
    <2>1. L \in 0 .. L
      BY <1>1
    <2>2. L \in G
      <3> HIDE DEF G
      <3> QED BY <1>1, <1>3, <1>4, <2>1, InductionUpTo
    <2> QED BY <2>2
  <1>6. PICK m \in 0 .. L : /\ d.q = SubSeq(s.q, m + 1, L) /\ (~d.wait => m = L)
                            /\ WalkInv(d, k + m)
    BY <1>2, <1>5
  <1>7. Free(L) => d.q = <<>>
    <2> SUFFICES ASSUME Free(L) PROVE d.q = <<>>
      OBVIOUS
    <2>1. m = L
      BY <1>2, <1>5, <1>6
    <2>2. SubSeq(s.q, L + 1, L) = <<>>
      BY <1>0, <1>1
    <2> QED BY <1>6, <2>1, <2>2
  <1>8. IsWalk(d) /\ d.last.ready = rdy /\ d.n = s.n
    BY <1>2, <1>5
  <1> HIDE DEF At
  <1> QED BY <1>6, <1>7, <1>8 DEF d, L, rdy

\* What is queued are the last superblocks that were encoded, in their order.
QueueInv(g, t, n, q) ==
  Len(q) <= n /\ \A i \in 1 .. Len(q) : SbEntry(g, t, (n - Len(q)) + i - 1, q[i])

\* QueueInv of what is left of a queue.
LEMMA QueueSuffix ==
  ASSUME NEW g, NEW t, NEW n \in Nat, NEW q, IsSeq(q), QueueInv(g, t, n, q), NEW m \in 0 .. Len(q)
  PROVE  IsSeq(SubSeq(q, m + 1, Len(q))) /\ QueueInv(g, t, n, SubSeq(q, m + 1, Len(q)))
PROOF
  <1> DEFINE p == SubSeq(q, m + 1, Len(q))
  <1>1. PICK S : q \in Seq(S)
    BY DEF IsSeq
  <1>2. Len(q) \in Nat /\ Len(q) <= n
    BY <1>1 DEF QueueInv
  <1>3. p \in Seq(S) /\ Len(p) = Len(q) - m
    BY <1>1, <1>2
  <1>4. ASSUME NEW i \in 1 .. Len(p) PROVE m + i \in 1 .. Len(q) /\ p[i] = q[m + i]
    BY <1>1, <1>2, <1>3
  <1> HIDE DEF p
  <1>5. IsSeq(p)
    BY <1>3 DEF IsSeq
  <1>6. ASSUME NEW i \in 1 .. Len(p) PROVE SbEntry(g, t, (n - Len(p)) + i - 1, p[i])
    <2>1. (n - Len(q)) + (m + i) - 1 = (n - Len(p)) + i - 1
      BY <1>2, <1>3
    <2>2. SbEntry(g, t, (n - Len(q)) + (m + i) - 1, q[m + i])
      BY <1>4 DEF QueueInv
    <2> QED BY <1>4, <2>1, <2>2
  <1>7. Len(p) <= n
    BY <1>2, <1>3
  <1> QED BY <1>5, <1>6, <1>7 DEF p, QueueInv

\* QueueInv of a queue with another entry.
LEMMA QueueAppend ==
  ASSUME NEW g, NEW t, NEW n \in Nat, NEW q, IsSeq(q), QueueInv(g, t, n, q), NEW e, SbEntry(g, t, n, e)
  PROVE  LET p == Append(q, e)
         IN IsSeq(p) /\ QueueInv(g, t, n + 1, p) /\ (n + 1) - Len(p) = n - Len(q) /\ Len(q) \in 0 .. n
PROOF
  <1> DEFINE p == Append(q, e)
  <1>1. PICK S : q \in Seq(S)
    BY DEF IsSeq
  <1> DEFINE T == S \cup {e}
  <1>2. q \in Seq(T) /\ e \in T /\ Len(q) \in Nat /\ Len(q) <= n
    BY <1>1 DEF QueueInv
  <1> HIDE DEF T
  <1>3. p \in Seq(T) /\ Len(p) = Len(q) + 1
    BY <1>2
  <1>4. ASSUME NEW i \in 1 .. Len(p)
        PROVE  (i = Len(q) + 1 /\ p[i] = e) \/ (i \in 1 .. Len(q) /\ p[i] = q[i])
    BY <1>2, <1>3
  <1> HIDE DEF p
  <1>5. IsSeq(p)
    BY <1>3 DEF IsSeq
  <1>6. ASSUME NEW i \in 1 .. Len(p) PROVE SbEntry(g, t, ((n + 1) - Len(p)) + i - 1, p[i])
    <2>1. ((n + 1) - Len(p)) + i - 1 = (n - Len(q)) + i - 1
      BY <1>2, <1>3
    <2>2. CASE i = Len(q) + 1 /\ p[i] = e
      <3>1. (n - Len(q)) + i - 1 = n
        BY <1>2, <2>2
      <3> QED BY <2>1, <2>2, <3>1
    <2>3. CASE i \in 1 .. Len(q) /\ p[i] = q[i]
      <3>1. SbEntry(g, t, (n - Len(q)) + i - 1, q[i])
        BY <2>3 DEF QueueInv
      <3> QED BY <2>1, <2>3, <3>1
    <2> QED BY <1>4, <2>2, <2>3
  <1>7. Len(p) <= n + 1 /\ (n + 1) - Len(p) = n - Len(q) /\ Len(q) \in 0 .. n
    BY <1>2, <1>3
  <1> QED BY <1>5, <1>6, <1>7 DEF p, QueueInv

\* The place of a superblock, by its number.
LEMMA RasterNumber ==
  ASSUME NEW t, t.w \in Nat \ {0}, t.h \in Nat \ {0}, NEW n \in Nat, n < t.w * t.h
  PROVE  NumberIs(t, n, n % t.w, n \div t.w)
PROOF
  <1> DEFINE x0 == n % t.w
             y0 == n \div t.w
  <1>1. y0 * t.w + x0 = n
    BY RasterFacts, SMTT(60)
  <1> HIDE DEF x0, y0
  <1> QED BY <1>1 DEF NumberIs, x0, y0

-----------------------------------------------------------------------------
(* The specification *)

\* The tile that is encoded.
TileInv ==
  /\ Geometry(f, ts) /\ Nested(f, ts) /\ Placed(f, ts) /\ sb <= ts.w * ts.h
  /\ ReadyInv(f, ts, last_lru.ready, sb) /\ ReadySound(f, ts, sb, last_lru.ready)
  /\ QueueInv(f, ts, sb, sbs_q)
  /\ DecisionInv(f, ts, sb, sb - Len(sbs_q), last_lru.rdoed, cdef, lrf)
  /\ CodedInv(f, ts, sb - Len(sbs_q), last_lru.coded)

\* Nothing is encoded before the tiles are chosen.
TargetInv ==
  \/ target = Chosen
  \/ /\ \E c, r \in Nat : target = [cols |-> c, rows |-> r]
     /\ tile = 0 /\ sb = 0 /\ sbs_q = <<>> /\ last_lru = FreshLast /\ cdef = {} /\ lrf = {}
     /\ written = {}

LastInv == \E a, b, c : last_lru = [ready |-> a, rdoed |-> b, coded |-> c]

LfInv ==
  /\ f \in Frames /\ tile \in Nat /\ sb \in Nat
  /\ \E c, r \in Nat : ti = from_target_tiles(f, c, r)
  /\ \E n : ts = TileState(ti, n)
  /\ TargetInv /\ LastInv /\ IsSeq(sbs_q)
  /\ tile < ti.cols * ti.rows => TileInv
  /\ QueueDrains /\ DecidedBeforeWritten /\ LrfCodedWhereRead

\* What was written in another tile is still where it is read.
LEMMA SamePlanes ==
  ASSUME NEW n, ts = TileState(ti, n), NEW m, ts' = TileState(ti, m), f' = f
  PROVE  \A x, y : read_lr(x, y)' = read_lr(x, y)
PROOF
  <1>1. ts'.rp = ts.rp
    BY DEF TileState
  <1>2. Planes' = Planes
    BY DEF Planes
  <1> QED BY <1>1, <1>2 DEF read_lr, rp

\* A tile of which nothing is encoded.
LEMMA FreshTile ==
  ASSUME NEW g, NEW t, Geometry(g, t)
  PROVE  /\ ReadyInv(g, t, FreshLast.ready, 0) /\ ReadySound(g, t, 0, FreshLast.ready)
         /\ QueueInv(g, t, 0, <<>>) /\ IsSeq(<<>>) /\ 0 - Len(<<>>) = 0
         /\ DecisionInv(g, t, 0, 0, FreshLast.rdoed, {}, {}) /\ CodedInv(g, t, 0, FreshLast.coded)
         /\ 0 <= t.w * t.h /\ \E a, b, c : FreshLast = [ready |-> a, rdoed |-> b, coded |-> c]
PROOF
  <1>1. t.w \in Nat \ {0} /\ t.h \in Nat \ {0}
    BY DEF Geometry
  <1>2. /\ \A pli \in PlanesOf(g) : /\ FreshLast.ready[pli] = -1 /\ FreshLast.rdoed[pli] = -1
                                  /\ FreshLast.coded[pli] = -1
        /\ ~g.mono => FreshLast.rdoed[0] = -1 /\ FreshLast.rdoed[1] = -1 /\ FreshLast.rdoed[2] = -1
    BY DEF FreshLast, NoneOf, PlanesOf
  <1>3. \A x \in 0 .. t.w - 1, y \in 0 .. t.h - 1 : ~(y * t.w + x < 0)
    <2> SUFFICES ASSUME NEW x \in 0 .. t.w - 1, NEW y \in 0 .. t.h - 1 PROVE ~(y * t.w + x < 0)
      OBVIOUS
    <2>1. y * t.w \in Nat
      BY <1>1
    <2> QED BY <1>1, <2>1
  <1>4. ReadyInv(g, t, FreshLast.ready, 0)
    BY <1>2, <1>3 DEF ReadyInv
  <1>5. QueueInv(g, t, 0, <<>>) /\ 0 - Len(<<>>) = 0
    <2> DEFINE z == <<>>
    <2>1. Len(z) = 0
      OBVIOUS
    <2> HIDE DEF z
    <2>2. QueueInv(g, t, 0, z) /\ 0 - Len(z) = 0
      BY <2>1 DEF QueueInv
    <2> QED BY <2>2 DEF z
  <1>6. IsSeq(<<>>)
    <2>1. <<>> \in Seq(Nat)
      OBVIOUS
    <2> QED BY <2>1 DEF IsSeq
  <1>7. 0 <= t.w * t.h
    BY <1>1
  <1>8. \E a, b, c : FreshLast = [ready |-> a, rdoed |-> b, coded |-> c]
    BY DEF FreshLast
  <1>9. ReadySound(g, t, 0, FreshLast.ready)
    BY <1>2 DEF ReadySound
  <1>10. DecisionInv(g, t, 0, 0, FreshLast.rdoed, {}, {})
    <2>1. SawEncoded(t, 0, {}, {})
      BY DEF SawEncoded
    <2>2. Rdoed(g, t, 0, FreshLast.rdoed)
      BY <1>2 DEF Rdoed
    <2>3. WrittenCovered(g, t, 0, FreshLast.rdoed)
      BY <1>3 DEF WrittenCovered, EncodedIn
    <2>4. \A x \in 0 .. t.w - 1, y \in 0 .. t.h - 1 : ~Skips(g, t, FreshLast.rdoed, x, y)
      <3> SUFFICES ASSUME NEW x \in 0 .. t.w - 1, NEW y \in 0 .. t.h - 1, NEW pli \in PlanesOf(g),
                          LruIn(t, pli, x, y) # -1, LruIn(t, pli, x, y) <= FreshLast.rdoed[pli]
                   PROVE  FALSE
        BY DEF Skips
      <3>1. x \in Nat /\ y \in Nat
        BY <1>1
      <3>2. LruIn(t, pli, x, y) \in Int /\ LruIn(t, pli, x, y) >= -1
        BY <3>1, LruRange
      <3> QED BY <1>2, <3>2
    <2>5. SkipsSettled(g, t, 0, FreshLast.rdoed, {}, {})
      BY <2>4 DEF SkipsSettled
    <2> QED BY <2>1, <2>2, <2>3, <2>5 DEF DecisionInv
  <1>11. CodedInv(g, t, 0, FreshLast.coded)
    BY <1>2, <1>3 DEF CodedInv, EncodedIn
  <1> QED BY <1>4, <1>5, <1>6, <1>7, <1>8, <1>9, <1>10, <1>11

\* Across and Down of the frame.
LEMMA SidesOf ==
  ASSUME NEW g \in Frames
  PROVE  Across(g) \in Nat /\ Down(g) \in Nat
PROOF
  BY FrameFacts

\* A superblock is encoded and queued, and the queue is checked.
LEMMA EncodeSbInv ==
  ASSUME LfInv, EncodeSb
  PROVE  LfInv'
PROOF
  <1> DEFINE w == ts.w
             x == sb % w
             y == sb \div w
             lru == [pli \in 0 .. 2 |-> IF pli \in Planes THEN lru_index(pli, x, y) ELSE -1]
             ends == {pli \in Planes : lru[pli] # -1 /\ restoration_unit_last_sb_for_rdo(pli, x, y)}
             ready == [pli \in 0 .. 2 |-> IF pli \in ends THEN lru[pli] ELSE last_lru.ready[pli]]
             last == [last_lru EXCEPT !.ready = ready]
             e == [x |-> x, y |-> y, lru |-> lru, cdef_coded |-> CdefCoded(x, y)]
             s0 == Walk(e, last, sb + 1)
             check == IF f.delayed THEN sb + 1 = ts.w * ts.h
                      ELSE ends # {} \/ \E pli \in Planes : lru[pli] = -1
             s == IF check THEN check_lf_queue(s0) ELSE s0
             q == s0.q
             k == sb - Len(sbs_q)
  <1>1. /\ Encoding /\ sb < ts.w * ts.h /\ sb' = sb + 1 /\ sbs_q' = s.q /\ last_lru' = s.last
        /\ cdef' = s.cdef /\ lrf' = s.lrf /\ written' = s.written
        /\ UNCHANGED <<f, target, ti, tile, ts>>
    BY DEF EncodeSb
  <1>2. f \in Frames /\ tile \in Nat /\ sb \in Nat /\ LastInv /\ IsSeq(sbs_q) /\ TileInv
    BY <1>1 DEF LfInv, Encoding
  <1>3. /\ Geometry(f, ts) /\ Nested(f, ts) /\ Placed(f, ts) /\ ReadyInv(f, ts, last_lru.ready, sb)
        /\ ReadySound(f, ts, sb, last_lru.ready) /\ QueueInv(f, ts, sb, sbs_q)
        /\ DecisionInv(f, ts, sb, k, last_lru.rdoed, cdef, lrf) /\ CodedInv(f, ts, k, last_lru.coded)
        /\ ts.w \in Nat \ {0} /\ ts.h \in Nat \ {0}
    BY <1>2 DEF TileInv, Geometry
  <1>4. Planes = PlanesOf(f) /\ Planes \subseteq 0 .. 2 /\ 0 \in Planes
    BY DEF Planes, PlanesOf
  <1>5. /\ x \in 0 .. ts.w - 1 /\ y \in 0 .. ts.h - 1 /\ x \in Nat /\ y \in Nat
        /\ NumberIs(ts, sb, x, y)
    <2>1. x \in 0 .. ts.w - 1 /\ y \in 0 .. ts.h - 1
      BY <1>1, <1>2, <1>3, RasterFacts
    <2>2. NumberIs(ts, sb, x, y)
      BY <1>1, <1>2, <1>3, RasterNumber
    <2> HIDE DEF x, y
    <2> QED BY <1>3, <2>1, <2>2
  <1>6. \A pli \in Planes : /\ lru[pli] = LruIn(ts, pli, x, y)
                            /\ pli \in ends <=> MakesReady(f, ts, pli, x, y)
    <2> SUFFICES ASSUME NEW pli \in Planes
                 PROVE  lru[pli] = LruIn(ts, pli, x, y) /\ (pli \in ends <=> MakesReady(f, ts, pli, x, y))
      OBVIOUS
    <2> HIDE DEF x, y
    <2>1. lru[pli] = lru_index(pli, x, y)
      BY <1>4
    <2> HIDE DEF lru
    <2> QED BY <2>1, SameUnits DEF MakesReady
  <1>7. last = [ready |-> ready, rdoed |-> last_lru.rdoed, coded |-> last_lru.coded]
    <2>1. PICK a, b, c : last_lru = [ready |-> a, rdoed |-> b, coded |-> c]
      BY <1>2 DEF LastInv
    <2> HIDE DEF ready
    <2>2. last = [ready |-> ready, rdoed |-> last_lru.rdoed, coded |-> last_lru.coded]
      BY <2>1
    <2> QED BY <2>2
  <1>8. s0 = [n |-> sb + 1, q |-> Append(sbs_q, e), last |-> last, cdef |-> cdef, lrf |-> lrf,
              written |-> written, wait |-> FALSE]
    BY DEF Walk
  <1>9. ReadyInv(f, ts, ready, sb + 1) /\ ReadySound(f, ts, sb + 1, ready)
    <2>1. \A pli \in PlanesOf(f) : ready[pli] = IF MakesReady(f, ts, pli, x, y)
                                               THEN LruIn(ts, pli, x, y) ELSE last_lru.ready[pli]
      <3> HIDE DEF x, y, lru, ends
      <3> QED BY <1>4, <1>6
    <2>2. Across(f) \in Nat /\ Down(f) \in Nat
      BY <1>2, SidesOf
    <2> HIDE DEF ready
    <2>3. ReadyInv(f, ts, ready, sb + 1)
      BY <1>1, <1>2, <1>3, <2>1, <2>2, ReadyStep
    <2> HIDE DEF x, y
    <2>4. ReadySound(f, ts, sb + 1, ready)
      BY <1>2, <1>3, <1>5, <2>1, <2>2, ReadySoundStep
    <2> QED BY <2>3, <2>4
  <1> HIDE DEF x, y, lru, ends, ready, last
  <1>10. /\ IsSeq(q) /\ QueueInv(f, ts, sb + 1, q) /\ (sb + 1) - Len(q) = k
         /\ k \in Nat /\ Len(q) \in Nat /\ k + Len(q) = sb + 1
    <2>1. e.lru = lru /\ e.x = x /\ e.y = y
      OBVIOUS
    <2>2. q = Append(sbs_q, e)
      BY <1>8
    <2> HIDE DEF e, q, s0
    <2>3. SbEntry(f, ts, sb, e)
      BY <1>4, <1>5, <1>6, <2>1 DEF SbEntry
    <2>4. /\ IsSeq(q) /\ QueueInv(f, ts, sb + 1, q) /\ (sb + 1) - Len(q) = k /\ Len(sbs_q) \in 0 .. sb
      BY <1>2, <1>3, <2>2, <2>3, QueueAppend
    <2>5. Len(q) \in Nat
      <3>1. PICK S : q \in Seq(S)
        BY <2>4 DEF IsSeq
      <3> QED BY <3>1
    <2> QED BY <1>2, <2>4, <2>5
  <1>11. /\ IsWalk(s0) /\ s0.wait = FALSE /\ s0.last.ready = ready /\ s0.n = sb + 1
         /\ s0.last.rdoed = last_lru.rdoed /\ s0.last.coded = last_lru.coded
         /\ s0.cdef = cdef /\ s0.lrf = lrf /\ s0.written = written
    <2> HIDE DEF e, s0
    <2> QED BY <1>7, <1>8 DEF IsWalk
  <1> HIDE DEF e, s0, k
  <1>11a. WalkInv(s0, k)
    <2>1. \A pli \in PlanesOf(f) : ready[pli] \in Int
      BY <1>9 DEF ReadyInv
    <2>2. DecisionInv(f, ts, sb + 1, k, last_lru.rdoed, cdef, lrf)
      BY <1>2, <1>3, EncodeStep
    <2>3. \A r \in written : WrittenWell(r)
      BY DEF LfInv, DecidedBeforeWritten, LrfCodedWhereRead, WrittenWell
    <2> QED BY <1>3, <1>9, <1>11, <2>1, <2>2, <2>3 DEF WalkInv
  <1>11b. \A i \in 1 .. Len(q) : SbEntry(f, ts, k + i - 1, q[i])
    <2> HIDE DEF q
    <2> QED BY <1>10 DEF QueueInv
  <1>12. /\ IsWalk(s) /\ s.last.ready = ready /\ s.n = sb + 1
         /\ \E m \in 0 .. Len(q) : s.q = SubSeq(q, m + 1, Len(q)) /\ WalkInv(s, k + m)
    <2>1. CASE check
      <3>1. s = check_lf_queue(s0) /\ k + Len(s0.q) = s0.n
        BY <1>10, <1>11, <2>1
      <3> HIDE DEF s
      <3> QED BY <1>3, <1>10, <1>11, <1>11a, <1>11b, <3>1, WalkTakes
    <2>2. CASE ~check
      <3>1. s = s0
        BY <2>2
      <3>2. SubSeq(q, 0 + 1, Len(q)) = q /\ 0 \in 0 .. Len(q) /\ k + 0 = k
        <4>1. PICK S : q \in Seq(S)
          BY <1>10 DEF IsSeq
        <4> HIDE DEF q
        <4> QED BY <1>10, <4>1
      <3> HIDE DEF check, s
      <3> QED BY <1>11, <1>11a, <3>1, <3>2
    <2> QED BY <2>1, <2>2
  <1>13. /\ IsSeq(s.q) /\ QueueInv(f, ts, sb + 1, s.q)
         /\ DecisionInv(f, ts, sb + 1, (sb + 1) - Len(s.q), s.last.rdoed, s.cdef, s.lrf)
         /\ CodedInv(f, ts, (sb + 1) - Len(s.q), s.last.coded)
         /\ \A r \in s.written : WrittenWell(r)
    <2>1. PICK m \in 0 .. Len(q) : s.q = SubSeq(q, m + 1, Len(q)) /\ WalkInv(s, k + m)
      BY <1>12
    <2> HIDE DEF s, q
    <2> DEFINE n == sb + 1
    <2>2. n \in Nat /\ QueueInv(f, ts, n, q) /\ n - Len(q) = k
      BY <1>2, <1>10
    <2>3. IsSeq(s.q) /\ QueueInv(f, ts, sb + 1, s.q) /\ (sb + 1) - Len(s.q) = k + m
      <3>1. IsSeq(SubSeq(q, m + 1, Len(q))) /\ QueueInv(f, ts, n, SubSeq(q, m + 1, Len(q)))
        <4> HIDE DEF n
        <4> QED BY <1>10, <2>2, QueueSuffix
      <3>2. Len(SubSeq(q, m + 1, Len(q))) = Len(q) - m
        <4>1. PICK S : q \in Seq(S)
          BY <1>10 DEF IsSeq
        <4> QED BY <1>10, <4>1
      <3>3. n - (Len(q) - m) = k + m
        <4> HIDE DEF n
        <4> QED BY <1>10, <2>2
      <3> QED BY <2>1, <3>1, <3>2, <3>3
    <2> QED BY <1>12, <2>1, <2>3 DEF WalkInv
  <1>14. ASSUME sb + 1 = ts.w * ts.h PROVE s.q = <<>>
    <2>0. Across(f) \in Nat /\ Down(f) \in Nat
      BY <1>2, SidesOf
    <2>1. check
      <3> SUFFICES ASSUME ~f.delayed PROVE ends # {} \/ \E pli \in Planes : lru[pli] = -1
        BY <1>14
      <3>1. x = ts.w - 1 /\ y = ts.h - 1
        BY <1>1, <1>2, <1>3, <1>14, RasterFacts, ZenonT(60) DEF x, y
      <3>2. CASE lru[0] = -1
        BY <1>4, <3>2
      <3>3. CASE lru[0] # -1
        <4>1. LruIn(ts, 0, ts.w - 1, ts.h - 1) # -1
          BY <1>4, <1>6, <3>1, <3>3
        <4>2. EndsUnit(f, ts, 0, ts.w - 1, ts.h - 1)
          BY <1>3, <1>4, <2>0, <4>1, CornerEnds
        <4>3. MakesReady(f, ts, 0, x, y)
          BY <3>1, <4>1, <4>2 DEF MakesReady
        <4> QED BY <1>4, <1>6, <4>3
      <3> QED BY <3>2, <3>3
    <2>2. ReadyInv(f, ts, ready, ts.w * ts.h)
      BY <1>9, <1>14
    <2>3. ASSUME NEW i \in 1 .. Len(q) PROVE ~Waits(q[i], ready)
      <3> SUFFICES ASSUME NEW pli \in Planes, q[i].lru[pli] > ready[pli] PROVE FALSE
        BY DEF Waits
      <3>1. ready[pli] \in Int /\ LastUnit(ts, pli) \in Int /\ LastUnit(ts, pli) <= ready[pli]
        BY <1>3, <1>4, <2>0, <2>2, AllReady
      <3>2. q[i].lru[pli] \in Int /\ q[i].lru[pli] <= LastUnit(ts, pli)
        <4> DEFINE a == q[i].x
                   b == q[i].y
        <4>1. a \in 0 .. ts.w - 1 /\ b \in 0 .. ts.h - 1 /\ q[i].lru[pli] = LruIn(ts, pli, a, b)
          BY <1>4, <1>11b DEF SbEntry
        <4>2. a \in Nat /\ b \in Nat
          BY <1>3, <4>1
        <4> QED BY <1>3, <1>4, <4>1, <4>2, LruRange
      <3> HIDE DEF q
      <3> QED BY <3>1, <3>2
    <2>4. s = check_lf_queue(s0)
      BY <2>1
    <2> HIDE DEF s, check
    <2>5. \A i \in 1 .. Len(s0.q) : ~Waits(s0.q[i], s0.last.ready)
      BY <1>11, <2>3
    <2>6. k + Len(s0.q) = s0.n /\ IsSeq(s0.q) /\ \A i \in 1 .. Len(s0.q) : SbEntry(f, ts, k + i - 1, s0.q[i])
      BY <1>10, <1>11, <1>11b
    <2> QED BY <1>3, <1>10, <1>11, <1>11a, <2>4, <2>5, <2>6, WalkTakes
  <1>15. \E a, b, c : s.last = [ready |-> a, rdoed |-> b, coded |-> c]
    <2> HIDE DEF s
    <2>1. PICK n_, q_, a, b, c, cd, lr, wr, wa :
            s = [n |-> n_, q |-> q_, last |-> [ready |-> a, rdoed |-> b, coded |-> c],
                 cdef |-> cd, lrf |-> lr, written |-> wr, wait |-> wa]
      BY <1>12 DEF IsWalk
    <2>2. s.last = [ready |-> a, rdoed |-> b, coded |-> c]
      BY <2>1
    <2> QED BY <2>2
  <1> HIDE DEF s, q, check
  <1>16. TileInv'
    <2>1. sb + 1 <= ts.w * ts.h
      <3>1. ts.w * ts.h \in Nat
        BY <1>3
      <3> QED BY <1>1, <1>2, <3>1
    <2>2. last_lru'.ready = ready
      BY <1>1, <1>12
    <2> QED BY <1>1, <1>3, <1>9, <1>13, <2>1, <2>2 DEF TileInv
  <1>17. TargetInv'
    BY <1>1 DEF Encoding, TargetInv, Chosen
  <1>18. QueueDrains' /\ DecidedBeforeWritten' /\ LrfCodedWhereRead'
    <2>1. QueueDrains' /\ DecidedBeforeWritten'
      BY <1>1, <1>13, <1>14 DEF QueueDrains, DecidedBeforeWritten, WrittenWell
    <2>2. \A a, b : read_lr(a, b)' = read_lr(a, b)
      BY <1>1, SamePlanes DEF LfInv
    <2> QED BY <1>1, <1>13, <2>1, <2>2 DEF LrfCodedWhereRead, WrittenWell
  <1>19. LastInv'
    BY <1>1, <1>15 DEF LastInv
  <1>20. sb' \in Nat /\ IsSeq(sbs_q')
    BY <1>1, <1>2, <1>13
  <1>21. /\ f' \in Frames /\ tile' \in Nat /\ \E c, r \in Nat : ti' = from_target_tiles(f', c, r)
         /\ \E n : ts' = TileState(ti, n)
    BY <1>1 DEF LfInv
  <1>22. \E n : ts' = TileState(ti, n)'
    BY <1>1, <1>21 DEF TileState, Planes
  <1> QED BY <1>16, <1>17, <1>18, <1>19, <1>20, <1>21, <1>22 DEF LfInv

\* The tiles are chosen, or one more division is tried.
LEMMA ChooseTilesInv ==
  ASSUME LfInv, ChooseTiles
  PROVE  LfInv'
PROOF
  <1>1. /\ target # Chosen /\ ts' = TileState(ti', 0)
        /\ UNCHANGED <<f, tile, sb, sbs_q, last_lru, cdef, lrf, written>>
    BY DEF ChooseTiles
  <1>2. /\ f \in Frames /\ tile = 0 /\ sb = 0 /\ sbs_q = <<>> /\ last_lru = FreshLast
        /\ cdef = {} /\ lrf = {} /\ written = {} /\ \E c, r \in Nat : target = [cols |-> c, rows |-> r]
    BY <1>1 DEF LfInv, TargetInv
  <1>3. PICK c \in Nat, r \in Nat : target = [cols |-> c, rows |-> r]
    BY <1>2
  <1>4. \E a, b \in Nat : ti' = from_target_tiles(f, a, b)
    <2>1. CASE Divisible
      <3>1. ti' = from_target_tiles(f, c, r)
        BY <1>3, <2>1 DEF ChooseTiles
      <3> QED BY <3>1
    <2>2. CASE ~Divisible
      <3>1. ti' = ti
        BY <2>2 DEF ChooseTiles
      <3> QED BY <3>1 DEF LfInv
    <2> QED BY <2>1, <2>2
  <1>5. target' = Chosen \/ \E a, b \in Nat : target' = [cols |-> a, rows |-> b]
    <2>1. \/ target' = Chosen
          \/ target' = [target EXCEPT !.rows = @ + 1]
          \/ target' = [target EXCEPT !.cols = @ + 1]
      BY DEF ChooseTiles
    <2>2. [target EXCEPT !.rows = @ + 1] = [cols |-> c, rows |-> r + 1]
      BY <1>3
    <2>3. [target EXCEPT !.cols = @ + 1] = [cols |-> c + 1, rows |-> r]
      BY <1>3
    <2>4. c + 1 \in Nat /\ r + 1 \in Nat
      OBVIOUS
    <2> QED BY <2>1, <2>2, <2>3, <2>4
  <1>6. tile' < ti'.cols * ti'.rows => TileInv'
    <2> SUFFICES ASSUME tile' < ti'.cols * ti'.rows PROVE TileInv'
      OBVIOUS
    <2>1. Geometry(f, ts') /\ Nested(f, ts') /\ Placed(f, ts')
      <3>1. PICK a \in Nat, b \in Nat : ti' = from_target_tiles(f, a, b)
        BY <1>4
      <3>2. 0 \in Nat /\ 0 < ti'.cols * ti'.rows
        BY <1>1, <1>2
      <3>3. /\ Geometry(f, TileState(ti', 0)) /\ Nested(f, TileState(ti', 0))
            /\ Placed(f, TileState(ti', 0))
        BY <1>2, <3>1, <3>2, TileGeometry, TileNested, TilePlaced
      <3> QED BY <1>1, <3>3
    <2> QED BY <1>1, <1>2, <2>1, FreshTile DEF TileInv
  <1>7. TargetInv'
    BY <1>1, <1>2, <1>5 DEF TargetInv
  <1>8. QueueDrains' /\ DecidedBeforeWritten' /\ LrfCodedWhereRead'
    BY <1>1, <1>2 DEF QueueDrains, DecidedBeforeWritten, LrfCodedWhereRead
  <1>9. f' \in Frames /\ tile' \in Nat /\ sb' \in Nat /\ LastInv' /\ IsSeq(sbs_q')
    BY <1>1 DEF LfInv, LastInv
  <1>10. \E n : ts' = TileState(ti, n)'
    BY <1>1 DEF TileState, Planes
  <1> QED BY <1>1, <1>4, <1>6, <1>7, <1>8, <1>9, <1>10 DEF LfInv

\* The next tile begins with an empty queue.
LEMMA NextTileInv ==
  ASSUME LfInv, NextTile
  PROVE  LfInv'
PROOF
  <1>1. /\ Encoding /\ tile' = tile + 1 /\ UNCHANGED <<f, target, ti, written>>
        /\ ts' = IF tile' < ti.cols * ti.rows THEN TileState(ti, tile') ELSE ts
        /\ sb' = 0 /\ sbs_q' = <<>> /\ last_lru' = FreshLast /\ cdef' = {} /\ lrf' = {}
    BY DEF NextTile
  <1>2. f \in Frames /\ tile' \in Nat /\ \E c, r \in Nat : ti = from_target_tiles(f, c, r)
    BY <1>1 DEF LfInv
  <1>3. tile' < ti'.cols * ti'.rows => TileInv'
    <2> SUFFICES ASSUME tile' < ti'.cols * ti'.rows PROVE TileInv'
      OBVIOUS
    <2>1. Geometry(f, ts') /\ Nested(f, ts') /\ Placed(f, ts')
      <3>1. PICK a \in Nat, b \in Nat : ti = from_target_tiles(f, a, b)
        BY <1>2
      <3>2. tile' < ti.cols * ti.rows /\ ts' = TileState(ti, tile')
        BY <1>1
      <3>3. /\ Geometry(f, TileState(ti, tile')) /\ Nested(f, TileState(ti, tile'))
            /\ Placed(f, TileState(ti, tile'))
        BY <1>2, <3>1, <3>2, TileGeometry, TileNested, TilePlaced
      <3> QED BY <3>2, <3>3
    <2> QED BY <1>1, <2>1, FreshTile DEF TileInv
  <1>4. TargetInv'
    BY <1>1 DEF Encoding, TargetInv, Chosen
  <1>4a. \E n : ts' = TileState(ti, n)
    BY <1>1 DEF LfInv
  <1>5. QueueDrains' /\ DecidedBeforeWritten' /\ LrfCodedWhereRead'
    <2>1. QueueDrains' /\ DecidedBeforeWritten'
      BY <1>1 DEF QueueDrains, DecidedBeforeWritten, LfInv
    <2>2. \A a, b : read_lr(a, b)' = read_lr(a, b)
      BY <1>1, <1>4a, SamePlanes DEF LfInv
    <2> QED BY <1>1, <2>1, <2>2 DEF LrfCodedWhereRead, LfInv
  <1>6. LastInv' /\ IsSeq(sbs_q') /\ sb' \in Nat
    <2>1. IsSeq(<<>>)
      <3>1. <<>> \in Seq(Nat)
        OBVIOUS
      <3> QED BY <3>1 DEF IsSeq
    <2> QED BY <1>1, <2>1 DEF LastInv, FreshLast
  <1>7. \E n : ts' = TileState(ti, n)'
    BY <1>1, <1>4a DEF TileState, Planes
  <1> QED BY <1>1, <1>2, <1>3, <1>4, <1>5, <1>6, <1>7 DEF LfInv

\* LfInv holds at the beginning of a frame.
LEMMA LfInitInv ==
  ASSUME LfInit
  PROVE  LfInv
PROOF
  <1>1. /\ f \in Frames /\ ti = from_target_tiles(f, f.cols, f.rows) /\ ts = TileState(ti, 0)
        /\ tile = 0 /\ sb = 0 /\ sbs_q = <<>> /\ last_lru = FreshLast
        /\ cdef = {} /\ lrf = {} /\ written = {}
        /\ target = IF f.tiles > 0 THEN [cols |-> 0, rows |-> 0] ELSE Chosen
    BY DEF LfInit
  <1>2. f.cols \in Nat /\ f.rows \in Nat /\ 0 \in Nat
    BY <1>1, FrameFacts
  <1>3. tile < ti.cols * ti.rows => TileInv
    <2> SUFFICES ASSUME tile < ti.cols * ti.rows PROVE TileInv
      OBVIOUS
    <2>1. Geometry(f, ts) /\ Nested(f, ts) /\ Placed(f, ts)
      <3>1. /\ Geometry(f, TileState(ti, 0)) /\ Nested(f, TileState(ti, 0))
            /\ Placed(f, TileState(ti, 0))
        BY <1>1, <1>2, TileGeometry, TileNested, TilePlaced
      <3> QED BY <1>1, <3>1
    <2> QED BY <1>1, <2>1, FreshTile DEF TileInv
  <1>4. TargetInv
    BY <1>1, <1>2 DEF TargetInv
  <1>5. QueueDrains /\ DecidedBeforeWritten /\ LrfCodedWhereRead
    BY <1>1 DEF QueueDrains, DecidedBeforeWritten, LrfCodedWhereRead
  <1>6. LastInv /\ IsSeq(sbs_q)
    <2>1. IsSeq(<<>>)
      <3>1. <<>> \in Seq(Nat)
        OBVIOUS
      <3> QED BY <3>1 DEF IsSeq
    <2> QED BY <1>1, <2>1 DEF LastInv, FreshLast
  <1> QED BY <1>1, <1>2, <1>3, <1>4, <1>5, <1>6 DEF LfInv

\* LfInv is an invariant: no step of a frame breaks it.
LEMMA LfInvHolds == LfSpec => []LfInv
PROOF
  <1>1. LfInit => LfInv
    BY LfInitInv
  <1>2. LfInv /\ [LfNext]_lfVars => LfInv'
    <2> SUFFICES ASSUME LfInv, [LfNext]_lfVars PROVE LfInv'
      OBVIOUS
    <2>1. CASE ChooseTiles
      BY <2>1, ChooseTilesInv
    <2>2. CASE EncodeSb
      BY <2>2, EncodeSbInv
    <2>3. CASE NextTile
      BY <2>3, NextTileInv
    <2>4. CASE UNCHANGED lfVars
      <3>1. /\ f' = f /\ target' = target /\ ti' = ti /\ tile' = tile /\ ts' = ts /\ sb' = sb
            /\ sbs_q' = sbs_q /\ last_lru' = last_lru /\ cdef' = cdef /\ lrf' = lrf
            /\ written' = written
        BY <2>4 DEF lfVars
      <3>2. \A x, y : read_lr(x, y)' = read_lr(x, y)
        BY <3>1, SamePlanes DEF LfInv
      <3>3. LrfCodedWhereRead'
        BY <3>1, <3>2 DEF LrfCodedWhereRead, LfInv
      <3>4. \E n : ts' = TileState(ti, n)'
        <4>1. PICK n : ts = TileState(ti, n)
          BY DEF LfInv
        <4>2. ts' = TileState(ti, n)'
          BY <3>1, <4>1 DEF TileState, Planes
        <4> QED BY <4>2
      <3>5. TargetInv' /\ LastInv' /\ QueueDrains' /\ DecidedBeforeWritten'
        BY <3>1 DEF LfInv, TargetInv, LastInv, QueueDrains, DecidedBeforeWritten, Encoding
      <3>6. (tile < ti.cols * ti.rows => TileInv)'
        BY <3>1 DEF LfInv, TileInv
      <3>7. \E c, r \in Nat : ti' = from_target_tiles(f', c, r)
        BY <3>1 DEF LfInv
      <3> QED BY <3>1, <3>3, <3>4, <3>5, <3>6, <3>7 DEF LfInv
    <2> QED BY <2>1, <2>2, <2>3, <2>4 DEF LfNext, FrameDone
  <1> QED BY <1>1, <1>2, PTL DEF LfSpec

\* For every size and format of a frame, every division into tiles and every
\* size of the units: when encode_tile has encoded the last superblock of a
\* tile, its assertion that the queue is empty holds.
THEOREM QueueDrainsHolds == LfSpec => []QueueDrains
PROOF
  <1>1. LfInv => QueueDrains
    BY DEF LfInv
  <1> QED BY <1>1, LfInvHolds, PTL

\* For all these frames, whether the decisions are delayed to the end of the tile
\* or not, and whatever superblocks code a CDEF index: check_lf_queue writes no
\* CDEF index and no filter that rdo_loop_decision has not decided from encoded
\* superblocks, although it asks for no decision where already_rdoed says that
\* some plane has had one.
THEOREM DecidedBeforeWrittenHolds == LfSpec => []DecidedBeforeWritten
PROOF
  <1>1. LfInv => DecidedBeforeWritten
    BY DEF LfInv
  <1> QED BY <1>1, LfInvHolds, PTL

\* For all these frames: the filter of every unit is coded once, with the
\* superblock at which a decoder reads it, whatever tiles the frame is divided
\* into, and although the last units stretch over a remainder or are short
\* (check_lf_queue, last_lru_coded).
THEOREM LrfCodedWhereReadHolds == LfSpec => []LrfCodedWhereRead
PROOF
  <1>1. LfInv => LrfCodedWhereRead
    BY DEF LfInv
  <1> QED BY <1>1, LfInvHolds, PTL

-----------------------------------------------------------------------------
(* The limits on tiles *)

\* The product of powers of two.
LEMMA PowSum ==
  ASSUME NEW i \in 0 .. 16, NEW j \in 0 .. 14
  PROVE  2^(i + j) = 2^i * 2^j
PROOF
  <1> DEFINE S == {k \in 0 .. j : 2^(i + k) = 2^i * 2^k}
  <1>1. 0 \in S
    <2>1. 2^i \in Nat
      <3>1. i \in 0 .. 30
        OBVIOUS
      <3> QED BY <3>1, PowTwo
    <2>2. 2^0 = 1 /\ i + 0 = i /\ 0 \in 0 .. j
      OBVIOUS
    <2> QED BY <2>1, <2>2
  <1>2. ASSUME NEW k \in 0 .. j - 1, k \in S PROVE k + 1 \in S
    <2>1. /\ k \in 0 .. 30 /\ i \in 0 .. 30 /\ i + k \in 0 .. 30 /\ k + 1 \in 0 .. j
          /\ 2^(i + k) = 2^i * 2^k
      BY <1>2
    <2>2. 2^(k + 1) = 2 * 2^k /\ 2^k \in Nat /\ 2^i \in Nat
      BY <2>1, PowTwo
    <2>3. 2^((i + k) + 1) = 2 * 2^(i + k)
      BY <2>1, PowTwo
    <2>4. (i + k) + 1 = i + (k + 1)
      BY <2>1
    <2>5. 2^i * 2^(k + 1) = 2 * (2^i * 2^k)
      <3> DEFINE a == 2^i
                 b == 2^k
      <3> HIDE DEF a, b
      <3>1. a * (2 * b) = 2 * (a * b)
        BY <2>2 DEF a, b
      <3> QED BY <2>2, <3>1 DEF a, b
    <2> QED BY <2>1, <2>3, <2>4, <2>5
  <1>3. j \in S
    <2>1. j \in Nat /\ j \in 0 .. j
      OBVIOUS
    <2> HIDE DEF S
    <2> QED BY <1>1, <1>2, <2>1, InductionUpTo
  <1> QED BY <1>3

\* Products of what is at most as large.
LEMMA ProductAtMost ==
  ASSUME NEW a \in Nat, NEW b \in Nat, NEW c \in Nat, NEW d \in Nat, a <= c, b <= d
  PROVE  a * b <= c * d /\ a * b \in Nat /\ c * d \in Nat
PROOF
  <1>1. a * b <= c * b /\ c * b \in Nat /\ a * b \in Nat
    <2> DEFINE e == c - a
    <2>1. e \in Nat /\ c = a + e
      OBVIOUS
    <2> HIDE DEF e
    <2>2. (a + e) * b = a * b + e * b /\ e * b \in Nat /\ a * b \in Nat
      BY <2>1
    <2> QED BY <2>1, <2>2
  <1>2. c * b <= c * d /\ c * d \in Nat
    <2> DEFINE e == d - b
    <2>1. e \in Nat /\ d = b + e
      OBVIOUS
    <2> HIDE DEF e
    <2>2. c * (b + e) = c * b + c * e /\ c * e \in Nat /\ c * b \in Nat
      BY <2>1
    <2> QED BY <2>1, <2>2
  <1> QED BY <1>1, <1>2

\* The columns of tiles: none is wider than the bitstream allows, although their
\* width is rounded to an even one, and there are as many as it asks for.
LEMMA ColumnsSound ==
  ASSUME NEW g \in Frames, NEW c \in Nat, NEW r \in Nat
  PROVE  LET t == from_target_tiles(g, c, r)
         IN /\ t.tile_width_sb <= MAX_TILE_WIDTH \div 64
            /\ t.tile_cols_log2 \in 0 .. 16 /\ t.tile_cols_log2 >= TileLimits(g).min_cols
            /\ Across(g) <= (MAX_TILE_WIDTH \div 64) * 2^t.tile_cols_log2
PROOF
  <1> DEFINE wd == MAX_TILE_WIDTH \div 64
             lim == TileLimits(g)
             m == lim.min_cols
             M == lim.max_cols
             most == AtMost(Across(g), MAX_TILE_COLS)
             a == AtMost(AtLeast(c, m), M)
             pre == CeilDiv(Across(g), 2^a)
             w == tile_width_sb(g, a)
             cols == CeilDiv(Across(g), w)
             clog == tile_log2(1, cols)
  <1>1. wd \in Nat \ {0} /\ wd % 2 = 0 /\ MAX_TILE_COLS \in Nat \ {0}
    <2>1. MAX_TILE_WIDTH \in Nat \ {0} /\ MAX_TILE_WIDTH % 128 = 0 /\ MAX_TILE_COLS \in Nat \ {0}
      BY TilingAssumption
    <2> QED BY <2>1
  <1>2. /\ Across(g) \in Nat \ {0} /\ Across(g) <= 1024
        /\ Across(g) <= wd * MAX_TILE_COLS
    <2>1. Superblocks(g.width) <= (MAX_TILE_WIDTH \div 64) * MAX_TILE_COLS
      BY FramesAssumption
    <2> QED BY <2>1, FrameFacts DEF Across
  <1>3. m = tile_log2(wd, Across(g)) /\ M = tile_log2(1, most)
    BY DEF TileLimits, Across
  <1> HIDE DEF wd, lim
  <1>4. /\ m \in 0 .. 16
        /\ \A k \in Nat : wd * 2^k >= Across(g) => m <= k
        /\ wd * 2^m >= Across(g)
    <2>1. Across(g) <= wd * 2^16
      BY <1>1, <1>2
    <2>2. wd \in Nat /\ Across(g) \in Nat
      BY <1>1, <1>2
    <2> HIDE DEF m
    <2> QED BY <1>3, <2>1, <2>2, TileLog2Least, Zenon
  <1>5. most \in Nat /\ most <= 1024
    BY <1>1, <1>2 DEF AtMost
  <1>6. M \in 0 .. 16 /\ 1 * 2^M >= most
    <2>1. most <= 1 * 2^16 /\ 1 \in Nat
      BY <1>5
    <2> HIDE DEF most, M
    <2> QED BY <1>3, <1>5, <2>1, TileLog2Least
  <1>7. m <= M
    <2>1. 2^M \in Nat /\ M \in Nat
      <3>1. M \in 0 .. 30 /\ M \in Nat
        BY <1>6
      <3> QED BY <3>1, PowTwo
    <2>2. wd * 2^M >= Across(g)
      <3> DEFINE p == 2^M
      <3>1. p \in Nat /\ p >= most
        BY <1>6, <2>1
      <3> HIDE DEF p
      <3>2. CASE Across(g) < MAX_TILE_COLS
        <4>1. p >= Across(g)
          BY <3>1, <3>2 DEF AtMost
        <4>2. wd * p >= p
          BY <1>1, <3>1
        <4>3. wd * p \in Nat
          BY <1>1, <3>1
        <4>4. wd * p >= Across(g)
          BY <1>2, <3>1, <4>1, <4>2, <4>3
        <4> QED BY <4>4 DEF p
      <3>3. CASE ~(Across(g) < MAX_TILE_COLS)
        <4>1. p >= MAX_TILE_COLS
          BY <3>1, <3>3 DEF AtMost
        <4>2. wd * MAX_TILE_COLS <= wd * p /\ wd * MAX_TILE_COLS \in Nat /\ wd * p \in Nat
          BY <1>1, <3>1, <4>1, ProductAtMost
        <4>3. wd * p >= Across(g)
          BY <1>2, <4>2
        <4> QED BY <4>3 DEF p
      <3> QED BY <3>2, <3>3
    <2> QED BY <1>4, <2>1, <2>2
  <1>8. a \in 0 .. 16 /\ a >= m
    BY <1>4, <1>6, <1>7 DEF AtMost, AtLeast
  <1> HIDE DEF a
  <1>9. 2^a \in Nat \ {0} /\ 2^m \in Nat \ {0} /\ 2^m <= 2^a
    <2>1. a \in 0 .. 30 /\ m \in 0 .. 30 /\ m <= a
      BY <1>4, <1>8
    <2>2. 2^a \in Nat \ {0} /\ 2^m \in Nat \ {0}
      BY <2>1, PowTwo
    <2> QED BY <2>1, <2>2, PowMonotone
  <1>10. pre \in Nat \ {0} /\ pre <= wd
    <2> DEFINE p == 2^a
               o == 2^m
    <2>1. p \in Nat \ {0} /\ o \in Nat /\ o <= p /\ wd * o >= Across(g)
      BY <1>4, <1>9
    <2>2. pre \in Nat \ {0} /\ (pre - 1) * p < Across(g)
      BY <1>2, <2>1, CeilDivFacts, ZenonT(60)
    <2> HIDE DEF p, o, pre
    <2>3. wd * o <= wd * p /\ wd * o \in Nat /\ wd * p \in Nat
      BY <1>1, <2>1, ProductAtMost
    <2> SUFFICES ASSUME pre > wd PROVE FALSE
      BY <1>1, <2>2
    <2>4. wd <= pre - 1 /\ pre - 1 \in Nat
      BY <1>1, <2>2
    <2>5. wd * p <= (pre - 1) * p /\ (pre - 1) * p \in Nat
      BY <1>1, <2>1, <2>4, ProductAtMost
    <2> QED BY <1>2, <2>1, <2>2, <2>3, <2>5
  <1> HIDE DEF pre
  <1>11. w \in Nat \ {0} /\ w <= wd
    <2>1. w = IF is_422_p(g) THEN 2 * CeilDiv(pre, 2) ELSE pre
      BY DEF tile_width_sb, Across, pre
    <2>2. CeilDiv(pre, 2) = (pre + 1) \div 2
      BY <1>10 DEF CeilDiv
    <2> HIDE DEF w
    <2>3. CASE is_422_p(g)
      <3>1. w = 2 * ((pre + 1) \div 2)
        BY <2>1, <2>2, <2>3
      <3> QED BY <1>1, <1>10, <3>1
    <2>4. CASE ~is_422_p(g)
      BY <1>10, <2>1, <2>4
    <2> QED BY <2>3, <2>4
  <1> HIDE DEF w
  <1>12. cols \in Nat \ {0} /\ cols <= 1024 /\ cols * w >= Across(g)
    <2>1. cols \in Nat \ {0} /\ cols <= Across(g) /\ cols * w >= Across(g)
      BY <1>2, <1>11, CeilDivFacts, ZenonT(60)
    <2> HIDE DEF cols
    <2> QED BY <1>2, <2>1
  <1> HIDE DEF cols
  <1>13. clog \in 0 .. 16 /\ 1 * 2^clog >= cols
    <2>1. cols <= 1 * 2^16 /\ 1 \in Nat
      BY <1>12
    <2> QED BY <1>12, <2>1, TileLog2Least
  <1> HIDE DEF clog
  <1>14. wd * 2^clog >= Across(g) /\ clog \in Nat
    <2>1. 2^clog \in Nat /\ clog \in Nat
      <3>1. clog \in 0 .. 30 /\ clog \in Nat
        BY <1>13
      <3> QED BY <3>1, PowTwo
    <2> DEFINE p == 2^clog
    <2>2. p \in Nat /\ cols <= p
      BY <1>12, <1>13, <2>1
    <2> HIDE DEF p
    <2>3. cols * w <= p * wd /\ cols * w \in Nat /\ p * wd \in Nat
      BY <1>1, <1>11, <1>12, <2>2, ProductAtMost
    <2>4. p * wd = wd * p
      BY <1>1, <2>2
    <2>5. wd * p >= Across(g)
      BY <1>2, <1>12, <2>3, <2>4
    <2> QED BY <2>1, <2>5 DEF p
  <1>15. clog >= m
    BY <1>4, <1>14
  <1>16. /\ from_target_tiles(g, c, r).tile_width_sb = w
         /\ from_target_tiles(g, c, r).tile_cols_log2 = clog
    BY DEF from_target_tiles, w, cols, clog, a, lim, Across
  <1> QED BY <1>11, <1>13, <1>14, <1>15, <1>16 DEF wd, lim

\* The rate of pixels does not ask for smaller tiles than the greatest numbers of
\* columns and rows make.
RateFits ==
  \A g \in Frames :
    MAX_TILE_WIDTH * 64 * CeilDiv(Superblocks(g.height), MAX_TILE_ROWS) <= RateArea

\* A number of tiles for which an area is divided into pieces that are not too
\* large.
LEMMA PiecesFit ==
  ASSUME NEW n \in Nat, NEW piece \in Nat \ {0}, NEW tiles \in Nat \ {0}, n <= piece * tiles, n # 0
  PROVE  CeilDiv(n, piece) \in Nat /\ CeilDiv(n, piece) <= tiles
PROOF
  <1> DEFINE c == CeilDiv(n, piece)
  <1>1. c \in Nat \ {0} /\ (c - 1) * piece < n
    BY CeilDivFacts
  <1> HIDE DEF c
  <1> SUFFICES ASSUME c > tiles PROVE FALSE
    BY <1>1 DEF c
  <1>2. tiles <= c - 1 /\ c - 1 \in Nat
    BY <1>1
  <1>3. tiles * piece <= (c - 1) * piece /\ (c - 1) * piece \in Nat
    BY <1>2, ProductAtMost
  <1>4. tiles * piece = piece * tiles
    OBVIOUS
  <1> QED BY <1>1, <1>3, <1>4

\* The rows of tiles: the limits on the area and the rate of a tile ask for no
\* more rows than there may be, for the columns there are.
LEMMA RowsSound ==
  ASSUME RateFits, NEW g \in Frames, NEW k \in 0 .. 16, k >= TileLimits(g).min_cols,
         Across(g) <= (MAX_TILE_WIDTH \div 64) * 2^k
  PROVE  TileLimits(g).min_tiles_ratelimit - k <= TileLimits(g).max_rows
PROOF
  <1> DEFINE wd == MAX_TILE_WIDTH \div 64
             ar == MAX_TILE_AREA \div 4096
             lim == TileLimits(g)
             M == lim.max_rows
             most == AtMost(Down(g), MAX_TILE_ROWS)
             each == CeilDiv(Down(g), MAX_TILE_ROWS)
             cw == CeilDiv(g.width, 8)
             ch == CeilDiv(g.height, 8)
             area == cw * ch * 64
             by_area == tile_log2(ar, Across(g) * Down(g))
             by_rate == tile_log2(1, CeilDiv(area, RateArea))
             tiles == 2^(k + M)
             sbs == Across(g) * Down(g)
  <1>1. /\ wd \in Nat \ {0} /\ MAX_TILE_WIDTH = 64 * wd /\ MAX_TILE_ROWS \in Nat \ {0}
        /\ MAX_TILE_AREA \in Nat /\ MAX_TILE_AREA >= 65536 /\ RateArea \in Nat /\ RateArea >= 65536
    <2>1. /\ MAX_TILE_WIDTH \in Nat \ {0} /\ MAX_TILE_WIDTH % 128 = 0 /\ MAX_TILE_ROWS \in Nat \ {0}
          /\ MAX_TILE_AREA \in Nat /\ MAX_TILE_AREA >= 2^16 /\ RateArea \in Nat /\ RateArea >= 2^16
      BY TilingAssumption
    <2>2. 2^16 = 65536
      OBVIOUS
    <2> QED BY <2>1, <2>2
  <1>2. /\ Across(g) \in Nat \ {0} /\ Across(g) <= 1024 /\ Down(g) \in Nat \ {0} /\ Down(g) <= 1024
        /\ g.width \in Nat \ {0} /\ g.height \in Nat \ {0} /\ g.width <= 65535 /\ g.height <= 65535
    BY FrameFacts
  <1>3. /\ MAX_TILE_WIDTH * 64 * each <= MAX_TILE_AREA
        /\ MAX_TILE_WIDTH * 64 * each <= RateArea
    BY FramesAssumption DEF Down, RateFits
  <1>4. /\ M = tile_log2(1, most)
        /\ lim.min_tiles_ratelimit = AtLeast(AtLeast(lim.min_cols, by_area), by_rate)
    BY DEF TileLimits, Across, Down
  <1>5. lim.min_cols \in 0 .. 16 /\ lim.min_cols <= k
    BY LimitFacts
  <1> HIDE DEF wd, lim
  <1>6. most \in Nat /\ most <= 1024
    BY <1>1, <1>2 DEF AtMost
  <1>7. M \in 0 .. 16 /\ 1 * 2^M >= most /\ M <= 10
    <2>1. most <= 1 * 2^16 /\ 1 \in Nat
      BY <1>6
    <2>2. 10 \in Nat /\ 1 * 2^10 >= most
      BY <1>6
    <2> HIDE DEF most, M
    <2>3. /\ M \in 0 .. 16 /\ 1 * 2^M >= most
          /\ \A j \in Nat : 1 * 2^j >= most => M <= j
      BY <1>4, <1>6, <2>1, TileLog2Least
    <2>4. M <= 10
      BY <2>2, <2>3
    <2> QED BY <2>3, <2>4
  <1> HIDE DEF M
  <1>8. /\ 2^k \in Nat \ {0} /\ 2^M \in Nat \ {0} /\ tiles = 2^k * 2^M
        /\ tiles \in Nat \ {0} /\ k + M \in Nat
    <2>1. k \in 0 .. 30 /\ M \in 0 .. 30 /\ M \in 0 .. 14 /\ k + M \in 0 .. 30 /\ k + M \in Nat
      BY <1>7
    <2>2. 2^k \in Nat \ {0} /\ 2^M \in Nat \ {0} /\ 2^(k + M) \in Nat \ {0}
      BY <2>1, PowTwo
    <2> QED BY <2>1, <2>2, PowSum
  <1> HIDE DEF tiles
  <1>9. each \in Nat \ {0} /\ each * MAX_TILE_ROWS >= Down(g)
    <2> DEFINE d == Down(g)
    <2>1. d \in Nat \ {0}
      BY <1>2
    <2> HIDE DEF d
    <2>2. CeilDiv(d, MAX_TILE_ROWS) \in Nat \ {0} /\ CeilDiv(d, MAX_TILE_ROWS) * MAX_TILE_ROWS >= d
      BY <1>1, <2>1, CeilDivFacts
    <2> QED BY <2>2 DEF d
  <1> HIDE DEF each
  <1>10. Down(g) <= each * 2^M /\ each * 2^M \in Nat
    <2> DEFINE p == 2^M
    <2>1. p \in Nat \ {0} /\ p >= most
      BY <1>6, <1>7, <1>8
    <2> HIDE DEF p
    <2>2. CASE Down(g) < MAX_TILE_ROWS
      <3>1. p >= Down(g)
        BY <2>1, <2>2 DEF AtMost
      <3>2. each * p >= p /\ each * p \in Nat
        BY <1>9, <2>1
      <3>3. Down(g) <= each * p
        BY <1>2, <2>1, <3>1, <3>2
      <3> QED BY <3>2, <3>3 DEF p
    <2>3. CASE ~(Down(g) < MAX_TILE_ROWS)
      <3>1. p >= MAX_TILE_ROWS
        BY <2>1, <2>3 DEF AtMost
      <3>2. each * MAX_TILE_ROWS <= each * p /\ each * MAX_TILE_ROWS \in Nat /\ each * p \in Nat
        BY <1>1, <1>9, <2>1, <3>1, ProductAtMost
      <3>3. Down(g) <= each * p
        BY <1>2, <1>9, <3>2
      <3> QED BY <3>2, <3>3 DEF p
    <2> QED BY <2>2, <2>3
  <1>11. wd * each \in Nat \ {0} /\ sbs \in Nat \ {0} /\ sbs <= (wd * each) * tiles
    <2> DEFINE p == 2^k
               q == 2^M
               x == Across(g)
               y == Down(g)
    <2>1. /\ p \in Nat /\ q \in Nat /\ tiles = p * q /\ x \in Nat \ {0} /\ y \in Nat \ {0}
          /\ x <= wd * p /\ y <= each * q
      BY <1>2, <1>8, <1>10 DEF wd
    <2> HIDE DEF p, q, x, y
    <2>2. wd * p \in Nat /\ each * q \in Nat
      BY <1>1, <1>9, <2>1
    <2>3. x * y <= (wd * p) * (each * q)
      BY <2>1, <2>2, ProductAtMost
    <2>4. (wd * p) * (each * q) = (wd * each) * (p * q)
      BY <1>1, <1>9, <2>1
    <2>5. x * y \in Nat \ {0} /\ wd * each \in Nat \ {0}
      BY <1>1, <1>9, <2>1
    <2> QED BY <2>1, <2>3, <2>4, <2>5 DEF x, y
  <1> HIDE DEF sbs
  <1>12. MAX_TILE_WIDTH * 64 * each = 4096 * (wd * each)
    BY <1>1, <1>9
  <1>13. by_area <= k + M /\ by_area \in 0 .. 16
    <2>1. ar \in Nat /\ ar >= 16 /\ wd * each <= ar
      <3> DEFINE we == wd * each
      <3>1. we \in Nat /\ 4096 * we <= MAX_TILE_AREA
        BY <1>3, <1>11, <1>12
      <3> HIDE DEF we
      <3>2. we <= ar /\ ar \in Nat /\ ar >= 16
        BY <1>1, <3>1
      <3> QED BY <3>2 DEF we
    <2> HIDE DEF ar
    <2>2. (wd * each) * tiles <= ar * tiles /\ ar * tiles \in Nat /\ (wd * each) * tiles \in Nat
      BY <1>8, <1>11, <2>1, ProductAtMost
    <2>3. sbs <= ar * 2^(k + M)
      BY <1>11, <2>2 DEF tiles
    <2>4. sbs <= ar * 2^16
      <3>1. sbs <= 1024 * 1024
        <4>1. Across(g) * Down(g) <= 1024 * 1024
          BY <1>2, ProductAtMost
        <4> QED BY <4>1 DEF sbs
      <3>2. ar * 2^16 >= 1024 * 1024 /\ ar * 2^16 \in Nat
        BY <2>1
      <3> QED BY <1>11, <3>1, <3>2
    <2>5. tile_log2(ar, sbs) <= k + M /\ tile_log2(ar, sbs) \in 0 .. 16
      BY <1>8, <1>11, <2>1, <2>3, <2>4, TileLog2Least
    <2> QED BY <2>5 DEF sbs
  <1>14. by_rate <= k + M /\ by_rate \in 0 .. 16
    <2>1. /\ cw \in Nat \ {0} /\ ch \in Nat \ {0} /\ cw <= 8 * Across(g) /\ ch <= 8 * Down(g)
          /\ cw <= 8192 /\ ch <= 8192
      <3> DEFINE wp == g.width
                 hp == g.height
      <3>1. wp \in Nat \ {0} /\ hp \in Nat \ {0} /\ wp <= 65535 /\ hp <= 65535
        BY <1>2
      <3>2. /\ cw = (wp + 7) \div 8 /\ Across(g) = (wp + 63) \div 64
        BY <3>1 DEF CeilDiv, Across, Superblocks
      <3>3. /\ ch = (hp + 7) \div 8 /\ Down(g) = (hp + 63) \div 64
        BY <3>1 DEF CeilDiv, Down, Superblocks
      <3> HIDE DEF cw, ch, wp, hp
      <3>4. cw \in Nat \ {0} /\ cw <= 8192 /\ cw <= 8 * Across(g)
        BY <3>1, <3>2
      <3>5. ch \in Nat \ {0} /\ ch <= 8192 /\ ch <= 8 * Down(g)
        BY <3>1, <3>3
      <3> QED BY <3>4, <3>5
    <2> HIDE DEF cw, ch
    <2>2. area \in Nat \ {0} /\ area <= 4096 * sbs /\ area <= 65536 * 65536
      <3> DEFINE x == Across(g)
                 y == Down(g)
      <3>1. x \in Nat /\ y \in Nat /\ cw <= 8 * x /\ ch <= 8 * y
        BY <1>2, <2>1
      <3> HIDE DEF x, y
      <3>2. cw * ch \in Nat \ {0} /\ cw * ch <= 8192 * 8192
        BY <2>1
      <3>3. cw * ch <= (8 * x) * (8 * y)
        BY <2>1, <3>1, ProductAtMost
      <3>4. (8 * x) * (8 * y) = 64 * (x * y) /\ x * y \in Nat
        BY <3>1
      <3>5. area <= 4096 * (x * y)
        <4> DEFINE o == cw * ch
                   z == x * y
        <4> HIDE DEF o, z
        <4>1. o \in Nat /\ z \in Nat /\ o <= 64 * z
          BY <3>2, <3>3, <3>4 DEF o, z
        <4>2. o * 64 <= 4096 * z
          BY <4>1
        <4> QED BY <4>2 DEF o, z
      <3>6. area \in Nat \ {0} /\ area <= 65536 * 65536
        BY <3>2
      <3> QED BY <3>5, <3>6 DEF x, y, sbs
    <2> HIDE DEF area
    <2>3. area <= RateArea * tiles
      <3> DEFINE we == wd * each
                 wt == we * tiles
      <3>1. we \in Nat /\ 4096 * we <= RateArea /\ wt \in Nat /\ sbs <= wt
        BY <1>3, <1>8, <1>11, <1>12
      <3> HIDE DEF we
      <3>2. (4096 * we) * tiles <= RateArea * tiles /\ RateArea * tiles \in Nat
        BY <1>1, <1>8, <3>1, ProductAtMost
      <3>3. (4096 * we) * tiles = 4096 * wt
        BY <1>8, <3>1
      <3> HIDE DEF wt
      <3> QED BY <1>11, <2>2, <3>1, <3>2, <3>3
    <2> DEFINE n == CeilDiv(area, RateArea)
    <2>4. n \in Nat /\ n <= tiles
      BY <1>1, <1>8, <2>2, <2>3, PiecesFit
    <2>5. n <= 65536
      <3>1. area <= RateArea * 65536
        BY <1>1, <2>2
      <3>2. RateArea \in Nat \ {0} /\ 65536 \in Nat \ {0} /\ area \in Nat /\ area # 0
        BY <1>1, <2>2
      <3> QED BY <3>1, <3>2, PiecesFit
    <2> HIDE DEF n
    <2>6. n <= 1 * 2^16 /\ 1 \in Nat /\ 1 * 2^(k + M) >= n
      BY <1>8, <2>4, <2>5 DEF tiles
    <2>7. tile_log2(1, n) <= k + M /\ tile_log2(1, n) \in 0 .. 16
      BY <1>8, <2>4, <2>6, TileLog2Least
    <2> QED BY <2>7 DEF n
  <1>15. lim.min_tiles_ratelimit <= k + M /\ lim.min_tiles_ratelimit \in Nat
    <2> HIDE DEF by_area, by_rate
    <2> QED BY <1>4, <1>5, <1>7, <1>13, <1>14 DEF AtLeast
  <1>16. lim.min_tiles_ratelimit - k <= M
    BY <1>7, <1>15
  <1> QED BY <1>16 DEF lim, M

\* The assertions and the clamps of from_target_tiles.
LEMMA TilesSound ==
  ASSUME RateFits, NEW g \in Frames, NEW c \in Nat, NEW r \in Nat
  PROVE  from_target_tiles(g, c, r).ok
PROOF
  <1> DEFINE t == from_target_tiles(g, c, r)
             lim == TileLimits(g)
             k == t.tile_cols_log2
  <1>1. /\ k \in 0 .. 16 /\ k >= lim.min_cols
        /\ Across(g) <= (MAX_TILE_WIDTH \div 64) * 2^k
    BY ColumnsSound
  <1>2. t.ok <=> k >= lim.min_cols /\ AtLeast(lim.min_tiles_ratelimit - k, 0) <= lim.max_rows
    BY DEF from_target_tiles
  <1> HIDE DEF k, t
  <1>3. lim.min_tiles_ratelimit - k <= lim.max_rows
    BY <1>1, RowsSound
  <1>4. lim.max_rows \in 0 .. 16 /\ lim.min_tiles_ratelimit \in 0 .. 16
    BY LimitFacts
  <1> HIDE DEF lim
  <1>5. AtLeast(lim.min_tiles_ratelimit - k, 0) <= lim.max_rows
    BY <1>1, <1>3, <1>4 DEF AtLeast
  <1> QED BY <1>1, <1>2, <1>5 DEF t

\* A unit of h superblocks that begins m units after the edge begins in the frame.
BeginsIn(m, h, pixels) == m * h <= Superblocks(pixels) - 1

\* A unit that begins in the frame is one of its units, or the next to the last,
\* which the last one has taken in.
LEMMA UnitBegins ==
  ASSUME NEW pixels \in Nat \ {0}, NEW dec \in {0, 1}, NEW h \in UnitSbs, NEW size,
         size = UnitPixels(h, 64 \div 2^dec), NEW m \in Nat, BeginsIn(m, h, pixels)
  PROVE  m <= Units(pixels, dec, size)
PROOF
  <1>0. size = h * (64 \div 2^dec) /\ m * h <= Superblocks(pixels) - 1
    BY DEF UnitPixels, BeginsIn
  <1> DEFINE w == CeilDiv(pixels, 2^dec)
             n == (w + (size \div 2)) \div size
  <1>1. 2^0 = 1 /\ 2^1 = 2
    OBVIOUS
  <1>2. Superblocks(pixels) = (pixels + 63) \div 64
    BY DEF Superblocks, CeilDiv
  <1>3. w = (IF dec = 0 THEN pixels ELSE (pixels + 1) \div 2)
    <2>1. CASE dec = 0
      <3>1. w = (pixels + 1 - 1) \div 1
        BY <1>1, <2>1 DEF CeilDiv
      <3> HIDE DEF w
      <3> QED BY <2>1, <3>1
    <2>2. CASE dec = 1
      <3>1. w = (pixels + 2 - 1) \div 2
        BY <1>1, <2>2 DEF CeilDiv
      <3> HIDE DEF w
      <3> QED BY <2>2, <3>1
    <2> QED BY <2>1, <2>2
  <1>4. Units(pixels, dec, size) = AtLeast(n, 1)
    BY DEF Units
  <1> DEFINE b == m * h
  <1>5. b \in Nat /\ 64 * b < pixels
    <2>1. b \in Nat
      BY DEF UnitSbs
    <2> HIDE DEF b
    <2>2. b <= ((pixels + 63) \div 64) - 1
      BY <1>0, <1>2 DEF b
    <2> QED BY <2>1, <2>2
  <1>6. size \in Nat \ {0} /\ w \in Nat /\ m * size <= w
    <2>1. CASE dec = 0
      <3>1. size = h * 64 /\ size \in Nat \ {0}
        BY <1>0, <1>1, <2>1 DEF UnitSbs
      <3>2. m * size = 64 * b
        BY <3>1 DEF UnitSbs
      <3> HIDE DEF b
      <3> QED BY <1>3, <1>5, <2>1, <3>1, <3>2
    <2>2. CASE dec = 1
      <3>1. size = h * 32 /\ size \in Nat \ {0}
        BY <1>0, <1>1, <2>2 DEF UnitSbs
      <3>2. m * size = 32 * b
        BY <3>1 DEF UnitSbs
      <3> HIDE DEF b, w
      <3>3. w = (pixels + 1) \div 2
        BY <1>3, <2>2
      <3>4. 32 * b <= w /\ w \in Nat
        BY <1>5, <3>3
      <3> QED BY <3>1, <3>2, <3>4
    <2> QED BY <2>1, <2>2
  <1>7. n \in Nat /\ m <= n
    <2> HIDE DEF w
    <2> DEFINE v == w + (size \div 2)
    <2>1. v \in Nat /\ m * size <= v
      BY <1>6
    <2> HIDE DEF v
    <2> DEFINE q == v \div size
               rest == v % size
    <2>2. q \in Nat /\ rest \in Nat /\ rest < size /\ v = size * q + rest
      BY <1>6, <2>1
    <2> HIDE DEF q, rest
    <2>3. m <= q
      <3> SUFFICES ASSUME q + 1 <= m PROVE FALSE
        BY <2>2
      <3>1. (q + 1) * size <= m * size /\ m * size \in Nat
        BY <1>6, <2>2, ProductAtMost
      <3>2. (q + 1) * size = size * q + size /\ size * q \in Nat
        BY <1>6, <2>2
      <3> QED BY <1>6, <2>1, <2>2, <3>1, <3>2
    <2> QED BY <2>2, <2>3 DEF q, v
  <1> HIDE DEF n
  <1> QED BY <1>4, <1>7 DEF AtLeast

\* The assertion of get_units_region along one side of a tile, with `count` units
\* of h superblocks in the frame.
InRegion(x, w, h, count) ==
  x \div h <= count /\ (x \div h) + CeilDiv(w, h) <= count + 1

\* It holds along both sides.
LEMMA RegionSound ==
  ASSUME NEW pixels \in Nat \ {0}, NEW dec \in {0, 1}, NEW h \in UnitSbs, NEW size,
         size = h * (64 \div 2^dec), NEW x \in Nat, x % h = 0, NEW w \in Nat \ {0},
         x + w <= Superblocks(pixels)
  PROVE  InRegion(x, w, h, Units(pixels, dec, size))
PROOF
  <1> DEFINE i == x \div h
             n == CeilDiv(w, h)
             total == Superblocks(pixels)
             count == Units(pixels, dec, size)
  <1>1. h \in Nat \ {0} /\ i \in Nat /\ i * h = x
    BY DEF UnitSbs
  <1>2. n \in Nat \ {0} /\ (n - 1) * h < w
    BY <1>1, CeilDivFacts
  <1>3. total \in Nat
    BY DEF Superblocks, CeilDiv
  <1>4. count \in Nat
    <2>1. 2^dec \in Nat \ {0} /\ size \in Nat \ {0}
      <3>1. 2^0 = 1 /\ 2^1 = 2
        OBVIOUS
      <3>2. 2^dec \in {1, 2}
        BY <3>1
      <3> DEFINE q == 2^dec
      <3> HIDE DEF q
      <3>3. q \in {1, 2} /\ size = h * (64 \div q)
        BY <3>2 DEF q
      <3>4. q \in Nat \ {0} /\ 64 \div q \in {32, 64}
        BY <3>3
      <3>5. size \in Nat \ {0}
        BY <3>3, <3>4 DEF UnitSbs
      <3> QED BY <3>4, <3>5 DEF q
    <2>2. CeilDiv(pixels, 2^dec) \in Nat \ {0}
      BY <2>1, CeilDivFacts
    <2> DEFINE v == CeilDiv(pixels, 2^dec) + (size \div 2)
    <2>3. v \in Nat
      BY <2>1, <2>2
    <2>4. count = AtLeast(v \div size, 1)
      BY DEF Units
    <2> HIDE DEF v, count
    <2>5. v \div size \in Nat
      BY <2>1, <2>3
    <2> QED BY <2>4, <2>5 DEF AtLeast
  <1> HIDE DEF i, n
  <1>5. i <= count
    <2>1. i * h <= Superblocks(pixels) - 1
      BY <1>1, <1>3
    <2>2. BeginsIn(i, h, pixels) /\ size = UnitPixels(h, 64 \div 2^dec)
      BY <2>1 DEF BeginsIn, UnitPixels
    <2>3. i \in Nat
      BY <1>1
    <2> QED BY <2>2, <2>3, UnitBegins, ZenonT(60)
  <1>6. i + (n - 1) <= count
    <2> DEFINE m == i + (n - 1)
    <2>1. m \in Nat
      BY <1>1, <1>2
    <2>2. m * h = i * h + (n - 1) * h
      BY <1>1, <1>2
    <2>3. (n - 1) * h \in Nat
      BY <1>1, <1>2
    <2> HIDE DEF m
    <2>4. m * h <= Superblocks(pixels) - 1
      BY <1>1, <1>2, <1>3, <2>2, <2>3
    <2>5. BeginsIn(m, h, pixels) /\ size = UnitPixels(h, 64 \div 2^dec)
      BY <2>4 DEF BeginsIn, UnitPixels
    <2>6. m <= count
      BY <2>1, <2>5, UnitBegins, ZenonT(60)
    <2> QED BY <2>6 DEF m
  <1> HIDE DEF count
  <1>7. i <= count /\ i + n <= count + 1
    BY <1>1, <1>2, <1>4, <1>5, <1>6
  <1> QED BY <1>7 DEF i, n, count, InRegion

\* The assertions of get_units_region.
LEMMA UnitsSound ==
  ASSUME LfInv, tile < ti.cols * ti.rows, NEW pli \in Planes
  PROVE  units(pli).ok
PROOF
  <1> DEFINE p == RestorationPlane(f, ti, pli)
             dx == xdec(f, pli)
             dy == ydec(f, pli)
  <1>1. /\ f \in Frames /\ Geometry(f, ts) /\ Placed(f, ts) /\ pli \in PlanesOf(f)
    BY DEF LfInv, TileInv, Planes, PlanesOf
  <1>2. PICK n : ts = TileState(ti, n)
    BY DEF LfInv
  <1> DEFINE rect == TileRect(f, ti, n)
  <1>3. /\ ts.x = rect.x /\ ts.y = rect.y /\ ts.w = rect.w /\ ts.h = rect.h
        /\ ts.rp[pli] = p /\ ts.units[pli] = get_units_region(p, rect)
    BY <1>2 DEF TileState
  <1>4. /\ p.cols = Units(f.width, dx, p.unit_size)
        /\ p.rows = Units(f.height, dy, p.unit_size)
    BY DEF RestorationPlane
  <1>5. dx \in {0, 1} /\ dy \in {0, 1} /\ f.width \in Nat \ {0} /\ f.height \in Nat \ {0}
    BY <1>1, FrameFacts DEF xdec, ydec
  <1> HIDE DEF p, rect, dx, dy
  <1>6. /\ rect.x \in Nat /\ rect.w \in Nat \ {0} /\ rect.x + rect.w <= Superblocks(f.width)
        /\ rect.y \in Nat /\ rect.h \in Nat \ {0} /\ rect.y + rect.h <= Superblocks(f.height)
        /\ p.h_sbs \in UnitSbs /\ p.v_sbs \in UnitSbs
    BY <1>1, <1>3 DEF Geometry, Across, Down
  <1>7. /\ p.unit_size = p.h_sbs * (64 \div 2^dx) /\ p.unit_size = p.v_sbs * (64 \div 2^dy)
        /\ rect.x % p.h_sbs = 0 /\ rect.y % p.v_sbs = 0
    BY <1>1, <1>3 DEF Placed, dx, dy
  <1>8. InRegion(rect.x, rect.w, p.h_sbs, Units(f.width, dx, p.unit_size))
    BY <1>5, <1>6, <1>7, RegionSound
  <1>9. InRegion(rect.y, rect.h, p.v_sbs, Units(f.height, dy, p.unit_size))
    BY <1>5, <1>6, <1>7, RegionSound
  <1>10. get_units_region(p, rect).ok
    BY <1>4, <1>7, <1>8, <1>9 DEF get_units_region, InRegion
  <1> QED BY <1>3, <1>10 DEF units

\* For all these frames, as long as the frame rate asks for no smaller tiles than
\* the greatest numbers of columns and rows make (RateFits, up to 140 frames per
\* second for every size): the assertions and the clamps of from_target_tiles
\* hold, no tile is wider than the bitstream allows, and the assertions of
\* get_units_region hold in every tile and plane.
THEOREM DivisionSoundHolds == RateFits => (LfSpec => []DivisionSound)
PROOF
  <1> SUFFICES ASSUME RateFits PROVE LfSpec => []DivisionSound
    OBVIOUS
  <1>1. LfInv => DivisionSound
    <2> SUFFICES ASSUME LfInv PROVE DivisionSound
      OBVIOUS
    <2>1. PICK c \in Nat, r \in Nat : ti = from_target_tiles(f, c, r)
      BY DEF LfInv
    <2>2. f \in Frames
      BY DEF LfInv
    <2>3. ti.ok
      BY <2>1, <2>2, TilesSound
    <2>4. ti.tile_width_sb <= MAX_TILE_WIDTH \div 64
      BY <2>1, <2>2, ColumnsSound
    <2>5. tile < ti.cols * ti.rows => \A pli \in Planes : units(pli).ok
      BY UnitsSound
    <2> QED BY <2>3, <2>4, <2>5 DEF DivisionSound
  <1> QED BY <1>1, LfInvHolds, PTL
=============================================================================
