---------------------------- MODULE BitstreamProofs ----------------------------
(***************************************************************************)
(* The bytes of a tile decode to the symbols that were written             *)
(* (BitstreamDecodes in SymbolWriter), for every set of CDFs that the code *)
(* may have and every sequence of symbols, checkpoints and rollbacks.      *)
(*                                                                         *)
(* The whole output of an Encoder is one number, whose bytes carry into    *)
(* each other; the numbers and the powers of two it is compared with have  *)
(* as many bits as the tile.                                               *)
(***************************************************************************)
EXTENDS TileProofs

-----------------------------------------------------------------------------
(* Powers of two, and the number that a sequence of bytes is *)

\* p is the powers of two up to n.
IsPow(p, n) == p[0] = 1 /\ \A k \in 1 .. n : p[k] = 2 * p[k - 1]

\* Powers of two beyond the width of the code's numbers.
Pow(n) == CHOOSE v : \E p : IsPow(p, n) /\ v = p[n]

\* There are such powers.
LEMMA PowExists ==
  ASSUME NEW n \in Nat
  PROVE  \E p : IsPow(p, n)
PROOF
  <1> DEFINE D == Nat
             step == [x \in (1 .. n) \X D |-> 2 * x[2]]
  <1>1. step \in [(1 .. n) \X D -> D] /\ 1 \in D
    OBVIOUS
  <1>2. ASSUME NEW k \in 1 .. n, NEW e \in D PROVE step[<<k, e>>] = 2 * e
    OBVIOUS
  <1> HIDE DEF step
  <1>3. PICK p \in [0 .. n -> D] : StepsBy(p, n, 1, step)
    BY <1>1, RecursionUpTo
  <1>4. ASSUME NEW k \in 1 .. n PROVE p[k] = 2 * p[k - 1]
    <2>1. k - 1 \in 0 .. n
      OBVIOUS
    <2>2. p[k - 1] \in D
      BY <1>3, <2>1
    <2>3. p[k] = step[<<k, p[k - 1]>>]
      BY <1>3 DEF StepsBy
    <2> QED BY <1>2, <2>2, <2>3
  <1>5. p[0] = 1
    BY <1>3 DEF StepsBy
  <1> QED BY <1>4, <1>5 DEF IsPow

\* They are determined.
LEMMA PowAlike ==
  ASSUME NEW n \in Nat, NEW m \in Nat, n <= m, NEW p, NEW q, IsPow(p, n), IsPow(q, m)
  PROVE  p[n] = q[n] /\ p[n] \in Nat \ {0}
PROOF
  <1> DEFINE S == {k \in 0 .. n : p[k] = q[k] /\ p[k] \in Nat \ {0}}
  <1>1. 0 \in S
    BY DEF IsPow
  <1>2. ASSUME NEW k \in 0 .. n - 1, k \in S PROVE k + 1 \in S
    <2>1. k + 1 \in 1 .. n /\ k + 1 \in 1 .. m /\ (k + 1) - 1 = k /\ k + 1 \in 0 .. n
      OBVIOUS
    <2>2. p[k + 1] = 2 * p[k] /\ q[k + 1] = 2 * q[k]
      BY <2>1 DEF IsPow
    <2>3. p[k] = q[k] /\ p[k] \in Nat \ {0}
      BY <1>2
    <2> QED BY <2>1, <2>2, <2>3
  <1> HIDE DEF S
  <1>3. \A k \in 0 .. n : k \in S
    BY <1>1, <1>2, InductionUpTo
  <1>4. n \in S
    BY <1>3
  <1> QED BY <1>4 DEF S

\* How they are computed.
LEMMA PowStep ==
  /\ Pow(0) = 1
  /\ \A n \in Nat : Pow(n) \in Nat \ {0} /\ Pow(n + 1) = 2 * Pow(n)
PROOF
  <1>1. ASSUME NEW n \in Nat
        PROVE  \E p : IsPow(p, n) /\ Pow(n) = p[n]
    <2>1. \E v : \E p : IsPow(p, n) /\ v = p[n]
      BY PowExists
    <2> QED BY <2>1 DEF Pow
  <1>2. Pow(0) = 1
    <2>1. PICK p : IsPow(p, 0) /\ Pow(0) = p[0]
      BY <1>1
    <2> QED BY <2>1 DEF IsPow
  <1>3. ASSUME NEW n \in Nat
        PROVE  Pow(n) \in Nat \ {0} /\ Pow(n + 1) = 2 * Pow(n)
    <2>1. PICK p : IsPow(p, n) /\ Pow(n) = p[n]
      BY <1>1
    <2>2. n + 1 \in Nat
      OBVIOUS
    <2>3. PICK q : IsPow(q, n + 1) /\ Pow(n + 1) = q[n + 1]
      BY <1>1, <2>2
    <2>4. p[n] = q[n] /\ p[n] \in Nat \ {0}
      BY <2>1, <2>2, <2>3, PowAlike
    <2>5. q[n + 1] = 2 * q[n]
      <3>1. n + 1 \in 1 .. n + 1 /\ (n + 1) - 1 = n
        OBVIOUS
      <3> QED BY <2>3, <3>1 DEF IsPow
    <2> QED BY <2>1, <2>3, <2>4, <2>5
  <1> QED BY <1>2, <1>3

\* A power of two is a positive number.
LEMMA PowNat ==
  ASSUME NEW n \in Nat
  PROVE  Pow(n) \in Nat \ {0} /\ Pow(n) \in Nat /\ Pow(n) \in Int /\ Pow(n) > 0
PROOF
  <1>1. Pow(n) \in Nat \ {0}
    BY PowStep
  <1> QED BY <1>1

\* Products of powers.
LEMMA PowAdd ==
  ASSUME NEW i \in Nat, NEW j \in Nat
  PROVE  Pow(i + j) = Pow(i) * Pow(j)
PROOF
  <1> DEFINE S == {k \in 0 .. j : Pow(i + k) = Pow(i) * Pow(k)}
  <1>1. 0 \in S
    <2>1. Pow(i) \in Nat /\ Pow(0) = 1 /\ i + 0 = i /\ 0 \in 0 .. j
      BY PowStep, PowNat
    <2> QED BY <2>1
  <1>2. ASSUME NEW k \in 0 .. j - 1, k \in S PROVE k + 1 \in S
    <2>1. k \in Nat /\ i + k \in Nat /\ k + 1 \in 0 .. j /\ i + (k + 1) = (i + k) + 1
      OBVIOUS
    <2>2. /\ Pow(k + 1) = 2 * Pow(k) /\ Pow((i + k) + 1) = 2 * Pow(i + k)
          /\ Pow(k) \in Nat /\ Pow(i) \in Nat
      BY <2>1, PowStep
    <2>3. Pow(i + k) = Pow(i) * Pow(k)
      BY <1>2
    <2>4. Pow(i + (k + 1)) = 2 * (Pow(i) * Pow(k))
      BY <2>1, <2>2, <2>3
    <2>5. Pow(i) * (2 * Pow(k)) = 2 * (Pow(i) * Pow(k))
      BY <2>2
    <2> QED BY <2>1, <2>2, <2>4, <2>5
  <1> HIDE DEF S
  <1>3. \A k \in 0 .. j : k \in S
    BY <1>1, <1>2, InductionUpTo
  <1>4. j \in S
    BY <1>3
  <1> QED BY <1>4 DEF S

\* The powers that the code computes.
LEMMA PowIs ==
  ASSUME NEW j \in 0 .. 31
  PROVE  2^j = Pow(j)
PROOF
  <1> DEFINE S == {k \in 0 .. 31 : 2^k = Pow(k)}
  <1>1. 0 \in S
    <2>1. 2^0 = 1 /\ Pow(0) = 1
      BY PowStep
    <2> QED BY <2>1
  <1>2. ASSUME NEW k \in 0 .. 31 - 1, k \in S PROVE k + 1 \in S
    <2>1. k \in 0 .. 30 /\ k \in Nat /\ k + 1 \in 0 .. 31
      OBVIOUS
    <2>2. 2^(k + 1) = 2 * 2^k
      BY <2>1, PowTwo
    <2>3. Pow(k + 1) = 2 * Pow(k)
      BY <2>1, PowStep
    <2> QED BY <1>2, <2>1, <2>2, <2>3
  <1> HIDE DEF S
  <1>3. 31 \in Nat
    OBVIOUS
  <1>4. \A k \in 0 .. 31 : k \in S
    BY <1>1, <1>2, <1>3, InductionUpTo
  <1>5. j \in S
    BY <1>4
  <1> QED BY <1>5 DEF S

\* Some of them.
LEMMA PowSmall ==
  /\ Pow(0) = 1 /\ Pow(1) = 2 /\ Pow(2) = 4 /\ Pow(3) = 8 /\ Pow(4) = 16 /\ Pow(5) = 32
  /\ Pow(6) = 64 /\ Pow(7) = 128 /\ Pow(8) = 256 /\ Pow(9) = 512 /\ Pow(10) = 1024
  /\ Pow(11) = 2048 /\ Pow(12) = 4096 /\ Pow(13) = 8192 /\ Pow(14) = 16384
  /\ Pow(15) = 32768 /\ Pow(16) = 65536
PROOF
  <1>1. /\ Pow(0) = 1 /\ Pow(0 + 1) = 2 * Pow(0) /\ Pow(1 + 1) = 2 * Pow(1)
        /\ Pow(2 + 1) = 2 * Pow(2) /\ Pow(3 + 1) = 2 * Pow(3) /\ Pow(4 + 1) = 2 * Pow(4)
        /\ Pow(5 + 1) = 2 * Pow(5) /\ Pow(6 + 1) = 2 * Pow(6) /\ Pow(7 + 1) = 2 * Pow(7)
    BY PowStep
  <1>2. /\ Pow(8 + 1) = 2 * Pow(8) /\ Pow(9 + 1) = 2 * Pow(9) /\ Pow(10 + 1) = 2 * Pow(10)
        /\ Pow(11 + 1) = 2 * Pow(11) /\ Pow(12 + 1) = 2 * Pow(12) /\ Pow(13 + 1) = 2 * Pow(13)
        /\ Pow(14 + 1) = 2 * Pow(14) /\ Pow(15 + 1) = 2 * Pow(15)
    BY PowStep
  <1>3. /\ 0 + 1 = 1 /\ 1 + 1 = 2 /\ 2 + 1 = 3 /\ 3 + 1 = 4 /\ 4 + 1 = 5 /\ 5 + 1 = 6
        /\ 6 + 1 = 7 /\ 7 + 1 = 8 /\ 8 + 1 = 9 /\ 9 + 1 = 10 /\ 10 + 1 = 11 /\ 11 + 1 = 12
        /\ 12 + 1 = 13 /\ 13 + 1 = 14 /\ 14 + 1 = 15 /\ 15 + 1 = 16
    OBVIOUS
  <1> QED BY <1>1, <1>2, <1>3

\* h is the values of the first bytes of b, up to n of them.
IsValue(h, b, n) == h[0] = 0 /\ \A k \in 1 .. n : h[k] = 256 * h[k - 1] + b[k]

\* The number that the first n bytes of b are; a byte may be greater than 255.
Number(b, n) == CHOOSE v : \E h : IsValue(h, b, n) /\ v = h[n]

\* There are such values.
LEMMA ValueExists ==
  ASSUME NEW n \in Nat, NEW b, \A k \in 1 .. n : b[k] \in Nat
  PROVE  \E h : IsValue(h, b, n)
PROOF
  <1> DEFINE D == Nat
             step == [x \in (1 .. n) \X D |-> 256 * x[2] + b[x[1]]]
  <1>1. step \in [(1 .. n) \X D -> D] /\ 0 \in D
    <2>1. ASSUME NEW x \in (1 .. n) \X D PROVE 256 * x[2] + b[x[1]] \in D
      OBVIOUS
    <2> QED BY <2>1
  <1>2. ASSUME NEW k \in 1 .. n, NEW e \in D PROVE step[<<k, e>>] = 256 * e + b[k]
    OBVIOUS
  <1> HIDE DEF step
  <1>3. PICK p \in [0 .. n -> D] : StepsBy(p, n, 0, step)
    BY <1>1, RecursionUpTo
  <1>4. ASSUME NEW k \in 1 .. n PROVE p[k] = 256 * p[k - 1] + b[k]
    <2>1. k - 1 \in 0 .. n
      OBVIOUS
    <2>2. p[k - 1] \in D
      BY <1>3, <2>1
    <2>3. p[k] = step[<<k, p[k - 1]>>]
      BY <1>3 DEF StepsBy
    <2> QED BY <1>2, <2>2, <2>3
  <1>5. p[0] = 0
    BY <1>3 DEF StepsBy
  <1> QED BY <1>4, <1>5 DEF IsValue

\* They are determined by the bytes.
LEMMA ValueAlike ==
  ASSUME NEW n \in Nat, NEW m \in Nat, n <= m, NEW b, NEW d, NEW p, NEW q,
         \A k \in 1 .. n : b[k] \in Nat /\ b[k] = d[k], IsValue(p, b, n), IsValue(q, d, m)
  PROVE  p[n] = q[n] /\ p[n] \in Nat
PROOF
  <1> DEFINE S == {k \in 0 .. n : p[k] = q[k] /\ p[k] \in Nat}
  <1>1. 0 \in S
    BY DEF IsValue
  <1>2. ASSUME NEW k \in 0 .. n - 1, k \in S PROVE k + 1 \in S
    <2>1. k + 1 \in 1 .. n /\ k + 1 \in 1 .. m /\ (k + 1) - 1 = k /\ k + 1 \in 0 .. n
      OBVIOUS
    <2>2. p[k + 1] = 256 * p[k] + b[k + 1] /\ q[k + 1] = 256 * q[k] + d[k + 1]
      BY <2>1 DEF IsValue
    <2>3. p[k] = q[k] /\ p[k] \in Nat /\ b[k + 1] \in Nat /\ b[k + 1] = d[k + 1]
      BY <1>2, <2>1
    <2>4. p[k + 1] = q[k + 1] /\ p[k + 1] \in Nat
      BY <2>2, <2>3
    <2> QED BY <2>1, <2>4
  <1> HIDE DEF S
  <1>3. \A k \in 0 .. n : k \in S
    BY <1>1, <1>2, InductionUpTo
  <1>4. n \in S
    BY <1>3
  <1> QED BY <1>4 DEF S

\* Bytes that begin alike have the same value.
LEMMA ValueSame ==
  ASSUME NEW n \in Nat, NEW b, NEW d, \A k \in 1 .. n : b[k] \in Nat /\ b[k] = d[k]
  PROVE  Number(b, n) = Number(d, n) /\ Number(b, n) \in Nat
PROOF
  <1>1. (\A k \in 1 .. n : b[k] \in Nat) /\ (\A k \in 1 .. n : d[k] \in Nat)
    OBVIOUS
  <1>2. \E v : \E p : IsValue(p, b, n) /\ v = p[n]
    BY <1>1, ValueExists
  <1>3. \E v : \E p : IsValue(p, d, n) /\ v = p[n]
    BY <1>1, ValueExists
  <1>4. PICK p : IsValue(p, b, n) /\ Number(b, n) = p[n]
    BY <1>2 DEF Number
  <1>5. PICK q : IsValue(q, d, n) /\ Number(d, n) = q[n]
    BY <1>3 DEF Number
  <1>6. n <= n
    OBVIOUS
  <1>7. p[n] = q[n] /\ p[n] \in Nat
    BY <1>4, <1>5, <1>6, ValueAlike
  <1> QED BY <1>4, <1>5, <1>7

\* How the value is computed.
LEMMA ValueZero ==
  ASSUME NEW b
  PROVE  Number(b, 0) = 0
PROOF
  <1>1. \A k \in 1 .. 0 : b[k] \in Nat
    OBVIOUS
  <1>2. \E v : \E p : IsValue(p, b, 0) /\ v = p[0]
    BY <1>1, ValueExists
  <1>3. PICK p : IsValue(p, b, 0) /\ Number(b, 0) = p[0]
    BY <1>2 DEF Number
  <1> QED BY <1>3 DEF IsValue

\* One more byte.
LEMMA ValueStep ==
  ASSUME NEW n \in Nat, NEW b, \A k \in 1 .. n + 1 : b[k] \in Nat
  PROVE  /\ Number(b, n) \in Nat /\ Number(b, n + 1) \in Nat
         /\ Number(b, n + 1) = 256 * Number(b, n) + b[n + 1]
PROOF
  <1>0. n + 1 \in Nat /\ n <= n + 1 /\ n + 1 \in 1 .. n + 1 /\ (n + 1) - 1 = n
        /\ \A k \in 1 .. n : k \in 1 .. n + 1
    OBVIOUS
  <1>1. (\A k \in 1 .. n : b[k] \in Nat /\ b[k] = b[k]) /\ b[n + 1] \in Nat
    BY <1>0
  <1>2. \E v : \E p : IsValue(p, b, n) /\ v = p[n]
    BY <1>1, ValueExists
  <1>3. \E v : \E p : IsValue(p, b, n + 1) /\ v = p[n + 1]
    BY <1>0, ValueExists
  <1>4. PICK p : IsValue(p, b, n) /\ Number(b, n) = p[n]
    BY <1>2 DEF Number
  <1>5. PICK q : IsValue(q, b, n + 1) /\ Number(b, n + 1) = q[n + 1]
    BY <1>3 DEF Number
  <1>6. p[n] = q[n] /\ p[n] \in Nat
    BY <1>0, <1>1, <1>4, <1>5, ValueAlike
  <1>7. q[n + 1] = 256 * q[n] + b[n + 1]
    BY <1>0, <1>5 DEF IsValue
  <1> QED BY <1>1, <1>4, <1>5, <1>6, <1>7

-----------------------------------------------------------------------------
(* The parts of the range, and tokens *)

\* A CDF of up to 16 symbols: numbers of 15 bits that do not rise, and the count.
IsCdf(x) ==
  /\ x \in Seq(Nat) /\ 2 <= Len(x) /\ Len(x) <= 16 /\ x[Len(x)] <= 32
  /\ \A i \in 1 .. Len(x) - 1 : x[i] < 32768
  /\ \A i, j \in 1 .. Len(x) - 1 : i <= j => x[j] <= x[i]

\* The range of the coder between two symbols.
InRange(r) == r \in Nat /\ 32768 <= r /\ r < 65536

\* The part of the range above the symbols before i, and above those before s + 1.
Bound(r, x, i) == scaled(r, x[i]) + EC_MIN_PROB * (Len(x) - i)
Upper(r, x, s) == IF s = 0 THEN r ELSE Bound(r, x, s)

\* A CDF value takes a part of the range that leaves room for every symbol.
LEMMA ScaledFacts ==
  ASSUME NEW r, InRange(r), NEW a \in Nat, a < 32768
  PROVE  scaled(r, a) \in Nat /\ scaled(r, a) + 64 <= r
PROOF
  <1> DEFINE q == r \div 256
             h == a \div 64
             z == q * h
  <1>1. q \in Nat /\ 128 <= q /\ 256 * q <= r /\ h \in Nat /\ h <= 511
    BY DEF InRange
  <1>2. scaled(r, a) = z \div 2
    <2>1. 2^EC_PROB_SHIFT = 64 /\ 2^(7 - EC_PROB_SHIFT) = 2
      <3>1. 2^6 = 64 /\ 2^1 = 2 /\ 7 - 6 = 1
        OBVIOUS
      <3> QED BY <3>1 DEF EC_PROB_SHIFT
    <2> QED BY <2>1 DEF scaled
  <1> HIDE DEF q, h
  <1>3. z \in Nat /\ z <= q * 511
    <2>1. q <= q /\ 511 \in Nat
      BY <1>1
    <2> QED BY <1>1, <2>1, ProductAtMost
  <1> HIDE DEF z
  <1>4. r \in Nat
    BY DEF InRange
  <1>5. z \div 2 \in Nat /\ 2 * (z \div 2) <= z
    BY <1>3
  <1> QED BY <1>1, <1>2, <1>3, <1>4, <1>5

\* The part does not shrink with the value.
LEMMA ScaledMonotone ==
  ASSUME NEW r, InRange(r), NEW a \in Nat, NEW b \in Nat, a <= b
  PROVE  scaled(r, a) <= scaled(r, b)
PROOF
  <1> DEFINE q == r \div 256
             h == a \div 64
             k == b \div 64
             y == q * h
             z == q * k
  <1>1. q \in Nat /\ h \in Nat /\ k \in Nat /\ h <= k
    BY DEF InRange
  <1>2. scaled(r, a) = y \div 2 /\ scaled(r, b) = z \div 2
    <2>1. 2^EC_PROB_SHIFT = 64 /\ 2^(7 - EC_PROB_SHIFT) = 2
      <3>1. 2^6 = 64 /\ 2^1 = 2 /\ 7 - 6 = 1
        OBVIOUS
      <3> QED BY <3>1 DEF EC_PROB_SHIFT
    <2> QED BY <2>1 DEF scaled
  <1> HIDE DEF q, h, k
  <1>3. y <= z /\ y \in Nat /\ z \in Nat
    <2>1. q <= q
      BY <1>1
    <2> QED BY <1>1, <2>1, ProductAtMost
  <1> HIDE DEF y, z
  <1> QED BY <1>2, <1>3

\* A count takes no part of the range.
LEMMA ScaledZero ==
  ASSUME NEW r, InRange(r), NEW a \in Nat, a < 64
  PROVE  scaled(r, a) = 0
PROOF
  <1>1. a \div 64 = 0 /\ r \div 256 \in Nat
    BY DEF InRange
  <1>2. 2^EC_PROB_SHIFT = 64 /\ 2^(7 - EC_PROB_SHIFT) = 2
    <2>1. 2^6 = 64 /\ 2^1 = 2 /\ 7 - 6 = 1
      OBVIOUS
    <2> QED BY <2>1 DEF EC_PROB_SHIFT
  <1>3. (r \div 256) * (a \div 64) = 0
    BY <1>1
  <1> QED BY <1>2, <1>3 DEF scaled

\* The parts of the symbols lie above each other, each at least EC_MIN_PROB high.
LEMMA BoundFacts ==
  ASSUME NEW r, InRange(r), NEW x, IsCdf(x)
  PROVE  /\ \A i \in 1 .. Len(x) : Bound(r, x, i) \in Nat /\ Bound(r, x, i) + 4 <= r
         /\ Bound(r, x, Len(x)) = 0
         /\ \A i, j \in 1 .. Len(x) : i < j => Bound(r, x, j) + 4 <= Bound(r, x, i)
PROOF
  <1> DEFINE n == Len(x)
  <1>1. n \in Nat /\ 2 <= n /\ n <= 16 /\ \A i \in 1 .. n : x[i] \in Nat
    BY DEF IsCdf
  <1>2. x[n] \in Nat /\ x[n] < 64 /\ scaled(r, x[n]) = 0
    <2>1. n \in 1 .. n
      BY <1>1
    <2>2. x[n] \in Nat
      BY <1>1, <2>1
    <2>3. x[n] <= 32
      BY DEF IsCdf
    <2>4. x[n] < 64
      BY <2>2, <2>3
    <2> HIDE DEF n
    <2> QED BY <2>2, <2>4, ScaledZero
  <1>3. EC_MIN_PROB = 4
    BY DEF EC_MIN_PROB
  <1>4. Bound(r, x, n) = 0
    BY <1>1, <1>2, <1>3 DEF Bound
  <1>5. ASSUME NEW i \in 1 .. n - 1
        PROVE  scaled(r, x[i]) \in Nat /\ scaled(r, x[i]) + 64 <= r
    <2>1. x[i] \in Nat /\ x[i] < 32768
      BY <1>1 DEF IsCdf
    <2> QED BY <2>1, ScaledFacts
  <1>6. \A i, j \in 1 .. n - 1 : i <= j => scaled(r, x[j]) <= scaled(r, x[i])
    <2> SUFFICES ASSUME NEW i \in 1 .. n - 1, NEW j \in 1 .. n - 1, i <= j
                 PROVE  scaled(r, x[j]) <= scaled(r, x[i])
      OBVIOUS
    <2>1. x[j] <= x[i]
      BY DEF IsCdf
    <2>2. x[i] \in Nat /\ x[j] \in Nat
      BY <1>1
    <2> QED BY <2>1, <2>2, ScaledMonotone
  <1>7. r \in Nat /\ 32768 <= r
    BY DEF InRange
  <1> HIDE DEF n
  <1>8. ASSUME NEW i \in 1 .. n PROVE Bound(r, x, i) \in Nat /\ Bound(r, x, i) + 4 <= r
    <2>1. CASE i = n
      BY <1>4, <1>7, <2>1
    <2>2. CASE i # n
      <3>1. i \in 1 .. n - 1 /\ 4 * (n - i) \in Nat /\ 4 * (n - i) <= 60
        BY <1>1, <2>2
      <3>2. Bound(r, x, i) = scaled(r, x[i]) + 4 * (n - i)
        BY <1>3 DEF Bound, n
      <3>3. scaled(r, x[i]) \in Nat /\ scaled(r, x[i]) + 64 <= r
        BY <1>5, <3>1
      <3> QED BY <1>7, <3>1, <3>2, <3>3
    <2> QED BY <2>1, <2>2
  <1>9. ASSUME NEW i \in 1 .. n, NEW j \in 1 .. n, i < j
        PROVE  Bound(r, x, j) + 4 <= Bound(r, x, i)
    <2>1. i \in 1 .. n - 1 /\ 4 * (n - i) \in Nat /\ 4 <= 4 * (n - i)
      BY <1>1, <1>9
    <2>2. Bound(r, x, i) = scaled(r, x[i]) + 4 * (n - i) /\ scaled(r, x[i]) \in Nat
      BY <1>3, <1>5, <2>1 DEF Bound, n
    <2>3. CASE j = n
      BY <1>4, <2>1, <2>2, <2>3
    <2>4. CASE j # n
      <3>1. j \in 1 .. n - 1 /\ 4 * (n - j) \in Nat /\ 4 * (n - j) + 4 <= 4 * (n - i)
        BY <1>1, <1>9, <2>4
      <3>2. Bound(r, x, j) = scaled(r, x[j]) + 4 * (n - j) /\ scaled(r, x[j]) \in Nat
        BY <1>3, <1>5, <3>1 DEF Bound, n
      <3>3. scaled(r, x[j]) <= scaled(r, x[i])
        BY <1>6, <1>9, <2>1, <3>1
      <3> QED BY <2>1, <2>2, <3>1, <3>2, <3>3
    <2> QED BY <2>3, <2>4
  <1> QED BY <1>4, <1>8, <1>9 DEF n

\* What lr_compute gives for a symbol: the part between two bounds.
LEMMA TokenFacts ==
  ASSUME NEW r, InRange(r), NEW x, IsCdf(x), NEW s \in 0 .. Len(x) - 1
  PROVE  /\ lr_compute(r, token(x, s)).l = r - Upper(r, x, s)
         /\ lr_compute(r, token(x, s)).r = Upper(r, x, s) - Bound(r, x, s + 1)
         /\ Bound(r, x, s + 1) \in Nat /\ Upper(r, x, s) \in Nat /\ Upper(r, x, s) <= r
         /\ Bound(r, x, s + 1) + 4 <= Upper(r, x, s)
PROOF
  <1>0. Len(x) \in Nat /\ Len(x) >= 2
    BY DEF IsCdf
  <1>1. Len(x) \in Nat /\ s \in Nat /\ s + 1 \in 1 .. Len(x) /\ Len(x) >= 2
    BY <1>0
  <1>2. Bound(r, x, s + 1) \in Nat /\ Bound(r, x, s + 1) + 4 <= r
    BY <1>1, BoundFacts
  <1>3. r \in Nat
    BY DEF InRange
  <1> DEFINE tk == token(x, s)
  <1>4. tk.fh = x[s + 1] /\ tk.nms = Len(x) - s /\ tk.fl = IF s > 0 THEN x[s] ELSE 32768
    BY DEF token
  <1>5. scaled(r, tk.fh) + EC_MIN_PROB * (tk.nms - 1) = Bound(r, x, s + 1)
    <2>1. tk.nms - 1 = Len(x) - (s + 1)
      BY <1>1, <1>4
    <2> QED BY <1>4, <2>1 DEF Bound
  <1>6. (IF tk.fl >= 32768 THEN r ELSE scaled(r, tk.fl) + EC_MIN_PROB * tk.nms) = Upper(r, x, s)
    <2>1. CASE s = 0
      BY <1>4, <2>1 DEF Upper
    <2>2. CASE s # 0
      <3>1. s \in 1 .. Len(x) - 1 /\ s > 0
        BY <1>1, <2>2
      <3>2. x[s] < 32768 /\ x[s] \in Nat
        BY <1>1, <3>1 DEF IsCdf
      <3>3. ~(tk.fl >= 32768) /\ tk.fl = x[s]
        BY <1>4, <3>1, <3>2
      <3> QED BY <1>4, <2>2, <3>3 DEF Upper, Bound
    <2> QED BY <2>1, <2>2
  <1>7. /\ Upper(r, x, s) \in Nat /\ Upper(r, x, s) <= r
        /\ Bound(r, x, s + 1) + 4 <= Upper(r, x, s)
    <2>1. CASE s = 0
      BY <1>2, <1>3, <2>1 DEF Upper
    <2>2. CASE s # 0
      <3>1. s \in 1 .. Len(x) /\ s < s + 1
        BY <1>1, <2>2
      <3>2. Bound(r, x, s) \in Nat /\ Bound(r, x, s) + 4 <= r
            /\ Bound(r, x, s + 1) + 4 <= Bound(r, x, s)
        BY <1>1, <3>1, BoundFacts
      <3> QED BY <1>3, <2>2, <3>2 DEF Upper
    <2> QED BY <2>1, <2>2
  <1> HIDE DEF tk
  <1>8. lr_compute(r, tk) = [l |-> r - Upper(r, x, s), r |-> Upper(r, x, s) - Bound(r, x, s + 1)]
    BY <1>5, <1>6 DEF lr_compute
  <1> QED BY <1>2, <1>7, <1>8 DEF tk

\* Where the window is within the part of a symbol, the Reader finds that symbol.
LEMMA SymbolFound ==
  ASSUME NEW r, InRange(r), NEW x, IsCdf(x), NEW s \in 0 .. Len(x) - 1, NEW c \in Int,
         Bound(r, x, s + 1) <= c, c < Upper(r, x, s)
  PROVE  s = CHOOSE k \in 0 .. Len(x) - 1 :
               c >= Bound(r, x, k + 1) /\ \A i \in 1 .. k : c < Bound(r, x, i)
PROOF
  <1>1. Len(x) \in Nat /\ s \in Nat /\ s + 1 \in 1 .. Len(x)
    BY DEF IsCdf
  <1>2. \A i \in 1 .. Len(x) : Bound(r, x, i) \in Nat
    BY BoundFacts
  <1>3. ASSUME NEW i \in 1 .. s PROVE c < Bound(r, x, i)
    <2>1. s \in 1 .. Len(x) /\ i \in 1 .. Len(x) /\ s # 0
      BY <1>1
    <2>2. c < Bound(r, x, s)
      BY <2>1 DEF Upper
    <2>3. i = s \/ Bound(r, x, s) + 4 <= Bound(r, x, i)
      BY <2>1, BoundFacts
    <2>4. Bound(r, x, s) \in Nat /\ Bound(r, x, i) \in Nat
      BY <1>2, <2>1
    <2> QED BY <2>2, <2>3, <2>4
  <1>4. ASSUME NEW k \in 0 .. Len(x) - 1, c >= Bound(r, x, k + 1), \A i \in 1 .. k : c < Bound(r, x, i)
        PROVE  k = s
    <2>1. k \in Nat /\ k + 1 \in 1 .. Len(x)
      BY <1>1
    <2>2. ASSUME k < s PROVE FALSE
      <3>1. k + 1 \in 1 .. s
        BY <1>1, <2>1, <2>2
      <3>2. c < Bound(r, x, k + 1) /\ Bound(r, x, k + 1) \in Nat
        BY <1>2, <1>3, <2>1, <3>1
      <3> QED BY <1>4, <3>2
    <2>3. ASSUME s < k PROVE FALSE
      <3>1. s + 1 \in 1 .. k
        BY <1>1, <2>1, <2>3
      <3>2. c < Bound(r, x, s + 1) /\ Bound(r, x, s + 1) \in Nat
        BY <1>1, <1>2, <1>4, <3>1
      <3> QED BY <3>2
    <2> QED BY <1>1, <2>1, <2>2, <2>3
  <1> QED BY <1>3, <1>4

\* The shifts of the range coder are powers that the code computes.
Computed(k) == 2^k = Pow(k)

\* Every shift of the range coder is one of them.
LEMMA ShiftsComputed == \A k \in 0 .. 15 : Computed(k)
PROOF
  <1> SUFFICES ASSUME NEW k \in 0 .. 15 PROVE 2^k = Pow(k)
    BY DEF Computed
  <1>1. k \in 0 .. 31
    OBVIOUS
  <1> QED BY <1>1, PowIs

\* What leading_zeros finds: the shift that brings the range back to 16 bits.
LEMMA LeadingZeros ==
  ASSUME NEW r \in Nat, 1 <= r, r < 65536
  PROVE  /\ leading_zeros(r) \in 0 .. 15 /\ leading_zeros(r) \in Nat
         /\ 2^leading_zeros(r) = Pow(leading_zeros(r)) /\ InRange(r * Pow(leading_zeros(r)))
PROOF
  <1>1. 2^15 = 32768 /\ 2^16 = 65536
    OBVIOUS
  <1> DEFINE P(d) == 2^15 <= r * 2^d /\ r * 2^d < 2^16
             d == leading_zeros(r)
  <1>3. \E k \in 0 .. 15 : P(k)
    <2>1. CASE 1 <= r /\ r < 2
      <3>1. 2^15 = 32768 /\ 15 \in 0 .. 15
        OBVIOUS
      <3>2. P(15)
        BY <1>1, <2>1, <3>1
      <3> QED BY <3>1, <3>2
    <2>2. CASE 2 <= r /\ r < 4
      <3>1. 2^14 = 16384 /\ 14 \in 0 .. 15
        OBVIOUS
      <3>2. P(14)
        BY <1>1, <2>2, <3>1
      <3> QED BY <3>1, <3>2
    <2>3. CASE 4 <= r /\ r < 8
      <3>1. 2^13 = 8192 /\ 13 \in 0 .. 15
        OBVIOUS
      <3>2. P(13)
        BY <1>1, <2>3, <3>1
      <3> QED BY <3>1, <3>2
    <2>4. CASE 8 <= r /\ r < 16
      <3>1. 2^12 = 4096 /\ 12 \in 0 .. 15
        OBVIOUS
      <3>2. P(12)
        BY <1>1, <2>4, <3>1
      <3> QED BY <3>1, <3>2
    <2>5. CASE 16 <= r /\ r < 32
      <3>1. 2^11 = 2048 /\ 11 \in 0 .. 15
        OBVIOUS
      <3>2. P(11)
        BY <1>1, <2>5, <3>1
      <3> QED BY <3>1, <3>2
    <2>6. CASE 32 <= r /\ r < 64
      <3>1. 2^10 = 1024 /\ 10 \in 0 .. 15
        OBVIOUS
      <3>2. P(10)
        BY <1>1, <2>6, <3>1
      <3> QED BY <3>1, <3>2
    <2>7. CASE 64 <= r /\ r < 128
      <3>1. 2^9 = 512 /\ 9 \in 0 .. 15
        OBVIOUS
      <3>2. P(9)
        BY <1>1, <2>7, <3>1
      <3> QED BY <3>1, <3>2
    <2>8. CASE 128 <= r /\ r < 256
      <3>1. 2^8 = 256 /\ 8 \in 0 .. 15
        OBVIOUS
      <3>2. P(8)
        BY <1>1, <2>8, <3>1
      <3> QED BY <3>1, <3>2
    <2>9. CASE 256 <= r /\ r < 512
      <3>1. 2^7 = 128 /\ 7 \in 0 .. 15
        OBVIOUS
      <3>2. P(7)
        BY <1>1, <2>9, <3>1
      <3> QED BY <3>1, <3>2
    <2>10. CASE 512 <= r /\ r < 1024
      <3>1. 2^6 = 64 /\ 6 \in 0 .. 15
        OBVIOUS
      <3>2. P(6)
        BY <1>1, <2>10, <3>1
      <3> QED BY <3>1, <3>2
    <2>11. CASE 1024 <= r /\ r < 2048
      <3>1. 2^5 = 32 /\ 5 \in 0 .. 15
        OBVIOUS
      <3>2. P(5)
        BY <1>1, <2>11, <3>1
      <3> QED BY <3>1, <3>2
    <2>12. CASE 2048 <= r /\ r < 4096
      <3>1. 2^4 = 16 /\ 4 \in 0 .. 15
        OBVIOUS
      <3>2. P(4)
        BY <1>1, <2>12, <3>1
      <3> QED BY <3>1, <3>2
    <2>13. CASE 4096 <= r /\ r < 8192
      <3>1. 2^3 = 8 /\ 3 \in 0 .. 15
        OBVIOUS
      <3>2. P(3)
        BY <1>1, <2>13, <3>1
      <3> QED BY <3>1, <3>2
    <2>14. CASE 8192 <= r /\ r < 16384
      <3>1. 2^2 = 4 /\ 2 \in 0 .. 15
        OBVIOUS
      <3>2. P(2)
        BY <1>1, <2>14, <3>1
      <3> QED BY <3>1, <3>2
    <2>15. CASE 16384 <= r /\ r < 32768
      <3>1. 2^1 = 2 /\ 1 \in 0 .. 15
        OBVIOUS
      <3>2. P(1)
        BY <1>1, <2>15, <3>1
      <3> QED BY <3>1, <3>2
    <2>16. CASE 32768 <= r /\ r < 65536
      <3>1. 2^0 = 1 /\ 0 \in 0 .. 15
        OBVIOUS
      <3>2. P(0)
        BY <1>1, <2>16, <3>1
      <3> QED BY <3>1, <3>2
    <2> HIDE DEF P
    <2> QED BY <2>1, <2>2, <2>3, <2>4, <2>5, <2>6, <2>7, <2>8, <2>9, <2>10, <2>11, <2>12, <2>13, <2>14, <2>15, <2>16
  <1>4. d \in 0 .. 15 /\ P(d)
    <2>1. d = CHOOSE k \in 0 .. 15 : P(k)
      BY DEF leading_zeros
    <2> HIDE DEF P, d
    <2> QED BY <1>3, <2>1
  <1> HIDE DEF d
  <1>5. d \in Nat /\ 2^d = Pow(d)
    <2> HIDE DEF P
    <2>1. d \in 0 .. 15
      BY <1>4
    <2>2. Computed(d)
      BY <2>1, ShiftsComputed
    <2>3. 2^d = Pow(d)
      BY <2>2 DEF Computed
    <2> QED BY <2>1, <2>3
  <1>6. r * Pow(d) \in Nat /\ 32768 <= r * Pow(d) /\ r * Pow(d) < 65536
    <2>1. Pow(d) \in Nat
      BY <1>5, PowNat
    <2>2. r * Pow(d) \in Nat
      BY <2>1
    <2> QED BY <1>1, <1>4, <1>5, <2>2
  <1> QED BY <1>4, <1>5, <1>6 DEF InRange, d

\* What has left the Encoder and what is in `low`, as one number.
Total(pre, a, low) == Number(pre, Len(pre)) * Pow(a) + low

\* The lower end of the Encoder's range, in units of it, and by how many bits it
\* has been shifted.
Exact(e) == Total(e.precarry, e.cnt + 24, e.low)
Shifts(e) == e.cnt + 8 * Len(e.precarry) + 9

\* One more byte of a sequence.
LEMMA ValueAppend ==
  ASSUME NEW pre \in Seq(Nat), NEW b \in Nat
  PROVE  /\ Append(pre, b) \in Seq(Nat) /\ Len(Append(pre, b)) = Len(pre) + 1
         /\ Number(pre, Len(pre)) \in Nat
         /\ Number(Append(pre, b), Len(pre) + 1) = 256 * Number(pre, Len(pre)) + b
PROOF
  <1> DEFINE q == Append(pre, b)
             n == Len(pre)
  <1>1. q \in Seq(Nat) /\ Len(q) = n + 1 /\ n \in Nat /\ q[n + 1] = b
    OBVIOUS
  <1>2. (\A k \in 1 .. n + 1 : q[k] \in Nat) /\ \A k \in 1 .. n : pre[k] \in Nat /\ pre[k] = q[k]
    OBVIOUS
  <1> HIDE DEF q, n
  <1>3. Number(q, n + 1) = 256 * Number(q, n) + q[n + 1] /\ Number(q, n) \in Nat
    BY <1>1, <1>2, ValueStep
  <1>4. Number(pre, n) = Number(q, n)
    BY <1>1, <1>2, ValueSame
  <1> QED BY <1>1, <1>3, <1>4 DEF q, n

\* A byte leaves the low end of the range.
LEMMA PushTotal ==
  ASSUME NEW pre \in Seq(Nat), NEW a \in Nat, NEW low \in Nat
  PROVE  /\ low \div Pow(a) \in Nat /\ low % Pow(a) \in Nat /\ low % Pow(a) < Pow(a)
         /\ Append(pre, low \div Pow(a)) \in Seq(Nat)
         /\ Len(Append(pre, low \div Pow(a))) = Len(pre) + 1
         /\ Total(Append(pre, low \div Pow(a)), a, low % Pow(a)) = Total(pre, a + 8, low)
PROOF
  <1> DEFINE p == Pow(a)
             b == low \div p
             m == low % p
             v == Number(pre, Len(pre))
  <1>1. p \in Nat \ {0}
    BY PowNat
  <1>2. b \in Nat /\ m \in Nat /\ m < p /\ low = p * b + m
    <2> HIDE DEF p
    <2> QED BY <1>1
  <1>3. Pow(a + 8) = 256 * p
    <2>1. Pow(a + 8) = Pow(a) * Pow(8)
      BY PowAdd
    <2>2. Pow(8) = 256
      BY PowSmall
    <2> QED BY <1>1, <2>1, <2>2
  <1> HIDE DEF p, b, m
  <1>4. /\ Append(pre, b) \in Seq(Nat) /\ Len(Append(pre, b)) = Len(pre) + 1 /\ v \in Nat
        /\ Number(Append(pre, b), Len(pre) + 1) = 256 * v + b
    BY <1>2, ValueAppend
  <1> HIDE DEF v
  <1>5. (256 * v + b) * p + m = v * (256 * p) + low
    <2>1. (256 * v + b) * p = 256 * (v * p) + p * b
      BY <1>1, <1>2, <1>4
    <2>2. v * (256 * p) = 256 * (v * p) /\ v * p \in Nat /\ p * b \in Nat
      BY <1>1, <1>2, <1>4
    <2> QED BY <1>2, <2>1, <2>2
  <1>6. Total(Append(pre, b), a, m) = (256 * v + b) * p + m
    BY <1>4 DEF Total, p
  <1>7. Total(pre, a + 8, low) = v * (256 * p) + low
    BY <1>3 DEF Total, v
  <1>8. Total(Append(pre, b), a, m) = Total(pre, a + 8, low)
    BY <1>5, <1>6, <1>7
  <1> QED BY <1>2, <1>4, <1>8 DEF p, b, m

\* The range is shifted.
LEMMA ShiftTotal ==
  ASSUME NEW pre \in Seq(Nat), NEW a \in Nat, NEW low \in Nat, NEW d \in Nat
  PROVE  Total(pre, a + d, low * Pow(d)) = Total(pre, a, low) * Pow(d) /\ Total(pre, a, low) \in Nat
PROOF
  <1> DEFINE v == Number(pre, Len(pre))
             p == Pow(a)
             q == Pow(d)
  <1>1. v \in Nat
    <2>1. Len(pre) \in Nat /\ \A k \in 1 .. Len(pre) : pre[k] \in Nat /\ pre[k] = pre[k]
      OBVIOUS
    <2> QED BY <2>1, ValueSame
  <1>2. p \in Nat /\ q \in Nat /\ Pow(a + d) = p * q
    BY PowNat, PowAdd
  <1>3. Total(pre, a + d, low * q) = v * (p * q) + low * q /\ Total(pre, a, low) = v * p + low
    BY <1>2 DEF Total
  <1> HIDE DEF v, p, q
  <1>4. v * (p * q) + low * q = (v * p + low) * q /\ v * p + low \in Nat
    <2>1. v * p \in Nat /\ v * (p * q) = (v * p) * q
      BY <1>1, <1>2
    <2>2. (v * p + low) * q = (v * p) * q + low * q
      BY <1>2, <2>1
    <2> QED BY <2>1, <2>2
  <1> QED BY <1>3, <1>4 DEF q

-----------------------------------------------------------------------------
(* Storing a token in the Encoder *)

\* Powers of two grow.
LEMMA PowGrows ==
  ASSUME NEW i \in Nat, NEW j \in Nat, i <= j
  PROVE  Pow(i) <= Pow(j)
PROOF
  <1> DEFINE k == j - i
  <1>1. k \in Nat /\ i + k = j
    OBVIOUS
  <1> HIDE DEF k
  <1>2. Pow(j) = Pow(i) * Pow(k) /\ Pow(i) \in Nat /\ Pow(k) \in Nat /\ Pow(k) > 0
    BY <1>1, PowAdd, PowNat
  <1> DEFINE a == Pow(i)
             b == Pow(k)
  <1>3. a \in Nat /\ b \in Nat /\ 1 <= b /\ Pow(j) = a * b
    BY <1>2
  <1> HIDE DEF a, b
  <1>4. a * 1 <= a * b
    BY <1>3
  <1>5. a <= Pow(j)
    BY <1>3, <1>4
  <1> QED BY <1>5 DEF a

\* Products with a positive number keep their order.
LEMMA ProductOrder ==
  ASSUME NEW a \in Int, NEW b \in Int, NEW g \in Nat, g > 0
  PROVE  /\ a * g \in Int /\ b * g \in Int
         /\ a <= b <=> a * g <= b * g
         /\ a < b <=> a * g < b * g
PROOF
  <1>1. a * g \in Int /\ b * g \in Int
    OBVIOUS
  <1>2. ASSUME NEW x \in Int, NEW y \in Int, x < y PROVE x * g < y * g
    <2> DEFINE z == y - x
    <2>1. z \in Int /\ y = x + z /\ 1 <= z
      BY <1>2
    <2> HIDE DEF z
    <2>2. y * g = x * g + z * g /\ x * g \in Int
      BY <2>1
    <2>3. z * g >= 1 /\ z * g \in Int
      BY <2>1
    <2> QED BY <2>2, <2>3
  <1>3. a < b => a * g < b * g
    BY <1>2
  <1>4. b < a => b * g < a * g
    BY <1>2
  <1>5. a = b => a * g = b * g
    OBVIOUS
  <1> DEFINE p == a * g
             q == b * g
  <1>6. p \in Int /\ q \in Int /\ (a < b => p < q) /\ (b < a => q < p) /\ (a = b => p = q)
    BY <1>1, <1>3, <1>4, <1>5
  <1> HIDE DEF p, q
  <1>7. (a <= b <=> p <= q) /\ (a < b <=> p < q)
    BY <1>6
  <1> QED BY <1>6, <1>7 DEF p, q

\* The Encoder: its range has 16 bits, `low` at most 24, and what leaves has a
\* byte and a carry.
EncoderSound(e) ==
  /\ e \in [rng : Nat, cnt : Int, low : Nat, precarry : Seq(Nat)]
  /\ InRange(e.rng) /\ -9 <= e.cnt /\ e.cnt <= -1
  /\ e.low + e.rng <= 512 * Pow(e.cnt + 16)
  /\ \A i \in 1 .. Len(e.precarry) : e.precarry[i] < 512

\* The Encoder with `a` bits of m left after a byte, shifted by d.
Normalized(pre, a, m, r, d) ==
  [rng |-> r * Pow(d), cnt |-> (a + d) - 24, low |-> m * Pow(d), precarry |-> pre]

\* What store may leave: the bytes pre, and the low end m with a bits.
Leaves(pre, a, m, r, d) ==
  /\ pre \in Seq(Nat) /\ (\A i \in 1 .. Len(pre) : pre[i] < 512) /\ a \in Nat /\ m \in Nat
  /\ 15 <= a + d /\ a + d <= 23
  /\ (m + r) * Pow(d) <= 512 * Pow((a + d) - 8)

\* The shift d for a part r of the range.
IsShift(r, d) ==
  d \in Nat /\ d <= 15 /\ leading_zeros(r) = d /\ Computed(d) /\ InRange(r * Pow(d))

\* That Encoder is sound, with the shifted number.
LEMMA NormalizedFacts ==
  ASSUME NEW pre, NEW a, NEW m, NEW r \in Nat, NEW d, IsShift(r, d),
         Leaves(pre, a, m, r, d)
  PROVE  /\ EncoderSound(Normalized(pre, a, m, r, d))
         /\ Exact(Normalized(pre, a, m, r, d)) = Total(pre, a, m) * Pow(d)
         /\ Shifts(Normalized(pre, a, m, r, d)) = (a + d) + 8 * Len(pre) - 15
         /\ Normalized(pre, a, m, r, d).rng = r * Pow(d)
PROOF
  <1> USE DEF Leaves
  <1>0. d \in Nat /\ InRange(r * Pow(d))
    BY DEF IsShift
  <1> DEFINE e == Normalized(pre, a, m, r, d)
             p == Pow(d)
  <1>1. p \in Nat
    BY <1>0, PowNat
  <1>2. e = [rng |-> r * p, cnt |-> (a + d) - 24, low |-> m * p, precarry |-> pre]
    BY DEF Normalized
  <1> HIDE DEF e
  <1>3. e.rng = r * p /\ e.cnt = (a + d) - 24 /\ e.low = m * p /\ e.precarry = pre
    BY <1>2
  <1> HIDE DEF p
  <1>4. r * p \in Nat /\ m * p \in Nat /\ (a + d) - 24 \in Int
    BY <1>0, <1>1
  <1>5. e \in [rng : Nat, cnt : Int, low : Nat, precarry : Seq(Nat)]
    BY <1>2, <1>4
  <1>6. e.cnt + 16 = (a + d) - 8 /\ e.cnt + 24 = a + d /\ -9 <= e.cnt /\ e.cnt <= -1
    BY <1>0, <1>3, SMTT(60)
  <1>7. m * p + r * p = (m + r) * p
    BY <1>1
  <1>8. EncoderSound(e)
    <2>1. e.low + e.rng <= 512 * Pow(e.cnt + 16)
      BY <1>3, <1>6, <1>7 DEF p
    <2>2. InRange(e.rng)
      BY <1>0, <1>3 DEF p
    <2> QED BY <1>3, <1>5, <1>6, <2>1, <2>2 DEF EncoderSound
  <1>9. Exact(e) = Total(pre, a, m) * p
    <2>1. Exact(e) = Total(pre, a + d, m * p)
      BY <1>3, <1>6 DEF Exact
    <2> QED BY <1>0, <2>1, ShiftTotal DEF p
  <1>10. Shifts(e) = (a + d) + 8 * Len(pre) - 15
    <2>1. Len(pre) \in Nat
      OBVIOUS
    <2> QED BY <1>0, <1>3, <2>1, SMTT(60) DEF Shifts
  <1> QED BY <1>3, <1>8, <1>9, <1>10 DEF e, p

\* After a byte, what is left of `low` and the range fit into the next.
LEMMA RestFits ==
  ASSUME NEW a \in Nat, NEW d \in Nat, NEW m \in Nat, NEW r \in Nat,
         m < Pow(a), r <= Pow(a), 8 <= a + d
  PROVE  (m + r) * Pow(d) <= 512 * Pow((a + d) - 8)
PROOF
  <1> DEFINE p == Pow(a)
             q == Pow(d)
             k == (a + d) - 8
  <1>1. p \in Nat /\ q \in Nat /\ q > 0 /\ k \in Nat /\ k + 8 = a + d
    BY PowNat
  <1>2. Pow(a + d) = p * q
    BY PowAdd
  <1> HIDE DEF k
  <1>3. Pow(k + 8) = Pow(k) * 256 /\ Pow(k) \in Nat
    <2>1. k \in Nat /\ 8 \in Nat
      BY <1>1
    <2>2. Pow(k + 8) = Pow(k) * Pow(8)
      BY <2>1, PowAdd
    <2>3. Pow(8) = 256 /\ Pow(k) \in Nat
      BY <2>1, PowSmall, PowNat
    <2> QED BY <2>2, <2>3
  <1>4. m + r <= 2 * p
    BY <1>1
  <1> HIDE DEF p, q
  <1>5. (m + r) * q <= (2 * p) * q
    BY <1>1, <1>4, ProductAtMost
  <1>6. (2 * p) * q = 2 * (p * q) /\ p * q \in Nat
    BY <1>1
  <1>7. p * q = Pow(k) * 256
    BY <1>1, <1>2, <1>3
  <1>8. (m + r) * q <= 512 * Pow(k)
    BY <1>3, <1>5, <1>6, <1>7
  <1> QED BY <1>8 DEF q, k

\* The fields of an Encoder that store may change.
LEMMA EncoderFields ==
  ASSUME NEW e, e \in [rng : Nat, cnt : Int, low : Nat, precarry : Seq(Nat)],
         NEW u \in Nat, NEW v \in Nat, NEW w \in Int
  PROVE  [e EXCEPT !.low = u, !.rng = v, !.cnt = w]
           = [rng |-> v, cnt |-> w, low |-> u, precarry |-> e.precarry]
PROOF
  <1> DEFINE g == [e EXCEPT !.low = u, !.rng = v, !.cnt = w]
             k == [rng |-> v, cnt |-> w, low |-> u, precarry |-> e.precarry]
  <1>1. g \in [rng : Nat, cnt : Int, low : Nat, precarry : Seq(Nat)]
    OBVIOUS
  <1>2. k \in [rng : Nat, cnt : Int, low : Nat, precarry : Seq(Nat)]
    OBVIOUS
  <1>3. g.rng = v /\ g.cnt = w /\ g.low = u /\ g.precarry = e.precarry
    OBVIOUS
  <1>4. k.rng = v /\ k.cnt = w /\ k.low = u /\ k.precarry = e.precarry
    OBVIOUS
  <1> HIDE DEF g, k
  <1>5. g = k
    BY <1>1, <1>2, <1>3, <1>4
  <1> QED BY <1>5 DEF g, k

\* Bytes at the end of a sequence.
LEMMA AppendBytes ==
  ASSUME NEW pre \in Seq(Nat), NEW b \in Nat, NEW b2 \in Nat
  PROVE  /\ pre \o <<>> \o <<b>> = Append(pre, b)
         /\ pre \o <<b>> \o <<b2>> = Append(Append(pre, b), b2)
PROOF
  <1>1. Append(pre, b) \in Seq(Nat)
    OBVIOUS
  <1>2. pre \o <<b>> = Append(pre, b) /\ pre \o <<>> = pre
    OBVIOUS
  <1>3. Append(pre, b) \o <<b2>> = Append(Append(pre, b), b2)
    BY <1>1
  <1> QED BY <1>2, <1>3

\* The numbers that store computes with.
StoreArgs(e, tk, x, r, d, c) ==
  /\ e \in [rng : Nat, cnt : Int, low : Nat, precarry : Seq(Nat)]
  /\ {x, r, d, c} \subseteq Nat /\ c = e.cnt + 16 /\ Computed(c) /\ Computed(d)
  /\ lr_compute(e.rng, tk).r = r /\ e.low + lr_compute(e.rng, tk).l = x
  /\ leading_zeros(r) = d

\* The byte b, and what is left under it.
Splits(x, c, b, m) == b = x \div Pow(c) /\ m = x % Pow(c) /\ b \in Nat

\* store when no byte leaves.
LEMMA StoredNone ==
  ASSUME NEW e, NEW tk, NEW x, NEW r, NEW d, NEW c, StoreArgs(e, tk, x, r, d, c), c + d < 16
  PROVE  store(e, tk) = Normalized(e.precarry, c + 8, x, r, d)
PROOF
  <1>1. /\ e \in [rng : Nat, cnt : Int, low : Nat, precarry : Seq(Nat)]
        /\ x \in Nat /\ r \in Nat /\ d \in Nat /\ c \in Nat /\ c = e.cnt + 16
        /\ lr_compute(e.rng, tk).r = r /\ e.low + lr_compute(e.rng, tk).l = x
        /\ leading_zeros(r) = d /\ 2^d = Pow(d)
    BY DEF StoreArgs, Computed
  <1> DEFINE u == x * Pow(d)
             v == r * Pow(d)
             w == ((c + 8) + d) - 24
  <1>2. e.cnt + d < 0 /\ e.cnt + d = w
    <2>1. PICK k \in Int : k = e.cnt
      BY <1>1
    <2>2. c = k + 16
      BY <1>1, <2>1
    <2>3. k + d < 0 /\ k + d = w
      <3>1. c \in Nat /\ d \in Nat
        BY <1>1
      <3> QED BY <2>2, <3>1
    <2> QED BY <2>1, <2>3
  <1>3. store(e, tk) = [e EXCEPT !.low = x * 2^d, !.rng = r * 2^d, !.cnt = e.cnt + d]
    BY <1>1, <1>2 DEF store
  <1>4. x * 2^d = u
    BY <1>1, Zenon
  <1>5. r * 2^d = v
    BY <1>1, Zenon
  <1>6. Normalized(e.precarry, c + 8, x, r, d)
          = [rng |-> v, cnt |-> w, low |-> u, precarry |-> e.precarry]
    BY Zenon DEF Normalized
  <1>7. u \in Nat /\ v \in Nat /\ w \in Int
    <2>1. Pow(d) \in Nat /\ x \in Nat /\ r \in Nat /\ d \in Nat /\ c \in Nat
      BY <1>1, PowNat
    <2> QED BY <2>1
  <1> HIDE DEF u, v, w
  <1>8. store(e, tk) = [e EXCEPT !.low = u, !.rng = v, !.cnt = w]
    BY <1>2, <1>3, <1>4, <1>5
  <1>9. [e EXCEPT !.low = u, !.rng = v, !.cnt = w]
          = [rng |-> v, cnt |-> w, low |-> u, precarry |-> e.precarry]
    BY <1>1, <1>7, EncoderFields
  <1> QED BY <1>6, <1>8, <1>9

\* store when a byte leaves.
LEMMA StoredOne ==
  ASSUME NEW e, NEW tk, NEW x, NEW r, NEW d, NEW c, StoreArgs(e, tk, x, r, d, c),
         16 <= c + d, c + d <= 23, NEW b, NEW m, Splits(x, c, b, m)
  PROVE  store(e, tk) = Normalized(Append(e.precarry, b), c, m, r, d)
PROOF
  <1>1. /\ e \in [rng : Nat, cnt : Int, low : Nat, precarry : Seq(Nat)]
        /\ d \in Nat /\ c \in Nat /\ c = e.cnt + 16
        /\ lr_compute(e.rng, tk).r = r /\ e.low + lr_compute(e.rng, tk).l = x
        /\ leading_zeros(r) = d /\ 2^d = Pow(d) /\ 2^c = Pow(c)
    BY DEF StoreArgs, Computed
  <1>2. b = x \div Pow(c) /\ m = x % Pow(c) /\ b \in Nat
    BY DEF Splits
  <1>3. ~(e.cnt + d < 0) /\ ~(e.cnt + d >= 8)
    <2>1. PICK k \in Int : k = e.cnt
      BY <1>1
    <2>2. c = k + 16 /\ d \in Nat /\ c \in Nat
      BY <1>1, <2>1
    <2>3. ~(k + d < 0) /\ ~(k + d >= 8)
      BY <2>2
    <2> QED BY <2>1, <2>3
  <1>4. store(e, tk) = [low |-> (x % 2^c) * 2^d, rng |-> r * 2^d, cnt |-> c + d - 24,
                        precarry |-> e.precarry \o <<>> \o <<x \div 2^c>>]
    BY <1>1, <1>3 DEF store
  <1> DEFINE u == m * Pow(d)
             v == r * Pow(d)
             w == (c + d) - 24
             z == Append(e.precarry, b)
  <1>5. e.precarry \o <<>> \o <<b>> = z
    BY <1>1, <1>2, AppendBytes
  <1>6. (x % 2^c) * 2^d = u
    BY <1>1, <1>2, Zenon
  <1>7. r * 2^d = v
    BY <1>1, Zenon
  <1>8. x \div 2^c = b
    BY <1>1, <1>2, Zenon
  <1>9. c + d - 24 = w
    BY <1>1
  <1>10. Normalized(z, c, m, r, d) = [rng |-> v, cnt |-> w, low |-> u, precarry |-> z]
    BY Zenon DEF Normalized
  <1>11. store(e, tk) = Normalized(z, c, m, r, d)
    <2> HIDE DEF u, v, w, z
    <2> QED BY <1>4, <1>5, <1>6, <1>7, <1>8, <1>9, <1>10
  <1> QED BY <1>11

\* store when two bytes leave.
LEMMA StoredTwo ==
  ASSUME NEW e, NEW tk, NEW x, NEW r, NEW d, NEW c, StoreArgs(e, tk, x, r, d, c),
         24 <= c + d, NEW h \in Nat, h + 8 = c, Computed(h),
         NEW b, NEW m, Splits(x, c, b, m), NEW b2, NEW m2, Splits(m, h, b2, m2)
  PROVE  store(e, tk) = Normalized(Append(Append(e.precarry, b), b2), h, m2, r, d)
PROOF
  <1>1. /\ e \in [rng : Nat, cnt : Int, low : Nat, precarry : Seq(Nat)]
        /\ d \in Nat /\ c \in Nat /\ c = e.cnt + 16
        /\ lr_compute(e.rng, tk).r = r /\ e.low + lr_compute(e.rng, tk).l = x
        /\ leading_zeros(r) = d /\ 2^d = Pow(d) /\ 2^c = Pow(c) /\ 2^h = Pow(h)
    BY DEF StoreArgs, Computed
  <1>2. /\ b = x \div Pow(c) /\ m = x % Pow(c) /\ b \in Nat
        /\ b2 = m \div Pow(h) /\ m2 = m % Pow(h) /\ b2 \in Nat
    BY DEF Splits
  <1>3. ~(e.cnt + d < 0) /\ e.cnt + d >= 8 /\ c - 8 = h
    <2>1. PICK k \in Int : k = e.cnt
      BY <1>1
    <2>2. c = k + 16 /\ d \in Nat /\ c \in Nat
      BY <1>1, <2>1
    <2>3. ~(k + d < 0) /\ k + d >= 8 /\ c - 8 = h
      BY <2>2
    <2> QED BY <2>1, <2>3
  <1>4. store(e, tk) = [low |-> ((x % 2^c) % 2^h) * 2^d, rng |-> r * 2^d, cnt |-> h + d - 24,
                        precarry |-> e.precarry \o <<x \div 2^c>> \o <<(x % 2^c) \div 2^h>>]
    BY <1>1, <1>3 DEF store
  <1> DEFINE u == m2 * Pow(d)
             v == r * Pow(d)
             w == (h + d) - 24
             z == Append(Append(e.precarry, b), b2)
  <1>5. e.precarry \o <<b>> \o <<b2>> = z
    <2>1. e.precarry \in Seq(Nat)
      BY <1>1
    <2>2. b \in Nat /\ b2 \in Nat
      BY <1>2
    <2>3. e.precarry \o <<b>> \o <<b2>> = Append(Append(e.precarry, b), b2)
      BY ONLY <2>1, <2>2, AppendBytes
    <2> QED BY <2>3
  <1>6. ((x % 2^c) % 2^h) * 2^d = u
    BY <1>1, <1>2, Zenon
  <1>7. r * 2^d = v
    BY <1>1, Zenon
  <1>8. x \div 2^c = b
    BY <1>1, <1>2, Zenon
  <1>9. (x % 2^c) \div 2^h = b2
    BY <1>1, <1>2, Zenon
  <1>10. h + d - 24 = w
    BY <1>1
  <1>11. Normalized(z, h, m2, r, d) = [rng |-> v, cnt |-> w, low |-> u, precarry |-> z]
    BY Zenon DEF Normalized
  <1>12. store(e, tk) = Normalized(z, h, m2, r, d)
    <2> HIDE DEF u, v, w, z
    <2> QED BY <1>4, <1>5, <1>6, <1>7, <1>8, <1>9, <1>10, <1>11
  <1> QED BY <1>12

\* A quotient below g.
LEMMA QuotientBelow ==
  ASSUME NEW x \in Nat, NEW p \in Nat, p > 0, NEW g \in Nat, x < g * p
  PROVE  x \div p \in Nat /\ x \div p < g /\ x % p \in Nat /\ x % p < p
PROOF
  <1>1. x = p * (x \div p) + (x % p) /\ x % p \in Nat /\ x % p < p /\ x \div p \in Nat
    OBVIOUS
  <1> DEFINE q == x \div p
             m == x % p
  <1> HIDE DEF q, m
  <1>2. x = p * q + m /\ m \in Nat /\ q \in Nat
    BY <1>1 DEF q, m
  <1>3. q * p < g * p
    BY <1>2
  <1>4. q < g
    BY <1>2, <1>3, ProductOrder
  <1> QED BY <1>1, <1>4 DEF q

\* A byte and a carry more.
LEMMA ByteAppended ==
  ASSUME NEW pre \in Seq(Nat), NEW b \in Nat, b < 512,
         \A i \in 1 .. Len(pre) : pre[i] < 512
  PROVE  \A i \in 1 .. Len(Append(pre, b)) : Append(pre, b)[i] < 512
PROOF
  <1> DEFINE z == Append(pre, b)
  <1>1. Len(z) = Len(pre) + 1 /\ Len(pre) \in Nat
    OBVIOUS
  <1>2. (\A i \in 1 .. Len(pre) : z[i] = pre[i]) /\ z[Len(pre) + 1] = b
    OBVIOUS
  <1> HIDE DEF z
  <1>3. \A i \in 1 .. Len(z) : z[i] < 512
    <2>1. \A i \in 1 .. Len(z) : i \in 1 .. Len(pre) \/ i = Len(pre) + 1
      BY <1>1
    <2> QED BY <1>2, <2>1
  <1> QED BY <1>3 DEF z

\* The Encoder before a token takes the part l, r of its range.
TakesPart(e, l, r) == l \in Nat /\ r \in Nat /\ l + r <= e.rng

\* The token is taken but not yet shifted: c is the count of store, x the new low.
Before(e, l, r, c, x) ==
  /\ e \in [rng : Nat, cnt : Int, low : Nat, precarry : Seq(Nat)]
  /\ c \in Nat /\ 7 <= c /\ c <= 15 /\ Computed(c) /\ c = e.cnt + 16
  /\ x \in Nat /\ x = e.low + l /\ x + r <= 512 * Pow(c)
  /\ Exact(e) + l = Total(e.precarry, c + 8, x)
  /\ Shifts(e) = (c - 16) + 8 * Len(e.precarry) + 9
  /\ \A i \in 1 .. Len(e.precarry) : e.precarry[i] < 512

\* A stored symbol is where the encoder is before it renormalises.
LEMMA StoreBefore ==
  ASSUME NEW e, EncoderSound(e), NEW l, NEW r, TakesPart(e, l, r)
  PROVE  \E c, x : Before(e, l, r, c, x)
PROOF
  <1> USE DEF TakesPart
  <1>0. PICK c : c = e.cnt + 16
    OBVIOUS
  <1>1. /\ e \in [rng : Nat, cnt : Int, low : Nat, precarry : Seq(Nat)]
        /\ e.rng \in Nat /\ -9 <= e.cnt /\ e.cnt <= -1
        /\ e.low + e.rng <= 512 * Pow(c)
        /\ \A i \in 1 .. Len(e.precarry) : e.precarry[i] < 512
    BY <1>0, SMTT(60) DEF EncoderSound, InRange
  <1>2. /\ e.cnt \in Int /\ e.low \in Nat /\ e.precarry \in Seq(Nat)
        /\ Len(e.precarry) \in Nat
    BY <1>1
  <1>3. c \in Nat /\ 7 <= c /\ c <= 15 /\ e.cnt = c - 16
    BY <1>0, <1>1, <1>2
  <1>4. Computed(c) /\ Pow(c) \in Nat /\ Pow(c + 8) \in Nat
    <2>1. c \in 0 .. 15 /\ c + 8 \in Nat
      BY <1>3
    <2> QED BY <1>3, <2>1, ShiftsComputed, PowNat
  <1>5. Exact(e) + l = Total(e.precarry, c + 8, e.low + l)
    <2>1. Number(e.precarry, Len(e.precarry)) \in Nat
      <3>1. \A k \in 1 .. Len(e.precarry) : e.precarry[k] \in Nat /\ e.precarry[k] = e.precarry[k]
        BY <1>2
      <3> QED BY <1>2, <3>1, ValueSame
    <2>2. e.cnt + 24 = c + 8
      BY <1>0, <1>2
    <2> DEFINE v == Number(e.precarry, Len(e.precarry))
               p == Pow(c + 8)
    <2>3. Exact(e) = v * p + e.low
      BY <2>2 DEF Exact, Total
    <2>4. Total(e.precarry, c + 8, e.low + l) = v * p + (e.low + l)
      BY DEF Total
    <2> HIDE DEF v, p
    <2>5. v * p \in Nat
      BY <1>4, <2>1 DEF v, p
    <2> QED BY <1>2, <2>3, <2>4, <2>5
  <1>6. Shifts(e) = (c - 16) + 8 * Len(e.precarry) + 9
    BY <1>3 DEF Shifts
  <1>7. (e.low + l) + r <= 512 * Pow(c)
    <2>1. PICK low \in Nat, rng \in Nat, p \in Nat : low = e.low /\ rng = e.rng /\ p = Pow(c)
      BY <1>1, <1>2, <1>4
    <2>2. low + rng <= 512 * p
      BY <1>1, <2>1
    <2>3. l + r <= rng
      BY <2>1
    <2>4. (low + l) + r <= 512 * p
      BY <2>2, <2>3
    <2> QED BY <2>1, <2>4
  <1>8. PICK x \in Nat : x = e.low + l
    BY <1>2
  <1>9. Before(e, l, r, c, x)
    <2>1. x + r <= 512 * Pow(c) /\ Exact(e) + l = Total(e.precarry, c + 8, x)
      BY <1>5, <1>7, <1>8
    <2> QED BY <1>0, <1>1, <1>3, <1>4, <1>6, <1>8, <2>1 DEF Before
  <1> QED BY <1>9

\* What store does to the number: the token's part is added, and all is shifted.
StoreGives(y, e, l, r, d) ==
  /\ EncoderSound(y) /\ y.rng = r * Pow(d)
  /\ Exact(y) = (Exact(e) + l) * Pow(d)
  /\ Shifts(y) = Shifts(e) + d

\* What store leaves: the bytes pre, and the low end m with a bits of them.
IsRest(e, c, x, r, d, pre, a, m) ==
  /\ Leaves(pre, a, m, r, d)
  /\ Total(pre, a, m) = Total(e.precarry, c + 8, x)
  /\ a + 8 * Len(pre) = (c + 8) + 8 * Len(e.precarry)

\* The Encoder with which store ends.
LEMMA StoreEnds ==
  ASSUME NEW e, NEW l, NEW r \in Nat, NEW c, NEW x, Before(e, l, r, c, x), NEW d, IsShift(r, d),
         NEW pre, NEW a, NEW m, IsRest(e, c, x, r, d, pre, a, m)
  PROVE  StoreGives(Normalized(pre, a, m, r, d), e, l, r, d)
PROOF
  <1>1. /\ Total(pre, a, m) = Total(e.precarry, c + 8, x)
        /\ a + 8 * Len(pre) = (c + 8) + 8 * Len(e.precarry)
        /\ pre \in Seq(Nat) /\ a \in Nat
    BY DEF IsRest, Leaves
  <1>2. d \in Nat /\ InRange(r * Pow(d))
    BY DEF IsShift
  <1>3. /\ e \in [rng : Nat, cnt : Int, low : Nat, precarry : Seq(Nat)] /\ c \in Nat
        /\ Exact(e) + l = Total(e.precarry, c + 8, x)
        /\ Shifts(e) = (c - 16) + 8 * Len(e.precarry) + 9
    BY DEF Before
  <1>4. PICK y : y = Normalized(pre, a, m, r, d)
    OBVIOUS
  <1>5. /\ EncoderSound(y) /\ Exact(y) = Total(pre, a, m) * Pow(d)
        /\ Shifts(y) = (a + d) + 8 * Len(pre) - 15 /\ y.rng = r * Pow(d)
    <2>1. Leaves(pre, a, m, r, d)
      BY DEF IsRest
    <2> QED BY <1>4, <2>1, NormalizedFacts
  <1>6. Exact(y) = (Exact(e) + l) * Pow(d)
    BY <1>1, <1>3, <1>5
  <1>7. Shifts(y) = Shifts(e) + d
    <2>1. e.precarry \in Seq(Nat)
      BY <1>3
    <2>2. PICK n \in Nat, k \in Nat : n = Len(pre) /\ k = Len(e.precarry)
      BY <1>1, <2>1
    <2>3. a + 8 * n = (c + 8) + 8 * k
      BY <1>1, <2>2
    <2>4. Shifts(y) = (a + d) + 8 * n - 15 /\ Shifts(e) = (c - 16) + 8 * k + 9
      BY <1>3, <1>5, <2>2
    <2>5. (a + d) + 8 * n - 15 = ((c - 16) + 8 * k + 9) + d
      <3>1. d \in Nat /\ a \in Nat /\ c \in Nat
        BY <1>1, <1>2, <1>3
      <3> QED BY <2>3, <3>1
    <2> QED BY <2>4, <2>5
  <1> QED BY <1>4, <1>5, <1>6, <1>7 DEF StoreGives

\* No byte leaves.
LEMMA RestNone ==
  ASSUME NEW e, NEW l, NEW r \in Nat, NEW c, NEW x, Before(e, l, r, c, x), NEW d, IsShift(r, d),
         c + d < 16
  PROVE  IsRest(e, c, x, r, d, e.precarry, c + 8, x)
PROOF
  <1>1. /\ e \in [rng : Nat, cnt : Int, low : Nat, precarry : Seq(Nat)]
        /\ c \in Nat /\ 7 <= c /\ x \in Nat /\ x + r <= 512 * Pow(c)
        /\ \A i \in 1 .. Len(e.precarry) : e.precarry[i] < 512
    BY DEF Before
  <1>2. d \in Nat
    BY DEF IsShift
  <1>3. (x + r) * Pow(d) <= 512 * Pow(((c + 8) + d) - 8)
    <2>1. ((c + 8) + d) - 8 = c + d
      BY <1>1, <1>2
    <2>2. PICK p \in Nat, q \in Nat : p = Pow(c) /\ q = Pow(d)
      BY <1>1, <1>2, PowNat
    <2>3. Pow(c + d) = p * q
      BY <1>1, <1>2, <2>2, PowAdd
    <2>4. PICK z \in Nat : z = x + r
      BY <1>1
    <2>5. z * q <= (512 * p) * q
      <3>1. q <= q /\ 512 * p \in Nat /\ z <= 512 * p
        BY <1>1, <2>2, <2>4
      <3> QED BY <3>1, ProductAtMost
    <2>6. (512 * p) * q = 512 * (p * q)
      OBVIOUS
    <2>7. z * q <= 512 * (p * q)
      BY <2>5, <2>6
    <2> QED BY <2>1, <2>2, <2>3, <2>4, <2>7
  <1>4. c + 8 \in Nat /\ 15 <= (c + 8) + d /\ (c + 8) + d <= 23
    BY <1>1, <1>2
  <1>5. e.precarry \in Seq(Nat)
    BY <1>1
  <1> QED BY <1>1, <1>3, <1>4, <1>5 DEF IsRest, Leaves

\* The part is shorter than the bits that have been shifted out.
LEMMA PartFits ==
  ASSUME NEW r \in Nat, NEW d, IsShift(r, d), NEW c \in Nat, 16 <= c + d
  PROVE  r <= Pow(c)
PROOF
  <1>1. d \in Nat /\ d <= 15 /\ InRange(r * Pow(d))
    BY DEF IsShift
  <1>2. PICK g \in Nat : g + d = 16
    <2>1. 16 - d \in Nat /\ (16 - d) + d = 16
      BY <1>1
    <2> QED BY <2>1
  <1>3. Pow(g) * Pow(d) = 65536 /\ Pow(g) \in Nat /\ Pow(d) \in Nat /\ Pow(d) > 0
    <2>1. g \in Nat /\ d \in Nat /\ Pow(16) = 65536
      BY <1>1, PowSmall
    <2>2. Pow(g) \in Nat /\ Pow(d) \in Nat /\ Pow(d) > 0
      BY <2>1, PowNat
    <2>3. Pow(g + d) = Pow(g) * Pow(d)
      BY <2>1, PowAdd
    <2> QED BY <1>2, <2>1, <2>2, <2>3
  <1>4. r * Pow(d) < Pow(g) * Pow(d)
    BY <1>1, <1>3 DEF InRange
  <1>5. r < Pow(g)
    BY <1>3, <1>4, ProductOrder
  <1>6. g <= c
    BY <1>1, <1>2
  <1>7. Pow(g) <= Pow(c) /\ Pow(c) \in Nat
    BY <1>6, PowGrows, PowNat
  <1> QED BY <1>3, <1>5, <1>7

\* A byte leaves.
LEMMA RestOne ==
  ASSUME NEW e, NEW l, NEW r \in Nat, NEW c, NEW x, Before(e, l, r, c, x), NEW d, IsShift(r, d),
         16 <= c + d
  PROVE  /\ x \div Pow(c) \in Nat /\ x % Pow(c) \in Nat /\ x % Pow(c) < Pow(c)
         /\ x \div Pow(c) < 512
         /\ c + d <= 23 => IsRest(e, c, x, r, d, Append(e.precarry, x \div Pow(c)), c, x % Pow(c))
PROOF
  <1>1. /\ e \in [rng : Nat, cnt : Int, low : Nat, precarry : Seq(Nat)]
        /\ c \in Nat /\ 7 <= c /\ x \in Nat /\ x + r <= 512 * Pow(c)
        /\ \A i \in 1 .. Len(e.precarry) : e.precarry[i] < 512
    BY DEF Before
  <1>2. d \in Nat /\ 32768 <= r * Pow(d) /\ Pow(d) \in Nat
    BY PowNat DEF IsShift, InRange
  <1>3. e.precarry \in Seq(Nat)
    BY <1>1
  <1>4. PICK pre \in Seq(Nat), p \in Nat : pre = e.precarry /\ p = Pow(c) /\ p > 0
    BY <1>1, <1>3, PowNat
  <1>5. r # 0
    BY <1>2
  <1>6. x < 512 * p
    BY <1>1, <1>4, <1>5
  <1>7. PICK b, m : b = x \div p /\ m = x % p
    OBVIOUS
  <1>8. b \in Nat /\ b < 512 /\ m \in Nat /\ m < p
    <2>1. PICK g \in Nat : g = 512
      OBVIOUS
    <2>2. x < g * p
      BY <1>6, <2>1
    <2>3. x \div p \in Nat /\ x \div p < g /\ x % p \in Nat /\ x % p < p
      BY <1>1, <1>4, <2>2, QuotientBelow
    <2> QED BY <1>7, <2>1, <2>3
  <1>9. ASSUME c + d <= 23 PROVE IsRest(e, c, x, r, d, Append(pre, b), c, m)
    <2>1. PICK z : z = Append(pre, b)
      OBVIOUS
    <2>2. z \in Seq(Nat) /\ Len(z) = Len(pre) + 1 /\ Total(z, c, m) = Total(pre, c + 8, x)
      BY <1>1, <1>4, <1>7, <2>1, PushTotal, ZenonT(60)
    <2>3. \A i \in 1 .. Len(z) : z[i] < 512
      <3>1. \A i \in 1 .. Len(pre) : pre[i] < 512
        BY <1>1, <1>4
      <3> QED BY <1>8, <2>1, <3>1, ByteAppended
    <2>4. (m + r) * Pow(d) <= 512 * Pow((c + d) - 8)
      <3>1. r <= Pow(c)
        BY <1>1, PartFits
      <3>2. 8 <= c + d /\ m < Pow(c) /\ m \in Nat /\ d \in Nat
        BY <1>1, <1>2, <1>4, <1>8
      <3> QED BY <1>1, <3>1, <3>2, RestFits
    <2>5. c + 8 * Len(z) = (c + 8) + 8 * Len(pre)
      <3>1. PICK n \in Nat : n = Len(pre)
        OBVIOUS
      <3> QED BY <1>1, <2>2, <3>1
    <2>6. 15 <= c + d /\ c + d <= 23
      BY <1>1, <1>2, <1>9
    <2>7. IsRest(e, c, x, r, d, z, c, m)
      BY <1>1, <1>4, <1>8, <2>2, <2>3, <2>4, <2>5, <2>6 DEF IsRest, Leaves
    <2> QED BY <2>1, <2>7
  <1> QED BY <1>4, <1>7, <1>8, <1>9

\* Two bytes leave.
LEMMA RestTwo ==
  ASSUME NEW e, NEW l, NEW r \in Nat, NEW c, NEW x, Before(e, l, r, c, x), NEW d, IsShift(r, d),
         24 <= c + d, NEW h \in Nat, h + 8 = c
  PROVE  /\ (x % Pow(c)) \div Pow(h) \in Nat
         /\ IsRest(e, c, x, r, d, Append(Append(e.precarry, x \div Pow(c)),
                                         (x % Pow(c)) \div Pow(h)),
                   h, (x % Pow(c)) % Pow(h))
PROOF
  <1>1. /\ e \in [rng : Nat, cnt : Int, low : Nat, precarry : Seq(Nat)]
        /\ c \in Nat /\ c <= 15 /\ x \in Nat
        /\ \A i \in 1 .. Len(e.precarry) : e.precarry[i] < 512
    BY DEF Before
  <1>2. d \in Nat /\ d <= 15
    BY DEF IsShift
  <1>3. PICK b, m : b = x \div Pow(c) /\ m = x % Pow(c)
    OBVIOUS
  <1>4. b \in Nat /\ m \in Nat /\ m < Pow(c) /\ b < 512
    <2>1. 16 <= c + d
      BY <1>1, <1>2
    <2> QED BY <1>3, <2>1, RestOne
  <1>5. PICK pre \in Seq(Nat) : pre = e.precarry
    <2>1. e.precarry \in Seq(Nat)
      BY <1>1
    <2> QED BY <2>1
  <1>6. PICK p \in Nat : p = Pow(h) /\ p > 0
    BY PowNat
  <1>7. Pow(c) = 256 * p
    <2>1. 8 \in Nat /\ Pow(8) = 256
      BY PowSmall
    <2>2. Pow(h + 8) = Pow(h) * Pow(8)
      BY <2>1, PowAdd
    <2> QED BY <1>6, <2>1, <2>2
  <1>8. PICK pre1 : pre1 = Append(pre, b)
    OBVIOUS
  <1>9. /\ pre1 \in Seq(Nat) /\ Len(pre1) = Len(pre) + 1
        /\ Total(pre1, c, m) = Total(pre, c + 8, x)
    BY <1>1, <1>3, <1>5, <1>8, PushTotal
  <1>10. \A i \in 1 .. Len(pre1) : pre1[i] < 512
    <2>1. \A i \in 1 .. Len(pre) : pre[i] < 512
      BY <1>1, <1>5
    <2> QED BY <1>4, <1>8, <2>1, ByteAppended
  <1>11. PICK b2, m2 : b2 = m \div p /\ m2 = m % p
    OBVIOUS
  <1>12. b2 \in Nat /\ b2 < 256 /\ m2 \in Nat /\ m2 < p
    <2>1. PICK g \in Nat : g = 256
      OBVIOUS
    <2>2. m < g * p
      BY <1>4, <1>7, <2>1
    <2>3. m \div p \in Nat /\ m \div p < g /\ m % p \in Nat /\ m % p < p
      BY <1>4, <1>6, <2>2, QuotientBelow
    <2> QED BY <1>11, <2>1, <2>3
  <1>13. PICK z : z = Append(pre1, b2)
    OBVIOUS
  <1>14. z \in Seq(Nat) /\ Len(z) = Len(pre1) + 1 /\ Total(z, h, m2) = Total(pre1, h + 8, m)
    BY <1>4, <1>6, <1>9, <1>11, <1>13, PushTotal
  <1>15. \A i \in 1 .. Len(z) : z[i] < 512
    <2>1. b2 < 512
      BY <1>12
    <2> QED BY <1>9, <1>10, <1>12, <1>13, <2>1, ByteAppended
  <1>16. 15 <= h + d /\ h + d <= 23 /\ 8 <= h + d /\ 16 <= h + d
    BY <1>1, <1>2
  <1>17. (m2 + r) * Pow(d) <= 512 * Pow((h + d) - 8)
    <2>1. r <= Pow(h)
      BY <1>16, PartFits
    <2>2. m2 < Pow(h) /\ m2 \in Nat /\ d \in Nat /\ h \in Nat
      BY <1>2, <1>6, <1>12
    <2> QED BY <1>16, <2>1, <2>2, RestFits
  <1>18. Leaves(z, h, m2, r, d)
    BY <1>12, <1>14, <1>15, <1>16, <1>17 DEF Leaves
  <1>19. h + 8 * Len(z) = (c + 8) + 8 * Len(pre)
    <2>1. PICK n \in Nat : n = Len(pre)
      OBVIOUS
    <2>2. Len(z) = n + 2
      BY <1>9, <1>14, <2>1
    <2>3. h + 8 * (n + 2) = (c + 8) + 8 * n
      OBVIOUS
    <2> QED BY <2>1, <2>2, <2>3
  <1>20. Total(z, h, m2) = Total(pre, c + 8, x)
    BY <1>9, <1>14
  <1>21. IsRest(e, c, x, r, d, z, h, m2)
    BY <1>5, <1>18, <1>19, <1>20 DEF IsRest
  <1> QED BY <1>3, <1>5, <1>6, <1>8, <1>11, <1>12, <1>13, <1>21

\* A token that takes the part l, r of the range of e.
GivesPart(e, tk, l, r) ==
  lr_compute(e.rng, tk).l = l /\ lr_compute(e.rng, tk).r = r

\* What store does.
LEMMA StoreFacts ==
  ASSUME NEW e, EncoderSound(e), NEW tk, NEW l, NEW r, TakesPart(e, l, r), 4 <= r,
         GivesPart(e, tk, l, r)
  PROVE  /\ IsShift(r, leading_zeros(r))
         /\ StoreGives(store(e, tk), e, l, r, leading_zeros(r))
PROOF
  <1>1. PICK c, x : Before(e, l, r, c, x)
    BY StoreBefore
  <1>2. /\ e \in [rng : Nat, cnt : Int, low : Nat, precarry : Seq(Nat)]
        /\ c \in Nat /\ 7 <= c /\ c <= 15 /\ Computed(c) /\ c = e.cnt + 16
        /\ x \in Nat /\ x = e.low + l
    BY <1>1 DEF Before
  <1>3. r \in Nat /\ l \in Nat /\ r < 65536 /\ 1 <= r
    <2>1. r \in Nat /\ l \in Nat /\ l + r <= e.rng /\ e.rng \in Nat /\ e.rng < 65536
      BY <1>2 DEF TakesPart, EncoderSound, InRange
    <2> QED BY <2>1
  <1>4. PICK d : d = leading_zeros(r)
    OBVIOUS
  <1>5. IsShift(r, d)
    <2>1. d \in 0 .. 15 /\ d \in Nat /\ InRange(r * Pow(d))
      BY <1>3, <1>4, LeadingZeros
    <2>2. Computed(d) /\ d <= 15
      BY <2>1, ShiftsComputed
    <2> QED BY <1>4, <2>1, <2>2 DEF IsShift
  <1>6. d \in Nat /\ d <= 15 /\ leading_zeros(r) = d /\ Computed(d)
    BY <1>5 DEF IsShift
  <1>7. StoreArgs(e, tk, x, r, d, c)
    BY <1>2, <1>3, <1>6 DEF StoreArgs, GivesPart
  <1>8. c \in Nat /\ d \in Nat /\ c <= 15 /\ d <= 15
    BY <1>2, <1>6
  <1>9. CASE c + d < 16
    <2>1. IsRest(e, c, x, r, d, e.precarry, c + 8, x)
      BY <1>1, <1>3, <1>5, <1>9, RestNone
    <2>2. StoreGives(Normalized(e.precarry, c + 8, x, r, d), e, l, r, d)
      BY <1>1, <1>3, <1>5, <2>1, StoreEnds
    <2>3. store(e, tk) = Normalized(e.precarry, c + 8, x, r, d)
      BY <1>7, <1>9, StoredNone
    <2> QED BY <1>4, <1>5, <2>2, <2>3
  <1>10. CASE 16 <= c + d /\ c + d <= 23
    <2>1. PICK b, m : b = x \div Pow(c) /\ m = x % Pow(c)
      OBVIOUS
    <2>2. b \in Nat /\ IsRest(e, c, x, r, d, Append(e.precarry, b), c, m)
      BY <1>1, <1>3, <1>5, <1>10, <2>1, RestOne
    <2>3. StoreGives(Normalized(Append(e.precarry, b), c, m, r, d), e, l, r, d)
      BY <1>1, <1>3, <1>5, <2>2, StoreEnds
    <2>4. Splits(x, c, b, m)
      BY <2>1, <2>2 DEF Splits
    <2>5. store(e, tk) = Normalized(Append(e.precarry, b), c, m, r, d)
      BY <1>7, <1>10, <2>4, StoredOne
    <2> QED BY <1>4, <1>5, <2>3, <2>5
  <1>11. CASE 24 <= c + d
    <2>1. PICK h \in Nat : h + 8 = c /\ h <= 15
      <3>1. c - 8 \in Nat /\ (c - 8) + 8 = c /\ c - 8 <= 15
        BY <1>8, <1>11
      <3> QED BY <3>1
    <2>2. Computed(h)
      <3>1. h \in 0 .. 15
        BY <2>1
      <3> QED BY <3>1, ShiftsComputed
    <2>3. PICK b, m : b = x \div Pow(c) /\ m = x % Pow(c)
      OBVIOUS
    <2>4. PICK b2, m2 : b2 = m \div Pow(h) /\ m2 = m % Pow(h)
      OBVIOUS
    <2>5. b \in Nat
      <3>1. 16 <= c + d
        BY <1>8, <1>11
      <3> QED BY <1>1, <1>3, <1>5, <2>3, <3>1, RestOne
    <2>6. b2 \in Nat /\ IsRest(e, c, x, r, d, Append(Append(e.precarry, b), b2), h, m2)
      BY <1>1, <1>3, <1>5, <1>11, <2>1, <2>3, <2>4, RestTwo
    <2>7. StoreGives(Normalized(Append(Append(e.precarry, b), b2), h, m2, r, d), e, l, r, d)
      BY <1>1, <1>3, <1>5, <2>6, StoreEnds
    <2>8. Splits(x, c, b, m) /\ Splits(m, h, b2, m2)
      BY <2>3, <2>4, <2>5, <2>6 DEF Splits
    <2>9. store(e, tk) = Normalized(Append(Append(e.precarry, b), b2), h, m2, r, d)
      BY <1>7, <1>11, <2>1, <2>2, <2>8, StoredTwo
    <2> QED BY <1>4, <1>5, <2>7, <2>9
  <1>12. c + d < 16 \/ (16 <= c + d /\ c + d <= 23) \/ 24 <= c + d
    BY <1>8
  <1> QED BY <1>9, <1>10, <1>11, <1>12

-----------------------------------------------------------------------------
(* Adaptation keeps CDFs sound *)

\* What the adaptation of a CDF does to a word.
Fallen(a, p) == a - a \div p
Risen(a, p) == a + (32768 - a) \div p

\* The powers by which it divides.
Rate(p) == p = 16 \/ p = 32 \/ p = 64 \/ p = 128

\* Words stay in order, and below 2^15.
LEMMA AdaptedInOrder ==
  ASSUME NEW p, Rate(p), NEW a \in Nat, NEW b \in Nat, b <= a, a < 32768
  PROVE  /\ Fallen(b, p) <= Fallen(a, p) /\ Risen(b, p) <= Risen(a, p) /\ Fallen(b, p) <= Risen(a, p)
         /\ Fallen(a, p) \in Nat /\ Fallen(a, p) <= a
         /\ Risen(a, p) \in Nat /\ a <= Risen(a, p) /\ Risen(a, p) < 32768
PROOF
  <1>1. CASE p = 16
    <2>1. /\ b - b \div 16 <= a - a \div 16
          /\ b + (32768 - b) \div 16 <= a + (32768 - a) \div 16
      OBVIOUS
    <2>2. b - b \div 16 <= a + (32768 - a) \div 16
      OBVIOUS
    <2>3. /\ a - a \div 16 \in Nat /\ a - a \div 16 <= a
      OBVIOUS
    <2>4. /\ a + (32768 - a) \div 16 \in Nat /\ a <= a + (32768 - a) \div 16
          /\ a + (32768 - a) \div 16 < 32768
      OBVIOUS
    <2> QED BY <1>1, <2>1, <2>2, <2>3, <2>4 DEF Fallen, Risen
  <1>2. CASE p = 32
    <2>1. /\ b - b \div 32 <= a - a \div 32
          /\ b + (32768 - b) \div 32 <= a + (32768 - a) \div 32
      OBVIOUS
    <2>2. b - b \div 32 <= a + (32768 - a) \div 32
      OBVIOUS
    <2>3. /\ a - a \div 32 \in Nat /\ a - a \div 32 <= a
      OBVIOUS
    <2>4. /\ a + (32768 - a) \div 32 \in Nat /\ a <= a + (32768 - a) \div 32
          /\ a + (32768 - a) \div 32 < 32768
      OBVIOUS
    <2> QED BY <1>2, <2>1, <2>2, <2>3, <2>4 DEF Fallen, Risen
  <1>3. CASE p = 64
    <2>1. /\ b - b \div 64 <= a - a \div 64
          /\ b + (32768 - b) \div 64 <= a + (32768 - a) \div 64
      OBVIOUS
    <2>2. b - b \div 64 <= a + (32768 - a) \div 64
      OBVIOUS
    <2>3. /\ a - a \div 64 \in Nat /\ a - a \div 64 <= a
      OBVIOUS
    <2>4. /\ a + (32768 - a) \div 64 \in Nat /\ a <= a + (32768 - a) \div 64
          /\ a + (32768 - a) \div 64 < 32768
      OBVIOUS
    <2> QED BY <1>3, <2>1, <2>2, <2>3, <2>4 DEF Fallen, Risen
  <1>4. CASE p = 128
    <2>1. /\ b - b \div 128 <= a - a \div 128
          /\ b + (32768 - b) \div 128 <= a + (32768 - a) \div 128
      OBVIOUS
    <2>2. b - b \div 128 <= a + (32768 - a) \div 128
      OBVIOUS
    <2>3. /\ a - a \div 128 \in Nat /\ a - a \div 128 <= a
      OBVIOUS
    <2>4. /\ a + (32768 - a) \div 128 \in Nat /\ a <= a + (32768 - a) \div 128
          /\ a + (32768 - a) \div 128 < 32768
      OBVIOUS
    <2> QED BY <1>4, <2>1, <2>2, <2>3, <2>4 DEF Fallen, Risen
  <1> QED BY <1>1, <1>2, <1>3, <1>4 DEF Rate

\* What update_cdf divides by, after k adaptations.
DividesBy(n, k) == 2^(3 + (IF n \div 2 < 2 THEN n \div 2 ELSE 2) + k \div 16)

\* It keeps a word of a CDF below 2^15.
LEMMA RateOfUpdate ==
  ASSUME NEW n \in Nat, 2 <= n, n <= 16, NEW k \in Nat, k <= 32
  PROVE  Rate(DividesBy(n, k))
PROOF
  <1> DEFINE r == 3 + (IF n \div 2 < 2 THEN n \div 2 ELSE 2) + k \div 16
  <1>1. r = 4 \/ r = 5 \/ r = 6 \/ r = 7
    <2>1. k \div 16 = 0 \/ k \div 16 = 1 \/ k \div 16 = 2
      OBVIOUS
    <2>2. n \div 2 < 2 => n \div 2 = 1
      OBVIOUS
    <2> QED BY <2>1, <2>2
  <1>2. 2^4 = 16 /\ 2^5 = 32 /\ 2^6 = 64 /\ 2^7 = 128
    OBVIOUS
  <1> HIDE DEF r
  <1>3. Rate(2^r)
    <2>1. CASE r = 4
      BY <1>2, <2>1 DEF Rate
    <2>2. CASE r = 5
      BY <1>2, <2>2 DEF Rate
    <2>3. CASE r = 6
      BY <1>2, <2>3 DEF Rate
    <2>4. CASE r = 7
      BY <1>2, <2>4 DEF Rate
    <2> QED BY <1>1, <2>1, <2>2, <2>3, <2>4
  <1> QED BY <1>3 DEF r, DividesBy

\* The adaptation of a CDF to a symbol is a CDF.
LEMMA UpdateKeepsCdf ==
  ASSUME NEW x, IsCdf(x), NEW s \in Nat
  PROVE  IsCdf(update_cdf(x, s)) /\ Len(update_cdf(x, s)) = Len(x)
PROOF
  <1>1. PICK n \in Nat : n = Len(x)
    BY DEF IsCdf
  <1>2. /\ x \in Seq(Nat) /\ 2 <= n /\ n <= 16 /\ x[n] <= 32 /\ x[n] \in Nat
        /\ \A i \in 1 .. n - 1 : x[i] < 32768
        /\ \A i, j \in 1 .. n - 1 : i <= j => x[j] <= x[i]
    <2>1. x \in Seq(Nat) /\ 2 <= n
      BY <1>1 DEF IsCdf
    <2>2. x[n] \in Nat
      BY <1>1, <2>1
    <2> QED BY <1>1, <2>1, <2>2 DEF IsCdf
  <1>3. PICK p : p = DividesBy(n, x[n])
    OBVIOUS
  <1>4. Rate(p)
    BY <1>2, <1>3, RateOfUpdate
  <1>5. PICK k : k = x[n] + 1 - x[n] \div 32
    OBVIOUS
  <1>6. k \in Nat /\ k <= 32
    BY <1>2, <1>5
  <1>7. PICK y : y = update_cdf(x, s)
    OBVIOUS
  <1>8. y = [i \in 1 .. n |-> IF i = n THEN k ELSE IF i > s THEN Fallen(x[i], p) ELSE Risen(x[i], p)]
    <2>1. update_cdf(x, s) =
            [i \in 1 .. Len(x) |->
               IF i = Len(x) THEN x[Len(x)] + 1 - x[Len(x)] \div 32
               ELSE IF i > s THEN Fallen(x[i], DividesBy(Len(x), x[Len(x)]))
               ELSE Risen(x[i], DividesBy(Len(x), x[Len(x)]))]
      BY DEF update_cdf, Fallen, Risen, DividesBy
    <2> QED BY <1>1, <1>3, <1>5, <1>7, <2>1
  <1>9. \A i \in 1 .. n - 1 : x[i] \in Nat /\ i \in 1 .. n /\ i # n
    BY <1>1, <1>2
  <1>10. \A i \in 1 .. n - 1 : y[i] = IF i > s THEN Fallen(x[i], p) ELSE Risen(x[i], p)
    BY <1>8, <1>9
  <1>11. y[n] = k
    <2>1. n \in 1 .. n
      BY <1>2
    <2> QED BY <1>8, <2>1
  <1>12. \A i \in 1 .. n - 1 : y[i] \in Nat /\ y[i] < 32768
    <2> SUFFICES ASSUME NEW i \in 1 .. n - 1 PROVE y[i] \in Nat /\ y[i] < 32768
      OBVIOUS
    <2>1. PICK a \in Nat : a = x[i] /\ a < 32768
      BY <1>2, <1>9
    <2>2. /\ Fallen(a, p) \in Nat /\ Fallen(a, p) <= a
          /\ Risen(a, p) \in Nat /\ Risen(a, p) < 32768
      <3>1. a <= a
        OBVIOUS
      <3> QED BY <1>4, <2>1, <3>1, AdaptedInOrder
    <2>3. y[i] = Fallen(a, p) \/ y[i] = Risen(a, p)
      BY <1>10, <2>1
    <2> QED BY <2>1, <2>2, <2>3
  <1>13. ASSUME NEW i \in 1 .. n - 1, NEW j \in 1 .. n - 1, i <= j PROVE y[j] <= y[i]
    <2>1. PICK a \in Nat, b \in Nat : a = x[i] /\ b = x[j] /\ a < 32768 /\ b <= a
      BY <1>2, <1>9, <1>13, SMTT(60)
    <2>2. Fallen(b, p) <= Fallen(a, p) /\ Risen(b, p) <= Risen(a, p) /\ Fallen(b, p) <= Risen(a, p)
      BY <1>4, <2>1, AdaptedInOrder
    <2>3. CASE i > s
      <3>1. y[i] = Fallen(a, p) /\ y[j] = Fallen(b, p)
        BY <1>10, <1>13, <2>1, <2>3
      <3> QED BY <2>2, <3>1
    <2>4. CASE ~(i > s)
      <3>1. y[i] = Risen(a, p) /\ (y[j] = Fallen(b, p) \/ y[j] = Risen(b, p))
        BY <1>10, <2>1, <2>4
      <3> QED BY <2>2, <3>1
    <2> QED BY <2>3, <2>4
  <1>14. y \in Seq(Nat) /\ Len(y) = n
    <2>1. \A i \in 1 .. n : y[i] \in Nat
      <3>1. \A i \in 1 .. n : i = n \/ i \in 1 .. n - 1
        BY <1>1
      <3> QED BY <1>6, <1>11, <1>12, <3>1
    <2>2. y = [i \in 1 .. n |-> y[i]]
      BY <1>8
    <2>3. y \in [1 .. n -> Nat]
      BY <2>1, <2>2
    <2> QED BY <2>3
  <1>15. IsCdf(y)
    BY <1>2, <1>6, <1>11, <1>12, <1>13, <1>14 DEF IsCdf
  <1> QED BY <1>1, <1>7, <1>14, <1>15

\* The tables are CDFs.
LEMMA InitialCdfs ==
  ASSUME NEW c \in Cdfs
  PROVE  IsCdf(Cdf(InitialFc, c)) /\ Len(Cdf(InitialFc, c)) = Layout[c].len
PROOF
  <1> DEFINE o == Layout[c].offset
  <1>1. PICK n \in Nat : n = Layout[c].len /\ o \in Nat
    BY LayoutAssumption DEF Cdfs
  <1>2. /\ 2 <= n /\ n <= 16 /\ InitialFc[o + n - 1] = 0
        /\ \A i \in 1 .. n - 1 : InitialFc[o + i - 1] < 2^15
        /\ \A i, j \in 1 .. n - 1 : i <= j => InitialFc[o + i - 1] >= InitialFc[o + j - 1]
    BY <1>1, TablesAssumption DEF Cdfs
  <1>3. \A i \in 1 .. n : InitialFc[o + i - 1] \in Nat
    <2>1. \A i \in 1 .. n : o + i - 1 \in OwnWords(c)
      BY <1>1 DEF OwnWords
    <2>2. \A i \in OwnWords(c) : i \in Words
      BY OwnLogged
    <2>3. \A i \in Words : InitialFc[i] \in Nat
      BY LayoutAssumption DEF Words
    <2> QED BY <2>1, <2>2, <2>3
  <1>4. PICK x : x = Cdf(InitialFc, c)
    OBVIOUS
  <1>5. x = [i \in 1 .. n |-> InitialFc[o + i - 1]]
    BY <1>1, <1>4 DEF Cdf
  <1>6. x \in Seq(Nat) /\ Len(x) = n
    <2>1. x \in [1 .. n -> Nat]
      BY <1>3, <1>5
    <2> QED BY <2>1
  <1>7. \A i \in 1 .. n : x[i] = InitialFc[o + i - 1]
    BY <1>5
  <1>8. 2^15 = 32768
    OBVIOUS
  <1> HIDE DEF o
  <1>9. n \in 1 .. n /\ \A i \in 1 .. n - 1 : i \in 1 .. n
    BY <1>1, <1>2
  <1>10. x[n] <= 32
    BY <1>2, <1>7, <1>9
  <1>11. \A i \in 1 .. n - 1 : x[i] < 32768
    BY <1>2, <1>7, <1>8, <1>9
  <1>12. ASSUME NEW i \in 1 .. n - 1, NEW j \in 1 .. n - 1, i <= j PROVE x[j] <= x[i]
    <2>1. PICK a \in Nat, b \in Nat : a = x[i] /\ b = x[j] /\ a >= b
      BY <1>2, <1>3, <1>7, <1>9, <1>12
    <2> QED BY <2>1
  <1>13. IsCdf(x)
    BY <1>2, <1>6, <1>10, <1>11, <1>12 DEF IsCdf
  <1> QED BY <1>1, <1>4, <1>6, <1>13

\* An update adapts its CDF.
LEMMA UpdatedCdf ==
  ASSUME NEW w, IsWords(w), NEW c \in Cdfs, NEW s
  PROVE  Cdf(Updated(w, c, s), c) = update_cdf(Cdf(w, c), s)
PROOF
  <1> DEFINE o == Layout[c].offset
  <1>1. PICK n \in Nat : n = Layout[c].len /\ o \in Nat
    BY LayoutAssumption DEF Cdfs
  <1>2. PICK y : y = update_cdf(Cdf(w, c), s)
    OBVIOUS
  <1>3. y = [i \in 1 .. n |-> y[i]]
    <2>1. Len(Cdf(w, c)) = n
      BY <1>1 DEF Cdf
    <2>2. \E g : y = [i \in 1 .. Len(Cdf(w, c)) |-> g[i]]
      BY <1>2 DEF update_cdf
    <2> QED BY <2>1, <2>2
  <1>4. \A i \in 1 .. n : o + i - 1 \in OwnWords(c) /\ o + i - 1 \in Words
    <2>1. \A i \in 1 .. n : o + i - 1 \in OwnWords(c)
      BY <1>1 DEF OwnWords
    <2> QED BY <2>1, OwnLogged
  <1>5. DOMAIN w = Words
    BY DEF IsWords
  <1>6. \A k \in Words : k \in OwnWords(c) => Updated(w, c, s)[k] = y[k - o + 1]
    BY <1>2, <1>5 DEF Updated
  <1>7. PICK v : v = Updated(w, c, s)
    OBVIOUS
  <1>8. \A i \in 1 .. n : v[o + i - 1] = y[i]
    <2> SUFFICES ASSUME NEW i \in 1 .. n PROVE v[o + i - 1] = y[i]
      OBVIOUS
    <2>1. v[o + i - 1] = y[(o + i - 1) - o + 1]
      BY <1>4, <1>6, <1>7
    <2>2. (o + i - 1) - o + 1 = i
      BY <1>1
    <2> QED BY <2>1, <2>2
  <1>9. Cdf(v, c) = [i \in 1 .. n |-> v[o + i - 1]]
    BY <1>1 DEF Cdf
  <1>10. Cdf(v, c) = [i \in 1 .. n |-> y[i]]
    BY <1>8, <1>9
  <1> QED BY <1>2, <1>3, <1>7, <1>10

\* The pairs of a CDF and one of its symbols.
CodedPairs == {p \in Written : p[2] < Layout[p[1]].len}

\* All CDFs are CDFs.
CdfsSound(w) == \A c \in Cdfs : IsCdf(Cdf(w, c)) /\ Len(Cdf(w, c)) = Layout[c].len

\* A symbol keeps them so.
LEMMA UpdatedSound ==
  ASSUME NEW w, IsWords(w), CdfsSound(w), NEW d \in Cdfs, NEW s \in Nat
  PROVE  CdfsSound(Updated(w, d, s))
PROOF
  <1> SUFFICES ASSUME NEW c \in Cdfs
               PROVE  /\ IsCdf(Cdf(Updated(w, d, s), c))
                      /\ Len(Cdf(Updated(w, d, s), c)) = Layout[c].len
    BY DEF CdfsSound
  <1>1. IsCdf(Cdf(w, c)) /\ Len(Cdf(w, c)) = Layout[c].len
    BY DEF CdfsSound
  <1>2. CASE c = d
    <2>1. Cdf(Updated(w, d, s), c) = update_cdf(Cdf(w, c), s)
      BY <1>2, UpdatedCdf
    <2> QED BY <1>1, <2>1, UpdateKeepsCdf
  <1>3. CASE c # d
    <2>1. Cdf(Updated(w, d, s), c) = Cdf(w, c)
      BY <1>3, UpdatedElsewhere
    <2> QED BY <1>1, <2>1
  <1> QED BY <1>2, <1>3

-----------------------------------------------------------------------------
(* Every symbol of a tile is coded *)

\* The beginning of a sequence, and one more of its elements.
LEMMA PrefixGrows ==
  ASSUME NEW T, NEW s \in Seq(T), NEW n \in 0 .. Len(s) - 1
  PROVE  /\ SubSeq(s, 1, n) \in Seq(T) /\ s[n + 1] \in T
         /\ SubSeq(s, 1, n + 1) = Append(SubSeq(s, 1, n), s[n + 1])
         /\ SubSeq(s, 1, 0) = <<>> /\ SubSeq(s, 1, Len(s)) = s
PROOF
  <1>1. SubSeq(s, 1, n) \in Seq(T) /\ s[n + 1] \in T
    OBVIOUS
  <1>2. SubSeq(s, 1, n + 1) = Append(SubSeq(s, 1, n), s[n + 1])
    OBVIOUS
  <1>3. SubSeq(s, 1, 0) = <<>> /\ SubSeq(s, 1, Len(s)) = s
    OBVIOUS
  <1> QED BY <1>1, <1>2, <1>3

\* The CDFs after the first n symbols.
LEMMA AdaptedSound ==
  ASSUME NEW s \in Seq(CodedPairs)
  PROVE  \A n \in 0 .. Len(s) : CdfsSound(Adapted(SubSeq(s, 1, n)))
PROOF
  <1>1. PICK N \in Nat : N = Len(s)
    OBVIOUS
  <1> DEFINE S == {n \in 0 .. N : CdfsSound(Adapted(SubSeq(s, 1, n)))}
  <1>2. 0 \in S
    <2>1. SubSeq(s, 1, 0) = <<>> /\ 0 \in 0 .. N
      BY <1>1
    <2>2. CdfsSound(InitialFc)
      BY InitialCdfs DEF CdfsSound
    <2> QED BY <2>1, <2>2, AdaptedFacts
  <1>3. ASSUME NEW n \in 0 .. N - 1, n \in S PROVE n + 1 \in S
    <2>1. n + 1 \in 0 .. N
      BY <1>1
    <2>2. PICK q \in Seq(CodedPairs), p \in CodedPairs :
            /\ q = SubSeq(s, 1, n) /\ p = s[n + 1] /\ SubSeq(s, 1, n + 1) = Append(q, p)
      <3>1. n \in 0 .. Len(s) - 1
        BY <1>1
      <3>2. /\ SubSeq(s, 1, n) \in Seq(CodedPairs) /\ s[n + 1] \in CodedPairs
            /\ SubSeq(s, 1, n + 1) = Append(SubSeq(s, 1, n), s[n + 1])
        BY <3>1, PrefixGrows
      <3> QED BY <3>2
    <2>3. q \in Seq(Written) /\ p \in Written
      <3>1. CodedPairs \subseteq Written
        BY DEF CodedPairs
      <3> QED BY <2>2, <3>1
    <2>4. CdfsSound(Adapted(q)) /\ IsWords(Adapted(q))
      BY <1>3, <2>2, <2>3, AdaptedWords
    <2>5. p[1] \in Cdfs /\ p[2] \in Nat
      BY <2>3 DEF Written
    <2>6. CdfsSound(Updated(Adapted(q), p[1], p[2]))
      BY <2>4, <2>5, UpdatedSound
    <2>7. CdfsSound(Adapted(SubSeq(s, 1, n + 1)))
      BY <2>2, <2>3, <2>6, AdaptedFacts DEF AdaptedTo
    <2> QED BY <2>1, <2>7
  <1> HIDE DEF S
  <1>4. \A n \in 0 .. N : n \in S
    BY <1>1, <1>2, <1>3, InductionUpTo
  <1> QED BY <1>1, <1>4 DEF S

\* How the symbol k of the CDF x is coded: its part l, r of the range, the shift
\* d, and the Encoder y after it.
CodesAs(e, x, k, l, r, d, y) ==
  /\ TakesPart(e, l, r) /\ 4 <= r /\ d = leading_zeros(r) /\ IsShift(r, d)
  /\ Upper(e.rng, x, k) = e.rng - l /\ Bound(e.rng, x, k + 1) = (e.rng - l) - r
  /\ StoreGives(y, e, l, r, d)

\* Any symbol can be coded.
LEMMA SymbolStored ==
  ASSUME NEW e, EncoderSound(e), NEW x, IsCdf(x), NEW k \in 0 .. Len(x) - 1
  PROVE  \E l, r, d : CodesAs(e, x, k, l, r, d, store(e, token(x, k)))
PROOF
  <1>1. PICK g \in Nat : g = e.rng /\ InRange(g)
    BY DEF EncoderSound, InRange
  <1>2. PICK t : t = token(x, k)
    OBVIOUS
  <1>3. PICK u, b : u = Upper(g, x, k) /\ b = Bound(g, x, k + 1)
    OBVIOUS
  <1>4. /\ lr_compute(g, t).l = g - u /\ lr_compute(g, t).r = u - b
        /\ b \in Nat /\ u \in Nat /\ u <= g /\ b + 4 <= u
    BY <1>1, <1>2, <1>3, TokenFacts
  <1>5. PICK l \in Nat, r \in Nat : l = g - u /\ r = u - b
    <2>1. g - u \in Nat /\ u - b \in Nat
      BY <1>4
    <2> QED BY <2>1
  <1>6. l + r <= g /\ 4 <= r /\ u = g - l /\ b = (g - l) - r
    BY <1>4, <1>5
  <1>7. TakesPart(e, l, r) /\ GivesPart(e, t, l, r)
    BY <1>1, <1>4, <1>5, <1>6 DEF TakesPart, GivesPart
  <1>8. IsShift(r, leading_zeros(r)) /\ StoreGives(store(e, t), e, l, r, leading_zeros(r))
    BY <1>6, <1>7, StoreFacts
  <1>9. CodesAs(e, x, k, l, r, leading_zeros(r), store(e, t))
    BY <1>1, <1>3, <1>6, <1>7, <1>8 DEF CodesAs
  <1> QED BY <1>2, <1>9

\* The Encoder at the beginning.
LEMMA NewSound ==
  EncoderSound(NewEncoder) /\ Exact(NewEncoder) = 0 /\ Shifts(NewEncoder) = 0
PROOF
  <1>1. PICK e : e = NewEncoder
    OBVIOUS
  <1>2. e = [rng |-> 32768, cnt |-> -9, low |-> 0, precarry |-> <<>>]
    BY <1>1 DEF NewEncoder
  <1>3. e.rng = 32768 /\ e.cnt = -9 /\ e.low = 0 /\ e.precarry = <<>> /\ Len(e.precarry) = 0
    BY <1>2
  <1>4. e \in [rng : Nat, cnt : Int, low : Nat, precarry : Seq(Nat)]
    BY <1>2
  <1>5. e.cnt + 16 = 7 /\ e.cnt + 24 = 15
    BY <1>3
  <1>6. e.low + e.rng <= 512 * Pow(e.cnt + 16)
    <2>1. Pow(7) = 128
      BY PowSmall
    <2> QED BY <1>3, <1>5, <2>1
  <1>7. EncoderSound(e)
    <2>1. InRange(e.rng) /\ -9 <= e.cnt /\ e.cnt <= -1
      BY <1>3 DEF InRange
    <2>2. \A i \in 1 .. Len(e.precarry) : e.precarry[i] < 512
      BY <1>3
    <2> QED BY <1>4, <1>6, <2>1, <2>2 DEF EncoderSound
  <1>8. Exact(e) = 0
    <2>1. Exact(e) = Number(e.precarry, 0) * Pow(15) + 0
      BY <1>3, <1>5 DEF Exact, Total
    <2>2. Number(e.precarry, 0) = 0 /\ Pow(15) = 32768
      BY ValueZero, PowSmall
    <2> QED BY <2>1, <2>2
  <1>9. Shifts(e) = 0
    BY <1>3 DEF Shifts
  <1> QED BY <1>1, <1>7, <1>8, <1>9

\* The Encoder after the first n symbols, and the CDF of the next.
EncoderAt(s, n) == Encoded(SubSeq(s, 1, n))
CdfAt(s, n) == Cdf(Adapted(SubSeq(s, 1, n)), s[n + 1][1])

\* How the symbol after the first n is coded.
NextToken(s, n, l, r, d) ==
  CodesAs(EncoderAt(s, n), CdfAt(s, n), s[n + 1][2], l, r, d, EncoderAt(s, n + 1))

\* The next symbol, when the Encoder is sound.
LEMMA NextCoded ==
  ASSUME NEW s \in Seq(CodedPairs), NEW n \in 0 .. Len(s) - 1, EncoderSound(EncoderAt(s, n))
  PROVE  /\ \E l, r, d : NextToken(s, n, l, r, d)
         /\ IsCdf(CdfAt(s, n)) /\ s[n + 1][2] \in 0 .. Len(CdfAt(s, n)) - 1
PROOF
  <1>1. PICK q \in Seq(CodedPairs), p \in CodedPairs :
          q = SubSeq(s, 1, n) /\ p = s[n + 1] /\ SubSeq(s, 1, n + 1) = Append(q, p)
    <2>1. /\ SubSeq(s, 1, n) \in Seq(CodedPairs) /\ s[n + 1] \in CodedPairs
          /\ SubSeq(s, 1, n + 1) = Append(SubSeq(s, 1, n), s[n + 1])
      BY PrefixGrows
    <2> QED BY <2>1
  <1>2. q \in Seq(Written) /\ p \in Written
    <2>1. CodedPairs \subseteq Written
      BY DEF CodedPairs
    <2> QED BY <1>1, <2>1
  <1>3. p[1] \in Cdfs /\ p[2] \in Nat /\ p[2] < Layout[p[1]].len
    BY <1>2 DEF Written, CodedPairs
  <1>4. PICK x : x = CdfAt(s, n) /\ x = Cdf(Adapted(q), p[1])
    BY <1>1 DEF CdfAt
  <1>5. IsCdf(x) /\ Len(x) = Layout[p[1]].len
    <2>1. n \in 0 .. Len(s)
      OBVIOUS
    <2>2. CdfsSound(Adapted(q))
      BY <1>1, <2>1, AdaptedSound
    <2> QED BY <1>3, <1>4, <2>2 DEF CdfsSound
  <1>6. p[2] \in 0 .. Len(x) - 1
    <2>1. Len(x) \in Nat
      BY <1>5 DEF IsCdf
    <2> QED BY <1>3, <1>5, <2>1
  <1>7. EncoderAt(s, n + 1) = store(EncoderAt(s, n), token(x, p[2]))
    BY <1>1, <1>2, <1>4, EncodedFacts DEF EncoderAt, TokenOf
  <1>8. \E l, r, d : CodesAs(EncoderAt(s, n), x, p[2], l, r, d, EncoderAt(s, n + 1))
    BY <1>5, <1>6, <1>7, SymbolStored
  <1> QED BY <1>1, <1>4, <1>5, <1>6, <1>8 DEF NextToken

\* The Encoder stays sound.
LEMMA AllCoded ==
  ASSUME NEW s \in Seq(CodedPairs)
  PROVE  /\ \A n \in 0 .. Len(s) : EncoderSound(EncoderAt(s, n))
         /\ Exact(EncoderAt(s, 0)) = 0 /\ Shifts(EncoderAt(s, 0)) = 0
         /\ EncoderAt(s, 0) = NewEncoder /\ EncoderAt(s, Len(s)) = Encoded(s)
PROOF
  <1>1. PICK N \in Nat : N = Len(s)
    OBVIOUS
  <1>2. EncoderAt(s, 0) = NewEncoder /\ EncoderAt(s, Len(s)) = Encoded(s)
    <2>1. SubSeq(s, 1, 0) = <<>> /\ SubSeq(s, 1, Len(s)) = s
      OBVIOUS
    <2> QED BY <2>1, EncodedFacts DEF EncoderAt
  <1> DEFINE S == {n \in 0 .. N : EncoderSound(EncoderAt(s, n))}
  <1>3. 0 \in S
    <2>1. 0 \in 0 .. N
      BY <1>1
    <2> QED BY <1>2, <2>1, NewSound
  <1>4. ASSUME NEW n \in 0 .. N - 1, n \in S PROVE n + 1 \in S
    <2>1. n + 1 \in 0 .. N /\ n \in 0 .. Len(s) - 1
      BY <1>1
    <2>2. EncoderSound(EncoderAt(s, n))
      BY <1>4
    <2>3. PICK l, r, d : NextToken(s, n, l, r, d)
      BY <2>1, <2>2, NextCoded
    <2>4. EncoderSound(EncoderAt(s, n + 1))
      BY <2>3 DEF NextToken, CodesAs, StoreGives
    <2> QED BY <2>1, <2>4
  <1> HIDE DEF S
  <1>5. \A n \in 0 .. N : n \in S
    BY <1>1, <1>3, <1>4, InductionUpTo
  <1> QED BY <1>1, <1>2, <1>5, NewSound DEF S

-----------------------------------------------------------------------------
(* The bytes of done name a number in the last range *)

\* The number that the last bytes stand for.
Rounded(low) ==
  LET e0 == ((low + 16383) \div 16384) * 16384
  IN IF (e0 \div 16384) % 2 = 0 THEN e0 + 16384 ELSE e0

\* It is in the range, and ends with 14 zeros.
IsRounded(y, low) ==
  y \in Nat /\ low <= y /\ y < low + 32768 /\ \E q \in Nat : y = 16384 * q

\* The end that Encoder::done rounds to.
LEMMA RoundedFacts ==
  ASSUME NEW low \in Nat
  PROVE  IsRounded(Rounded(low), low)
PROOF
  <1>1. PICK k \in Nat : k = (low + 16383) \div 16384 /\ low <= 16384 * k /\ 16384 * k < low + 16384
    <2>1. /\ (low + 16383) \div 16384 \in Nat
          /\ low <= 16384 * ((low + 16383) \div 16384)
          /\ 16384 * ((low + 16383) \div 16384) < low + 16384
      OBVIOUS
    <2> QED BY <2>1
  <1>2. (k * 16384) \div 16384 = k
    OBVIOUS
  <1>3. Rounded(low) = IF k % 2 = 0 THEN k * 16384 + 16384 ELSE k * 16384
    BY <1>1, <1>2 DEF Rounded
  <1>4. CASE k % 2 = 0
    <2>1. Rounded(low) = 16384 * (k + 1)
      BY <1>3, <1>4
    <2>2. k + 1 \in Nat /\ low <= 16384 * (k + 1) /\ 16384 * (k + 1) < low + 32768
      BY <1>1
    <2> QED BY <2>1, <2>2 DEF IsRounded
  <1>5. CASE ~(k % 2 = 0)
    <2>1. Rounded(low) = 16384 * k
      BY <1>3, <1>5
    <2>2. low <= 16384 * k /\ 16384 * k < low + 32768
      BY <1>1
    <2> QED BY <2>1, <2>2 DEF IsRounded
  <1> QED BY <1>4, <1>5

\* The bytes pre stand for a number in the range of e, when n bits are added.
Ends(e, pre, n) ==
  /\ pre \in Seq(Nat) /\ 1 <= Len(pre) /\ n \in Nat
  /\ n + 8 * Len(pre) = Shifts(e) + 15
  /\ Exact(e) <= Number(pre, Len(pre)) * Pow(n)
  /\ Number(pre, Len(pre)) * Pow(n) < Exact(e) + e.rng

\* A multiple has no remainder.
LEMMA NoRemainder ==
  ASSUME NEW p \in Nat, p > 0, NEW k \in Nat
  PROVE  (p * k) % p = 0
PROOF
  <1>1. p \in Nat \ {0} /\ p * k \in Nat /\ 0 \in Nat /\ 0 < p /\ p * k = p * k + 0
    OBVIOUS
  <1> QED BY <1>1, DivUnique

\* Nothing is left after the bytes.
LEMMA TotalOfBytes ==
  ASSUME NEW pre \in Seq(Nat), NEW a \in Nat
  PROVE  Total(pre, a, 0) = Number(pre, Len(pre)) * Pow(a)
PROOF
  <1>1. Number(pre, Len(pre)) \in Nat /\ Pow(a) \in Nat
    <2>1. Len(pre) \in Nat /\ \A k \in 1 .. Len(pre) : pre[k] \in Nat /\ pre[k] = pre[k]
      OBVIOUS
    <2> QED BY <2>1, ValueSame, PowNat
  <1> DEFINE v == Number(pre, Len(pre))
             p == Pow(a)
  <1>2. Total(pre, a, 0) = v * p + 0
    BY DEF Total
  <1> HIDE DEF v, p
  <1>3. v * p \in Nat
    BY <1>1 DEF v, p
  <1>4. Total(pre, a, 0) = v * p
    BY <1>2, <1>3
  <1> QED BY <1>4 DEF v, p

\* One or two bytes are the last.
OneLast(e, c) == c = e.cnt + 16 /\ e.cnt + 10 > 0 /\ ~(e.cnt + 10 > 8)
TwoLast(e, c) == c = e.cnt + 16 /\ e.cnt + 10 > 0 /\ e.cnt + 10 > 8

\* How the rounded number of e ends the bytes.
EndsWithOne(e, c, y) == Terminated(e) = e.precarry \o <<y \div 2^c>> \o <<>>
EndsWithTwo(e, c, y) ==
  Terminated(e) = e.precarry \o <<y \div 2^c>> \o <<(y % 2^c) \div 2^(c - 8)>>
IsEnd(e, y) == y \in Nat /\ y = Rounded(e.low)

\* The two cases of Terminated.
LEMMA TerminatedAs ==
  ASSUME NEW e, NEW c, NEW y, IsEnd(e, y)
  PROVE  /\ OneLast(e, c) => EndsWithOne(e, c, y)
         /\ TwoLast(e, c) => EndsWithTwo(e, c, y)
PROOF
  <1>1. Terminated(e) =
          e.precarry
            \o (IF e.cnt + 10 > 0 THEN <<Rounded(e.low) \div 2^(e.cnt + 16)>> ELSE <<>>)
            \o (IF e.cnt + 10 > 8
                 THEN <<(Rounded(e.low) % 2^(e.cnt + 16)) \div 2^((e.cnt + 16) - 8)>> ELSE <<>>)
    BY DEF Terminated, Rounded
  <1> QED BY <1>1 DEF OneLast, TwoLast, EndsWithOne, EndsWithTwo, IsEnd

\* The range of e holds the bytes pre with the number y after them.
RangeHolds(e, pre, c, y) ==
  /\ Exact(e) \in Nat /\ Total(pre, c + 8, y) \in Nat
  /\ Exact(e) <= Total(pre, c + 8, y)
  /\ Total(pre, c + 8, y) < Exact(e) + e.rng
Close(e, x, y) == y \in Nat /\ x <= y /\ y < x + 32768 /\ e.rng \in Nat /\ 32768 <= e.rng

\* The range with the rounded number y.
LEMMA RoundedTotal ==
  ASSUME NEW e, NEW g, NEW c, NEW x, Before(e, 0, g, c, x), NEW y, Close(e, x, y)
  PROVE  RangeHolds(e, e.precarry, c, y)
PROOF
  <1>1. /\ e \in [rng : Nat, cnt : Int, low : Nat, precarry : Seq(Nat)]
        /\ c \in Nat /\ c = e.cnt + 16 /\ x \in Nat /\ x = e.low + 0
    BY DEF Before
  <1>2. e.precarry \in Seq(Nat) /\ e.low = x /\ e.cnt + 24 = c + 8
    <2>1. e.precarry \in Seq(Nat) /\ e.low \in Nat /\ e.cnt \in Int
      BY <1>1
    <2>2. e.low = x
      BY <1>1, <2>1
    <2>3. e.cnt + 24 = c + 8
      BY <1>1, <2>1
    <2> QED BY <2>1, <2>2, <2>3
  <1>3. Number(e.precarry, Len(e.precarry)) \in Nat /\ Pow(c + 8) \in Nat
    <2>1. c + 8 \in Nat
      BY <1>1
    <2>2. \A i \in 1 .. Len(e.precarry) : e.precarry[i] \in Nat /\ e.precarry[i] = e.precarry[i]
      BY <1>2
    <2>3. Len(e.precarry) \in Nat
      BY <1>2
    <2> QED BY <2>1, <2>2, <2>3, ValueSame, PowNat
  <1>4. PICK z \in Nat : z = Number(e.precarry, Len(e.precarry)) * Pow(c + 8)
    BY <1>3
  <1>5. Exact(e) = z + x /\ Total(e.precarry, c + 8, y) = z + y
    BY <1>2, <1>4 DEF Exact, Total
  <1>6. PICK v \in Nat, u \in Nat, h \in Nat :
          v = x /\ u = y /\ h = e.rng /\ v <= u /\ u < v + 32768 /\ 32768 <= h
    <2>1. x \in Nat /\ y \in Nat /\ e.rng \in Nat
      BY <1>1 DEF Close
    <2>2. x <= y /\ y < x + 32768 /\ 32768 <= e.rng
      BY DEF Close
    <2> QED BY <2>1, <2>2
  <1>7. PICK i \in Nat, j \in Nat : i = Exact(e) /\ j = Total(e.precarry, c + 8, y) /\ i <= j /\ j < i + h
    <2>1. z + v \in Nat /\ z + u \in Nat /\ z + v <= z + u /\ z + u < (z + v) + h
      BY <1>6
    <2>2. z + v = Exact(e) /\ z + u = Total(e.precarry, c + 8, y)
      BY <1>5, <1>6
    <2> QED BY <2>1, <2>2
  <1> QED BY <1>6, <1>7 DEF RangeHolds

\* A byte of the number is moved to the bytes.
BytePushed(pre, a, low, q, b, m) ==
  /\ b \in Nat /\ m \in Nat /\ q \in Seq(Nat) /\ Len(q) = Len(pre) + 1
  /\ Total(q, a, m) = Total(pre, a + 8, low)
Splitting(a, low, b, m) ==
  low \in Nat /\ a \in Nat /\ b = low \div Pow(a) /\ m = low % Pow(a)

\* The number of the bytes stays.
LEMMA BytePushes ==
  ASSUME NEW pre \in Seq(Nat), NEW a, NEW low, NEW b, NEW m, Splitting(a, low, b, m)
  PROVE  BytePushed(pre, a, low, Append(pre, b), b, m)
PROOF
  BY PushTotal DEF BytePushed, Splitting

\* What c and the numbers of bytes and shifts have to do with each other.
LEMMA BitsLeft ==
  ASSUME NEW e, NEW g, NEW c, NEW x, Before(e, 0, g, c, x)
  PROVE  /\ Len(e.precarry) \in Nat
         /\ c + 8 * (Len(e.precarry) + 1) = Shifts(e) + 15
         /\ c = 15 => 7 + 8 * (Len(e.precarry) + 2) = Shifts(e) + 15
PROOF
  <1>1. c \in Nat /\ Shifts(e) = (c - 16) + 8 * Len(e.precarry) + 9
    BY DEF Before
  <1>2. PICK k \in Nat : k = Len(e.precarry)
    <2>1. e.precarry \in Seq(Nat)
      BY DEF Before
    <2> QED BY <2>1
  <1>3. Shifts(e) = (c - 16) + 8 * k + 9
    BY <1>1, <1>2
  <1>4. c + 8 * (k + 1) = Shifts(e) + 15
    BY <1>1, <1>3
  <1>5. c = 15 => 7 + 8 * (k + 2) = Shifts(e) + 15
    BY <1>1, <1>3
  <1> QED BY <1>2, <1>4, <1>5

\* A power up to 2^14 divides the rounded number.
LEMMA LowBitsZero ==
  ASSUME NEW c \in Nat, c <= 14, NEW q \in Nat
  PROVE  (16384 * q) % Pow(c) = 0
PROOF
  <1>1. PICK h \in Nat : h + c = 14
    <2>1. 14 - c \in Nat /\ (14 - c) + c = 14
      OBVIOUS
    <2> QED BY <2>1
  <1>2. Pow(h + c) = Pow(h) * Pow(c) /\ Pow(14) = 16384
    BY PowAdd, PowSmall
  <1>3. PICK j \in Nat, p \in Nat : j = Pow(h) /\ p = Pow(c) /\ p > 0
    BY PowNat
  <1>4. j * p = 16384
    BY <1>1, <1>2, <1>3
  <1>5. 16384 * q = p * (j * q) /\ j * q \in Nat
    <2>1. (j * p) * q = p * (j * q) /\ j * q \in Nat
      OBVIOUS
    <2> QED BY <1>4, <2>1
  <1> QED BY <1>3, <1>5, NoRemainder, SMTT(60)

\* The last bytes identify the range.
LEMMA TerminatedFacts ==
  ASSUME NEW e, EncoderSound(e)
  PROVE  \E n : Ends(e, Terminated(e), n)
PROOF
  <1>1. PICK g \in Nat : g = e.rng /\ 32768 <= g
    BY DEF EncoderSound, InRange
  <1>2. TakesPart(e, 0, g)
    BY <1>1 DEF TakesPart
  <1>3. PICK c \in Nat, x \in Nat : Before(e, 0, g, c, x)
    BY <1>2, StoreBefore, SMTT(60) DEF Before
  <1>4. /\ c \in Nat /\ 7 <= c /\ c <= 15 /\ Computed(c) /\ x \in Nat
        /\ e.precarry \in Seq(Nat) /\ e.cnt \in Int /\ e.low = x /\ c = e.cnt + 16
    <2>1. /\ c \in Nat /\ 7 <= c /\ c <= 15 /\ Computed(c) /\ x \in Nat /\ x = e.low + 0
          /\ e \in [rng : Nat, cnt : Int, low : Nat, precarry : Seq(Nat)] /\ c = e.cnt + 16
      BY <1>3 DEF Before
    <2>2. e.low \in Nat /\ e.precarry \in Seq(Nat) /\ e.cnt \in Int
      BY <2>1
    <2>3. e.low = x
      BY <2>1, <2>2
    <2> QED BY <2>1, <2>2, <2>3
  <1>5. PICK y \in Nat, q \in Nat : y = Rounded(x) /\ x <= y /\ y < x + 32768 /\ y = 16384 * q
    <2>1. IsRounded(Rounded(x), x)
      BY RoundedFacts
    <2> QED BY <2>1 DEF IsRounded
  <1>6. PICK pre \in Seq(Nat), k \in Nat : pre = e.precarry /\ k = Len(pre)
    BY <1>4
  <1>7. /\ Exact(e) \in Nat /\ Total(pre, c + 8, y) \in Nat
        /\ Exact(e) <= Total(pre, c + 8, y) /\ Total(pre, c + 8, y) < Exact(e) + e.rng
    <2>1. Close(e, x, y)
      BY <1>1, <1>5 DEF Close
    <2>2. RangeHolds(e, pre, c, y)
      BY <1>3, <1>6, <2>1, RoundedTotal
    <2> QED BY <2>2 DEF RangeHolds
  <1>8. c + 8 * (k + 1) = Shifts(e) + 15 /\ (c = 15 => 7 + 8 * (k + 2) = Shifts(e) + 15)
    BY <1>3, <1>6, BitsLeft
  <1>9. PICK p \in Nat : p = Pow(c) /\ p = 2^c
    <2>1. c \in Nat
      BY <1>4
    <2> QED BY <1>4, <2>1, PowNat DEF Computed
  <1>10. PICK b, m : b = y \div p /\ m = y % p
    OBVIOUS
  <1>11. PICK pre1 : pre1 = Append(pre, b)
    OBVIOUS
  <1>12. /\ b \in Nat /\ m \in Nat /\ pre1 \in Seq(Nat) /\ Len(pre1) = k + 1
         /\ Total(pre1, c, m) = Total(pre, c + 8, y)
    <2>1. c \in Nat
      BY <1>4
    <2>2. Splitting(c, y, b, m)
      BY <1>9, <1>10, <2>1 DEF Splitting
    <2>3. BytePushed(pre, c, y, Append(pre, b), b, m)
      BY <2>2, BytePushes
    <2> QED BY <1>6, <1>11, <2>3 DEF BytePushed
  <1>13. (c <= 14 => OneLast(e, c)) /\ (c = 15 => TwoLast(e, c))
    <2>1. PICK i \in Int : i = e.cnt
      BY <1>4
    <2>2. c = i + 16 /\ 7 <= c
      BY <1>4, <2>1
    <2>3. i + 10 > 0 /\ (c <= 14 => ~(i + 10 > 8)) /\ (c = 15 => i + 10 > 8)
      BY <2>2
    <2> QED BY <2>1, <2>2, <2>3 DEF OneLast, TwoLast
  <1>14. CASE c <= 14
    <2>1. m = 0
      <3>1. c \in Nat
        BY <1>4
      <3>2. (16384 * q) % Pow(c) = 0
        BY <1>14, <3>1, LowBitsZero
      <3> QED BY <1>5, <1>9, <1>10, <3>2
    <2>2. Terminated(e) = pre1
      <3>1. Terminated(e) = e.precarry \o <<y \div 2^c>> \o <<>>
        <4>1. IsEnd(e, y)
          BY <1>4, <1>5 DEF IsEnd
        <4>2. OneLast(e, c)
          BY <1>13, <1>14
        <4>3. EndsWithOne(e, c, y)
          BY <4>1, <4>2, TerminatedAs
        <4> QED BY <4>3 DEF EndsWithOne
      <3>2. y \div 2^c = b
        BY <1>9, <1>10, Zenon
      <3>3. pre \o <<b>> \o <<>> = pre1
        BY <1>11, <1>12
      <3> QED BY <1>6, <3>1, <3>2, <3>3
    <2>3. Number(pre1, Len(pre1)) * Pow(c) = Total(pre, c + 8, y)
      <3>1. c \in Nat /\ pre1 \in Seq(Nat) /\ Total(pre1, c, 0) = Total(pre, c + 8, y)
        BY <1>4, <1>12, <2>1
      <3> QED BY <3>1, TotalOfBytes
    <2>4. c + 8 * Len(pre1) = Shifts(e) + 15 /\ 1 <= Len(pre1) /\ c \in Nat
      BY <1>4, <1>8, <1>12
    <2>5. Ends(e, pre1, c)
      BY <1>7, <1>12, <2>3, <2>4 DEF Ends
    <2> QED BY <2>2, <2>5
  <1>15. CASE c = 15
    <2>1. p = 32768 /\ Pow(7) = 128
      BY <1>9, <1>15, PowSmall
    <2>2. m = y % 32768
      BY <1>10, <2>1
    <2>3. m % 128 = 0
      BY <1>5, <2>2
    <2>4. PICK b2 : b2 = m \div 128
      OBVIOUS
    <2>5. PICK pre2 : pre2 = Append(pre1, b2)
      OBVIOUS
    <2>6. /\ b2 \in Nat /\ pre2 \in Seq(Nat) /\ Len(pre2) = Len(pre1) + 1
          /\ Total(pre2, 7, 0) = Total(pre1, 15, m)
      <3>1. PICK a : a = 7 /\ a \in Nat /\ a + 8 = 15 /\ Pow(a) = 128
        BY <2>1
      <3>2. PICK l : l = m % 128
        OBVIOUS
      <3>3. Splitting(a, m, b2, l)
        BY <1>12, <2>4, <3>1, <3>2 DEF Splitting
      <3>4. BytePushed(pre1, a, m, pre2, b2, l)
        BY <1>12, <2>5, <3>3, BytePushes
      <3> QED BY <2>3, <3>1, <3>2, <3>4 DEF BytePushed
    <2>7. Terminated(e) = pre2
      <3>1. Terminated(e) = e.precarry \o <<y \div 2^c>> \o <<(y % 2^c) \div 2^(c - 8)>>
        <4>1. IsEnd(e, y)
          BY <1>4, <1>5 DEF IsEnd
        <4>2. TwoLast(e, c)
          BY <1>13, <1>15
        <4>3. EndsWithTwo(e, c, y)
          BY <4>1, <4>2, TerminatedAs
        <4> QED BY <4>3 DEF EndsWithTwo
      <3>2. y \div 2^c = b /\ y % 2^c = m
        BY <1>9, <1>10, Zenon
      <3>3. 2^(c - 8) = 128
        <4>1. c - 8 = 7 /\ 2^7 = 128
          BY <1>15
        <4> QED BY <4>1
      <3>4. pre \o <<b>> \o <<b2>> = pre2
        BY <1>11, <1>12, <2>5, <2>6, SMTT(60)
      <3> QED BY <1>6, <2>4, <3>1, <3>2, <3>3, <3>4
    <2>8. Number(pre2, Len(pre2)) * Pow(7) = Total(pre, c + 8, y)
      <3>1. 7 \in Nat
        OBVIOUS
      <3>2. Number(pre2, Len(pre2)) * Pow(7) = Total(pre2, 7, 0)
        BY <2>6, <3>1, TotalOfBytes
      <3> QED BY <1>12, <1>15, <2>6, <3>2
    <2>9. 7 + 8 * Len(pre2) = Shifts(e) + 15 /\ 1 <= Len(pre2)
      <3>1. Len(pre2) = k + 2
        BY <1>12, <2>6
      <3> QED BY <1>8, <1>15, <3>1
    <2>10. Ends(e, pre2, 7)
      BY <1>7, <2>6, <2>8, <2>9 DEF Ends
    <2> QED BY <2>7, <2>10
  <1>16. c <= 14 \/ c = 15
    BY <1>4
  <1> QED BY <1>14, <1>15, <1>16

-----------------------------------------------------------------------------
(* ... and so in every range before it *)

\* The range of e lies in its first Shifts(e) + 15 bits.
FitsUnit(e) ==
  /\ Exact(e) \in Nat /\ e.rng \in Nat /\ Shifts(e) \in Nat
  /\ Exact(e) + e.rng <= Pow(Shifts(e) + 15)

\* store keeps it there.
LEMMA StepFits ==
  ASSUME NEW e, FitsUnit(e), NEW l, NEW r, TakesPart(e, l, r), NEW d \in Nat,
         NEW y, StoreGives(y, e, l, r, d)
  PROVE  FitsUnit(y)
PROOF
  <1>1. PICK a \in Nat, g \in Nat, t \in Nat, i \in Nat, j \in Nat :
          a = Exact(e) /\ g = e.rng /\ t = Shifts(e) /\ i = l /\ j = r
    BY DEF FitsUnit, TakesPart
  <1>2. PICK p \in Nat, q \in Nat : p = Pow(d) /\ q = Pow(t + 15) /\ p > 0
    <2>1. t + 15 \in Nat
      OBVIOUS
    <2> QED BY <2>1, PowNat
  <1>3. a + g <= q /\ i + j <= g
    BY <1>1, <1>2 DEF FitsUnit, TakesPart
  <1>4. /\ Exact(y) = (a + i) * p /\ y.rng = j * p /\ Shifts(y) = t + d
    BY <1>1, <1>2 DEF StoreGives
  <1>5. (a + i) * p \in Nat /\ j * p \in Nat /\ (a + i) * p + j * p = ((a + i) + j) * p
    OBVIOUS
  <1>6. ((a + i) + j) * p <= q * p
    <2>1. (a + i) + j <= q /\ (a + i) + j \in Int
      BY <1>3
    <2> QED BY <1>2, <2>1, ProductOrder
  <1>7. Pow((t + d) + 15) = q * p
    <2>1. t + 15 \in Nat /\ (t + 15) + d = (t + d) + 15
      OBVIOUS
    <2>2. Pow((t + 15) + d) = Pow(t + 15) * Pow(d)
      BY <2>1, PowAdd
    <2> QED BY <1>2, <2>1, <2>2
  <1>8. t + d \in Nat
    OBVIOUS
  <1>9. (a + i) * p + j * p <= Pow((t + d) + 15)
    BY <1>5, <1>6, <1>7
  <1> QED BY <1>4, <1>5, <1>8, <1>9 DEF FitsUnit

\* The number x, in units of t shifts, is in the part l, r of the range of e.
NamesPart(e, l, r, x, t) ==
  \E g \in Nat : /\ g + Shifts(e) = t
                 /\ (Exact(e) + l) * Pow(g) <= x
                 /\ x < ((Exact(e) + l) + r) * Pow(g)
Names(e, x, t) == NamesPart(e, 0, e.rng, x, t)

\* What is in the range after a symbol is in the part of that symbol.
LEMMA NamedBefore ==
  ASSUME NEW e, FitsUnit(e), NEW l, NEW r, TakesPart(e, l, r), NEW d \in Nat,
         NEW y, StoreGives(y, e, l, r, d), NEW x \in Nat, NEW t, Names(y, x, t)
  PROVE  NamesPart(e, l, r, x, t)
PROOF
  <1>1. PICK a \in Nat, u \in Nat, i \in Nat, j \in Nat :
          a = Exact(e) /\ u = Shifts(e) /\ i = l /\ j = r
    BY DEF FitsUnit, TakesPart
  <1>2. PICK p \in Nat : p = Pow(d)
    BY PowNat
  <1>3. Exact(y) = (a + i) * p /\ y.rng = j * p /\ Shifts(y) = u + d
    BY <1>1, <1>2 DEF StoreGives
  <1>4. PICK g \in Nat : /\ g + Shifts(y) = t /\ (Exact(y) + 0) * Pow(g) <= x
                         /\ x < ((Exact(y) + 0) + y.rng) * Pow(g)
    BY DEF Names, NamesPart
  <1>5. PICK q \in Nat : q = Pow(g)
    BY PowNat
  <1>6. Pow(g + d) = q * p /\ g + d \in Nat
    BY <1>2, <1>5, PowAdd
  <1>7. ((a + i) * p + 0) * q = (a + i) * (q * p)
    OBVIOUS
  <1>8. (((a + i) * p + 0) + j * p) * q = ((a + i) + j) * (q * p)
    OBVIOUS
  <1>9. (a + i) * Pow(g + d) <= x /\ x < ((a + i) + j) * Pow(g + d)
    BY <1>3, <1>4, <1>5, <1>6, <1>7, <1>8
  <1>10. (g + d) + u = t
    BY <1>3, <1>4
  <1> QED BY <1>1, <1>6, <1>9, <1>10 DEF NamesPart

\* What is in a part is in the range.
LEMMA PartNamed ==
  ASSUME NEW e, FitsUnit(e), NEW l, NEW r, TakesPart(e, l, r), NEW x \in Nat, NEW t,
         NamesPart(e, l, r, x, t)
  PROVE  Names(e, x, t)
PROOF
  <1>1. PICK a \in Nat, u \in Nat, i \in Nat, j \in Nat, h \in Nat :
          a = Exact(e) /\ u = Shifts(e) /\ i = l /\ j = r /\ h = e.rng /\ i + j <= h
    BY DEF FitsUnit, TakesPart
  <1>2. PICK g \in Nat : /\ g + u = t /\ (a + i) * Pow(g) <= x /\ x < ((a + i) + j) * Pow(g)
    BY <1>1 DEF NamesPart
  <1>3. PICK q \in Nat : q = Pow(g) /\ q > 0
    BY PowNat
  <1>4. (a + 0) * q <= (a + i) * q /\ ((a + i) + j) * q <= ((a + 0) + h) * q
    <2>1. a + 0 <= a + i /\ (a + i) + j <= (a + 0) + h
      BY <1>1
    <2>2. a + 0 \in Int /\ a + i \in Int /\ (a + i) + j \in Int /\ (a + 0) + h \in Int
      OBVIOUS
    <2> QED BY <1>3, <2>1, <2>2, ProductOrder
  <1>5. (a + 0) * q <= x /\ x < ((a + 0) + h) * q
    <2>1. /\ (a + 0) * q \in Int /\ (a + i) * q \in Int /\ ((a + i) + j) * q \in Int
          /\ ((a + 0) + h) * q \in Int
      OBVIOUS
    <2>2. (a + i) * q <= x /\ x < ((a + i) + j) * q
      BY <1>2, <1>3
    <2> QED BY <1>4, <2>1, <2>2
  <1> QED BY <1>1, <1>2, <1>3, <1>5 DEF Names, NamesPart

\* The ranges of the Encoder fit.
LEMMA AllFit ==
  ASSUME NEW s \in Seq(CodedPairs)
  PROVE  \A n \in 0 .. Len(s) : FitsUnit(EncoderAt(s, n))
PROOF
  <1>1. PICK N \in Nat : N = Len(s)
    OBVIOUS
  <1> DEFINE S == {n \in 0 .. N : FitsUnit(EncoderAt(s, n))}
  <1>2. 0 \in S
    <2>1. EncoderAt(s, 0) = NewEncoder /\ Exact(NewEncoder) = 0 /\ Shifts(NewEncoder) = 0
      BY AllCoded, NewSound
    <2>2. NewEncoder.rng = 32768
      BY DEF NewEncoder
    <2>3. Pow(0 + 15) = 32768
      BY PowSmall
    <2>4. FitsUnit(NewEncoder)
      BY <2>1, <2>2, <2>3 DEF FitsUnit
    <2>5. 0 \in 0 .. N
      BY <1>1
    <2> QED BY <2>1, <2>4, <2>5
  <1>3. ASSUME NEW n \in 0 .. N - 1, n \in S PROVE n + 1 \in S
    <2>1. n + 1 \in 0 .. N /\ n \in 0 .. N /\ n \in 0 .. Len(s) - 1
      BY <1>1
    <2>2. FitsUnit(EncoderAt(s, n)) /\ EncoderSound(EncoderAt(s, n))
      BY <1>1, <1>3, <2>1, AllCoded
    <2>3. PICK l, r, d : NextToken(s, n, l, r, d)
      BY <2>1, <2>2, NextCoded
    <2>4. /\ TakesPart(EncoderAt(s, n), l, r) /\ d \in Nat
          /\ StoreGives(EncoderAt(s, n + 1), EncoderAt(s, n), l, r, d)
      BY <2>3 DEF NextToken, CodesAs, IsShift
    <2>5. FitsUnit(EncoderAt(s, n + 1))
      BY <2>2, <2>4, StepFits
    <2> QED BY <2>1, <2>5
  <1> HIDE DEF S
  <1>4. \A n \in 0 .. N : n \in S
    BY <1>1, <1>2, <1>3, InductionUpTo
  <1> QED BY <1>1, <1>4 DEF S

\* How the symbol after the first n is coded, with x in its part.
NextNamed(s, n, x, t) ==
  \E l, r, d : NextToken(s, n, l, r, d) /\ NamesPart(EncoderAt(s, n), l, r, x, t)

\* What is in the last range is in the part of every symbol.
LEMMA AllNamed ==
  ASSUME NEW s \in Seq(CodedPairs), NEW x \in Nat, NEW t, Names(Encoded(s), x, t)
  PROVE  \A n \in 0 .. Len(s) - 1 : NextNamed(s, n, x, t)
PROOF
  <1>1. PICK N \in Nat : N = Len(s)
    OBVIOUS
  <1>2. ASSUME NEW n \in 0 .. N - 1, Names(EncoderAt(s, n + 1), x, t)
        PROVE  NextNamed(s, n, x, t) /\ Names(EncoderAt(s, n), x, t)
    <2>1. n + 1 \in 0 .. N /\ n \in 0 .. N /\ n \in 0 .. Len(s) - 1
      BY <1>1
    <2>2. FitsUnit(EncoderAt(s, n)) /\ EncoderSound(EncoderAt(s, n))
      BY <1>1, <2>1, AllCoded, AllFit
    <2>3. PICK l, r, d : NextToken(s, n, l, r, d)
      BY <2>1, <2>2, NextCoded
    <2>4. /\ TakesPart(EncoderAt(s, n), l, r) /\ d \in Nat
          /\ StoreGives(EncoderAt(s, n + 1), EncoderAt(s, n), l, r, d)
      BY <2>3 DEF NextToken, CodesAs, IsShift
    <2>5. NamesPart(EncoderAt(s, n), l, r, x, t)
      BY <1>2, <2>2, <2>4, NamedBefore
    <2>6. Names(EncoderAt(s, n), x, t)
      BY <2>2, <2>4, <2>5, PartNamed
    <2> QED BY <2>3, <2>5, <2>6 DEF NextNamed
  <1> DEFINE S == {k \in 0 .. N : Names(EncoderAt(s, N - k), x, t)}
  <1>3. 0 \in S
    <2>1. 0 \in 0 .. N /\ N - 0 = N
      BY <1>1
    <2>2. EncoderAt(s, N) = Encoded(s)
      BY <1>1, AllCoded
    <2> QED BY <2>1, <2>2
  <1>4. ASSUME NEW k \in 0 .. N - 1, k \in S PROVE k + 1 \in S
    <2>1. PICK n : n = N - (k + 1)
      OBVIOUS
    <2>2. k + 1 \in 0 .. N /\ n \in 0 .. N - 1 /\ n + 1 = N - k
      BY <2>1
    <2>3. Names(EncoderAt(s, n), x, t)
      BY <1>2, <1>4, <2>2
    <2> QED BY <2>1, <2>2, <2>3
  <1> HIDE DEF S
  <1>5. \A k \in 0 .. N : k \in S
    BY <1>1, <1>3, <1>4, InductionUpTo
  <1>6. ASSUME NEW n \in 0 .. N - 1 PROVE Names(EncoderAt(s, n + 1), x, t)
    <2>1. PICK k : k = N - (n + 1)
      OBVIOUS
    <2>2. k \in 0 .. N /\ N - k = n + 1
      BY <2>1
    <2> QED BY <1>5, <2>2 DEF S
  <1> QED BY <1>1, <1>2, <1>6

-----------------------------------------------------------------------------
(* ... and keep it when their carries are resolved *)

\* The carries of the bytes pre, from the last to the first.
IsCarry(c, pre) ==
  c = [i \in 1 .. Len(pre) + 1 |->
         IF i > Len(pre) THEN 0 ELSE (pre[i] + c[i + 1]) \div 256]
Carries(pre) == CHOOSE c : IsCarry(c, pre)

\* The bytes with their carries.
Carried(pre, c) == [i \in DOMAIN pre |-> (pre[i] + c[i + 1]) % 256]

\* done resolves the carries.
LEMMA DoneCarries ==
  ASSUME NEW e
  PROVE  done(e) = Carried(Terminated(e), Carries(Terminated(e)))
PROOF
  BY DEF done, Carried, Carries, IsCarry

\* There are carries.
LEMMA CarryExists ==
  ASSUME NEW pre \in Seq(Nat)
  PROVE  \E c : IsCarry(c, pre)
PROOF
  <1>1. PICK n \in Nat : n = Len(pre)
    OBVIOUS
  <1> DEFINE F == [p \in (1 .. n) \X Nat |-> (pre[(n + 1) - p[1]] + p[2]) \div 256]
  <1>2. F \in [(1 .. n) \X Nat -> Nat]
    <2>1. ASSUME NEW p \in (1 .. n) \X Nat PROVE (pre[(n + 1) - p[1]] + p[2]) \div 256 \in Nat
      <3>1. p[1] \in 1 .. n /\ p[2] \in Nat
        OBVIOUS
      <3>2. (n + 1) - p[1] \in 1 .. Len(pre)
        BY <1>1, <3>1
      <3>3. PICK b \in Nat, v \in Nat : b = pre[(n + 1) - p[1]] /\ v = p[2]
        BY <3>1, <3>2
      <3>4. (b + v) \div 256 \in Nat
        OBVIOUS
      <3> QED BY <3>3, <3>4
    <2> QED BY <2>1
  <1>3. \A k \in 1 .. n, v \in Nat : F[<<k, v>>] = (pre[(n + 1) - k] + v) \div 256
    OBVIOUS
  <1> HIDE DEF F
  <1>4. PICK h \in [0 .. n -> Nat] : StepsBy(h, n, 0, F)
    <2>1. 0 \in Nat
      OBVIOUS
    <2> QED BY <1>2, <2>1, RecursionUpTo
  <1>5. h[0] = 0 /\ \A k \in 1 .. n : h[k] = (pre[(n + 1) - k] + h[k - 1]) \div 256
    <2>1. ASSUME NEW k \in 1 .. n PROVE h[k] = (pre[(n + 1) - k] + h[k - 1]) \div 256
      <3>1. k - 1 \in 0 .. n
        OBVIOUS
      <3>2. h[k - 1] \in Nat /\ h[k] = F[<<k, h[k - 1]>>]
        BY <1>4, <3>1 DEF StepsBy
      <3> QED BY <1>3, <3>2
    <2>2. h[0] = 0
      BY <1>4 DEF StepsBy
    <2> QED BY <2>1, <2>2
  <1>6. PICK c : c = [i \in 1 .. n + 1 |-> h[(n + 1) - i]]
    OBVIOUS
  <1>7. ASSUME NEW i \in 1 .. n + 1
        PROVE  c[i] = IF i > n THEN 0 ELSE (pre[i] + c[i + 1]) \div 256
    <2>1. CASE i > n
      <3>1. i = n + 1 /\ (n + 1) - i = 0
        BY <2>1
      <3> QED BY <1>5, <1>6, <2>1, <3>1
    <2>2. CASE ~(i > n)
      <3>1. PICK k \in 1 .. n : k = (n + 1) - i
        <4>1. (n + 1) - i \in 1 .. n
          BY <2>2
        <4> QED BY <4>1
      <3>2. i + 1 \in 1 .. n + 1 /\ (n + 1) - (i + 1) = k - 1 /\ (n + 1) - k = i
        BY <2>2, <3>1
      <3>3. c[i] = h[k] /\ c[i + 1] = h[k - 1]
        BY <1>6, <3>1, <3>2
      <3>4. h[k] = (pre[i] + h[k - 1]) \div 256
        BY <1>5, <3>2
      <3> QED BY <2>2, <3>3, <3>4
    <2> QED BY <2>1, <2>2
  <1>8. c = [i \in 1 .. n + 1 |-> IF i > n THEN 0 ELSE (pre[i] + c[i + 1]) \div 256]
    <2>1. c = [i \in 1 .. n + 1 |-> c[i]]
      BY <1>6
    <2> QED BY <1>7, <2>1
  <1> QED BY <1>1, <1>8, SMTT(60) DEF IsCarry

\* A carry is a number; the last one is 0.
LEMMA CarryFacts ==
  ASSUME NEW pre \in Seq(Nat), NEW c, IsCarry(c, pre)
  PROVE  /\ \A i \in 1 .. Len(pre) + 1 : c[i] \in Nat
         /\ c[Len(pre) + 1] = 0
         /\ \A i \in 1 .. Len(pre) : c[i] = (pre[i] + c[i + 1]) \div 256
PROOF
  <1>1. PICK n \in Nat : n = Len(pre)
    OBVIOUS
  <1>2. \A i \in 1 .. n + 1 : c[i] = IF i > n THEN 0 ELSE (pre[i] + c[i + 1]) \div 256
    BY <1>1 DEF IsCarry
  <1>3. c[n + 1] = 0
    <2>1. n + 1 \in 1 .. n + 1 /\ n + 1 > n
      OBVIOUS
    <2> QED BY <1>2, <2>1
  <1>4. \A i \in 1 .. n : c[i] = (pre[i] + c[i + 1]) \div 256
    <2>1. \A i \in 1 .. n : i \in 1 .. n + 1 /\ ~(i > n)
      OBVIOUS
    <2> QED BY <1>2, <2>1
  <1> DEFINE S == {k \in 0 .. n : c[(n + 1) - k] \in Nat}
  <1>5. 0 \in S
    <2>1. 0 \in 0 .. n /\ (n + 1) - 0 = n + 1
      OBVIOUS
    <2> QED BY <1>3, <2>1
  <1>6. ASSUME NEW k \in 0 .. n - 1, k \in S PROVE k + 1 \in S
    <2>1. PICK i \in 1 .. n : i = (n + 1) - (k + 1) /\ i + 1 = (n + 1) - k
      <3>1. (n + 1) - (k + 1) \in 1 .. n /\ ((n + 1) - (k + 1)) + 1 = (n + 1) - k
        OBVIOUS
      <3> QED BY <3>1
    <2>2. PICK v \in Nat, b \in Nat : v = c[i + 1] /\ b = pre[i]
      <3>1. c[i + 1] \in Nat /\ pre[i] \in Nat
        BY <1>1, <1>6, <2>1
      <3> QED BY <3>1
    <2>3. (b + v) \div 256 \in Nat
      OBVIOUS
    <2>4. c[i] \in Nat
      BY <1>4, <2>2, <2>3
    <2>5. k + 1 \in 0 .. n
      OBVIOUS
    <2> QED BY <2>1, <2>4, <2>5
  <1> HIDE DEF S
  <1>7. \A k \in 0 .. n : k \in S
    BY <1>5, <1>6, InductionUpTo
  <1>8. ASSUME NEW i \in 1 .. n + 1 PROVE c[i] \in Nat
    <2>1. PICK k \in 0 .. n : k = (n + 1) - i /\ (n + 1) - k = i
      <3>1. (n + 1) - i \in 0 .. n /\ (n + 1) - ((n + 1) - i) = i
        OBVIOUS
      <3> QED BY <3>1
    <2>2. k \in S
      BY <1>7
    <2> QED BY <2>1, <2>2 DEF S
  <1> QED BY <1>1, <1>3, <1>4, <1>8

\* The bytes are a sequence of numbers below 256.
LEMMA CarriedBytes ==
  ASSUME NEW pre \in Seq(Nat), NEW c, IsCarry(c, pre)
  PROVE  /\ Carried(pre, c) \in Seq(Nat) /\ Len(Carried(pre, c)) = Len(pre)
         /\ \A i \in 1 .. Len(pre) : /\ Carried(pre, c)[i] \in Nat /\ Carried(pre, c)[i] < 256
                                     /\ pre[i] + c[i + 1] = 256 * c[i] + Carried(pre, c)[i]
PROOF
  <1>1. PICK n \in Nat : n = Len(pre) /\ DOMAIN pre = 1 .. n
    OBVIOUS
  <1>2. PICK b : b = Carried(pre, c) /\ b = [i \in 1 .. n |-> (pre[i] + c[i + 1]) % 256]
    BY <1>1 DEF Carried
  <1>3. ASSUME NEW i \in 1 .. n
        PROVE  b[i] \in Nat /\ b[i] < 256 /\ pre[i] + c[i + 1] = 256 * c[i] + b[i]
    <2>1. i \in 1 .. n + 1 /\ i + 1 \in 1 .. n + 1
      OBVIOUS
    <2>2. PICK v \in Nat, w \in Nat, a \in Nat : v = c[i] /\ w = c[i + 1] /\ a = pre[i]
      <3>1. c[i] \in Nat /\ c[i + 1] \in Nat /\ pre[i] \in Nat
        BY <1>1, <2>1, CarryFacts
      <3> QED BY <3>1
    <2>3. v = (a + w) \div 256
      <3>1. \A j \in 1 .. Len(pre) : c[j] = (pre[j] + c[j + 1]) \div 256
        BY CarryFacts
      <3>2. \A j \in 1 .. n : c[j] = (pre[j] + c[j + 1]) \div 256
        BY <1>1, <3>1
      <3>3. c[i] = (pre[i] + c[i + 1]) \div 256
        BY <3>2
      <3> QED BY <2>2, <3>3
    <2>4. b[i] = (a + w) % 256
      BY <1>2, <2>2
    <2>5. /\ (a + w) % 256 \in Nat /\ (a + w) % 256 < 256
          /\ a + w = 256 * ((a + w) \div 256) + ((a + w) % 256)
      OBVIOUS
    <2> QED BY <2>2, <2>3, <2>4, <2>5
  <1>4. b \in Seq(Nat) /\ Len(b) = n
    BY <1>2, <1>3
  <1> QED BY <1>1, <1>2, <1>3, <1>4

\* One more byte.
LEMMA PowByte ==
  ASSUME NEW k \in Nat
  PROVE  Pow(8 * k) \in Nat /\ Pow(8 * (k + 1)) = 256 * Pow(8 * k)
PROOF
  <1>1. PICK m \in Nat, a \in Nat : m = 8 * k /\ 8 * (k + 1) = m + a /\ a = 8
    OBVIOUS
  <1>2. Pow(m + a) = Pow(m) * Pow(a) /\ Pow(m) \in Nat
    BY PowAdd, PowNat
  <1>3. Pow(a) = 256
    BY <1>1, PowSmall
  <1>4. PICK p \in Nat : p = Pow(m)
    BY <1>2
  <1>5. Pow(m + a) = 256 * p
    BY <1>2, <1>3, <1>4
  <1> QED BY <1>1, <1>4, <1>5

\* A carry out of the first byte is all that could be lost.
LEMMA CarryLost ==
  ASSUME NEW pre \in Seq(Nat), NEW c, IsCarry(c, pre), NEW b, b = Carried(pre, c)
  PROVE  Number(pre, Len(pre)) = Number(b, Len(pre)) + c[1] * Pow(8 * Len(pre))
PROOF
  <1>1. PICK n \in Nat : n = Len(pre)
    OBVIOUS
  <1>2. /\ \A i \in 1 .. n + 1 : c[i] \in Nat
        /\ \A i \in 1 .. n : pre[i] \in Nat /\ b[i] \in Nat /\ pre[i] + c[i + 1] = 256 * c[i] + b[i]
    BY <1>1, CarryFacts, CarriedBytes
  <1>3. PICK z \in Nat : z = c[1]
    <2>1. 1 \in 1 .. n + 1
      OBVIOUS
    <2> QED BY <1>2, <2>1
  <1> DEFINE Kept(k) == Number(pre, k) + c[k + 1] = Number(b, k) + z * Pow(8 * k)
             S == {k \in 0 .. n : Kept(k)}
  <1>4. 0 \in S
    <2>1. Number(pre, 0) = 0 /\ Number(b, 0) = 0 /\ Pow(8 * 0) = 1
      <3>1. 8 * 0 = 0
        OBVIOUS
      <3> QED BY <3>1, ValueZero, PowStep
    <2>2. 0 \in 0 .. n /\ c[0 + 1] = z
      BY <1>3
    <2> QED BY <2>1, <2>2
  <1>5. ASSUME NEW k \in 0 .. n - 1, k \in S PROVE k + 1 \in S
    <2>1. k \in Nat /\ k + 1 \in 0 .. n /\ k + 1 \in 1 .. n
      OBVIOUS
    <2>2. PICK u \in Nat, v \in Nat, x \in Nat, y \in Nat :
            /\ u = Number(pre, k) /\ v = Number(b, k)
            /\ x = pre[k + 1] /\ y = b[k + 1]
            /\ Number(pre, k + 1) = 256 * u + x /\ Number(b, k + 1) = 256 * v + y
      <3>1. \A i \in 1 .. k + 1 : pre[i] \in Nat /\ b[i] \in Nat
        BY <1>2
      <3>2. /\ Number(pre, k) \in Nat /\ Number(pre, k + 1) = 256 * Number(pre, k) + pre[k + 1]
            /\ Number(b, k) \in Nat /\ Number(b, k + 1) = 256 * Number(b, k) + b[k + 1]
        BY <2>1, <3>1, ValueStep, SMTT(60)
      <3>3. pre[k + 1] \in Nat /\ b[k + 1] \in Nat
        BY <1>2, <2>1
      <3> QED BY <3>2, <3>3, SMTT(60)
    <2>3. PICK i \in Nat, j \in Nat : i = c[k + 1] /\ j = c[(k + 1) + 1] /\ x + j = 256 * i + y
      <3>1. k + 1 \in 1 .. n + 1 /\ (k + 1) + 1 \in 1 .. n + 1
        OBVIOUS
      <3>2. c[k + 1] \in Nat /\ c[(k + 1) + 1] \in Nat
        BY <1>2, <3>1
      <3>3. x + c[(k + 1) + 1] = 256 * c[k + 1] + y
        BY <1>2, <2>1, <2>2
      <3> QED BY <3>2, <3>3
    <2>4. PICK p \in Nat : p = Pow(8 * k) /\ Pow(8 * (k + 1)) = 256 * p
      BY <2>1, PowByte
    <2>5. u + i = v + z * p
      BY <1>5, <2>2, <2>3, <2>4
    <2>6. (256 * u + x) + j = (256 * v + y) + z * (256 * p)
      <3>1. PICK w \in Nat : w = z * p /\ z * (256 * p) = 256 * w
        OBVIOUS
      <3>2. u + i = v + w
        BY <2>5, <3>1
      <3>3. (256 * u + x) + j = (256 * v + y) + 256 * w
        <4>1. x + j = 256 * i + y
          BY <2>3
        <4>2. 256 * (u + i) = 256 * (v + w)
          BY <3>2
        <4> QED BY <4>1, <4>2
      <3> QED BY <3>1, <3>3
    <2>7. Kept(k + 1)
      BY <2>2, <2>3, <2>4, <2>6
    <2> QED BY <2>1, <2>7
  <1> HIDE DEF S
  <1>6. \A k \in 0 .. n : k \in S
    BY <1>4, <1>5, InductionUpTo
  <1>7. n \in 0 .. n
    OBVIOUS
  <1>8. Kept(n)
    BY <1>6, <1>7 DEF S
  <1>9. c[n + 1] = 0
    BY <1>1, CarryFacts
  <1>10. Number(pre, n) \in Nat
    BY <1>2, ValueSame
  <1> HIDE DEF Kept
  <1>11. Number(pre, n) + 0 = Number(b, n) + z * Pow(8 * n)
    BY <1>8, <1>9 DEF Kept
  <1> QED BY <1>1, <1>3, <1>10, <1>11

\* A sequence of bytes.
Bytes(b) == b \in Seq(Nat) /\ \A i \in 1 .. Len(b) : b[i] < 256

\* done keeps the number of the bytes: no carry leaves the first byte.
LEMMA DoneFacts ==
  ASSUME NEW e, EncoderSound(e), FitsUnit(e)
  PROVE  Bytes(done(e)) /\ \E m : Ends(e, done(e), m)
PROOF
  <1>1. PICK pre : pre = Terminated(e)
    OBVIOUS
  <1>2. PICK m : Ends(e, pre, m)
    BY <1>1, TerminatedFacts
  <1>3. PICK n \in Nat : n = Len(pre) /\ pre \in Seq(Nat) /\ m \in Nat /\ 1 <= n
    BY <1>2 DEF Ends
  <1>4. PICK c : c = Carries(pre) /\ IsCarry(c, pre)
    BY <1>3, CarryExists DEF Carries
  <1>5. PICK b : b = done(e) /\ b = Carried(pre, c)
    BY <1>1, <1>4, DoneCarries
  <1>6. b \in Seq(Nat) /\ Len(b) = n /\ \A i \in 1 .. n : b[i] \in Nat /\ b[i] < 256
    BY <1>3, <1>4, <1>5, CarriedBytes
  <1>7. PICK v \in Nat, w \in Nat, z \in Nat, q \in Nat, p \in Nat :
          /\ v = Number(pre, n) /\ w = Number(b, n) /\ z = c[1] /\ q = Pow(8 * n) /\ p = Pow(m)
          /\ p > 0 /\ q > 0
    <2>1. Number(pre, n) \in Nat /\ Number(b, n) \in Nat
      <3>1. \A i \in 1 .. n : pre[i] \in Nat /\ b[i] \in Nat
        BY <1>3, <1>6
      <3> QED BY <3>1, ValueSame
    <2>2. c[1] \in Nat
      <3>1. 1 \in 1 .. n + 1
        OBVIOUS
      <3> QED BY <1>3, <1>4, <3>1, CarryFacts
    <2>3. 8 * n \in Nat
      OBVIOUS
    <2> QED BY <1>3, <2>1, <2>2, <2>3, PowNat
  <1>8. v = w + z * q
    BY <1>3, <1>4, <1>5, <1>7, CarryLost
  <1>9. v < q
    <2>1. PICK a \in Nat, g \in Nat, t \in Nat :
            a = Exact(e) /\ g = e.rng /\ t = Shifts(e) /\ a + g <= Pow(t + 15)
      BY DEF FitsUnit
    <2>2. v * p < a + g /\ m + 8 * n = t + 15
      BY <1>2, <1>3, <1>7, <2>1 DEF Ends
    <2>3. Pow(t + 15) = q * p
      <3>1. 8 * n \in Nat /\ 8 * n + m = t + 15
        BY <1>3, <2>2
      <3>2. Pow(8 * n + m) = Pow(8 * n) * Pow(m)
        BY <1>3, <3>1, PowAdd
      <3> QED BY <1>7, <3>1, <3>2
    <2>4. v * p < q * p
      <3>1. v * p \in Nat /\ q * p \in Nat
        OBVIOUS
      <3> QED BY <2>1, <2>2, <2>3, <3>1
    <2> QED BY <1>7, <2>4, ProductOrder
  <1>10. z = 0
    <2>1. SUFFICES ASSUME 1 <= z PROVE FALSE
      OBVIOUS
    <2>2. 1 * q <= z * q
      BY <1>7, <2>1, ProductOrder
    <2>3. z * q \in Nat
      OBVIOUS
    <2> QED BY <1>8, <1>9, <2>2, <2>3
  <1>11. v = w
    BY <1>8, <1>10
  <1>12. Ends(e, b, m)
    BY <1>2, <1>3, <1>6, <1>7, <1>11 DEF Ends
  <1>13. Bytes(b)
    BY <1>6 DEF Bytes
  <1> QED BY <1>5, <1>12, <1>13

-----------------------------------------------------------------------------
(* The Reader's window *)

\* The first k bytes and the j that follow.
LEMMA PrefixValue ==
  ASSUME NEW b, Bytes(b), NEW k \in Nat, NEW m \in Nat, k + m <= Len(b)
  PROVE  /\ Number(b, k) \in Nat /\ Number(b, k + m) \in Nat
         /\ Number(b, k) * Pow(8 * m) <= Number(b, k + m)
         /\ Number(b, k + m) < (Number(b, k) + 1) * Pow(8 * m)
PROOF
  <1>1. PICK N \in Nat : N = Len(b) /\ \A i \in 1 .. N : b[i] \in Nat /\ b[i] < 256
    BY DEF Bytes
  <1>2. ASSUME NEW i \in Nat, i <= N PROVE Number(b, i) \in Nat
    <2>1. \A h \in 1 .. i : b[h] \in Nat /\ b[h] = b[h]
      BY <1>1, <1>2
    <2> QED BY <2>1, ValueSame
  <1>3. PICK a \in Nat : a = Number(b, k)
    BY <1>1, <1>2
  <1> DEFINE Below(j) == a * Pow(8 * j) <= Number(b, k + j) /\ Number(b, k + j) < (a + 1) * Pow(8 * j)
             S == {j \in 0 .. m : Below(j)}
  <1>4. 0 \in S
    <2>1. 0 \in 0 .. m /\ k + 0 = k /\ 8 * 0 = 0
      OBVIOUS
    <2>2. a * Pow(0) = a /\ (a + 1) * Pow(0) = a + 1
      <3>1. Pow(0) = 1
        BY PowSmall
      <3>2. a * 1 = a /\ (a + 1) * 1 = a + 1
        OBVIOUS
      <3> QED BY <3>1, <3>2
    <2>3. a <= a /\ a < a + 1
      OBVIOUS
    <2>4. Below(0)
      BY <1>3, <2>1, <2>2, <2>3
    <2> QED BY <2>1, <2>4
  <1>5. ASSUME NEW j \in 0 .. m - 1, j \in S PROVE j + 1 \in S
    <2>1. j \in Nat /\ j + 1 \in 0 .. m /\ k + j \in Nat /\ (k + j) + 1 = k + (j + 1) /\ (k + j) + 1 <= N
      BY <1>1
    <2>2. PICK v \in Nat, x \in Nat :
            v = Number(b, k + j) /\ x < 256 /\ Number(b, k + (j + 1)) = 256 * v + x
      <3>1. \A i \in 1 .. (k + j) + 1 : b[i] \in Nat
        BY <1>1, <2>1
      <3>2. Number(b, k + j) \in Nat /\ Number(b, (k + j) + 1) = 256 * Number(b, k + j) + b[(k + j) + 1]
        BY <2>1, <3>1, ValueStep
      <3>3. (k + j) + 1 \in 1 .. N
        BY <2>1
      <3> QED BY <1>1, <2>1, <3>2, <3>3, ZenonT(60)
    <2>3. PICK p \in Nat : p = Pow(8 * j) /\ Pow(8 * (j + 1)) = 256 * p
      BY <2>1, PowByte
    <2>4. a * p <= v /\ v < (a + 1) * p
      BY <1>5, <2>2, <2>3
    <2>5. PICK y \in Nat, w \in Nat : /\ y = a * p /\ w = (a + 1) * p
                                      /\ a * (256 * p) = 256 * y /\ (a + 1) * (256 * p) = 256 * w
      OBVIOUS
    <2>6. 256 * y <= 256 * v + x /\ 256 * v + x < 256 * w
      <3>1. y <= v /\ v < w
        BY <2>4, <2>5
      <3> QED BY <2>2, <3>1
    <2>7. Below(j + 1)
      BY <2>2, <2>3, <2>5, <2>6
    <2> QED BY <2>1, <2>7
  <1> HIDE DEF S
  <1>6. \A j \in 0 .. m : j \in S
    BY <1>4, <1>5, InductionUpTo
  <1>7. Below(m)
    <2>1. m \in 0 .. m
      OBVIOUS
    <2> QED BY <1>6, <2>1 DEF S
  <1>8. Number(b, k + m) \in Nat
    <2>1. k + m \in Nat
      OBVIOUS
    <2> QED BY <1>1, <1>2, <2>1
  <1> QED BY <1>3, <1>7, <1>8

\* The window of the Reader, beyond the 16 bits of the range.
Window(p, o) == WINDOW_SIZE = o + 16 /\ o \in Nat /\ p = Pow(o) /\ 2^(WINDOW_SIZE - 16) = p

\* The Reader's windows are powers of two that it computes.
LEMMA WindowFacts ==
  /\ WINDOW_SIZE - 16 \in Nat /\ WINDOW_SIZE - 24 \in Nat /\ WINDOW_SIZE <= 32
  /\ Window(Pow(WINDOW_SIZE - 16), WINDOW_SIZE - 16)
  /\ 2^(WINDOW_SIZE - 1) = 32768 * Pow(WINDOW_SIZE - 16)
PROOF
  <1>0. PICK w \in Nat : w = WINDOW_SIZE /\ 24 <= w /\ w <= 32
    BY WindowAssumption
  <1>1. PICK o \in Nat, u \in Nat : o = w - 16 /\ u = w - 1
    <2>1. w - 16 \in Nat /\ w - 1 \in Nat
      BY <1>0
    <2> QED BY <2>1
  <1>2. u \in 0 .. 31 /\ o \in 0 .. 31
    BY <1>0, <1>1
  <1>3. 2^u = Pow(u) /\ 2^o = Pow(o)
    BY <1>2, PowIs
  <1>8. PICK z : z = 32768
    OBVIOUS
  <1>4. Pow(u) = z * Pow(o)
    <2>1. PICK a \in Nat : a = 15 /\ u = a + o
      BY <1>1
    <2>2. Pow(a + o) = Pow(a) * Pow(o) /\ Pow(a) = 32768
      BY <2>1, PowAdd, PowSmall
    <2> QED BY <1>8, <2>1, <2>2
  <1>5. 2^(WINDOW_SIZE - 1) = 32768 * Pow(WINDOW_SIZE - 16)
    <2>1. WINDOW_SIZE - 1 = u /\ WINDOW_SIZE - 16 = o
      BY <1>0, <1>1
    <2>2. 2^u = z * Pow(o)
      BY <1>3, <1>4, Zenon
    <2>3. 2^(WINDOW_SIZE - 1) = z * Pow(WINDOW_SIZE - 16)
      BY <2>1, <2>2, Zenon
    <2> QED BY <1>8, <2>3
  <1>6. Window(Pow(WINDOW_SIZE - 16), WINDOW_SIZE - 16)
    <2>1. WINDOW_SIZE - 16 = o /\ WINDOW_SIZE = o + 16
      BY <1>0, <1>1
    <2> QED BY <1>3, <2>1, Zenon DEF Window
  <1>7. WINDOW_SIZE - 24 \in Nat /\ WINDOW_SIZE <= 32 /\ WINDOW_SIZE - 16 \in Nat
    BY <1>0
  <1> QED BY <1>5, <1>6, <1>7

\* The bytes that refill moves, one by one: x is the window after each of n.
IsMoved(x, b, k, s, y, n) ==
  x = [i \in 0 .. n |->
         IF i = 0 THEN y ELSE x[i - 1] - b[(k + 1) + i - 1] * 2^(s - 8 * (i - 1))]
Moved(b, k, s, y, n) == CHOOSE x : IsMoved(x, b, k, s, y, n)

\* The bytes can be moved; u is the bits of the window above the first.
LEMMA MovedExists ==
  ASSUME NEW b, Bytes(b), NEW k \in Nat, NEW s \in Int, NEW y \in Int, NEW n \in Nat,
         k + n <= Len(b), s <= 31, 8 * n <= s + 8
  PROVE  \E x : IsMoved(x, b, k, s, y, n)
PROOF
  <1> DEFINE F == [p \in (1 .. n) \X Int |->
                     p[2] - b[(k + 1) + p[1] - 1] * 2^(s - 8 * (p[1] - 1))]
  <1>1. F \in [(1 .. n) \X Int -> Int]
    <2>1. ASSUME NEW p \in (1 .. n) \X Int
          PROVE  p[2] - b[(k + 1) + p[1] - 1] * 2^(s - 8 * (p[1] - 1)) \in Int
      <3>1. PICK i \in 1 .. n, v \in Int : i = p[1] /\ v = p[2]
        OBVIOUS
      <3>2. PICK h \in Nat : h = b[(k + 1) + i - 1]
        <4>1. (k + 1) + i - 1 \in 1 .. Len(b) /\ b \in Seq(Nat)
          BY DEF Bytes
        <4> QED BY <4>1
      <3>3. PICK a \in 0 .. 31 : a = s - 8 * (i - 1)
        <4>1. s - 8 * (i - 1) \in 0 .. 31
          OBVIOUS
        <4> QED BY <4>1
      <3>4. 2^a \in Nat
        <4>1. a \in Nat
          OBVIOUS
        <4> QED BY <4>1, PowIs, PowNat
      <3>5. PICK w \in Nat : w = 2^a
        BY <3>4
      <3>6. v - h * w \in Int
        OBVIOUS
      <3> QED BY <3>1, <3>2, <3>3, <3>5, <3>6
    <2> QED BY <2>1
  <1>2. \A i \in 1 .. n, v \in Int : F[<<i, v>>] = v - b[(k + 1) + i - 1] * 2^(s - 8 * (i - 1))
    OBVIOUS
  <1> HIDE DEF F
  <1>3. PICK x \in [0 .. n -> Int] : StepsBy(x, n, y, F)
    BY <1>1, RecursionUpTo
  <1>4. ASSUME NEW i \in 0 .. n
        PROVE  x[i] = IF i = 0 THEN y ELSE x[i - 1] - b[(k + 1) + i - 1] * 2^(s - 8 * (i - 1))
    <2>1. CASE i = 0
      BY <1>3, <2>1 DEF StepsBy
    <2>2. CASE i # 0
      <3>1. i \in 1 .. n /\ i - 1 \in 0 .. n
        BY <2>2
      <3>2. x[i] = F[<<i, x[i - 1]>>] /\ x[i - 1] \in Int
        BY <1>3, <3>1 DEF StepsBy
      <3> QED BY <1>2, <2>2, <3>1, <3>2
    <2> QED BY <2>1, <2>2
  <1>5. x = [i \in 0 .. n |-> x[i]]
    BY <1>3
  <1> QED BY <1>4, <1>5 DEF IsMoved

\* The window y has room for j bits of the bytes after the first k, z is what
\* it was when there were no bytes in it.
Holding(y, b, k, j, z) == y \in Int /\ y + 1 = z - Number(b, k) * Pow(j)

\* The window after one more byte.
LEMMA HoldsMore ==
  ASSUME NEW b, Bytes(b), NEW k \in Nat, k + 1 <= Len(b), NEW a \in Nat, NEW z \in Int,
         NEW y, Holding(y, b, k, a + 8, z)
  PROVE  Holding(y - b[k + 1] * Pow(a), b, k + 1, a, z)
PROOF
  <1>1. PICK v \in Nat, h \in Nat : v = Number(b, k) /\ h = b[k + 1] /\ Number(b, k + 1) = 256 * v + h
    <2>1. \A i \in 1 .. k + 1 : b[i] \in Nat
      BY DEF Bytes
    <2>2. Number(b, k) \in Nat /\ Number(b, k + 1) = 256 * Number(b, k) + b[k + 1]
      BY <2>1, ValueStep
    <2>3. k + 1 \in 1 .. k + 1
      OBVIOUS
    <2> QED BY <2>1, <2>2, <2>3
  <1>2. PICK p \in Nat : p = Pow(a) /\ Pow(a + 8) = 256 * p
    <2>1. PICK g \in Nat : g = 8 /\ a + g = a + 8
      OBVIOUS
    <2>2. Pow(a + g) = Pow(a) * Pow(g) /\ Pow(g) = 256 /\ Pow(a) \in Nat
      <3>1. Pow(8) = 256
        BY PowSmall
      <3>2. Pow(a + g) = Pow(a) * Pow(g)
        BY PowAdd
      <3>3. Pow(a) \in Nat
        BY PowNat
      <3> QED BY <2>1, <3>1, <3>2, <3>3
    <2>3. PICK q \in Nat : q = Pow(a)
      BY <2>2
    <2> QED BY <2>1, <2>2, <2>3
  <1>3. PICK x \in Int : x = y /\ x + 1 = z - v * (256 * p)
    BY <1>1, <1>2 DEF Holding
  <1>4. v * (256 * p) + h * p = (256 * v + h) * p
    OBVIOUS
  <1>5. PICK i \in Nat, j \in Nat : i = v * (256 * p) /\ j = h * p
    OBVIOUS
  <1>6. x - j \in Int /\ (x - j) + 1 = z - (i + j)
    BY <1>3, <1>5
  <1>7. x - h * p \in Int /\ (x - h * p) + 1 = z - (256 * v + h) * p
    BY <1>4, <1>5, <1>6
  <1> QED BY <1>1, <1>2, <1>3, <1>7 DEF Holding

\* The window after each of n bytes.
LEMMA MovedFacts ==
  ASSUME NEW b, Bytes(b), NEW k \in Nat, NEW s \in Int, s <= 31, NEW n \in Nat,
         k + n <= Len(b), 8 * n <= s + 8, NEW z \in Int,
         NEW y, Holding(y, b, k, s + 8, z), NEW x, IsMoved(x, b, k, s, y, n)
  PROVE  Holding(x[n], b, k + n, (s + 8) - 8 * n, z)
PROOF
  <1>1. \A i \in 0 .. n :
          x[i] = IF i = 0 THEN y ELSE x[i - 1] - b[(k + 1) + i - 1] * 2^(s - 8 * (i - 1))
    BY DEF IsMoved
  <1> DEFINE S == {i \in 0 .. n : Holding(x[i], b, k + i, (s + 8) - 8 * i, z)}
  <1>2. 0 \in S
    <2>1. 0 \in 0 .. n /\ k + 0 = k /\ (s + 8) - 8 * 0 = s + 8
      OBVIOUS
    <2>2. x[0] = y
      BY <1>1, <2>1
    <2> QED BY <2>1, <2>2
  <1>3. ASSUME NEW i \in 0 .. n - 1, i \in S PROVE i + 1 \in S
    <2>1. PICK a \in 0 .. 31, m \in Nat :
            /\ a = s - 8 * i /\ m = k + i /\ (s + 8) - 8 * i = a + 8
            /\ (s + 8) - 8 * (i + 1) = a /\ k + (i + 1) = m + 1 /\ m + 1 <= Len(b)
      <3>1. PICK a \in Int, m \in Nat : a = s - 8 * i /\ m = k + i
        OBVIOUS
      <3>2. i <= n - 1 /\ 8 * i <= 8 * (n - 1)
        OBVIOUS
      <3>3. 0 <= a /\ a <= 31
        BY <3>1, <3>2
      <3>4. Len(b) \in Nat
        BY DEF Bytes
      <3>5. /\ (s + 8) - 8 * i = a + 8 /\ (s + 8) - 8 * (i + 1) = a
            /\ k + (i + 1) = m + 1 /\ m + 1 <= Len(b)
        BY <3>1, <3>2, <3>4
      <3> QED BY <3>1, <3>3, <3>5
    <2>2. i + 1 \in 0 .. n
      OBVIOUS
    <2>3. x[i + 1] = x[i] - b[m + 1] * 2^a
      <3>1. /\ i + 1 # 0 /\ (i + 1) - 1 = i /\ (k + 1) + (i + 1) - 1 = m + 1
            /\ s - 8 * ((i + 1) - 1) = a
        BY <2>1
      <3> QED BY <1>1, <2>2, <3>1
    <2>4. Holding(x[i], b, m, a + 8, z)
      BY <1>3, <2>1
    <2>5. 2^a = Pow(a)
      BY PowIs
    <2>6. Holding(x[i] - b[m + 1] * Pow(a), b, m + 1, a, z)
      <3>1. a \in Nat
        OBVIOUS
      <3> QED BY <2>1, <2>4, <3>1, HoldsMore
    <2>7. x[i + 1] = x[i] - b[m + 1] * Pow(a)
      BY <2>3, <2>5
    <2>8. Holding(x[i + 1], b, m + 1, a, z)
      BY <2>6, <2>7, Zenon
    <2> QED BY <2>1, <2>2, <2>8
  <1> HIDE DEF S
  <1>4. \A i \in 0 .. n : i \in S
    BY <1>2, <1>3, InductionUpTo
  <1>5. n \in 0 .. n
    OBVIOUS
  <1> QED BY <1>4, <1>5 DEF S

\* A Reader of the bytes b that has moved k of them into its window.
ReaderOf(b, k, x, r, c) ==
  [buf |-> b, bptr |-> k + 1, dif |-> x, rng |-> r, cnt |-> c]

\* The bytes left, and those that are moved when s bits are free.
LeftIn(b, p) == Len(b) + 1 - p
Free(c) == WINDOW_SIZE - 9 - (c + 15)
Moving(s, left) ==
  IF (IF s < 0 THEN 0 ELSE s \div 8 + 1) < left
  THEN (IF s < 0 THEN 0 ELSE s \div 8 + 1) ELSE left
Moves(b, k, c, s, n) == s = Free(c) /\ n = Moving(s, LeftIn(b, k + 1))

\* The Reader with n more bytes in its window, which is then y.
Refilled(rd, y, n, left) ==
  [rd EXCEPT !.dif = y, !.bptr = @ + n, !.cnt = IF n = left THEN 16384 ELSE @ + 8 * n]

\* The window after n bytes of b, from p on.
IsMovedFrom(x, b, p, s, y, n) ==
  x = [i \in 0 .. n |-> IF i = 0 THEN y ELSE x[i - 1] - b[p + i - 1] * 2^(s - 8 * (i - 1))]
MovedFrom(b, p, s, y, n) == (CHOOSE x : IsMovedFrom(x, b, p, s, y, n))[n]

\* refill of a Reader
LEMMA RefillSteps ==
  ASSUME NEW rd
  PROVE  refill(rd) =
           Refilled(rd, MovedFrom(rd.buf, rd.bptr, Free(rd.cnt), rd.dif,
                                  Moving(Free(rd.cnt), LeftIn(rd.buf, rd.bptr))),
                    Moving(Free(rd.cnt), LeftIn(rd.buf, rd.bptr)), LeftIn(rd.buf, rd.bptr))
PROOF
  BY DEF refill, Refilled, MovedFrom, IsMovedFrom, Free, Moving, LeftIn

\* refill of the Reader of b
LEMMA RefillAs ==
  ASSUME NEW b, NEW k, NEW x, NEW r, NEW c, NEW s, NEW n, Moves(b, k, c, s, n)
  PROVE  refill(ReaderOf(b, k, x, r, c)) =
           Refilled(ReaderOf(b, k, x, r, c), Moved(b, k, s, x, n)[n], n, LeftIn(b, k + 1))
PROOF
  <1>1. PICK rd : rd = ReaderOf(b, k, x, r, c)
    OBVIOUS
  <1>2. rd.buf = b /\ rd.bptr = k + 1 /\ rd.dif = x /\ rd.cnt = c
    BY <1>1 DEF ReaderOf
  <1>3. refill(rd) = Refilled(rd, MovedFrom(b, k + 1, s, x, n), n, LeftIn(b, k + 1))
    BY <1>2, RefillSteps, Zenon DEF Moves
  <1>4. MovedFrom(b, k + 1, s, x, n) = Moved(b, k, s, x, n)[n]
    BY DEF MovedFrom, IsMovedFrom, Moved, IsMoved
  <1> QED BY <1>1, <1>3, <1>4, Zenon

\* The bytes that are moved fit, and leave no room for another one.
LEMMA MovesFit ==
  ASSUME NEW b, Bytes(b), NEW k \in Nat, k <= Len(b), NEW c \in Int, -15 <= c, c < 0
  PROVE  \E s \in Int, n \in Nat :
           /\ Moves(b, k, c, s, n)
           /\ s + c = WINDOW_SIZE - 24 /\ 0 <= s /\ s <= 31 /\ k + n <= Len(b) /\ 8 * n <= s + 8
           /\ n # Len(b) + 1 - (k + 1) => n < Len(b) - k /\ s + 1 <= 8 * n
PROOF
  <1>1. PICK w \in Int, N \in Nat : w = WINDOW_SIZE /\ 24 <= w /\ w <= 32 /\ N = Len(b)
    <2>1. WINDOW_SIZE \in Int /\ 24 <= WINDOW_SIZE /\ WINDOW_SIZE <= 32
      BY WindowAssumption
    <2>2. Len(b) \in Nat
      BY DEF Bytes
    <2> QED BY <2>1, <2>2
  <1>2. PICK s \in Int : s = w - 9 - (c + 15) /\ s + c = w - 24 /\ 0 <= s /\ s <= 31
    <2>1. w - 9 - (c + 15) \in Int
      OBVIOUS
    <2>2. PICK s \in Int : s = w - 9 - (c + 15)
      BY <2>1
    <2>3. s + c = w - 24 /\ 0 <= s /\ s <= 31
      BY <1>1, <2>2
    <2> QED BY <2>2, <2>3
  <1>3. PICK v \in Nat : v = s \div 8 + 1 /\ s + 1 <= 8 * v /\ 8 * v <= s + 8
    <2>1. /\ s \div 8 + 1 \in Nat /\ s + 1 <= 8 * (s \div 8 + 1)
          /\ 8 * (s \div 8 + 1) <= s + 8
      BY <1>2
    <2> QED BY <2>1
  <1>4. PICK m \in Nat : m = N + 1 - (k + 1) /\ k + m = N
    <2>1. N + 1 - (k + 1) \in Nat /\ k + (N + 1 - (k + 1)) = N
      BY <1>1
    <2> QED BY <2>1
  <1>5. PICK n \in Nat : n = IF v < m THEN v ELSE m
    OBVIOUS
  <1>6. Moves(b, k, c, s, n)
    BY <1>1, <1>2, <1>3, <1>4, <1>5 DEF Moves, Free, Moving, LeftIn
  <1>7. k + n <= N /\ 8 * n <= s + 8 /\ (n # m => n < N - k /\ s + 1 <= 8 * n)
    BY <1>3, <1>4, <1>5
  <1> QED BY <1>1, <1>2, <1>4, <1>6, <1>7

\* A Reader of the bytes b in step with an Encoder of low end a, range r and t
\* shifts: k bytes are in the window, j bits of it are below them.
ReaderOn(rd, b, a, r, t, k, j) ==
  \E x, c : /\ rd = ReaderOf(b, k, x, r, c)
            /\ k \in Nat /\ k <= Len(b) /\ j \in Nat /\ c \in Int /\ -15 <= c
            /\ j + 8 * k = (WINDOW_SIZE - 1) + t
            /\ k < Len(b) => c = (8 * k - 15) - t
            /\ Holding(x, b, k, j, (a + r) * Pow(WINDOW_SIZE - 16))

\* It has the bits for the next symbol.
ReaderReady(rd, b, a, r, t) ==
  \E k, j : ReaderOn(rd, b, a, r, t, k, j) /\ rd.cnt >= 0

\* refill gives it these bits.
LEMMA RefillReady ==
  ASSUME NEW rd, NEW b, Bytes(b), NEW a \in Nat, NEW r \in Nat, NEW t \in Nat, NEW k, NEW j,
         ReaderOn(rd, b, a, r, t, k, j), rd.cnt < 0
  PROVE  ReaderReady(refill(rd), b, a, r, t)
PROOF
  <1>1. PICK x, c :
          /\ rd = ReaderOf(b, k, x, r, c)
          /\ k \in Nat /\ k <= Len(b) /\ j \in Nat /\ c \in Int /\ -15 <= c
          /\ j + 8 * k = (WINDOW_SIZE - 1) + t
          /\ k < Len(b) => c = (8 * k - 15) - t
          /\ Holding(x, b, k, j, (a + r) * Pow(WINDOW_SIZE - 16))
    BY DEF ReaderOn
  <1>2. c < 0
    BY <1>1 DEF ReaderOf
  <1>3. PICK s \in Int, n \in Nat :
          /\ Moves(b, k, c, s, n)
          /\ s + c = WINDOW_SIZE - 24 /\ 0 <= s /\ s <= 31 /\ k + n <= Len(b) /\ 8 * n <= s + 8
          /\ n # Len(b) + 1 - (k + 1) => n < Len(b) - k /\ s + 1 <= 8 * n
    BY <1>1, <1>2, MovesFit
  <1>4. PICK w \in Int, N \in Nat, z \in Int :
          /\ w = WINDOW_SIZE /\ 24 <= w /\ N = Len(b) /\ z = (a + r) * Pow(WINDOW_SIZE - 16)
    <2>1. WINDOW_SIZE \in Int /\ 24 <= WINDOW_SIZE
      BY WindowAssumption
    <2>2. Len(b) \in Nat
      BY DEF Bytes
    <2>3. (a + r) * Pow(WINDOW_SIZE - 16) \in Int
      <3>1. Pow(WINDOW_SIZE - 16) \in Nat
        BY WindowFacts, PowNat
      <3>2. PICK p \in Nat : p = Pow(WINDOW_SIZE - 16)
        BY <3>1
      <3>3. (a + r) * p \in Int
        OBVIOUS
      <3> QED BY <3>2, <3>3
    <2> QED BY <2>1, <2>2, <2>3
  <1>5. PICK y : y = Moved(b, k, s, x, n)[n]
    OBVIOUS
  <1>6. PICK c2 : c2 = IF n = Len(b) + 1 - (k + 1) THEN 16384 ELSE c + 8 * n
    OBVIOUS
  <1>7. refill(rd) = ReaderOf(b, k + n, y, r, c2)
    <2>1. refill(rd) = Refilled(rd, y, n, LeftIn(b, k + 1))
      <3>1. Moves(b, k, c, s, n)
        BY <1>3
      <3>2. rd = ReaderOf(b, k, x, r, c)
        BY <1>1
      <3> QED BY <1>5, <3>1, <3>2, RefillAs, Zenon
    <2>2. refill(rd) = [ReaderOf(b, k, x, r, c) EXCEPT
              !.dif = y, !.bptr = (k + 1) + n, !.cnt = c2]
      BY <1>1, <1>6, <2>1 DEF Refilled, ReaderOf, LeftIn
    <2>3. (k + 1) + n = (k + n) + 1
      BY <1>1, <1>3
    <2> QED BY <2>2, <2>3 DEF ReaderOf
  <1>8. IsMoved(Moved(b, k, s, x, n), b, k, s, x, n)
    <2>1. x \in Int
      BY <1>1 DEF Holding
    <2>2. \E h : IsMoved(h, b, k, s, x, n)
      BY <1>1, <1>3, <2>1, MovedExists
    <2> QED BY <2>2 DEF Moved
  <1>9. k + n \in Nat /\ k + n <= N /\ k \in Nat /\ j \in Nat /\ c \in Int
    BY <1>1, <1>3, <1>4
  <1>10. CASE k < N
    <2>1. c = (8 * k - 15) - t /\ j + 8 * k = (w - 1) + t /\ s + c = w - 24
      BY <1>1, <1>3, <1>4, <1>10
    <2>2. s + 8 = j
      BY <1>9, <2>1
    <2>3. Holding(x, b, k, s + 8, z)
      BY <1>1, <1>4, <2>2
    <2>4. Holding(y, b, k + n, (s + 8) - 8 * n, z)
      BY <1>3, <1>5, <1>8, <1>9, <2>3, MovedFacts
    <2>5. PICK i \in Nat : i = (s + 8) - 8 * n
      <3>1. (s + 8) - 8 * n \in Nat
        BY <1>3
      <3> QED BY <3>1
    <2>6. i + 8 * (k + n) = (w - 1) + t
      BY <1>9, <2>1, <2>2, <2>5
    <2>7. c2 \in Int /\ c2 >= 0 /\ (k + n < N => c2 = (8 * (k + n) - 15) - t)
      <3>1. CASE n = N + 1 - (k + 1)
        <4>1. c2 = 16384 /\ ~(k + n < N)
          BY <1>4, <1>6, <1>9, <3>1
        <4> QED BY <4>1
      <3>2. CASE n # N + 1 - (k + 1)
        <4>1. c2 = c + 8 * n /\ s + 1 <= 8 * n
          BY <1>3, <1>4, <1>6, <3>2
        <4>2. c2 = (8 * (k + n) - 15) - t
          BY <1>9, <2>1, <4>1
        <4>3. c2 \in Int /\ c2 >= 0
          BY <1>4, <1>9, <2>1, <4>1
        <4> QED BY <4>2, <4>3
      <3> QED BY <3>1, <3>2
    <2>8. ReaderOn(refill(rd), b, a, r, t, k + n, i)
      <3>1. -15 <= c2 /\ c2 \in Int
        BY <2>7
      <3>2. i \in Nat /\ i + 8 * (k + n) = (WINDOW_SIZE - 1) + t
        BY <1>4, <2>6
      <3>3. Holding(y, b, k + n, i, (a + r) * Pow(WINDOW_SIZE - 16))
        BY <1>4, <2>4, <2>5
      <3>4. k + n \in Nat /\ k + n <= Len(b) /\ (k + n < Len(b) => c2 = (8 * (k + n) - 15) - t)
        BY <1>4, <1>9, <2>7
      <3> QED BY <1>7, <3>1, <3>2, <3>3, <3>4 DEF ReaderOn
    <2>9. refill(rd).cnt >= 0
      BY <1>7, <2>7 DEF ReaderOf
    <2> QED BY <2>8, <2>9 DEF ReaderReady
  <1>11. CASE k = N
    <2>1. n = 0 /\ k + n = k /\ c2 = 16384
      <3>1. n = 0 /\ n = N + 1 - (k + 1)
        BY <1>9, <1>11
      <3> QED BY <1>4, <1>6, <1>9, <3>1
    <2>2. y = x
      <3>1. 0 \in 0 .. n
        BY <2>1
      <3> QED BY <1>5, <1>8, <2>1, <3>1 DEF IsMoved
    <2>3. ReaderOn(refill(rd), b, a, r, t, k, j)
      <3>1. -15 <= c2 /\ c2 \in Int /\ ~(k < Len(b))
        BY <1>4, <1>11, <2>1
      <3>2. refill(rd) = ReaderOf(b, k, x, r, c2)
        BY <1>7, <2>1, <2>2
      <3> QED BY <1>1, <3>1, <3>2 DEF ReaderOn
    <2>4. refill(rd).cnt >= 0
      BY <1>7, <2>1 DEF ReaderOf
    <2> QED BY <2>3, <2>4 DEF ReaderReady
  <1>12. k < N \/ k = N
    BY <1>1, <1>4
  <1> QED BY <1>10, <1>11, <1>12

-----------------------------------------------------------------------------
(* The Reader finds each symbol *)

\* The window is below what is above the part of the symbol.
LEMMA CancelUpper ==
  ASSUME NEW v \in Nat, NEW w \in Nat, NEW y \in Nat, NEW g \in Nat, NEW m \in Nat, NEW r \in Nat,
         NEW p \in Nat, NEW h \in Nat, g > 0, p > 0, r > 0,
         v * m <= w, w * r < h * g, y * g = p * (m * r)
  PROVE  v * y < h * p
PROOF
  <1>1. /\ (v * y) * g = v * (y * g) /\ v * (p * (m * r)) = ((v * m) * r) * p
        /\ (h * g) * p = (h * p) * g
    OBVIOUS
  <1>2. (v * m) * r <= w * r
    BY ProductOrder
  <1>3. ((v * m) * r) * p <= (w * r) * p
    <2>1. (v * m) * r \in Int /\ w * r \in Int
      OBVIOUS
    <2> QED BY <1>2, <2>1, ProductOrder
  <1>4. (w * r) * p < (h * g) * p
    <2>1. w * r \in Int /\ h * g \in Int
      OBVIOUS
    <2> QED BY <2>1, ProductOrder
  <1>5. (v * y) * g = ((v * m) * r) * p
    BY <1>1
  <1>6. (v * y) * g < (h * p) * g
    <2>1. PICK i \in Int, j \in Int, k \in Int :
            i = ((v * m) * r) * p /\ j = (w * r) * p /\ k = (h * g) * p
      OBVIOUS
    <2>2. i < k
      BY <1>3, <1>4, <2>1
    <2> QED BY <1>1, <1>5, <2>1, <2>2
  <1>7. v * y \in Int /\ h * p \in Int
    OBVIOUS
  <1> QED BY <1>6, <1>7, ProductOrder

\* It is not below the part: when all bytes are in the window,
LEMMA CancelLast ==
  ASSUME NEW v \in Nat, NEW y \in Nat, NEW g \in Nat, NEW r \in Nat, NEW p \in Nat, NEW a \in Nat,
         g > 0, p > 0, a * g <= v * r, y * g = p * r
  PROVE  a * p <= v * y
PROOF
  <1>1. (v * y) * g = v * (y * g) /\ v * (p * r) = (v * r) * p /\ (a * g) * p = (a * p) * g
    OBVIOUS
  <1>2. (a * g) * p <= (v * r) * p
    <2>1. a * g \in Int /\ v * r \in Int
      OBVIOUS
    <2> QED BY <2>1, ProductOrder
  <1>3. (a * p) * g <= (v * y) * g
    BY <1>1, <1>2
  <1>4. v * y \in Int /\ a * p \in Int
    OBVIOUS
  <1> QED BY <1>3, <1>4, ProductOrder

\* and when there are others.
LEMMA CancelLower ==
  ASSUME NEW v \in Nat, NEW w \in Nat, NEW y \in Nat, NEW g \in Nat, NEW m \in Nat, NEW r \in Nat,
         NEW p \in Nat, NEW a \in Nat, NEW i \in Nat, r > 0, m > 0, y > 0,
         w < (v + 1) * m, a * g <= w * r, g = i * (m * r), i * y = p
  PROVE  a * p <= v * y
PROOF
  <1>1. a * (i * (m * r)) = (a * i) * (m * r) /\ ((v + 1) * m) * r = (v + 1) * (m * r)
    OBVIOUS
  <1>2. w * r < ((v + 1) * m) * r
    <2>1. (v + 1) * m \in Int
      OBVIOUS
    <2> QED BY <2>1, ProductOrder
  <1>3. (a * i) * (m * r) < (v + 1) * (m * r)
    <2>1. PICK j \in Int, k \in Int, h \in Int : j = a * g /\ k = w * r /\ h = ((v + 1) * m) * r
      OBVIOUS
    <2>2. j < h
      BY <1>2, <2>1
    <2> QED BY <1>1, <2>1, <2>2
  <1>4. a * i \in Int /\ v + 1 \in Int /\ m * r \in Nat /\ m * r > 0
    <2>1. m * r > 0
      <3>1. 0 * r < m * r
        BY ProductOrder
      <3> QED BY <3>1
    <2> QED BY <2>1
  <1>5. a * i < v + 1
    BY <1>3, <1>4, ProductOrder
  <1>6. a * i <= v
    BY <1>4, <1>5
  <1>7. (a * i) * y <= v * y
    BY <1>4, <1>6, ProductOrder
  <1>8. (a * i) * y = a * p
    <2>1. (a * i) * y = a * (i * y)
      OBVIOUS
    <2> QED BY <2>1
  <1> QED BY <1>7, <1>8

\* The bytes b, as a number with q bits after them, are in the part from a to h
\* of a range with t shifts.
ByteRange(b, q, a, h, t) ==
  \E g \in Nat : /\ g + t + 15 = q + 8 * Len(b)
                 /\ a * Pow(g) <= Number(b, Len(b)) * Pow(q)
                 /\ Number(b, Len(b)) * Pow(q) < h * Pow(g)

\* So are the first k of them, in a window that has the bits for a symbol.
LEMMA WindowInPart ==
  ASSUME NEW b, Bytes(b), NEW q \in Nat, NEW a \in Nat, NEW h \in Nat, NEW t \in Nat,
         ByteRange(b, q, a, h, t), NEW k \in Nat, k <= Len(b), NEW j \in Nat,
         j + 8 * k = (WINDOW_SIZE - 1) + t,
         NEW c \in Int, c >= 0, k < Len(b) => c = (8 * k - 15) - t
  PROVE  /\ a * Pow(WINDOW_SIZE - 16) <= Number(b, k) * Pow(j)
         /\ Number(b, k) * Pow(j) < h * Pow(WINDOW_SIZE - 16)
PROOF
  <1>1. PICK N \in Nat, m \in Nat : N = Len(b) /\ m = N - k /\ k + m = N
    <2>1. Len(b) \in Nat
      BY DEF Bytes
    <2>2. Len(b) - k \in Nat /\ k + (Len(b) - k) = Len(b)
      BY <2>1
    <2> QED BY <2>1, <2>2
  <1>2. PICK v \in Nat, w \in Nat :
          /\ v = Number(b, k) /\ w = Number(b, N) /\ v * Pow(8 * m) <= w /\ w < (v + 1) * Pow(8 * m)
    <2>1. /\ Number(b, k) \in Nat /\ Number(b, k + m) \in Nat
          /\ Number(b, k) * Pow(8 * m) <= Number(b, k + m)
          /\ Number(b, k + m) < (Number(b, k) + 1) * Pow(8 * m)
      <3>1. k + m <= Len(b)
        BY <1>1
      <3> QED BY <3>1, PrefixValue
    <2>2. PICK v \in Nat, w \in Nat : v = Number(b, k) /\ w = Number(b, N)
      BY <1>1, <2>1
    <2>3. v * Pow(8 * m) <= w /\ w < (v + 1) * Pow(8 * m)
      BY <1>1, <2>1, <2>2
    <2> QED BY <2>2, <2>3
  <1>3. PICK g \in Nat : /\ g + t + 15 = q + 8 * N
                         /\ a * Pow(g) <= w * Pow(q) /\ w * Pow(q) < h * Pow(g)
    BY <1>1, <1>2 DEF ByteRange
  <1>4. PICK o \in Nat, u \in Nat : /\ o = WINDOW_SIZE - 16 /\ u = 8 * m
                                    /\ j + 8 * k = (o + 15) + t /\ u + 8 * k = 8 * N
    <2>1. WINDOW_SIZE \in Int /\ WINDOW_SIZE - 16 \in Nat
      BY WindowAssumption, WindowFacts
    <2>2. 8 * m \in Nat /\ 8 * m + 8 * k = 8 * N
      BY <1>1
    <2>3. (WINDOW_SIZE - 1) = (WINDOW_SIZE - 16) + 15
      BY <2>1
    <2> QED BY <2>1, <2>2, <2>3
  <1>5. j + g = o + (u + q)
    <2>1. g + t + 15 = q + 8 * N
      BY <1>3
    <2>2. j + 8 * k = (o + 15) + t /\ u + 8 * k = 8 * N
      BY <1>4
    <2> QED BY <2>1, <2>2
  <1>6. PICK y \in Nat, f1 \in Nat, m1 \in Nat, r \in Nat, p \in Nat :
          y = Pow(j) /\ f1 = Pow(g) /\ m1 = Pow(u) /\ r = Pow(q) /\ p = Pow(o)
    <2>1. Pow(j) \in Nat /\ Pow(g) \in Nat /\ Pow(u) \in Nat
      BY PowNat
    <2>2. Pow(q) \in Nat /\ Pow(o) \in Nat
      BY PowNat
    <2> QED BY <2>1, <2>2
  <1>11. y > 0 /\ f1 > 0 /\ m1 > 0 /\ r > 0 /\ p > 0
    <2>1. Pow(j) > 0 /\ Pow(g) > 0 /\ Pow(u) > 0
      BY PowNat
    <2>2. Pow(q) > 0 /\ Pow(o) > 0
      BY PowNat
    <2> QED BY <1>6, <2>1, <2>2
  <1>7. y * f1 = p * (m1 * r)
    <2>1. Pow(j + g) = Pow(j) * Pow(g)
      BY PowAdd
    <2>2. u + q \in Nat /\ Pow(u + q) = Pow(u) * Pow(q)
      BY PowAdd
    <2>3. Pow(o + (u + q)) = Pow(o) * Pow(u + q)
      BY <2>2, PowAdd
    <2> QED BY <1>5, <1>6, <2>1, <2>2, <2>3
  <1>8. v * m1 <= w /\ w < (v + 1) * m1 /\ a * f1 <= w * r /\ w * r < h * f1
    BY <1>2, <1>3, <1>4, <1>6
  <1>9. v * y < h * p
    BY <1>7, <1>8, <1>11, CancelUpper
  <1>10. a * p <= v * y
    <2>1. CASE k = N
      <3>1. w = v /\ u = 0
        BY <1>1, <1>2, <1>4, <2>1
      <3>2. m1 = 1
        BY <1>6, <3>1, PowSmall
      <3>3. y * f1 = p * r
        BY <1>7, <3>2
      <3> QED BY <1>8, <1>11, <3>1, <3>3, CancelLast
    <2>2. CASE k # N
      <3>1. k < N
        BY <1>1, <2>2
      <3>2. PICK i \in Nat : i = c
        OBVIOUS
      <3>3. i = (8 * k - 15) - t
        BY <1>1, <3>1, <3>2
      <3>4. g = i + (u + q) /\ i + j = o
        BY <1>3, <1>4, <3>3, SMTT(60)
      <3>5. PICK i1 \in Nat : i1 = Pow(i)
        BY PowNat
      <3>6. f1 = i1 * (m1 * r)
        <4>1. u + q \in Nat /\ Pow(u + q) = Pow(u) * Pow(q)
          BY PowAdd
        <4>2. Pow(i + (u + q)) = Pow(i) * Pow(u + q)
          BY <4>1, PowAdd
        <4> QED BY <1>6, <3>4, <3>5, <4>1, <4>2
      <3>7. i1 * y = p
        <4>1. Pow(i + j) = Pow(i) * Pow(j)
          BY PowAdd
        <4> QED BY <1>6, <3>4, <3>5, <4>1
      <3> QED BY <1>8, <1>11, <3>6, <3>7, CancelLower
    <2> QED BY <2>1, <2>2
  <1> QED BY <1>2, <1>4, <1>6, <1>9, <1>10

\* The window is divided by 2^(WINDOW_SIZE - 16).
LEMMA QuotientPlace ==
  ASSUME NEW x \in Int, NEW p \in Nat, p > 0
  PROVE  /\ x \div p \in Int
         /\ \A i \in Int : (i * p <= x <=> i <= x \div p) /\ (x < i * p <=> x \div p < i)
PROOF
  <1>1. PICK q \in Int, m \in Int : q = x \div p /\ x = p * q + m /\ 0 <= m /\ m < p
    OBVIOUS
  <1>2. ASSUME NEW i \in Int
        PROVE  (i * p <= x <=> i <= q) /\ (x < i * p <=> q < i)
    <2>1. CASE i <= q
      <3>1. i * p <= q * p
        BY <2>1, ProductOrder
      <3>2. PICK u \in Int, w \in Int : u = i * p /\ w = q * p /\ p * q = w
        OBVIOUS
      <3>3. u <= x
        BY <1>1, <3>1, <3>2
      <3> QED BY <2>1, <3>2, <3>3
    <2>2. CASE ~(i <= q)
      <3>1. q + 1 <= i /\ q + 1 \in Int
        BY <2>2
      <3>2. (q + 1) * p <= i * p
        BY <3>1, ProductOrder
      <3>3. PICK u \in Int, w \in Int : u = i * p /\ w = q * p /\ p * q = w /\ (q + 1) * p = w + p
        OBVIOUS
      <3>4. x < u
        BY <1>1, <3>2, <3>3
      <3> QED BY <2>2, <3>3, <3>4
    <2> QED BY <2>1, <2>2
  <1> QED BY <1>1, <1>2

\* What the Reader compares: c is in the part of the symbol s of x.
IsSymbol(r, x, s, c) ==
  /\ s \in 0 .. Len(x) - 1 /\ c \in Int
  /\ Bound(r, x, s + 1) <= c /\ c < Upper(r, x, s)

\* The number of the window that the Reader compares with the CDF, and the
\* symbol that it finds.
Comparand(rd) == rd.dif \div 2^(WINDOW_SIZE - 16)
Bounds(rd, x) == [i \in DOMAIN x |-> scaled(rd.rng, x[i]) + EC_MIN_PROB * (Len(x) - i)]
FoundIn(c, v, n) == CHOOSE k \in 0 .. n - 1 : c >= v[k + 1] /\ \A i \in 1 .. k : c < v[i]

\* It finds the symbol s.
LEMMA FoundSymbol ==
  ASSUME NEW r, InRange(r), NEW x, IsCdf(x), NEW s, NEW c, IsSymbol(r, x, s, c),
         NEW rd, rd.rng = r
  PROVE  /\ FoundIn(c, Bounds(rd, x), Len(x)) = s
         /\ Bounds(rd, x)[s + 1] = Bound(r, x, s + 1)
         /\ (IF s = 0 THEN rd.rng ELSE Bounds(rd, x)[s]) = Upper(r, x, s)
PROOF
  <1>1. PICK n \in Nat : n = Len(x) /\ DOMAIN x = 1 .. n
    BY DEF IsCdf
  <1>2. PICK v : v = Bounds(rd, x)
    OBVIOUS
  <1>3. \A i \in 1 .. n : v[i] = Bound(r, x, i)
    BY <1>1, <1>2 DEF Bounds, Bound
  <1>4. /\ \A i \in 1 .. n : Bound(r, x, i) \in Nat
        /\ \A i, j \in 1 .. n : i < j => Bound(r, x, j) + 4 <= Bound(r, x, i)
    BY <1>1, BoundFacts
  <1>5. s \in 0 .. n - 1 /\ c \in Int /\ s + 1 \in 1 .. n /\ s \in Nat
    BY <1>1 DEF IsSymbol
  <1>6. c >= v[s + 1]
    <2>1. Bound(r, x, s + 1) <= c /\ Bound(r, x, s + 1) \in Nat
      BY <1>4, <1>5 DEF IsSymbol
    <2> QED BY <1>3, <1>5, <2>1
  <1>7. ASSUME NEW i \in 1 .. s PROVE c < v[i]
    <2>1. i \in 1 .. n /\ s \in 1 .. n /\ s # 0
      BY <1>5
    <2>2. c < Bound(r, x, s)
      BY <2>1 DEF IsSymbol, Upper
    <2>3. Bound(r, x, s) <= Bound(r, x, i)
      <3>1. PICK p \in Nat, q \in Nat : p = Bound(r, x, s) /\ q = Bound(r, x, i)
        BY <1>4, <2>1
      <3>2. CASE i = s
        BY <3>1, <3>2
      <3>3. CASE i < s
        <4>1. p + 4 <= q
          BY <1>4, <2>1, <3>1, <3>3
        <4> QED BY <3>1, <4>1
      <3>4. i = s \/ i < s
        BY <1>5
      <3> QED BY <3>2, <3>3, <3>4
    <2>4. PICK p \in Nat, q \in Nat : p = Bound(r, x, s) /\ q = Bound(r, x, i)
      BY <1>4, <2>1
    <2>5. c < q
      BY <1>5, <2>2, <2>3, <2>4
    <2> QED BY <1>3, <2>1, <2>4, <2>5
  <1>8. PICK k \in 0 .. n - 1 :
          k = FoundIn(c, v, n) /\ c >= v[k + 1] /\ \A i \in 1 .. k : c < v[i]
    <2>1. \E k \in 0 .. n - 1 : c >= v[k + 1] /\ \A i \in 1 .. k : c < v[i]
      BY <1>5, <1>6, <1>7
    <2> QED BY <2>1 DEF FoundIn
  <1>9. k = s
    <2>1. k + 1 \in 1 .. n /\ v[k + 1] \in Nat /\ v[s + 1] \in Nat
      <3>1. k + 1 \in 1 .. n
        OBVIOUS
      <3> QED BY <1>3, <1>4, <1>5, <3>1
    <2>2. ~(k < s)
      <3>1. SUFFICES ASSUME k < s PROVE FALSE
        OBVIOUS
      <3>2. k + 1 \in 1 .. s
        BY <1>5, <3>1
      <3>3. c < v[k + 1]
        BY <1>7, <3>2
      <3> QED BY <1>5, <1>8, <2>1, <3>3
    <2>3. ~(s < k)
      <3>1. SUFFICES ASSUME s < k PROVE FALSE
        OBVIOUS
      <3>2. s + 1 \in 1 .. k
        BY <1>5, <3>1
      <3>3. c < v[s + 1]
        BY <1>8, <3>2
      <3> QED BY <1>5, <1>6, <2>1, <3>3
    <2> QED BY <1>5, <2>2, <2>3
  <1>10. v[s + 1] = Bound(r, x, s + 1)
    BY <1>3, <1>5
  <1>11. (IF s = 0 THEN rd.rng ELSE v[s]) = Upper(r, x, s)
    <2>1. CASE s = 0
      BY <2>1 DEF Upper
    <2>2. CASE s # 0
      <3>1. s \in 1 .. n
        BY <1>5, <2>2
      <3> QED BY <1>3, <2>2, <3>1 DEF Upper
    <2> QED BY <2>1, <2>2
  <1> QED BY <1>1, <1>2, <1>8, <1>9, <1>10, <1>11

\* read_symbol, when the symbol s is found.
LEMMA ReadAs ==
  ASSUME NEW rd, NEW x, NEW s, s = FoundIn(Comparand(rd), Bounds(rd, x), Len(x)),
         NEW u, u = IF s = 0 THEN rd.rng ELSE Bounds(rd, x)[s],
         NEW y, y = Bounds(rd, x)[s + 1]
  PROVE  /\ read_symbol(rd, x).symbol = s
         /\ read_symbol(rd, x).rd = normalize(rd, rd.dif - y * 2^(WINDOW_SIZE - 16), u - y)
PROOF
  <1>1. read_symbol(rd, x) =
          [symbol |-> FoundIn(Comparand(rd), Bounds(rd, x), Len(x)),
           rd |-> normalize(rd,
                    rd.dif - Bounds(rd, x)[FoundIn(Comparand(rd), Bounds(rd, x), Len(x)) + 1]
                               * 2^(WINDOW_SIZE - 16),
                    (IF FoundIn(Comparand(rd), Bounds(rd, x), Len(x)) = 0 THEN rd.rng
                     ELSE Bounds(rd, x)[FoundIn(Comparand(rd), Bounds(rd, x), Len(x))])
                      - Bounds(rd, x)[FoundIn(Comparand(rd), Bounds(rd, x), Len(x)) + 1])]
    BY DEF read_symbol, FoundIn, Comparand, Bounds
  <1>2. read_symbol(rd, x) =
          [symbol |-> s, rd |-> normalize(rd, rd.dif - y * 2^(WINDOW_SIZE - 16), u - y)]
    BY <1>1, Zenon
  <1> QED BY <1>2

\* The window without what is below the part, shifted.
LEMMA Rescaled ==
  ASSUME NEW a \in Nat, NEW r \in Nat, NEW l \in Nat, NEW i \in Nat, NEW p \in Nat, NEW q \in Nat,
         NEW x \in Int, x + 1 = (a + r) * p - q, NEW d \in Nat
  PROVE  ((x - ((r - l) - i) * p) + 1) * d = ((a + l) * d + i * d) * p - q * d
PROOF
  <1>1. PICK h \in Int : h = ((r - l) - i) * p
    OBVIOUS
  <1>2. (a + r) * p - h = ((a + l) + i) * p
    BY <1>1
  <1>3. PICK w \in Int, z \in Int : w = ((a + l) + i) * p /\ z = (a + r) * p /\ z - h = w
    BY <1>2
  <1>4. (x - h) + 1 = w - q
    BY <1>3
  <1>5. (w - q) * d = w * d - q * d
    OBVIOUS
  <1>6. w * d = ((a + l) * d + i * d) * p
    <2>1. (((a + l) + i) * p) * d = ((a + l) * d + i * d) * p
      OBVIOUS
    <2> QED BY <1>3, <2>1
  <1>7. ((x - h) + 1) * d = ((a + l) * d + i * d) * p - q * d
    BY <1>4, <1>5, <1>6
  <1> QED BY <1>1, <1>7

\* The Reader that normalize leaves, before it is refilled.
Shifted(rd, y, r, d) ==
  [rd EXCEPT !.cnt = @ - d, !.dif = (y + 1) * 2^d - 1, !.rng = r * 2^d]

\* normalize
LEMMA NormalizeAs ==
  ASSUME NEW rd, NEW y, NEW r, NEW d, d = leading_zeros(r), NEW h, h = Shifted(rd, y, r, d)
  PROVE  normalize(rd, y, r) = IF h.cnt < 0 THEN refill(h) ELSE h
PROOF
  <1>1. normalize(rd, y, r) =
          IF Shifted(rd, y, r, leading_zeros(r)).cnt < 0
          THEN refill(Shifted(rd, y, r, leading_zeros(r))) ELSE Shifted(rd, y, r, leading_zeros(r))
    BY DEF normalize, Shifted
  <1> QED BY <1>1, Zenon

\* It keeps the Reader in step with the Encoder.
LEMMA NormalizeReady ==
  ASSUME NEW rd, NEW b, Bytes(b), NEW a \in Nat, NEW r \in Nat, NEW t \in Nat,
         NEW k \in Nat, NEW j \in Nat,
         ReaderOn(rd, b, a, r, t, k, j), rd.cnt >= 0,
         NEW l \in Nat, NEW i \in Nat, NEW d \in Nat, IsShift(i, d), NEW u, u = (r - l) - i,
         NEW y, y = rd.dif - u * Pow(WINDOW_SIZE - 16)
  PROVE  ReaderReady(normalize(rd, y, i), b, (a + l) * Pow(d), i * Pow(d), t + d)
PROOF
  <1>1. PICK x \in Int, c \in Int :
          /\ rd = ReaderOf(b, k, x, r, c)
          /\ k <= Len(b) /\ -15 <= c
          /\ j + 8 * k = (WINDOW_SIZE - 1) + t
          /\ k < Len(b) => c = (8 * k - 15) - t
          /\ Holding(x, b, k, j, (a + r) * Pow(WINDOW_SIZE - 16))
    <2>1. PICK x, c :
            /\ rd = ReaderOf(b, k, x, r, c)
            /\ k <= Len(b) /\ c \in Int /\ -15 <= c
            /\ j + 8 * k = (WINDOW_SIZE - 1) + t
            /\ k < Len(b) => c = (8 * k - 15) - t
            /\ Holding(x, b, k, j, (a + r) * Pow(WINDOW_SIZE - 16))
      BY DEF ReaderOn
    <2>2. x \in Int
      BY <2>1 DEF Holding
    <2> QED BY <2>1, <2>2
  <1>2. c >= 0 /\ rd.dif = x /\ x \in Int
    BY <1>1 DEF ReaderOf, Holding
  <1>3. d = leading_zeros(i) /\ 2^d = Pow(d)
    BY DEF IsShift, Computed
  <1>22. d <= 15
    BY DEF IsShift
  <1>4. PICK e \in Nat : e = Pow(d)
    BY PowNat
  <1>5. PICK p \in Nat, m \in Nat, v \in Nat :
          p = Pow(WINDOW_SIZE - 16) /\ m = Pow(j) /\ v = Number(b, k)
    <2>1. Pow(WINDOW_SIZE - 16) \in Nat
      BY WindowFacts, PowNat
    <2>2. Pow(j) \in Nat
      BY PowNat
    <2>3. Number(b, k) \in Nat
      <3>1. 0 \in Nat /\ k + 0 <= Len(b)
        BY <1>1
      <3> QED BY <3>1, PrefixValue
    <2> QED BY <2>1, <2>2, <2>3
  <1>6. PICK q \in Nat : q = v * m
    OBVIOUS
  <1>7. x + 1 = (a + r) * p - q
    BY <1>1, <1>5, <1>6 DEF Holding
  <1>8. ((x - ((r - l) - i) * p) + 1) * e = ((a + l) * e + i * e) * p - q * e
    BY <1>2, <1>7, Rescaled
  <1>9. y = x - ((r - l) - i) * p /\ y \in Int
    <2>1. y = x - ((r - l) - i) * p
      BY <1>2, <1>5
    <2>2. x - ((r - l) - i) * p \in Int
      BY <1>2
    <2> QED BY <2>1, <2>2
  <1>10. PICK g : g = (y + 1) * e - 1
    OBVIOUS
  <1>11. g \in Int /\ g + 1 = ((a + l) * e + i * e) * p - q * e
    <2>1. (y + 1) * e \in Int
      BY <1>9
    <2>2. (y + 1) * e = ((a + l) * e + i * e) * p - q * e
      BY <1>8, <1>9
    <2> QED BY <1>10, <2>1, <2>2
  <1>12. Pow(j + d) = m * e /\ j + d \in Nat
    BY <1>4, <1>5, PowAdd
  <1>13. q * e = v * Pow(j + d)
    BY <1>6, <1>12
  <1>14. Holding(g, b, k, j + d, ((a + l) * Pow(d) + i * Pow(d)) * Pow(WINDOW_SIZE - 16))
    BY <1>4, <1>5, <1>11, <1>13 DEF Holding
  <1>15. PICK h : h = Shifted(rd, y, i, d)
    OBVIOUS
  <1>16. h = ReaderOf(b, k, g, i * Pow(d), c - d)
    <2>1. h = [rd EXCEPT !.cnt = @ - d, !.dif = g, !.rng = i * Pow(d)]
      BY <1>3, <1>4, <1>10, <1>15 DEF Shifted
    <2> QED BY <1>1, <2>1 DEF ReaderOf
  <1>17. ReaderOn(h, b, (a + l) * Pow(d), i * Pow(d), t + d, k, j + d)
    <2>1. c - d \in Int /\ -15 <= c - d
      BY <1>2, <1>22
    <2>2. (j + d) + 8 * k = (WINDOW_SIZE - 1) + (t + d)
      <3>1. PICK w \in Int : w = WINDOW_SIZE
        BY WindowAssumption
      <3>2. j + 8 * k = (w - 1) + t
        BY <1>1, <3>1
      <3>3. (j + d) + 8 * k = (w - 1) + (t + d)
        BY <3>2
      <3> QED BY <3>1, <3>3
    <2>3. k < Len(b) => c - d = (8 * k - 15) - (t + d)
      <3>1. SUFFICES ASSUME k < Len(b) PROVE c - d = (8 * k - 15) - (t + d)
        OBVIOUS
      <3>2. c = (8 * k - 15) - t
        BY <1>1, <3>1
      <3> QED BY <3>2
    <2> QED BY <1>1, <1>12, <1>14, <1>16, <2>1, <2>2, <2>3 DEF ReaderOn
  <1>18. normalize(rd, y, i) = IF h.cnt < 0 THEN refill(h) ELSE h
    BY <1>3, <1>15, NormalizeAs
  <1>19. h.cnt = c - d /\ c - d \in Int
    BY <1>16 DEF ReaderOf
  <1>20. CASE h.cnt < 0
    <2>1. (a + l) * Pow(d) \in Nat /\ i * Pow(d) \in Nat /\ t + d \in Nat
      <3>1. (a + l) * e \in Nat /\ i * e \in Nat
        OBVIOUS
      <3> QED BY <1>4, <3>1
    <2>2. ReaderReady(refill(h), b, (a + l) * Pow(d), i * Pow(d), t + d)
      BY <1>17, <1>20, <2>1, RefillReady
    <2> QED BY <1>18, <1>20, <2>2
  <1>21. CASE ~(h.cnt < 0)
    <2>1. h.cnt >= 0
      BY <1>19, <1>21
    <2>2. normalize(rd, y, i) = h
      BY <1>18, <1>21
    <2> QED BY <1>17, <2>1, <2>2 DEF ReaderReady
  <1> QED BY <1>20, <1>21

\* How a symbol lies in the range: its part l, i and its shift d.
LiesIn(r, x, s, l, i, d) ==
  /\ l \in Nat /\ i \in Nat /\ IsShift(i, d)
  /\ s \in 0 .. Len(x) - 1
  /\ Upper(r, x, s) = r - l /\ Bound(r, x, s + 1) = (r - l) - i

\* The window is in the part of the symbol.
LEMMA WindowFinds ==
  ASSUME NEW rd, NEW b, Bytes(b), NEW a \in Nat, NEW r \in Nat, NEW t \in Nat,
         NEW k \in Nat, NEW j \in Nat,
         ReaderOn(rd, b, a, r, t, k, j), rd.cnt >= 0, NEW x, NEW s, NEW l, NEW i, NEW d,
         LiesIn(r, x, s, l, i, d), NEW q \in Nat, ByteRange(b, q, a + l, (a + l) + i, t)
  PROVE  IsSymbol(r, x, s, Comparand(rd)) /\ rd.rng = r
PROOF
  <1>1. PICK y, c :
          /\ rd = ReaderOf(b, k, y, r, c)
          /\ k \in Nat /\ k <= Len(b) /\ j \in Nat /\ c \in Int /\ -15 <= c
          /\ j + 8 * k = (WINDOW_SIZE - 1) + t
          /\ k < Len(b) => c = (8 * k - 15) - t
          /\ Holding(y, b, k, j, (a + r) * Pow(WINDOW_SIZE - 16))
    BY DEF ReaderOn
  <1>2. c >= 0 /\ rd.dif = y /\ rd.rng = r /\ y \in Int
    BY <1>1 DEF ReaderOf, Holding
  <1>3. l \in Nat /\ i \in Nat /\ a + l \in Nat /\ (a + l) + i \in Nat
    BY DEF LiesIn
  <1>4. PICK p \in Nat, m \in Nat, v \in Nat :
          p = Pow(WINDOW_SIZE - 16) /\ m = Pow(j) /\ v = Number(b, k) /\ p > 0
    <2>1. Pow(WINDOW_SIZE - 16) \in Nat /\ Pow(WINDOW_SIZE - 16) > 0
      BY WindowFacts, PowNat
    <2>2. Pow(j) \in Nat
      BY <1>1, PowNat
    <2>3. Number(b, k) \in Nat
      <3>1. 0 \in Nat /\ k + 0 <= Len(b) /\ k \in Nat
        BY <1>1
      <3> QED BY <3>1, PrefixValue
    <2> QED BY <2>1, <2>2, <2>3
  <1>5. (a + l) * p <= v * m /\ v * m < ((a + l) + i) * p
    <2>1. /\ (a + l) * Pow(WINDOW_SIZE - 16) <= Number(b, k) * Pow(j)
          /\ Number(b, k) * Pow(j) < ((a + l) + i) * Pow(WINDOW_SIZE - 16)
      BY <1>1, <1>2, <1>3, WindowInPart
    <2> QED BY <1>4, <2>1
  <1>6. y + 1 = (a + r) * p - v * m
    BY <1>1, <1>4 DEF Holding
  <1>7. PICK u \in Int, w \in Int : u = r - l /\ w = (r - l) - i
    BY <1>3
  <1>8. y < u * p /\ w * p <= y
    <2>1. (a + r) * p = (a + l) * p + u * p /\ (a + r) * p = ((a + l) + i) * p + w * p
      <3>1. a + r = (a + l) + u /\ a + r = ((a + l) + i) + w
        BY <1>3, <1>7
      <3>2. /\ ((a + l) + u) * p = (a + l) * p + u * p
            /\ (((a + l) + i) + w) * p = ((a + l) + i) * p + w * p
        BY <1>3
      <3> QED BY <3>1, <3>2
    <2>2. PICK x1 \in Int, x2 \in Int, x3 \in Int, x4 \in Int, x5 \in Int, x6 \in Int :
            /\ x1 = (a + r) * p /\ x2 = (a + l) * p /\ x3 = u * p
            /\ x4 = ((a + l) + i) * p /\ x5 = w * p /\ x6 = v * m
      <3>1. /\ (a + r) * p \in Int /\ (a + l) * p \in Int /\ u * p \in Int
            /\ ((a + l) + i) * p \in Int /\ w * p \in Int /\ v * m \in Int
        BY <1>3
      <3> QED BY <3>1
    <2>3. x1 = x2 + x3 /\ x1 = x4 + x5
      BY <2>1, <2>2
    <2>4. x2 <= x6 /\ x6 < x4 /\ y + 1 = x1 - x6
      BY <1>5, <1>6, <2>2
    <2>5. y < x3 /\ x5 <= y
      BY <1>2, <2>3, <2>4
    <2> QED BY <2>2, <2>5
  <1>9. y \div p \in Int /\ y \div p < u /\ w <= y \div p
    BY <1>2, <1>4, <1>7, <1>8, QuotientPlace
  <1>10. Comparand(rd) = y \div p
    <2>1. 2^(WINDOW_SIZE - 16) = p
      BY <1>4, WindowFacts DEF Window
    <2> QED BY <1>2, <2>1, Zenon DEF Comparand
  <1>11. Upper(r, x, s) = u /\ Bound(r, x, s + 1) = w /\ s \in 0 .. Len(x) - 1
    BY <1>7 DEF LiesIn
  <1> QED BY <1>2, <1>9, <1>10, <1>11 DEF IsSymbol

\* The Reader finds the symbol, and goes on in step with the Encoder.
LEMMA SymbolRead ==
  ASSUME NEW rd, NEW b, Bytes(b), NEW a \in Nat, NEW r, InRange(r), NEW t \in Nat,
         ReaderReady(rd, b, a, r, t), NEW x, IsCdf(x), NEW s, NEW l, NEW i, NEW d,
         LiesIn(r, x, s, l, i, d), NEW q \in Nat, ByteRange(b, q, a + l, (a + l) + i, t)
  PROVE  /\ read_symbol(rd, x).symbol = s
         /\ ReaderReady(read_symbol(rd, x).rd, b, (a + l) * Pow(d), i * Pow(d), t + d)
PROOF
  <1>1. PICK k \in Nat, j \in Nat : ReaderOn(rd, b, a, r, t, k, j) /\ rd.cnt >= 0
    BY DEF ReaderReady, ReaderOn
  <1>2. r \in Nat
    BY DEF InRange
  <1>3. IsSymbol(r, x, s, Comparand(rd)) /\ rd.rng = r
    BY <1>1, <1>2, WindowFinds
  <1>4. PICK y, u : y = Bounds(rd, x)[s + 1] /\ u = IF s = 0 THEN rd.rng ELSE Bounds(rd, x)[s]
    OBVIOUS
  <1>5. /\ s = FoundIn(Comparand(rd), Bounds(rd, x), Len(x))
        /\ y = Bound(r, x, s + 1) /\ u = Upper(r, x, s)
    BY <1>3, <1>4, FoundSymbol
  <1>6. l \in Nat /\ i \in Nat /\ d \in Nat /\ IsShift(i, d) /\ u = r - l /\ y = (r - l) - i
    BY <1>5 DEF LiesIn, IsShift
  <1>7. u - y = i
    BY <1>2, <1>6
  <1>8. 2^(WINDOW_SIZE - 16) = Pow(WINDOW_SIZE - 16)
    BY WindowFacts DEF Window
  <1>9. /\ read_symbol(rd, x).symbol = s
        /\ read_symbol(rd, x).rd = normalize(rd, rd.dif - y * 2^(WINDOW_SIZE - 16), u - y)
    BY <1>4, <1>5, ReadAs
  <1>10. PICK z : z = rd.dif - y * Pow(WINDOW_SIZE - 16)
    OBVIOUS
  <1>11. ReaderReady(normalize(rd, z, i), b, (a + l) * Pow(d), i * Pow(d), t + d)
    BY <1>1, <1>2, <1>6, <1>10, NormalizeReady
  <1>12. read_symbol(rd, x).rd = normalize(rd, z, i)
    BY <1>7, <1>8, <1>9, <1>10, Zenon
  <1> QED BY <1>9, <1>11, <1>12

-----------------------------------------------------------------------------
(* Reading all of a tile *)

\* A new Reader is in step with a new Encoder.
LEMMA NewReaderReady ==
  ASSUME NEW b, Bytes(b)
  PROVE  ReaderReady(NewReader(b), b, 0, 32768, 0)
PROOF
  <1>1. PICK z \in Nat : z = 32768
    OBVIOUS
  <1>2. PICK p \in Nat : p = Pow(WINDOW_SIZE - 16)
    BY WindowFacts, PowNat
  <1>3. PICK w \in Nat : w = 2^(WINDOW_SIZE - 1) /\ w = z * p
    <2>1. z * p \in Nat
      OBVIOUS
    <2>2. 2^(WINDOW_SIZE - 1) = z * p
      BY <1>1, <1>2, WindowFacts
    <2> QED BY <2>1, <2>2
  <1>4. PICK rd : rd = ReaderOf(b, 0, w - 1, 32768, -15)
    OBVIOUS
  <1>5. NewReader(b) = refill(rd)
    <2>1. rd = [buf |-> b, bptr |-> 1, dif |-> w - 1, rng |-> 32768, cnt |-> -15]
      <3>1. 0 + 1 = 1
        OBVIOUS
      <3> QED BY <1>4, <3>1 DEF ReaderOf
    <2>2. NewReader(b) =
            refill([buf |-> b, bptr |-> 1, dif |-> w - 1, rng |-> 32768, cnt |-> -15])
      BY <1>3 DEF NewReader
    <2> QED BY <2>1, <2>2
  <1>6. PICK j \in Nat : j = WINDOW_SIZE - 1
    <2>1. WINDOW_SIZE - 1 \in Nat
      BY WindowAssumption
    <2> QED BY <2>1
  <1>7. Holding(w - 1, b, 0, j, (0 + 32768) * Pow(WINDOW_SIZE - 16))
    <2>1. Number(b, 0) = 0 /\ Pow(j) \in Nat
      BY ValueZero, PowNat
    <2>2. PICK m \in Nat : m = Pow(j)
      BY <2>1
    <2>3. w - 1 \in Int /\ (w - 1) + 1 = z * p - 0 * m
      BY <1>3
    <2>4. (0 + 32768) * Pow(WINDOW_SIZE - 16) = z * p
      BY <1>1, <1>2
    <2> QED BY <2>1, <2>2, <2>3, <2>4 DEF Holding
  <1>8. ReaderOn(rd, b, 0, 32768, 0, 0, j)
    <2>1. 0 \in Nat /\ 0 <= Len(b) /\ -15 \in Int /\ -15 <= -15
      BY DEF Bytes
    <2>2. j + 8 * 0 = (WINDOW_SIZE - 1) + 0
      BY <1>6
    <2>3. 0 < Len(b) => -15 = (8 * 0 - 15) - 0
      OBVIOUS
    <2> QED BY <1>4, <1>7, <2>1, <2>2, <2>3 DEF ReaderOn
  <1>9. rd.cnt < 0
    BY <1>4 DEF ReaderOf
  <1>10. ReaderReady(refill(rd), b, 0, 32768, 0)
    <2>1. 0 \in Nat /\ 32768 \in Nat
      OBVIOUS
    <2> QED BY <1>8, <1>9, <2>1, RefillReady
  <1> QED BY <1>5, <1>10

\* A decoder after one more symbol p, and before the first.
ReadOne(d, p) ==
  [rd |-> read_symbol(d.rd, Cdf(d.fc, p[1])).rd, fc |-> Updated(d.fc, p[1], p[2]),
   ok |-> d.ok /\ read_symbol(d.rd, Cdf(d.fc, p[1])).symbol = p[2]]
DecoderOf(b) == [rd |-> NewReader(b), fc |-> InitialFc, ok |-> TRUE]

\* The decoder of the bytes b after each of the first m symbols of s.
IsDecoder(h, m, s, b) ==
  h = [n \in 0 .. m |-> IF n = 0 THEN DecoderOf(b) ELSE ReadOne(h[n - 1], s[n])]
DecoderAfter(m, s, b) == CHOOSE h : IsDecoder(h, m, s, b)

\* BitstreamDecodes is about the last of them.
LEMMA DecodesAs ==
  BitstreamDecodes <=>
    (out # <<>> => DecoderAfter(Len(stored), stored, out)[Len(stored)].ok)
PROOF
  BY DEF BitstreamDecodes, DecoderAfter, IsDecoder, ReadOne, DecoderOf

\* There are such decoders.
LEMMA DecoderExists ==
  ASSUME NEW N \in Nat, NEW s, NEW b
  PROVE  \E h : IsDecoder(h, N, s, b)
PROOF
  <1> DEFINE Good == {m \in 0 .. N : \E h : IsDecoder(h, m, s, b)}
  <1>1. 0 \in Good
    <2>1. PICK h : h = [n \in 0 .. 0 |-> DecoderOf(b)]
      OBVIOUS
    <2>2. h = [n \in 0 .. 0 |-> IF n = 0 THEN DecoderOf(b) ELSE ReadOne(h[n - 1], s[n])]
      BY <2>1
    <2>3. 0 \in 0 .. N
      OBVIOUS
    <2> QED BY <2>2, <2>3 DEF IsDecoder
  <1>2. ASSUME NEW m \in 0 .. N - 1, m \in Good PROVE m + 1 \in Good
    <2>1. PICK h : IsDecoder(h, m, s, b)
      BY <1>2
    <2>2. \A n \in 0 .. m : h[n] = IF n = 0 THEN DecoderOf(b) ELSE ReadOne(h[n - 1], s[n])
      BY <2>1 DEF IsDecoder
    <2>3. PICK g : g = [n \in 0 .. m + 1 |-> IF n = m + 1 THEN ReadOne(h[m], s[m + 1]) ELSE h[n]]
      OBVIOUS
    <2>4. ASSUME NEW n \in 0 .. m + 1
          PROVE  g[n] = IF n = 0 THEN DecoderOf(b) ELSE ReadOne(g[n - 1], s[n])
      <3>1. CASE n = 0
        <4>1. 0 \in 0 .. m /\ 0 # m + 1 /\ 0 \in 0 .. m + 1
          OBVIOUS
        <4> QED BY <2>2, <2>3, <3>1, <4>1
      <3>2. CASE n \in 1 .. m
        <4>1. n \in 0 .. m /\ n # 0 /\ n # m + 1 /\ n - 1 \in 0 .. m + 1 /\ n - 1 # m + 1
          BY <3>2
        <4>2. g[n] = h[n] /\ g[n - 1] = h[n - 1]
          BY <2>3, <4>1
        <4> QED BY <2>2, <4>1, <4>2
      <3>3. CASE n = m + 1
        <4>1. n # 0 /\ n - 1 = m /\ m \in 0 .. m + 1 /\ m # m + 1
          BY <3>3
        <4>2. g[m] = h[m] /\ g[n] = ReadOne(h[m], s[n])
          BY <2>3, <3>3, <4>1
        <4> QED BY <4>1, <4>2
      <3>4. n = 0 \/ n \in 1 .. m \/ n = m + 1
        OBVIOUS
      <3> QED BY <3>1, <3>2, <3>3, <3>4
    <2>5. g = [n \in 0 .. m + 1 |-> g[n]]
      BY <2>3
    <2>6. IsDecoder(g, m + 1, s, b)
      BY <2>4, <2>5 DEF IsDecoder
    <2>7. m + 1 \in 0 .. N
      OBVIOUS
    <2> QED BY <2>6, <2>7
  <1>3. N \in 0 .. N
    OBVIOUS
  <1> HIDE DEF Good
  <1>4. N \in Good
    BY <1>1, <1>2, <1>3, InductionUpTo
  <1> QED BY <1>4 DEF Good

\* The decoder d is where the Encoder was after n symbols of s.
InStep(d, s, n, b) ==
  /\ d.ok /\ d.fc = Adapted(SubSeq(s, 1, n))
  /\ ReaderReady(d.rd, b, Exact(EncoderAt(s, n)), EncoderAt(s, n).rng, Shifts(EncoderAt(s, n)))

\* The bytes b, as a number with q bits after them, are in the last range.
EndsIn(b, q, s) == Bytes(b) /\ Ends(Encoded(s), b, q)

\* They are in the part of every symbol.
LEMMA BytesInPart ==
  ASSUME NEW s \in Seq(CodedPairs), NEW b, NEW q, EndsIn(b, q, s), NEW n \in 0 .. Len(s) - 1
  PROVE  \E l, i, d :
           /\ NextToken(s, n, l, i, d) /\ l \in Nat /\ i \in Nat /\ q \in Nat
           /\ ByteRange(b, q, Exact(EncoderAt(s, n)) + l, (Exact(EncoderAt(s, n)) + l) + i,
                        Shifts(EncoderAt(s, n)))
PROOF
  <1>1. PICK e : e = Encoded(s)
    OBVIOUS
  <1>2. PICK N \in Nat : N = Len(s)
    OBVIOUS
  <1>3. e = EncoderAt(s, N) /\ FitsUnit(e)
    <2>1. N \in 0 .. N
      OBVIOUS
    <2> QED BY <1>1, <1>2, <2>1, AllCoded, AllFit
  <1>4. PICK a \in Nat, r \in Nat, t \in Nat, m \in Nat :
          a = Exact(e) /\ r = e.rng /\ t = Shifts(e) /\ m = Len(b)
    BY <1>3, SMTT(60) DEF FitsUnit, EndsIn, Ends
  <1>5. PICK w \in Nat, p \in Nat : w = Number(b, m) /\ p = Pow(q) /\ q \in Nat
    <2>1. Number(b, m) \in Nat
      <3>1. Bytes(b) /\ m + 0 <= Len(b) /\ 0 \in Nat
        BY <1>4 DEF EndsIn
      <3> QED BY <3>1, PrefixValue
    <2>2. q \in Nat
      BY DEF EndsIn, Ends
    <2> QED BY <2>1, <2>2, PowNat
  <1>6. q + 8 * m = t + 15 /\ a <= w * p /\ w * p < a + r
    BY <1>1, <1>4, <1>5 DEF EndsIn, Ends
  <1>7. PICK x \in Nat : x = w * p
    OBVIOUS
  <1>8. Names(e, x, t)
    <2>1. 0 \in Nat /\ 0 + t = t /\ Pow(0) = 1
      BY PowSmall
    <2>2. (a + 0) * 1 <= x /\ x < ((a + 0) + r) * 1
      BY <1>6, <1>7
    <2> QED BY <1>4, <2>1, <2>2 DEF Names, NamesPart
  <1>9. NextNamed(s, n, x, t)
    BY <1>1, <1>8, AllNamed
  <1>10. PICK l, i, d : NextToken(s, n, l, i, d) /\ NamesPart(EncoderAt(s, n), l, i, x, t)
    BY <1>9 DEF NextNamed
  <1>11. l \in Nat /\ i \in Nat
    BY <1>10 DEF NextToken, CodesAs, TakesPart
  <1>12. PICK u \in Nat : u = Shifts(EncoderAt(s, n))
    <2>1. n \in 0 .. Len(s)
      BY <1>2
    <2> QED BY <2>1, AllFit DEF FitsUnit
  <1>13. PICK g \in Nat :
           /\ g + u = t
           /\ (Exact(EncoderAt(s, n)) + l) * Pow(g) <= x
           /\ x < ((Exact(EncoderAt(s, n)) + l) + i) * Pow(g)
    BY <1>10, <1>12 DEF NamesPart
  <1>14. g + u + 15 = q + 8 * m
    <2>1. q + 8 * m = t + 15 /\ g + u = t
      BY <1>6, <1>13
    <2> QED BY <1>5, <2>1
  <1>15. ByteRange(b, q, Exact(EncoderAt(s, n)) + l, (Exact(EncoderAt(s, n)) + l) + i, u)
    BY <1>4, <1>5, <1>7, <1>13, <1>14 DEF ByteRange
  <1> QED BY <1>5, <1>10, <1>11, <1>12, <1>15

\* The decoder reads the next symbol.
LEMMA DecoderReads ==
  ASSUME NEW s \in Seq(CodedPairs), NEW b, NEW q, EndsIn(b, q, s), NEW n \in 0 .. Len(s) - 1,
         NEW d, InStep(d, s, n, b)
  PROVE  InStep(ReadOne(d, s[n + 1]), s, n + 1, b)
PROOF
  <1>0. PICK l \in Nat, i \in Nat : \E h :
          /\ NextToken(s, n, l, i, h) /\ q \in Nat
          /\ ByteRange(b, q, Exact(EncoderAt(s, n)) + l, (Exact(EncoderAt(s, n)) + l) + i,
                       Shifts(EncoderAt(s, n)))
    BY BytesInPart
  <1>1. PICK h :
          /\ NextToken(s, n, l, i, h) /\ q \in Nat
          /\ ByteRange(b, q, Exact(EncoderAt(s, n)) + l, (Exact(EncoderAt(s, n)) + l) + i,
                       Shifts(EncoderAt(s, n)))
    BY <1>0
  <1>2. PICK e, y, x, k : /\ e = EncoderAt(s, n) /\ y = EncoderAt(s, n + 1)
                          /\ x = CdfAt(s, n) /\ k = s[n + 1][2]
    OBVIOUS
  <1>3. n \in 0 .. Len(s)
    OBVIOUS
  <1>4. EncoderSound(e) /\ FitsUnit(e)
    BY <1>2, <1>3, AllCoded, AllFit
  <1>5. PICK a \in Nat, r \in Nat, t \in Nat : a = Exact(e) /\ r = e.rng /\ t = Shifts(e) /\ InRange(r)
    BY <1>4 DEF FitsUnit, EncoderSound
  <1>6. CodesAs(e, x, k, l, i, h, y)
    BY <1>1, <1>2 DEF NextToken
  <1>7. IsCdf(x) /\ k \in 0 .. Len(x) - 1
    BY <1>2, <1>4, NextCoded
  <1>8. LiesIn(r, x, k, l, i, h)
    BY <1>5, <1>6, <1>7 DEF CodesAs, LiesIn
  <1>9. Exact(y) = (a + l) * Pow(h) /\ y.rng = i * Pow(h) /\ Shifts(y) = t + h
    BY <1>5, <1>6 DEF CodesAs, StoreGives
  <1>10. ReaderReady(d.rd, b, a, r, t)
    BY <1>2, <1>5 DEF InStep
  <1>11. /\ read_symbol(d.rd, x).symbol = k
         /\ ReaderReady(read_symbol(d.rd, x).rd, b, (a + l) * Pow(h), i * Pow(h), t + h)
    <2>1. Bytes(b)
      BY DEF EndsIn
    <2>2. ByteRange(b, q, a + l, (a + l) + i, t) /\ q \in Nat
      BY <1>1, <1>2, <1>5
    <2> QED BY <1>5, <1>7, <1>8, <1>10, <2>1, <2>2, SymbolRead
  <1>12. PICK p \in CodedPairs, z \in Seq(CodedPairs) :
           p = s[n + 1] /\ z = SubSeq(s, 1, n) /\ SubSeq(s, 1, n + 1) = Append(z, p)
    <2>1. /\ SubSeq(s, 1, n) \in Seq(CodedPairs) /\ s[n + 1] \in CodedPairs
          /\ SubSeq(s, 1, n + 1) = Append(SubSeq(s, 1, n), s[n + 1])
      BY PrefixGrows
    <2> QED BY <2>1
  <1>13. d.fc = Adapted(z) /\ d.ok /\ x = Cdf(d.fc, p[1])
    BY <1>2, <1>12 DEF InStep, CdfAt
  <1>14. Adapted(SubSeq(s, 1, n + 1)) = Updated(d.fc, p[1], p[2])
    <2>1. z \in Seq(Written) /\ p \in Written
      <3>1. CodedPairs \subseteq Written
        BY DEF CodedPairs
      <3> QED BY <1>12, <3>1
    <2>2. Adapted(Append(z, p)) = AdaptedTo(Adapted(z), p)
      BY <2>1, AdaptedFacts
    <2> QED BY <1>12, <1>13, <2>2 DEF AdaptedTo
  <1>15. PICK c : c = ReadOne(d, p)
    OBVIOUS
  <1>16. c.rd = read_symbol(d.rd, x).rd /\ c.fc = Updated(d.fc, p[1], p[2]) /\ c.ok
    <2>1. p[2] = k
      BY <1>2, <1>12
    <2> QED BY <1>11, <1>13, <1>15, <2>1 DEF ReadOne
  <1> QED BY <1>2, <1>9, <1>11, <1>12, <1>14, <1>15, <1>16 DEF InStep

\* The decoder reads all symbols.
LEMMA DecoderReadsAll ==
  ASSUME NEW s \in Seq(CodedPairs), NEW b, b = done(Encoded(s))
  PROVE  DecoderAfter(Len(s), s, b)[Len(s)].ok
PROOF
  <1>1. PICK N \in Nat : N = Len(s)
    OBVIOUS
  <1>2. PICK q : EndsIn(b, q, s)
    <2>1. N \in 0 .. N
      OBVIOUS
    <2>2. EncoderSound(Encoded(s)) /\ FitsUnit(Encoded(s))
      BY <1>1, <2>1, AllCoded, AllFit
    <2> QED BY <2>2, DoneFacts DEF EndsIn
  <1>3. PICK h : h = DecoderAfter(N, s, b) /\ IsDecoder(h, N, s, b)
    BY DecoderExists DEF DecoderAfter
  <1>4. \A n \in 0 .. N : h[n] = IF n = 0 THEN DecoderOf(b) ELSE ReadOne(h[n - 1], s[n])
    BY <1>3 DEF IsDecoder
  <1> DEFINE S == {n \in 0 .. N : InStep(h[n], s, n, b)}
  <1>5. 0 \in S
    <2>1. 0 \in 0 .. N
      OBVIOUS
    <2>2. h[0] = DecoderOf(b)
      BY <1>4, <2>1
    <2>3. SubSeq(s, 1, 0) = <<>> /\ Adapted(<<>>) = InitialFc
      BY AdaptedFacts
    <2>4. EncoderAt(s, 0) = NewEncoder /\ Exact(EncoderAt(s, 0)) = 0 /\ Shifts(EncoderAt(s, 0)) = 0
      BY AllCoded
    <2>5. EncoderAt(s, 0).rng = 32768
      BY <2>4 DEF NewEncoder
    <2>6. ReaderReady(NewReader(b), b, 0, 32768, 0)
      <3>1. Bytes(b)
        BY <1>2 DEF EndsIn
      <3> QED BY <3>1, NewReaderReady
    <2>7. InStep(h[0], s, 0, b)
      <3>1. h[0].ok /\ h[0].fc = InitialFc /\ h[0].rd = NewReader(b)
        BY <2>2 DEF DecoderOf
      <3>2. h[0].fc = Adapted(SubSeq(s, 1, 0))
        BY <2>3, <3>1
      <3>3. ReaderReady(h[0].rd, b, Exact(EncoderAt(s, 0)), EncoderAt(s, 0).rng,
                        Shifts(EncoderAt(s, 0)))
        BY <2>4, <2>5, <2>6, <3>1
      <3> QED BY <3>1, <3>2, <3>3 DEF InStep
    <2> QED BY <2>1, <2>7
  <1>6. ASSUME NEW n \in 0 .. N - 1, n \in S PROVE n + 1 \in S
    <2>1. n \in 0 .. Len(s) - 1 /\ n + 1 \in 0 .. N /\ n + 1 # 0 /\ (n + 1) - 1 = n
      BY <1>1
    <2>2. h[n + 1] = ReadOne(h[n], s[n + 1])
      BY <1>4, <2>1
    <2>3. InStep(ReadOne(h[n], s[n + 1]), s, n + 1, b)
      BY <1>2, <1>6, <2>1, DecoderReads
    <2> QED BY <2>1, <2>2, <2>3
  <1> HIDE DEF S
  <1>7. \A n \in 0 .. N : n \in S
    BY <1>5, <1>6, InductionUpTo
  <1>8. N \in 0 .. N
    OBVIOUS
  <1>9. InStep(h[N], s, N, b)
    BY <1>7, <1>8 DEF S
  <1> QED BY <1>1, <1>3, <1>9 DEF InStep

-----------------------------------------------------------------------------
(* The specification *)

\* The symbols are symbols of their CDFs, and the bytes are those of the
\* Encoder, to which nothing is added.
StoredInv ==
  /\ stored \in Seq(CodedPairs) /\ pending \in Seq(CodedPairs)
  /\ out # <<>> => marks = <<>> /\ pending = <<>> /\ out = done(enc)

\* It holds when a tile begins.
LEMMA StoredInvInit == SwInit => StoredInv
PROOF
  <1>1. SwInit => stored = <<>> /\ pending = <<>> /\ out = <<>>
    BY DEF SwInit
  <1>2. <<>> \in Seq(CodedPairs)
    OBVIOUS
  <1> QED BY <1>1, <1>2 DEF StoredInv

\* Every step keeps this.
LEMMA StoredInvNext == StoredInv /\ SwInv /\ [SwNext]_swVars => StoredInv'
PROOF
  <1> SUFFICES ASSUME StoredInv, SwInv, [SwNext]_swVars PROVE StoredInv'
    OBVIOUS
  <1>1. /\ stored \in Seq(CodedPairs) /\ pending \in Seq(CodedPairs)
        /\ out # <<>> => marks = <<>> /\ pending = <<>> /\ out = done(enc)
    BY DEF StoredInv
  <1>2. ASSUME NEW p \in Symbols PROVE <<p[1], p[2]>> \in CodedPairs
    <2>1. p[1] \in Cdfs /\ p[2] \in Nat /\ p[2] < Layout[p[1]].len
      <3>1. p[1] \in DOMAIN Layout /\ p[2] \in 0 .. Layout[p[1]].len - 1
        BY WriterAssumption
      <3>2. Layout[p[1]].len \in Nat
        BY <3>1, LayoutAssumption
      <3> QED BY <3>1, <3>2 DEF Cdfs
    <2> QED BY <2>1 DEF CodedPairs, Written
  <1>3. ASSUME NEW p \in Symbols, RecordSymbol(p[1], p[2]) PROVE StoredInv'
    <2>1. out = <<>> /\ out' = out /\ stored' = stored /\ pending' = Append(pending, <<p[1], p[2]>>)
      BY <1>3 DEF RecordSymbol, Room
    <2> QED BY <1>1, <1>2, <2>1 DEF StoredInv
  <1>4. ASSUME NEW p \in Symbols, WriteDirect(p[1], p[2]) PROVE StoredInv'
    <2>1. out = <<>> /\ out' = out /\ pending' = pending /\ stored' = Append(stored, <<p[1], p[2]>>)
      BY <1>4 DEF WriteDirect, Room
    <2> QED BY <1>1, <1>2, <2>1 DEF StoredInv
  <1>5. CASE Checkpoint
    <2>1. out = <<>> /\ out' = out /\ pending' = pending /\ stored' = stored
      BY <1>5 DEF Checkpoint
    <2> QED BY <1>1, <2>1 DEF StoredInv
  <1>6. CASE Rollback
    <2>1. PICK n : /\ n = marks[Len(marks)].w.backend_var /\ marks # <<>> /\ out' = out
                   /\ pending' = SubSeq(pending, 1, n) /\ stored' = stored
      BY <1>6 DEF Rollback
    <2>2. n \in 0 .. Len(pending)
      <3>1. IsSeq(marks) /\ \A k \in 1 .. Len(marks) : marks[k].w.backend_var \in 0 .. Len(pending)
        BY DEF SwInv, MarksInv
      <3>2. Len(marks) \in 1 .. Len(marks)
        BY <2>1, <3>1 DEF IsSeq
      <3> QED BY <2>1, <3>1, <3>2
    <2>3. SubSeq(pending, 1, n) \in Seq(CodedPairs)
      BY <1>1, <2>2
    <2>4. out = <<>>
      BY <1>1, <2>1
    <2> QED BY <1>1, <2>1, <2>3, <2>4 DEF StoredInv
  <1>7. CASE Decide
    <2>1. marks # <<>> /\ out' = out /\ pending' = pending /\ stored' = stored
      BY <1>7 DEF Decide
    <2> QED BY <1>1, <2>1 DEF StoredInv
  <1>8. CASE EndSuperblock
    <2>1. pending # <<>> /\ out' = out /\ pending' = <<>> /\ stored' = stored \o pending
      BY <1>8 DEF EndSuperblock
    <2>2. stored \o pending \in Seq(CodedPairs) /\ <<>> \in Seq(CodedPairs)
      BY <1>1
    <2> QED BY <1>1, <2>1, <2>2 DEF StoredInv
  <1>9. CASE EndTile
    <2>1. /\ marks' = <<>> /\ pending' = <<>> /\ pending' = pending /\ out' = done(enc)
          /\ stored' = stored /\ enc' = enc
      BY <1>9 DEF EndTile
    <2> QED BY <1>1, <2>1 DEF StoredInv
  <1>10. CASE TileDone \/ UNCHANGED swVars
    <2>1. UNCHANGED <<pending, enc, stored, marks, out>>
      BY <1>10 DEF TileDone, swVars
    <2> QED BY <1>1, <2>1 DEF StoredInv
  <1> QED BY <1>3, <1>4, <1>5, <1>6, <1>7, <1>8, <1>9, <1>10 DEF SwNext

\* The bytes of a tile are decoded to the symbols that were kept, by a decoder
\* that adapts its CDFs in their order, for every layout of CDFs, every
\* InitialFc that the tables allow, both windows, and any number of symbols:
\* the part of the range of a symbol is never empty, no carry leaves the first
\* byte, the last bytes identify the range although the Encoder writes as few
\* as it can, and the Reader may be given bytes beyond the end (WriterEncoder
\* and Reader of src/ec.rs, Writer::symbol_with_update, WriterRecorder::replay).
THEOREM BitstreamDecodesHolds == SwSpec => []BitstreamDecodes
PROOF
  <1>1. StoredInv /\ SwInv => BitstreamDecodes
    <2> SUFFICES ASSUME StoredInv, SwInv, out # <<>>
                 PROVE  DecoderAfter(Len(stored), stored, out)[Len(stored)].ok
      BY DecodesAs
    <2>1. stored \in Seq(CodedPairs) /\ out = done(Encoded(stored))
      BY DEF StoredInv, SwInv, RollbackComplete
    <2> QED BY <2>1, DecoderReadsAll
  <1> QED BY <1>1, StoredInvInit, SwInitInv, SwNextInv, StoredInvNext, PTL DEF SwSpec

\* The numbers of the Encoder have the widths of the code: a range of 16 bits, a
\* low end of 24, bytes with a carry in 16.
EncoderWidths ==
  /\ 2^15 <= enc.rng /\ enc.rng < 2^16 /\ -9 <= enc.cnt /\ enc.cnt <= -1
  /\ 0 <= enc.low /\ enc.low < 2^24
  /\ \A i \in 1 .. Len(enc.precarry) : 0 <= enc.precarry[i] /\ enc.precarry[i] < 2^9

\* What the model computes with integers fits the rng: u16, low: ec_window and
\* precarry: Vec<u16> of WriterBase and WriterEncoder (src/ec.rs), in every state.
THEOREM EncoderWidthsHold == SwSpec => []EncoderWidths
PROOF
  <1>1. StoredInv /\ SwInv => EncoderWidths
    <2> SUFFICES ASSUME StoredInv, SwInv PROVE EncoderWidths
      OBVIOUS
    <2>1. stored \in Seq(CodedPairs) /\ enc = Encoded(stored)
      BY DEF StoredInv, SwInv, RollbackComplete
    <2>2. EncoderSound(enc)
      <3>1. Len(stored) \in 0 .. Len(stored)
        BY <2>1
      <3> QED BY <2>1, <3>1, AllCoded
    <2>3. /\ enc \in [rng : Nat, cnt : Int, low : Nat, precarry : Seq(Nat)]
          /\ enc.low + enc.rng <= 512 * Pow(enc.cnt + 16)
      BY <2>2 DEF EncoderSound
    <2>4. /\ 32768 <= enc.rng /\ enc.rng < 65536 /\ -9 <= enc.cnt /\ enc.cnt <= -1
          /\ \A i \in 1 .. Len(enc.precarry) : enc.precarry[i] < 512
      BY <2>2 DEF EncoderSound, InRange
    <2>5. PICK c \in Int, w \in Nat, r \in Nat, pre \in Seq(Nat) :
            c = enc.cnt /\ w = enc.low /\ r = enc.rng /\ pre = enc.precarry
      BY <2>3
    <2>6. PICK k \in Nat : k = c + 16 /\ k <= 15
      <3>1. c + 16 \in Nat /\ c + 16 <= 15
        BY <2>4, <2>5
      <3> QED BY <3>1
    <2>7. Pow(k) <= 32768
      <3>1. 15 \in Nat /\ Pow(15) = 32768
        BY PowSmall
      <3> QED BY <2>6, <3>1, PowGrows
    <2>8. w < 16777216
      <3>1. PICK p \in Nat : p = Pow(k)
        BY PowNat
      <3>2. w + r <= 512 * p /\ p <= 32768 /\ 32768 <= r
        BY <2>3, <2>4, <2>5, <2>6, <2>7, <3>1
      <3> QED BY <3>2
    <2>9. 2^15 = 32768 /\ 2^16 = 65536 /\ 2^24 = 16777216 /\ 2^9 = 512
      OBVIOUS
    <2>10. \A i \in 1 .. Len(enc.precarry) : 0 <= enc.precarry[i]
      BY <2>5
    <2>11. 0 <= enc.low /\ enc.low < 16777216
      BY <2>5, <2>8
    <2> QED BY <2>4, <2>9, <2>10, <2>11 DEF EncoderWidths
  <1> QED BY <1>1, StoredInvInit, SwInitInv, SwNextInv, StoredInvNext, PTL DEF SwSpec
=============================================================================
