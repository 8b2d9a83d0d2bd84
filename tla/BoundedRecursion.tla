-------------------------- MODULE BoundedRecursion --------------------------
(***************************************************************************)
(* Induction and recursion on 0 .. n in a first-order form: what holds is  *)
(* said with sets and functions, so that a proof can cite these facts      *)
(* where a theorem with an operator as parameter could not be used.        *)
(***************************************************************************)
EXTENDS Integers, WellFoundedInduction, TLAPS

\* A non-empty set of natural numbers has a least element.
LEMMA LeastElement ==
  ASSUME NEW S, S \subseteq Nat, S # {}
  PROVE  \E n \in S : \A m \in S : n <= m
PROOF
  <1> DEFINE less == OpToRel(<, Nat)
  <1>1. IsWellFoundedOn(less, Nat)
    BY NatLessThanWellFounded
  <1>2. \A i, j \in Nat : i < j => <<i, j>> \in less
    BY DEF OpToRel
  <1> HIDE DEF less
  <1>3. PICK n \in S : \A m \in S : ~(<<m, n>> \in less)
    BY <1>1, WFMin
  <1>4. ASSUME NEW m \in S PROVE n <= m
    <2>1. n \in Nat /\ m \in Nat /\ ~(m < n)
      BY <1>2, <1>3
    <2> QED BY <2>1
  <1> QED BY <1>3, <1>4

\* Induction up to n: a set with 0 and the successors of its elements.
LEMMA InductionUpTo ==
  ASSUME NEW n \in Nat, NEW S, 0 \in S,
         \A k \in 0 .. n - 1 : k \in S => k + 1 \in S
  PROVE  \A k \in 0 .. n : k \in S
PROOF
  <1> DEFINE Bad == {k \in 0 .. n : k \notin S}
  <1> SUFFICES ASSUME Bad # {} PROVE FALSE
    OBVIOUS
  <1>1. PICK k \in Bad : \A m \in Bad : k <= m
    <2>1. Bad \subseteq Nat
      OBVIOUS
    <2> HIDE DEF Bad
    <2> QED BY <2>1, LeastElement
  <1>2. k \in 0 .. n /\ k \notin S /\ k # 0
    BY <1>1
  <1>3. k - 1 \in 0 .. n - 1 /\ k - 1 \in 0 .. n /\ (k - 1) + 1 = k
    BY <1>2
  <1>4. k - 1 \notin S
    BY <1>2, <1>3
  <1> QED BY <1>1, <1>2, <1>3, <1>4

\* f starts at d and goes from f[k - 1] to f[k] by F.
StepsBy(f, n, d, F) == f[0] = d /\ \A k \in 1 .. n : f[k] = F[<<k, f[k - 1]>>]

\* A function can be defined step by step on 0 .. n.
LEMMA RecursionUpTo ==
  ASSUME NEW n \in Nat, NEW D, NEW d \in D, NEW F \in [(1 .. n) \X D -> D]
  PROVE  \E f \in [0 .. n -> D] : StepsBy(f, n, d, F)
PROOF
  <1> DEFINE Good == {m \in 0 .. n : \E f \in [0 .. m -> D] :
                        f[0] = d /\ \A k \in 1 .. m : f[k] = F[<<k, f[k - 1]>>]}
  <1>1. 0 \in Good
    <2> DEFINE f == [k \in 0 .. 0 |-> d]
    <2>1. f \in [0 .. 0 -> D] /\ f[0] = d
      OBVIOUS
    <2>2. \A k \in 1 .. 0 : f[k] = F[<<k, f[k - 1]>>]
      OBVIOUS
    <2>3. 0 \in 0 .. n
      OBVIOUS
    <2> HIDE DEF f
    <2> QED BY <2>1, <2>2, <2>3
  <1>2. ASSUME NEW m \in 0 .. n - 1, m \in Good PROVE m + 1 \in Good
    <2>1. PICK f \in [0 .. m -> D] :
            f[0] = d /\ \A k \in 1 .. m : f[k] = F[<<k, f[k - 1]>>]
      BY <1>2
    <2> DEFINE g == [k \in 0 .. m + 1 |-> IF k = m + 1 THEN F[<<m + 1, f[m]>>] ELSE f[k]]
    <2>2. F[<<m + 1, f[m]>>] \in D
      <3>1. m + 1 \in 1 .. n /\ f[m] \in D
        BY <2>1
      <3> QED BY <3>1
    <2>3. \A k \in 0 .. m + 1 : k # m + 1 => k \in 0 .. m
      OBVIOUS
    <2>4. g \in [0 .. m + 1 -> D]
      BY <2>1, <2>2, <2>3
    <2>5. g[0] = d
      BY <2>1
    <2>6. ASSUME NEW k \in 1 .. m + 1 PROVE g[k] = F[<<k, g[k - 1]>>]
      <3>1. k \in 0 .. m + 1 /\ k - 1 \in 0 .. m + 1 /\ k - 1 # m + 1
        OBVIOUS
      <3>2. g[k - 1] = f[k - 1]
        BY <3>1
      <3>3. CASE k = m + 1
        BY <3>1, <3>2, <3>3
      <3>4. CASE k # m + 1
        <4>1. k \in 1 .. m /\ g[k] = f[k]
          BY <3>1, <3>4
        <4> QED BY <2>1, <3>2, <4>1
      <3> QED BY <3>3, <3>4
    <2> HIDE DEF g
    <2> QED BY <2>4, <2>5, <2>6
  <1>3. n \in 0 .. n
    OBVIOUS
  <1>4. n \in Good
    <2> HIDE DEF Good
    <2> QED BY <1>1, <1>2, <1>3, InductionUpTo
  <1> QED BY <1>4 DEF StepsBy
=============================================================================
