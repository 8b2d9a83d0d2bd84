---------------------------- MODULE IntegerCodes ----------------------------
(***************************************************************************)
(* The codes for integers of src/ec.rs (Writer and BCodeWriter): literal,  *)
(* Golomb, quasi-uniform, finite subexponential, the last also relative to *)
(* a reference; filter taps, global motion and large coefficients are      *)
(* written with them.  A code is a sequence of bits.  The functions that   *)
(* only count bits for mode decision are separate code.                    *)
(***************************************************************************)
EXTENDS Integers, Sequences

CONSTANT Jobs   \* what is coded: [code, n, k, r, v], v and r from 0 .. n - 1

\* Numbers for which the shifts and sums of the code do not overflow 32 bits.
ASSUME JobsAssumption ==
  \A j \in Jobs : /\ j.code \in {"golomb", "quniform", "subexp"}
                  /\ {j.n, j.k, j.r, j.v} \subseteq Nat
                  /\ j.r < j.n /\ j.v < j.n
                  /\ j.n <= 2^30 /\ j.k <= 15

VARIABLES
  job,    \* the value to be coded
  bits    \* its code, or NotCoded

codeVars == <<job, bits>>

NotCoded == <<-1>>

-----------------------------------------------------------------------------
(* Writer *)

\* 32 - leading_zeros
bit_length(x) == CHOOSE l \in 0 .. 31 : x < 2^l /\ \A m \in 0 .. l - 1 : x >= 2^m

literal(count, s) == [i \in 1 .. count |-> (s \div 2^(count - i)) % 2]

write_golomb(level) ==
  LET length == bit_length(level + 1)
  IN [i \in 1 .. length - 1 |-> 0] \o literal(length, level + 1)

write_quniform(n, v) ==
  LET l == bit_length(n)
      m == 2^l - n
  IN IF n <= 1 THEN <<>>
     ELSE IF v < m THEN literal(l - 1, v)
     ELSE literal(l - 1, m + (v - m) \div 2) \o literal(1, (v - m) % 2)

count_quniform(n, v) ==
  LET l == bit_length(n)
  IN IF n <= 1 THEN 0 ELSE IF v < 2^l - n THEN l - 1 ELSE l

\* The intervals of the subexponential code: the i-th begins at mk and has 2^b
\* values, or is the last one.
b_of(k, i) == IF i = 0 THEN k ELSE k + i - 1
mk_of(k, i) == IF i = 0 THEN 0 ELSE 2^(k + i - 1)
last_interval(n, k, i) == n <= mk_of(k, i) + 3 * 2^b_of(k, i)

\* The interval where the loop of write_subexp ends.
interval(n, k, v) ==
  CHOOSE i \in 0 .. 31 :
    /\ last_interval(n, k, i) \/ v < mk_of(k, i) + 2^b_of(k, i)
    /\ \A j \in 0 .. i - 1 : ~last_interval(n, k, j) /\ v >= mk_of(k, j) + 2^b_of(k, j)

write_subexp(n, k, v) ==
  LET i == interval(n, k, v)
      mk == mk_of(k, i)
      ones == [j \in 1 .. i |-> 1]
  IN IF last_interval(n, k, i) THEN ones \o write_quniform(n - mk, v - mk)
     ELSE ones \o <<0>> \o literal(b_of(k, i), v - mk)

count_subexp(n, k, v) ==
  LET i == interval(n, k, v)
      mk == mk_of(k, i)
  IN IF last_interval(n, k, i) THEN i + count_quniform(n - mk, v - mk)
     ELSE i + 1 + b_of(k, i)

\* Mutation: values just above twice the reference are folded.
recenter_wide(r, v) ==
  IF v > 2 * r + 1 THEN v ELSE IF v >= r THEN 2 * (v - r) ELSE 2 * (r - v) - 1

recenter(r, v) ==
  IF v > 2 * r THEN v ELSE IF v >= r THEN 2 * (v - r) ELSE 2 * (r - v) - 1

\* recenter_finite_nonneg: from the end that the reference is closer to.
recentered(n, r, v) ==
  IF 2 * r <= n THEN recenter(r, v) ELSE recenter(n - 1 - r, n - 1 - v)

write_unsigned_subexp_with_ref(n, k, r, v) == write_subexp(n, k, recentered(n, r, v))

count_unsigned_subexp_with_ref(n, k, r, v) == count_subexp(n, k, recentered(n, r, v))

-----------------------------------------------------------------------------
(* One value is coded *)

CodesInit == job \in Jobs /\ bits = NotCoded

Code ==
  /\ bits = NotCoded
  /\ bits' = CASE job.code = "golomb" -> write_golomb(job.v)
               [] job.code = "quniform" -> write_quniform(job.n, job.v)
               [] job.code = "subexp" ->
                    write_unsigned_subexp_with_ref(job.n, job.k, job.r, job.v)
  /\ UNCHANGED job

Coded == bits # NotCoded /\ UNCHANGED codeVars

CodesNext == Code \/ Coded

CodesSpec == CodesInit /\ [][CodesNext]_codeVars

-----------------------------------------------------------------------------
(* External: the parsing processes of the AV1 specification *)

Value(s) ==
  LET upto[n \in 0 .. Len(s)] == IF n = 0 THEN 0 ELSE 2 * upto[n - 1] + s[n]
  IN upto[Len(s)]
Drop(s, n) == SubSeq(s, n + 1, Len(s))

\* Golomb: as many bits after the first 1 as there were zeros before it.
decode_golomb(s) ==
  LET zeros == CHOOSE z \in 0 .. Len(s) - 1 :
                 s[z + 1] = 1 /\ \A i \in 1 .. z : s[i] = 0
  IN [v |-> Value(SubSeq(s, zeros + 1, 2 * zeros + 1)) - 1, used |-> 2 * zeros + 1]

\* ns(n) and decode_uniform
decode_ns(n, s) ==
  LET w == bit_length(n)
      m == 2^w - n
      v == Value(SubSeq(s, 1, w - 1))
  IN IF n <= 1 THEN [v |-> 0, used |-> 0]
     ELSE IF v < m THEN [v |-> v, used |-> w - 1]
     ELSE [v |-> 2 * v - m + s[w], used |-> w]

\* decode_subexp: more_bits until it is 0 or the rest is small.
decode_subexp(n, k, s) ==
  LET small(i) == n <= mk_of(k, i) + 3 * 2^b_of(k, i)
      i == CHOOSE i \in 0 .. Len(s) :
             /\ small(i) \/ (i < Len(s) /\ s[i + 1] = 0)
             /\ \A j \in 0 .. i - 1 : ~small(j) /\ s[j + 1] = 1
      tail == decode_ns(n - mk_of(k, i), Drop(s, i))
  IN IF small(i) THEN [v |-> mk_of(k, i) + tail.v, used |-> i + tail.used]
     ELSE [v |-> mk_of(k, i) + Value(SubSeq(s, i + 2, i + 1 + b_of(k, i))),
           used |-> i + 1 + b_of(k, i)]

inverse_recenter(r, v) ==
  IF v > 2 * r THEN v ELSE IF v % 2 = 1 THEN r - (v + 1) \div 2 ELSE r + v \div 2

decode_unsigned_subexp_with_ref(n, k, r, s) ==
  LET d == decode_subexp(n, k, s)
  IN [d EXCEPT !.v = IF 2 * r <= n THEN inverse_recenter(r, @)
                     ELSE n - 1 - inverse_recenter(n - 1 - r, @)]

-----------------------------------------------------------------------------
(* Correctness *)

\* A decoder reads the value that was coded, and no bit more or less, for every
\* size of the interval, parameter and reference; and the bits that mode
\* decision counts are the bits that are written.
CodesInvert ==
  bits # NotCoded =>
    LET d == CASE job.code = "golomb" -> decode_golomb(bits)
               [] job.code = "quniform" -> decode_ns(job.n, bits)
               [] job.code = "subexp" ->
                    decode_unsigned_subexp_with_ref(job.n, job.k, job.r, bits)
        counted == CASE job.code = "golomb" -> Len(bits)
                     [] job.code = "quniform" -> count_quniform(job.n, job.v)
                     [] job.code = "subexp" ->
                          count_unsigned_subexp_with_ref(job.n, job.k, job.r, job.v)
    IN d.v = job.v /\ d.used = Len(bits) /\ counted = Len(bits)
=============================================================================
