----------------------------- MODULE RangeCoder -----------------------------
(***************************************************************************)
(* The range coder of AV1 (src/ec.rs), with the numbers the code has: the  *)
(* Encoder, which turns tokens into bytes whose carries are resolved at    *)
(* the end; the Recorder, which keeps tokens and counts their bits; the    *)
(* adaptation of a CDF; and the Reader of the tests, which decodes.        *)
(*                                                                         *)
(* A CDF is a sequence of 15-bit numbers that fall from symbol to symbol,  *)
(* with the count of its adaptations as its last element; a symbol is a    *)
(* number from 0.                                                          *)
(***************************************************************************)
EXTENDS Integers, Sequences

CONSTANT WINDOW_SIZE   \* of the Reader; 32 in the code

ASSUME WindowAssumption == WINDOW_SIZE \in {24, 32}

EC_PROB_SHIFT == 6
EC_MIN_PROB == 4

\* leading_zeros of a range of 16 bits.
leading_zeros(r) == CHOOSE d \in 0 .. 15 : 2^15 <= r * 2^d /\ r * 2^d < 2^16

-----------------------------------------------------------------------------
(* Tokens *)

\* The part of the range below a CDF value.
scaled(rng, f) == ((rng \div 256) * (f \div 2^EC_PROB_SHIFT)) \div 2^(7 - EC_PROB_SHIFT)

\* Writer::symbol: what is stored for symbol s.
token(cdf, s) ==
  [fl |-> IF s > 0 THEN cdf[s] ELSE 32768, fh |-> cdf[s + 1], nms |-> Len(cdf) - s]

lr_compute(rng, t) ==
  LET u == IF t.fl >= 32768 THEN rng ELSE scaled(rng, t.fl) + EC_MIN_PROB * t.nms
      v == scaled(rng, t.fh) + EC_MIN_PROB * (t.nms - 1)
  IN [l |-> rng - u, r |-> u - v]

-----------------------------------------------------------------------------
(* The Recorder; a Counter is one without storage *)

NewRecorder == [rng |-> 32768, bits |-> 0, storage |-> <<>>]

record(rec, t) ==
  LET r == lr_compute(rec.rng, t).r
      d == leading_zeros(r)
  IN [rng |-> r * 2^d, bits |-> rec.bits + d, storage |-> Append(rec.storage, t)]

recorder_checkpoint(rec) ==
  [stream_size |-> rec.bits, backend_var |-> Len(rec.storage), rng |-> rec.rng]

recorder_rollback(rec, c) ==
  [rng |-> c.rng, bits |-> c.stream_size,
   storage |-> SubSeq(rec.storage, 1, c.backend_var)]

-----------------------------------------------------------------------------
(* The Encoder *)

NewEncoder == [rng |-> 32768, cnt |-> -9, low |-> 0, precarry |-> <<>>]

\* Up to two bytes leave the low end of the range, each with a carry.
store(enc, t) ==
  LET lr  == lr_compute(enc.rng, t)
      low == enc.low + lr.l
      d   == leading_zeros(lr.r)
      s   == enc.cnt + d
      c   == enc.cnt + 16
      c2  == IF s >= 8 THEN c - 8 ELSE c
      first == IF s >= 8 THEN <<low \div 2^c>> ELSE <<>>
      rest  == IF s >= 8 THEN low % 2^c ELSE low
  IN IF s < 0
     THEN [enc EXCEPT !.low = low * 2^d, !.rng = lr.r * 2^d, !.cnt = s]
     ELSE [low |-> (rest % 2^c2) * 2^d, rng |-> lr.r * 2^d, cnt |-> c2 + d - 24,
           precarry |-> enc.precarry \o first \o <<rest \div 2^c2>>]

replay(rec, enc) ==
  LET after[n \in 0 .. Len(rec.storage)] ==
        IF n = 0 THEN enc ELSE store(after[n - 1], rec.storage[n])
  IN after[Len(rec.storage)]

\* The last bytes: the smallest number of bits that identifies the range.
Terminated(enc) ==
  LET e0 == ((enc.low + 16383) \div 16384) * 16384
      e  == IF (e0 \div 16384) % 2 = 0 THEN e0 + 16384 ELSE e0
      s  == enc.cnt + 10
      c  == enc.cnt + 16
  IN enc.precarry
       \o (IF s > 0 THEN <<e \div 2^c>> ELSE <<>>)
       \o (IF s > 8 THEN <<(e % 2^c) \div 2^(c - 8)>> ELSE <<>>)

\* Mutation: a carry does not go further than one byte.
done_short_carry(enc) ==
  LET pre == Terminated(enc)
  IN [i \in DOMAIN pre |->
        (pre[i] + (IF i < Len(pre) THEN pre[i + 1] \div 256 ELSE 0)) % 256]

\* done: the carries go from the last byte to the first.
done(enc) ==
  LET pre == Terminated(enc)
      carry[i \in 1 .. Len(pre) + 1] ==
        IF i > Len(pre) THEN 0 ELSE (pre[i] + carry[i + 1]) \div 256
  IN [i \in DOMAIN pre |-> (pre[i] + carry[i + 1]) % 256]

-----------------------------------------------------------------------------
(* CDFs *)

update_cdf(cdf, val) ==
  LET n     == Len(cdf)
      count == cdf[n]
      rate  == 3 + (IF n \div 2 < 2 THEN n \div 2 ELSE 2) + count \div 16
  IN [i \in 1 .. n |->
        IF i = n THEN count + 1 - count \div 32
        ELSE IF i > val THEN cdf[i] - cdf[i] \div 2^rate
        ELSE cdf[i] + (32768 - cdf[i]) \div 2^rate]

-----------------------------------------------------------------------------
(* The Reader *)

\* Bytes that fit are moved into the window; the bits they are XORed with are
\* all set.
refill(rd) ==
  LET s == WINDOW_SIZE - 9 - (rd.cnt + 15)
      fit == IF s < 0 THEN 0 ELSE s \div 8 + 1
      left == Len(rd.buf) + 1 - rd.bptr
      n == IF fit < left THEN fit ELSE left
      moved[i \in 0 .. n] ==
        IF i = 0 THEN rd.dif
        ELSE moved[i - 1] - rd.buf[rd.bptr + i - 1] * 2^(s - 8 * (i - 1))
  IN [rd EXCEPT !.dif = moved[n], !.bptr = @ + n,
                !.cnt = IF n = left THEN 16384 ELSE @ + 8 * n]

NewReader(buf) ==
  refill([buf |-> buf, bptr |-> 1, dif |-> 2^(WINDOW_SIZE - 1) - 1,
          rng |-> 32768, cnt |-> -15])

normalize(rd, dif, rng) ==
  LET d == leading_zeros(rng)
      shifted == [rd EXCEPT !.cnt = @ - d, !.dif = (dif + 1) * 2^d - 1,
                            !.rng = rng * 2^d]
  IN IF shifted.cnt < 0 THEN refill(shifted) ELSE shifted

\* Reader::symbol: the symbol, and the Reader after it.
read_symbol(rd, cdf) ==
  LET c == rd.dif \div 2^(WINDOW_SIZE - 16)
      v == [i \in DOMAIN cdf |->
              scaled(rd.rng, cdf[i]) + EC_MIN_PROB * (Len(cdf) - i)]
      ret == CHOOSE s \in 0 .. Len(cdf) - 1 :
               c >= v[s + 1] /\ \A i \in 1 .. s : c < v[i]
      u == IF ret = 0 THEN rd.rng ELSE v[ret]
  IN [symbol |-> ret,
      rd |-> normalize(rd, rd.dif - v[ret + 1] * 2^(WINDOW_SIZE - 16), u - v[ret + 1])]
=============================================================================
