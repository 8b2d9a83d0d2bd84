--------------------------- MODULE MCIntegerCodes ---------------------------
(* Instances of IntegerCodes for TLC. *)
EXTENDS IntegerCodes

Job(code, n, k, r, v) == [code |-> code, n |-> n, k |-> k, r |-> r, v |-> v]

Subexp(n, k) == {Job("subexp", n, k, r, v) : r \in 0 .. n - 1, v \in 0 .. n - 1}

\* All small intervals, and those of the first two Wiener taps.
MCJobs ==
  {Job("golomb", 70, 0, 0, v) : v \in 0 .. 69}
    \cup UNION {{Job("quniform", n, 0, 0, v) : v \in 0 .. n - 1} : n \in 1 .. 17}
    \cup UNION {Subexp(n, k) : n \in 1 .. 9, k \in 0 .. 2}
    \cup Subexp(16, 1) \cup Subexp(32, 2)
=============================================================================
