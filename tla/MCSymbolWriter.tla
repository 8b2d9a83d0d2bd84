--------------------------- MODULE MCSymbolWriter ---------------------------
(* Instances of SymbolWriter for TLC. *)
EXTENDS SymbolWriter

At(offset, len) == [offset |-> offset, len |-> len]

\* Small CDFs, large ones, and a large one that ends with padding; the entries
\* of a, b and c hold words of the CDF that follows.
MCLayout ==
  [a |-> At(0, 2), b |-> At(2, 2), lrf |-> At(4, 3),
   c |-> At(7, 4), d |-> At(11, 5), e |-> At(16, 4)]

\* Even and extreme distributions.
MCFc == LET words == <<16384, 0, 32640, 0, 20000, 9000, 0,
                       24000, 16000, 100, 0, 32700, 32690, 32680, 60, 0,
                       30000, 20000, 10000, 0, 0>>
        IN [i \in 0 .. 20 |-> words[i + 1]]

MCDirect == {"lrf"}
MCSymbols == {<<"a", 1>>, <<"b", 0>>, <<"lrf", 1>>, <<"c", 3>>, <<"d", 0>>, <<"d", 4>>}
=============================================================================
