------------------------------ MODULE MCLfQueue ------------------------------
(* Instances of LfQueue for TLC. *)
EXTENDS LfQueue, TLC

\* 4:2:0, 4:2:2, 4:4:4 and monochrome.
Formats == {[xdec |-> 1, ydec |-> 1, mono |-> FALSE],
            [xdec |-> 1, ydec |-> 0, mono |-> FALSE],
            [xdec |-> 0, ydec |-> 0, mono |-> FALSE],
            [xdec |-> 0, ydec |-> 0, mono |-> TRUE]}

\* Sizes with and without a remainder of a superblock and of a unit.
Widths  == {33, 95, 191, 320, 351, 415, 543, 577}
Heights == {64, 159, 290, 383}

Frame(w, h, fmt) ==
  [width |-> w, height |-> h, xdec |-> fmt.xdec, ydec |-> fmt.ydec, mono |-> fmt.mono]

\* Large units, with tiles by their logarithms.
LargeUnits ==
  {[cols |-> cl, rows |-> rl, q |-> q, delayed |-> d, tiles |-> 0,
    large |-> TRUE, restoration |-> TRUE, cdef |-> "all"] @@ Frame(w, h, fmt) :
     w \in Widths, h \in Heights, fmt \in Formats,
     cl \in 0 .. 1, rl \in 0 .. 1, q \in 0 .. 2, d \in BOOLEAN}

\* The smallest units, with tiles by their number.
SmallUnits ==
  {[tiles |-> t, restoration |-> r, cdef |-> c, cols |-> 0, rows |-> 0, q |-> 2,
    large |-> FALSE, delayed |-> FALSE] @@ Frame(w, h, fmt) :
     w \in {95, 191, 320}, h \in {64, 159}, fmt \in Formats,
     t \in {0, 3, 5}, r \in BOOLEAN, c \in {"none", "odd", "all"}}

MCFrames == LargeUnits \cup SmallUnits
==============================================================================
