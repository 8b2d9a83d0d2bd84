------------------------------- MODULE Tiling -------------------------------
(***************************************************************************)
(* How a frame is divided: into superblocks of 64x64 pixels, into tiles    *)
(* (TilingInfo, tiling/tiler.rs) and, per plane, into loop restoration     *)
(* units (RestorationState, lrf.rs), which have their own size, may be     *)
(* larger than a superblock and stretch over a remainder of less than half *)
(* a unit.                                                                 *)
(*                                                                         *)
(* A frame is described by `f`: its size in pixels, its chroma subsampling *)
(* (xdec, ydec), the requested tiles (logarithms of columns and rows),     *)
(* enable_restoration, enable_large_lru and the shift that base_q_idx      *)
(* selects (0: above 200, 1: above 160, 2).  use_128x128_superblock is     *)
(* never set.                                                              *)
(***************************************************************************)
EXTENDS Integers, FiniteSetsExt

CONSTANTS
  MAX_TILE_WIDTH, MAX_TILE_AREA, MAX_TILE_COLS, MAX_TILE_ROWS,
  RateArea      \* pixels of a tile that MAX_TILE_RATE allows at the frame rate

\* Limits for which the logarithms below are at most 16 (those of the code are
\* 4096 and 4096 * 2304; RateArea as long as the frame rate is below 8900).
\* Tiles of the greatest width are an even number of superblocks wide.
ASSUME TilingAssumption ==
  /\ {MAX_TILE_WIDTH, MAX_TILE_AREA, MAX_TILE_COLS, MAX_TILE_ROWS, RateArea}
       \subseteq Nat \ {0}
  /\ MAX_TILE_WIDTH % 128 = 0 /\ MAX_TILE_AREA >= 2^16 /\ RateArea >= 2^16

CeilDiv(a, b) == (a + b - 1) \div b
AtMost(a, b) == IF a < b THEN a ELSE b
AtLeast(a, b) == IF a > b THEN a ELSE b

\* Mutation: the logarithm is rounded down.
tile_log2_floor(blk_size, target) ==
  Min({k \in 0 .. 16 : blk_size * 2^(k + 1) > target})

\* The smallest k such that blk_size << k reaches the target.
tile_log2(blk_size, target) ==
  Min({k \in 0 .. 16 : blk_size * 2^k >= target})

\* align_power_of_two_and_shift: superblocks of a length in pixels, which is
\* first aligned to 8.
Superblocks(pixels) == CeilDiv(pixels, 64)

is_422_p(f) == f.xdec = 1 /\ f.ydec = 0

\* The limits of the bitstream on the number of tiles.
TileLimits(f) ==
  LET sb_cols == Superblocks(f.width)
      sb_rows == Superblocks(f.height)
      area == CeilDiv(f.width, 8) * CeilDiv(f.height, 8) * 64
      min_cols == tile_log2(MAX_TILE_WIDTH \div 64, sb_cols)
      min_tiles == AtLeast(min_cols, tile_log2(MAX_TILE_AREA \div 4096, sb_cols * sb_rows))
  IN [min_cols |-> min_cols,
      max_cols |-> tile_log2(1, AtMost(sb_cols, MAX_TILE_COLS)),
      max_rows |-> tile_log2(1, AtMost(sb_rows, MAX_TILE_ROWS)),
      min_tiles |-> min_tiles,
      min_tiles_ratelimit |->
        AtLeast(min_tiles, tile_log2(1, CeilDiv(area, RateArea)))]

\* The width of a tile for 2^cols_log2 columns, even in 4:2:2, where units of
\* chroma are two superblocks wide.
tile_width_sb(f, cols_log2) ==
  LET pre == CeilDiv(Superblocks(f.width), 2^cols_log2)
  IN IF is_422_p(f) THEN 2 * CeilDiv(pre, 2) ELSE pre

\* TilingInfo::from_target_tiles.  `ok`: its assertion holds, and the bounds of
\* its clamps are in order (they panic otherwise).
from_target_tiles(f, cols_log2, rows_log2) ==
  LET lim == TileLimits(f)
      w == tile_width_sb(f, AtMost(AtLeast(cols_log2, lim.min_cols), lim.max_cols))
      cols == CeilDiv(Superblocks(f.width), w)
      clog == tile_log2(1, cols)
      min_rows == AtLeast(lim.min_tiles_ratelimit - clog, 0)
      rlog == AtMost(AtLeast(rows_log2, min_rows), lim.max_rows)
      h == CeilDiv(Superblocks(f.height), 2^rlog)
  IN [tile_width_sb |-> w, tile_height_sb |-> h,
      cols |-> cols, rows |-> CeilDiv(Superblocks(f.height), h),
      tile_cols_log2 |-> clog, tile_rows_log2 |-> rlog,
      ok |-> clog >= lim.min_cols /\ min_rows <= lim.max_rows]

\* The tiled view of TileContextIterMut: where tile number n begins and what it
\* has, in superblocks.
TileRect(f, ti, n) ==
  LET x == (n % ti.cols) * ti.tile_width_sb
      y == (n \div ti.cols) * ti.tile_height_sb
  IN [x |-> x, y |-> y,
      w |-> AtMost(ti.tile_width_sb, Superblocks(f.width) - x),
      h |-> AtMost(ti.tile_height_sb, Superblocks(f.height) - y)]

-----------------------------------------------------------------------------
(* Loop restoration units *)

xdec(f, pli) == IF pli = 0 THEN 0 ELSE f.xdec
ydec(f, pli) == IF pli = 0 THEN 0 ELSE f.ydec

\* A unit of `size` stretches at one of the edges of the chroma planes.
Stretches(f, size) ==
  \/ ((f.width \div 2^f.xdec) - 1) % size <= size \div 2
  \/ ((f.height \div 2^f.ydec) - 1) % size <= size \div 2

\* 4:2:0, the only format with units of their own for chroma.
stripe_uv_decimate(f) == f.xdec = 1 /\ f.ydec = 1

lrf_chroma_shift(f) ==
  IF ~stripe_uv_decimate(f) THEN 0
  ELSE IF f.q = 2 THEN 1
  ELSE LET size == 256 \div 2^f.q
       IN IF Stretches(f, size) /\ ~Stretches(f, size \div 2) THEN 1 ELSE 0

trailing_zeros(n) == Max({k \in 0 .. 10 : n % 2^k = 0})

\* Mutation: units are aligned with the width of the tiles only.
tile_aligned_y_unit_wide(ti) == 64 * 2^(trailing_zeros(ti.tile_width_sb))

\* The largest units that tiles are an integer number of, wide and high.
tile_aligned_y_unit_size(ti) ==
  64 * 2^(AtMost(trailing_zeros(ti.tile_width_sb), trailing_zeros(ti.tile_height_sb)))
tile_aligned_uv_unit_size(f, ti) ==
  AtMost((64 \div 2^f.xdec) * 2^(trailing_zeros(ti.tile_width_sb)),
         (64 \div 2^f.ydec) * 2^(trailing_zeros(ti.tile_height_sb)))

\* The sizes of units chosen by RestorationState::new; without vertical
\* subsampling both kinds of planes have the same.
UnitSizes(f, ti) ==
  LET large == f.large /\ f.restoration
      tiled == ti.cols > 1 \/ ti.rows > 1
      y0 == 256 \div 2^(IF large THEN f.q ELSE 2)
      uv0 == IF large THEN y0 \div 2^(lrf_chroma_shift(f))
             ELSE IF stripe_uv_decimate(f) THEN 32 ELSE 64
      y == IF tiled THEN AtMost(y0, tile_aligned_y_unit_size(ti)) ELSE y0
      uv == IF tiled THEN AtMost(uv0, tile_aligned_uv_unit_size(f, ti)) ELSE uv0
  IN IF f.ydec = 0 THEN [y |-> AtMost(y, uv), uv |-> AtMost(y, uv)]
     ELSE [y |-> y, uv |-> uv]

\* Units along a side of the frame: the last one stretches, or is short.
Units(pixels, dec, size) ==
  AtLeast((CeilDiv(pixels, 2^dec) + size \div 2) \div size, 1)

\* The RestorationPlane of plane pli; a unit is h_sbs superblocks wide (the
\* power of sb_h_shift) and v_sbs high.
RestorationPlane(f, ti, pli) ==
  LET s == UnitSizes(f, ti)
      size == IF pli = 0 THEN s.y ELSE s.uv
  IN [unit_size |-> size,
      h_sbs |-> size \div (64 \div 2^(xdec(f, pli))),
      v_sbs |-> size \div (64 \div 2^(ydec(f, pli))),
      cols |-> Units(f.width, xdec(f, pli), size),
      rows |-> Units(f.height, ydec(f, pli), size)]

\* get_units_region: the units of a plane that belong to a tile.  On edges it
\* may have none.  `ok`: its assertions hold.
get_units_region(rp, rect) ==
  LET x == rect.x \div rp.h_sbs
      y == rect.y \div rp.v_sbs
      c == CeilDiv(rect.w, rp.h_sbs)
      r == CeilDiv(rect.h, rp.v_sbs)
  IN [x |-> AtMost(x, rp.cols), y |-> AtMost(y, rp.rows),
      cols |-> AtMost(c, rp.cols - AtMost(x, rp.cols)),
      rows |-> AtMost(r, rp.rows - AtMost(y, rp.rows)),
      ok |-> /\ rect.x % rp.h_sbs = 0 /\ rect.y % rp.v_sbs = 0
             /\ x <= rp.cols /\ y <= rp.rows
             /\ x + c <= rp.cols + 1 /\ y + r <= rp.rows + 1]
=============================================================================
