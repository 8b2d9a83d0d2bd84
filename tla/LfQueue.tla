------------------------------ MODULE LfQueue ------------------------------
(***************************************************************************)
(* The tiles of a frame and the loop filter decisions of each (Sequence,   *)
(* encode_tile and check_lf_queue in encoder.rs, rdo_loop_decision in      *)
(* rdo.rs).  A superblock that has been encoded is queued until every      *)
(* restoration unit it belongs to is complete; then the filters of the     *)
(* area of the largest unit are decided together, and the parameters of a  *)
(* unit are coded in front of the first superblock that belongs to it.     *)
(*                                                                         *)
(* The tiles of a frame are independent of each other and are encoded in   *)
(* parallel; here one after the other.  A decision is whether it saw       *)
(* encoded blocks.  Sequence::new sets enable_delayed_loopfilter_rdo and   *)
(* enable_large_lru; the code for both values of them is modelled.         *)
(***************************************************************************)
EXTENDS Tiling, Sequences

CONSTANT Frames   \* the frames: as in Tiling, and `tiles`, `mono`, `delayed`, `cdef`

\* Sizes that fit 16 bits and that the greatest numbers of columns and rows divide
\* into tiles that are not too large, and the subsamplings there are.
ASSUME FramesAssumption ==
  \A g \in Frames : /\ {g.width, g.height} \subseteq Nat \ {0}
                    /\ g.width < 2^16 /\ g.height < 2^16
                    /\ Superblocks(g.width) <= (MAX_TILE_WIDTH \div 64) * MAX_TILE_COLS
                    /\ MAX_TILE_WIDTH * 64 * CeilDiv(Superblocks(g.height), MAX_TILE_ROWS)
                         <= MAX_TILE_AREA
                    /\ {g.cols, g.rows, g.tiles} \subseteq Nat
                    /\ {g.xdec, g.ydec} \subseteq {0, 1} /\ g.ydec <= g.xdec
                    /\ g.q \in 0 .. 2

VARIABLES
  f,        \* the frame
  target,   \* the numbers of tiles asked for, or Chosen
  ti,       \* its TilingInfo
  tile,     \* the tile that is encoded
  ts,       \* its place and its units: part of TileStateMut
  sb,       \* superblocks of it that have been encoded
  sbs_q,    \* superblocks of it that have not been written
  last_lru, \* last_lru_ready, last_lru_rdoed, last_lru_coded per plane
  cdef,     \* superblocks whose CDEF index has been decided
  lrf,      \* units whose filter has been decided
  written   \* what has been written for the superblocks of the frame

lfVars == <<f, target, ti, tile, ts, sb, sbs_q, last_lru, cdef, lrf, written>>

Chosen == [cols |-> -1, rows |-> -1]
Planes == IF f.mono THEN {0} ELSE {0, 1, 2}

NoneOf == [pli \in 0 .. 2 |-> -1]
FreshLast == [ready |-> NoneOf, rdoed |-> NoneOf, coded |-> NoneOf]

\* TileStateMut::new and TileRestorationStateMut::new
TileState(ti_, n) ==
  LET rect == TileRect(f, ti_, n)
  IN [x |-> rect.x, y |-> rect.y, w |-> rect.w, h |-> rect.h,
      rp |-> [pli \in Planes |-> RestorationPlane(f, ti_, pli)],
      units |-> [pli \in Planes |->
                   get_units_region(RestorationPlane(f, ti_, pli), rect)]]

LfInit ==
  /\ f \in Frames
  /\ target = IF f.tiles > 0 THEN [cols |-> 0, rows |-> 0] ELSE Chosen
  /\ ti = from_target_tiles(f, f.cols, f.rows)
  /\ ts = TileState(ti, 0)
  /\ tile = 0 /\ sb = 0 /\ sbs_q = <<>> /\ last_lru = FreshLast
  /\ cdef = {} /\ lrf = {} /\ written = {}

-----------------------------------------------------------------------------
(* The number of tiles *)

\* Some dimension can still be divided.
Divisible ==
  target.rows < TileLimits(f).max_rows \/ target.cols < TileLimits(f).max_cols

\* One iteration of the loop of Sequence::new for a wanted number of tiles.
ChooseTiles ==
  /\ target # Chosen
  /\ IF ~Divisible THEN target' = Chosen /\ UNCHANGED ti
     ELSE /\ ti' = from_target_tiles(f, target.cols, target.rows)
          /\ target' =
               IF ti'.rows * ti'.cols >= f.tiles THEN Chosen
               ELSE IF \/ /\ ti'.tile_height_sb >= ti'.tile_width_sb
                          /\ ti'.tile_rows_log2 < TileLimits(f).max_rows
                       \/ target.cols >= TileLimits(f).max_cols
               THEN [target EXCEPT !.rows = @ + 1]
               ELSE [target EXCEPT !.cols = @ + 1]
  /\ ts' = TileState(ti', 0)
  /\ UNCHANGED <<f, tile, sb, sbs_q, last_lru, cdef, lrf, written>>

-----------------------------------------------------------------------------
(* The units of a tile *)

rp(pli) == ts.rp[pli]
units(pli) == ts.units[pli]

\* restoration_unit_index without stretch: the unit of the tile that the
\* superblock belongs to, or none.
HasUnit(pli, x, y) ==
  /\ x \div rp(pli).h_sbs < units(pli).cols
  /\ y \div rp(pli).v_sbs < units(pli).rows

\* Its number in the tile (restoration_unit_countable), -1 for none.
lru_index(pli, x, y) ==
  IF HasUnit(pli, x, y)
  THEN (y \div rp(pli).v_sbs) * units(pli).cols + x \div rp(pli).h_sbs
  ELSE -1

\* Mutation: the last superblock of a unit is never the last of the frame.
last_sb_inside(pli, x, y) ==
  /\ x % rp(pli).h_sbs = rp(pli).h_sbs - 1 /\ x \div rp(pli).h_sbs < units(pli).cols
  /\ y % rp(pli).v_sbs = rp(pli).v_sbs - 1 /\ y \div rp(pli).v_sbs < units(pli).rows

restoration_unit_last_sb_for_rdo(pli, x, y) ==
  LET h == rp(pli).h_sbs
      v == rp(pli).v_sbs
  IN /\ \/ x % h = h - 1 /\ x \div h < units(pli).cols
        \/ ts.x + x = Superblocks(f.width) - 1
     /\ \/ y % v = v - 1 /\ y \div v < units(pli).rows
        \/ ts.y + y = Superblocks(f.height) - 1

-----------------------------------------------------------------------------
(* check_lf_queue *)

\* The size of the largest unit in superblocks.
sb_w == Max({rp(pli).h_sbs : pli \in Planes})
sb_h == Max({rp(pli).v_sbs : pli \in Planes})

\* The superblocks of the largest unit, from a base on, that are in the tile.
RdoArea(qe) ==
  (qe.x .. AtMost(qe.x + sb_w, ts.w) - 1) \X (qe.y .. AtMost(qe.y + sb_h, ts.h) - 1)

\* The units in that area, by the superblock at their corner.
RdoUnits(qe) ==
  {u \in Planes \X (qe.x .. qe.x + sb_w - 1) \X (qe.y .. qe.y + sb_h - 1) :
     /\ (u[2] - qe.x) % rp(u[1]).h_sbs = 0 /\ (u[3] - qe.y) % rp(u[1]).v_sbs = 0
     /\ HasUnit(u[1], u[2], u[3])}

\* A superblock of the tile has been encoded, n of them have.
EncodedSb(n, x, y) == y * ts.w + x < n

\* All superblocks of the tile that belong to the unit have been encoded.
CompleteUnit(n, pli, i) ==
  \A x \in 0 .. ts.w - 1, y \in 0 .. ts.h - 1 :
    lru_index(pli, x, y) = i => EncodedSb(n, x, y)

\* rdo_loop_decision: the decisions for an area, made anew.
rdo_loop_decision(s, qe) ==
  LET area  == RdoArea(qe)
      inside == {<<u[1], lru_index(u[1], u[2], u[3])>> : u \in RdoUnits(qe)}
  IN [s EXCEPT
       !.cdef = (@ \ area) \cup {b \in area : EncodedSb(s.n, b[1], b[2])},
       !.lrf = IF ~f.restoration THEN @
               ELSE (@ \ inside) \cup {u \in inside : CompleteUnit(s.n, u[1], u[2])},
       !.last.rdoed = [pli \in 0 .. 2 |-> IF pli \in Planes
                                          THEN AtLeast(@[pli], qe.lru[pli]) ELSE @[pli]]]

\* Mutation: a decision in any plane, stretched units (-1) included, counts.
already_rdoed_stretched(s, qe) ==
  \E pli \in Planes : qe.lru[pli] <= s.last.rdoed[pli]

already_rdoed(s, qe) ==
  \E pli \in Planes : qe.lru[pli] # -1 /\ qe.lru[pli] <= s.last.rdoed[pli]

\* The superblock is written: the units it is the first of, then its blocks
\* with the CDEF index in the middle.
WriteSb(s, qe) ==
  LET now == {pli \in Planes : f.restoration /\ qe.lru[pli] # -1
                                 /\ s.last.coded[pli] < qe.lru[pli]}
  IN [s EXCEPT
       !.last.coded = [pli \in 0 .. 2 |-> IF pli \in now THEN qe.lru[pli] ELSE @[pli]],
       !.written = @ \cup
         {[x |-> ts.x + qe.x, y |-> ts.y + qe.y,
           lrf |-> {<<pli, units(pli).x + qe.x \div rp(pli).h_sbs,
                           units(pli).y + qe.y \div rp(pli).v_sbs>> : pli \in now},
           decided |-> /\ qe.cdef_coded => <<qe.x, qe.y>> \in s.cdef
                       /\ \A pli \in now : <<pli, qe.lru[pli]>> \in s.lrf]},
       !.q = Tail(@)]

\* One entry at the head of the queue; the walk ends at the first that waits.
CheckHead(s, qe) ==
  IF s.wait \/ \E pli \in Planes : qe.lru[pli] > s.last.ready[pli]
  THEN [s EXCEPT !.wait = TRUE]
  ELSE IF (qe.cdef_coded \/ f.restoration) /\ ~already_rdoed(s, qe)
  THEN WriteSb(rdo_loop_decision(s, qe), qe)
  ELSE WriteSb(s, qe)

check_lf_queue(s) ==
  LET walk[n \in 0 .. Len(s.q)] == IF n = 0 THEN s ELSE CheckHead(walk[n - 1], s.q[n])
  IN walk[Len(s.q)]

-----------------------------------------------------------------------------
(* encode_tile *)

\* Whether a CDEF index is coded in the superblock: not if all is skipped.
CdefCoded(x, y) ==
  CASE f.cdef = "all" -> TRUE
    [] f.cdef = "none" -> FALSE
    [] f.cdef = "odd" -> (x + y) % 2 = 1

Encoding == target = Chosen /\ tile < ti.cols * ti.rows

Walk(entry, last, n) ==
  [n |-> n, q |-> Append(sbs_q, entry), last |-> last, cdef |-> cdef, lrf |-> lrf,
   written |-> written, wait |-> FALSE]

\* A superblock of the tile is encoded and queued; the queue is checked when a
\* unit is complete or the superblock is in none, or only at the end.
EncodeSb ==
  LET x == sb % ts.w
      y == sb \div ts.w
      lru == [pli \in 0 .. 2 |-> IF pli \in Planes THEN lru_index(pli, x, y) ELSE -1]
      done == {pli \in Planes : lru[pli] # -1 /\ restoration_unit_last_sb_for_rdo(pli, x, y)}
      last == [last_lru EXCEPT
                 !.ready = [pli \in 0 .. 2 |-> IF pli \in done THEN lru[pli] ELSE @[pli]]]
      s0 == Walk([x |-> x, y |-> y, lru |-> lru, cdef_coded |-> CdefCoded(x, y)], last, sb + 1)
      check == IF f.delayed THEN sb + 1 = ts.w * ts.h
               ELSE done # {} \/ \E pli \in Planes : lru[pli] = -1
      s == IF check THEN check_lf_queue(s0) ELSE s0
  IN /\ Encoding /\ sb < ts.w * ts.h
     /\ sb' = sb + 1
     /\ sbs_q' = s.q /\ last_lru' = s.last /\ cdef' = s.cdef /\ lrf' = s.lrf
     /\ written' = s.written
     /\ UNCHANGED <<f, target, ti, tile, ts>>

\* The next tile.
NextTile ==
  /\ Encoding /\ sb = ts.w * ts.h
  /\ tile' = tile + 1
  /\ ts' = IF tile' < ti.cols * ti.rows THEN TileState(ti, tile') ELSE ts
  /\ sb' = 0 /\ sbs_q' = <<>> /\ last_lru' = FreshLast /\ cdef' = {} /\ lrf' = {}
  /\ UNCHANGED <<f, target, ti, written>>

FrameDone == target = Chosen /\ tile = ti.cols * ti.rows /\ UNCHANGED lfVars

LfNext == ChooseTiles \/ EncodeSb \/ NextTile \/ FrameDone

LfSpec == LfInit /\ [][LfNext]_lfVars

-----------------------------------------------------------------------------
(* Correctness *)

\* The division of the frame is sound: from_target_tiles and get_units_region
\* meet their assertions, no tile is wider than the bitstream allows, and the
\* units of a tile are whole ones of the frame.
DivisionSound ==
  target = Chosen =>
    /\ ti.ok
    /\ ti.tile_width_sb <= MAX_TILE_WIDTH \div 64
    /\ tile < ti.cols * ti.rows => \A pli \in Planes : units(pli).ok

\* The assertion at the end of encode_tile: no superblock is left in the queue,
\* waiting for a unit that is never complete.
QueueDrains == Encoding /\ sb = ts.w * ts.h => sbs_q = <<>>

\* What is written has been decided before, from encoded blocks: the CDEF index
\* of a superblock and the filter of every unit, although an area may be
\* decided before all of it is encoded, and again.
DecidedBeforeWritten == \A r \in written : r.decided

\* External, AV1 specification (read_lr): the units a decoder reads at a
\* superblock of the frame, those whose corner is in it.
read_lr(x, y) ==
  LET range(at, dec, size, count) ==
        LET px == 64 \div 2^dec
        IN CeilDiv(at * px, size) .. AtMost(CeilDiv((at + 1) * px, size), count) - 1
  IN UNION {{pli} \X range(x, xdec(f, pli), rp(pli).unit_size, rp(pli).cols)
                  \X range(y, ydec(f, pli), rp(pli).unit_size, rp(pli).rows) :
            pli \in Planes}

\* Every unit of the frame is coded once, at the superblock where a decoder
\* reads it, whatever the tiles, the sizes of the units and the stretch.
LrfCodedWhereRead ==
  \A r \in written : f.restoration => r.lrf = read_lr(r.x, r.y)

\* What the documentation of EncoderConfig::tiles promises: the number is
\* reached, rounded up, wherever the limits allow as many.
TilesReached ==
  LET most == from_target_tiles(f, TileLimits(f).max_cols, TileLimits(f).max_rows)
  IN target = Chosen /\ f.tiles > 0 /\ most.cols * most.rows >= f.tiles
       => ti.cols * ti.rows >= f.tiles
=============================================================================
