---------------------------- MODULE TileGeometry ----------------------------
(***************************************************************************)
(* The arithmetic of tiling along one axis: calculate_tiles of tiling.cpp, *)
(* the part of an upscaled tile that process_with_tiling keeps, and where  *)
(* blend_tile puts it.  The code does the same for x and for y.            *)
(*                                                                         *)
(* "c" is the TilingConfig of the engine and "len" the width or height of  *)
(* the image.  The code divides in single precision, which for the images  *)
(* stb_image decodes (at most 2^24 pixels a side) gives the exact ceiling. *)
(***************************************************************************)
EXTENDS Integers

Larger(a, b) == IF a >= b THEN a ELSE b
Smaller(a, b) == IF a <= b THEN a ELSE b
CeilDiv(n, d) == (n + d - 1) \div d

TileStep(c) == c.tile_size - c.overlap

\* Mutant: the overlap of the first tile is forgotten, and one tile too few made.
TilesAlongShort(len, c) ==
  Larger(1, CeilDiv(Larger(0, len - c.tile_size), TileStep(c)))

\* tiles_x, tiles_y
TilesAlong(len, c) == Larger(1, CeilDiv(Larger(0, len - c.overlap), TileStep(c)))

\* Tile.x and Tile.width
TileStart(t, c) == t * TileStep(c)
TileLength(t, len, c) == Smaller(c.tile_size, len - TileStart(t, c))

\* Mutant: a tile is put where it begins, overlap and all.
OutputStartAtTile(t, c) == TileStart(t, c) * c.scale_factor

\* Tile.output_x
OutputStart(t, c) ==
  (IF t = 0 THEN 0 ELSE TileStart(t, c) + c.overlap) * c.scale_factor

\* Mutant: the overlap is not skipped.
SkippedNever(t, c) == 0

\* src_offset_x: what an upscaled tile repeats of the tile before it
Skipped(t, c) == IF OutputStart(t, c) > 0 THEN c.overlap * c.scale_factor ELSE 0

\* blend_width, then copy_width: how much of a tile upscaled to "up" is copied
Kept(t, up, c) == up - Skipped(t, c)
Copied(t, up, len, c) ==
  Larger(0, Smaller(Kept(t, up, c), len * c.scale_factor - OutputStart(t, c)))

----------------------------------------------------------------------------
\* The pixels of the output a tile contributes when the engine enlarges it by
\* scale_factor: OutputStart .. ContributionEnd - 1
ContributionEnd(t, len, c) ==
  OutputStart(t, c) + Copied(t, TileLength(t, len, c) * c.scale_factor, len, c)
=============================================================================
