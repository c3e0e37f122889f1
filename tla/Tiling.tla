------------------------------- MODULE Tiling -------------------------------
(***************************************************************************)
(* process_with_tiling of tiling_processor.cpp: one compressed image is    *)
(* decoded, given to the engine whole or tile by tile, put together and    *)
(* encoded.  process_rgb is here with what it does to the geometry: the    *)
(* padding of image_padding.hpp, the network, and the crop of              *)
(* NcnnUpscalerEngine::process_image.                                      *)
(*                                                                         *)
(* A pixel is the place in the decoded image it was computed from, or one  *)
(* of the two markers Black and Beyond where there is none.  The           *)
(* network (external) enlarges what it is given by the scale of the model  *)
(* that was loaded, which is not always get_scale_factor().                *)
(***************************************************************************)
EXTENDS TileGeometry, Sequences

CONSTANTS
  Jobs,           \* the images, options and models to consider
  Padding,        \* kDefaultUpscalerPadding (18)
  Overlap,        \* overlap of get_tiling_config (32)
  BaseTile,       \* its tile_size (512)
  BaseThreshold,  \* its thresholds (2048)
  IgpuTile,       \* tile_size of the integrated GPU profile (384)
  IgpuThreshold   \* its thresholds (1024)

Job == [width : Nat \ {0}, height : Nat \ {0},
        tile_size : Nat, igpu : BOOLEAN,             \* Options::tile_size, igpu_profile_
        scale : Nat \ {0}, model : Nat \ {0}]        \* get_scale_factor(), the model's

ASSUME JobAssumption == Jobs \subseteq Job
ASSUME TilingAssumption ==
  /\ Padding \in Nat \ {0} /\ Overlap \in Nat
  /\ BaseTile \in Nat /\ BaseTile > Overlap
  /\ BaseThreshold \in Nat \ {0}
  /\ IgpuTile \in Nat \ {0}
  /\ IgpuThreshold \in Nat \ {0}

VARIABLES
  job,
  pc,        \* where process_with_tiling is, or what it returned
  next,      \* i, the tile at hand
  piece,     \* what the engine was last given: its width and height
  upscaled,  \* the size of what the engine made of it
  output     \* output_rgb: for each pixel, what was written to it, in order

vars == <<job, pc, next, piece, upscaled, output>>

----------------------------------------------------------------------------
(* get_tiling_config and should_enable_tiling *)

BaseConfig ==
  [tile_size |-> BaseTile, overlap |-> Overlap, scale_factor |-> job.scale,
   threshold |-> BaseThreshold]

\* Mutant: the thresholds stay where they are when a tile size is asked for.
ConfigKeepingThreshold ==
  IF job.tile_size > 0
    THEN [BaseConfig EXCEPT !.tile_size = Larger(Overlap + 1, job.tile_size)]
  ELSE BaseConfig

\* threshold_width and threshold_height are always the same
Config ==
  IF job.tile_size > 0
    THEN [BaseConfig EXCEPT !.tile_size = Larger(Overlap + 1, job.tile_size),
                            !.threshold = Larger(Overlap + 1, job.tile_size)]
  ELSE IF job.igpu
    THEN [BaseConfig EXCEPT !.tile_size = Larger(Overlap + 1, IgpuTile),
                            !.threshold = Smaller(BaseThreshold, IgpuThreshold)]
  ELSE BaseConfig

NeedsTiling == job.width > Config.threshold \/ job.height > Config.threshold

\* calculate_tiles goes row by row
TilesX == TilesAlong(job.width, Config)
TilesY == TilesAlong(job.height, Config)
TileCount == TilesX * TilesY
TileX(i) == i % TilesX
TileY(i) == i \div TilesX
TileSize(i) == [width |-> TileLength(TileX(i), job.width, Config),
                height |-> TileLength(TileY(i), job.height, Config)]

----------------------------------------------------------------------------
(* process_rgb: pad, enlarge, crop *)

Black == -1    \* a padding pixel that nothing writes
Beyond == -2   \* whatever lies behind the image

Clamp(v, lo, hi) == Smaller(Larger(v, lo), hi)

\* (n + padding * 2 + 1) & ~1
Padded(n) == 2 * ((n + 2 * Padding + 1) \div 2)

\* pad_image repeats the border.  A width rounded up to an even number leaves a
\* last column that no loop writes; a row there repeats the last one.
PaddedColumn(x, n) == IF x < n + 2 * Padding THEN Clamp(x - Padding, 0, n - 1) ELSE Black
PaddedRow(y, n) == Clamp(y - Padding, 0, n - 1)

\* The network's output, and what is left of it
Full(n) == Padded(n) * job.model
NeedsCrop(p) ==
  Full(p.width) > p.width * job.scale \/ Full(p.height) > p.height * job.scale
FinalSize(p) ==
  IF NeedsCrop(p)
    THEN [width |-> p.width * job.scale, height |-> p.height * job.scale]
    ELSE [width |-> Full(p.width), height |-> Full(p.height)]

\* Mutant: the crop begins at the padding in source pixels.
CropStartUnscaled(full, final) == Smaller(Padding, Larger(0, full - final))

CropStart(full, final) == Smaller(Padding * job.scale, Larger(0, full - final))

\* Which pixel of piece p is seen at (x, y) of the image process_rgb returns.
\* Rows are taken at their offset in the full image.
UpscaledPixel(p, x, y) ==
  LET final == FinalSize(p)
      at == (CropStart(Full(p.height), final.height) + y) * Full(p.width)
              + CropStart(Full(p.width), final.width) + x
  IN IF at < Full(p.width) * Full(p.height)
       THEN <<PaddedColumn((at % Full(p.width)) \div job.model, p.width),
              PaddedRow((at \div Full(p.width)) \div job.model, p.height)>>
       ELSE <<Beyond, Beyond>>

----------------------------------------------------------------------------
Blank(w, h) == [p \in (0 .. w - 1) \X (0 .. h - 1) |-> <<>>]
Nothing == [width |-> 0, height |-> 0]

Init ==
  /\ job \in Jobs
  /\ pc = "decode"
  /\ next = 0
  /\ piece = Nothing
  /\ upscaled = Nothing
  /\ output = Blank(0, 0)

\* decode_image, then the choice and, for tiles, the zeroed output buffer
Decode ==
  /\ pc = "decode"
  /\ IF NeedsTiling
       THEN pc' = "tile" /\ output' = Blank(job.width * job.scale, job.height * job.scale)
       ELSE pc' = "direct" /\ UNCHANGED output
  /\ UNCHANGED <<job, next, piece, upscaled>>

\* The engine gets the whole image, and what it returns is the output.
ProcessDirectly ==
  /\ pc = "direct"
  /\ piece' = [width |-> job.width, height |-> job.height]
  /\ upscaled' = FinalSize(piece')
  /\ output' = [p \in (0 .. upscaled'.width - 1) \X (0 .. upscaled'.height - 1) |->
                  << [seen |-> UpscaledPixel(piece', p[1], p[2]), tile |-> 0] >>]
  /\ pc' = "encode"
  /\ UNCHANGED <<job, next>>

\* Mutant: the loop runs one tile too far.
ProcessTileTooFar ==
  /\ pc = "tile"
  /\ next <= TileCount
  /\ piece' = TileSize(next)
  /\ upscaled' = FinalSize(piece')
  /\ pc' = "blend"
  /\ UNCHANGED <<job, next, output>>

\* extract_tile and process_rgb
ProcessTile ==
  /\ pc = "tile"
  /\ next < TileCount
  /\ piece' = TileSize(next)
  /\ upscaled' = FinalSize(piece')
  /\ pc' = "blend"
  /\ UNCHANGED <<job, next, output>>

\* The source pixel that (x, y) of the upscaled tile i shows
TilePixel(i, x, y) ==
  LET seen == UpscaledPixel(piece, x, y) IN
  IF seen[1] >= 0
    THEN <<TileStart(TileX(i), Config) + seen[1], TileStart(TileY(i), Config) + seen[2]>>
    ELSE seen

\* A tile with nothing left after its overlap is skipped
KeepsPixels ==
  /\ Kept(TileX(next), upscaled.width, Config) > 0
  /\ Kept(TileY(next), upscaled.height, Config) > 0

InSpan(v, start, n) == v >= start /\ v < start + n

\* region_to_blend and blend_tile
BlendTile ==
  /\ pc = "blend"
  /\ KeepsPixels
  /\ LET ox == OutputStart(TileX(next), Config)
         oy == OutputStart(TileY(next), Config)
         sx == Skipped(TileX(next), Config)
         sy == Skipped(TileY(next), Config)
         cw == Copied(TileX(next), upscaled.width, job.width, Config)
         ch == Copied(TileY(next), upscaled.height, job.height, Config)
     IN output' = [p \in DOMAIN output |->
          IF InSpan(p[1], ox, cw) /\ InSpan(p[2], oy, ch)
            THEN Append(output[p],
                   [seen |-> TilePixel(next, p[1] - ox + sx, p[2] - oy + sy), tile |-> next])
            ELSE output[p]]
  /\ next' = next + 1
  /\ pc' = "tile"
  /\ UNCHANGED <<job, piece, upscaled>>

SkipTile ==
  /\ pc = "blend"
  /\ ~KeepsPixels
  /\ next' = next + 1
  /\ pc' = "tile"
  /\ UNCHANGED <<job, piece, upscaled, output>>

AllTiles ==
  /\ pc = "tile"
  /\ next = TileCount
  /\ pc' = "encode"
  /\ UNCHANGED <<job, next, piece, upscaled, output>>

Encode ==
  /\ pc = "encode"
  /\ pc' = "true"
  /\ UNCHANGED <<job, next, piece, upscaled, output>>

\* decode_image, process_rgb or encode_image returns false, or something throws
Fail ==
  /\ pc \in {"decode", "direct", "tile", "blend", "encode"}
  /\ pc = "tile" => next < TileCount
  /\ pc' = "false"
  /\ UNCHANGED <<job, next, piece, upscaled, output>>

Returned == pc \in {"true", "false"} /\ UNCHANGED vars

Next ==
  \/ Decode \/ ProcessDirectly
  \/ ProcessTile \/ BlendTile \/ SkipTile \/ AllTiles
  \/ Encode \/ Fail \/ Returned

Spec == Init /\ [][Next]_vars

----------------------------------------------------------------------------
(* Properties *)

Outcomes == {"true", "false"}
Size == [width : Nat, height : Nat]

\* Every variable keeps its type, and the tile at hand is one of the image's.
TypeOK ==
  /\ job \in Jobs
  /\ pc \in {"decode", "direct", "tile", "blend", "encode"} \cup Outcomes
  /\ next \in 0 .. TileCount
  /\ pc = "blend" => next < TileCount
  /\ piece \in Size /\ upscaled \in Size

\* The engine enlarges by what the geometry is computed from.
RightModel == job.model = job.scale

\* No two tiles write the same pixel: what is kept of a tile begins exactly
\* where the one before it ends (docs/TILING_IMPLEMENTATION.md:202-206).
WrittenOnce == \A p \in DOMAIN output : Len(output[p]) <= 1

\* Every pixel shows the part of the image that belongs there, neither a shifted
\* neighbour nor anything of the padding or of its odd column.
PixelsInPlace ==
  RightModel =>
    \A p \in DOMAIN output : \A k \in DOMAIN output[p] :
      output[p][k].seen = <<p[1] \div job.scale, p[2] \div job.scale>>

\* What goes to the encoder is the whole image at scale, without a gap.
NoGaps ==
  (RightModel /\ pc = "encode") =>
    /\ DOMAIN output = (0 .. job.width * job.scale - 1) \X (0 .. job.height * job.scale - 1)
    /\ \A p \in DOMAIN output : output[p] # <<>>

\* With --tile-size the engine is never given more than one tile at a time
\* (TODO.md:170), whether the image is tiled or not.
PieceBounded ==
  job.tile_size > 0 =>
    piece.width <= Config.tile_size /\ piece.height <= Config.tile_size

\* The part of the image that tile i holds
TileHolds(i, x, y) ==
  /\ InSpan(x, TileStart(TileX(i), Config), TileSize(i).width)
  /\ InSpan(y, TileStart(TileY(i), Config), TileSize(i).height)

\* A pixel kept from a tile was computed with the whole overlap in sight to its
\* left and above it, as far as the image goes.
OverlapBefore ==
  (RightModel /\ NeedsTiling) =>
    \A p \in DOMAIN output : \A k \in DOMAIN output[p] :
      LET x == output[p][k].seen[1]
          y == output[p][k].seen[2]
      IN TileHolds(output[p][k].tile, Larger(0, x - Overlap), Larger(0, y - Overlap))

\* What the overlap is for (tiling.hpp:25, "to avoid seams"): a pixel is computed
\* in sight of the pixels next to it, to the right and below as well.
NeighboursInSight ==
  (RightModel /\ NeedsTiling) =>
    \A p \in DOMAIN output : \A k \in DOMAIN output[p] :
      LET x == output[p][k].seen[1]
          y == output[p][k].seen[2]
      IN TileHolds(output[p][k].tile, Smaller(job.width - 1, x + 1),
                   Smaller(job.height - 1, y + 1))

\* What the comment at tiling_processor.cpp:104 says of every tile: the engine
\* returns it at its size times the scale, the padding cropped.
TilesAtScale ==
  pc = "blend" =>
    upscaled = [width |-> piece.width * job.scale, height |-> piece.height * job.scale]
=============================================================================
