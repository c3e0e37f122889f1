---------------------------- MODULE TilingProofs ----------------------------
(***************************************************************************)
(* For any image, tile size, overlap and scale: along each axis the tiles  *)
(* contribute adjoining, non-empty spans that make up the whole output,    *)
(* and with --tile-size no piece given to the engine exceeds a tile.       *)
(*                                                                         *)
(* From these, for the image as it is put together: the padding of a tile  *)
(* and the crop of its output cancel, each tile owns the pixels of its two *)
(* spans and no other tile does, and every pixel has an owner. So the      *)
(* pixels written so far are those the owners among the tiles done would   *)
(* give (ImageInv), and at the end all of them.                            *)
(***************************************************************************)
EXTENDS Tiling, TLAPS

Facts == INSTANCE ProofFacts

TilingConfig == [tile_size : Nat, overlap : Nat, scale_factor : Nat \ {0}, threshold : Nat]
Sound(c) == c \in TilingConfig /\ c.tile_size > c.overlap

\* What the division yields, without the division.
LEMMA CeilDivBounds ==
  ASSUME NEW n \in Nat, NEW d \in Nat \ {0}
  PROVE  /\ CeilDiv(n, d) \in Nat
         /\ n <= CeilDiv(n, d) * d
         /\ CeilDiv(n, d) > 0 => (CeilDiv(n, d) - 1) * d < n
<1> DEFINE q == (n + d - 1) \div d
           r == (n + d - 1) % d
<1>1. q \in Int /\ r \in 0 .. d - 1 /\ n + d - 1 = d * q + r
  OBVIOUS
<1>2. q >= 0
  OBVIOUS
<1>3. d * q = q * d /\ (q - 1) * d = q * d - d
  BY <1>1
<1> HIDE DEF q, r
<1> QED BY <1>1, <1>2, <1>3 DEF CeilDiv, q

\* Every tile begins more than an overlap before the end of the image, the last
\* one reaches it, and a tile's start is a step beyond the one before it.
LEMMA TileBounds ==
  ASSUME NEW c, Sound(c), NEW len \in Nat \ {0}
  PROVE  /\ TilesAlong(len, c) \in Nat \ {0}
         /\ TileStep(c) \in Nat \ {0}
         /\ TileStart(0, c) = 0
         /\ \A t \in Nat : TileStart(t, c) \in Nat /\ TileStart(t + 1, c) = TileStart(t, c) + TileStep(c)
         /\ \A t \in 1 .. TilesAlong(len, c) - 1 : TileStart(t, c) + c.overlap < len
         /\ TileStart(TilesAlong(len, c) - 1, c) + c.tile_size >= len
<1> DEFINE step == TileStep(c)
           n == Larger(0, len - c.overlap)
           k == CeilDiv(n, step)
           N == TilesAlong(len, c)
<1>1. /\ c.tile_size \in Nat /\ c.overlap \in Nat /\ c.tile_size > c.overlap
      /\ step \in Nat \ {0} /\ n \in Nat /\ step + c.overlap = c.tile_size
  BY DEF Sound, TilingConfig, TileStep, Larger
<1>2. n = 0 \/ n = len - c.overlap
  BY DEF Larger
<1>3. n >= len - c.overlap
  BY <1>1 DEF Larger
<1>4. k \in Nat /\ n <= k * step /\ (k > 0 => (k - 1) * step < n)
  BY <1>1, CeilDivBounds
<1>5. N = (IF k > 0 THEN k ELSE 1) /\ N \in Nat \ {0}
  BY <1>4 DEF TilesAlong, Larger
<1>6. \A t : TileStart(t, c) = t * step
  BY DEF TileStart
<1> HIDE DEF step, n, k, N
<1>7. \A t \in Nat : t * step \in Nat /\ (t + 1) * step = t * step + step
  BY <1>1
<1>8. ASSUME NEW t \in 1 .. N - 1 PROVE t * step + c.overlap < len
  <2>1. k > 0 /\ N = k /\ n > 0
    BY <1>1, <1>4, <1>5, <1>7
  <2>2. t * step <= (k - 1) * step
    BY <2>1, <1>1, <1>4
  <2> QED BY <1>1, <1>2, <1>4, <1>7, <2>1, <2>2
<1>9. (N - 1) * step + c.tile_size >= len
  <2>1. N * step >= n
    BY <1>1, <1>4, <1>5
  <2>2. N - 1 \in Nat /\ N * step = (N - 1) * step + step
    BY <1>5, <1>1
  <2> QED BY <1>1, <1>3, <1>5, <1>7, <2>1, <2>2
<1>10. TileStart(0, c) = 0
  BY <1>1, <1>6
<1>11. ASSUME NEW t \in Nat
       PROVE TileStart(t, c) \in Nat /\ TileStart(t + 1, c) = TileStart(t, c) + step
  BY <1>6, <1>7
<1>12. \A t \in 1 .. N - 1 : TileStart(t, c) + c.overlap < len
  BY <1>6, <1>8
<1>13. TileStart(N - 1, c) + c.tile_size >= len
  BY <1>6, <1>9
<1> QED BY <1>1, <1>5, <1>10, <1>11, <1>12, <1>13 DEF step, N

\* What tile t contributes along an axis, in source pixels.
LEMMA Contribution ==
  ASSUME NEW c, Sound(c), NEW len \in Nat \ {0}, NEW t \in 0 .. TilesAlong(len, c) - 1
  PROVE  LET from == IF t = 0 THEN 0 ELSE TileStart(t, c) + c.overlap
             end == TileStart(t, c) + TileLength(t, len, c)
         IN /\ from \in Nat /\ end \in Nat /\ from < end /\ end <= len
            /\ end = (IF t = TilesAlong(len, c) - 1 THEN len ELSE TileStart(t + 1, c) + c.overlap)
            /\ OutputStart(t, c) = from * c.scale_factor
            /\ Skipped(t, c) = (from - TileStart(t, c)) * c.scale_factor
<1> DEFINE N == TilesAlong(len, c)
           start == TileStart(t, c)
           s == c.scale_factor
           from == IF t = 0 THEN 0 ELSE start + c.overlap
           end == start + TileLength(t, len, c)
<1>1. /\ c.tile_size \in Nat /\ c.overlap \in Nat /\ c.tile_size > c.overlap
      /\ s \in Nat \ {0} /\ TileStep(c) = c.tile_size - c.overlap
  BY DEF Sound, TilingConfig, TileStep
<1>2. /\ N \in Nat \ {0} /\ start \in Nat /\ t \in Nat
      /\ TileStart(0, c) = 0
      /\ TileStart(t + 1, c) = start + TileStep(c)
      /\ t # 0 => start + c.overlap < len
      /\ t # N - 1 => TileStart(t + 1, c) + c.overlap < len
      /\ t = N - 1 => start + c.tile_size >= len
  <2>1. N \in Nat \ {0} /\ t \in Nat
    BY TileBounds
  <2>2. /\ start \in Nat /\ TileStart(0, c) = 0
        /\ TileStart(t + 1, c) = start + TileStep(c)
    BY TileBounds, <2>1
  <2>3. t # 0 => start + c.overlap < len
    <3>1. t # 0 => t \in 1 .. N - 1
      BY <2>1
    <3> QED BY <3>1, TileBounds
  <2>4. t # N - 1 => TileStart(t + 1, c) + c.overlap < len
    <3>1. t # N - 1 => t + 1 \in 1 .. N - 1
      BY <2>1
    <3> QED BY <3>1, TileBounds
  <2>5. t = N - 1 => start + c.tile_size >= len
    BY TileBounds
  <2> QED BY <2>1, <2>2, <2>3, <2>4, <2>5
<1>3. end = start + Smaller(c.tile_size, len - start)
  BY DEF TileLength
<1>4. from * s \in Nat /\ (from > 0 => from * s > 0)
  BY <1>1, <1>2
<1>5. OutputStart(t, c) = from * s
  BY DEF OutputStart
<1>6. t # 0 => from - start = c.overlap
  BY <1>1, <1>2
<1>7. Skipped(t, c) = (from - start) * s
  <2>1. CASE t = 0
    BY <1>1, <1>2, <1>5, <2>1 DEF Skipped
  <2>2. CASE t # 0 /\ from > 0
    BY <1>1, <1>4, <1>5, <1>6, <2>2 DEF Skipped
  <2>3. CASE t # 0 /\ from = 0
    <3>1. c.overlap = 0 /\ from - start = 0
      BY <1>1, <1>2, <1>6, <2>3
    <3>2. OutputStart(t, c) = 0 /\ 0 * s = 0
      BY <1>1, <1>5, <2>3
    <3> QED BY <3>1, <3>2 DEF Skipped
  <2> QED BY <1>1, <1>2, <2>1, <2>2, <2>3
<1> HIDE DEF N, start, s
<1>8. from \in Nat /\ end \in Nat /\ from < end /\ end <= len
  BY <1>1, <1>2, <1>3 DEF Smaller, start
<1>9. end = (IF t = N - 1 THEN len ELSE TileStart(t + 1, c) + c.overlap)
  BY <1>1, <1>2, <1>3 DEF Smaller
<1> QED BY <1>5, <1>7, <1>8, <1>9 DEF N, start, s

\* A pixel that tile t may write along an axis, when it is enlarged at most by
\* scale_factor.
Owns(t, len, c, v) ==
  /\ v >= OutputStart(t, c)
  /\ v < (TileStart(t, c) + TileLength(t, len, c)) * c.scale_factor

LEMMA OwnersDisjoint ==
  ASSUME NEW c, Sound(c), NEW len \in Nat \ {0}, NEW v \in Int,
         NEW t \in 0 .. TilesAlong(len, c) - 1, NEW u \in 0 .. TilesAlong(len, c) - 1,
         t < u, Owns(t, len, c, v), Owns(u, len, c, v)
  PROVE  FALSE
<1> DEFINE s == c.scale_factor
           end == TileStart(t, c) + TileLength(t, len, c)
           from == TileStart(u, c) + c.overlap
<1>1. /\ s \in Nat \ {0} /\ c.overlap \in Nat /\ TileStep(c) \in Nat \ {0}
      /\ TilesAlong(len, c) \in Nat
  BY TileBounds DEF Sound, TilingConfig
<1>2. end = TileStart(t + 1, c) + c.overlap /\ end \in Nat
  BY <1>1, Contribution
<1>3. OutputStart(u, c) = from * s /\ from \in Nat
  BY <1>1, Contribution
<1>4. TileStart(t + 1, c) <= TileStart(u, c)
  <2>1. t + 1 <= u /\ t + 1 \in Nat /\ u \in Nat
    BY <1>1
  <2> QED BY <1>1, <2>1 DEF TileStart
<1>5. TileStart(t + 1, c) \in Nat /\ TileStart(u, c) \in Nat
  BY <1>1, TileBounds
<1>6. v >= from * s /\ v < end * s
  BY <1>3 DEF Owns
<1> HIDE DEF s, end, from
<1>7. end <= from
  BY <1>1, <1>2, <1>4, <1>5 DEF from
<1>8. end * s <= from * s
  BY <1>1, <1>2, <1>3, <1>7
<1>9. end * s \in Int /\ from * s \in Int
  BY <1>1, <1>2, <1>3
<1> QED BY <1>6, <1>8, <1>9

LEMMA CopiedOwned ==
  ASSUME NEW c, Sound(c), NEW len \in Nat \ {0}, NEW v \in Int,
         NEW t \in 0 .. TilesAlong(len, c) - 1, NEW up \in Nat,
         up <= TileLength(t, len, c) * c.scale_factor,
         InSpan(v, OutputStart(t, c), Copied(t, up, len, c))
  PROVE  Owns(t, len, c, v)
<1> DEFINE s == c.scale_factor
           start == TileStart(t, c)
           size == TileLength(t, len, c)
           from == IF t = 0 THEN 0 ELSE start + c.overlap
           skip == from - start
<1>1. s \in Nat \ {0}
  BY DEF Sound, TilingConfig
<1>2. /\ OutputStart(t, c) = from * s /\ Skipped(t, c) = skip * s
      /\ from \in Nat /\ start + size \in Nat
  BY Contribution
<1>3. start \in Nat
  BY TileBounds
<1>4. size \in Int
  BY <1>3 DEF TileLength, Smaller, Sound, TilingConfig
<1>5. /\ v >= OutputStart(t, c)
      /\ v < OutputStart(t, c) + Copied(t, up, len, c)
  BY DEF InSpan
<1> HIDE DEF s, size, from, start, skip
<1>6. skip \in Int /\ from = start + skip
  BY <1>2, <1>3 DEF skip
<1>7. /\ from * s = start * s + skip * s /\ (start + size) * s = start * s + size * s
      /\ from * s \in Int /\ skip * s \in Int /\ start * s \in Int /\ size * s \in Int
      /\ len * s \in Int
  BY <1>1, <1>3, <1>4, <1>6
<1>8. up <= size * s
  BY DEF size, s
<1>9. Copied(t, up, len, c) <= 0 \/ Copied(t, up, len, c) <= up - skip * s
  BY <1>2, <1>7 DEF Copied, Kept, Larger, Smaller, s
<1>10. Copied(t, up, len, c) \in Int
  BY <1>2, <1>7 DEF Copied, Kept, Larger, Smaller, s
<1>11. v < (start + size) * s
  BY <1>2, <1>5, <1>7, <1>8, <1>9, <1>10
<1> QED BY <1>5, <1>11 DEF Owns, start, size, s
----------------------------------------------------------------------------
LEMMA JobTypes ==
  ASSUME job \in Jobs
  PROVE  /\ job.width \in Nat \ {0} /\ job.height \in Nat \ {0}
         /\ job.tile_size \in Nat /\ job.scale \in Nat \ {0} /\ job.model \in Nat \ {0}
BY JobAssumption DEF Job

LEMMA ConfigSound ==
  ASSUME job \in Jobs
  PROVE  /\ Sound(Config) /\ Config.scale_factor = job.scale
         /\ job.tile_size > 0 => Config.threshold = Config.tile_size
<1>1. /\ BaseConfig \in TilingConfig /\ BaseConfig.tile_size > BaseConfig.overlap
      /\ BaseConfig.scale_factor = job.scale /\ BaseConfig.overlap = Overlap
  BY JobTypes, TilingAssumption DEF BaseConfig, TilingConfig
<1>2. \A n \in Nat : Larger(Overlap + 1, n) \in Nat /\ Larger(Overlap + 1, n) > Overlap
  BY TilingAssumption DEF Larger
<1>3. Smaller(BaseThreshold, IgpuThreshold) \in Nat
  BY TilingAssumption DEF Smaller
<1>4. CASE job.tile_size > 0
  BY <1>1, <1>2, <1>4, JobTypes DEF Config, Sound, TilingConfig
<1>5. CASE ~(job.tile_size > 0) /\ job.igpu
  BY <1>1, <1>2, <1>3, <1>5, TilingAssumption DEF Config, Sound, TilingConfig
<1>6. CASE ~(job.tile_size > 0) /\ ~job.igpu
  BY <1>1, <1>6 DEF Config, Sound
<1> QED BY <1>4, <1>5, <1>6

LEMMA FinalSizeBounds ==
  ASSUME job \in Jobs, NEW p \in Size
  PROVE  /\ FinalSize(p) \in Size
         /\ FinalSize(p).width <= p.width * job.scale
         /\ FinalSize(p).height <= p.height * job.scale
<1>1. job.scale \in Nat /\ job.model \in Nat /\ p.width \in Nat /\ p.height \in Nat
  BY JobTypes DEF Size
<1>2. \A n \in Nat : Padded(n) \in Nat
  BY TilingAssumption DEF Padded
<1>3. Full(p.width) \in Nat /\ Full(p.height) \in Nat
  BY <1>1, <1>2 DEF Full
<1>4. p.width * job.scale \in Nat /\ p.height * job.scale \in Nat
  BY <1>1
<1> QED BY <1>3, <1>4 DEF FinalSize, NeedsCrop, Size

LEMMA TileCounts ==
  ASSUME job \in Jobs
  PROVE  TilesX \in Nat \ {0} /\ TilesY \in Nat \ {0} /\ TileCount \in Nat
<1>1. TilesX \in Nat \ {0} /\ TilesY \in Nat \ {0}
  BY JobTypes, ConfigSound, TileBounds DEF TilesX, TilesY
<1> QED BY <1>1 DEF TileCount

\* The tile at hand has a place in both axes, and no other tile has both.
LEMMA TilePlace ==
  ASSUME job \in Jobs, NEW i \in 0 .. TileCount - 1
  PROVE  /\ TileX(i) \in 0 .. TilesX - 1
         /\ TileY(i) \in 0 .. TilesY - 1
         /\ i = TilesX * TileY(i) + TileX(i)
<1> DEFINE q == i \div TilesX
           r == i % TilesX
<1>1. TilesX \in Nat \ {0} /\ TilesY \in Nat \ {0} /\ i \in Nat /\ i < TilesX * TilesY
  BY TileCounts DEF TileCount
<1>2. q \in Int /\ r \in 0 .. TilesX - 1 /\ i = TilesX * q + r
  BY <1>1
<1>3. q >= 0
  BY <1>1
<1> HIDE DEF q, r
<1>4. q < TilesY
  <2> SUFFICES ASSUME q >= TilesY PROVE FALSE
    BY <1>1, <1>2
  <2>1. TilesX * q >= TilesX * TilesY
    BY <1>1, <1>2
  <2>2. TilesX * q \in Int /\ TilesX * TilesY \in Int
    BY <1>1, <1>2
  <2> QED BY <1>1, <1>2, <2>1, <2>2
<1> QED BY <1>1, <1>2, <1>3, <1>4 DEF TileX, TileY, q, r

LEMMA TileSizeBounds ==
  ASSUME job \in Jobs, NEW i \in 0 .. TileCount - 1
  PROVE  /\ TileSize(i) \in Size
         /\ TileSize(i).width <= Config.tile_size
         /\ TileSize(i).height <= Config.tile_size
<1>1. ASSUME NEW len \in Nat \ {0}, NEW t \in 0 .. TilesAlong(len, Config) - 1
      PROVE TileLength(t, len, Config) \in Nat /\ TileLength(t, len, Config) <= Config.tile_size
  <2>1. /\ Sound(Config) /\ Config.tile_size \in Nat /\ Config.overlap \in Nat
    BY ConfigSound DEF Sound, TilingConfig
  <2>2. /\ t \in Nat /\ TileStart(t, Config) \in Nat /\ TileStart(0, Config) = 0
        /\ t # 0 => t \in 1 .. TilesAlong(len, Config) - 1
    BY <2>1, TileBounds
  <2>3. t # 0 => TileStart(t, Config) + Config.overlap < len
    BY <2>1, <2>2, TileBounds
  <2> QED BY <2>1, <2>2, <2>3 DEF TileLength, Smaller
<1>2. /\ TileX(i) \in 0 .. TilesAlong(job.width, Config) - 1
      /\ TileY(i) \in 0 .. TilesAlong(job.height, Config) - 1
  BY TilePlace DEF TilesX, TilesY
<1>3. job.width \in Nat \ {0} /\ job.height \in Nat \ {0}
  BY JobTypes
<1> QED BY <1>1, <1>2, <1>3 DEF TileSize, Size
----------------------------------------------------------------------------
\* Tile i may write pixel p.
OwnsPixel(i, p) ==
  /\ Owns(TileX(i), job.width, Config, p[1])
  /\ Owns(TileY(i), job.height, Config, p[2])

\* What is written was written once, by a tile before the one at hand that may
\* write it, so the next tile finds its own pixels blank.
Painted ==
  \A p \in DOMAIN output :
    /\ p[1] \in Int /\ p[2] \in Int
    /\ output[p] = <<>> \/ \E r : output[p] = <<r>>
    /\ pc \in {"tile", "blend"} =>
         (output[p] # <<>> => \E i \in 0 .. next - 1 : OwnsPixel(i, p))

Enlarged ==
  pc = "blend" =>
    /\ piece = TileSize(next)
    /\ upscaled.width <= piece.width * job.scale
    /\ upscaled.height <= piece.height * job.scale

Whole == pc = "direct" => ~NeedsTiling

IInv == TypeOK /\ PieceBounded /\ Painted /\ Enlarged /\ Whole

LEMMA OnlyOwner ==
  ASSUME job \in Jobs, NEW p, p[1] \in Int, p[2] \in Int,
         NEW i \in 0 .. TileCount - 1, NEW k \in 0 .. TileCount - 1,
         OwnsPixel(i, p), OwnsPixel(k, p)
  PROVE  i = k
<1>1. /\ TileX(i) \in 0 .. TilesX - 1 /\ TileY(i) \in 0 .. TilesY - 1
      /\ TileX(k) \in 0 .. TilesX - 1 /\ TileY(k) \in 0 .. TilesY - 1
      /\ i = TilesX * TileY(i) + TileX(i) /\ k = TilesX * TileY(k) + TileX(k)
  BY TilePlace
<1>2. TilesX \in Nat /\ TilesY \in Nat
  BY TileCounts
<1>3. TileX(i) = TileX(k)
  <2>1. ~(TileX(i) < TileX(k)) /\ ~(TileX(k) < TileX(i))
    BY <1>1, OwnersDisjoint, ConfigSound, JobTypes DEF OwnsPixel, TilesX
  <2> QED BY <1>1, <1>2, <2>1
<1>4. TileY(i) = TileY(k)
  <2>1. ~(TileY(i) < TileY(k)) /\ ~(TileY(k) < TileY(i))
    BY <1>1, OwnersDisjoint, ConfigSound, JobTypes DEF OwnsPixel, TilesY
  <2>2. TileY(i) \in Int /\ TileY(k) \in Int
    BY <1>1, <1>2
  <2> QED BY <2>1, <2>2
<1> QED BY <1>1, <1>3, <1>4

LEMMA InitIInv == Init => IInv
<1> SUFFICES ASSUME Init PROVE IInv
  OBVIOUS
<1>1. job \in Jobs /\ TileCount \in Nat
  BY TileCounts DEF Init
<1>2. \A p \in DOMAIN output : FALSE
  BY DEF Init, Blank
<1>3. TypeOK
  BY <1>1 DEF Init, TypeOK, Outcomes, Nothing, Size
<1>4. PieceBounded
  <2>1. Config.tile_size \in Nat
    BY <1>1, ConfigSound DEF Sound, TilingConfig
  <2> QED BY <2>1 DEF PieceBounded, Init, Nothing
<1> QED BY <1>2, <1>3, <1>4 DEF IInv, Painted, Enlarged, Whole, Init

LEMMA BlankPainted ==
  ASSUME NEW w, NEW h, NEW p \in DOMAIN Blank(w, h)
  PROVE  p[1] \in Int /\ p[2] \in Int /\ Blank(w, h)[p] = <<>>
BY DEF Blank

LEMMA DecodeStep == ASSUME IInv, Decode PROVE IInv'
<1>1. UNCHANGED <<job, next, piece, upscaled>> /\ pc' \in {"tile", "direct"}
  BY DEF Decode
<1>2. UNCHANGED <<Config, TileCount>>
  BY <1>1 DEF Config, BaseConfig, TileCount, TilesX, TilesY
<1>3. TypeOK' /\ PieceBounded' /\ Enlarged'
  BY <1>1, <1>2 DEF IInv, TypeOK, PieceBounded, Enlarged
<1>4. Painted'
  <2>1. CASE ~NeedsTiling
    BY <2>1 DEF IInv, Painted, Decode
  <2>2. CASE NeedsTiling
    BY <2>2, BlankPainted DEF Painted, Decode
  <2> QED BY <2>1, <2>2
<1>5. Whole'
  BY <1>1, <1>2 DEF Whole, NeedsTiling, Decode
<1> QED BY <1>3, <1>4, <1>5 DEF IInv

LEMMA DirectStep == ASSUME IInv, ProcessDirectly PROVE IInv'
<1> DEFINE whole == [width |-> job.width, height |-> job.height]
<1>1. /\ UNCHANGED <<job, next>> /\ pc' = "encode" /\ piece' = whole
      /\ upscaled' = FinalSize(whole) /\ job \in Jobs /\ whole \in Size
  BY JobTypes DEF ProcessDirectly, IInv, TypeOK, Size, FinalSize, NeedsCrop
<1>2. UNCHANGED <<Config, TileCount>>
  BY <1>1 DEF Config, BaseConfig, TileCount, TilesX, TilesY
<1>3. TypeOK'
  BY <1>1, <1>2, FinalSizeBounds DEF IInv, TypeOK
<1>4. Painted'
  <2> SUFFICES ASSUME NEW p \in DOMAIN output'
               PROVE  p[1] \in Int /\ p[2] \in Int /\ \E r : output'[p] = <<r>>
    BY <1>1 DEF Painted
  <2>1. p \in (0 .. upscaled'.width - 1) \X (0 .. upscaled'.height - 1)
    BY DEF ProcessDirectly
  <2>2. output'[p] = << [seen |-> UpscaledPixel(piece', p[1], p[2]), tile |-> 0] >>
    BY <2>1 DEF ProcessDirectly
  <2> QED BY <2>1, <2>2
<1>5. PieceBounded'
  <2>1. job.tile_size > 0 => Config.threshold = Config.tile_size
    BY <1>1, ConfigSound
  <2>2. /\ Config.threshold \in Nat /\ job.width \in Nat /\ job.height \in Nat
        /\ job.width <= Config.threshold /\ job.height <= Config.threshold
    BY <1>1, ConfigSound, JobTypes DEF Sound, TilingConfig, IInv, Whole, ProcessDirectly, NeedsTiling
  <2> QED BY <1>1, <1>2, <2>1, <2>2 DEF PieceBounded
<1> QED BY <1>1, <1>3, <1>4, <1>5 DEF IInv, Enlarged, Whole

LEMMA TileStepKeeps == ASSUME IInv, ProcessTile PROVE IInv'
<1>1. /\ UNCHANGED <<job, next, output>> /\ pc = "tile" /\ pc' = "blend"
      /\ piece' = TileSize(next) /\ upscaled' = FinalSize(piece')
      /\ job \in Jobs /\ next \in 0 .. TileCount - 1
  BY TileCounts DEF ProcessTile, IInv, TypeOK
<1>2. UNCHANGED <<Config, TileCount, TilesX, TilesY>>
  BY <1>1 DEF Config, BaseConfig, TileCount, TilesX, TilesY
<1>3. piece' \in Size /\ piece'.width <= Config.tile_size /\ piece'.height <= Config.tile_size
  BY <1>1, TileSizeBounds
<1>4. /\ upscaled' \in Size /\ upscaled'.width <= piece'.width * job.scale
      /\ upscaled'.height <= piece'.height * job.scale
  BY <1>1, <1>3, FinalSizeBounds
<1>5. TileSize(next)' = TileSize(next)
  BY <1>1, <1>2 DEF TileSize, TileX, TileY
<1>6. TypeOK' /\ PieceBounded' /\ Enlarged' /\ Whole'
  <2>1. TypeOK'
    BY <1>1, <1>2, <1>3, <1>4, TileCounts DEF IInv, TypeOK
  <2>2. PieceBounded'
    BY <1>1, <1>2, <1>3 DEF PieceBounded
  <2>3. Enlarged'
    BY <1>1, <1>4, <1>5 DEF Enlarged
  <2> QED BY <1>1, <2>1, <2>2, <2>3 DEF Whole
<1>7. \A i, p : OwnsPixel(i, p)' = OwnsPixel(i, p)
  BY <1>1, <1>2 DEF OwnsPixel, TileX, TileY
<1>8. Painted'
  BY <1>1, <1>7 DEF IInv, Painted
<1> QED BY <1>6, <1>8 DEF IInv

LEMMA BlendStep == ASSUME IInv, BlendTile PROVE IInv'
<1> DEFINE ox == OutputStart(TileX(next), Config)
           oy == OutputStart(TileY(next), Config)
           cw == Copied(TileX(next), upscaled.width, job.width, Config)
           ch == Copied(TileY(next), upscaled.height, job.height, Config)
           Painting(p) == InSpan(p[1], ox, cw) /\ InSpan(p[2], oy, ch)
<1>1. /\ UNCHANGED <<job, piece, upscaled>> /\ pc = "blend" /\ pc' = "tile"
      /\ next' = next + 1 /\ job \in Jobs /\ next \in 0 .. TileCount - 1
      /\ TileCount \in Nat
  BY TileCounts DEF BlendTile, IInv, TypeOK
<1>2. UNCHANGED <<Config, TileCount, TilesX, TilesY>>
  BY <1>1 DEF Config, BaseConfig, TileCount, TilesX, TilesY
<1>3. TypeOK'
  BY <1>1, <1>2 DEF IInv, TypeOK
<1>4. PieceBounded' /\ Enlarged' /\ Whole'
  BY <1>1, <1>2 DEF IInv, PieceBounded, Enlarged, Whole
<1>5. /\ DOMAIN output' = DOMAIN output
      /\ \A p \in DOMAIN output :
           /\ ~Painting(p) => output'[p] = output[p]
           /\ Painting(p) => \E r : output'[p] = Append(output[p], r)
  BY DEF BlendTile
<1>6. \A i, p : OwnsPixel(i, p)' = OwnsPixel(i, p)
  BY <1>1, <1>2 DEF OwnsPixel, TileX, TileY
<1>7. ASSUME NEW p \in DOMAIN output, Painting(p) PROVE OwnsPixel(next, p)
  <2>1. p[1] \in Int /\ p[2] \in Int
    BY DEF IInv, Painted
  <2>2. /\ TileX(next) \in 0 .. TilesAlong(job.width, Config) - 1
        /\ TileY(next) \in 0 .. TilesAlong(job.height, Config) - 1
    BY <1>1, TilePlace DEF TilesX, TilesY
  <2>3. /\ upscaled.width \in Nat /\ upscaled.height \in Nat
        /\ upscaled.width <= TileLength(TileX(next), job.width, Config) * Config.scale_factor
        /\ upscaled.height <= TileLength(TileY(next), job.height, Config) * Config.scale_factor
    BY <1>1, ConfigSound DEF IInv, TypeOK, Size, Enlarged, TileSize
  <2>4. Owns(TileX(next), job.width, Config, p[1])
    BY <1>1, <1>7, <2>1, <2>2, <2>3, CopiedOwned, ConfigSound, JobTypes
  <2>5. Owns(TileY(next), job.height, Config, p[2])
    BY <1>1, <1>7, <2>1, <2>2, <2>3, CopiedOwned, ConfigSound, JobTypes
  <2> QED BY <2>4, <2>5 DEF OwnsPixel
<1> HIDE DEF Painting
<1>8. ASSUME NEW p \in DOMAIN output
      PROVE  /\ p[1] \in Int /\ p[2] \in Int
             /\ output'[p] = <<>> \/ \E r : output'[p] = <<r>>
             /\ output'[p] # <<>> => \E i \in 0 .. next : OwnsPixel(i, p)
  <2>1. /\ p[1] \in Int /\ p[2] \in Int
        /\ output[p] = <<>> \/ \E r : output[p] = <<r>>
        /\ output[p] # <<>> => \E i \in 0 .. next - 1 : OwnsPixel(i, p)
    BY <1>1 DEF IInv, Painted
  <2>2. CASE ~Painting(p)
    BY <1>1, <1>5, <2>1, <2>2
  <2>3. CASE Painting(p)
    <3>1. OwnsPixel(next, p)
      BY <1>7, <2>3
    <3>2. output[p] = <<>>
      <4> SUFFICES ASSUME output[p] # <<>> PROVE FALSE
        OBVIOUS
      <4>1. PICK i \in 0 .. next - 1 : OwnsPixel(i, p)
        BY <2>1
      <4>2. i \in 0 .. TileCount - 1 /\ i # next
        BY <1>1
      <4> QED BY <1>1, <2>1, <3>1, <4>1, <4>2, OnlyOwner
    <3>3. \E r : output'[p] = <<r>>
      BY <1>5, <2>3, <3>2
    <3> QED BY <1>1, <2>1, <3>1, <3>3
  <2> QED BY <2>2, <2>3
<1>9. Painted'
  <2>1. 0 .. next' - 1 = 0 .. next
    BY <1>1
  <2> QED BY <1>5, <1>6, <1>8, <2>1 DEF Painted
<1> QED BY <1>3, <1>4, <1>9 DEF IInv

LEMMA OtherStep ==
  ASSUME IInv, SkipTile \/ AllTiles \/ Encode \/ Fail \/ Returned \/ UNCHANGED vars
  PROVE  IInv'
<1>1. UNCHANGED <<job, piece, upscaled, output>>
  BY DEF SkipTile, AllTiles, Encode, Fail, Returned, vars
<1>2. UNCHANGED <<Config, TileCount, TilesX, TilesY>>
  BY <1>1 DEF Config, BaseConfig, TileCount, TilesX, TilesY
<1>3. \A i, p : OwnsPixel(i, p)' = OwnsPixel(i, p)
  BY <1>1, <1>2 DEF OwnsPixel, TileX, TileY
<1>4. CASE SkipTile
  <2>1. /\ pc = "blend" /\ pc' = "tile" /\ next' = next + 1
        /\ next \in 0 .. TileCount - 1 /\ TileCount \in Nat
    BY <1>4, TileCounts DEF SkipTile, IInv, TypeOK
  <2>2. \A i \in 0 .. next - 1 : i \in 0 .. next' - 1
    BY <2>1
  <2>3. Painted'
    BY <1>1, <1>3, <2>1, <2>2 DEF IInv, Painted
  <2>4. TypeOK' /\ PieceBounded' /\ Enlarged' /\ Whole'
    BY <1>1, <1>2, <2>1 DEF IInv, TypeOK, PieceBounded, Enlarged, Whole
  <2> QED BY <2>3, <2>4 DEF IInv
<1>5. CASE AllTiles \/ Encode \/ Fail
  <2>1. next' = next /\ pc' \in {"encode"} \cup Outcomes
    BY <1>5 DEF AllTiles, Encode, Fail, Outcomes
  <2>2. Painted'
    BY <1>1, <2>1 DEF IInv, Painted, Outcomes
  <2>3. TypeOK' /\ PieceBounded' /\ Enlarged' /\ Whole'
    BY <1>1, <1>2, <2>1 DEF IInv, TypeOK, PieceBounded, Enlarged, Whole, Outcomes
  <2> QED BY <2>2, <2>3 DEF IInv
<1>6. CASE Returned \/ UNCHANGED vars
  <2>1. UNCHANGED <<next, pc>>
    BY <1>6 DEF Returned, vars
  <2>2. NeedsTiling' = NeedsTiling /\ TileSize(next)' = TileSize(next)
    BY <1>1, <1>2, <2>1 DEF NeedsTiling, TileSize, TileX, TileY
  <2>3. Painted'
    BY <1>1, <1>3, <2>1 DEF IInv, Painted
  <2>4. TypeOK' /\ PieceBounded' /\ Enlarged' /\ Whole'
    BY <1>1, <1>2, <2>1, <2>2 DEF IInv, TypeOK, PieceBounded, Enlarged, Whole
  <2> QED BY <2>3, <2>4 DEF IInv
<1> QED BY <1>4, <1>5, <1>6

LEMMA SpecIInv == Spec => []IInv
<1>1. IInv /\ [Next]_vars => IInv'
  BY DecodeStep, DirectStep, TileStepKeeps, BlendStep, OtherStep DEF Next
<1> QED BY InitIInv, <1>1, PTL DEF Spec

----------------------------------------------------------------------------
\* The loop never leaves the tiles of the image.
THEOREM TypeCorrect == Spec => []TypeOK
BY SpecIInv, PTL DEF IInv

\* Whatever the image, the options and the model, no pixel is written twice.
THEOREM NoDoubleWrite == Spec => []WrittenOnce
<1>1. IInv => WrittenOnce
  <2> SUFFICES ASSUME IInv, NEW p \in DOMAIN output PROVE Len(output[p]) <= 1
    BY DEF WrittenOnce
  <2>1. output[p] = <<>> \/ \E r : output[p] = <<r>>
    BY DEF IInv, Painted
  <2>2. CASE output[p] = <<>>
    BY <2>2
  <2>3. ASSUME NEW r, output[p] = <<r>> PROVE Len(output[p]) <= 1
    <3>1. Len(<<r>>) = 1
      OBVIOUS
    <3> QED BY <2>3, <3>1
  <2> QED BY <2>1, <2>2, <2>3
<1> QED BY <1>1, SpecIInv, PTL

\* With --tile-size, what is given to the engine is never larger than a tile.
THEOREM PiecesFitTiles == Spec => []PieceBounded
BY SpecIInv, PTL DEF IInv

\* The spans the tiles contribute along an axis adjoin: the first begins at 0,
\* each ends where the next begins, and the last ends with the output.
THEOREM SpansAdjoin ==
  ASSUME NEW c, Sound(c), NEW len \in Nat \ {0}, NEW t \in 0 .. TilesAlong(len, c) - 1
  PROVE  /\ OutputStart(0, c) = 0
         /\ OutputStart(t, c) < ContributionEnd(t, len, c)
         /\ ContributionEnd(t, len, c) =
              (IF t = TilesAlong(len, c) - 1 THEN len * c.scale_factor
               ELSE OutputStart(t + 1, c))
<1> DEFINE s == c.scale_factor
           start == TileStart(t, c)
           size == TileLength(t, len, c)
           from == IF t = 0 THEN 0 ELSE start + c.overlap
           skip == from - start
           end == start + size
<1>1. s \in Nat \ {0} /\ c.overlap \in Nat
  BY DEF Sound, TilingConfig
<1>2. /\ from \in Nat /\ end \in Nat /\ from < end /\ end <= len
      /\ end = (IF t = TilesAlong(len, c) - 1 THEN len ELSE TileStart(t + 1, c) + c.overlap)
      /\ OutputStart(t, c) = from * s /\ Skipped(t, c) = skip * s
  BY Contribution
<1>3. start \in Nat /\ t \in Nat
  BY TileBounds
<1>4. OutputStart(0, c) = 0
  BY <1>1 DEF OutputStart
<1>5. t # TilesAlong(len, c) - 1 => OutputStart(t + 1, c) = end * s
  BY <1>2, <1>3 DEF OutputStart
<1>6. size \in Int
  <2>1. c.tile_size \in Int /\ len - start \in Int
    BY <1>3 DEF Sound, TilingConfig
  <2> QED BY <2>1 DEF TileLength, Smaller
<1> HIDE DEF s, from, start, size
<1>61. skip \in Int /\ from = start + skip /\ end = start + size
  BY <1>2, <1>3, <1>6
<1> HIDE DEF skip, end
<1>7. size * s - skip * s = end * s - from * s
  BY <1>1, <1>3, <1>6, <1>61
<1>8. /\ from * s \in Int /\ end * s \in Int /\ len * s \in Int /\ size * s \in Int
      /\ skip * s \in Int /\ from * s < end * s /\ end * s <= len * s
  BY <1>1, <1>2, <1>6, <1>61
<1>9. Copied(t, size * s, len, c) = end * s - from * s
  BY <1>2, <1>7, <1>8 DEF Copied, Kept, Larger, Smaller, s
<1>10. ContributionEnd(t, len, c) = end * s
  BY <1>2, <1>8, <1>9 DEF ContributionEnd, size, s
<1> QED BY <1>2, <1>4, <1>5, <1>8, <1>10 DEF s

----------------------------------------------------------------------------
(* What the image that comes out shows, when the engine has the right model *)

\* Padding surrounds the piece on both sides, and the odd column comes after it.
LEMMA PaddedBounds ==
  ASSUME NEW n \in Nat
  PROVE  Padded(n) \in Nat /\ Padded(n) >= n + 2 * Padding
<1> DEFINE k == n + 2 * Padding + 1
           q == k \div 2
           r == k % 2
<1>1. k \in Nat
  BY TilingAssumption
<1>2. q \in Int /\ r \in 0 .. 1 /\ k = 2 * q + r
  BY <1>1
<1>3. Padded(n) = 2 * q
  BY DEF Padded
<1> HIDE DEF q, r
<1> QED BY <1>1, <1>2, <1>3, TilingAssumption

\* Along an axis: the network's output is larger than the piece at scale, the
\* crop starts right behind the padding, and every pixel up to the piece's end is
\* there and shows what is below it.
LEMMA CropExact ==
  ASSUME job \in Jobs, RightModel, NEW n \in Nat \ {0}
  PROVE  /\ Full(n) \in Nat /\ n * job.scale \in Nat /\ Full(n) > n * job.scale
         /\ CropStart(Full(n), n * job.scale) = Padding * job.scale
         /\ \A v \in 0 .. n * job.scale - 1 :
              /\ Padding * job.scale + v \in Nat
              /\ Padding * job.scale + v < Full(n)
              /\ (Padding * job.scale + v) \div job.model = Padding + v \div job.scale
              /\ v \div job.scale \in 0 .. n - 1
<1> DEFINE s == job.scale
           pad == Padding * s
<1>1. s \in Nat \ {0} /\ job.model = s /\ Padding \in Nat \ {0}
  BY JobTypes, TilingAssumption DEF RightModel
<1>2. Padded(n) \in Nat /\ Padded(n) >= n + 2 * Padding
  BY PaddedBounds
<1>3. Full(n) = Padded(n) * s
  BY <1>1 DEF Full
<1> HIDE DEF s
<1>4. /\ Full(n) \in Nat /\ n * s \in Nat /\ pad \in Nat /\ pad > 0
      /\ Full(n) >= n * s + pad + pad
  <2>1. (n + 2 * Padding) * s = n * s + pad + pad
    BY <1>1
  <2>2. Padded(n) * s >= (n + 2 * Padding) * s
    BY <1>1, <1>2
  <2>3. Padded(n) * s \in Nat /\ n * s \in Nat /\ pad \in Nat /\ pad > 0
    BY <1>1, <1>2
  <2> QED BY <1>3, <2>1, <2>2, <2>3
<1>5. CropStart(Full(n), n * s) = pad
  <2>1. CropStart(Full(n), n * s) = Smaller(pad, Larger(0, Full(n) - n * s))
    BY DEF CropStart, s
  <2> HIDE DEF pad
  <2> QED BY <1>4, <2>1 DEF Smaller, Larger
<1>6. ASSUME NEW v \in 0 .. n * s - 1
      PROVE  /\ pad + v \in Nat /\ pad + v < Full(n)
             /\ (pad + v) \div s = Padding + v \div s
             /\ v \div s \in 0 .. n - 1
  <2> DEFINE q == v \div s
  <2>1. v \in Nat /\ v >= 0 * s /\ v < n * s
    BY <1>1, <1>4
  <2>2. q \in Nat /\ q * s <= v /\ v < (q + 1) * s
    BY <1>1, <2>1, Facts!QuotientFacts
  <2>3. q >= 0 /\ q < n
    BY <1>1, <2>1, Facts!QuotientBetween
  <2> HIDE DEF q
  <2>4. /\ (Padding + q) * s = pad + q * s
        /\ (Padding + q + 1) * s = pad + (q + 1) * s
        /\ q * s \in Int /\ (q + 1) * s \in Int
    BY <1>1, <2>2
  <2>5. Padding + q \in Int /\ pad + v \in Int
    BY <1>1, <1>4, <2>1, <2>2
  <2>6. (pad + v) \div s = Padding + q
    <3>1. (Padding + q) * s <= pad + v /\ pad + v < (Padding + q + 1) * s
      BY <1>4, <2>1, <2>2, <2>4
    <3> HIDE DEF pad
    <3> QED BY <1>1, <2>5, <3>1, Facts!QuotientIs
  <2>7. pad + v \in Nat /\ pad + v < Full(n)
    BY <1>4, <2>1
  <2> QED BY <2>2, <2>3, <2>6, <2>7 DEF q
<1> QED BY <1>1, <1>4, <1>5, <1>6 DEF s

LEMMA FinalSizeExact ==
  ASSUME job \in Jobs, RightModel, NEW p, p.width \in Nat \ {0}, p.height \in Nat \ {0}
  PROVE  FinalSize(p) = [width |-> p.width * job.scale, height |-> p.height * job.scale]
<1>1. Full(p.width) > p.width * job.scale
  BY CropExact
<1> QED BY <1>1 DEF FinalSize, NeedsCrop

\* process_rgb is an enlargement: padding and crop cancel out.
LEMMA PixelExact ==
  ASSUME job \in Jobs, RightModel, NEW p, p.width \in Nat \ {0}, p.height \in Nat \ {0},
         NEW x \in 0 .. p.width * job.scale - 1, NEW y \in 0 .. p.height * job.scale - 1
  PROVE  /\ UpscaledPixel(p, x, y) = <<x \div job.scale, y \div job.scale>>
         /\ x \div job.scale \in Nat /\ y \div job.scale \in Nat
<1> DEFINE s == job.scale
           w == p.width
           h == p.height
           col == Padding * s + x
           row == Padding * s + y
           at == row * Full(w) + col
<1>1. /\ Full(w) \in Nat /\ CropStart(Full(w), w * s) = Padding * s
      /\ col \in Nat /\ col < Full(w) /\ col \div job.model = Padding + x \div s
      /\ x \div s \in 0 .. w - 1
  BY CropExact
<1>2. /\ Full(h) \in Nat /\ CropStart(Full(h), h * s) = Padding * s
      /\ row \in Nat /\ row < Full(h) /\ row \div job.model = Padding + y \div s
      /\ y \div s \in 0 .. h - 1
  BY CropExact
<1>3. at % Full(w) = col /\ at \div Full(w) = row /\ at < Full(w) * Full(h)
  <2> DEFINE F == Full(w)
             H == Full(h)
  <2> HIDE DEF F, H, row, col
  <2>1. F \in Nat \ {0} /\ H \in Nat /\ row \in Nat /\ col \in Nat /\ col < F /\ row < H
    BY <1>1, <1>2 DEF F, H
  <2>2. /\ row * F <= row * F + col /\ row * F + col < (row + 1) * F
        /\ row * F + col \in Int /\ row * F \in Int
        /\ (row + 1) * F <= H * F
        /\ F * H = H * F /\ H * F \in Int /\ (row + 1) * F \in Int
    BY <2>1
  <2>3. (row * F + col) \div F = row
    BY <2>1, <2>2, Facts!QuotientIs
  <2>4. (row * F + col) % F = col
    <3> DEFINE k == row * F + col
    <3>1. k \in Int /\ k = F * (k \div F) + (k % F)
      BY <2>1, <2>2, Facts!DivMod
    <3>2. F * row = row * F
      BY <2>1
    <3>3. k \div F = row /\ k % F \in Int
      BY <2>1, <2>2, <2>3
    <3> QED BY <2>1, <2>2, <3>1, <3>2, <3>3
  <2>5. row * F + col < F * H
    BY <2>2
  <2> QED BY <2>3, <2>4, <2>5 DEF F, H
<1>4. UpscaledPixel(p, x, y) =
        IF at < Full(w) * Full(h)
          THEN <<PaddedColumn((at % Full(w)) \div job.model, w),
                 PaddedRow((at \div Full(w)) \div job.model, h)>>
          ELSE <<Beyond, Beyond>>
  <2>1. FinalSize(p).width = w * s /\ FinalSize(p).height = h * s
    BY FinalSizeExact
  <2> DEFINE at2 == (Padding * s + y) * Full(w) + Padding * s + x
  <2>2. at2 = at
    <3>1. Padding * s \in Int /\ row * Full(w) \in Int
      BY <1>1, <1>2, JobTypes, TilingAssumption
    <3> QED BY <1>1, <3>1
  <2>3. UpscaledPixel(p, x, y) =
          IF at2 < Full(w) * Full(h)
            THEN <<PaddedColumn((at2 % Full(w)) \div job.model, w),
                   PaddedRow((at2 \div Full(w)) \div job.model, h)>>
            ELSE <<Beyond, Beyond>>
    BY <1>1, <1>2, <2>1, Zenon DEF UpscaledPixel
  <2> HIDE DEF at2, at
  <2> QED BY <2>2, <2>3
<1> HIDE DEF at, row, col, s
<1>5. UpscaledPixel(p, x, y) = <<PaddedColumn(Padding + x \div s, w), PaddedRow(Padding + y \div s, h)>>
  BY <1>1, <1>2, <1>3, <1>4
<1>6. ASSUME NEW n \in Nat \ {0}, NEW v \in 0 .. n - 1
      PROVE  PaddedColumn(Padding + v, n) = v /\ PaddedRow(Padding + v, n) = v
  BY TilingAssumption DEF PaddedColumn, PaddedRow, Clamp, Smaller, Larger
<1>7. UpscaledPixel(p, x, y) = <<x \div s, y \div s>>
  BY <1>1, <1>2, <1>5, <1>6
<1> QED BY <1>1, <1>2, <1>7 DEF s

----------------------------------------------------------------------------
(* Tiles at scale: what each one puts where *)

\* Everything about tile t along an axis, as products by the scale.
LEMMA TileAtScale ==
  ASSUME NEW c, Sound(c), NEW len \in Nat \ {0}, NEW t \in 0 .. TilesAlong(len, c) - 1
  PROVE  LET s == c.scale_factor
             start == TileStart(t, c)
             size == TileLength(t, len, c)
         IN /\ start \in Nat /\ size \in Nat \ {0} /\ start + size <= len
            /\ OutputStart(t, c) \in Nat /\ Skipped(t, c) \in Nat
            /\ OutputStart(t, c) - Skipped(t, c) = start * s
            /\ OutputStart(t, c) + Copied(t, size * s, len, c) = (start + size) * s
            /\ OutputStart(t, c) < (start + size) * s
            /\ Kept(t, size * s, c) > 0
            /\ size * s \in Nat /\ start * s \in Nat
<1> DEFINE s == c.scale_factor
           start == TileStart(t, c)
           size == TileLength(t, len, c)
           from == IF t = 0 THEN 0 ELSE start + c.overlap
           end == start + size
<1>1. /\ s \in Nat \ {0} /\ c.overlap \in Nat /\ start \in Nat /\ t \in Nat
      /\ start = 0 \/ t # 0
  BY TileBounds DEF Sound, TilingConfig
<1>2. /\ from \in Nat /\ end \in Nat /\ from < end /\ end <= len
      /\ end = (IF t = TilesAlong(len, c) - 1 THEN len ELSE TileStart(t + 1, c) + c.overlap)
      /\ OutputStart(t, c) = from * s /\ Skipped(t, c) = (from - start) * s
  BY Contribution
<1>3. size \in Int
  BY <1>1 DEF TileLength, Smaller, Sound, TilingConfig
<1>4. from - start \in Nat /\ size \in Nat \ {0}
  BY <1>1, <1>2, <1>3
<1>5. OutputStart(t, c) + Copied(t, size * s, len, c) = end * s
  <2>1. ContributionEnd(t, len, c) =
          IF t = TilesAlong(len, c) - 1 THEN len * s ELSE OutputStart(t + 1, c)
    BY SpansAdjoin
  <2>2. t # TilesAlong(len, c) - 1 => OutputStart(t + 1, c) = end * s
    BY <1>1, <1>2 DEF OutputStart
  <2>3. ContributionEnd(t, len, c) = end * s
    BY <1>2, <2>1, <2>2
  <2> QED BY <2>3 DEF ContributionEnd
<1> DEFINE skip == from - start
<1>6. skip \in Nat /\ from = start + skip /\ end = start + size /\ OutputStart(t, c) = from * s
      /\ Skipped(t, c) = skip * s
  BY <1>1, <1>2, <1>4
<1> HIDE DEF s, start, size, from, end, skip
<1>7. /\ from * s = start * s + skip * s /\ end * s = start * s + size * s
      /\ from * s \in Nat /\ skip * s \in Nat /\ size * s \in Nat /\ start * s \in Nat
      /\ from * s < end * s
  BY <1>1, <1>2, <1>4, <1>6
<1>8. Kept(t, size * s, c) > 0
  BY <1>6, <1>7 DEF Kept
<1>9. OutputStart(t, c) - Skipped(t, c) = start * s
  BY <1>6, <1>7
<1> QED BY <1>1, <1>2, <1>4, <1>5, <1>6, <1>7, <1>8, <1>9 DEF s, start, size, end

\* A tile enlarged by the scale writes exactly the pixels it owns, and each shows
\* what is below it.
LEMMA OwnedExactly ==
  ASSUME NEW c, Sound(c), NEW len \in Nat \ {0}, NEW t \in 0 .. TilesAlong(len, c) - 1,
         NEW v \in Int
  PROVE  LET s == c.scale_factor
             size == TileLength(t, len, c)
             x == v - OutputStart(t, c) + Skipped(t, c)
         IN /\ InSpan(v, OutputStart(t, c), Copied(t, size * s, len, c)) <=> Owns(t, len, c, v)
            /\ Owns(t, len, c, v) =>
                 /\ x \in 0 .. size * s - 1
                 /\ TileStart(t, c) + x \div s = v \div s
<1> DEFINE s == c.scale_factor
           start == TileStart(t, c)
           size == TileLength(t, len, c)
           from == OutputStart(t, c)
           x == v - from + Skipped(t, c)
<1>1. /\ start \in Nat /\ size \in Nat \ {0} /\ from \in Nat /\ Skipped(t, c) \in Nat
      /\ from - Skipped(t, c) = start * s
      /\ from + Copied(t, size * s, len, c) = (start + size) * s
      /\ size * s \in Nat /\ start * s \in Nat
  BY TileAtScale
<1>2. s \in Nat \ {0}
  BY DEF Sound, TilingConfig
<1>3. InSpan(v, from, Copied(t, size * s, len, c)) <=> Owns(t, len, c, v)
  BY <1>1 DEF InSpan, Owns
<1>4. ASSUME Owns(t, len, c, v)
      PROVE  x \in 0 .. size * s - 1 /\ start + x \div s = v \div s
  <2>1. v >= from /\ v < (start + size) * s
    BY <1>4 DEF Owns
  <2> HIDE DEF s, start, size, from
  <2>2. (start + size) * s = start * s + size * s
    BY <1>1, <1>2
  <2>3. x = v - start * s /\ x \in 0 .. size * s - 1
    BY <1>1, <2>1, <2>2
  <2> HIDE DEF x
  <2>4. x \div s \in Nat /\ (x \div s) * s <= x /\ x < ((x \div s) + 1) * s
    BY <1>1, <1>2, <2>3, Facts!QuotientFacts
  <2> DEFINE q == x \div s
  <2> HIDE DEF q
  <2>5. q \in Nat /\ q * s <= x /\ x < (q + 1) * s
    BY <2>4 DEF q
  <2>6. /\ (start + q) * s = start * s + q * s
        /\ (start + q + 1) * s = start * s + (q + 1) * s
        /\ q * s \in Int /\ (q + 1) * s \in Int /\ start + q \in Int
    BY <1>1, <1>2, <2>5
  <2>7. (start + q) * s <= v /\ v < (start + q + 1) * s
    BY <1>1, <2>3, <2>5, <2>6
  <2>8. v \div s = start + q
    BY <1>2, <2>6, <2>7, Facts!QuotientIs
  <2> QED BY <2>3, <2>8 DEF q
<1> QED BY <1>3, <1>4

\* Every pixel along an axis has an owner: the first tile that reaches beyond it.
LEMMA OwnedBySome ==
  ASSUME NEW c, Sound(c), NEW len \in Nat \ {0}, NEW v \in 0 .. len * c.scale_factor - 1
  PROVE  \E t \in 0 .. TilesAlong(len, c) - 1 : Owns(t, len, c, v)
<1> DEFINE s == c.scale_factor
           N == TilesAlong(len, c)
           End(t) == (TileStart(t, c) + TileLength(t, len, c)) * s
           Beyonds == {t \in 0 .. N - 1 : v < End(t)}
<1>1. N \in Nat \ {0} /\ s \in Nat \ {0} /\ len * s \in Nat
  <2>1. N \in Nat \ {0}
    BY TileBounds
  <2>2. s \in Nat \ {0}
    BY DEF Sound, TilingConfig
  <2> QED BY <2>1, <2>2
<1>2. \A t \in 0 .. N - 1 :
        /\ t = N - 1 => End(t) = len * s
        /\ t # N - 1 => End(t) = OutputStart(t + 1, c)
  <2> SUFFICES ASSUME NEW t \in 0 .. N - 1
               PROVE  /\ t = N - 1 => End(t) = len * s
                      /\ t # N - 1 => End(t) = OutputStart(t + 1, c)
    OBVIOUS
  <2>1. End(t) = ContributionEnd(t, len, c)
    BY TileAtScale DEF ContributionEnd
  <2> QED BY <2>1, SpansAdjoin
<1> HIDE DEF End
<1>3. Beyonds \subseteq Nat /\ Beyonds # {}
  <2>1. N - 1 \in 0 .. N - 1 /\ v < End(N - 1)
    BY <1>1, <1>2
  <2> QED BY <1>1, <2>1
<1>4. PICK t \in Beyonds : \A u \in Beyonds : t <= u
  BY <1>3, Facts!LeastElement
<1>5. t \in 0 .. N - 1 /\ v < End(t)
  BY <1>4
<1>6. v >= OutputStart(t, c)
  <2>1. CASE t = 0
    <3>1. OutputStart(0, c) = 0
      BY <1>1, <1>5, <2>1, SpansAdjoin
    <3> QED BY <1>1, <2>1, <3>1
  <2>2. CASE t # 0
    <3>1. t - 1 \in 0 .. N - 1 /\ t - 1 # N - 1 /\ t - 1 + 1 = t /\ ~(t <= t - 1)
      BY <1>1, <1>5, <2>2
    <3>2. ~(v < End(t - 1))
      BY <1>4, <3>1
    <3>3. End(t - 1) = OutputStart(t, c)
      BY <1>2, <3>1
    <3>4. OutputStart(t, c) \in Nat
      BY <1>5, TileAtScale
    <3> QED BY <1>1, <3>2, <3>3, <3>4
  <2> QED BY <2>1, <2>2
<1> QED BY <1>5, <1>6 DEF Owns, End

\* Together the tiles own the whole output.
LEMMA PixelOwnedBySome ==
  ASSUME job \in Jobs, NEW p,
         p[1] \in 0 .. job.width * job.scale - 1, p[2] \in 0 .. job.height * job.scale - 1
  PROVE  \E i \in 0 .. TileCount - 1 : OwnsPixel(i, p)
<1>1. /\ Sound(Config) /\ Config.scale_factor = job.scale
      /\ job.width \in Nat \ {0} /\ job.height \in Nat \ {0}
  BY ConfigSound, JobTypes
<1>2. PICK tx \in 0 .. TilesX - 1 : Owns(tx, job.width, Config, p[1])
  BY <1>1, OwnedBySome DEF TilesX
<1>3. PICK ty \in 0 .. TilesY - 1 : Owns(ty, job.height, Config, p[2])
  BY <1>1, OwnedBySome DEF TilesY
<1> DEFINE i == ty * TilesX + tx
<1>4. TilesX \in Nat \ {0} /\ TilesY \in Nat \ {0} /\ TileCount = TilesX * TilesY
  BY TileCounts DEF TileCount
<1>5. /\ i \in Nat /\ ty * TilesX <= i /\ i < (ty + 1) * TilesX
      /\ (ty + 1) * TilesX <= TilesX * TilesY
      /\ TilesX * TilesY \in Nat /\ (ty + 1) * TilesX \in Nat
      /\ TilesX * ty = ty * TilesX /\ ty * TilesX \in Int
  BY <1>4
<1>6. TileY(i) = ty
  BY <1>4, <1>5, Facts!QuotientIs DEF TileY
<1>7. TileX(i) = tx
  <2>1. i = TilesX * (i \div TilesX) + (i % TilesX) /\ i % TilesX \in Int
    BY <1>4, <1>5, Facts!DivMod
  <2>2. i \div TilesX = ty
    BY <1>6 DEF TileY
  <2> HIDE DEF i
  <2>3. i % TilesX = i - ty * TilesX
    BY <1>4, <1>5, <2>1, <2>2
  <2>4. i - ty * TilesX = tx
    BY <1>4, <1>5 DEF i
  <2> QED BY <2>3, <2>4 DEF TileX
<1>8. i \in 0 .. TileCount - 1
  <2> HIDE DEF i
  <2> QED BY <1>4, <1>5
<1> QED BY <1>2, <1>3, <1>6, <1>7, <1>8 DEF OwnsPixel

----------------------------------------------------------------------------
(* The invariant of the image in the making *)

WholeOutput == (0 .. job.width * job.scale - 1) \X (0 .. job.height * job.scale - 1)

AtStart == pc = "decode" => next = 0

\* A tile comes back at its size times the scale.
AtScale == RightModel => TilesAtScale

\* What a pixel shows was put there by the tile that owns it.
WrittenByOwner ==
  (RightModel /\ NeedsTiling) =>
    \A p \in DOMAIN output : \A k \in DOMAIN output[p] :
      output[p][k].tile \in 0 .. TileCount - 1 /\ OwnsPixel(output[p][k].tile, p)

\* The tiles so far have filled in all they own.
FilledSoFar ==
  (RightModel /\ pc \in {"tile", "blend"}) =>
    /\ NeedsTiling
    /\ DOMAIN output = WholeOutput
    /\ \A p \in DOMAIN output : \A i \in 0 .. next - 1 : OwnsPixel(i, p) => output[p] # <<>>

ImageInv == AtStart /\ AtScale /\ WrittenByOwner /\ FilledSoFar /\ PixelsInPlace /\ NoGaps

LEMMA InitImage == Init => ImageInv
<1> SUFFICES ASSUME Init PROVE ImageInv
  OBVIOUS
<1>1. pc = "decode" /\ next = 0 /\ \A p \in DOMAIN output : FALSE
  BY DEF Init, Blank
<1> QED BY <1>1 DEF ImageInv, AtStart, AtScale, TilesAtScale, WrittenByOwner, FilledSoFar,
        PixelsInPlace, NoGaps

\* The properties of the job do not change.
LEMMA SameJob ==
  ASSUME UNCHANGED job
  PROVE  /\ UNCHANGED <<RightModel, Config, NeedsTiling, TilesX, TilesY, TileCount, WholeOutput>>
         /\ \A i, p : OwnsPixel(i, p)' = OwnsPixel(i, p)
<1>1. UNCHANGED <<RightModel, Config, WholeOutput>>
  BY DEF RightModel, Config, BaseConfig, WholeOutput
<1>2. UNCHANGED <<NeedsTiling, TilesX, TilesY, TileCount>>
  BY <1>1 DEF NeedsTiling, TilesX, TilesY, TileCount
<1> QED BY <1>1, <1>2 DEF OwnsPixel, TileX, TileY

\* The blank image is as large as the output and shows nothing yet.
LEMMA DecodeImage == ASSUME IInv, ImageInv, Decode PROVE ImageInv'
<1>1. /\ UNCHANGED <<job, next, piece, upscaled>> /\ pc = "decode" /\ next = 0
      /\ pc' \in {"tile", "direct"}
  BY DEF Decode, ImageInv, AtStart
<1>2. /\ UNCHANGED <<RightModel, Config, NeedsTiling, TilesX, TilesY, TileCount, WholeOutput>>
      /\ \A i, p : OwnsPixel(i, p)' = OwnsPixel(i, p)
  BY <1>1, SameJob
<1>3. CASE NeedsTiling
  <2>1. pc' = "tile" /\ output' = Blank(job.width * job.scale, job.height * job.scale)
    BY <1>3 DEF Decode
  <2>2. DOMAIN output' = WholeOutput /\ \A p \in DOMAIN output' : output'[p] = <<>>
    BY <2>1 DEF Blank, WholeOutput
  <2>3. FilledSoFar'
    BY <1>1, <1>2, <1>3, <2>2 DEF FilledSoFar
  <2>4. WrittenByOwner' /\ PixelsInPlace'
    BY <2>2 DEF WrittenByOwner, PixelsInPlace
  <2> QED BY <1>1, <2>1, <2>3, <2>4 DEF ImageInv, AtStart, AtScale, TilesAtScale, NoGaps
<1>4. CASE ~NeedsTiling
  <2>1. pc' = "direct" /\ output' = output
    BY <1>4 DEF Decode
  <2>2. PixelsInPlace'
    BY <1>1, <1>2, <2>1 DEF ImageInv, PixelsInPlace
  <2> QED BY <1>1, <1>2, <1>4, <2>1, <2>2
        DEF ImageInv, AtStart, AtScale, TilesAtScale, WrittenByOwner, FilledSoFar, NoGaps
<1> QED BY <1>3, <1>4

\* What the engine makes of the whole image is the image at scale.
LEMMA DirectImage == ASSUME IInv, ImageInv, ProcessDirectly PROVE ImageInv'
<1> DEFINE whole == [width |-> job.width, height |-> job.height]
<1>1. /\ UNCHANGED <<job, next>> /\ pc = "direct" /\ pc' = "encode" /\ piece' = whole
      /\ upscaled' = FinalSize(whole) /\ job \in Jobs
      /\ whole.width \in Nat \ {0} /\ whole.height \in Nat \ {0}
  BY JobTypes DEF ProcessDirectly, IInv, TypeOK, FinalSize, NeedsCrop
<1>2. /\ UNCHANGED <<RightModel, Config, NeedsTiling, TilesX, TilesY, TileCount, WholeOutput>>
  BY <1>1, SameJob
<1>3. ~NeedsTiling'
  BY <1>1, <1>2 DEF IInv, Whole
<1>4. ASSUME RightModel
      PROVE  /\ DOMAIN output' = WholeOutput
             /\ \A p \in DOMAIN output' :
                  /\ DOMAIN output'[p] = {1}
                  /\ output'[p][1].seen = <<p[1] \div job.scale, p[2] \div job.scale>>
  <2>1. upscaled' = [width |-> job.width * job.scale, height |-> job.height * job.scale]
    BY <1>1, <1>4, FinalSizeExact
  <2>2. output' = [p \in WholeOutput |->
                    << [seen |-> UpscaledPixel(whole, p[1], p[2]), tile |-> 0] >>]
    BY <1>1, <2>1 DEF ProcessDirectly, WholeOutput
  <2>3. ASSUME NEW p \in WholeOutput
        PROVE  UpscaledPixel(whole, p[1], p[2]) = <<p[1] \div job.scale, p[2] \div job.scale>>
    <3>1. /\ p[1] \in 0 .. whole.width * job.scale - 1
          /\ p[2] \in 0 .. whole.height * job.scale - 1
      BY DEF WholeOutput
    <3> HIDE DEF whole
    <3> QED BY <1>1, <1>4, <3>1, PixelExact
  <2> HIDE DEF whole
  <2> QED BY <2>2, <2>3
<1>5. PixelsInPlace' /\ NoGaps'
  <2>1. NoGaps'
    <3>1. RightModel => \A p \in DOMAIN output' : output'[p] # <<>>
      BY <1>4
    <3> QED BY <1>1, <1>2, <1>4, <3>1 DEF NoGaps, WholeOutput
  <2>2. PixelsInPlace'
    BY <1>1, <1>2, <1>4 DEF PixelsInPlace
  <2> QED BY <2>1, <2>2
<1> QED BY <1>1, <1>3, <1>5 DEF ImageInv, AtStart, AtScale, TilesAtScale, WrittenByOwner, FilledSoFar

\* A tile is never empty.
LEMMA TileSizePositive ==
  ASSUME job \in Jobs, NEW i \in 0 .. TileCount - 1
  PROVE  TileSize(i).width \in Nat \ {0} /\ TileSize(i).height \in Nat \ {0}
<1>1. /\ TileX(i) \in 0 .. TilesAlong(job.width, Config) - 1
      /\ TileY(i) \in 0 .. TilesAlong(job.height, Config) - 1
      /\ Sound(Config) /\ job.width \in Nat \ {0} /\ job.height \in Nat \ {0}
  BY TilePlace, ConfigSound, JobTypes DEF TilesX, TilesY
<1> QED BY <1>1, TileAtScale DEF TileSize

LEMMA TileImage == ASSUME IInv, ImageInv, ProcessTile PROVE ImageInv'
<1>1. /\ UNCHANGED <<job, next, output>> /\ pc = "tile" /\ pc' = "blend"
      /\ piece' = TileSize(next) /\ upscaled' = FinalSize(piece')
      /\ job \in Jobs /\ next \in 0 .. TileCount - 1
  BY TileCounts DEF ProcessTile, IInv, TypeOK
<1>2. /\ UNCHANGED <<RightModel, Config, NeedsTiling, TilesX, TilesY, TileCount, WholeOutput>>
      /\ \A i, p : OwnsPixel(i, p)' = OwnsPixel(i, p)
  BY <1>1, SameJob
<1>3. AtScale'
  <2>1. piece'.width \in Nat \ {0} /\ piece'.height \in Nat \ {0}
    BY <1>1, TileSizePositive
  <2>2. RightModel => upscaled' = [width |-> piece'.width * job.scale,
                                   height |-> piece'.height * job.scale]
    BY <1>1, <2>1, FinalSizeExact
  <2> QED BY <1>1, <1>2, <2>2 DEF AtScale, TilesAtScale
<1>4. WrittenByOwner' /\ PixelsInPlace'
  BY <1>1, <1>2 DEF ImageInv, WrittenByOwner, PixelsInPlace
<1>5. FilledSoFar'
  BY <1>1, <1>2 DEF ImageInv, FilledSoFar
<1> QED BY <1>1, <1>3, <1>4, <1>5 DEF ImageInv, AtStart, NoGaps

\* What blending tile i does to a pixel, when the tile is at scale
Blended(i, p) == [seen |-> <<p[1] \div job.scale, p[2] \div job.scale>>, tile |-> i]

\* A tile at scale keeps pixels, and writes exactly the ones it owns.
LEMMA BlendWrites ==
  ASSUME IInv, ImageInv, RightModel, pc = "blend"
  PROVE  /\ KeepsPixels
         /\ BlendTile =>
              /\ DOMAIN output' = DOMAIN output
              /\ \A p \in DOMAIN output :
                   output'[p] = IF OwnsPixel(next, p) THEN Append(output[p], Blended(next, p))
                                ELSE output[p]
<1> DEFINE ox == OutputStart(TileX(next), Config)
           oy == OutputStart(TileY(next), Config)
           sx == Skipped(TileX(next), Config)
           sy == Skipped(TileY(next), Config)
           cw == Copied(TileX(next), upscaled.width, job.width, Config)
           ch == Copied(TileY(next), upscaled.height, job.height, Config)
           Painting(p) == InSpan(p[1], ox, cw) /\ InSpan(p[2], oy, ch)
<1>1. /\ job \in Jobs /\ next \in 0 .. TileCount - 1
      /\ piece = TileSize(next)
      /\ upscaled = [width |-> piece.width * job.scale, height |-> piece.height * job.scale]
      /\ Sound(Config) /\ Config.scale_factor = job.scale
      /\ job.width \in Nat \ {0} /\ job.height \in Nat \ {0}
  BY TileCounts, ConfigSound, JobTypes
     DEF IInv, TypeOK, Enlarged, ImageInv, AtScale, TilesAtScale
<1>2. /\ TileX(next) \in 0 .. TilesAlong(job.width, Config) - 1
      /\ TileY(next) \in 0 .. TilesAlong(job.height, Config) - 1
  BY <1>1, TilePlace DEF TilesX, TilesY
<1>3. /\ upscaled.width = TileLength(TileX(next), job.width, Config) * Config.scale_factor
      /\ upscaled.height = TileLength(TileY(next), job.height, Config) * Config.scale_factor
      /\ upscaled.width = piece.width * job.scale /\ upscaled.height = piece.height * job.scale
  BY <1>1 DEF TileSize
<1>4. KeepsPixels
  BY <1>1, <1>2, <1>3, TileAtScale DEF KeepsPixels
<1>5. ASSUME NEW p \in DOMAIN output PROVE Painting(p) <=> OwnsPixel(next, p)
  <2>1. p[1] \in Int /\ p[2] \in Int
    BY DEF IInv, Painted
  <2>2. InSpan(p[1], ox, cw) <=> Owns(TileX(next), job.width, Config, p[1])
    BY <1>1, <1>2, <1>3, <2>1, OwnedExactly
  <2>3. InSpan(p[2], oy, ch) <=> Owns(TileY(next), job.height, Config, p[2])
    BY <1>1, <1>2, <1>3, <2>1, OwnedExactly
  <2> QED BY <2>2, <2>3 DEF OwnsPixel
<1>6. ASSUME NEW p \in DOMAIN output, OwnsPixel(next, p)
      PROVE  TilePixel(next, p[1] - ox + sx, p[2] - oy + sy) =
               <<p[1] \div job.scale, p[2] \div job.scale>>
  <2> DEFINE x == p[1] - ox + sx
             y == p[2] - oy + sy
  <2>1. p[1] \in Int /\ p[2] \in Int
    BY DEF IInv, Painted
  <2>2. /\ x \in 0 .. upscaled.width - 1
        /\ TileStart(TileX(next), Config) + x \div job.scale = p[1] \div job.scale
    <3>1. Owns(TileX(next), job.width, Config, p[1])
      BY <1>6 DEF OwnsPixel
    <3> QED BY <1>1, <1>2, <1>3, <2>1, <3>1, OwnedExactly
  <2>3. /\ y \in 0 .. upscaled.height - 1
        /\ TileStart(TileY(next), Config) + y \div job.scale = p[2] \div job.scale
    <3>1. Owns(TileY(next), job.height, Config, p[2])
      BY <1>6 DEF OwnsPixel
    <3> QED BY <1>1, <1>2, <1>3, <2>1, <3>1, OwnedExactly
  <2> HIDE DEF x, y
  <2>4. piece.width \in Nat \ {0} /\ piece.height \in Nat \ {0}
    BY <1>1, TileSizePositive
  <2>5. /\ UpscaledPixel(piece, x, y) = <<x \div job.scale, y \div job.scale>>
        /\ x \div job.scale \in Nat
    BY <1>1, <1>3, <2>2, <2>3, <2>4, PixelExact
  <2>6. TilePixel(next, x, y) =
          <<TileStart(TileX(next), Config) + x \div job.scale,
            TileStart(TileY(next), Config) + y \div job.scale>>
    BY <2>5 DEF TilePixel
  <2> QED BY <2>2, <2>3, <2>6 DEF x, y
<1>7. ASSUME BlendTile
      PROVE  /\ DOMAIN output' = DOMAIN output
             /\ \A p \in DOMAIN output :
                  output'[p] =
                    IF Painting(p)
                      THEN Append(output[p],
                             [seen |-> TilePixel(next, p[1] - ox + sx, p[2] - oy + sy),
                              tile |-> next])
                      ELSE output[p]
  BY <1>7 DEF BlendTile
<1> HIDE DEF Painting, ox, oy, sx, sy, cw, ch
<1> QED BY <1>4, <1>5, <1>6, <1>7 DEF Blended

LEMMA BlendImage == ASSUME IInv, ImageInv, BlendTile \/ SkipTile PROVE ImageInv'
<1>1. /\ UNCHANGED <<job, piece, upscaled>> /\ pc = "blend" /\ pc' = "tile"
      /\ next' = next + 1 /\ job \in Jobs /\ next \in 0 .. TileCount - 1
      /\ TileCount \in Nat
  BY TileCounts DEF BlendTile, SkipTile, IInv, TypeOK
<1>2. /\ UNCHANGED <<RightModel, Config, NeedsTiling, TilesX, TilesY, TileCount, WholeOutput>>
      /\ \A i, p : OwnsPixel(i, p)' = OwnsPixel(i, p)
  BY <1>1, SameJob
<1>3. AtStart' /\ AtScale' /\ NoGaps'
  BY <1>1 DEF AtStart, AtScale, TilesAtScale, NoGaps
<1>4. CASE ~RightModel
  BY <1>1, <1>2, <1>3, <1>4 DEF ImageInv, WrittenByOwner, FilledSoFar, PixelsInPlace
<1>5. CASE RightModel
  <2>1. /\ DOMAIN output' = DOMAIN output
        /\ \A p \in DOMAIN output :
             output'[p] = IF OwnsPixel(next, p) THEN Append(output[p], Blended(next, p))
                          ELSE output[p]
    BY <1>1, <1>5, BlendWrites DEF SkipTile
  <2>2. /\ NeedsTiling /\ DOMAIN output = WholeOutput
        /\ \A p \in DOMAIN output : \A i \in 0 .. next - 1 : OwnsPixel(i, p) => output[p] # <<>>
    BY <1>1, <1>5 DEF ImageInv, FilledSoFar
  <2>3. ASSUME NEW p \in DOMAIN output
        PROVE  /\ output[p] = <<>> \/ \E r : output[p] = <<r>>
               /\ OwnsPixel(next, p) => output[p] = <<>>
    <3>1. /\ p[1] \in Int /\ p[2] \in Int
          /\ output[p] = <<>> \/ \E r : output[p] = <<r>>
          /\ output[p] # <<>> => \E i \in 0 .. next - 1 : OwnsPixel(i, p)
      BY <1>1 DEF IInv, Painted
    <3>2. ASSUME NEW i \in 0 .. next - 1, OwnsPixel(i, p), OwnsPixel(next, p) PROVE FALSE
      <4>1. i \in 0 .. TileCount - 1 /\ i # next
        BY <1>1
      <4> QED BY <1>1, <3>1, <3>2, <4>1, OnlyOwner
    <3> QED BY <3>1, <3>2
  <2>4. ASSUME NEW p \in DOMAIN output
        PROVE  \/ ~OwnsPixel(next, p) /\ output'[p] = output[p]
               \/ OwnsPixel(next, p) /\ output'[p] = <<Blended(next, p)>>
    BY <2>1, <2>3
  <2>5. PixelsInPlace'
    <3> SUFFICES ASSUME NEW p \in DOMAIN output, NEW k \in DOMAIN output'[p]
                 PROVE  output'[p][k].seen = <<p[1] \div job.scale, p[2] \div job.scale>>
      BY <1>1, <2>1 DEF PixelsInPlace
    <3>1. CASE output'[p] = output[p]
      BY <1>5, <3>1 DEF ImageInv, PixelsInPlace
    <3>2. CASE output'[p] = <<Blended(next, p)>>
      <4>1. k = 1 /\ output'[p][k] = Blended(next, p)
        BY <3>2
      <4> QED BY <4>1 DEF Blended
    <3> QED BY <2>4, <3>1, <3>2
  <2>6. WrittenByOwner'
    <3> SUFFICES ASSUME NEW p \in DOMAIN output, NEW k \in DOMAIN output'[p]
                 PROVE  /\ output'[p][k].tile \in 0 .. TileCount - 1
                        /\ OwnsPixel(output'[p][k].tile, p)
      BY <1>2, <2>1 DEF WrittenByOwner
    <3>1. CASE output'[p] = output[p]
      BY <1>5, <2>2, <3>1 DEF ImageInv, WrittenByOwner
    <3>2. CASE OwnsPixel(next, p) /\ output'[p] = <<Blended(next, p)>>
      <4>1. k = 1 /\ output'[p][k] = Blended(next, p)
        BY <3>2
      <4>2. output'[p][k].tile = next
        BY <4>1 DEF Blended
      <4> QED BY <1>1, <3>2, <4>2
    <3> QED BY <2>4, <3>1, <3>2
  <2>7. FilledSoFar'
    <3>1. ASSUME NEW p \in DOMAIN output, NEW i \in 0 .. next, OwnsPixel(i, p)
          PROVE  output'[p] # <<>>
      <4>1. i = next \/ i \in 0 .. next - 1
        BY <1>1
      <4> QED BY <2>2, <2>4, <3>1, <4>1
    <3>2. 0 .. next' - 1 = 0 .. next
      BY <1>1
    <3> QED BY <1>2, <2>1, <2>2, <3>1, <3>2 DEF FilledSoFar
  <2> QED BY <1>3, <2>5, <2>6, <2>7 DEF ImageInv
<1> QED BY <1>4, <1>5

\* After the last tile no pixel is left without an owner that has written it.
LEMMA OtherImage ==
  ASSUME IInv, ImageInv, AllTiles \/ Encode \/ Fail \/ Returned \/ UNCHANGED vars
  PROVE  ImageInv'
<1>1. UNCHANGED <<job, next, piece, upscaled, output>>
  BY DEF AllTiles, Encode, Fail, Returned, vars
<1>2. /\ UNCHANGED <<RightModel, Config, NeedsTiling, TilesX, TilesY, TileCount, WholeOutput>>
      /\ \A i, p : OwnsPixel(i, p)' = OwnsPixel(i, p)
  BY <1>1, SameJob
<1>3. WrittenByOwner' /\ PixelsInPlace'
  BY <1>1, <1>2 DEF ImageInv, WrittenByOwner, PixelsInPlace
<1>4. CASE AllTiles
  <2>1. pc = "tile" /\ pc' = "encode" /\ next = TileCount /\ job \in Jobs
    BY <1>4 DEF AllTiles, IInv, TypeOK
  <2>2. NoGaps'
    <3> SUFFICES ASSUME RightModel
                 PROVE  DOMAIN output = WholeOutput /\ \A p \in DOMAIN output : output[p] # <<>>
      BY <1>1, <1>2 DEF NoGaps, WholeOutput
    <3>1. /\ DOMAIN output = WholeOutput
          /\ \A p \in DOMAIN output : \A i \in 0 .. TileCount - 1 :
               OwnsPixel(i, p) => output[p] # <<>>
      BY <2>1 DEF ImageInv, FilledSoFar
    <3>2. ASSUME NEW p \in DOMAIN output PROVE output[p] # <<>>
      <4>1. /\ p[1] \in 0 .. job.width * job.scale - 1
            /\ p[2] \in 0 .. job.height * job.scale - 1
        BY <3>1 DEF WholeOutput
      <4>2. \E i \in 0 .. TileCount - 1 : OwnsPixel(i, p)
        BY <2>1, <4>1, PixelOwnedBySome
      <4> QED BY <3>1, <4>2
    <3> QED BY <3>1, <3>2
  <2> QED BY <1>3, <2>1, <2>2 DEF ImageInv, AtStart, AtScale, TilesAtScale, FilledSoFar
<1>5. CASE Encode \/ Fail
  <2>1. pc' \in Outcomes
    BY <1>5 DEF Encode, Fail, Outcomes
  <2> QED BY <1>3, <2>1 DEF ImageInv, AtStart, AtScale, TilesAtScale, FilledSoFar, NoGaps, Outcomes
<1>6. CASE Returned \/ UNCHANGED vars
  <2>1. UNCHANGED pc
    BY <1>6 DEF Returned, vars
  <2> QED BY <1>1, <1>2, <1>3, <2>1
        DEF ImageInv, AtStart, AtScale, TilesAtScale, FilledSoFar, NoGaps
<1> QED BY <1>4, <1>5, <1>6

LEMMA SpecImage == Spec => []ImageInv
<1>1. IInv /\ ImageInv /\ [Next]_vars => ImageInv'
  BY DecodeImage, DirectImage, TileImage, BlendImage, OtherImage DEF Next
<1> QED BY InitImage, <1>1, SpecIInv, PTL DEF Spec

----------------------------------------------------------------------------
\* Whatever the image, the tile size, the overlap and the scale: with the right
\* model every pixel shows the part of the image that belongs there.
THEOREM EveryPixelInPlace == Spec => []PixelsInPlace
BY SpecImage, PTL DEF ImageInv

\* And what goes to the encoder has no gap.
THEOREM WithoutGaps == Spec => []NoGaps
BY SpecImage, PTL DEF ImageInv

\* A pixel kept from a tile has the whole overlap to its left and above it in the
\* same tile, as far as the image goes.
THEOREM OverlapInSight == Spec => []OverlapBefore
<1>1. IInv /\ ImageInv => OverlapBefore
  <2> SUFFICES ASSUME IInv, ImageInv, RightModel, NeedsTiling,
                      NEW p \in DOMAIN output, NEW k \in DOMAIN output[p]
               PROVE  LET x == output[p][k].seen[1]
                          y == output[p][k].seen[2]
                      IN TileHolds(output[p][k].tile, Larger(0, x - Overlap), Larger(0, y - Overlap))
    BY DEF OverlapBefore
  <2> DEFINE i == output[p][k].tile
             s == job.scale
  <2>1. /\ output[p][k].seen = <<p[1] \div s, p[2] \div s>>
        /\ i \in 0 .. TileCount - 1 /\ OwnsPixel(i, p)
    BY DEF ImageInv, PixelsInPlace, WrittenByOwner
  <2>2. /\ job \in Jobs /\ Sound(Config) /\ Config.scale_factor = s /\ Config.overlap = Overlap
        /\ job.width \in Nat \ {0} /\ job.height \in Nat \ {0} /\ s \in Nat \ {0}
    BY ConfigSound, JobTypes DEF IInv, TypeOK, Config, BaseConfig
  <2>3. p[1] \in Int /\ p[2] \in Int
    BY DEF IInv, Painted
  <2>4. ASSUME NEW len \in Nat \ {0}, NEW t \in 0 .. TilesAlong(len, Config) - 1, NEW v \in Int,
               Owns(t, len, Config, v)
        PROVE  InSpan(Larger(0, v \div s - Overlap), TileStart(t, Config), TileLength(t, len, Config))
    <3> DEFINE start == TileStart(t, Config)
               from == IF t = 0 THEN 0 ELSE start + Overlap
               end == start + TileLength(t, len, Config)
               q == v \div s
    <3>1. /\ from \in Nat /\ end \in Nat /\ from < end /\ OutputStart(t, Config) = from * s
          /\ start \in Nat /\ (t = 0 => start = 0)
      <4>1. start \in Nat /\ t \in Nat
        BY <2>2, TileAtScale
      <4>2. t = 0 => start = 0
        BY <2>2, TileBounds
      <4>3. from \in Nat /\ end \in Nat /\ from < end /\ OutputStart(t, Config) = from * s
        BY <2>2, Contribution
      <4> QED BY <4>1, <4>2, <4>3
    <3>2. v >= from * s /\ v < end * s
      BY <2>2, <2>4, <3>1 DEF Owns
    <3>3. from * s \in Nat
      BY <2>2, <3>1
    <3>4. q >= from /\ q < end /\ q \in Int
      BY <2>2, <3>1, <3>2, <3>3, Facts!QuotientBetween
    <3>5. TileLength(t, len, Config) \in Nat
      BY <2>2, TileAtScale
    <3> QED BY <2>2, <3>1, <3>4, <3>5, TilingAssumption DEF InSpan, Larger
  <2>5. /\ TileX(i) \in 0 .. TilesAlong(job.width, Config) - 1
        /\ TileY(i) \in 0 .. TilesAlong(job.height, Config) - 1
    BY <2>1, <2>2, TilePlace DEF TilesX, TilesY
  <2>6. /\ InSpan(Larger(0, p[1] \div s - Overlap), TileStart(TileX(i), Config), TileSize(i).width)
        /\ InSpan(Larger(0, p[2] \div s - Overlap), TileStart(TileY(i), Config), TileSize(i).height)
    BY <2>1, <2>2, <2>3, <2>4, <2>5 DEF OwnsPixel, TileSize
  <2> HIDE DEF i, s
  <2> QED BY <2>1, <2>6 DEF TileHolds, i
<1> QED BY <1>1, SpecIInv, SpecImage, PTL
=============================================================================
