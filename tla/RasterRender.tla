---------------------------- MODULE RasterRender ----------------------------
(***************************************************************************)
(* One raster layer of a running server (render.rs, backend.rs, cache.rs): *)
(* its COG is opened once, and from then on maps and point queries are     *)
(* answered from positioned reads, a bounded cache of decoded tiles and a  *)
(* bounded cache of tile-index chunks.  A layer is the file, its style and *)
(* its expression, and beside them "pixels", what the raster holds: the    *)
(* samples of every level by <<col, row>>, or <<>> where a tile is absent. *)
(* Requests are in the layer's own CRS (the transforms are in Crs).        *)
(***************************************************************************)
EXTENDS CogReader, BandMath, FiniteSetsExt, Functions

CONSTANTS Layers,      \* the layers a server may have
          TileCap,     \* decoded tiles the cache holds
          ChunkCap     \* index chunks the cache holds

VARIABLES layer,       \* the layer served
          cog,         \* <<what parse answered>>, or <<>> before the layer is open
          whole,       \* ghost: no read failed while the layer was opened
          program,     \* <<the compiled expression>>, or <<>>
          tiles,       \* the tile cache: <<level, tile index>> -> decoded tile
          chunks,      \* the index cache: <<array offset, chunk>> -> entries
          shown        \* the answer under way: <<>>, or <<answer>>

rasterVars == <<layer, cog, whole, program, tiles, chunks, shown>>

Failing(src, bad) == [src EXCEPT !.bad = bad]
IsBandMath == program # <<>>

---------------------------------------------------------------------------
\* The geometry of a request.  A coordinate is a fraction <<n, d>>, d > 0.

U(level, req, i) ==
    <<(req.bbox[1] - level.geo.origin_x) * 2 * req.w + (2 * i + 1) * (req.bbox[3] - req.bbox[1]),
      2 * req.w * level.geo.px>>
V(level, req, j) ==
    <<(level.geo.origin_y - req.bbox[4]) * 2 * req.h + (2 * j + 1) * (req.bbox[4] - req.bbox[2]),
      2 * req.h * level.geo.py>>
Scaled(q, num, den) == <<q[1] * num, q[2] * den>>
Floor(q) == q[1] \div q[2]
Ceil(q) == -((-q[1]) \div q[2])
Within(q, size) == q[1] >= 0 /\ q[1] < size * q[2]
Smaller(p, q) == IF Less(q, p) THEN q ELSE p

\* Source pixels per output pixel at the middle of the map, from the middle
\* pixel and its neighbour; a map two pixels wide has no neighbour there and
\* counts as not downsampled.  Each axis that has two pixels votes.
AxisFactor(n, span, px) ==
    LET mid == n \div 2
        next == IF mid + 1 < n THEN mid + 1 ELSE n - 1
    IN  <<(next - mid) * span, n * px>>
desired_factor(level, req) ==
    LET fx == AxisFactor(req.w, req.bbox[3] - req.bbox[1], level.geo.px)
        fy == AxisFactor(req.h, req.bbox[4] - req.bbox[2], level.geo.py)
        corner == Smaller(<<req.bbox[3] - req.bbox[1], req.w * level.geo.px>>,
                          <<req.bbox[4] - req.bbox[2], req.h * level.geo.py>>)
    IN  CASE req.w >= 2 /\ req.h >= 2 -> Smaller(fx, fy)
          [] req.w >= 2 /\ req.h < 2 -> fx
          [] req.w < 2 /\ req.h >= 2 -> fy
          [] OTHER -> corner

\* The coarsest level that does not upsample, scanning until one would.
Upsamples(levels, desired, k) ==
    Less(Scaled(desired, 1001, 1000), <<levels[1].width, levels[k].width>>)
OverviewFor(levels, desired) ==
    Max({1} \cup {k \in DOMAIN levels : \A j \in 1 .. k : ~Upsamples(levels, desired, j)})

LevelU(levels, k, req, i) == Scaled(U(levels[1], req, i), levels[k].width, levels[1].width)
LevelV(levels, k, req, j) == Scaled(V(levels[1], req, j), levels[k].height, levels[1].height)

InsideColumns(levels, k, req) == {i \in 0 .. req.w - 1 : Within(LevelU(levels, k, req, i), levels[k].width)}
InsideRows(levels, k, req) == {j \in 0 .. req.h - 1 : Within(LevelV(levels, k, req, j), levels[k].height)}

\* The tiles of an axis under the pixels "at", with the margin of one pixel
\* that bilinear taps need, cut to the level.
Clipped(n, size) == IF n < 0 THEN 0 ELSE IF n > size - 1 THEN size - 1 ELSE n
TileSpan(at, size, tile) ==
    Clipped(Min({Floor(q) - 1 : q \in at}), size) \div tile
       .. Clipped(Max({Ceil(q) + 1 : q \in at}), size) \div tile

tiles_across(level) == ceil_div(level.width, level.tile_w)

Tiles2(level, gxs, gys) == {gy * tiles_across(level) + gx : gx \in gxs, gy \in gys}
Covering(levels, k, req) ==
    Tiles2(levels[k],
           TileSpan({LevelU(levels, k, req, i) : i \in InsideColumns(levels, k, req)}, levels[k].width, levels[k].tile_w),
           TileSpan({LevelV(levels, k, req, j) : j \in InsideRows(levels, k, req)}, levels[k].height, levels[k].tile_h))

---------------------------------------------------------------------------
\* The tiles of a window: located one by one, then read, then decoded.  A
\* failed lookup or read fails the map; chunks read before it stay cached.

Noted(acc, tile, found) ==
    [ok |-> found.got # Err, cache |-> found.cache,
     at |-> IF found.got \in {Err, Ok(<<>>)} THEN acc.at
            ELSE [t \in DOMAIN acc.at \cup {tile} |-> IF t = tile THEN found.got[1] ELSE acc.at[t]]]
Locate(src, level, acc, tile) ==
    IF acc.ok THEN Noted(acc, tile, tile_location(src, acc.cache, level, tile)) ELSE acc

Located(src, level, wanted) ==
    FoldLeft(LAMBDA acc, t : Locate(src, level, acc, t), [ok |-> TRUE, cache |-> chunks, at |-> <<>>],
             SetToSortSeq(wanted, <))

decode_tile(levels, k, bytes) ==
    IF IsBandMath THEN Ok(decode_tile_samples(cog[1].little_endian, levels[k], bytes))
    ELSE decode_tile_rgba(levels[k], bytes)

OneLevel(k, t) == <<0, t>>                                \* mutant: the level left out
TileKey(k, t) == <<k, t>>

\* The window: every covering tile the file holds, from the cache or decoded.
Decode(levels, k, bytes) == IF bytes = Err THEN Err ELSE decode_tile(levels, k, bytes[1])
Window(src, levels, k, at) ==
    [t \in DOMAIN at |->
        IF TileKey(k, t) \in DOMAIN tiles THEN Ok(tiles[TileKey(k, t)])
        ELSE Decode(levels, k, read_range(src, at[t][1], at[t][2]))]

InTile(level, c, r) == (r % level.tile_h) * level.tile_w + (c % level.tile_w)
TileAt(level, c, r) == (r \div level.tile_h) * tiles_across(level) + c \div level.tile_w

Samples(level, data, p) ==
    [b \in 1 .. level.samples_per_pixel |->
        read_sample(cog[1].little_endian, level, data,
                    (p * level.samples_per_pixel + b - 1) * bytes_per_sample(level.bits_per_sample))]

\* The value of a pixel of a band-math layer, and whether it is data: no band
\* the expression reads may hold the nodata value.
Derived(bands) == eval(program[1], [k \in DOMAIN program[1].bands_used |-> Whole(bands[program[1].bands_used[k]])])
IsData(bands) == \A k \in DOMAIN program[1].bands_used : bands[program[1].bands_used[k]] # layer.nodata

ByValue(bands) == colorize_values(layer.style, Derived(bands), IsData(bands))
Coloured(level, data, p) ==
    IF IsBandMath THEN ByValue(Samples(level, data, p)) ELSE Styled(layer.style, data[p + 1])

Blank == IF IsBandMath THEN colorize_values(layer.style, NotFinite, FALSE)
         ELSE Styled(layer.style, Transparent)

\* Nearest: the colour of the pixel of the level under an output pixel.
PixelOf(level, window, t, p) == IF t \in DOMAIN window THEN Coloured(level, window[t][1], p) ELSE Blank
Pixel(level, window, c, r) ==
    IF c >= level.width \/ r >= level.height THEN Blank
    ELSE PixelOf(level, window, TileAt(level, c, r), InTile(level, c, r))

Image(levels, k, window, req) ==
    [i \in 0 .. req.w - 1, j \in 0 .. req.h - 1 |->
        IF i \in InsideColumns(levels, k, req) /\ j \in InsideRows(levels, k, req)
        THEN Pixel(levels[k], window, Floor(LevelU(levels, k, req, i)), Floor(LevelV(levels, k, req, j)))
        ELSE Blank]

Clear(req) == [i \in 0 .. req.w - 1, j \in 0 .. req.h - 1 |-> Transparent]

Insides(levels, k, req) == InsideColumns(levels, k, req) # {} /\ InsideRows(levels, k, req) # {}

\* What a map comes to: its image or nothing, the index chunks after it and
\* the tiles it decoded.
Finished(levels, k, window, req, cache) ==
    IF \E t \in DOMAIN window : window[t] = Err
    THEN [answer |-> Err, cache |-> cache, decoded |-> <<>>]
    ELSE [answer |-> Ok(Image(levels, k, window, req)), cache |-> cache,
          decoded |-> [key \in {TileKey(k, t) : t \in DOMAIN window} |-> window[key[2]][1]]]

Gathered(src, req, levels, k, located) ==
    IF located.ok THEN Finished(levels, k, Window(src, levels, k, located.at), req, located.cache)
    ELSE [answer |-> Err, cache |-> located.cache, decoded |-> <<>>]

FromLevel(src, req, levels, k) ==
    IF Insides(levels, k, req)
    THEN Gathered(src, req, levels, k, Located(src, levels[k], Covering(levels, k, req)))
    ELSE [answer |-> Ok(Clear(req)), cache |-> chunks, decoded |-> <<>>]

render_with_cog(src, req) ==
    IF req.w = 0 \/ req.h = 0 THEN [answer |-> Err, cache |-> chunks, decoded |-> <<>>]
    ELSE FromLevel(src, req, cog[1].levels,
                   OverviewFor(cog[1].levels, desired_factor(cog[1].levels[1], req)))

\* GetFeatureInfo: the pixel of the native level, read without the tile cache.
OutOf(c, r) == [in_image |-> FALSE, nodata |-> FALSE, col |-> c, row |-> r, bands |-> <<>>, derived |-> <<>>]
NodataAt(c, r) == [OutOf(c, r) EXCEPT !.in_image = TRUE, !.nodata = TRUE]

PointInfo(c, r, bands, data) ==
    [in_image |-> TRUE, nodata |-> ~data, col |-> c, row |-> r, bands |-> bands,
     derived |-> IF IsBandMath /\ data THEN <<Derived(bands)>> ELSE <<>>]
InfoOf(c, r, bands) == PointInfo(c, r, bands, IsBandMath => IsData(bands))

ReadPoint(level, c, r, bytes) ==
    IF bytes = Err THEN Err
    ELSE Ok(InfoOf(c, r, Samples(level, decode_tile_samples(cog[1].little_endian, level, bytes[1]),
                                 InTile(level, c, r))))

FromTile(src, level, c, r, found) ==
    [cache |-> found.cache,
     answer |-> IF found.got = Err THEN Err
                ELSE IF found.got = Ok(<<>>) THEN Ok(NodataAt(c, r))
                ELSE ReadPoint(level, c, r, read_range(src, found.got[1][1], found.got[1][2]))]

AtPixel(src, level, c, r) ==
    IF c \in 0 .. level.width - 1 /\ r \in 0 .. level.height - 1
    THEN FromTile(src, level, c, r, tile_location(src, chunks, level, TileAt(level, c, r)))
    ELSE [answer |-> Ok(OutOf(c, r)), cache |-> chunks]

sample_point_with_cog(src, req, i, j) ==
    IF i >= req.w \/ j >= req.h THEN [answer |-> Err, cache |-> chunks]
    ELSE AtPixel(src, cog[1].levels[1], Floor(U(cog[1].levels[1], req, i)), Floor(V(cog[1].levels[1], req, j)))

---------------------------------------------------------------------------
\* A cache at its limit evicts whatever it likes, the newcomers included.
Kept(f, cap) ==
    IF Cardinality(DOMAIN f) <= cap THEN {f}
    ELSE {Restrict(f, S) : S \in kSubset(cap, DOMAIN f)}

Both(f, g) == [x \in DOMAIN f \cup DOMAIN g |-> IF x \in DOMAIN g THEN g[x] ELSE f[x]]

RasterInit ==
    /\ layer \in Layers
    /\ cog = <<>> /\ whole = TRUE /\ program = <<>>
    /\ tiles = <<>> /\ chunks = <<>> /\ shown = <<>>

Compiled == IF layer.expression = <<>> THEN <<>> ELSE compile(layer.expression, layer.names)

\* build_layer: a layer that does not parse, or whose expression or style does
\* not, is not served.
Open ==
    /\ cog = <<>>
    /\ \E bad \in layer.outages :
       \E read \in {parse(Failing(layer.src, bad))}, compiled \in {Compiled} :
          /\ read # Err /\ (layer.expression # <<>> => compiled # <<>>)
          /\ cog' = read /\ whole' = (bad = {}) /\ program' = compiled
    /\ parse_style(layer.style) # <<>>
    /\ layer' = [layer EXCEPT !.style = parse_style(@)[1]]
    /\ UNCHANGED <<tiles, chunks, shown>>

GetMap ==
    /\ cog # <<>> /\ shown = <<>>
    /\ \E req \in layer.requests, bad \in layer.outages :
       \E out \in {render_with_cog(Failing(layer.src, bad), req)} :
          /\ shown' = <<[kind |-> "map", req |-> req, undisturbed |-> bad = {}, answer |-> out.answer]>>
          /\ tiles' \in Kept(Both(tiles, out.decoded), TileCap)
          /\ chunks' \in Kept(out.cache, ChunkCap)
    /\ UNCHANGED <<layer, cog, whole, program>>

GetFeatureInfo ==
    /\ cog # <<>> /\ shown = <<>>
    /\ \E req \in layer.requests, bad \in layer.outages :
       \E i \in 0 .. req.w - 1, j \in 0 .. req.h - 1 :
       \E out \in {sample_point_with_cog(Failing(layer.src, bad), req, i, j)} :
          /\ shown' = <<[kind |-> "info", req |-> req, i |-> i, j |-> j,
                         undisturbed |-> bad = {}, answer |-> out.answer]>>
          /\ chunks' \in Kept(out.cache, ChunkCap)
    /\ UNCHANGED <<layer, cog, whole, program, tiles>>

Answered == shown # <<>> /\ shown' = <<>> /\ UNCHANGED <<layer, cog, whole, program, tiles, chunks>>

RasterNext == Open \/ GetMap \/ GetFeatureInfo \/ Answered
RasterSpec == RasterInit /\ [][RasterNext]_rasterVars

---------------------------------------------------------------------------
\* Properties.  The raster itself says what an answer must be.

\* The level a map must come from: the coarsest of those at most as coarse as
\* the map (a map two pixels wide or high is read at full resolution).
LevelOf(req) ==
    LET sizes == layer.sizes
        FitsAxis(k, n, span, px) == n # 2 /\ sizes[1][1] * 1000 * n * px <= span * 1001 * sizes[k][1]
    IN  Max({1} \cup {k \in DOMAIN sizes :
               /\ FitsAxis(k, req.w, req.bbox[3] - req.bbox[1], layer.px)
               /\ FitsAxis(k, req.h, req.bbox[4] - req.bbox[2], layer.px)})

\* The samples of level k under the middle of an output pixel; <<>> outside
\* the raster and where it holds none.
PixelAt(k, x, y) == IF <<x, y>> \in DOMAIN layer.pixels[k] THEN layer.pixels[k][x, y] ELSE <<>>
SamplesUnder(k, req, i, j) ==
    PixelAt(k, (((req.bbox[1] - layer.origin[1]) * 2 * req.w + (2 * i + 1) * (req.bbox[3] - req.bbox[1]))
                   * layer.sizes[k][1]) \div (2 * req.w * layer.px * layer.sizes[1][1]),
               (((layer.origin[2] - req.bbox[4]) * 2 * req.h + (2 * j + 1) * (req.bbox[4] - req.bbox[2]))
                   * layer.sizes[k][2]) \div (2 * req.h * layer.px * layer.sizes[1][2]))

Env(bands) == [n \in Range(layer.names) |-> Whole(bands[CHOOSE b \in DOMAIN layer.names : layer.names[b] = n])]
Holds(bands) == bands # <<>> /\ \A n \in layer.reads : Env(bands)[n] # Whole(layer.nodata)

ColourOf(bands) ==
    CASE bands = <<>> -> Transparent
      [] bands # <<>> /\ layer.tree = <<>> -> Styled(layer.style, to_rgba(bands))
      [] OTHER -> colorize_values(layer.style, Meaning(layer.tree, Env(bands)), Holds(bands))

\* Every map the server answers shows the raster: each pixel is the styled
\* pixel of the right level under its centre, clear where there is no data,
\* whatever the caches hold, were evicted of, or were filled by in earlier
\* requests, some of which failed; and a map whose reads succeed is answered.
ShowsTheRaster(image, req, k) ==
    \A i \in 0 .. req.w - 1, j \in 0 .. req.h - 1 : image[i, j] = ColourOf(SamplesUnder(k, req, i, j))
RenderShowsTheRaster ==
    \A n \in DOMAIN shown :
       (shown[n].kind = "map" /\ whole) =>
          IF shown[n].answer = Err THEN ~shown[n].undisturbed
          ELSE ShowsTheRaster(shown[n].answer[1], shown[n].req, LevelOf(shown[n].req))

\* A point query reports the samples of the full-resolution pixel under the
\* clicked one, tells a hole in the raster from its outside, and calls a
\* pixel nodata exactly where a map of the same place is clear for lack of it.
\* Of a bilevel raster it reports bytes, not bits (decode_tile_samples "handles
\* 8- and 16-bit integer samples"): these are left out.
ReportsThePixel(info, bands) ==
    /\ info.bands = bands
    /\ info.in_image = (<<info.col, info.row>> \in DOMAIN layer.pixels[1])
    /\ info.in_image => layer.pixels[1][info.col, info.row] = bands
    /\ info.nodata = (info.in_image /\ (bands = <<>> \/ (layer.tree # <<>> /\ ~Holds(bands))))
    /\ info.derived = IF layer.tree # <<>> /\ info.in_image /\ ~info.nodata
                      THEN <<Meaning(layer.tree, Env(bands))>> ELSE <<>>
InfoIsThePixel ==
    \A n \in DOMAIN shown :
       (shown[n].kind = "info" /\ whole /\ ~IsBilevel(cog[1].levels[1])) =>
          IF shown[n].answer = Err THEN ~shown[n].undisturbed
          ELSE ReportsThePixel(shown[n].answer[1], SamplesUnder(1, shown[n].req, shown[n].i, shown[n].j))
=============================================================================
