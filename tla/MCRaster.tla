------------------------------ MODULE MCRaster ------------------------------
(***************************************************************************)
(* Three small COGs, written the way a COG is: tiles first, the arrays     *)
(* after them, the directories pointing at both.                           *)
(***************************************************************************)
LOCAL INSTANCE Integers
LOCAL INSTANCE Sequences
LOCAL INSTANCE SequencesExt
LOCAL INSTANCE FiniteSets

\* A number as the bytes of a field.
Bytes(little, n, size) ==
    LET le[i \in 1 .. size] == IF i = 1 THEN n ELSE le[i - 1] \div 256
        b == [i \in 1 .. size |-> le[i] % 256]
    IN  IF little THEN b ELSE Reverse(b)
Array(little, ns, size) == FlattenSeq([i \in DOMAIN ns |-> Bytes(little, ns[i], size)])

\* The writer's side of the predictors, the codec and the byte order.
Differenced(ns, row_len, spp, modulus) ==
    [i \in DOMAIN ns |-> IF (i - 1) % row_len < spp THEN ns[i] ELSE (ns[i] - ns[i - spp]) % modulus]
Deflated(bytes) == FlattenSeq([i \in DOMAIN bytes |-> <<1, bytes[i]>>])

\* The floating-point predictor, for two samples of four bytes in a row.
Planes(row) ==
    LET planes == [i \in 1 .. 8 |-> row[IF i % 2 = 1 THEN 4 - i \div 2 ELSE 8 - (i \div 2 - 1)]]
    IN  Differenced(planes, 8, 1, 256)

TileSamples(pixels, size, spp, gx, gy) ==
    FlattenSeq([p \in 1 .. 4 |->
       LET c == 2 * gx + ((p - 1) % 2)
           r == 2 * gy + (p - 1) \div 2
       IN  IF c < size[1] /\ r < size[2] /\ pixels[c, r] # <<>> THEN pixels[c, r] ELSE [b \in 1 .. spp |-> 77]])

Across(size) == (size[1] + 1) \div 2
TileCount(size) == Across(size) * ((size[2] + 1) \div 2)

\* Stored bytes of every tile of a level, "encode" the samples of a tile; a
\* tile without a pixel is not stored.
IsSparse(pixels, size, t) ==
    \A p \in DOMAIN pixels :
        (p[1] \div 2) = (t % Across(size)) /\ (p[2] \div 2) = (t \div Across(size)) => pixels[p] = <<>>

Starts(blocks, base) ==
    LET at[i \in 1 .. Len(blocks) + 1] == IF i = 1 THEN base ELSE at[i - 1] + Len(blocks[i - 1])
    IN  at

Entry(typ, little, ns, size) == [typ |-> typ, count |-> Len(ns), value_field |-> Array(little, ns, size)]
At(typ, little, count, off, cap) == [typ |-> typ, count |-> count, value_field |-> Bytes(little, off, cap)]

---------------------------------------------------------------------------
Grid(size) == (0 .. size[1] - 1) \X (0 .. size[2] - 1)

\* 1. A display raster: four 8-bit channels with an alpha, 5 x 3 with an
\* overview, a mask directory between them, tiles differenced and deflated.
DisplaySizes == <<<<5, 3>>, <<3, 2>>>>
Rgba(k, c, r) == <<(200 + 30 * c + 7 * r) % 256, 100 * k + 10 * r + c, 5 * c, IF c = 1 /\ r = 1 THEN 0 ELSE 255>>
DisplayPixels == [k \in 1 .. 2 |-> [p \in Grid(DisplaySizes[k]) |-> Rgba(k, p[1], p[2])]]

DisplayTiles(k) ==
    [t \in 1 .. TileCount(DisplaySizes[k]) |->
        Deflated(Differenced(TileSamples(DisplayPixels[k], DisplaySizes[k], 4, (t - 1) % Across(DisplaySizes[k]),
                                         (t - 1) \div Across(DisplaySizes[k])), 8, 4, 256))]
DisplayBlocks == <<[i \in 1 .. 16 |-> 0]>> \o DisplayTiles(1) \o DisplayTiles(2)
DisplayAt == Starts(DisplayBlocks, 0)
DisplayEnd == DisplayAt[Len(DisplayBlocks) + 1]
Offsets1 == [t \in 1 .. 6 |-> DisplayAt[1 + t]]
Offsets2 == [t \in 1 .. 2 |-> DisplayAt[7 + t]]
Lengths(tiles) == [t \in DOMAIN tiles |-> Len(tiles[t])]
DisplayArrays == <<Array(TRUE, Offsets1, 4), Array(TRUE, Lengths(DisplayTiles(1)), 4),
                   Array(TRUE, Offsets2, 4), Array(TRUE, Lengths(DisplayTiles(2)), 2),
                   Array(TRUE, <<8, 8, 8, 8>>, 2), Array(TRUE, <<2, 2, 0>>, 8), Array(TRUE, <<0, 0, 0, 0, 6, 0>>, 8)>>
ArraysAt == Starts(DisplayArrays, DisplayEnd)

Common(size, little, spp, bits, compression, predictor) ==
    LET Short(n) == Entry(3, little, <<n>>, 2)
    IN  [width |-> Short(size[1]), height |-> Short(size[2]), tile_w |-> Short(2), tile_h |-> Short(2),
         samples_per_pixel |-> Short(spp), compression |-> Short(compression), predictor |-> Short(predictor),
         bits_per_sample |-> bits]
With(f, g) == [x \in DOMAIN f \cup DOMAIN g |-> IF x \in DOMAIN g THEN g[x] ELSE f[x]]

DisplayDirectory(size, offs, n, bcs) ==
    With(Common(size, TRUE, 4, At(3, TRUE, 4, ArraysAt[5], 4), 8, 2),
         [tile_offsets |-> At(4, TRUE, n, offs, 4), tile_bytecounts |-> bcs,
          pixel_scale |-> At(12, TRUE, 3, ArraysAt[6], 4), tiepoint |-> At(12, TRUE, 6, ArraysAt[7], 4)])

DisplayFile ==
    [order |-> "II", magic |-> 42, bad |-> {}, first_ifd |-> 900,
     bytes |-> FlattenSeq(DisplayBlocks \o DisplayArrays),
     ifds |-> [off \in {900, 910, 920} |->
        CASE off = 900 -> [next |-> 910, tags |-> DisplayDirectory(<<5, 3>>, ArraysAt[1], 6, At(4, TRUE, 6, ArraysAt[2], 4))]
          [] off = 910 -> [next |-> 920,
                 tags |-> With(DisplayDirectory(<<5, 3>>, ArraysAt[1], 6, At(4, TRUE, 6, ArraysAt[2], 4)),
                               [subfile_type |-> Entry(4, TRUE, <<4>>, 4)])]
          [] OTHER -> [next |-> 0, tags |-> DisplayDirectory(<<3, 2>>, ArraysAt[3], 2, Entry(3, TRUE, Lengths(DisplayTiles(2)), 2))]]]

Maps == {[bbox |-> <<0, -4, 10, 6>>, w |-> 3, h |-> 3], [bbox |-> <<2, 0, 8, 6>>, w |-> 3, h |-> 3],
         [bbox |-> <<-3, 1, 6, 7>>, w |-> 3, h |-> 3], [bbox |-> <<6, 0, 10, 4>>, w |-> 2, h |-> 2],
         [bbox |-> <<20, 0, 26, 6>>, w |-> 1, h |-> 3]}

Display ==
    [src |-> DisplayFile, pixels |-> DisplayPixels, sizes |-> DisplaySizes, px |-> 2, origin |-> <<0, 6>>,
     style |-> [mode |-> "rgb", bands |-> <<1, 2, 3>>], expression |-> <<>>, tree |-> <<>>,
     names |-> <<>>, reads |-> {}, nodata |-> -1, requests |-> Maps,
     outages |-> {{}, {Offsets1[3]}, {910}, {ArraysAt[5]}}]

\* 2. A band-math raster: two signed 16-bit bands, big-endian BigTIFF, its
\* tile index kept in the file with offsets and bytecounts of two sizes, one
\* tile sparse, the nodata value in one band of one pixel.
BandSizes == <<<<5, 3>>, <<3, 2>>>>
Pair(k, c, r) == IF c = 2 /\ r = 1 /\ k = 1 THEN <<-9, 300>> ELSE <<10 * k - 8 * c, 290 + 20 * r - c>>
BandPixels == [k \in 1 .. 2 |-> [p \in Grid(BandSizes[k]) |-> IF k = 1 /\ p \in {<<0, 2>>, <<1, 2>>} THEN <<>> ELSE Pair(k, p[1], p[2])]]
Unsigned(ns) == [i \in DOMAIN ns |-> ns[i] % 65536]
BandTiles(k) ==
    [t \in 1 .. TileCount(BandSizes[k]) |->
        IF IsSparse(BandPixels[k], BandSizes[k], t - 1) THEN <<>>
        ELSE Deflated(Array(FALSE, Differenced(Unsigned(TileSamples(BandPixels[k], BandSizes[k], 2,
                 (t - 1) % Across(BandSizes[k]), (t - 1) \div Across(BandSizes[k]))), 4, 2, 65536), 2))]
BandBlocks == <<[i \in 1 .. 16 |-> 0]>> \o BandTiles(1) \o BandTiles(2)
BandAt == Starts(BandBlocks, 0)
BandOffsets(k) == [t \in DOMAIN BandTiles(k) |-> IF BandTiles(k)[t] = <<>> THEN 0 ELSE BandAt[IF k = 1 THEN 1 + t ELSE 7 + t]]
BandArrays == <<Array(FALSE, BandOffsets(1), 8), Array(FALSE, Lengths(BandTiles(1)), 2),
                Array(FALSE, BandOffsets(2), 8), Array(FALSE, <<2, 2, 0>>, 8), Array(FALSE, <<0, 0, 0, 0, 6, 0>>, 8)>>
BandArraysAt == Starts(BandArrays, BandAt[Len(BandBlocks) + 1])

BandDirectory(size, offs, n, bcs) ==
    With(Common(size, FALSE, 2, Entry(3, FALSE, <<16, 16>>, 2), 8, 2),
         [sample_format |-> Entry(3, FALSE, <<2, 2>>, 2), tile_offsets |-> At(16, FALSE, n, offs, 8), tile_bytecounts |-> bcs,
          pixel_scale |-> At(12, FALSE, 3, BandArraysAt[4], 8), tiepoint |-> At(12, FALSE, 6, BandArraysAt[5], 8)])

BandFile ==
    [order |-> "MM", magic |-> 43, bad |-> {}, first_ifd |-> 900,
     bytes |-> FlattenSeq(BandBlocks \o BandArrays),
     ifds |-> [off \in {900, 910} |->
        IF off = 900 THEN [next |-> 910, tags |-> BandDirectory(<<3, 2>>, BandArraysAt[3], 2, Entry(3, FALSE, Lengths(BandTiles(2)), 2))]
        ELSE [next |-> 0, tags |-> BandDirectory(<<5, 3>>, BandArraysAt[1], 6, At(3, FALSE, 6, BandArraysAt[2], 8))]]]

BandFileInOrder ==
    [BandFile EXCEPT !.first_ifd = 910, !.ifds = [off \in {900, 910} |->
        [BandFile.ifds[off] EXCEPT !.next = IF off = 910 THEN 900 ELSE 0]]]

Ramp == [mode |-> "pseudocolor", nodata_transparent |-> TRUE,
         stops |-> <<<<30, 250, 200, 150>>, <<-50, 0, 0, 0, 255>>, <<7>>, <<0, 10, 20, 30, 300>>>>]

\* (b2 - b1) / -(b1 + 2 * b1)
Ident(n) == <<"ident", n>>
Num(n) == <<"num", n>>
Difference ==
    [src |-> BandFileInOrder, pixels |-> BandPixels, sizes |-> BandSizes, px |-> 2, origin |-> <<0, 6>>, style |-> Ramp,
     expression |-> <<<<"(">>, Ident("b2"), <<"-">>, Ident("b1"), <<")">>, <<"/">>, <<"-">>, <<"(">>, Ident("b1"), <<"+">>,
                      Num(2), <<"*">>, Ident("b1"), <<")">>>>,
     tree |-> <<"/", <<"-", Ident("b2"), Ident("b1")>>,
                     <<"neg", <<"+", Ident("b1"), <<"*", Num(2), Ident("b1")>>>>>>>>,
     names |-> <<"b1", "b2">>, reads |-> {"b1", "b2"}, nodata |-> -9, requests |-> Maps,
     outages |-> {{}, {BandAt[4]}, {BandArraysAt[2] + 8}, {BandArraysAt[4]}}]

\* 3. One 32-bit band behind the floating-point predictor, one level.
FloatPixels == <<[p \in Grid(<<3, 2>>) |-> <<70000 * (1 + p[1]) + 300 * p[2]>>]>>
FloatTile(t) ==
    LET s == TileSamples(FloatPixels[1], <<3, 2>>, 1, t, 0)
    IN  Planes(Array(TRUE, SubSeq(s, 1, 2), 4)) \o Planes(Array(TRUE, SubSeq(s, 3, 4), 4))
FloatFile ==
    [order |-> "II", magic |-> 43, bad |-> {}, first_ifd |-> 900,
     bytes |-> [i \in 1 .. 16 |-> 0] \o FloatTile(0) \o FloatTile(1)
                 \o Array(TRUE, <<16, 32>>, 4) \o Array(TRUE, <<2, 2, 0>>, 8) \o Array(TRUE, <<0, 0, 0, 0, 4, 0>>, 8),
     ifds |-> [off \in {900} |-> [next |-> 0, tags |->
        With(Common(<<3, 2>>, TRUE, 1, Entry(3, TRUE, <<32>>, 2), 1, 3),
             [sample_format |-> Entry(3, TRUE, <<3>>, 2), tile_offsets |-> Entry(4, TRUE, <<16, 32>>, 4),
              tile_bytecounts |-> Entry(3, TRUE, <<16, 16>>, 2),
              pixel_scale |-> At(12, TRUE, 3, 56, 8), tiepoint |-> At(12, TRUE, 6, 80, 8)])]]]
Clamped ==
    [src |-> FloatFile, pixels |-> FloatPixels, sizes |-> <<<<3, 2>>>>, px |-> 2, origin |-> <<0, 4>>,
     style |-> [mode |-> "pseudocolor", nodata_transparent |-> TRUE,
                stops |-> <<<<0, 0, 0, 0, 255>>, <<200000, 200, 100, 50, 255>>>>],
     expression |-> <<Ident("clamp"), <<"(">>, Ident("z"), <<",">>, Num(70100), <<",">>, Ident("max"), <<"(">>, Ident("z"), <<",">>,
                      Num(140100), <<")">>, <<")">>>>,
     tree |-> <<"clamp", Ident("z"), Num(70100), <<"max", Ident("z"), Num(140100)>>>>,
     names |-> <<"z">>, reads |-> {"z"}, nodata |-> 210000,
     requests |-> {[bbox |-> <<0, 0, 6, 4>>, w |-> 3, h |-> 1], [bbox |-> <<0, 0, 6, 4>>, w |-> 1, h |-> 1]},
     outages |-> {{}, {32}, {56}}]

\* 4. A bilevel raster, not compressed, a level of 5 x 3 in tiles of 2 x 2: a
\* byte per row of a tile.
BitPixels == <<[p \in Grid(<<5, 3>>) |-> <<255 * ((p[1] + p[1] * p[2]) % 2)>>]>>
Row(s, i) == <<(s[i] \div 255) * 128 + (s[i + 1] \div 255) * 64 + 37>>
BitTile(t) ==
    LET s == TileSamples(BitPixels[1], <<5, 3>>, 1, t % 3, t \div 3) IN Row(s, 1) \o Row(s, 3)
BitFile ==
    [order |-> "II", magic |-> 43, bad |-> {}, first_ifd |-> 900,
     bytes |-> [i \in 1 .. 16 |-> 0] \o FlattenSeq([t \in 1 .. 6 |-> BitTile(t - 1)])
                 \o Array(TRUE, [t \in 1 .. 6 |-> 14 + 2 * t], 4) \o Array(TRUE, <<2, 2, 2, 2, 2, 2>>, 2)
                 \o Array(TRUE, <<2, 2, 0>>, 8) \o Array(TRUE, <<0, 0, 0, 0, 6, 0>>, 8),
     ifds |-> [off \in {900} |-> [next |-> 0, tags |->
        With(Common(<<5, 3>>, TRUE, 1, Entry(3, TRUE, <<1>>, 2), 1, 1),
             [tile_offsets |-> At(4, TRUE, 6, 28, 8), tile_bytecounts |-> At(3, TRUE, 6, 52, 8),
              pixel_scale |-> At(12, TRUE, 3, 64, 8), tiepoint |-> At(12, TRUE, 6, 88, 8)])]]]
Bilevel ==
    [Display EXCEPT !.src = BitFile, !.pixels = BitPixels, !.sizes = <<<<5, 3>>>>, !.outages = {{}, {18}, {28}}]

MCLayers == {Display, Difference, Clamped, Bilevel}
=============================================================================
