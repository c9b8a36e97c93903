----------------------------- MODULE CogReader ------------------------------
(***************************************************************************)
(* The COG reader (cog.rs, decode.rs, pread.rs, s3.rs): the container is   *)
(* parsed from positioned reads that may fail, the tile index of a level   *)
(* is held or read in cached chunks, and a tile's bytes become samples.    *)
(* A source is the file's bytes, the fields of its directories by file     *)
(* offset, and the offsets at which reads fail for now ("bad").            *)
(***************************************************************************)
EXTENDS Integers, Sequences, FiniteSets, SequencesExt, Folds

CONSTANTS LazyBytes,     \* TERRASERVE_INDEX_LAZY_BYTES
          ChunkEntries   \* TERRASERVE_INDEX_CHUNK

\* A result is the sequence of what it yields: Ok(v), or nothing.
Ok(v) == <<v>>
Err == <<>>

ceil_div(a, b) == (a + b - 1) \div b

---------------------------------------------------------------------------
\* Reads.  Both sources answer the exact length or an error: pread refuses a
\* file that ends early, S3 a body that is short.

read_range(src, off, len) ==
    IF len = 0 THEN Ok(<<>>)
    ELSE IF off \in src.bad \/ off + len > Len(src.bytes) THEN Err
    ELSE Ok(SubSeq(src.bytes, off + 1, off + len))

Number(little, bytes) ==
    IF little THEN FoldRight(LAMBDA b, n : 256 * n + b, bytes, 0)
    ELSE FoldLeft(LAMBDA n, b : 256 * n + b, 0, bytes)

Numbers(little, bytes, size) ==
    [i \in 1 .. Len(bytes) \div size |-> Number(little, SubSeq(bytes, (i - 1) * size + 1, i * size))]

type_size(typ) ==
    CASE typ \in {3, 8} -> 2
      [] typ \in {4, 9, 11} -> 4
      [] typ \in {5, 10, 12, 16, 17, 18} -> 8
      [] OTHER -> 1

little_endian(src) == src.order = "II"
InlineCap(src) == IF src.magic = 43 THEN 8 ELSE 4
ArrayBytes(e) == type_size(e.typ) * e.count

\* The value field of an entry holds the values when they fit and the file
\* offset of the array when they do not.
entry_array_offset(src, e) == Number(little_endian(src), SubSeq(e.value_field, 1, InlineCap(src)))

read_bytes(src, e) ==
    IF ArrayBytes(e) <= InlineCap(src) THEN Ok(SubSeq(e.value_field, 1, ArrayBytes(e)))
    ELSE read_range(src, entry_array_offset(src, e), ArrayBytes(e))

Decoded(src, bytes, size) == IF bytes = Err THEN Err ELSE Ok(Numbers(little_endian(src), bytes[1], size))
read_uints(src, e) == Decoded(src, read_bytes(src, e), type_size(e.typ))

\* Doubles are whole numbers here, stored like the integers of their size.
read_doubles(src, e) == read_uints(src, e)

---------------------------------------------------------------------------
\* The directories.

read_ifd(src, off) == IF off \in src.bad THEN Err ELSE Ok(src.ifds[off])

Tagged(ifd, tag) == tag \in DOMAIN ifd.tags

\* A tag that cannot be read counts as absent.
FirstOr(v, default) == IF v = Err \/ v = Ok(<<>>) THEN default ELSE v[1][1]
get_u(src, ifd, tag, default) ==
    IF Tagged(ifd, tag) THEN FirstOr(read_uints(src, ifd.tags[tag]), default) ELSE default

Identity == [origin_x |-> 0, origin_y |-> 0, px |-> 1, py |-> 1]

GeoTransform(scale, tie) ==
    IF scale = Err \/ tie = Err THEN Err
    ELSE Ok([origin_x |-> tie[1][4] - tie[1][1] * scale[1][1],
             origin_y |-> tie[1][5] + tie[1][2] * scale[1][2],
             px |-> scale[1][1], py |-> scale[1][2]])
GeoTags(src, ifd) ==
    IF ~(Tagged(ifd, "pixel_scale") /\ Tagged(ifd, "tiepoint")) THEN Err
    ELSE GeoTransform(read_doubles(src, ifd.tags["pixel_scale"]), read_doubles(src, ifd.tags["tiepoint"]))

\* Large indexes stay in the file, if both arrays are really there, of sizes
\* the chunk reader decodes and of one length.
KeptInFile(src, ifd) ==
    /\ ArrayBytes(ifd.tags["tile_offsets"]) >= LazyBytes
    /\ Tagged(ifd, "tile_bytecounts")
    /\ \A tag \in {"tile_offsets", "tile_bytecounts"} :
          /\ ArrayBytes(ifd.tags[tag]) > InlineCap(src)
          /\ type_size(ifd.tags[tag].typ) \in {2, 4, 8}
    /\ ifd.tags["tile_offsets"].count = ifd.tags["tile_bytecounts"].count

Resident(offsets, bytecounts) ==
    IF offsets = Err \/ bytecounts = Err THEN Err
    ELSE Ok([lazy |-> FALSE, offsets |-> offsets[1], bytecounts |-> bytecounts[1]])

InFile(src, off, bc) ==
    Ok([lazy |-> TRUE, ntiles |-> off.count,
        offsets_off |-> entry_array_offset(src, off), bytecounts_off |-> entry_array_offset(src, bc),
        offsets_elem_size |-> type_size(off.typ), bytecounts_elem_size |-> type_size(bc.typ)])

TileIndex(src, ifd) ==
    IF KeptInFile(src, ifd) THEN InFile(src, ifd.tags["tile_offsets"], ifd.tags["tile_bytecounts"])
    ELSE Resident(read_uints(src, ifd.tags["tile_offsets"]),
                  IF Tagged(ifd, "tile_bytecounts") THEN read_uints(src, ifd.tags["tile_bytecounts"])
                  ELSE Ok(<<>>))

IsLevel(src, ifd) ==
    /\ \A tag \in {"width", "height", "tile_w", "tile_h"} : get_u(src, ifd, tag, 0) > 0
    /\ Tagged(ifd, "tile_offsets") /\ ifd.tags["tile_offsets"].count > 0
    /\ (get_u(src, ifd, "subfile_type", 0) \div 4) % 2 = 0        \* bit 2: a mask

\* Every level covers the extent of the first.  The pixel size of a level is
\* the extent over its own width: levels keep the extent.
NewLevel(src, ifd, index, geo, dims) ==
    [width |-> get_u(src, ifd, "width", 0), height |-> get_u(src, ifd, "height", 0),
     tile_w |-> get_u(src, ifd, "tile_w", 0), tile_h |-> get_u(src, ifd, "tile_h", 0),
     compression |-> get_u(src, ifd, "compression", 1), predictor |-> get_u(src, ifd, "predictor", 1),
     samples_per_pixel |-> get_u(src, ifd, "samples_per_pixel", 1),
     bits_per_sample |-> get_u(src, ifd, "bits_per_sample", 8),
     sample_format |-> get_u(src, ifd, "sample_format", 1),
     index |-> index, geo |-> geo,
     extent_w |-> dims[1] * geo.px, extent_h |-> dims[2] * geo.py]

\* The geotransform is that of the last directory that had one; the level's
\* extent is that of the first level.
WithLevel(src, cog, ifd, index, geo, dims) ==
    IF index = Err THEN [cog EXCEPT !.whole = FALSE]
    ELSE [cog EXCEPT !.native_geo = Ok(geo), !.native_dims = dims,
                     !.levels = Append(@, NewLevel(src, ifd, index[1], geo, dims))]

Extended(src, cog, ifd) ==
    IF IsLevel(src, ifd)
    THEN WithLevel(src, cog, ifd, TileIndex(src, ifd), IF cog.native_geo = Err THEN Identity ELSE cog.native_geo[1],
                   IF cog.native_dims = <<>> THEN <<get_u(src, ifd, "width", 0), get_u(src, ifd, "height", 0)>>
                   ELSE cog.native_dims)
    ELSE cog

Placed(cog, here) == IF here = Err THEN cog ELSE [cog EXCEPT !.native_geo = here]

NextDirectory(src, cog, off) ==
    IF ~cog.whole \/ read_ifd(src, off) = Err THEN [cog EXCEPT !.whole = FALSE]
    ELSE Extended(src, Placed(cog, GeoTags(src, src.ifds[off])), src.ifds[off])

Chain(src) ==
    LET from[off \in DOMAIN src.ifds \cup {0}] ==
            IF off = 0 THEN <<>> ELSE <<off>> \o from[src.ifds[off].next]
    IN  from[src.first_ifd]

Complete(src, cog) ==
    IF 0 \in src.bad \/ ~cog.whole \/ cog.levels = <<>> THEN Err
    ELSE Ok([levels |-> SortSeq(cog.levels, LAMBDA a, b : a.width > b.width),
             little_endian |-> little_endian(src)])

parse(src) ==
    IF src.order \notin {"II", "MM"} \/ src.magic \notin {42, 43} THEN Err
    ELSE Complete(src, FoldLeft(LAMBDA c, off : NextDirectory(src, c, off),
                                [levels |-> <<>>, native_geo |-> Err, native_dims |-> <<>>, whole |-> TRUE],
                                Chain(src)))

---------------------------------------------------------------------------
\* Where a tile is.  A lookup returns what it found and the chunk cache after
\* it: a chunk is cached under its array and number once it is read whole.

OneArray(array_off, chunk_no) == <<0, chunk_no>>          \* mutant: the array left out
ChunkKey(array_off, chunk_no) == <<array_off, chunk_no>>

Held(cache, key, entries) == [k \in DOMAIN cache \cup {key} |-> IF k = key THEN entries ELSE cache[k]]
FromChunk(cache, key, entries, at) ==
    IF entries = Err THEN [got |-> Err, cache |-> cache]
    ELSE [got |-> Ok(entries[1][at + 1]), cache |-> Held(cache, key, entries[1])]

LastIn(chunk_no, ntiles) ==
    IF ntiles < (chunk_no + 1) * ChunkEntries THEN ntiles ELSE (chunk_no + 1) * ChunkEntries
ReadChunk(src, array_off, elem_size, start, end) ==
    Decoded(src, read_range(src, array_off + start * elem_size, (end - start) * elem_size), elem_size)

index_chunk_entry(src, cache, array_off, elem_size, ntiles, tile) ==
    LET chunk_no == tile \div ChunkEntries
        key == ChunkKey(array_off, chunk_no)
    IN  FromChunk(cache, key,
                  IF key \in DOMAIN cache THEN Ok(cache[key])
                  ELSE ReadChunk(src, array_off, elem_size, chunk_no * ChunkEntries, LastIn(chunk_no, ntiles)),
                  tile % ChunkEntries)

\* "got" is Ok(<<>>) for a tile the file does not hold.
Present(off, bc) == IF off = 0 \/ bc = 0 THEN <<>> ELSE <<off, bc>>

BytecountAfter(src, off, index, tile) ==
    IF off.got = Err THEN off
    ELSE index_chunk_entry(src, off.cache, index.bytecounts_off, index.bytecounts_elem_size, index.ntiles, tile)
PresentIn(off, bc) ==
    IF bc.got = Err THEN bc ELSE [got |-> Ok(Present(off.got[1], bc.got[1])), cache |-> bc.cache]
AfterOffset(src, off, index, tile) == PresentIn(off, BytecountAfter(src, off, index, tile))

LazyLocation(src, cache, index, tile) ==
    IF tile >= index.ntiles THEN [got |-> Ok(<<>>), cache |-> cache]
    ELSE AfterOffset(src, index_chunk_entry(src, cache, index.offsets_off, index.offsets_elem_size,
                                            index.ntiles, tile), index, tile)

tile_location(src, cache, level, tile) ==
    LET index == level.index
    IN  IF level.index.lazy THEN LazyLocation(src, cache, index, tile)
        ELSE [got |-> Ok(IF tile >= Len(index.offsets) THEN <<>>
                         ELSE Present(index.offsets[tile + 1],
                                      IF tile < Len(index.bytecounts) THEN index.bytecounts[tile + 1]
                                      ELSE 0)),
              cache |-> cache]

---------------------------------------------------------------------------
\* A tile's samples.

bytes_per_sample(bits) == ceil_div(bits, 8)

Padded(bytes, expected) ==
    [i \in 1 .. IF Len(bytes) < expected THEN expected ELSE Len(bytes) |->
        IF i <= Len(bytes) THEN bytes[i] ELSE 0]

\* flate2, weezl and zstd: lossless.  A stream is pairs of a run and its byte.
inflate(bytes, expected) ==
    Padded(FlattenSeq([i \in 1 .. Len(bytes) \div 2 |->
                          [n \in 1 .. bytes[2 * i - 1] |-> bytes[2 * i]]]), expected)

Decompressed(level, bytes, expected) ==
    CASE level.compression \in {8, 32946, 5, 50000} -> inflate(bytes, expected)
      [] level.compression = 1 -> Padded(bytes, expected)
      [] OTHER -> [i \in 1 .. expected |-> 0]

\* Undoes horizontal differencing: every sample was stored as its difference
\* to the one "spp" samples before it in its row, modulo the sample's range.
RunningSums(samples, row_len, spp, modulus) ==
    LET sum[i \in 1 .. Len(samples)] ==
            IF (i - 1) % row_len < spp THEN samples[i] ELSE (samples[i] + sum[i - spp]) % modulus
    IN  [i \in 1 .. Len(samples) |-> sum[i]]

unpredict_horizontal(bytes, width, spp) == RunningSums(bytes, width * spp, spp, 256)

\* Two's complement of "size" bytes: 256^size, for the sizes differenced here.
Wrap(size) == IF size = 1 THEN 256 ELSE 65536

unpredict_horizontal_16(little, bytes, width, spp) ==
    LET whole == RunningSums(Numbers(little, bytes, 2), width * spp, spp, 65536)
        Pair(v) == IF little THEN <<v % 256, v \div 256>> ELSE <<v \div 256, v % 256>>
    IN  FlattenSeq([i \in 1 .. Len(whole) |-> Pair(whole[i])])

\* The floating-point predictor differences bytes and keeps each row as
\* planes of equally significant bytes, the most significant first.
unpredict_float(little, bytes, width, spp, bps) ==
    LET n == width * spp
        summed == RunningSums(bytes, n * bps, 1, 256)
        SourceByte(i) ==
            LET row == (i - 1) \div (n * bps)
                within == (i - 1) % (n * bps)
                place == within % bps
                plane == IF little THEN bps - 1 - place ELSE place
            IN  row * n * bps + plane * n + within \div bps + 1
    IN  [i \in 1 .. Len(summed) |-> summed[SourceByte(i)]]

decode_tile_samples(little, level, bytes) ==
    LET bps == bytes_per_sample(level.bits_per_sample)
        spp == level.samples_per_pixel
        raw == Decompressed(level, bytes, level.tile_w * spp * bps * level.tile_h)
    IN  CASE level.predictor = 2 /\ bps = 2 -> unpredict_horizontal_16(little, raw, level.tile_w, spp)
          [] level.predictor = 2 /\ bps # 2 -> unpredict_horizontal(raw, level.tile_w, spp)
          [] level.predictor = 3 -> unpredict_float(little, raw, level.tile_w, spp, bps)
          [] OTHER -> raw

\* A sample as a number: signed formats wrap at half their range.
read_sample(little, level, data, off) ==
    LET bps == bytes_per_sample(level.bits_per_sample)
        raw == Number(little, [i \in 1 .. bps |-> IF off + i <= Len(data) THEN data[off + i] ELSE 0])
    IN  IF level.sample_format = 2 /\ raw >= Wrap(bps) \div 2 THEN raw - Wrap(bps) ELSE raw

\* Bilevel rasters keep a bit per sample, the first the highest, and start every row on a byte;
\* on the display path a set bit is 255.
IsBilevel(level) == level.bits_per_sample = 1
RowSamples(level) == level.tile_w * level.samples_per_pixel
row_bytes(level) == IF IsBilevel(level) THEN ceil_div(RowSamples(level), 8) ELSE RowSamples(level)

BitAt(bytes, i) == IF i \div 8 < Len(bytes) THEN (bytes[i \div 8 + 1] \div 2^(7 - (i % 8))) % 2 ELSE 0
Expanded(level, bytes) ==
    [k \in 1 .. RowSamples(level) * level.tile_h |->
        255 * BitAt(bytes, 8 * row_bytes(level) * ((k - 1) \div RowSamples(level)) + ((k - 1) % RowSamples(level)))]

\* The display path is 8-bit.  A pixel has four channels.
to_rgba(px) ==
    CASE Len(px) = 4 -> px
      [] Len(px) = 3 -> Append(px, 255)
      [] Len(px) = 1 -> <<px[1], px[1], px[1], 255>>
      [] OTHER -> <<px[1], px[2], IF Len(px) > 2 THEN px[3] ELSE 0, 255>>

\* Of what is not compressed nothing is filled up here: a tile that ends early panics, and its map fails.
decode_tile_rgba(level, bytes) ==
    LET spp == level.samples_per_pixel
        raw == IF level.compression = 1 THEN bytes ELSE Decompressed(level, bytes, row_bytes(level) * level.tile_h)
        samples == CASE IsBilevel(level) -> Expanded(level, raw)
                     [] ~IsBilevel(level) /\ level.predictor = 2 -> unpredict_horizontal(raw, level.tile_w, spp)
                     [] OTHER -> raw
    IN  IF Len(samples) < RowSamples(level) * level.tile_h THEN Err
        ELSE Ok([p \in 1 .. level.tile_w * level.tile_h |-> to_rgba(SubSeq(samples, (p - 1) * spp + 1, p * spp))])
=============================================================================
