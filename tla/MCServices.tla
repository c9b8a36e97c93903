----------------------------- MODULE MCServices -----------------------------
EXTENDS Services

MCAxes ==
    [c \in {"EPSG:4326", "EPSG:3857", "EPSG:3763", "EPSG:3301", "EPSG:3413", "EPSG:2056"} |->
        CASE c = "EPSG:4326" -> [words |-> {"geodetic", "latitude"}, abbrev |-> "lat", direction |-> "north"]
          [] c = "EPSG:3301" -> [words |-> {"northing"}, abbrev |-> "x", direction |-> "north"]
          [] c = "EPSG:3413" -> [words |-> {"easting"}, abbrev |-> "x", direction |-> "south"]
          [] c = "EPSG:2056" -> [words |-> {"(e)"}, abbrev |-> "e", direction |-> "east"]
          [] OTHER -> [words |-> {"easting"}, abbrev |-> "x", direction |-> "east"]]

\* Every datum has its own zero.
MCShift ==
    [c \in DOMAIN MCAxes \cup {"CRS:84"} |->
        CASE c = "EPSG:3857" -> <<16, 48>>
          [] c = "EPSG:3763" -> <<-40, 24>>
          [] c = "EPSG:3301" -> <<100, 60>>
          [] c = "EPSG:3413" -> <<8, -16>>
          [] c = "EPSG:2056" -> <<-24, 4>>
          [] OTHER -> <<0, 0>>]

MCNorthingFirst == {"EPSG:4326", "EPSG:3301"}
MCOffsets == {<<0, 0>>, <<4, 2>>}

---------------------------------------------------------------------------
\* Four parcels: three meet in one corner, the fourth lies in a hole of the third.
Poly(rings) == [geom |-> "polygon", at |-> <<0, 0>>, rings |-> rings]
Inner == <<<<-4, 4>>, <<-2, 4>>, <<-2, 6>>, <<-4, 6>>>>
Parcels ==
    <<Poly(<<<<<<-8, -8>>, <<2, -8>>, <<0, 0>>, <<-8, 2>>>>>>),
      Poly(<<<<<<2, -8>>, <<8, -8>>, <<8, 4>>, <<0, 0>>>>>>),
      Poly(<<<<<<-8, 2>>, <<0, 0>>, <<8, 4>>, <<8, 8>>, <<-8, 8>>>>, Inner>>),
      Poly(<<Inner>>),
      [geom |-> "point", at |-> <<3, 3>>, rings |-> <<>>]>>
MCEstate == [name \in {"parcels", "shaded", "whole"} |-> <<-8, -8, 8, 8>>]

WMQ == <<"WebMercatorQuad", 0>>
WMQ512 == <<"WebMercatorQuad", 512>>
Ref(id) == [doc |-> <<>>, id |-> id]
Doc(d) == [doc |-> <<d>>, id |-> <<>>]

\* Grid documents: one that leaves the axis order to a northing-first CRS, one that declares it, a
\* polar one, and one with an undersized level.
Matrix(corner, cell, w, h) == [corner |-> corner, cell |-> cell, tile_w |-> 256, tile_h |-> 256, w |-> w, h |-> h]
Estonia == [id |-> <<"Estonia", 0>>, crs |-> "EPSG:3301", axes |-> <<>>,
            matrices |-> <<Matrix(<<1024, -512>>, 4, 2, 2), Matrix(<<1024, -512>>, 2, 4, 4)>>]
Declared == [id |-> <<"Declared", 0>>, crs |-> "EPSG:3857", axes |-> <<"y", "x">>,
             matrices |-> <<Matrix(<<512, -1024>>, 4, 2, 1)>>]
Polar == [id |-> <<"Polar", 0>>, crs |-> "EPSG:3413", axes |-> <<>>,
          matrices |-> <<Matrix(<<-512, 256>>, 2, 2, 2), Matrix(<<-512, 256>>, 1, 3, 4)>>]

Path(ext) ==
    [kind |-> "path", scheme |-> "", ext |-> ext, readable |-> TRUE, crs |-> "EPSG:3763",
     extent |-> <<-32, -32, 32, 32>>, tables |-> {"t"}, rtree |-> TRUE, fields |-> {"class", "name"},
     features |-> Parcels, stamp |-> <<>>]

\* The right and the lower edge of the raster lie on tile edges of the Web Mercator grid.
Dem == [kind |-> "cog", readable |-> TRUE, cell |-> 8, cell_h |-> 8, width |-> 100, height |-> 100, overviews |-> 2,
        origin |-> <<-856, 776>>]

Entry ==
    [name |-> "", cog |-> Absent, style |-> FALSE, vector |-> Absent, vec_style |-> FALSE, table |-> "",
     src_crs |-> "", grids |-> <<>>, px |-> 256, pmtiles |-> <<>>, raster_pmtiles |-> <<>>, extent |-> <<>>,
     columns |-> {}, style_fields |-> {}, rules |-> <<>>, keep |-> {}, dissolve |-> "", simplify |-> FALSE,
     expression |-> {}, bands |-> <<>>, zoom_sources |-> <<>>]

Raster == [Entry EXCEPT !.name = "dem", !.cog = Dem, !.style = TRUE, !.expression = {"red"},
                        !.bands = [red |-> 1], !.grids = <<Ref(FromCog), Ref(WMQ), Doc(Polar)>>]
\* The same raster with cells taller than wide.
Oblong == [Raster EXCEPT !.cog.cell_h = 12]
Archive(type, grid, px) ==
    [type |-> type, grid |-> grid, px |-> px, tiles |-> {<<0, 0, 0>>, <<1, 1, 0>>}, exists |-> TRUE]
Vector == [Entry EXCEPT !.name = "parcels", !.vector = Path("fgb"), !.vec_style = TRUE,
                        !.grids = <<Ref(WMQ), Ref(WMQ512)>>,
                        !.pmtiles = <<Archive("mvt", WMQ, 0)>>,
                        !.raster_pmtiles = <<Archive("png", WMQ512, 512), Archive("png", WMQ, 0)>>]
Shaded == [Vector EXCEPT !.name = "shaded", !.grids = <<Ref(WMQ512), Ref(WMQ), Doc(Estonia)>>,
                         !.vector = Path("gpkg"), !.raster_pmtiles = <<>>]
Database == [Shaded EXCEPT !.vector = [Path("") EXCEPT !.scheme = "postgis"], !.extent = <<-32, -32, 32, 32>>,
                           !.grids = <<Doc(Declared)>>, !.columns = {"class"}, !.src_crs = "EPSG:3763"]
Whole == [Vector EXCEPT !.name = "whole", !.grids = <<Ref(WMQ)>>, !.raster_pmtiles = <<Archive("png", WMQ, 256)>>,
                        !.vector = Path("geojson"), !.src_crs = "EPSG:3763"]
Band(lo, hi) == [min_zoom |-> lo, max_zoom |-> hi, vector |-> [Path("gpkg") EXCEPT !.stamp = <<0, 5>>]]
\* A layer in a CRS that PROJ does not know.
Remote == [Whole EXCEPT !.name = "remote", !.src_crs = "EPSG:9999", !.raster_pmtiles = <<>>]
Banded == [Vector EXCEPT !.grids = <<Ref(WMQ)>>, !.raster_pmtiles = <<>>, !.zoom_sources = <<Band(0, 2), Band(3, 5)>>]

Args(mode, entries) ==
    [mode |-> mode, cache |-> FALSE, pmtiles |-> <<>>, raster_pmtiles |-> <<>>, layers |-> entries, custom |-> <<>>]

Good == {Args("config", <<Raster, Vector>>), Args("config", <<Shaded, Raster>>), Args("config", <<Database, Whole>>),
         Args("config", <<Remote, Oblong>>), Args("config", <<[Shaded EXCEPT !.name = "dem"], Raster>>)}
Refused ==
    {Args("config", <<[Vector EXCEPT !.raster_pmtiles = <<Archive("png", WMQ512, 256)>>]>>),
     Args("config", <<[Vector EXCEPT !.raster_pmtiles = <<Archive("png", <<"Nowhere", 0>>, 0)>>]>>),
     Args("config", <<[Vector EXCEPT !.pmtiles = <<Archive("mvt", WMQ, 0), Archive("mvt", WMQ, 0)>>]>>),
     Args("config", <<[Vector EXCEPT !.grids = <<Ref(WMQ), Ref(WMQ)>>]>>),
     Args("config", <<[Database EXCEPT !.columns = {"height"}]>>),
     Args("config", <<[Raster EXCEPT !.bands = [red |-> 2]]>>),
     Args("config", <<[Banded EXCEPT !.zoom_sources = <<Band(0, 3), Band(3, 5)>>]>>),
     Args("config", <<[Banded EXCEPT !.zoom_sources = <<Band(2, 6)>>]>>),
     Args("config", <<Vector, [Shaded EXCEPT !.grids = <<Doc([Declared EXCEPT !.id = WMQ])>>]>>),
     [Args("vector", <<Vector>>) EXCEPT !.cache = TRUE],
     Args("cog", <<>>)}
MCStarts == Good \cup Refused \cup {Args("vector", <<Banded>>)}
=============================================================================
