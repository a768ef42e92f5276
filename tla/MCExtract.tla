----------------------------- MODULE MCExtract -----------------------------
(***************************************************************************)
(* Instances of Extract for TLC: every database over a few ids, with       *)
(* dangling references and with relations that contain each other, for the *)
(* same bbox; and every kind of region document for a few databases.       *)
(***************************************************************************)
EXTENDS Extract

MCCellOf == [loc \in Loc |-> loc]

\* At level 16 the cells "in" and "near" touch; above it all cells do.
MCWiden ==
  [l \in 0..16 |-> [c \in Cell |-> IF l < 16 THEN Cell
                                   ELSE IF c = "far" THEN {"far"}
                                   ELSE {"in", "near"}]]

----------------------------------------------------------------------------
(* Shapes: two beside each other, one without width, one that crosses the  *)
(* antimeridian, and a cap around a pole.                                  *)

MCShape(cells, lat, lng) ==
  [cells |-> cells, lat_lo |-> lat[1], lat_hi |-> lat[2],
   lng_lo |-> lng[1], lng_hi |-> lng[2]]

Home == MCShape({"in"}, <<0, 1>>, <<0, 1>>)
Beside == MCShape({"near"}, <<-1, 0>>, <<-1, 0>>)
Line == MCShape({"in"}, <<0, 2>>, <<1, 1>>)
Pacific == MCShape({"far"}, <<0, 1>>, <<1, -1>>)
Polar == MCShape({"far", "near"}, <<1, 2>>, <<-2, 2>>)

MCShapes == {Home, Beside, Line, Pacific, Polar}

----------------------------------------------------------------------------
(* Documents.                                                              *)

Polygons == [type : {"Polygon"}, shape : MCShapes]
MultiPolygons == [type : {"MultiPolygon"}, shapes : {<<s, t>> : s, t \in MCShapes}]
Strings == {[type |-> "LineString"]}
Collections ==
  {[type |-> "GeometryCollection", geometries |-> <<p>>] : p \in Polygons}
Geometries == Polygons \cup MultiPolygons \cup Strings \cup Collections

Features == [type : {"Feature"}, geometry : Geometries]
Few == {f \in Features : f.geometry \in Polygons \cup Strings \cup Collections}
FeatureCollections ==
  [type : {"FeatureCollection"}, features : {<<f, g>> : f, g \in Few}]

GeoJson == Geometries \cup Features \cup FeatureCollections

PolyFiles ==
  [rings : {<<s>> : s \in MCShapes} \cup {<<s, Home>> : s \in MCShapes},
   last : {"END", "END\r", ""}]
BesidePoly == [rings |-> <<Beside>>, last |-> "END"]

Texts == [bbox : MCShapes] \cup [disc : {Home}] \cup [geojson : GeoJson]
           \cup [poly : PolyFiles]
           \cup [bbox : {Home}, poly : {BesidePoly}]
           \cup [poly : {BesidePoly}, region : {[ending |-> "bbox", text |-> Home]}]
           \cup [region : [ending : {"bbox", "disc", "txt"}, text : {Home}]]
           \cup [region : [ending : {"json"}, text : Polygons]]
           \cup [region : [ending : {"poly"}, text : {BesidePoly}]]
           \cup {<<>>}

CommandLine(given, level) == [given |-> given, expand |-> level]

Plain == CommandLine([bbox |-> Home], -1)

CommandLines ==
  {CommandLine(t, -1) : t \in Texts} \cup
  {CommandLine(t, level) : t \in [bbox : MCShapes], level \in {0, 16, 17}}

----------------------------------------------------------------------------
(* Databases.                                                              *)

Databases(locations, tagged, ways, relations) ==
  {Expanded(l, t \cap DOMAIN l, w, r, NoStamp) :
     l \in locations, t \in tagged, w \in ways, r \in relations}

Located(cells) == Table({1, 2}, cells)
None == [id \in {} |-> {}]

\* Three relations in every constellation, cyclic ones too.
Ancestral ==
  Databases(Table({1}, {"in"}), SUBSET {1}, {None},
            Table({1, 2, 3}, [tags : {"multipolygon"}, node : SUBSET {1},
                              way : {{}}, relation : SUBSET {1, 2, 3}]))

\* Two nodes, in and out of the region, two ways and a relation.
Dangling ==
  Databases(Located({"in", "far"}), SUBSET {1, 2}, Table({1, 2}, SUBSET {1, 2}),
            Table({1}, [tags : {"multipolygon", "other"}, node : SUBSET {1, 2},
                        way : SUBSET {1, 2}, relation : SUBSET {1}]))

\* Two nodes anywhere, with or without a way.
Scattered ==
  Databases([{1, 2} -> {"in", "near", "far"}], SUBSET {1, 2},
            {None, [id \in {1} |-> {1, 2}]}, {None})

MCInput ==
  {<<Ancestral, {Plain}>>, <<Dangling, {Plain}>>, <<Scattered, CommandLines>>}

\* Without relations.
Untied ==
  {<<Databases(Located({"in", "far"}), SUBSET {1, 2},
               Table({1}, SUBSET {1, 2}), {None}), {Plain}>>}
=============================================================================
