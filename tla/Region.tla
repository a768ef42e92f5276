------------------------------- MODULE Region -------------------------------
(***************************************************************************)
(* The region of an extract (src/region.cpp): which shapes a document      *)
(* yields, the cells that cover them and the box around them.  What S2     *)
(* makes of coordinates is external: a shape is a record of the cells that *)
(* cover it and of its bounding rectangle, with longitudes on a circle cut *)
(* at the antimeridian, from -East to East.                                *)
(***************************************************************************)
EXTENDS Integers, Sequences, SequencesExt

CONSTANTS Shape,   \* the S2Polygons, S2Loops, S2Caps and S2LatLngRects
          East     \* the longitude of the antimeridian

ASSUME EastAssumption == East \in Nat

Lng == -East..East

ASSUME ShapeAssumption ==
  \A s \in Shape :
    /\ s.lat_lo \in Int /\ s.lat_hi \in Int
    /\ s.lng_lo \in Lng /\ s.lng_hi \in Lng \ {-East}
    /\ s.lng_lo = -East => s.lng_hi = East   \* S2 writes -180 as 180 otherwise

----------------------------------------------------------------------------
(* Documents.  The text of a bbox or a disc is a shape.  A .poly file is   *)
(* the shapes of its rings and what stands after the last ring: END, END   *)
(* with the carriage return of a file from Windows, or nothing.  GeoJSON   *)
(* objects are records.                                                    *)

IsGeometry(geometry) ==
  /\ geometry.type = "Polygon" => geometry.shape \in Shape
  /\ geometry.type = "MultiPolygon" => geometry.shapes \in Seq(Shape)

IsGeoJson(json) ==
  CASE json.type = "GeometryCollection" ->
         json.geometries \in Seq(ToSet(json.geometries))
    [] json.type = "Feature" -> IsGeometry(json.geometry)
    [] json.type = "FeatureCollection" ->
         /\ json.features \in Seq(ToSet(json.features))
         /\ \A f \in ToSet(json.features) : IsGeometry(f.geometry)
    [] OTHER -> IsGeometry(json)

\* The text of a document is of its kind.
IsDocument(document) ==
  CASE document.ext \in {"bbox", "disc"} -> document.text \in Shape
    [] document.ext = "poly" -> document.text.rings \in Seq(Shape)
    [] document.ext = "geojson" -> IsGeoJson(document.text)
    [] OTHER -> TRUE

FromGeometry(geometry) ==
  CASE geometry.type = "Polygon" -> <<geometry.shape>>
    [] geometry.type = "MultiPolygon" -> geometry.shapes
    [] OTHER -> <<>>

\* The loop over a GeometryCollection hands over the collection each time.
FromGeoJson(json) ==
  CASE json.type = "GeometryCollection" ->
         FlattenSeq([i \in DOMAIN json.geometries |-> FromGeometry(json)])
    [] json.type = "Feature" -> FromGeometry(json.geometry)
    [] json.type = "FeatureCollection" ->
         FlattenSeq([i \in DOMAIN json.features |->
                       FromGeometry(json.features[i].geometry)])
    [] OTHER -> FromGeometry(json)

\* The END of a ring is looked for in a trimmed line, the END of the file in
\* the line as it is: "END\r" is the name of a ring, which has no points, and
\* points[0] is read.
Crashes(document) == document.ext = "poly" /\ document.text.last = "END\r"

----------------------------------------------------------------------------
(* Region's constructor and methods; a region is its sequence of shapes.   *)

MakeShapes(document) ==
  CASE document.ext \in {"bbox", "disc"} -> <<document.text>>
    [] document.ext = "poly" -> document.text.rings
    [] document.ext = "geojson" -> FromGeoJson(document.text)

GetCovering(region) == UNION {region[i].cells : i \in DOMAIN region}

Least(S) == CHOOSE x \in S : \A y \in S : x <= y
Greatest(S) == CHOOSE x \in S : \A y \in S : y <= x

\* Mutant: the loop starts from the first shape and takes only its latitudes.
FirstLatitudes(region) ==
  LET R == {region[i] : i \in DOMAIN region}
  IN  [lat_lo |-> region[1].lat_lo, lat_hi |-> region[1].lat_hi,
       lng_lo |-> Least({s.lng_lo : s \in R}),
       lng_hi |-> Greatest({s.lng_hi : s \in R})]

\* Each bound is the extreme one, as if longitudes were on a line.
GetBounds(region) ==
  LET R == {region[i] : i \in DOMAIN region}
  IN  [lat_lo |-> Least({s.lat_lo : s \in R}),
       lat_hi |-> Greatest({s.lat_hi : s \in R}),
       lng_lo |-> Least({s.lng_lo : s \in R}),
       lng_hi |-> Greatest({s.lng_hi : s \in R})]

----------------------------------------------------------------------------
(* Reference definitions: what a document describes.                       *)

\* The areas of a geometry, by the GeoJSON format.
SimpleAreas(geometry) ==
  CASE geometry.type = "Polygon" -> {geometry.shape}
    [] geometry.type = "MultiPolygon" -> ToSet(geometry.shapes)
    [] OTHER -> {}

Areas(geometry) ==
  IF geometry.type = "GeometryCollection"
  THEN UNION {SimpleAreas(g) : g \in ToSet(geometry.geometries)}
  ELSE SimpleAreas(geometry)

Described(document) ==
  CASE document.ext \in {"bbox", "disc"} -> {document.text}
    [] document.ext = "poly" -> ToSet(document.text.rings)
    [] document.ext = "geojson" /\ document.text.type = "Feature" ->
         Areas(document.text.geometry)
    [] document.ext = "geojson" /\ document.text.type = "FeatureCollection" ->
         UNION {Areas(f.geometry) : f \in ToSet(document.text.features)}
    [] OTHER -> Areas(document.text)

IsCollection(geometry) == geometry.type = "GeometryCollection"

\* No geometry is a collection.
WithoutCollection(json) ==
  CASE json.type = "Feature" -> ~IsCollection(json.geometry)
    [] json.type = "FeatureCollection" ->
         \A f \in ToSet(json.features) : ~IsCollection(f.geometry)
    [] OTHER -> ~IsCollection(json)

\* Nor does a carriage return follow the last END of a .poly file.
Understood(document) ==
  CASE document.ext = "poly" -> document.text.last # "END\r"
    [] document.ext = "geojson" -> WithoutCollection(document.text)
    [] OTHER -> TRUE

Crosses(shape) == shape.lng_lo > shape.lng_hi

\* The longitudes of a rectangle, eastward from lng_lo to lng_hi.
Longitudes(rect) ==
  IF Crosses(rect) THEN rect.lng_lo..East \cup -East..rect.lng_hi
                   ELSE rect.lng_lo..rect.lng_hi

Encloses(box, shape) ==
  /\ box.lat_lo <= shape.lat_lo /\ shape.lat_hi <= box.lat_hi
  /\ Longitudes(shape) \subseteq Longitudes(box)
=============================================================================
