---------------------------- MODULE ExtractProofs ----------------------------
(***************************************************************************)
(* Proofs about the extract command: what a region document yields, what   *)
(* the command selects and writes, and that it does not die of a missing   *)
(* row, for every database, document and command line.                     *)
(***************************************************************************)
EXTENDS Extract, StorageProofs, NumberProofs, FiniteSetTheorems

----------------------------------------------------------------------------
(* Flattened sequences, which a recursive function computes.               *)

\* The empty sequence has none.
LEMMA NoElements == ToSet(<<>>) = {}
  BY DEF ToSet

\* Sequences of one element and of none.
LEMMA OneElement ==
  ASSUME NEW T, NEW x \in T
  PROVE  <<x>> \in Seq(T) /\ <<>> \in Seq(T)
  OBVIOUS

LEMMA SetOfOne == \A x : ToSet(<<x>>) = {x} /\ <<x>> # <<>>
  BY DEF ToSet

\* The elements of two sequences one after the other.
LEMMA SetOfConcat ==
  ASSUME NEW T, NEW s \in Seq(T), NEW t \in Seq(T)
  PROVE  s \o t \in Seq(T) /\ ToSet(s \o t) = ToSet(s) \cup ToSet(t)
<1>1. \A i \in 1..Len(s) + Len(t) :
        (s \o t)[i] = IF i <= Len(s) THEN s[i] ELSE t[i - Len(s)]
  OBVIOUS
<1>2. DOMAIN s = 1..Len(s) /\ DOMAIN t = 1..Len(t) /\ DOMAIN (s \o t) = 1..Len(s) + Len(t)
  OBVIOUS
<1>3. Len(s) \in Nat /\ Len(t) \in Nat
  OBVIOUS
<1>4. ToSet(s \o t) \subseteq ToSet(s) \cup ToSet(t)
  BY <1>1, <1>2, <1>3 DEF ToSet
<1>5. ToSet(s) \subseteq ToSet(s \o t)
  BY <1>1, <1>2, <1>3 DEF ToSet
<1>6. ASSUME NEW i \in 1..Len(t) PROVE t[i] \in ToSet(s \o t)
  <2>1. Len(s) + i \in 1..Len(s) + Len(t) /\ (s \o t)[Len(s) + i] = t[i]
    BY <1>1, <1>3
  <2> QED
    BY <1>2, <2>1 DEF ToSet
<1> QED
  BY <1>2, <1>4, <1>5, <1>6 DEF ToSet

\* The function that FlattenSeq defines by recursion.
Flattening(f, seqs, n) ==
  f = [i \in 1..n |-> IF i = 1 THEN seqs[i] ELSE f[i - 1] \o seqs[i]]

\* There is one.
LEMMA FlatteningExists ==
  ASSUME NEW seqs, NEW n \in Nat \ {0}
  PROVE  \E f : Flattening(f, seqs, n)
<1> DEFINE S == {k \in Nat : \E f : Flattening(f, seqs, k + 1)}
<1>1. 0 \in S
  <2>1. Flattening([i \in 1..1 |-> seqs[i]], seqs, 1)
    BY DEF Flattening
  <2> QED
    BY <2>1
<1>2. ASSUME NEW k \in Nat, k \in S PROVE k + 1 \in S
  <2>1. PICK f : Flattening(f, seqs, k + 1)
    BY <1>2
  <2> DEFINE g == [i \in 1 .. (k + 1) + 1 |->
                     IF i <= k + 1 THEN f[i] ELSE f[k + 1] \o seqs[i]]
  <2>2. \A i \in 1 .. (k + 1) + 1 : g[i] = IF i = 1 THEN seqs[i] ELSE g[i - 1] \o seqs[i]
    <3> SUFFICES ASSUME NEW i \in 1 .. (k + 1) + 1
                 PROVE  g[i] = IF i = 1 THEN seqs[i] ELSE g[i - 1] \o seqs[i]
      OBVIOUS
    <3>1. CASE i <= k + 1
      <4>1. i \in 1 .. k + 1 /\ (i # 1 => i - 1 \in 1 .. k + 1)
        BY <3>1
      <4>2. f[i] = IF i = 1 THEN seqs[i] ELSE f[i - 1] \o seqs[i]
        BY <2>1, <4>1 DEF Flattening
      <4>3. g[i] = f[i] /\ (i # 1 => g[i - 1] = f[i - 1])
        BY <4>1
      <4> QED
        BY <4>2, <4>3
    <3>2. CASE i = (k + 1) + 1
      <4>1. i # 1 /\ ~(i <= k + 1) /\ i - 1 = k + 1 /\ k + 1 \in 1 .. (k + 1) + 1
        BY <3>2
      <4>2. g[i] = f[k + 1] \o seqs[i]
        BY <4>1
      <4>3. g[k + 1] = f[k + 1]
        BY <4>1
      <4> HIDE DEF g
      <4> QED
        BY <4>1, <4>2, <4>3
    <3> QED
      BY <3>1, <3>2
  <2>3. Flattening(g, seqs, (k + 1) + 1)
    BY <2>2 DEF Flattening
  <2> QED
    BY <2>3
<1>3. Nat \subseteq S
  <2> HIDE DEF S
  <2> QED
    BY <1>1, <1>2, SetInduction
<1>4. n - 1 \in S /\ (n - 1) + 1 = n
  BY <1>3
<1> QED
  BY <1>4

\* The elements of a flattened sequence are those of its sequences.
LEMMA FlattenedSet ==
  ASSUME NEW T, NEW n \in Nat, NEW seqs \in [1..n -> Seq(T)]
  PROVE  /\ FlattenSeq(seqs) \in Seq(T)
         /\ ToSet(FlattenSeq(seqs)) = UNION {ToSet(seqs[i]) : i \in 1..n}
<1>0. seqs \in Seq(Seq(T)) /\ Len(seqs) = n
  OBVIOUS
<1>1. CASE n = 0
  BY <1>0, <1>1 DEF FlattenSeq, ToSet
<1>2. CASE n # 0
  <2> DEFINE f == CHOOSE f : Flattening(f, seqs, n)
  <2>1. Flattening(f, seqs, n)
    BY <1>2, FlatteningExists
  <2>2. FlattenSeq(seqs) = f[n]
    BY <1>0, <1>2 DEF FlattenSeq, Flattening
  <2> HIDE DEF f
  <2>3. \A i \in 1..n : f[i] = IF i = 1 THEN seqs[i] ELSE f[i - 1] \o seqs[i]
    BY <2>1 DEF Flattening
  <2> DEFINE Good(k) == /\ f[k] \in Seq(T)
                        /\ ToSet(f[k]) = UNION {ToSet(seqs[i]) : i \in 1..k}
             S == {k \in Nat : k < n => Good(k + 1)}
  <2>4. 0 \in S
    <3>1. f[1] = seqs[1] /\ 1 \in 1..n /\ \A i \in 1..1 : i = 1
      BY <1>2, <2>3
    <3>2. f[1] \in Seq(T) /\ ToSet(f[1]) = UNION {ToSet(seqs[i]) : i \in 1..1}
      BY <3>1
    <3> QED
      BY <3>2
  <2>5. ASSUME NEW k \in Nat, k \in S PROVE k + 1 \in S
    <3> SUFFICES ASSUME k + 1 < n PROVE Good((k + 1) + 1)
      OBVIOUS
    <3> DEFINE m == k + 1
    <3>1. m \in 1..n /\ m + 1 \in 1..n /\ m + 1 # 1 /\ (m + 1) - 1 = m
      OBVIOUS
    <3>2. Good(m)
      BY <2>5
    <3> HIDE DEF m
    <3>3. f[m + 1] = f[m] \o seqs[m + 1]
      BY <2>3, <3>1
    <3>4. seqs[m + 1] \in Seq(T)
      BY <3>1
    <3>5. f[m + 1] \in Seq(T) /\ ToSet(f[m + 1]) = ToSet(f[m]) \cup ToSet(seqs[m + 1])
      BY <3>2, <3>3, <3>4, SetOfConcat
    <3>6. 1..(m + 1) = 1..m \cup {m + 1}
      BY <3>1
    <3>7. Good(m + 1)
      BY <3>2, <3>5, <3>6
    <3> QED
      BY <3>7 DEF m
  <2>6. Nat \subseteq S
    <3> HIDE DEF S
    <3> QED
      BY <2>4, <2>5, SetInduction
  <2>7. n - 1 \in Nat /\ n - 1 < n /\ (n - 1) + 1 = n
    BY <1>2
  <2>8. n - 1 \in S
    BY <2>6, <2>7
  <2>9. Good((n - 1) + 1)
    BY <2>7, <2>8
  <2> QED
    BY <2>2, <2>7, <2>9
<1> QED
  BY <1>1, <1>2

----------------------------------------------------------------------------
(* The region of a document and the box around it.                         *)

\* The shapes of a geometry are its areas.
LEMMA GeometryShapes ==
  ASSUME NEW geometry, IsGeometry(geometry)
  PROVE  /\ FromGeometry(geometry) \in Seq(Shape)
         /\ ToSet(FromGeometry(geometry)) = SimpleAreas(geometry)
<1>1. CASE geometry.type = "Polygon"
  BY <1>1 DEF IsGeometry, FromGeometry, SimpleAreas, ToSet
<1>2. CASE geometry.type = "MultiPolygon"
  BY <1>2 DEF IsGeometry, FromGeometry, SimpleAreas
<1>3. CASE geometry.type \notin {"Polygon", "MultiPolygon"}
  <2>1. FromGeometry(geometry) = <<>> /\ SimpleAreas(geometry) = {}
    BY <1>3 DEF FromGeometry, SimpleAreas
  <2> QED
    BY <2>1 DEF ToSet
<1> QED
  BY <1>1, <1>2, <1>3

\* A sequence has the domain 1..n, whatever its elements.
LEMMA DomainOfSeq ==
  ASSUME NEW s, s \in Seq(ToSet(s))
  PROVE  \E n \in Nat : DOMAIN s = 1..n
  BY Len(s) \in Nat /\ DOMAIN s = 1..Len(s)

\* What a GeoJSON text yields, and that it is what the text describes.
LEMMA GeoJsonShapes ==
  ASSUME NEW json, IsGeoJson(json)
  PROVE  /\ FromGeoJson(json) \in Seq(Shape)
         /\ json.type = "Feature" /\ ~IsCollection(json.geometry) =>
              ToSet(FromGeoJson(json)) = Areas(json.geometry)
         /\ json.type = "FeatureCollection"
              /\ (\A f \in ToSet(json.features) : ~IsCollection(f.geometry)) =>
                 ToSet(FromGeoJson(json)) = UNION {Areas(f.geometry) : f \in ToSet(json.features)}
         /\ json.type \notin {"Feature", "FeatureCollection"} /\ ~IsCollection(json) =>
              ToSet(FromGeoJson(json)) = Areas(json)
<1>1. CASE json.type = "GeometryCollection"
  <2>1. FromGeometry(json) = <<>>
    BY <1>1 DEF FromGeometry
  <2>2. PICK n \in Nat : DOMAIN json.geometries = 1..n
    BY <1>1, DomainOfSeq DEF IsGeoJson
  <2> DEFINE seqs == [i \in 1..n |-> FromGeometry(json)]
  <2>3. seqs \in [1..n -> Seq(Shape)]
    BY <2>1
  <2>4. FromGeoJson(json) = FlattenSeq(seqs)
    BY <1>1, <2>2 DEF FromGeoJson
  <2> HIDE DEF seqs
  <2>5. FromGeoJson(json) \in Seq(Shape)
    BY <2>3, <2>4, FlattenedSet
  <2> QED
    BY <1>1, <2>5 DEF IsCollection
<1>2. CASE json.type = "Feature"
  <2>1. IsGeometry(json.geometry) /\ FromGeoJson(json) = FromGeometry(json.geometry)
    BY <1>2 DEF IsGeoJson, FromGeoJson
  <2>2. /\ FromGeoJson(json) \in Seq(Shape)
        /\ ToSet(FromGeoJson(json)) = SimpleAreas(json.geometry)
    BY <2>1, GeometryShapes
  <2> QED
    BY <1>2, <2>2 DEF Areas, IsCollection
<1>3. CASE json.type = "FeatureCollection"
  <2>1. PICK n \in Nat : DOMAIN json.features = 1..n
    BY <1>3, DomainOfSeq DEF IsGeoJson
  <2> DEFINE seqs == [i \in 1..n |-> FromGeometry(json.features[i].geometry)]
  <2>2. \A i \in 1..n : json.features[i] \in ToSet(json.features)
    BY <2>1 DEF ToSet
  <2>3. ASSUME NEW i \in 1..n
        PROVE  /\ seqs[i] \in Seq(Shape)
               /\ ToSet(seqs[i]) = SimpleAreas(json.features[i].geometry)
    <3>1. IsGeometry(json.features[i].geometry)
      BY <1>3, <2>2 DEF IsGeoJson
    <3>2. seqs[i] = FromGeometry(json.features[i].geometry)
      OBVIOUS
    <3> HIDE DEF seqs
    <3> QED
      BY <3>1, <3>2, GeometryShapes
  <2>4. seqs \in [1..n -> Seq(Shape)]
    BY <2>3
  <2>5. FromGeoJson(json) = FlattenSeq(seqs)
    BY <1>3, <2>1 DEF FromGeoJson
  <2> HIDE DEF seqs
  <2>6. /\ FromGeoJson(json) \in Seq(Shape)
        /\ ToSet(FromGeoJson(json)) = UNION {ToSet(seqs[i]) : i \in 1..n}
    BY <2>4, <2>5, FlattenedSet
  <2>7. ASSUME \A f \in ToSet(json.features) : ~IsCollection(f.geometry)
        PROVE  ToSet(FromGeoJson(json)) = UNION {Areas(f.geometry) : f \in ToSet(json.features)}
    <3>1. \A i \in 1..n : ToSet(seqs[i]) = Areas(json.features[i].geometry)
      BY <2>2, <2>3, <2>7 DEF Areas, IsCollection
    <3>2. ToSet(json.features) = {json.features[i] : i \in 1..n}
      BY <2>1 DEF ToSet
    <3> QED
      BY <2>6, <3>1, <3>2
  <2> QED
    BY <1>3, <2>6, <2>7
<1>4. CASE json.type \notin {"GeometryCollection", "Feature", "FeatureCollection"}
  <2>1. IsGeometry(json) /\ FromGeoJson(json) = FromGeometry(json)
    BY <1>4 DEF IsGeoJson, FromGeoJson
  <2>2. /\ FromGeoJson(json) \in Seq(Shape)
        /\ ToSet(FromGeoJson(json)) = SimpleAreas(json)
    BY <2>1, GeometryShapes
  <2> QED
    BY <1>4, <2>2 DEF Areas, IsCollection
<1> QED
  BY <1>1, <1>2, <1>3, <1>4

\* The shapes of a document that is understood are the areas it describes.
LEMMA ShapesDescribed ==
  ASSUME NEW document, document.ext \in Extensions, IsDocument(document)
  PROVE  /\ MakeShapes(document) \in Seq(Shape)
         /\ Understood(document) => ToSet(MakeShapes(document)) = Described(document)
<1>1. CASE document.ext \in {"bbox", "disc"}
  <2>1. document.text \in Shape /\ MakeShapes(document) = <<document.text>>
        /\ Described(document) = {document.text}
    BY <1>1 DEF IsDocument, MakeShapes, Described
  <2> QED
    BY <2>1 DEF ToSet
<1>2. CASE document.ext = "poly"
  BY <1>2 DEF IsDocument, MakeShapes, Described
<1>3. CASE document.ext = "geojson"
  <2> DEFINE json == document.text
  <2>1. IsGeoJson(json) /\ MakeShapes(document) = FromGeoJson(json)
    BY <1>3 DEF IsDocument, MakeShapes
  <2>2. CASE json.type = "Feature"
    <3>1. /\ Described(document) = Areas(json.geometry)
          /\ Understood(document) => ~IsCollection(json.geometry)
      BY <1>3, <2>2 DEF Described, Understood, WithoutCollection
    <3> QED
      BY <2>1, <2>2, <3>1, GeoJsonShapes
  <2>3. CASE json.type = "FeatureCollection"
    <3>1. /\ Described(document) = UNION {Areas(f.geometry) : f \in ToSet(json.features)}
          /\ Understood(document) =>
               \A f \in ToSet(json.features) : ~IsCollection(f.geometry)
      BY <1>3, <2>3 DEF Described, Understood, WithoutCollection
    <3> QED
      BY <2>1, <2>3, <3>1, GeoJsonShapes
  <2>4. CASE json.type \notin {"Feature", "FeatureCollection"}
    <3>1. /\ Described(document) = Areas(json)
          /\ Understood(document) => ~IsCollection(json)
      BY <1>3, <2>4 DEF Described, Understood, WithoutCollection
    <3> QED
      BY <2>1, <2>4, <3>1, GeoJsonShapes
  <2> QED
    BY <2>2, <2>3, <2>4
<1> QED
  BY <1>1, <1>2, <1>3 DEF Extensions

\* Least and Greatest are what they are named for.
LEMMA LeastIs ==
  ASSUME NEW S, NEW x \in S, \A y \in S : x <= y
  PROVE  Least(S) \in S /\ \A y \in S : Least(S) <= y
  BY DEF Least

LEMMA GreatestIs ==
  ASSUME NEW S, NEW x \in S, \A y \in S : y <= x
  PROVE  Greatest(S) \in S /\ \A y \in S : y <= Greatest(S)
  BY DEF Greatest

\* They exist among the values of a function on 1..n.
LEMMA ExtremeValues ==
  ASSUME NEW n \in Nat \ {0}, NEW f, \A i \in 1..n : f[i] \in Int,
         NEW S, \A i \in 1..n : f[i] \in S, \A y \in S : \E i \in 1..n : y = f[i]
  PROVE  /\ Least(S) \in S /\ \A y \in S : Least(S) <= y
         /\ Greatest(S) \in S /\ \A y \in S : y <= Greatest(S)
<1>1. PICK i \in 1..n : \A j \in 1..n : f[i] <= f[j]
  BY LeastValue
<1>2. PICK k \in 1..n : \A j \in 1..n : f[j] <= f[k]
  BY GreatestValue
<1>3. f[i] \in S /\ \A y \in S : f[i] <= y
  BY <1>1
<1>4. f[k] \in S /\ \A y \in S : y <= f[k]
  BY <1>2
<1> QED
  BY <1>3, <1>4, LeastIs, GreatestIs

\* A box of the shapes, bound for bound.
IsBoxOf(box, shapes) ==
  /\ box.lat_lo \in {s.lat_lo : s \in shapes} /\ \A s \in shapes : box.lat_lo <= s.lat_lo
  /\ box.lat_hi \in {s.lat_hi : s \in shapes} /\ \A s \in shapes : s.lat_hi <= box.lat_hi
  /\ box.lng_lo \in {s.lng_lo : s \in shapes} /\ \A s \in shapes : box.lng_lo <= s.lng_lo
  /\ box.lng_hi \in {s.lng_hi : s \in shapes} /\ \A s \in shapes : s.lng_hi <= box.lng_hi

LEMMA BoundsAreBox ==
  ASSUME NEW shapes \in Seq(Shape), shapes # <<>>
  PROVE  /\ GetBounds(shapes) \in [lat_lo : Int, lat_hi : Int, lng_lo : Lng, lng_hi : Lng]
         /\ IsBoxOf(GetBounds(shapes), ToSet(shapes))
<1> DEFINE n == Len(shapes)
           R == {shapes[i] : i \in DOMAIN shapes}
           LatLo == {s.lat_lo : s \in R}
           LatHi == {s.lat_hi : s \in R}
           LngLo == {s.lng_lo : s \in R}
           LngHi == {s.lng_hi : s \in R}
           box == GetBounds(shapes)
<1>1. n \in Nat \ {0} /\ DOMAIN shapes = 1..n /\ \A i \in 1..n : shapes[i] \in Shape
  OBVIOUS
<1> HIDE DEF n
<1>2. \A i \in 1..n : /\ shapes[i].lat_lo \in Int /\ shapes[i].lat_hi \in Int
                      /\ shapes[i].lng_lo \in Lng /\ shapes[i].lng_hi \in Lng
  BY <1>1, ShapeAssumption
<1>3. Lng \subseteq Int
  BY EastAssumption DEF Lng
<1>4. R = {shapes[i] : i \in 1..n} /\ ToSet(shapes) = R
  BY <1>1 DEF ToSet
<1>5. box = [lat_lo |-> Least(LatLo), lat_hi |-> Greatest(LatHi),
               lng_lo |-> Least(LngLo), lng_hi |-> Greatest(LngHi)]
  BY DEF GetBounds
<1>6. (\A i \in 1..n : shapes[i] \in R) /\ (\A s \in R : \E i \in 1..n : s = shapes[i])
  BY <1>4
<1> HIDE DEF R, box
<1>7. Least(LatLo) \in LatLo /\ \A y \in LatLo : Least(LatLo) <= y
  <2> DEFINE f == [i \in 1..n |-> shapes[i].lat_lo]
  <2>1. \A i \in 1..n : f[i] \in LatLo /\ f[i] \in Int
    BY <1>2, <1>6
  <2>2. \A y \in LatLo : \E i \in 1..n : y = f[i]
    BY <1>6
  <2> HIDE DEF f, LatLo
  <2> QED
    BY <1>1, <2>1, <2>2, ExtremeValues
<1>8. Greatest(LatHi) \in LatHi /\ \A y \in LatHi : y <= Greatest(LatHi)
  <2> DEFINE f == [i \in 1..n |-> shapes[i].lat_hi]
  <2>1. \A i \in 1..n : f[i] \in LatHi /\ f[i] \in Int
    BY <1>2, <1>6
  <2>2. \A y \in LatHi : \E i \in 1..n : y = f[i]
    BY <1>6
  <2> HIDE DEF f, LatHi
  <2> QED
    BY <1>1, <2>1, <2>2, ExtremeValues
<1>9. Least(LngLo) \in LngLo /\ \A y \in LngLo : Least(LngLo) <= y
  <2> DEFINE f == [i \in 1..n |-> shapes[i].lng_lo]
  <2>1. \A i \in 1..n : f[i] \in LngLo /\ f[i] \in Int
    BY <1>2, <1>3, <1>6
  <2>2. \A y \in LngLo : \E i \in 1..n : y = f[i]
    BY <1>6
  <2> HIDE DEF f, LngLo
  <2> QED
    BY <1>1, <2>1, <2>2, ExtremeValues
<1>10. Greatest(LngHi) \in LngHi /\ \A y \in LngHi : y <= Greatest(LngHi)
  <2> DEFINE f == [i \in 1..n |-> shapes[i].lng_hi]
  <2>1. \A i \in 1..n : f[i] \in LngHi /\ f[i] \in Int
    BY <1>2, <1>3, <1>6
  <2>2. \A y \in LngHi : \E i \in 1..n : y = f[i]
    BY <1>6
  <2> HIDE DEF f, LngHi
  <2> QED
    BY <1>1, <2>1, <2>2, ExtremeValues
<1>11. /\ \A s \in R : /\ s.lat_lo \in LatLo /\ s.lat_hi \in LatHi
                       /\ s.lng_lo \in LngLo /\ s.lng_hi \in LngHi
       /\ LatLo \subseteq Int /\ LatHi \subseteq Int
       /\ LngLo \subseteq Lng /\ LngHi \subseteq Lng
  BY <1>2, <1>6
<1> HIDE DEF LatLo, LatHi, LngLo, LngHi
<1>12. /\ box.lat_lo = Least(LatLo) /\ box.lat_hi = Greatest(LatHi)
       /\ box.lng_lo = Least(LngLo) /\ box.lng_hi = Greatest(LngHi)
  BY <1>5
<1>13. box \in [lat_lo : Int, lat_hi : Int, lng_lo : Lng, lng_hi : Lng]
  BY <1>7, <1>8, <1>9, <1>10, <1>5, <1>11
<1>14. IsBoxOf(box, R)
  <2>1. /\ box.lat_lo \in LatLo /\ \A s \in R : box.lat_lo <= s.lat_lo
        /\ box.lat_hi \in LatHi /\ \A s \in R : s.lat_hi <= box.lat_hi
        /\ box.lng_lo \in LngLo /\ \A s \in R : box.lng_lo <= s.lng_lo
        /\ box.lng_hi \in LngHi /\ \A s \in R : s.lng_hi <= box.lng_hi
    BY <1>7, <1>8, <1>9, <1>10, <1>11, <1>12
  <2> QED
    BY <2>1 DEF IsBoxOf, LatLo, LatHi, LngLo, LngHi
<1> QED
  BY <1>4, <1>13, <1>14 DEF box

\* The elements of a sequence are a finite set.
LEMMA ElementsFinite ==
  ASSUME NEW T, NEW s \in Seq(T)
  PROVE  IsFiniteSet(ToSet(s))
<1>1. Len(s) \in Nat /\ DOMAIN s = 1..Len(s)
  OBVIOUS
<1>2. s \in Surjection(1..Len(s), ToSet(s))
  BY <1>1 DEF Surjection, ToSet
<1>3. ExistsSurjection(1..Len(s), ToSet(s))
  BY <1>2 DEF ExistsSurjection
<1> QED
  BY <1>1, <1>3, FS_NatSurjection

\* A box around areas that do not cross the antimeridian encloses them all, if
\* it has a width; that of a single area that crosses it has none.
LEMMA BoxFits ==
  ASSUME NEW areas \in SUBSET Shape, IsFiniteSet(areas),
         NEW box \in [lat_lo : Int, lat_hi : Int, lng_lo : Lng, lng_hi : Lng],
         IsBoxOf(box, areas)
  PROVE  /\ (\A s \in areas : ~Crosses(s)) =>
              IF box.lng_lo < box.lng_hi
              THEN \A s \in areas : Encloses(box, s)
              ELSE \A s, t \in areas : s.lng_lo = t.lng_hi
         /\ (\A s \in areas : Crosses(s)) /\ Cardinality(areas) = 1 =>
              ~(box.lng_lo < box.lng_hi)
<1>1. Lng \subseteq Int
  BY EastAssumption DEF Lng
<1>2. \A s \in areas : /\ s.lat_lo \in Int /\ s.lat_hi \in Int
                       /\ s.lng_lo \in Int /\ s.lng_hi \in Int
  BY <1>1, ShapeAssumption
<1>3. /\ box.lat_lo \in Int /\ box.lat_hi \in Int
      /\ box.lng_lo \in Int /\ box.lng_hi \in Int
  BY <1>1
<1>4. \A s \in areas : /\ box.lat_lo <= s.lat_lo /\ s.lat_hi <= box.lat_hi
                       /\ box.lng_lo <= s.lng_lo /\ s.lng_hi <= box.lng_hi
  BY DEF IsBoxOf
<1>5. ASSUME \A s \in areas : ~Crosses(s), box.lng_lo < box.lng_hi, NEW s \in areas
      PROVE  Encloses(box, s)
  <2>1. Longitudes(s) = s.lng_lo..s.lng_hi
    BY <1>5 DEF Longitudes
  <2>2. Longitudes(box) = box.lng_lo..box.lng_hi
    BY <1>3, <1>5 DEF Longitudes, Crosses
  <2>3. s.lng_lo..s.lng_hi \subseteq box.lng_lo..box.lng_hi
    BY <1>2, <1>3, <1>4
  <2> QED
    BY <1>4, <2>1, <2>2, <2>3 DEF Encloses
<1>6. ASSUME \A s \in areas : ~Crosses(s), ~(box.lng_lo < box.lng_hi),
             NEW s \in areas, NEW t \in areas
      PROVE  s.lng_lo = t.lng_hi
  <2>1. s.lng_lo <= s.lng_hi /\ t.lng_lo <= t.lng_hi
    BY <1>2, <1>6 DEF Crosses
  <2>2. /\ box.lng_lo <= s.lng_lo /\ s.lng_hi <= box.lng_hi
        /\ box.lng_lo <= t.lng_lo /\ t.lng_hi <= box.lng_hi
    BY <1>4
  <2> QED
    BY <1>2, <1>3, <1>6, <2>1, <2>2
<1>7. ASSUME \A s \in areas : Crosses(s), Cardinality(areas) = 1
      PROVE  ~(box.lng_lo < box.lng_hi)
  <2>1. PICK x : areas = {x}
    BY <1>7, FS_Singleton
  <2>2. box.lng_lo = x.lng_lo /\ box.lng_hi = x.lng_hi
    BY <2>1 DEF IsBoxOf
  <2>3. x.lng_lo > x.lng_hi /\ x.lng_lo \in Int /\ x.lng_hi \in Int
    BY <1>2, <1>7, <2>1 DEF Crosses
  <2> QED
    BY <2>2, <2>3
<1> QED
  BY <1>5, <1>6, <1>7

----------------------------------------------------------------------------
(* What is read from exact indexes.                                        *)

\* The database and the command line are among the inputs.
InputInv == WellFormed(db) /\ IsCommandLine(options)

\* The elements the covering selects, from the element rows alone.
InCover == {n \in DOMAIN db.locations : CellOf[db.locations[n]] \in covering}
ThroughCover == {w \in DOMAIN db.ways : db.ways[w] \cap InCover # {}}
NodeUsers == {r \in DOMAIN db.relations : db.relations[r].node \cap InCover # {}}
WayUsers == {r \in DOMAIN db.relations : db.relations[r].way \cap ThroughCover # {}}
Parents(S) == {r \in DOMAIN db.relations : db.relations[r].relation \cap S # {}}

\* Looking up ids in the inverse of a table finds the rows that name one.
LEMMA TraverseBackrefs ==
  ASSUME NEW refs, NEW index, index = Backrefs(refs), NEW ids
  PROVE  TraverseAll(index, ids) = {id \in DOMAIN refs : refs[id] \cap ids # {}}
<1>1. ASSUME NEW x PROVE x \in TraverseAll(index, ids) <=> \E i \in ids : <<i, x>> \in index
  <2>1. ASSUME x \in TraverseAll(index, ids) PROVE \E i \in ids : <<i, x>> \in index
    <3>1. PICK i \in ids : x \in TraverseReverse(index, i)
      BY <2>1 DEF TraverseAll
    <3>2. PICK e \in index : e[1] = i /\ e[2] = x
      BY <3>1 DEF TraverseReverse
    <3>3. PICK id \in DOMAIN refs : e \in refs[id] \X {id}
      BY <3>2 DEF Backrefs
    <3>4. e = <<e[1], e[2]>>
      BY <3>3
    <3> QED
      BY <3>2, <3>4
  <2>2. ASSUME NEW i \in ids, <<i, x>> \in index PROVE x \in TraverseAll(index, ids)
    <3>1. x \in TraverseReverse(index, i)
      <4> DEFINE e == <<i, x>>
      <4>1. e \in index /\ e[1] = i /\ e[2] = x
        BY <2>2
      <4> HIDE DEF e
      <4> QED
        BY <4>1 DEF TraverseReverse
    <3> QED
      BY <3>1 DEF TraverseAll
  <2> QED
    BY <2>1, <2>2
<1>2. ASSUME NEW i, NEW x PROVE <<i, x>> \in index <=> x \in DOMAIN refs /\ i \in refs[x]
  BY DEF Backrefs
<1> QED
  BY <1>1, <1>2

LEMMA TraverseCover ==
  ASSUME WellFormed(db)
  PROVE  TraverseCells(db, covering) = InCover
<1> DEFINE refs == [n \in DOMAIN db.locations |-> {CellOf[db.locations[n]]}]
<1>1. db.cell_node = Backrefs(refs)
  BY DEF WellFormed, WellIndexed, CellIndexExact
<1>2. TraverseAll(db.cell_node, covering) = {n \in DOMAIN refs : refs[n] \cap covering # {}}
  <2> HIDE DEF refs
  <2> QED
    BY <1>1, TraverseBackrefs
<1>3. TraverseCells(db, covering) = TraverseAll(db.cell_node, covering)
  BY DEF TraverseCells, TraverseAll, TraverseReverse
<1>4. {n \in DOMAIN refs : refs[n] \cap covering # {}} = InCover
  BY DEF InCover
<1> QED
  BY <1>2, <1>3, <1>4

LEMMA TraverseMembers ==
  ASSUME WellFormed(db), NEW ids
  PROVE  /\ TraverseAll(db.node_way, ids) = {w \in DOMAIN db.ways : db.ways[w] \cap ids # {}}
         /\ TraverseAll(db.node_relation, ids) =
              {r \in DOMAIN db.relations : db.relations[r].node \cap ids # {}}
         /\ TraverseAll(db.way_relation, ids) =
              {r \in DOMAIN db.relations : db.relations[r].way \cap ids # {}}
         /\ TraverseAll(db.relation_relation, ids) = Parents(ids)
<1>1. MemberIndexesExact(db)
  BY DEF WellFormed, WellIndexed
<1>2. TraverseAll(db.node_way, ids) = {w \in DOMAIN db.ways : db.ways[w] \cap ids # {}}
  BY <1>1, TraverseBackrefs DEF MemberIndexesExact
<1>3. TraverseAll(db.node_relation, ids) =
        {r \in DOMAIN db.relations : db.relations[r].node \cap ids # {}}
  <2> DEFINE refs == NodeMembers(db)
  <2>1. db.node_relation = Backrefs(refs)
    BY <1>1 DEF MemberIndexesExact
  <2>2. DOMAIN refs = DOMAIN db.relations
        /\ \A r \in DOMAIN db.relations : refs[r] = db.relations[r].node
    BY DEF NodeMembers
  <2> HIDE DEF refs
  <2> QED
    BY <2>1, <2>2, TraverseBackrefs
<1>4. TraverseAll(db.way_relation, ids) =
        {r \in DOMAIN db.relations : db.relations[r].way \cap ids # {}}
  <2> DEFINE refs == WayMembers(db)
  <2>1. db.way_relation = Backrefs(refs)
    BY <1>1 DEF MemberIndexesExact
  <2>2. DOMAIN refs = DOMAIN db.relations
        /\ \A r \in DOMAIN db.relations : refs[r] = db.relations[r].way
    BY DEF WayMembers
  <2> HIDE DEF refs
  <2> QED
    BY <2>1, <2>2, TraverseBackrefs
<1>5. TraverseAll(db.relation_relation, ids) = Parents(ids)
  <2> DEFINE refs == RelationMembers(db)
  <2>1. db.relation_relation = Backrefs(refs)
    BY <1>1 DEF MemberIndexesExact
  <2>2. DOMAIN refs = DOMAIN db.relations
        /\ \A r \in DOMAIN db.relations : refs[r] = db.relations[r].relation
    BY DEF RelationMembers
  <2> HIDE DEF refs
  <2> QED
    BY <2>1, <2>2, TraverseBackrefs DEF Parents
<1> QED
  BY <1>2, <1>3, <1>4, <1>5

----------------------------------------------------------------------------
(* The inductive invariant.                                                *)

\* The relations that use the region, and sets that hold them and their parents.
Users == NodeUsers \cup WayUsers
Closed(S) == Users \subseteq S /\ Parents(S) \subseteq S
InEveryClosed(S) == \A T \in SUBSET DOMAIN db.relations : Closed(T) => S \subseteq T

\* The ways of the multipolygons among these relations.
Completing(S) ==
  {w \in DOMAIN db.ways :
     \E r \in S : db.relations[r].tags \in Multipolygon /\ w \in db.relations[r].way}

\* The phases from each step of the selection on.
Writing == {"nodes", "ways", "relations", "done"}
NodesComplete == {"header"} \cup Writing
WaysComplete == {"way nodes"} \cup NodesComplete
RelationsFound == {"multipolygons"} \cup WaysComplete
RegionMade == {"covering", "cells", "node_way", "node_relation", "way_relation",
               "parents", "rounds"} \cup RelationsFound

\* The region is that of a document the code can read, and is covered.
PlaceInv ==
  /\ phase \in RegionMade =>
       /\ Given # {} /\ Document.ext \in Extensions
       /\ region = MakeShapes(Document)
  /\ phase \in RegionMade \ {"covering"} => covering = Buffer(GetCovering(region))
  /\ phase \in Writing =>
       /\ region # <<>>
       /\ LET bounds == GetBounds(region)
          IN  boxes = IF bounds.lng_lo < bounds.lng_hi THEN <<bounds>> ELSE <<>>

\* The nodes and ways selected.
FoundInv ==
  /\ phase \in {"node_way", "node_relation", "way_relation", "parents", "rounds",
                "multipolygons", "way nodes"} => node_ids = InCover
  /\ phase \in {"node_relation", "way_relation", "parents", "rounds",
                "multipolygons"} => way_ids = ThroughCover
  /\ phase \in WaysComplete => way_ids = ThroughCover \cup Completing(relation_ids)
  /\ phase \in NodesComplete =>
       node_ids = InCover \cup UNION {db.ways[w] : w \in way_ids}

\* The relations selected: the least closed set when the rounds are over.  Before,
\* only those of the last round may have parents that are missing.
RelationInv ==
  /\ phase = "way_relation" => relation_ids = NodeUsers
  /\ phase = "parents" => relation_ids = Users
  /\ phase = "rounds" =>
       /\ Users \subseteq relation_ids /\ discovered \subseteq relation_ids
       /\ Parents(relation_ids \ discovered) \subseteq relation_ids
  /\ phase \in RelationsFound => Closed(relation_ids)
  /\ phase \in {"rounds"} \cup RelationsFound =>
       relation_ids \subseteq DOMAIN db.relations /\ InEveryClosed(relation_ids)

\* What the writing passes have reached.
LocatedNodes == node_ids \cap DOMAIN db.locations
NodesPassed == IF phase = "nodes" THEN LocatedNodes \ todo ELSE LocatedNodes
WaysPassed ==
  IF phase = "nodes" THEN {} ELSE IF phase = "ways" THEN way_ids \ todo ELSE way_ids
RelationsPassed ==
  IF phase \in {"nodes", "ways"} THEN {}
  ELSE IF phase = "relations" THEN relation_ids \ todo ELSE relation_ids

Passed ==
  ({"node"} \X NodesPassed) \cup ({"way"} \X WaysPassed)
    \cup ({"relation"} \X RelationsPassed)

\* Nothing was committed after this object: no way, no relation and no tagged
\* node that is not before it.
AtTheEnd(o) ==
  /\ o \in {"node"} \X NodesPassed
  /\ WaysPassed = {} /\ RelationsPassed = {}
  /\ \A m \in NodesPassed : m >= o[2] => m \notin db.nodes

\* All that was passed is in the file or in the buffer, at its end.
OutputInv ==
  /\ phase = "nodes" =>
       /\ todo \subseteq node_ids
       /\ \A a \in node_ids \ todo, b \in todo : a < b
  /\ phase = "ways" => todo \subseteq way_ids
  /\ phase = "relations" => todo \subseteq relation_ids
  /\ phase \in Writing \ {"done"} => file \cup pending = Passed
  /\ phase \in Writing \ {"done"} => \A o \in pending : AtTheEnd(o)
  /\ phase = "done" => file \subseteq Passed /\ \A o \in Passed \ file : AtTheEnd(o)
  /\ phase \notin Writing \cup {"aborted"} => file = {} /\ pending = {}

Inv ==
  /\ InputInv /\ TypeOK /\ NeverAborts
  /\ PlaceInv /\ FoundInv /\ RelationInv /\ OutputInv

USE DEF input, selection, place, output, Unselected, Unwritten, Writing,
        NodesComplete, WaysComplete, RelationsFound, RegionMade

\* The first of some numbers is one of them.
LEMMA MinIs ==
  ASSUME NEW S \in SUBSET Nat, S # {}
  PROVE  Min(S) \in S /\ \A n \in S : Min(S) <= n
<1>1. PICK m \in S : \A n \in S : m <= n
  BY LeastNumber
<1> QED
  BY <1>1 DEF Min

\* The document of a command line is of its kind.
LEMMA DocumentIs ==
  ASSUME InputInv, Given # {}
  PROVE  IsDocument(Document)
<1>1. Given \in SUBSET Nat /\ \A g \in Given : Sources[g] \in DOMAIN options.given
  BY DEF Given, Sources
<1>2. Min(Given) \in Given
  BY <1>1, MinIs
<1> QED
  BY <1>1, <1>2 DEF Document, InputInv, IsCommandLine

\* The buffered covering of shapes is a set of cells.
LEMMA CoveringType ==
  ASSUME NEW shapes \in Seq(Shape)
  PROVE  Buffer(GetCovering(shapes)) \subseteq Cell
<1>1. \A i \in DOMAIN shapes : shapes[i] \in Shape
  OBVIOUS
<1>2. GetCovering(shapes) \subseteq Cell
  BY <1>1, CellsAssumption DEF GetCovering
<1>3. ASSUME NEW cells \in SUBSET Cell PROVE Buffer(cells) \subseteq Cell
  BY WidenAssumption DEF Buffer
<1> QED
  BY <1>2, <1>3

\* The command line has at least a shape when its areas are understood.
LEMMA RegionHonoured ==
  ASSUME InputInv, PlaceInv, phase \in RegionMade, Honoured
  PROVE  region \in Seq(Shape) /\ ToSet(region) = Described(Document) /\ region # <<>>
<1>1. IsDocument(Document) /\ Document.ext \in Extensions /\ region = MakeShapes(Document)
  BY DocumentIs DEF PlaceInv
<1>2. region \in Seq(Shape) /\ ToSet(region) = Described(Document)
  BY <1>1, ShapesDescribed DEF Honoured
<1>3. region = <<>> => ToSet(region) = {}
  BY NoElements
<1> QED
  BY <1>2, <1>3 DEF Honoured

\* Rows have ids and name ids.
LEMMA RowTypes ==
  ASSUME WellFormed(db)
  PROVE  /\ DOMAIN db.locations \subseteq Node /\ DOMAIN db.ways \subseteq Way
         /\ DOMAIN db.relations \subseteq Relation
         /\ \A w \in DOMAIN db.ways : db.ways[w] \subseteq Node
         /\ InCover \subseteq Node /\ ThroughCover \subseteq Way
         /\ Users \subseteq Relation /\ \A S : Parents(S) \subseteq Relation
  BY DEF WellFormed, InCover, ThroughCover, Users, NodeUsers, WayUsers, Parents

\* The invariant holds in the initial states.
LEMMA InvInit == Init => Inv
<1> SUFFICES ASSUME Init PROVE Inv
  OBVIOUS
<1>1. InputInv
  BY InputAssumption DEF Init, InputInv
<1>2. TypeOK
  BY DEF Init, TypeOK, Phases
<1>3. NeverAborts /\ PlaceInv /\ FoundInv /\ RelationInv
  BY DEF Init, NeverAborts, PlaceInv, FoundInv, RelationInv
<1>4. OutputInv
  BY DEF Init, OutputInv
<1> QED
  BY <1>1, <1>2, <1>3, <1>4 DEF Inv

\* The steps do not change the inputs.
LEMMA InputNext == InputInv /\ [Next]_vars => InputInv' /\ UNCHANGED input
<1> SUFFICES ASSUME InputInv, [Next]_vars PROVE InputInv' /\ UNCHANGED input
  OBVIOUS
<1>1. UNCHANGED input
  BY DEF Next, Step, Stopped, vars, MakeRegion, Cover, ReadCells, FindWays,
     FindNodeRelations, FindWayRelations, FindParents, ParentsRound,
     CompleteMultipolygons, CompleteWays, WriteHeader, WriteNode, WriteWay,
     WriteRelation, WriteObject, NextPass, Flush
<1> QED
  BY <1>1 DEF InputInv, WellFormed, WellIndexed, CellIndexExact, TaggedAreLocated,
     MemberIndexesExact, NodeMembers, WayMembers, RelationMembers, IsCommandLine

\* Every step keeps the types.
LEMMA TypeNext == Inv /\ [Next]_vars => TypeOK'
<1> SUFFICES ASSUME Inv, [Next]_vars PROVE TypeOK'
  OBVIOUS
<1>0. InputInv /\ TypeOK /\ PlaceInv /\ WellFormed(db)
  BY DEF Inv, InputInv
<1>1. CASE MakeRegion
  <2>1. Given # {} /\ Document.ext \in Extensions => MakeShapes(Document) \in Seq(Shape)
    BY <1>0, DocumentIs, ShapesDescribed
  <2>2. region' \in Seq(Shape) /\ phase' \in Phases
    BY <1>0, <1>1, <2>1 DEF MakeRegion, TypeOK, Phases
  <2> QED
    BY <1>0, <1>1, <2>2 DEF MakeRegion, TypeOK
<1>2. CASE Cover
  <2>1. covering' \subseteq Cell
    BY <1>0, <1>2, CoveringType DEF Cover, TypeOK
  <2> QED
    BY <1>0, <1>2, <2>1 DEF Cover, TypeOK, Phases
<1>3. CASE ReadCells
  <2>1. node_ids' \subseteq Node
    BY <1>0, <1>3, TraverseCover, RowTypes DEF ReadCells
  <2> QED
    BY <1>0, <1>3, <2>1 DEF ReadCells, TypeOK, Phases
<1>4. CASE FindWays
  <2>1. way_ids' \subseteq Way
    BY <1>0, <1>4, TraverseMembers, RowTypes DEF FindWays
  <2> QED
    BY <1>0, <1>4, <2>1 DEF FindWays, TypeOK, Phases
<1>5. CASE FindNodeRelations
  <2>1. relation_ids' \subseteq Relation
    BY <1>0, <1>5, TraverseMembers, RowTypes DEF FindNodeRelations
  <2> QED
    BY <1>0, <1>5, <2>1 DEF FindNodeRelations, TypeOK, Phases
<1>6. CASE FindWayRelations
  <2>1. relation_ids' \subseteq Relation
    BY <1>0, <1>6, TraverseMembers, RowTypes DEF FindWayRelations, TypeOK
  <2> QED
    BY <1>0, <1>6, <2>1 DEF FindWayRelations, TypeOK, Phases
<1>7. CASE FindParents
  <2>1. relation_ids' \subseteq Relation /\ discovered' \subseteq Relation
    BY <1>0, <1>7, TraverseMembers, RowTypes DEF FindParents, TypeOK
  <2> QED
    BY <1>0, <1>7, <2>1 DEF FindParents, TypeOK, Phases
<1>8. CASE ParentsRound
  <2>1. TraverseAll(db.relation_relation, discovered) \subseteq Relation
    BY <1>0, TraverseMembers, RowTypes
  <2>2. relation_ids' \subseteq Relation /\ discovered' \subseteq Relation /\ phase' \in Phases
    BY <1>0, <1>8, <2>1 DEF ParentsRound, TypeOK, Phases
  <2> QED
    BY <1>0, <1>8, <2>2 DEF ParentsRound, TypeOK
<1>9. CASE CompleteMultipolygons
  <2>1. \A r : MultipolygonWays(db, r) \subseteq DOMAIN db.ways
    BY DEF MultipolygonWays, Exists
  <2>2. way_ids \cup UNION {MultipolygonWays(db, r) : r \in relation_ids} \subseteq Way
    BY <1>0, <2>1, RowTypes DEF TypeOK
  <2>3. way_ids' \subseteq Way /\ phase' \in Phases
    <3>1. CASE relation_ids \subseteq DOMAIN db.relations
      BY <1>9, <2>2, <3>1 DEF CompleteMultipolygons, Phases
    <3>2. CASE ~(relation_ids \subseteq DOMAIN db.relations)
      BY <1>0, <1>9, <3>2 DEF CompleteMultipolygons, TypeOK, Phases
    <3> QED
      BY <3>1, <3>2
  <2> QED
    BY <1>0, <1>9, <2>3 DEF CompleteMultipolygons, TypeOK
<1>10. CASE CompleteWays
  <2>1. node_ids' \subseteq Node /\ phase' \in Phases
    <3>1. CASE way_ids \subseteq DOMAIN db.ways
      <4>1. UNION {db.ways[w] : w \in way_ids} \subseteq Node
        BY <1>0, <3>1, RowTypes
      <4> QED
        BY <1>0, <1>10, <3>1, <4>1 DEF CompleteWays, TypeOK, Phases
    <3>2. CASE ~(way_ids \subseteq DOMAIN db.ways)
      BY <1>0, <1>10, <3>2 DEF CompleteWays, TypeOK, Phases
    <3> QED
      BY <3>1, <3>2
  <2> QED
    BY <1>0, <1>10, <2>1 DEF CompleteWays, TypeOK
<1>11. CASE WriteHeader
  <2>1. CASE region = <<>>
    BY <1>0, <1>11, <2>1 DEF WriteHeader, TypeOK, Phases
  <2>2. CASE region # <<>>
    <3>1. GetBounds(region) \in [lat_lo : Int, lat_hi : Int, lng_lo : Lng, lng_hi : Lng]
      BY <1>0, <2>2, BoundsAreBox DEF TypeOK
    <3>2. boxes' \in Seq([lat_lo : Int, lat_hi : Int, lng_lo : Lng, lng_hi : Lng])
      <4>1. boxes' = <<GetBounds(region)>> \/ boxes' = <<>>
        BY <1>11, <2>2 DEF WriteHeader
      <4> QED
        BY <3>1, <4>1, OneElement
    <3> QED
      BY <1>0, <1>11, <2>2, <3>2 DEF WriteHeader, TypeOK, Phases
  <2> QED
    BY <2>1, <2>2
<1>12. CASE WriteNode
  <2>1. Min(todo) \in Node \cup Way \cup Relation /\ (Exists(db.locations, Min(todo)) => Min(todo) \in Node)
    <3>1. todo \in SUBSET Nat /\ todo # {}
      BY <1>0, <1>12, IdAssumption DEF WriteNode, TypeOK
    <3> QED
      BY <1>0, <3>1, MinIs, RowTypes DEF TypeOK, Exists
  <2> QED
    BY <1>0, <1>12, <2>1 DEF WriteNode, CommitBuffer, TypeOK
<1>13. CASE NextPass("nodes", "ways", way_ids)
  BY <1>0, <1>13 DEF NextPass, TypeOK, Phases
<1>14. CASE WriteWay
  <2>1. Exists(db.ways, Min(todo)) => Min(todo) \in Way
    BY <1>0, RowTypes DEF Exists
  <2> QED
    <3>1. CASE Exists(db.ways, Min(todo))
      BY <1>0, <1>14, <2>1, <3>1 DEF WriteWay, WriteObject, CommitBuffer, TypeOK
    <3>2. CASE ~Exists(db.ways, Min(todo))
      BY <1>0, <1>14, <3>2 DEF WriteWay, WriteObject, TypeOK, Phases
    <3> QED
      BY <3>1, <3>2
<1>15. CASE NextPass("ways", "relations", relation_ids)
  BY <1>0, <1>15 DEF NextPass, TypeOK, Phases
<1>16. CASE WriteRelation
  <2>1. Exists(db.relations, Min(todo)) => Min(todo) \in Relation
    BY <1>0, RowTypes DEF Exists
  <2> QED
    <3>1. CASE Exists(db.relations, Min(todo))
      BY <1>0, <1>16, <2>1, <3>1 DEF WriteRelation, WriteObject, CommitBuffer, TypeOK
    <3>2. CASE ~Exists(db.relations, Min(todo))
      BY <1>0, <1>16, <3>2 DEF WriteRelation, WriteObject, TypeOK, Phases
    <3> QED
      BY <3>1, <3>2
<1>17. CASE Flush
  BY <1>0, <1>17 DEF Flush, TypeOK, Phases
<1>18. CASE Stopped \/ UNCHANGED vars
  BY <1>0, <1>18 DEF Stopped, vars, TypeOK
<1> QED
  BY <1>1, <1>2, <1>3, <1>4, <1>5, <1>6, <1>7, <1>8, <1>9, <1>10, <1>11, <1>12,
     <1>13, <1>14, <1>15, <1>16, <1>17, <1>18 DEF Next, Step

\* What the steps leave alone with the inputs and with the covering.
LEMMA SameDocument ==
  ASSUME UNCHANGED input
  PROVE  /\ Document' = Document /\ Given' = Given /\ (Honoured' <=> Honoured)
         /\ \A cells : Buffer(cells)' = Buffer(cells)
<1>1. Document' = Document /\ Given' = Given
  BY DEF Document, Given
<1>2. \A cells : Buffer(cells)' = Buffer(cells)
  BY DEF Buffer
<1> QED
  BY <1>1, <1>2 DEF Honoured

LEMMA SameCover ==
  ASSUME UNCHANGED input, UNCHANGED covering
  PROVE  InCover' = InCover /\ ThroughCover' = ThroughCover /\ NodeUsers' = NodeUsers
         /\ Users' = Users
  BY DEF InCover, ThroughCover, NodeUsers, WayUsers, Users

LEMMA SameSets ==
  ASSUME UNCHANGED input, UNCHANGED covering, NEW S
  PROVE  /\ Parents(S)' = Parents(S) /\ Completing(S)' = Completing(S)
         /\ (Closed(S)' <=> Closed(S))
         /\ (InEveryClosed(S)' <=> InEveryClosed(S))
  BY SameCover DEF Parents, Completing, Closed, InEveryClosed

\* The ids of the selected ways and relations have rows.
LEMMA SelectedExist ==
  ASSUME Inv
  PROVE  /\ phase \in RelationsFound => relation_ids \subseteq DOMAIN db.relations
         /\ phase \in WaysComplete => way_ids \subseteq DOMAIN db.ways
<1>1. ThroughCover \subseteq DOMAIN db.ways /\ Completing(relation_ids) \subseteq DOMAIN db.ways
  BY DEF ThroughCover, Completing
<1> QED
  BY <1>1 DEF Inv, RelationInv, FoundInv

\* The next id of a pass is one of the ids to visit.
LEMMA NextId ==
  ASSUME TypeOK, todo # {}
  PROVE  Min(todo) \in todo /\ \A id \in todo : Min(todo) <= id
<1>1. todo \in SUBSET Nat
  BY IdAssumption DEF TypeOK
<1> QED
  BY <1>1, MinIs

\* No step aborts the command on a region that is understood and has an area.
LEMMA NeverAbortsNext == Inv /\ [Next]_vars => NeverAborts'
<1> SUFFICES ASSUME Inv, [Next]_vars, phase' = "aborted", Honoured PROVE FALSE
  BY InputNext, SameDocument DEF Inv, NeverAborts
<1>0. InputInv /\ TypeOK /\ NeverAborts /\ PlaceInv /\ OutputInv /\ phase # "aborted"
  BY DEF Inv, NeverAborts
<1>1. CASE MakeRegion
  <2>1. Crashes(Document) => ~Understood(Document)
    BY DEF Crashes, Understood
  <2> QED
    BY <1>1, <2>1 DEF MakeRegion, Honoured
<1>2. CASE CompleteMultipolygons
  BY <1>0, <1>2, SelectedExist DEF CompleteMultipolygons
<1>3. CASE CompleteWays
  BY <1>0, <1>3, SelectedExist DEF CompleteWays
<1>4. CASE WriteHeader
  <2>1. phase = "header"
    BY <1>4 DEF WriteHeader
  <2>2. region # <<>>
    BY <1>0, <2>1, RegionHonoured
  <2> QED
    BY <1>4, <2>2 DEF WriteHeader
<1>5. CASE WriteWay
  <2>1. phase = "ways" /\ Min(todo) \in way_ids
    BY <1>0, <1>5, NextId DEF WriteWay, WriteObject, OutputInv
  <2>2. Exists(db.ways, Min(todo))
    BY <2>1, SelectedExist DEF Exists
  <2> QED
    BY <1>0, <1>5, <2>2 DEF WriteWay, WriteObject
<1>6. CASE WriteRelation
  <2>1. phase = "relations" /\ Min(todo) \in relation_ids
    BY <1>0, <1>6, NextId DEF WriteRelation, WriteObject, OutputInv
  <2>2. Exists(db.relations, Min(todo))
    BY <2>1, SelectedExist DEF Exists
  <2> QED
    BY <1>0, <1>6, <2>2 DEF WriteRelation, WriteObject
<1> QED
  BY <1>0, <1>1, <1>2, <1>3, <1>4, <1>5, <1>6
     DEF Next, Step, Stopped, vars, Cover, ReadCells, FindWays, FindNodeRelations,
     FindWayRelations, FindParents, ParentsRound, WriteNode, NextPass, Flush

\* The region, its covering and its box stay what they are once they are made.
LEMMA PlaceNext == Inv /\ [Next]_vars => PlaceInv'
<1> SUFFICES ASSUME Inv, [Next]_vars PROVE PlaceInv'
  OBVIOUS
<1>0. PlaceInv /\ UNCHANGED input
  BY InputNext DEF Inv
<1>1. /\ Document' = Document /\ Given' = Given
      /\ \A cells : Buffer(cells)' = Buffer(cells)
  BY <1>0, SameDocument
<1>2. CASE MakeRegion
  BY <1>1, <1>2 DEF MakeRegion, PlaceInv
<1>3. CASE Cover
  <2>1. covering' = Buffer(GetCovering(region)) /\ region' = region /\ phase' = "cells"
    BY <1>3 DEF Cover
  <2>2. Buffer(GetCovering(region))' = Buffer(GetCovering(region'))
    BY <1>0 DEF Buffer
  <2> QED
    BY <1>0, <1>1, <1>3, <2>1, <2>2 DEF Cover, PlaceInv
<1>4. CASE WriteHeader
  BY <1>0, <1>1, <1>4 DEF WriteHeader, PlaceInv
<1>5. ASSUME UNCHANGED place, UNCHANGED boxes, phase \in RegionMade \ {"covering"},
             phase' \in Writing => phase \in Writing
      PROVE  PlaceInv'
  BY <1>0, <1>1, <1>5 DEF PlaceInv
<1>6. CASE \/ ReadCells \/ FindWays \/ FindNodeRelations \/ FindWayRelations
           \/ FindParents \/ ParentsRound \/ CompleteMultipolygons \/ CompleteWays
  BY <1>5, <1>6
     DEF ReadCells, FindWays, FindNodeRelations, FindWayRelations,
     FindParents, ParentsRound, CompleteMultipolygons, CompleteWays
<1>7. CASE \/ WriteNode \/ NextPass("nodes", "ways", way_ids) \/ WriteWay
           \/ NextPass("ways", "relations", relation_ids) \/ WriteRelation \/ Flush
  BY <1>5, <1>7 DEF WriteNode, NextPass, WriteWay, WriteRelation, WriteObject, Flush
<1>8. CASE Stopped \/ UNCHANGED vars
  BY <1>0, <1>1, <1>8 DEF Stopped, vars, PlaceInv
<1> QED
  BY <1>2, <1>3, <1>4, <1>6, <1>7, <1>8 DEF Next, Step

\* The nodes and ways are those of the covering, then the completed ones.
LEMMA FoundNext == Inv /\ [Next]_vars => FoundInv'
<1> SUFFICES ASSUME Inv, [Next]_vars PROVE FoundInv'
  OBVIOUS
<1>0. FoundInv /\ WellFormed(db) /\ UNCHANGED input
  BY InputNext DEF Inv, InputInv
<1>1. CASE MakeRegion \/ Cover
  BY <1>1 DEF MakeRegion, Cover, FoundInv
<1>2. UNCHANGED covering => InCover' = InCover /\ ThroughCover' = ThroughCover
  BY <1>0, SameCover
<1>3. CASE ReadCells
  <2>1. phase' = "node_way" /\ node_ids' = InCover /\ UNCHANGED covering
    BY <1>0, <1>3, TraverseCover DEF ReadCells
  <2> QED
    BY <1>2, <2>1 DEF FoundInv
<1>4. CASE FindWays
  <2>1. node_ids = InCover /\ UNCHANGED covering /\ UNCHANGED node_ids
    BY <1>0, <1>4 DEF FindWays, FoundInv
  <2>2. phase' = "node_relation" /\ way_ids' = ThroughCover
    BY <1>0, <1>4, <2>1, TraverseMembers DEF FindWays, ThroughCover
  <2> QED
    BY <1>2, <2>1, <2>2 DEF FoundInv
<1>5. CASE FindNodeRelations \/ FindWayRelations \/ FindParents \/ ParentsRound
  BY <1>0, <1>2, <1>5
     DEF FindNodeRelations, FindWayRelations, FindParents, ParentsRound, FoundInv
<1>6. CASE CompleteMultipolygons
  <2>1. CASE relation_ids \subseteq DOMAIN db.relations
    <3>1. UNION {MultipolygonWays(db, r) : r \in relation_ids} = Completing(relation_ids)
      BY DEF MultipolygonWays, Completing, Exists
    <3>2. /\ way_ids' = ThroughCover \cup Completing(relation_ids)
          /\ phase' = "way nodes" /\ node_ids = InCover
          /\ UNCHANGED <<node_ids, relation_ids, covering>>
      BY <1>0, <1>6, <2>1, <3>1 DEF CompleteMultipolygons, FoundInv
    <3>3. Completing(relation_ids)' = Completing(relation_ids)
      BY <1>0, <3>2 DEF Completing
    <3> QED
      BY <1>2, <3>2, <3>3 DEF FoundInv
  <2>2. CASE ~(relation_ids \subseteq DOMAIN db.relations)
    BY <1>6, <2>2 DEF CompleteMultipolygons, FoundInv
  <2> QED
    BY <2>1, <2>2
<1>7. ASSUME UNCHANGED <<way_ids, relation_ids, covering>>,
             phase \in WaysComplete, phase' \in NodesComplete,
             node_ids' = InCover \cup UNION {db.ways[w] : w \in way_ids}
      PROVE  FoundInv'
  <2>1. Completing(relation_ids)' = Completing(relation_ids)
    BY <1>0, <1>7 DEF Completing
  <2>2. way_ids = ThroughCover \cup Completing(relation_ids)
    BY <1>0, <1>7 DEF FoundInv
  <2> QED
    BY <1>0, <1>2, <1>7, <2>1, <2>2 DEF FoundInv
<1>8. CASE CompleteWays
  <2>1. CASE way_ids \subseteq DOMAIN db.ways
    BY <1>0, <1>7, <1>8, <2>1 DEF CompleteWays, FoundInv
  <2>2. CASE ~(way_ids \subseteq DOMAIN db.ways)
    BY <1>8, <2>2 DEF CompleteWays, FoundInv
  <2> QED
    BY <2>1, <2>2
<1>9. ASSUME UNCHANGED <<selection, covering>>, phase \in NodesComplete,
             phase' \in NodesComplete \cup {"aborted"}
      PROVE  FoundInv'
  <2>1. node_ids = InCover \cup UNION {db.ways[w] : w \in way_ids}
    BY <1>0, <1>9 DEF FoundInv
  <2>2. CASE phase' = "aborted"
    BY <2>2 DEF FoundInv
  <2> QED
    BY <1>7, <1>9, <2>1, <2>2
<1>10. CASE \/ WriteHeader \/ WriteNode \/ NextPass("nodes", "ways", way_ids) \/ WriteWay
            \/ NextPass("ways", "relations", relation_ids) \/ WriteRelation \/ Flush
  BY <1>9, <1>10
     DEF WriteHeader, WriteNode, NextPass, WriteWay, WriteRelation, WriteObject, Flush
<1>11. CASE Stopped \/ UNCHANGED vars
  <2>1. Completing(relation_ids)' = Completing(relation_ids)
    BY <1>0, <1>11 DEF Completing, Stopped, vars
  <2> QED
    BY <1>0, <1>2, <1>11, <2>1 DEF Stopped, vars, FoundInv
<1> QED
  BY <1>1, <1>3, <1>4, <1>5, <1>6, <1>8, <1>10, <1>11 DEF Next, Step

\* Parents are relations of the database, and those of more relations are more.
LEMMA ParentsGrow ==
  ASSUME NEW S, NEW T
  PROVE  /\ Parents(S) \subseteq DOMAIN db.relations
         /\ Parents(S \cup T) = Parents(S) \cup Parents(T)
         /\ S \subseteq T => Parents(S) \subseteq Parents(T)
  BY DEF Parents

\* Every closed set that holds a set holds its parents.
LEMMA ClosedHoldsParents ==
  ASSUME NEW S, InEveryClosed(S)
  PROVE  InEveryClosed(S \cup Parents(S))
<1> SUFFICES ASSUME NEW T \in SUBSET DOMAIN db.relations, Closed(T)
             PROVE  S \cup Parents(S) \subseteq T
  BY DEF InEveryClosed
<1>1. S \subseteq T
  BY DEF InEveryClosed
<1>2. Parents(S) \subseteq Parents(T)
  BY <1>1, ParentsGrow
<1> QED
  BY <1>1, <1>2 DEF Closed

\* The relations found grow to the least closed set.
LEMMA RelationNext == Inv /\ [Next]_vars => RelationInv'
<1> SUFFICES ASSUME Inv, [Next]_vars PROVE RelationInv'
  OBVIOUS
<1>0. FoundInv /\ RelationInv /\ WellFormed(db) /\ UNCHANGED input
  BY InputNext DEF Inv, InputInv
<1>1. Users \subseteq DOMAIN db.relations /\ UNCHANGED DOMAIN db.relations
  BY <1>0 DEF Users, NodeUsers, WayUsers
<1>2. CASE MakeRegion \/ Cover \/ ReadCells \/ FindWays
  BY <1>2 DEF MakeRegion, Cover, ReadCells, FindWays, RelationInv
<1>3. UNCHANGED covering => NodeUsers' = NodeUsers /\ Users' = Users
  BY <1>0, SameCover
<1>4. CASE FindNodeRelations
  <2>1. relation_ids' = NodeUsers /\ phase' = "way_relation" /\ UNCHANGED covering
    BY <1>0, <1>4, TraverseMembers DEF FindNodeRelations, FoundInv, NodeUsers
  <2> QED
    BY <1>3, <2>1 DEF RelationInv
<1>5. CASE FindWayRelations
  <2>1. relation_ids' = Users /\ phase' = "parents" /\ UNCHANGED covering
    BY <1>0, <1>5, TraverseMembers
       DEF FindWayRelations, FoundInv, RelationInv, Users, WayUsers
  <2> QED
    BY <1>3, <2>1 DEF RelationInv
<1>6. CASE FindParents
  <2> DEFINE S == Users \cup Parents(Users)
  <2>1. /\ discovered' = Parents(Users) /\ relation_ids' = S
        /\ phase' = "rounds" /\ UNCHANGED covering
    BY <1>0, <1>6, TraverseMembers DEF FindParents, RelationInv
  <2>2. Parents(S \ Parents(Users)) \subseteq S
    <3>1. Parents(S \ Parents(Users)) \subseteq Parents(Users)
      BY ParentsGrow
    <3> QED
      BY <3>1
  <2>3. InEveryClosed(S) /\ S \subseteq DOMAIN db.relations
    <3>1. InEveryClosed(Users)
      BY DEF InEveryClosed, Closed
    <3> QED
      BY <1>1, <3>1, ClosedHoldsParents, ParentsGrow
  <2>4. Parents(relation_ids \ discovered)' = Parents(S \ Parents(Users))
    BY <1>0, <2>1 DEF Parents
  <2>5. InEveryClosed(relation_ids)'
    <3>1. ASSUME NEW T, Closed(T)' PROVE Closed(T)
      BY <1>0, <2>1, <3>1, SameSets
    <3> QED
      BY <1>1, <2>1, <2>3, <3>1 DEF InEveryClosed
  <2> QED
    BY <1>1, <1>3, <2>1, <2>2, <2>3, <2>4, <2>5 DEF RelationInv
<1>7. CASE ParentsRound
  <2> DEFINE found == Parents(discovered)
             S == relation_ids \cup found
  <2>1. phase = "rounds" /\ UNCHANGED covering
    BY <1>7 DEF ParentsRound
  <2>2. /\ Users \subseteq relation_ids /\ discovered \subseteq relation_ids
        /\ Parents(relation_ids \ discovered) \subseteq relation_ids
        /\ relation_ids \subseteq DOMAIN db.relations /\ InEveryClosed(relation_ids)
    BY <1>0, <2>1 DEF RelationInv
  <2>3. relation_ids = (relation_ids \ discovered) \cup discovered
    BY <2>2
  <2>4. Parents(relation_ids) = Parents(relation_ids \ discovered) \cup found
    BY <2>3, ParentsGrow
  <2>5. CASE found \subseteq relation_ids
    <3>1. phase' = "multipolygons" /\ UNCHANGED relation_ids
      BY <1>0, <1>7, <2>5, TraverseMembers DEF ParentsRound
    <3>2. Closed(relation_ids)
      BY <2>2, <2>4, <2>5 DEF Closed
    <3>3. Closed(relation_ids)' /\ InEveryClosed(relation_ids)'
      BY <1>0, <2>1, <2>2, <3>1, <3>2, SameSets
    <3> QED
      BY <1>1, <2>2, <3>1, <3>3 DEF RelationInv
  <2>6. CASE ~(found \subseteq relation_ids)
    <3>1. phase' = "rounds" /\ relation_ids' = S /\ discovered' = found
      BY <1>0, <1>7, <2>1, <2>6, TraverseMembers DEF ParentsRound
    <3>2. Parents(S \ found) \subseteq S
      <4>1. Parents(S \ found) \subseteq Parents(relation_ids)
        BY ParentsGrow
      <4> QED
        BY <2>2, <2>4, <4>1
    <3>3. InEveryClosed(S) /\ S \subseteq DOMAIN db.relations
      <4>1. InEveryClosed(relation_ids \cup Parents(relation_ids))
        BY <2>2, ClosedHoldsParents
      <4>2. S \subseteq relation_ids \cup Parents(relation_ids)
        BY <2>4
      <4> QED
        BY <2>2, <4>1, <4>2, ParentsGrow DEF InEveryClosed
    <3>4. Parents(relation_ids \ discovered)' = Parents(S \ found)
      BY <1>0, <3>1 DEF Parents
    <3>5. InEveryClosed(relation_ids)'
      <4>1. ASSUME NEW T, Closed(T)' PROVE Closed(T)
        BY <1>0, <2>1, <4>1, SameSets
      <4> QED
        BY <1>1, <3>1, <3>3, <4>1 DEF InEveryClosed
    <3> QED
      BY <1>1, <1>3, <2>1, <2>2, <3>1, <3>2, <3>3, <3>4, <3>5 DEF RelationInv
  <2> QED
    BY <2>5, <2>6
<1>8. ASSUME UNCHANGED <<relation_ids, discovered, covering>>, phase \in RelationsFound,
             phase' \in RelationsFound \cup {"aborted"}
      PROVE  RelationInv'
  <2>1. /\ Closed(relation_ids) /\ InEveryClosed(relation_ids)
        /\ relation_ids \subseteq DOMAIN db.relations
    BY <1>0, <1>8 DEF RelationInv
  <2>2. Closed(relation_ids)' /\ InEveryClosed(relation_ids)'
    BY <1>0, <1>8, <2>1, SameSets
  <2> QED
    BY <1>1, <1>8, <2>1, <2>2 DEF RelationInv
<1>9. CASE CompleteMultipolygons \/ CompleteWays
  BY <1>8, <1>9 DEF CompleteMultipolygons, CompleteWays
<1>10. CASE \/ WriteHeader \/ WriteNode \/ NextPass("nodes", "ways", way_ids) \/ WriteWay
            \/ NextPass("ways", "relations", relation_ids) \/ WriteRelation \/ Flush
  BY <1>8, <1>10
     DEF WriteHeader, WriteNode, NextPass, WriteWay, WriteRelation, WriteObject, Flush
<1>11. CASE Stopped \/ UNCHANGED vars
  <2>1. UNCHANGED <<phase, relation_ids, discovered, covering>>
    BY <1>11 DEF Stopped, vars
  <2>2. /\ Parents(relation_ids \ discovered)' = Parents(relation_ids \ discovered)
        /\ (Closed(relation_ids)' <=> Closed(relation_ids))
        /\ (InEveryClosed(relation_ids)' <=> InEveryClosed(relation_ids))
    BY <1>0, <2>1, SameSets
  <2> QED
    BY <1>0, <1>1, <1>3, <2>1, <2>2 DEF RelationInv
<1> QED
  BY <1>2, <1>4, <1>5, <1>6, <1>7, <1>9, <1>10, <1>11 DEF Next, Step

\* A pass that goes on without an object.
LEMMA SamePassed ==
  ASSUME UNCHANGED input, NodesPassed' = NodesPassed, WaysPassed' = WaysPassed,
         RelationsPassed' = RelationsPassed
  PROVE  Passed' = Passed /\ \A o : AtTheEnd(o)' <=> AtTheEnd(o)
  BY DEF Passed, AtTheEnd

\* The node pass writes nodes in order, so that those left in the buffer stay at
\* the end until a tagged node is written.
LEMMA OutputNode == Inv /\ [Next]_vars /\ WriteNode => OutputInv'
<1> SUFFICES ASSUME Inv, [Next]_vars, WriteNode PROVE OutputInv'
  OBVIOUS
<1> DEFINE id == Min(todo)
           o == <<"node", id>>
<1>0. TypeOK /\ OutputInv /\ UNCHANGED input
  BY InputNext DEF Inv
<1>1. /\ phase = "nodes" /\ phase' = "nodes" /\ todo # {} /\ todo' = todo \ {id}
      /\ UNCHANGED selection
  BY DEF WriteNode
<1>2. /\ todo \subseteq node_ids /\ file \cup pending = Passed
      /\ (\A a \in node_ids \ todo, b \in todo : a < b)
      /\ \A p \in pending : AtTheEnd(p)
  BY <1>0, <1>1 DEF OutputInv
<1>3. id \in todo /\ (\A b \in todo : id <= b) /\ node_ids \subseteq Nat
  BY <1>0, <1>1, NextId, IdAssumption DEF TypeOK
<1> HIDE DEF id
<1>4. todo' \subseteq node_ids' /\ \A a \in node_ids' \ todo', b \in todo' : a < b
  BY <1>1, <1>2, <1>3
<1>5. LocatedNodes' = LocatedNodes
  BY <1>0, <1>1 DEF LocatedNodes
<1>6. /\ NodesPassed = LocatedNodes \ todo /\ NodesPassed' = LocatedNodes \ todo'
      /\ WaysPassed = {} /\ RelationsPassed = {} /\ WaysPassed' = {} /\ RelationsPassed' = {}
  BY <1>1, <1>5 DEF NodesPassed, WaysPassed, RelationsPassed
<1>7. file' \cup pending' = Passed' /\ \A p \in pending' : AtTheEnd(p)'
  <2>1. CASE ~Exists(db.locations, id)
    <3>1. NodesPassed' = NodesPassed
      BY <1>1, <1>6, <2>1 DEF LocatedNodes, Exists
    <3>2. UNCHANGED <<pending, file>>
      BY <2>1 DEF WriteNode, id
    <3> QED
      BY <1>0, <1>2, <1>6, <3>1, <3>2, SamePassed
  <2>2. ASSUME Exists(db.locations, id)
        PROVE  NodesPassed' = NodesPassed \cup {id} /\ Passed' = Passed \cup {o}
    <3>1. NodesPassed' = NodesPassed \cup {id}
      BY <1>1, <1>2, <1>3, <1>6, <2>2 DEF LocatedNodes, Exists
    <3> QED
      BY <1>6, <3>1 DEF Passed
  <2>3. CASE Exists(db.locations, id) /\ id \notin db.nodes
    <3>1. pending' = pending \cup {o} /\ file' = file
      BY <2>3 DEF WriteNode, id
    <3>2. ASSUME NEW p \in pending' PROVE AtTheEnd(p)'
      <4>1. CASE p \in pending
        <5>1. p \in {"node"} \X NodesPassed /\ \A m \in NodesPassed : m >= p[2] => m \notin db.nodes
          BY <1>2, <4>1 DEF AtTheEnd
        <5> QED
          BY <1>0, <1>6, <2>2, <2>3, <5>1 DEF AtTheEnd
      <4>2. CASE p = o
        <5>1. p \in {"node"} \X NodesPassed' /\ p[2] = id
          BY <2>2, <2>3, <4>2
        <5>2. \A m \in NodesPassed' : m >= id => m = id
          <6>1. \A m \in NodesPassed : m \in node_ids \ todo
            BY <1>6 DEF LocatedNodes
          <6>2. \A m \in NodesPassed : m < id /\ m \in Nat /\ id \in Nat
            BY <1>2, <1>3, <6>1
          <6>3. \A m \in NodesPassed : ~(m >= id)
            BY <6>2
          <6> QED
            BY <2>2, <2>3, <6>3
        <5> QED
          BY <1>0, <1>6, <2>3, <5>1, <5>2 DEF AtTheEnd
      <4> QED
        BY <3>1, <4>1, <4>2
    <3> QED
      BY <1>2, <2>2, <2>3, <3>1, <3>2
  <2>4. CASE Exists(db.locations, id) /\ id \in db.nodes
    <3>1. pending' = {} /\ file' = file \cup pending \cup {o}
      BY <2>4 DEF WriteNode, CommitBuffer, id
    <3> QED
      BY <1>2, <2>2, <2>4, <3>1
  <2> QED
    BY <2>1, <2>3, <2>4
<1> QED
  BY <1>1, <1>4, <1>7 DEF OutputInv

\* All that was passed is in the file or in the buffer.
LEMMA OutputNext == Inv /\ [Next]_vars => OutputInv'
<1> SUFFICES ASSUME Inv, [Next]_vars PROVE OutputInv'
  OBVIOUS
<1>0. TypeOK /\ OutputInv /\ UNCHANGED input
  BY InputNext DEF Inv
<1>1. ASSUME UNCHANGED <<pending, file>>, phase \notin Writing \cup {"aborted"},
             phase' \notin Writing
      PROVE  OutputInv'
  BY <1>0, <1>1 DEF OutputInv
<1>2. CASE \/ MakeRegion \/ Cover \/ ReadCells \/ FindWays \/ FindNodeRelations
           \/ FindWayRelations \/ FindParents \/ ParentsRound \/ CompleteMultipolygons
           \/ CompleteWays
  BY <1>1, <1>2
     DEF MakeRegion, Cover, ReadCells, FindWays, FindNodeRelations, FindWayRelations,
     FindParents, ParentsRound, CompleteMultipolygons, CompleteWays
<1>3. CASE WriteHeader
  <2>1. CASE region = <<>>
    BY <1>1, <1>3, <2>1 DEF WriteHeader
  <2>2. CASE region # <<>>
    <3>1. /\ phase' = "nodes" /\ todo' = node_ids /\ UNCHANGED <<selection, pending, file>>
          /\ file = {} /\ pending = {}
      BY <1>0, <1>3, <2>2 DEF WriteHeader, OutputInv
    <3>2. NodesPassed' = {} /\ WaysPassed' = {} /\ RelationsPassed' = {}
      BY <3>1 DEF NodesPassed, WaysPassed, RelationsPassed, LocatedNodes
    <3>3. Passed' = {}
      BY <3>2 DEF Passed
    <3> QED
      BY <3>1, <3>3 DEF OutputInv
  <2> QED
    BY <2>1, <2>2
<1>4. CASE WriteNode
  BY <1>4, OutputNode
<1>5. CASE NextPass("nodes", "ways", way_ids)
  <2>1. /\ phase = "nodes" /\ phase' = "ways" /\ todo = {} /\ todo' = way_ids
        /\ UNCHANGED <<selection, pending, file>>
    BY <1>5 DEF NextPass
  <2>2. /\ NodesPassed' = NodesPassed /\ WaysPassed' = WaysPassed
        /\ RelationsPassed' = RelationsPassed
    BY <1>0, <2>1 DEF NodesPassed, WaysPassed, RelationsPassed, LocatedNodes
  <2> QED
    BY <1>0, <2>1, <2>2, SamePassed DEF OutputInv
<1>6. CASE WriteWay
  <2> DEFINE id == Min(todo)
  <2>1. phase = "ways" /\ todo # {} /\ todo' = todo \ {id} /\ UNCHANGED selection
    BY <1>6 DEF WriteWay, WriteObject
  <2>2. CASE ~Exists(db.ways, id)
    BY <1>6, <2>1, <2>2 DEF WriteWay, WriteObject, OutputInv
  <2>3. CASE Exists(db.ways, id)
    <3>1. phase' = "ways" /\ pending' = {} /\ file' = file \cup pending \cup {<<"way", id>>}
      BY <1>6, <2>1, <2>3 DEF WriteWay, WriteObject, CommitBuffer
    <3>2. todo \subseteq way_ids /\ id \in todo /\ file \cup pending = Passed
      BY <1>0, <2>1, NextId DEF OutputInv
    <3> HIDE DEF id
    <3>3. LocatedNodes' = LocatedNodes
      BY <1>0, <2>1 DEF LocatedNodes
    <3>4. /\ NodesPassed' = NodesPassed /\ WaysPassed' = WaysPassed \cup {id}
          /\ RelationsPassed' = RelationsPassed
      BY <2>1, <3>1, <3>2, <3>3 DEF NodesPassed, WaysPassed, RelationsPassed
    <3>5. Passed' = Passed \cup {<<"way", id>>}
      BY <3>4 DEF Passed
    <3> QED
      BY <2>1, <3>1, <3>2, <3>5 DEF OutputInv
  <2> QED
    BY <2>2, <2>3
<1>7. CASE NextPass("ways", "relations", relation_ids)
  <2>1. /\ phase = "ways" /\ phase' = "relations" /\ todo = {} /\ todo' = relation_ids
        /\ UNCHANGED <<selection, pending, file>>
    BY <1>7 DEF NextPass
  <2>2. /\ NodesPassed' = NodesPassed /\ WaysPassed' = WaysPassed
        /\ RelationsPassed' = RelationsPassed
    BY <1>0, <2>1 DEF NodesPassed, WaysPassed, RelationsPassed, LocatedNodes
  <2> QED
    BY <1>0, <2>1, <2>2, SamePassed DEF OutputInv
<1>8. CASE WriteRelation
  <2> DEFINE id == Min(todo)
  <2>1. phase = "relations" /\ todo # {} /\ todo' = todo \ {id} /\ UNCHANGED selection
    BY <1>8 DEF WriteRelation, WriteObject
  <2>2. CASE ~Exists(db.relations, id)
    BY <1>8, <2>1, <2>2 DEF WriteRelation, WriteObject, OutputInv
  <2>3. CASE Exists(db.relations, id)
    <3>1. /\ phase' = "relations" /\ pending' = {}
          /\ file' = file \cup pending \cup {<<"relation", id>>}
      BY <1>8, <2>1, <2>3 DEF WriteRelation, WriteObject, CommitBuffer
    <3>2. todo \subseteq relation_ids /\ id \in todo /\ file \cup pending = Passed
      BY <1>0, <2>1, NextId DEF OutputInv
    <3> HIDE DEF id
    <3>3. LocatedNodes' = LocatedNodes
      BY <1>0, <2>1 DEF LocatedNodes
    <3>4. /\ NodesPassed' = NodesPassed /\ WaysPassed' = WaysPassed
          /\ RelationsPassed' = RelationsPassed \cup {id}
      BY <2>1, <3>1, <3>2, <3>3 DEF NodesPassed, WaysPassed, RelationsPassed
    <3>5. Passed' = Passed \cup {<<"relation", id>>}
      BY <3>4 DEF Passed
    <3> QED
      BY <2>1, <3>1, <3>2, <3>5 DEF OutputInv
  <2> QED
    BY <2>2, <2>3
<1>9. CASE Flush
  <2>1. /\ phase = "relations" /\ phase' = "done" /\ todo = {} /\ pending' = {}
        /\ UNCHANGED <<selection, file>>
    BY <1>9 DEF Flush
  <2>2. /\ NodesPassed' = NodesPassed /\ WaysPassed' = WaysPassed
        /\ RelationsPassed' = RelationsPassed
    BY <1>0, <2>1 DEF NodesPassed, WaysPassed, RelationsPassed, LocatedNodes
  <2>3. file \cup pending = Passed /\ \A o \in pending : AtTheEnd(o)
    BY <1>0, <2>1 DEF OutputInv
  <2> QED
    BY <1>0, <2>1, <2>2, <2>3, SamePassed DEF OutputInv
<1>10. CASE Stopped \/ UNCHANGED vars
  <2>1. UNCHANGED <<input, phase, selection, output>>
    BY <1>10 DEF Stopped, vars
  <2>2. /\ NodesPassed' = NodesPassed /\ WaysPassed' = WaysPassed
        /\ RelationsPassed' = RelationsPassed
    BY <2>1 DEF NodesPassed, WaysPassed, RelationsPassed, LocatedNodes
  <2>3. Passed' = Passed /\ \A o : AtTheEnd(o)' <=> AtTheEnd(o)
    BY <2>1, <2>2, SamePassed
  <2> QED
    BY <1>0, <2>1, <2>3 DEF OutputInv
<1> QED
  BY <1>2, <1>3, <1>4, <1>5, <1>6, <1>7, <1>8, <1>9, <1>10 DEF Next, Step

\* The inductive invariant holds.
LEMMA InvHolds == Spec => []Inv
<1>1. Inv /\ [Next]_vars => Inv'
  BY InputNext, TypeNext, NeverAbortsNext, PlaceNext, FoundNext, RelationNext,
     OutputNext DEF Inv
<1> QED
  BY InvInit, <1>1, PTL DEF Spec

----------------------------------------------------------------------------
(* What the command promises.                                              *)

\* The variables keep their types.
THEOREM ExtractTypes == Spec => []TypeOK
  BY InvHolds, PTL DEF Inv

\* The command dies only of regions it does not understand or that have no area,
\* whatever rows are missing in the database: getReader never meets one of them.
THEOREM ExtractNeverAborts == Spec => []NeverAborts
  BY InvHolds, PTL DEF Inv

\* The covering of a region that is honoured is that of the areas described.
LEMMA CoverWanted ==
  ASSUME Inv, Finished
  PROVE  covering = WantedCells /\ InCover = InRegion /\ ThroughCover = WaysThrough
<1> DEFINE cells == UNION {s.cells : s \in Described(Document)}
<1>1. /\ region \in Seq(Shape) /\ ToSet(region) = Described(Document)
      /\ covering = Buffer(GetCovering(region))
  BY RegionHonoured DEF Inv, PlaceInv, Finished
<1>2. GetCovering(region) = cells
  BY <1>1 DEF GetCovering, ToSet
<1>3. cells \subseteq Cell
  BY <1>1, <1>2, CellsAssumption DEF ToSet
<1>4. WantedCells = cells \cup {c \in Cell : /\ 0 <= options.expand /\ options.expand <= 16
                                             /\ \E d \in cells : c \in Widen[options.expand][d]}
  BY DEF WantedCells
<1> HIDE DEF cells
<1>5. covering = WantedCells
  <2>1. options.expand \in Int
    BY DEF Inv, InputInv, IsCommandLine
  <2>2. CASE options.expand \in 0..16
    <3>1. covering = UNION {Widen[options.expand][c] : c \in cells}
      BY <1>1, <1>2, <2>2 DEF Buffer
    <3>2. \A c \in cells : Widen[options.expand][c] \subseteq Cell /\ c \in Widen[options.expand][c]
      BY <1>3, <2>2, WidenAssumption
    <3> QED
      BY <1>4, <2>2, <3>1, <3>2
  <2>3. CASE options.expand \notin 0..16
    BY <1>1, <1>2, <1>4, <2>1, <2>3 DEF Buffer
  <2> QED
    BY <2>2, <2>3
<1> QED
  BY <1>5 DEF InCover, InRegion, ThroughCover, WaysThrough

\* The ancestries are the closed sets.
LEMMA AncestriesClosed ==
  ASSUME Inv, Finished
  PROVE  \A S : S \in Ancestries <=> S \in SUBSET DOMAIN db.relations /\ Closed(S)
<1>1. InRegion = InCover /\ WaysThrough = ThroughCover
  BY CoverWanted
<1> SUFFICES ASSUME NEW S \in SUBSET DOMAIN db.relations PROVE S \in Ancestries <=> Closed(S)
  BY DEF Ancestries
<1>2. S \in Ancestries <=>
        \A r \in DOMAIN db.relations :
          (db.relations[r].node \cap InCover) \cup (db.relations[r].way \cap ThroughCover)
             \cup (db.relations[r].relation \cap S) # {} => r \in S
  BY <1>1 DEF Ancestries
<1> QED
  BY <1>2 DEF Closed, Users, NodeUsers, WayUsers, Parents

\* What stands in the file when the command is done.
LEMMA FileIsPassed ==
  ASSUME Inv, phase = "done"
  PROVE  /\ Written("way") = way_ids /\ Written("relation") = relation_ids
         /\ Written("node") \subseteq LocatedNodes
         /\ \A n \in LocatedNodes \ Written("node") :
              /\ way_ids = {} /\ relation_ids = {}
              /\ \A m \in LocatedNodes : m >= n => m \notin db.nodes
<1>1. file \subseteq Passed /\ \A o \in Passed \ file : AtTheEnd(o)
  BY DEF Inv, OutputInv
<1>2. NodesPassed = LocatedNodes /\ WaysPassed = way_ids /\ RelationsPassed = relation_ids
  BY DEF NodesPassed, WaysPassed, RelationsPassed
<1>3. Passed = ({"node"} \X LocatedNodes) \cup ({"way"} \X way_ids)
                 \cup ({"relation"} \X relation_ids)
  BY <1>2 DEF Passed
<1>4. \A type, id : id \in Written(type) <=> <<type, id>> \in file
  <2>1. \A o \in file : o = <<o[1], o[2]>>
    BY <1>1, <1>3
  <2> TAKE type, id
  <2>2. <<type, id>> \in file => id \in Written(type)
    <3> DEFINE o == <<type, id>>
    <3>1. o[1] = type /\ o[2] = id
      OBVIOUS
    <3> HIDE DEF o
    <3>2. o \in file => id \in Written(type)
      BY <3>1 DEF Written
    <3> QED
      BY <3>2 DEF o
  <2> QED
    BY <2>1, <2>2 DEF Written
<1>5. \A w \in way_ids : <<"way", w>> \in file
  BY <1>1, <1>3 DEF AtTheEnd
<1>6. \A r \in relation_ids : <<"relation", r>> \in file
  BY <1>1, <1>3 DEF AtTheEnd
<1>7. \A type, id : <<type, id>> \in Passed =>
        \/ type = "node" /\ id \in LocatedNodes
        \/ type = "way" /\ id \in way_ids
        \/ type = "relation" /\ id \in relation_ids
  BY <1>3
<1>8. ASSUME NEW n \in LocatedNodes \ Written("node")
      PROVE  /\ way_ids = {} /\ relation_ids = {}
             /\ \A m \in LocatedNodes : m >= n => m \notin db.nodes
  <2>1. <<"node", n>> \in Passed \ file
    BY <1>3, <1>4
  <2>2. AtTheEnd(<<"node", n>>)
    BY <1>1, <2>1
  <2> QED
    BY <1>2, <2>2 DEF AtTheEnd
<1>9. \A type, id : id \in Written(type) => <<type, id>> \in Passed
  BY <1>1, <1>4
<1>10. Written("way") = way_ids /\ Written("relation") = relation_ids
  BY <1>4, <1>5, <1>6, <1>7, <1>9
<1>11. Written("node") \subseteq LocatedNodes
  <2>1. \A id : <<"node", id>> \in Passed => id \in LocatedNodes
    BY <1>3
  <2> QED
    BY <1>9, <2>1
<1> QED
  BY <1>8, <1>10, <1>11

\* The relations written are those that use the region, directly or through other
\* relations, and no others, whatever cycles relations form.
THEOREM ExtractRelations == Spec => []RelationsExact
<1>1. Inv => RelationsExact
  <2> SUFFICES ASSUME Inv, Finished
               PROVE  /\ relation_ids \in Ancestries
                      /\ \A S \in Ancestries : relation_ids \subseteq S
    BY FileIsPassed DEF RelationsExact, Finished
  <2>1. /\ Closed(relation_ids) /\ relation_ids \subseteq DOMAIN db.relations
        /\ InEveryClosed(relation_ids)
    BY DEF Inv, RelationInv, Finished
  <2> QED
    BY <2>1, AncestriesClosed DEF InEveryClosed
<1> QED
  BY InvHolds, <1>1, PTL

\* The ways written are those through the region and the existing members of the
\* multipolygon relations written.
THEOREM ExtractWays == Spec => []WaysExact
<1>1. Inv => WaysExact
  <2> SUFFICES ASSUME Inv, Finished
               PROVE  way_ids = WaysThrough \cup Completing(relation_ids)
    BY FileIsPassed DEF WaysExact, Finished, Completing
  <2> QED
    BY CoverWanted DEF Inv, FoundInv, Finished
<1> QED
  BY InvHolds, <1>1, PTL

\* Only wanted nodes are written; one that is not is untagged, and nothing but
\* untagged nodes would have been written after it.
THEOREM ExtractNodes == Spec => []NodesExact
<1>1. Inv => NodesExact
  <2> SUFFICES ASSUME Inv, Finished PROVE NodesExact
    BY DEF NodesExact
  <2>1. node_ids = InRegion \cup UNION {db.ways[w] : w \in way_ids}
    BY CoverWanted DEF Inv, FoundInv, Finished
  <2>2. WantedNodes = LocatedNodes
    BY <2>1, FileIsPassed DEF WantedNodes, LocatedNodes, Finished
  <2> QED
    BY <2>2, FileIsPassed DEF NodesExact, Finished
<1> QED
  BY InvHolds, <1>1, PTL

\* The box of the header encloses every area of the region, and is there unless it
\* has no width, when no area crosses the antimeridian; an area that crosses it
\* leaves no box when it is the only one.
THEOREM ExtractBox == Spec => []BoxIsRight
<1>1. Inv => BoxIsRight
  <2> SUFFICES ASSUME Inv, Finished PROVE BoxIsRight
    BY DEF BoxIsRight
  <2> DEFINE areas == Described(Document)
             bounds == GetBounds(region)
  <2>1. /\ region \in Seq(Shape) /\ ToSet(region) = areas /\ region # <<>>
        /\ boxes = IF bounds.lng_lo < bounds.lng_hi THEN <<bounds>> ELSE <<>>
    BY RegionHonoured DEF Inv, PlaceInv, Finished
  <2>2. areas \in SUBSET Shape /\ IsFiniteSet(areas)
    BY <2>1, ElementsFinite DEF ToSet
  <2>3. /\ bounds \in [lat_lo : Int, lat_hi : Int, lng_lo : Lng, lng_hi : Lng]
        /\ IsBoxOf(bounds, areas)
    BY <2>1, BoundsAreBox
  <2> HIDE DEF areas, bounds
  <2>4. /\ (\A s \in areas : ~Crosses(s)) =>
             IF bounds.lng_lo < bounds.lng_hi
             THEN \A s \in areas : Encloses(bounds, s)
             ELSE \A s, t \in areas : s.lng_lo = t.lng_hi
        /\ (\A s \in areas : Crosses(s)) /\ Cardinality(areas) = 1 =>
             ~(bounds.lng_lo < bounds.lng_hi)
    BY <2>2, <2>3, BoxFits
  <2>5. ToSet(<<bounds>>) = {bounds} /\ ToSet(<<>>) = {} /\ <<bounds>> # <<>>
    BY SetOfOne, NoElements
  <2> QED
    BY <2>1, <2>4, <2>5 DEF BoxIsRight, areas
<1> QED
  BY InvHolds, <1>1, PTL
=============================================================================
