------------------------------ MODULE Geometry ------------------------------
(***************************************************************************)
(* geospatial.py: the cells of a geohash, and the tree of bounding boxes.  *)
(***************************************************************************)
EXTENDS Integers, Sequences, FiniteSets, SequencesExt

(***************************************************************************)
(* Two algorithms of geospatial.py, as calls: the geohash of a point with  *)
(* its cell and the neighbours of the cell, and the ray casting that says  *)
(* whether a polygon contains a point.  A point is <<latitude, longitude>> *)
(* in whole units, counted from the corner of a square world.              *)
(***************************************************************************)

CONSTANTS
  GHWorld,      \* the side of the world: a power of two
  GHPrecision,  \* characters of the longest hash; its cells have sides of two units or more
  GHPoints,     \* the points that are encoded
  GHCorners,    \* the corners of polygons
  GHInside      \* the points that are looked for in them

ASSUME GHAssumption ==
  GHPrecision \in Nat \ {0} /\ GHWorld % 2 = 0 /\ GHPoints \subseteq (0..GHWorld) \X (0..GHWorld)

VARIABLES
  ghCall,   \* the call that returns: its function and arguments
  ghResult

ghVars == <<ghCall, ghResult>>

GHNone == [op |-> "none"]

GHInit == ghCall = GHNone /\ ghResult = <<>>

\* The functions keep nothing from one call to the next.
GHReturn == ghCall # GHNone /\ ghCall' = GHNone /\ ghResult' = <<>>

-----------------------------------------------------------------------------
(* Geohashes.  The world is halved by longitude and latitude in turn, and  *)
(* five halvings make a character.                                         *)

GHAll == [lat |-> <<0, GHWorld>>, lon |-> <<0, GHWorld>>]

GHAxis(n) == IF n % 2 = 1 THEN "lon" ELSE "lat"

GHMiddle(range) == (range[1] + range[2]) \div 2

\* Mutant of GHUpper: the middle belongs to the lower half.
GHUpperAfter(x, range) == x > GHMiddle(range)

GHUpper(x, range) == x >= GHMiddle(range)

GHHalf(cell, axis, upper) ==
  [cell EXCEPT ![axis] = IF upper THEN <<GHMiddle(@), @[2]>> ELSE <<@[1], GHMiddle(@)>>]

\* geohash_encode: the halves taken, the n-th of them by the axis of n.
GHBits(point, precision) ==
  LET axes == [lat |-> point[1], lon |-> point[2]]
      Step(s, n) ==
        LET upper == GHUpper(axes[GHAxis(n)], s.cell[GHAxis(n)])
        IN  [cell |-> GHHalf(s.cell, GHAxis(n), upper), bits |-> Append(s.bits, upper)]
  IN  FoldLeft(Step, [cell |-> GHAll, bits |-> <<>>], [n \in 1..5 * precision |-> n]).bits

GHEncode(point, precision) ==
  LET bits == GHBits(point, precision) IN  [i \in 1..precision |-> SubSeq(bits, 5 * i - 4, 5 * i)]

\* Mutant of GHDecode: each character begins with the longitude.
GHDecodeAfresh(hash) ==
  LET Step(cell, n) == GHHalf(cell, GHAxis(((n - 1) % 5) + 1), hash[((n - 1) \div 5) + 1][((n - 1) % 5) + 1])
  IN  FoldLeft(Step, GHAll, [n \in 1..5 * Len(hash) |-> n])

\* geohash_decode: the cell of a hash.
GHDecode(hash) ==
  LET Step(cell, n) == GHHalf(cell, GHAxis(n), hash[((n - 1) \div 5) + 1][((n - 1) % 5) + 1])
  IN  FoldLeft(Step, GHAll, [n \in 1..5 * Len(hash) |-> n])

\* Mutant of GHOffset: half a side.
GHOffsetHalf(range, d) == GHMiddle(range) + (d * (range[2] - range[1])) \div 2

GHOffset(range, d) == GHMiddle(range) + d * (range[2] - range[1])

\* geohash_neighbors: clockwise from the north, those whose centre is in the world.
GHNeighbours(hash) ==
  LET cell == GHDecode(hash)
      ways == <<<<1, 0>>, <<1, 1>>, <<0, 1>>, <<-1, 1>>, <<-1, 0>>, <<-1, -1>>, <<0, -1>>, <<1, -1>>>>
      centres == [i \in 1..8 |-> <<GHOffset(cell.lat, ways[i][1]), GHOffset(cell.lon, ways[i][2])>>]
      there == SelectSeq(centres, LAMBDA p : p \in (0..GHWorld) \X (0..GHWorld))
  IN  [i \in DOMAIN there |-> GHEncode(there[i], Len(hash))]

GHEncodeCall(point, precision) ==
  /\ ghCall = GHNone /\ ghCall' = [op |-> "encode", point |-> point, precision |-> precision]
  /\ ghResult' = GHEncode(point, precision)

GHNeighboursCall(point, precision) ==
  /\ ghCall = GHNone /\ ghCall' = [op |-> "neighbours", point |-> point, precision |-> precision]
  /\ ghResult' = GHNeighbours(GHEncode(point, precision))

-----------------------------------------------------------------------------
(* PolygonGeometry.contains. *)

\* Mutant of GHSpans: the two ends are compared in different ways.
GHSpansEnds(p, q, x) == (p[2] >= x[2]) # (q[2] > x[2])

\* The ends of the edge have longitudes on either side of the point's.
GHSpans(p, q, x) == (p[2] > x[2]) # (q[2] > x[2])

\* And there the edge is north of the point.  The code divides by q[2] - p[2].
GHCrosses(p, q, x) ==
  /\ GHSpans(p, q, x)
  /\ LET far == (x[1] - p[1]) * (q[2] - p[2])
         edge == (q[1] - p[1]) * (x[2] - p[2])
     IN  IF q[2] > p[2] THEN far < edge ELSE far > edge

GHContains(polygon, x) ==
  LET Before(i) == IF i = 1 THEN Len(polygon) ELSE i - 1
  IN  Cardinality({i \in DOMAIN polygon : GHCrosses(polygon[i], polygon[Before(i)], x)}) % 2 = 1

GHContainsCall(polygon, x) ==
  /\ ghCall = GHNone /\ ghCall' = [op |-> "contains", polygon |-> polygon, point |-> x]
  /\ ghResult' = GHContains(polygon, x)

GHNext ==
  \/ \E x \in GHPoints, n \in 1..GHPrecision : GHEncodeCall(x, n) \/ GHNeighboursCall(x, n)
  \/ \E p, q, r \in GHCorners, x \in GHInside : GHContainsCall(<<p, q, r>>, x)
  \/ GHReturn

-----------------------------------------------------------------------------
(* Properties. *)

\* Of the cells a world has in a direction, the one a coordinate is in; the far edge of the world is
\* in the last one.
GHPlace(x, cells) == IF x = GHWorld THEN cells - 1 ELSE x \div (GHWorld \div cells)

\* The cell at a place.
GHRange(place, cells) == <<place * (GHWorld \div cells), (place + 1) * (GHWorld \div cells)>>

\* The cells there are north and east: of five halvings, three are by longitude, then two, and so on.
GHCells(precision) == [lat |-> 2 ^ ((5 * precision) \div 2), lon |-> 2 ^ ((5 * precision + 1) \div 2)]

\* The cell of the hash of a point is the one of the grid that the point is in, and the hash of a
\* point begins with its shorter ones.
GHCellOf ==
  ghCall.op = "encode" =>
    LET cells == GHCells(ghCall.precision)
    IN  /\ GHDecode(ghResult) = [lat |-> GHRange(GHPlace(ghCall.point[1], cells.lat), cells.lat),
                                 lon |-> GHRange(GHPlace(ghCall.point[2], cells.lon), cells.lon)]
        /\ \A n \in 1..ghCall.precision : GHEncode(ghCall.point, n) = SubSeq(ghResult, 1, n)

\* The neighbours of a cell are the cells of the grid beside it, each of them once; beyond the edge
\* of the world, where longitudes would go on from the other side, there are none.
GHBeside ==
  ghCall.op = "neighbours" =>
    LET cells == GHCells(ghCall.precision)
        lat == GHPlace(ghCall.point[1], cells.lat)
        lon == GHPlace(ghCall.point[2], cells.lon)
        beside == {c \in ((lat - 1)..(lat + 1)) \X ((lon - 1)..(lon + 1)) :
                     c[1] \in 0..(cells.lat - 1) /\ c[2] \in 0..(cells.lon - 1) /\ c # <<lat, lon>>}
    IN  /\ {GHDecode(ghResult[i]) : i \in DOMAIN ghResult}
             = {[lat |-> GHRange(c[1], cells.lat), lon |-> GHRange(c[2], cells.lon)] : c \in beside}
        /\ Len(ghResult) = Cardinality(beside)

\* On which side of the line from p to q a point is.
GHSide(p, q, x) == (q[1] - p[1]) * (x[2] - p[2]) - (q[2] - p[2]) * (x[1] - p[1])

\* A triangle has the points that are strictly inside it, and none that is strictly outside; those
\* of an edge go either way.
GHTriangle ==
  ghCall.op = "contains" =>
    LET t == ghCall.polygon
        sides == {GHSide(t[1], t[2], ghCall.point), GHSide(t[2], t[3], ghCall.point), GHSide(t[3], t[1], ghCall.point)}
    IN  GHSide(t[1], t[2], t[3]) # 0 =>
          /\ ((\A s \in sides : s > 0) \/ (\A s \in sides : s < 0)) => ghResult
          /\ ((\E s \in sides : s > 0) /\ (\E s \in sides : s < 0)) => ~ghResult

-----------------------------------------------------------------------------
(***************************************************************************)
(* The spatial index of geospatial.py, under the commands of               *)
(* geospatial_commands.py: a tree whose root is split when it is full, and *)
(* the searches that go down it.  A point is <<latitude, longitude>> on a  *)
(* plane of whole units: the distances of the globe are left out, and the  *)
(* box of a circle holds the circle, as its approximation by 111 km for a  *)
(* degree does.                                                            *)
(***************************************************************************)

CONSTANTS
  SPMax,      \* MAX_ENTRIES; 8 in the code
  SPInserts,  \* the insertions: [id, geometry]
  SPQueries,  \* the geometries that are asked for
  SPChanges   \* bound: insertions and deletions

ASSUME SPAssumption == SPMax \in Nat \ {0, 1, 2} /\ SPChanges \in Nat

VARIABLES
  spRoot,     \* the tree, or SPNoIndex
  spObjects,  \* the geometry of each object, as a sequence of one, or <<>>
  spInserted, \* history: what was inserted in this index, in that order
  spChanges

spVars == <<spRoot, spObjects, spInserted, spChanges>>

SPIds == {i.id : i \in SPInserts}

SPLeaf == [leaf |-> TRUE, box |-> <<>>, entries |-> <<>>]

SPNoIndex == [leaf |-> TRUE, box |-> <<>>, entries |-> <<>>, none |-> TRUE]

SPInit == spRoot = SPNoIndex /\ spObjects = [d \in SPIds |-> <<>>] /\ spInserted = <<>> /\ spChanges = 0

-----------------------------------------------------------------------------
(* Geometries: [kind, points, radius].  A box is its corners, or <<>>. *)

SPBox(g) ==
  LET lats == {g.points[i][1] : i \in DOMAIN g.points}
      lons == {g.points[i][2] : i \in DOMAIN g.points}
  IN  <<<<Min(lats) - g.radius, Min(lons) - g.radius>>, <<Max(lats) + g.radius, Max(lons) + g.radius>>>>

SPMeet(b, c) == b[2][1] >= c[1][1] /\ b[1][1] <= c[2][1] /\ b[2][2] >= c[1][2] /\ b[1][2] <= c[2][2]

SPJoin(b, c) ==
  IF b = <<>> THEN c
  ELSE <<<<Min({b[1][1], c[1][1]}), Min({b[1][2], c[1][2]})>>, <<Max({b[2][1], c[2][1]}), Max({b[2][2], c[2][2]})>>>>

\* Whether the distance of two points is at most d.
SPNear(p, q, d) == (p[1] - q[1]) ^ 2 + (p[2] - q[2]) ^ 2 <= d ^ 2

\* The polygons of the runs are rectangles; Geohash has what others contain.
SPContains(g, p) ==
  CASE g.kind = "point" -> g.points[1] = p
    [] g.kind = "circle" -> SPNear(g.points[1], p, g.radius)
    [] g.kind = "polygon" -> SPMeet(SPBox(g), <<p, p>>)

-----------------------------------------------------------------------------
(* The tree. *)

\* add_entry puts a box and its object in a node; it does not ask whether that is a leaf.
SPEntered(node, i) ==
  [node EXCEPT !.entries = Append(@, [box |-> SPBox(i.geometry), id |-> i.id]),
               !.box = SPJoin(@, SPBox(i.geometry))]

SPAdopted(node, child) == [node EXCEPT !.entries = Append(@, child), !.box = SPJoin(@, child.box)]

\* Mutant of SPSplit: the leaf for the new object is not added.
SPSplitLost(i) == SPAdopted([SPLeaf EXCEPT !.leaf = FALSE], spRoot)

\* _split_and_insert: above the root comes another one, with a leaf for the new object beside it.
SPSplit(i) == SPAdopted(SPAdopted([SPLeaf EXCEPT !.leaf = FALSE], spRoot), SPEntered(SPLeaf, i))

\* Mutant of SPFull: the root splits one entry early.
SPFullOver == Len(spRoot.entries) > SPMax

SPFull == Len(spRoot.entries) >= SPMax

SPCounted == spChanges < SPChanges /\ spChanges' = spChanges + 1

SPHasIndex == spRoot # SPNoIndex

\* CREATE SPATIAL INDEX: an index there is replaced by an empty one.
SPCreate ==
  /\ SPCounted
  /\ spRoot' = SPLeaf /\ spObjects' = [d \in SPIds |-> <<>>] /\ spInserted' = <<>>

SPDrop == SPCounted /\ SPHasIndex /\ spRoot' = SPNoIndex /\ spObjects' = [d \in SPIds |-> <<>>] /\ spInserted' = <<>>

\* Mutant of SPKept: an object that is there stays as it is.
SPKeptFirst(i) == IF spObjects[i.id] = <<>> THEN <<i.geometry>> ELSE spObjects[i.id]

SPKept(i) == <<i.geometry>>

\* SPATIAL INSERT, and the insert of an object that is not a point.
SPInsert(i) ==
  /\ SPCounted /\ SPHasIndex
  /\ spRoot' = IF SPFull THEN SPSplit(i) ELSE SPEntered(spRoot, i)
  /\ spObjects' = [spObjects EXCEPT ![i.id] = SPKept(i)]
  /\ spInserted' = Append(spInserted, i)

\* SPATIAL DELETE: the tree keeps the entry.
SPDelete(d) ==
  /\ SPCounted /\ SPHasIndex /\ spObjects[d] # <<>>
  /\ spObjects' = [spObjects EXCEPT ![d] = <<>>] /\ UNCHANGED <<spRoot, spInserted>>

SPNext == SPCreate \/ SPDrop \/ (\E i \in SPInserts : SPInsert(i)) \/ (\E d \in SPIds : SPDelete(d))

-----------------------------------------------------------------------------
(* Searches. *)

SPRaised == [ok |-> FALSE, ids |-> <<>>]

\* The node at the end of a path of places in entries.
SPNode(path) == FoldLeft(LAMBDA node, i : node.entries[i], spRoot, path)

\* RTreeNode.search, of the node at a path: an entry that is no node has no search, and the call raises.
SPSearchNode(box) ==
  LET f[path \in Seq(Nat)] ==
        LET node == SPNode(path)
            met  == SelectSeq(node.entries, LAMBDA e : SPMeet(e.box, box))
            Step(r, i) ==
              IF ~r.ok \/ "id" \in DOMAIN node.entries[i] THEN SPRaised
              ELSE LET below == f[Append(path, i)] IN [ok |-> below.ok, ids |-> r.ids \o below.ids]
        IN  CASE node.box = <<>> -> [ok |-> TRUE, ids |-> <<>>]
              [] node.box # <<>> /\ ~SPMeet(node.box, box) -> [ok |-> TRUE, ids |-> <<>>]
              [] OTHER -> IF node.leaf THEN [ok |-> TRUE, ids |-> [i \in DOMAIN met |-> met[i].id]]
                          ELSE FoldLeft(Step, [ok |-> TRUE, ids |-> <<>>], [i \in DOMAIN node.entries |-> i])
  IN  f[<<>>]

\* Mutant of SPLive: what was deleted is found.
SPLiveAll(ids) == ids

SPLive(ids) == SelectSeq(ids, LAMBDA d : spObjects[d] # <<>>)

\* RTreeIndex.search.
SPSearch(g) ==
  LET r == SPSearchNode(SPBox(g)) IN  [r EXCEPT !.ids = SPLive(@)]

SPOf(d) == spObjects[d][1]

\* Mutant of SPIsNear: a circle is near if its centre is.
SPIsNearCentre(d, p, radius) == SPNear(SPOf(d).points[1], p, radius)

\* near's test of a candidate.
SPIsNear(d, p, radius) ==
  CASE SPOf(d).kind = "point" -> SPNear(SPOf(d).points[1], p, radius)
    [] SPOf(d).kind = "circle" -> SPNear(SPOf(d).points[1], p, radius + SPOf(d).radius)
    [] SPOf(d).kind = "polygon" -> SPContains(SPOf(d), p)

\* within's: nothing but points and circles is within a circle, or but points within a polygon.
SPIsWithin(d, g) ==
  \/ g.kind # "point" /\ SPOf(d).kind = "point" /\ SPContains(g, SPOf(d).points[1])
  \/ /\ g.kind = "circle" /\ SPOf(d).kind = "circle" /\ SPOf(d).radius <= g.radius
     /\ SPNear(g.points[1], SPOf(d).points[1], g.radius - SPOf(d).radius)

\* Mutant of SPIsMet: only what it contains.
SPIsMetInside(d, g) == SPContains(g, SPOf(d).points[1])

\* intersects' test, by the object: a point is in the other, a circle or polygon has a point, and a
\* polygon the centre of a circle; the boxes decide of the rest.
SPIsMet(d, g) ==
  LET o == SPOf(d)
  IN  CASE o.kind = "point" -> SPContains(g, o.points[1])
        [] o.kind # "point" /\ g.kind = "point" -> SPContains(o, g.points[1])
        [] o.kind = "polygon" /\ g.kind = "circle" -> SPContains(o, g.points[1])
        [] OTHER -> SPMeet(SPBox(o), SPBox(g))

SPNearest(g) == SelectSeq(SPSearch(g).ids, LAMBDA d : SPIsNear(d, g.points[1], g.radius))

SPWithin(g) == SelectSeq(SPSearch(g).ids, LAMBDA d : SPIsWithin(d, g))

SPIntersects(g) == SelectSeq(SPSearch(g).ids, LAMBDA d : SPIsMet(d, g))

-----------------------------------------------------------------------------
(* Properties. *)

SPThere == {d \in SPIds : spObjects[d] # <<>>}

\* The objects are the ones that were inserted, each at its last place.
SPTypeOK ==
  /\ spRoot.leaf \in BOOLEAN /\ spChanges \in 0..SPChanges /\ (~SPHasIndex => SPThere = {})
  /\ \A d \in SPThere :
       \E n \in DOMAIN spInserted : /\ spInserted[n] = [id |-> d, geometry |-> SPOf(d)]
                                 /\ \A k \in (n + 1)..Len(spInserted) : spInserted[k].id # d

\* An index that one more object was put in than a node has place for can be searched, whatever is
\* asked; with two more, none of its searches that meet its box ends without an exception.
SPSearchable ==
  \A g \in SPQueries :
    /\ Len(spInserted) <= SPMax + 1 => SPSearch(g).ok
    /\ Len(spInserted) = SPMax + 2 => (SPSearch(g).ok <=> ~SPMeet(spRoot.box, SPBox(g)))

\* A search that returns finds every object that is near, within or met, by what it was last
\* inserted as, and no others; once each if no object was inserted twice.
SPFinds ==
  \A g \in SPQueries :
    SPSearch(g).ok =>
      /\ g.kind = "circle" => ToSet(SPNearest(g)) = {d \in SPThere : SPIsNear(d, g.points[1], g.radius)}
      /\ ToSet(SPWithin(g)) = {d \in SPThere : SPIsWithin(d, g)}
      /\ ToSet(SPIntersects(g)) = {d \in SPThere : SPIsMet(d, g)}
      /\ (\A k, n \in DOMAIN spInserted : k # n => spInserted[k].id # spInserted[n].id) => IsInjective(SPSearch(g).ids)
=============================================================================
