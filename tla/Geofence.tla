-------------------------------- MODULE Geofence -------------------------------
(***************************************************************************)
(* Geofence::check (src/src/security/geofence.rs) on a lattice, with its   *)
(* ray casting and its distances in exact arithmetic, for a position that  *)
(* moves anywhere and may be unreadable.                                   *)
(***************************************************************************)
EXTENDS Integers, Sequences, SequencesExt, FiniteSets

CONSTANTS Boundaries,        \* polygons: sequences of vertices <<x, y>>
          FenceSide,         \* positions are tried in 0 .. FenceSide
          HardMargin, SoftMargin,
          MinAltitude, MaxAltitude

ASSUME GeofenceAssumption ==
  {FenceSide, HardMargin, SoftMargin, MinAltitude, MaxAltitude} \subseteq Nat

VARIABLES fence,             \* the boundary
          place              \* [x, y, altitude, finite]

fenceVars == <<fence, place>>

Altitudes == {MinAltitude - 1, MinAltitude, MaxAltitude, MaxAltitude + 1}
Places == [x : 0 .. FenceSide, y : 0 .. FenceSide, finite : BOOLEAN, altitude : Altitudes]

FenceInit == fence \in Boundaries /\ place \in Places

Beside(v) == {u \in 0 .. FenceSide : u - v \in -1 .. 1}

\* What is in the eight ways from here, at any altitude.
NextPlaces == [x : Beside(place.x), y : Beside(place.y), finite : BOOLEAN, altitude : Altitudes]

FenceNext == place' \in NextPlaces /\ UNCHANGED fence

-----------------------------------------------------------------------------

Corner(k) == fence[k]
Before(k) == fence[IF k = 1 THEN Len(fence) ELSE k - 1]
Sides == {<<Before(k), Corner(k)>> : k \in DOMAIN fence}

\* Mutant: a vertex at the height of the ray belongs to the sides above it and
\* to those below it.
CrossesEitherWay(x, y, a, b) ==
  /\ (b[2] >= y) # (a[2] > y)
  /\ b[2] # a[2]
  /\ LET run == (a[1] - b[1]) * (y - b[2])
         rise == a[2] - b[2]
     IN  IF rise > 0 THEN (x - b[1]) * rise < run ELSE (x - b[1]) * rise > run

\* A ray from the point to the right crosses the side from a to b.
Crosses(x, y, a, b) ==
  /\ (b[2] > y) # (a[2] > y)
  /\ LET run == (a[1] - b[1]) * (y - b[2])
         rise == a[2] - b[2]
     IN  IF rise > 0 THEN (x - b[1]) * rise < run ELSE (x - b[1]) * rise > run

PointInPolygon(x, y) ==
  /\ Len(fence) >= 3
  /\ Cardinality({k \in DOMAIN fence : Crosses(x, y, Before(k), Corner(k))}) % 2 = 1

\* point_to_segment_dist(...) <= m, squared to stay with integers.
SegmentWithin(x, y, a, b, m) ==
  LET dx == b[1] - a[1]
      dy == b[2] - a[2]
      len == dx * dx + dy * dy
      t == (x - a[1]) * dx + (y - a[2]) * dy
      cross == (x - a[1]) * dy - (y - a[2]) * dx
      Sq(u, v) == u * u + v * v
  IN  IF len = 0 \/ t <= 0 THEN Sq(x - a[1], y - a[2]) <= m * m
      ELSE IF t >= len THEN Sq(x - b[1], y - b[2]) <= m * m
      ELSE cross * cross <= m * m * len

DistanceWithin(x, y, m) == \E s \in Sides : SegmentWithin(x, y, s[1], s[2], m)

GeofenceCheck(p) ==
  IF ~p.finite \/ p.altitude \notin MinAltitude .. MaxAltitude
     \/ ~PointInPolygon(p.x, p.y) \/ DistanceWithin(p.x, p.y, HardMargin) THEN "HardBreach"
  ELSE IF DistanceWithin(p.x, p.y, SoftMargin) THEN "SoftWarning"
  ELSE "Safe"

-----------------------------------------------------------------------------

\* The reference: within a convex polygon, given counter-clockwise, means on the
\* left of each of its sides.
LeftOf(x, y, a, b) == (b[1] - a[1]) * (y - a[2]) - (b[2] - a[2]) * (x - a[1]) > 0
StrictlyInside(x, y) == \A s \in Sides : LeftOf(x, y, s[1], s[2])
OnBoundary(x, y) == DistanceWithin(x, y, 0)

\* Ray casting tells inside from outside at every point off the boundary, those
\* level with a vertex included; and what lies on the boundary, outside it,
\* out of the altitude band or nowhere is never let pass.
OnlyInsidePasses ==
  /\ ~OnBoundary(place.x, place.y) =>
       (PointInPolygon(place.x, place.y) <=> StrictlyInside(place.x, place.y))
  /\ GeofenceCheck(place) # "HardBreach" =>
       /\ place.finite /\ place.altitude \in MinAltitude .. MaxAltitude
       /\ StrictlyInside(place.x, place.y)
=============================================================================
