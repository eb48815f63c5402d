--------------------------- MODULE PointInPolygon ---------------------------
(* The boundary test of the geofences (_point_in_polygon): a ray cast to the
   right of the point, and the union of several polygons.  Coordinates are
   integers, so that the comparison with the crossing is exact; a point is
   <<lat, lng>> and a polygon a sequence of points. *)
EXTENDS Integers, Sequences, SequencesExt, FiniteSets, FiniteSetsExt

CONSTANTS Grid,     \* coordinates are 0 .. Grid
          Sizes     \* numbers of corners of the polygons

GridAssumption == Grid \in Nat /\ Sizes \subseteq Nat

VARIABLES polygon, point

Coord == 0 .. Grid
Point == Coord \X Coord

-----------------------------------------------------------------------------
(* lng < xi + (lat - yi) / (yj - yi) * (xj - xi), multiplied by yj - yi. *)
LeftOf(p, a, b) ==
  LET dy == b[1] - a[1]
      lhs == (p[2] - a[2]) * dy
      rhs == (p[1] - a[1]) * (b[2] - a[2])
  IN IF dy > 0 THEN lhs < rhs ELSE lhs > rhs

StraddlesTouching(p, a, b) == (a[1] >= p[1]) # (b[1] > p[1])

Straddles(p, a, b) == (a[1] > p[1]) # (b[1] > p[1])

Edges(poly) == {<<poly[i], poly[(i % Len(poly)) + 1]>> : i \in DOMAIN poly}

Crossings(p, poly) ==
  {i \in DOMAIN poly :
     LET a == poly[i]  b == poly[(i % Len(poly)) + 1]
     IN Straddles(p, a, b) /\ LeftOf(p, a, b)}

Inside(p, poly) == Cardinality(Crossings(p, poly)) % 2 = 1

-----------------------------------------------------------------------------
(* Reference: the orientation of three points and the half planes of the edges. *)
Cross(a, b, c) == (b[1] - a[1]) * (c[2] - a[2]) - (b[2] - a[2]) * (c[1] - a[1])

OnEdge(p, a, b) ==
  /\ Cross(a, b, p) = 0
  /\ Min({a[1], b[1]}) <= p[1] /\ p[1] <= Max({a[1], b[1]})
  /\ Min({a[2], b[2]}) <= p[2] /\ p[2] <= Max({a[2], b[2]})

OnBorder(p, poly) == \E e \in Edges(poly) : OnEdge(p, e[1], e[2])

Convex(poly) ==
  LET Turn(i) == Cross(poly[i], poly[(i % Len(poly)) + 1], poly[((i + 1) % Len(poly)) + 1])
  IN (\A i \in DOMAIN poly : Turn(i) > 0) \/ (\A i \in DOMAIN poly : Turn(i) < 0)

InConvex(p, poly) ==
  LET Side(i) == Cross(poly[i], poly[(i % Len(poly)) + 1], p)
  IN (\A i \in DOMAIN poly : Side(i) > 0) \/ (\A i \in DOMAIN poly : Side(i) < 0)

-----------------------------------------------------------------------------
Init ==
  /\ \E n \in Sizes : polygon \in [1 .. n -> Point]
  /\ point \in Point

(* The fence is drawn anew with the corners in another order of walking. *)
Next ==
  /\ polygon' \in {Reverse(polygon), Tail(polygon) \o <<Head(polygon)>>}
  /\ UNCHANGED point

Spec == Init /\ [][Next]_<<polygon, point>>

-----------------------------------------------------------------------------
(* Off the border the ray cast agrees with the half planes of a triangle and
   of any other convex fence, rays through corners and along edges included;
   a triangle without area has nobody inside. *)
AgreesConvex ==
  (Len(polygon) = 3 \/ Convex(polygon)) /\ ~OnBorder(point, polygon) =>
    (Inside(point, polygon) <=> InConvex(point, polygon))

(* Where the administrator starts to draw and which way round makes no
   difference to who is inside. *)
DrawingOrder ==
  Inside(point, polygon') = Inside(point, polygon)
=============================================================================
