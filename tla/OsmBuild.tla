------------------------------- MODULE OsmBuild -------------------------------
(***************************************************************************)
(* From an OpenStreetMap extract to the rows of routing_node and           *)
(* routing_edge (internal/osm: Routable, directions, ScanWays, ScanNodes   *)
(* and Build).  A way is its nodes in order, its tags and the facts the    *)
(* stress rubric reads; an extract is a sequence of ways and the nodes     *)
(* whose coordinates were clipped away.  Ids are dense from zero.          *)
(***************************************************************************)
EXTENDS StressRubric, Sequences, SequencesExt, FiniteSetsExt

CONSTANTS
  Extracts,             \* the extracts an operator may have downloaded
  Where,                \* where each OSM node lies
  Null                  \* a height or grade that was never measured

ASSUME ExtractAssumption ==
  \A x \in Extracts :
    /\ x.ways \in Seq(Range(x.ways))
    /\ \A w \in Range(x.ways) : w.nodes \in Seq(DOMAIN Where) /\ FactsType(w.facts)

(***************************************************************************)
(* Which ways a rider may use, and in which directions.                    *)
(***************************************************************************)
bikeAllowed(t) == t.bicycle \in {"yes", "designated", "permissive", "destination"}

Routable(t) ==
  /\ t.highway \notin {"", "motorway", "steps", "construction"}
  /\ t.bicycle \notin {"no", "private", "dismount", "use_sidepath"}
  /\ t.access \in {"no", "private"} => bikeAllowed(t)
  /\ ~(t.highway = "service" /\ t.service \in {"parking_aisle", "driveway"})
  /\ t.highway \in {"footway", "pedestrian", "bridleway"} => bikeAllowed(t)

\* The bicycle-specific tag wins over the general one, contraflow over both.
Forward(t) ==
  \/ t.contraflow
  \/ t.onewayBicycle \in {"no", "yes"}
  \/ t.onewayBicycle = "" /\ t.oneway # "-1"

Backward(t) ==
  \/ t.contraflow
  \/ t.onewayBicycle \in {"no", "-1"}
  \/ t.onewayBicycle = "" /\ t.oneway # "yes" /\ ~t.roundabout

(***************************************************************************)
(* Pass one: the routable ways, by their positions in the extract, and     *)
(* where they must be cut.                                                 *)
(***************************************************************************)
ScanWays(x) ==
  {i \in DOMAIN x.ways : Routable(x.ways[i].tags) /\ Len(x.ways[i].nodes) >= 2}

\* Where ways touch nodes: the way, and the position along it.
Visits(x) == UNION {{<<i, j>> : j \in DOMAIN x.ways[i].nodes} : i \in ScanWays(x)}
NodeAt(x, v) == x.ways[v[1]].nodes[v[2]]

\* How often the ways touch a node, saturating at two; ends count double.
NodeUse(x, n) ==
  IF \E i \in ScanWays(x) : n \in {x.ways[i].nodes[1], Last(x.ways[i].nodes)} THEN 2
  ELSE Min({2, Cardinality({v \in Visits(x) : NodeAt(x, v) = n})})

\* Only dead ends and the ends of ways, never a crossing in the middle.
IsSplitPoint_EndsOnly(x, n) ==
  \E i \in ScanWays(x) : n \in {x.ways[i].nodes[1], Last(x.ways[i].nodes)}

IsSplitPoint(x, n) == NodeUse(x, n) >= 2

\* Loops, runs with a clipped node, and runs without length are dropped.
Representable(x, shape) ==
  /\ shape[1] # Last(shape)
  /\ Range(shape) \intersect x.clipped = {}
  /\ \E j \in 2 .. Len(shape) : Where[shape[j - 1]] # Where[shape[j]]

(***************************************************************************)
(* Pass two: rows.  lts, score and grade are what the columns default to.  *)
(***************************************************************************)
NodeRow(n) == [osm |-> n, height |-> Null]

EdgeRow(w, shape, from, to) ==
  [way |-> w.id, shape |-> shape, from |-> from, to |-> to,
   facts |-> w.facts, lts |-> 0, score |-> {}, grade |-> Null]

intern(rows, n) ==
  IF \E i \in DOMAIN rows : rows[i].osm = n THEN rows ELSE Append(rows, NodeRow(n))

DenseId(rows, n) == (CHOOSE i \in DOMAIN rows : rows[i].osm = n) - 1

addSegment(x, g, w, shape) ==
  IF ~Representable(x, shape) THEN g
  ELSE LET rows == intern(intern(g.nodes, shape[1]), Last(shape))
           from == DenseId(rows, shape[1])
           to == DenseId(rows, Last(shape))
           forth == IF Forward(w.tags)
                    THEN <<EdgeRow(w, shape, from, to)>> ELSE <<>>
           back == IF Backward(w.tags)
                   THEN <<EdgeRow(w, Reverse(shape), to, from)>> ELSE <<>>
       IN  [nodes |-> rows, edges |-> g.edges \o forth \o back]

\* One step along a way: the run since the last cut ends at a split point and
\* where the way ends.
cutAt(x, w, walk, j) ==
  IF IsSplitPoint(x, w.nodes[j]) \/ j = Len(w.nodes)
  THEN [start |-> j, g |-> addSegment(x, walk.g, w, SubSeq(w.nodes, walk.start, j))]
  ELSE walk

addWay(x, g, i) ==
  LET w == x.ways[i]
      walk[j \in DOMAIN w.nodes] ==
        IF j = 1 THEN [start |-> 1, g |-> g] ELSE cutAt(x, w, walk[j - 1], j)
  IN  IF i \in ScanWays(x) THEN walk[Len(w.nodes)].g ELSE g

\* A table whose ids are the positions, counted from zero.
Table(rows) == [i \in 0 .. Len(rows) - 1 |-> rows[i + 1]]

Build(x) ==
  LET done[i \in 0 .. Len(x.ways)] ==
        IF i = 0 THEN [nodes |-> <<>>, edges |-> <<>>] ELSE addWay(x, done[i - 1], i)
      g == done[Len(x.ways)]
  IN  [nodes |-> Table(g.nodes), edges |-> Table(g.edges)]

=============================================================================
