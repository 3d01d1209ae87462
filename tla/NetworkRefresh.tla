---------------------------- MODULE NetworkRefresh ----------------------------
(***************************************************************************)
(* The life of the road network: the operator's commands that fill and     *)
(* score its tables (cmd/viatuta: ingest-osm, ingest-crashes,              *)
(* ingest-elevation, score-edges), graph.Load, which copies them into      *)
(* memory, and an API server that keeps answering from its copy.           *)
(*                                                                         *)
(* One action is one SQL statement or one transaction.  A transaction is   *)
(* one action where its locks make it so: the TRUNCATE of osm.Load holds   *)
(* both tables and crash_edge until it commits, the TRUNCATE of            *)
(* MatchToEdges holds crash_edge, and whoever deadlocks with one of them   *)
(* is aborted, like any command that fails or is killed.  The statements   *)
(* of graph.Load share no transaction.  A crash pressure is the set of     *)
(* crashes it sums up, a grade the pair of heights it is taken from.       *)
(***************************************************************************)
EXTENDS OsmBuild

CONSTANTS
  Operators,            \* processes running the CLI
  Api,                  \* the server process
  Feeds,                \* answers of the crash source: sequences of records
  CloseTo,              \* pairs of places a crash or a hazard is matched over
  HeightAt,             \* what the elevation tiles say of a place, or Null
  HazardPlace,          \* where a rider has reported a hazard
  MinGradeSteps,        \* MinGradeLengthM, in steps of an edge's shape
  MaxCommands, MaxStarts, MaxPlans   \* bounds: commands, server starts, plans

ASSUME BoundsAssumption == MaxCommands \in Nat /\ MaxStarts \in Nat /\ MaxPlans \in Nat
ASSUME ApiAssumption == Api \notin Operators
ASSUME FeedAssumption == \A f \in Feeds : f \in Seq(Range(f))

Network == [x \in Extracts |-> Build(x)]

\* Ids that count from zero.
DenseIds(ids) == IsFiniteSet(ids) /\ ids = 0 .. Cardinality(ids) - 1

Processes == Operators \union {Api}

VARIABLES
  nodes, edges, crashes, crashEdge,   \* the tables
  proc,                               \* what each process is doing and holds
  overlay,                            \* the server's hazard scores
  plan,                               \* a plan request the server is answering
  commands, starts, plans,            \* counted against the bounds
  gen, source, matched, scored, raced \* history: see Init

tables == <<nodes, edges, crashes, crashEdge>>
counters == <<commands, starts, plans>>
history == <<gen, source, matched, scored, raced>>
server == <<overlay, plan>>
vars == <<tables, proc, server, counters, history>>

-----------------------------------------------------------------------------
(* Matching and grades, as SQL computes them.                              *)

Near(place, shape) == \E i \in DOMAIN shape : <<place, Where[shape[i]]>> \in CloseTo

\* The records that parse, and of those one per source id: the first, ON
\* CONFLICT DO NOTHING.
Usable(feed) == {i \in DOMAIN feed : feed[i].usable}
Stored(feed) ==
  {feed[i] : i \in {j \in Usable(feed) :
                      \A k \in Usable(feed) : k < j => feed[k].sid # feed[j].sid}}

Matches(e) == {c \in crashes : Near(c.place, e.shape)}

Measurable(e) ==
  /\ nodes[e.from].height # Null
  /\ nodes[e.to].height # Null
  /\ Len(e.shape) - 1 >= MinGradeSteps

GradeOf(e) == <<nodes[e.from].height, nodes[e.to].height>>
Flat == <<0, 0>>

-----------------------------------------------------------------------------
(* The graph in memory.  rows are the edges in graph order; the arrays of  *)
(* a graph are indexed from zero, like the program's.                      *)

Before(es, i, j) == es[i].from < es[j].from \/ (es[i].from = es[j].from /\ i < j)
EdgeOrder(es) ==
  [k \in 1 .. Cardinality(DOMAIN es) |->
     CHOOSE i \in DOMAIN es : Cardinality({j \in DOMAIN es : Before(es, j, i)}) = k - 1]

NumEdges(g) == Cardinality(DOMAIN g.dbid)

buildOffsets(ns, rows) ==
  [k \in 0 .. Cardinality(DOMAIN ns) |->
     Cardinality({i \in DOMAIN rows : rows[i].from + 1 <= k})]

buildDBIndex(dbid) ==
  [d \in 0 .. Max(Range(dbid)) |->
     IF d \in Range(dbid) THEN CHOOSE i \in DOMAIN dbid : dbid[i] = d ELSE -1]

IndexOfDBID(g, id) == IF id \in DOMAIN g.dbIndex THEN g.dbIndex[id] ELSE -1

OutEdges(g, n) == g.offs[n] .. g.offs[n + 1] - 1

\* Both ends of an edge remember its stress.
ComputeNodeMaxLTS(ns, rows) ==
  [n \in DOMAIN ns |->
     Max({0} \union {rows[i].lts : i \in {j \in DOMAIN rows :
                                            n \in {rows[j].from, rows[j].to}}})]

\* ns is what the node query returned, es the rows of the edge query.
GraphOf(ns, es) ==
  LET dbid == Table(EdgeOrder(es))
      rows == [i \in DOMAIN dbid |-> es[dbid[i]]]
  IN  [nodes |-> ns, rows |-> rows, dbid |-> dbid,
       offs |-> buildOffsets(ns, rows), dbIndex |-> buildDBIndex(dbid),
       nodeMaxLTS |-> ComputeNodeMaxLTS(ns, rows)]

NoGraph == [nodes |-> <<>>, rows |-> <<>>, dbid |-> <<>>, offs |-> <<>>,
            dbIndex |-> <<>>, nodeMaxLTS |-> <<>>]

\* ScoreGraph: every edge by its own facts, then the junctions.
ScoreGraph(g) ==
  LET rows == [i \in DOMAIN g.rows |->
                 [g.rows[i] EXCEPT !.lts = ClassifyLTS(g.rows[i].facts)]]
  IN  [g EXCEPT !.rows = rows, !.nodeMaxLTS = ComputeNodeMaxLTS(g.nodes, rows)]

-----------------------------------------------------------------------------
(* A process: the step it is at, and what its last queries returned.  gens *)
(* are the generations of the network those queries saw.                   *)

Idle == [at |-> "idle", held |-> <<>>, count |-> 0, graph |-> NoGraph, gens |-> {}]
At(step) == [Idle EXCEPT !.at = step]

NoPlan == [at |-> "none", node |-> 0, place |-> Null, edge |-> 0, gens |-> {},
           drawn |-> <<>>]

\* A network is loaded and nothing has scored it yet.
\*
\* gen numbers the networks, source is the extract of this one, matched says
\* that a match has run since the crash table or the network last changed,
\* scored is the crash table the last match on this network saw, raced what
\* another network's command has written into this one.
Init ==
  /\ \E x \in Extracts :
       /\ Network[x].edges # <<>>
       /\ source = x
       /\ nodes = Network[x].nodes /\ edges = Network[x].edges
  /\ crashes = {} /\ crashEdge = {}
  /\ proc = [p \in Processes |-> Idle]
  /\ overlay = [scores |-> {}, gens |-> {}]
  /\ plan = NoPlan
  /\ commands = 0 /\ starts = 0 /\ plans = 0
  /\ gen = 0 /\ matched = FALSE /\ scored = {} /\ raced = {}

Move(p, new) == proc' = [proc EXCEPT ![p] = new]

\* An operator starts a command that takes it to its first step.
Command(o, new) ==
  /\ proc[o].at = "idle"
  /\ commands < MaxCommands
  /\ commands' = commands + 1
  /\ Move(o, new)
  /\ UNCHANGED <<tables, server, starts, plans, history>>

\* An error is returned, or the command is interrupted or killed.
Abort(o) ==
  /\ proc[o].at # "idle"
  /\ Move(o, Idle)
  /\ UNCHANGED <<tables, server, counters, history>>

-----------------------------------------------------------------------------
(* ingest-osm.                                                             *)

IngestOsm(o) == \E x \in Extracts : Command(o, [At("built") EXCEPT !.held = <<x>>])

\* osm.Load commits what was truncated and copied so far.
LoadTables_Partial(o) ==
  LET x == proc[o].held[1]
  IN  /\ proc[o].at = "built"
      /\ Network[x].edges # <<>>
      /\ nodes' = Network[x].nodes
      /\ edges' \in {edges, Network[x].edges}
      /\ crashEdge' = {}
      /\ gen' = gen + 1 /\ source' = x
      /\ matched' = FALSE /\ scored' = {} /\ raced' = {}
      /\ Move(o, Idle)
      /\ UNCHANGED <<crashes, server, counters>>

\* The whole network lands, in one transaction.  A network without edges is
\* refused before: Abort is all that is left to that command.
LoadTables(o) ==
  LET x == proc[o].held[1]
  IN  /\ proc[o].at = "built"
      /\ Network[x].edges # <<>>
      /\ nodes' = Network[x].nodes
      /\ edges' = Network[x].edges
      /\ crashEdge' = {}
      /\ gen' = gen + 1 /\ source' = x
      /\ matched' = FALSE /\ scored' = {} /\ raced' = {}
      /\ Move(o, Idle)
      /\ UNCHANGED <<crashes, server, counters>>

-----------------------------------------------------------------------------
(* ingest-crashes.  One at a time: two imports would see each other's rows *)
(* in the middle of a transaction.                                         *)

IngestCrashes(o) ==
  /\ \A p \in Operators : proc[p].at \notin {"fetched", "stored"}
  /\ \E f \in Feeds : Command(o, [At("fetched") EXCEPT !.held = <<f>>])

StoreCrashes(o) ==
  /\ proc[o].at = "fetched"
  /\ Usable(proc[o].held[1]) # {}
  /\ crashes' = Stored(proc[o].held[1])
  /\ crashEdge' = {}                    \* the foreign key cascades
  /\ matched' = FALSE
  /\ Move(o, At("stored"))
  /\ UNCHANGED <<nodes, edges, server, counters, gen, source, scored, raced>>

\* Pressure for the matched edges, then zero for those that have a score
\* and no match any more.
Rescored_NoReset ==
  [i \in DOMAIN edges |->
     IF Matches(edges[i]) # {} THEN [edges[i] EXCEPT !.score = Matches(edges[i])]
                               ELSE edges[i]]
Rescored == [i \in DOMAIN edges |-> [edges[i] EXCEPT !.score = Matches(edges[i])]]

MatchToEdges(o) ==
  /\ proc[o].at = "stored"
  /\ crashEdge' = {m \in crashes \X DOMAIN edges : m[1] \in Matches(edges[m[2]])}
  /\ edges' = Rescored
  /\ matched' = TRUE /\ scored' = crashes
  /\ Move(o, Idle)
  /\ UNCHANGED <<nodes, crashes, server, counters, gen, source, raced>>

-----------------------------------------------------------------------------
(* ingest-elevation, after the tiles are there (TileCover).                *)

IngestElevation(o) == Command(o, At("tiles"))

SampleNodes(o) ==
  /\ proc[o].at = "tiles"
  /\ Move(o, [At("sampled") EXCEPT
                !.held = [n \in DOMAIN nodes |-> HeightAt[Where[nodes[n].osm]]],
                !.gens = {gen}])
  /\ UNCHANGED <<tables, server, counters, history>>

\* Heights joined by id; a node the tiles do not cover keeps its height.
WriteHeights(o) ==
  LET ele == proc[o].held
  IN  /\ proc[o].at = "sampled"
      /\ nodes' = [n \in DOMAIN nodes |->
                     IF n \in DOMAIN ele /\ ele[n] # Null
                     THEN [nodes[n] EXCEPT !.height = ele[n]] ELSE nodes[n]]
      /\ raced' = IF proc[o].gens = {gen} THEN raced ELSE raced \union {"height"}
      /\ Move(o, At("heights"))
      /\ UNCHANGED <<edges, crashes, crashEdge, server, counters, gen, source,
                     matched, scored>>

ApplyGrades(o) ==
  /\ proc[o].at = "heights"
  /\ edges' = [i \in DOMAIN edges |->
                 IF Measurable(edges[i])
                 THEN [edges[i] EXCEPT !.grade = GradeOf(edges[i])] ELSE edges[i]]
  /\ Move(o, At("graded"))
  /\ UNCHANGED <<nodes, crashes, crashEdge, server, counters, history>>

ZeroGrades(o) ==
  /\ proc[o].at = "graded"
  /\ edges' = [i \in DOMAIN edges |->
                 IF edges[i].grade = Null
                 THEN [edges[i] EXCEPT !.grade = Flat] ELSE edges[i]]
  /\ Move(o, Idle)
  /\ UNCHANGED <<nodes, crashes, crashEdge, server, counters, history>>

-----------------------------------------------------------------------------
(* graph.Load, run by score-edges and by a starting server.                *)

ScoreEdges(o) == Command(o, At("load"))

\* Loading fails: the command ends, and the server's process with it.
Loading(p, step) == proc[p].at = step /\ UNCHANGED <<tables, server, counters, history>>

CountNodes(p) ==
  /\ Loading(p, "load")
  /\ Move(p, [At("counted") EXCEPT !.count = Cardinality(DOMAIN nodes)])

\* The ids are dense, so a count that is not the query's is the only way to
\* meet an id out of range or to come up short.
ReadNodes(p) ==
  /\ Loading(p, "counted")
  /\ IF proc[p].count = Cardinality(DOMAIN nodes)
     THEN Move(p, [At("noded") EXCEPT
                     !.held = [n \in DOMAIN nodes |-> nodes[n].osm], !.gens = {gen}])
     ELSE Move(p, Idle)

\* A network with an edge that ends beyond the nodes is refused.
EndsInRange_FromOnly(ns, es) == \A i \in DOMAIN es : es[i].from \in DOMAIN ns
EndsInRange(ns, es) == \A i \in DOMAIN es : {es[i].from, es[i].to} \subseteq DOMAIN ns

ReadEdges(p) ==
  /\ Loading(p, "noded")
  /\ IF DOMAIN edges # {} /\ EndsInRange(proc[p].held, edges)
     THEN Move(p, [At("loaded") EXCEPT !.graph = GraphOf(proc[p].held, edges),
                                       !.gens = proc[p].gens \union {gen}])
     ELSE Move(p, Idle)

Load(p) == CountNodes(p) \/ ReadNodes(p) \/ ReadEdges(p)

\* Values joined by graph index instead of by database id.
PersistLTS_ByIndex(o) ==
  LET g == ScoreGraph(proc[o].graph)
  IN  /\ proc[o].at = "loaded"
      /\ edges' = [i \in DOMAIN edges |->
                     IF i \in DOMAIN g.rows
                     THEN [edges[i] EXCEPT !.lts = g.rows[i].lts] ELSE edges[i]]
      /\ raced' = IF proc[o].gens = {gen} THEN raced ELSE raced \union {"lts"}
      /\ Move(o, Idle)
      /\ UNCHANGED <<nodes, crashes, crashEdge, server, counters, gen, source,
                     matched, scored>>

\* Classified in memory, written back by id.
PersistLTS(o) ==
  LET g == ScoreGraph(proc[o].graph)
  IN  /\ proc[o].at = "loaded"
      /\ edges' = [i \in DOMAIN edges |->
                     IF IndexOfDBID(g, i) # -1
                     THEN [edges[i] EXCEPT !.lts = g.rows[IndexOfDBID(g, i)].lts]
                     ELSE edges[i]]
      /\ raced' = IF proc[o].gens = {gen} THEN raced ELSE raced \union {"lts"}
      /\ Move(o, Idle)
      /\ UNCHANGED <<nodes, crashes, crashEdge, server, counters, gen, source,
                     matched, scored>>

-----------------------------------------------------------------------------
(* The server: load, refresh the hazards, listen.                          *)

Graph == proc[Api].graph
Serving == proc[Api].at = "serving"

StartServer ==
  /\ proc[Api].at = "idle"
  /\ starts < MaxStarts
  /\ starts' = starts + 1
  /\ Move(Api, At("load"))
  /\ UNCHANGED <<tables, server, commands, plans, history>>

\* hazard.Refresh: the join is on the tables of now, the scores are indexed
\* by the graph of then.
HazardsOf(g) ==
  {IndexOfDBID(g, i) : i \in {j \in DOMAIN edges : Near(HazardPlace, edges[j].shape)}}
     \ {-1}

RefreshHazards ==
  /\ proc[Api].at \in {"loaded", "serving"}
  /\ overlay' = [scores |-> HazardsOf(Graph), gens |-> proc[Api].gens \union {gen}]
  /\ Move(Api, [proc[Api] EXCEPT !.at = "serving"])
  /\ UNCHANGED <<tables, plan, counters, history>>

\* The process ends, whatever it was doing; a plan under way is lost.
StopServer ==
  /\ proc[Api].at # "idle"
  /\ Move(Api, Idle)
  /\ overlay' = [scores |-> {}, gens |-> {}]
  /\ plan' = NoPlan
  /\ UNCHANGED <<tables, counters, history>>

\* Snap: an end of a nearby edge, by the id it has in the tables.  An id the
\* graph does not know panics, which is answered 500.
SnapPoint ==
  /\ Serving /\ plan.at \in {"none", "drawn"} /\ plans < MaxPlans
  /\ plans' = plans + 1
  /\ \E i \in DOMAIN edges : \E n \in {edges[i].from, edges[i].to} :
       plan' = IF n \in DOMAIN Graph.nodes
               THEN [NoPlan EXCEPT !.at = "snapped", !.node = n,
                                   !.place = nodes[n].osm,
                                   !.gens = proc[Api].gens \union {gen}]
               ELSE NoPlan
  /\ UNCHANGED <<tables, proc, overlay, commands, starts, history>>

\* A route is as faithful as each of its roads: its first one stands for it.
RoutePlan ==
  /\ plan.at = "snapped"
  /\ \/ \E e \in OutEdges(Graph, plan.node) :
          plan' = [plan EXCEPT !.at = "routed", !.edge = e]
     \/ OutEdges(Graph, plan.node) = {} /\ plan' = NoPlan
  /\ UNCHANGED <<tables, proc, overlay, counters, history>>

DrawnId_ByIndex(e) == e
DrawnId(e) == Graph.dbid[e]

\* FetchGeometry: the road's line, by its id; without one the answer is 500.
DrawPlan ==
  LET id == DrawnId(plan.edge)
  IN  /\ plan.at = "routed"
      /\ plan' = IF id \in DOMAIN edges
                 THEN [plan EXCEPT !.at = "drawn", !.drawn = edges[id].shape,
                                   !.gens = @ \union {gen}]
                 ELSE NoPlan
      /\ UNCHANGED <<tables, proc, overlay, counters, history>>

-----------------------------------------------------------------------------
CLI(o) ==
  \/ IngestOsm(o) \/ LoadTables(o)
  \/ IngestCrashes(o) \/ StoreCrashes(o) \/ MatchToEdges(o)
  \/ IngestElevation(o) \/ SampleNodes(o) \/ WriteHeights(o)
  \/ ApplyGrades(o) \/ ZeroGrades(o)
  \/ ScoreEdges(o) \/ Load(o) \/ PersistLTS(o)
  \/ Abort(o)

Server == \/ StartServer \/ Load(Api) \/ RefreshHazards \/ StopServer
          \/ SnapPoint \/ RoutePlan \/ DrawPlan

Next == Server \/ \E o \in Operators : CLI(o)

Spec == Init /\ [][Next]_vars

-----------------------------------------------------------------------------
(* The tables fit together after every step of every command: ids are dense*)
(* from zero, edges end at nodes and matches name rows that exist, whoever *)
(* reloads, imports or scores meanwhile (the ids are array indices: "A     *)
(* half-loaded graph is worse than no graph at all", ingest.go).           *)
TypeOK ==
  /\ DenseIds(DOMAIN nodes) /\ DenseIds(DOMAIN edges)
  /\ EndsInRange(nodes, edges)
  /\ \A i \in DOMAIN edges : edges[i].lts \in 0 .. 4
  /\ crashEdge \subseteq crashes \X DOMAIN edges
  /\ \A c, d \in crashes : c.sid = d.sid => c = d
  /\ overlay.scores \subseteq DOMAIN Graph.rows
  /\ plan.at \in {"none", "snapped", "routed", "drawn"}
  /\ gen \in 0 .. MaxCommands

\* The steps a rider may take along one way, and along an extract's ways.
StepsAlong(w) ==
  UNION {(IF Forward(w.tags) THEN {<<w.nodes[j], w.nodes[j + 1]>>} ELSE {}) \union
         (IF Backward(w.tags) THEN {<<w.nodes[j + 1], w.nodes[j]>>} ELSE {}) :
           j \in 1 .. Len(w.nodes) - 1}

RideSteps == [x \in Extracts |-> UNION {StepsAlong(x.ways[i]) : i \in ScanWays(x)}]

\* Those of the ways that lie inside the extract, pass no node twice and whose
\* neighbouring nodes lie apart: a run without length is dropped.
IsWhole(x, w) ==
  /\ Range(w.nodes) \intersect x.clipped = {}
  /\ IsInjective(w.nodes)
  /\ \A j \in 2 .. Len(w.nodes) : Where[w.nodes[j - 1]] # Where[w.nodes[j]]

WholeSteps ==
  [x \in Extracts |->
     UNION {StepsAlong(x.ways[i]) : i \in {k \in ScanWays(x) : IsWhole(x, x.ways[k])}}]

\* The nodes that ways pass more than once.
Crossings ==
  [x \in Extracts |->
     {NodeAt(x, v) :
        v \in {u \in Visits(x) : \E t \in Visits(x) \ {u} : NodeAt(x, t) = NodeAt(x, u)}}]

StepsOf(e) == {<<e.shape[j], e.shape[j + 1]>> : j \in 1 .. Len(e.shape) - 1}
Inner(e) == {e.shape[j] : j \in 2 .. Len(e.shape) - 1}

(* The network has the topology of the streets it was built from: every    *)
(* edge follows a way in a direction it may be ridden and ends at the      *)
(* nodes it names, no two ways cross in the middle of an edge (a rider     *)
(* could not turn there), and a way that is wholly inside the extract,     *)
(* passes no node twice and stands still nowhere is ridable from end to    *)
(* end.                                                                    *)
JunctionsJoined ==
  /\ \A i \in DOMAIN edges :
       LET e == edges[i]
       IN  /\ StepsOf(e) \subseteq RideSteps[source]
           /\ nodes[e.from].osm = e.shape[1] /\ nodes[e.to].osm = Last(e.shape)
           /\ Inner(e) \intersect Crossings[source] = {}
  /\ WholeSteps[source] \subseteq UNION {StepsOf(edges[i]) : i \in DOMAIN edges}

(* A graph that was loaded can be searched: a node's slice of the arrays is*)
(* its out-edges, database ids and graph indices translate into each other *)
(* (dbIndex: "skipping that translation silently attributes data to the    *)
(* wrong roads"), and a junction knows the worst stress that touches it.   *)
(* That includes a graph whose nodes and edges are of two networks, because*)
(* a reload fell between the queries of graph.Load.                        *)
GraphWellFormed ==
  \A p \in Processes :
    LET g == proc[p].graph
    IN  g # NoGraph =>
          /\ \A i \in DOMAIN g.rows : {g.rows[i].from, g.rows[i].to} \subseteq DOMAIN g.nodes
          /\ \A n \in DOMAIN g.nodes :
               OutEdges(g, n) = {i \in DOMAIN g.rows : g.rows[i].from = n}
          /\ \A i \in DOMAIN g.rows : IndexOfDBID(g, g.dbid[i]) = i
          /\ \A i \in DOMAIN g.rows : \A n \in {g.rows[i].from, g.rows[i].to} :
               g.rows[i].lts <= g.nodeMaxLTS[n]

(* Derived values are those of the road they stand on, not of a neighbour  *)
(* in some other numbering: stress by the road's own facts, heights by the *)
(* node's own place, grades by the edge's own ends in its own direction.   *)
(* Only a network that was replaced between the read and the write of one  *)
(* command may hold another's values.                                      *)
ScoresBelong ==
  /\ "lts" \notin raced =>
       \A i \in DOMAIN edges : edges[i].lts \in {0, ClassifyLTS(edges[i].facts)}
  /\ "height" \notin raced =>
       /\ \A n \in DOMAIN nodes : nodes[n].height \in {Null, HeightAt[Where[nodes[n].osm]]}
       /\ \A i \in DOMAIN edges :
            LET s == edges[i].shape
            IN  edges[i].grade \in
                  {Null, Flat, <<HeightAt[Where[s[1]]], HeightAt[Where[Last(s)]]>>}

(* A crash score is explained by crashes (00003_crash_and_hazards.sql says *)
(* crash_edge is kept so that a score can be): every edge's score sums up  *)
(* the crashes near it in the import its network was last matched with,    *)
(* one import for the whole network.  After a match that is the table of   *)
(* now and crash_edge names those crashes, also when this import dropped   *)
(* some.  Between an import and its match, where ingest-crashes may fail,  *)
(* the older scores stand and crash_edge is empty: it names no crash for a *)
(* score that is not its doing.                                            *)
CrashExplained ==
  /\ \A i \in DOMAIN edges :
       edges[i].score = {c \in scored : Near(c.place, edges[i].shape)}
  /\ IF matched
     THEN /\ scored = crashes
          /\ \A i \in DOMAIN edges :
               edges[i].score = {c \in crashes : <<c, i>> \in crashEdge}
     ELSE crashEdge = {}

OneNetwork(gens) == Cardinality(gens) = 1

(* While the server's copy and the tables are of one network, what the     *)
(* rider sees is what was routed: the line drawn is the road of the chosen *)
(* edge and starts where the request was snapped, and a reported hazard    *)
(* raises the cost of the roads it lies on and of no other.                *)
PlanFaithful ==
  /\ (plan.at = "drawn" /\ OneNetwork(plan.gens)) =>
       /\ plan.drawn = Graph.rows[plan.edge].shape
       /\ plan.drawn[1] = plan.place
  /\ (Serving /\ OneNetwork(overlay.gens)) =>
       overlay.scores = {i \in DOMAIN Graph.rows : Near(HazardPlace, Graph.rows[i].shape)}

=============================================================================
