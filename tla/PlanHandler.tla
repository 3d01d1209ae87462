----------------------------- MODULE PlanHandler -----------------------------
(***************************************************************************)
(* handleRoutePlan (internal/httpapi/route_handler.go): one POST           *)
(* /v1/route/plan from the decoded body to the answer.  The waypoints are  *)
(* snapped one query at a time (internal/graph/snap.go), the hazard        *)
(* overlay is read once, the legs are routed, the baseline after them, the *)
(* geometry is fetched and cut into segments, and alternatives are hunted  *)
(* for (internal/routing/alternatives.go).  While that goes on, riders     *)
(* report hazards and queries fail.                                        *)
(*                                                                         *)
(* A search is one step here: it returns any of the Answers that Walks     *)
(* defines and that SearchReference shows Search to keep to.               *)
(***************************************************************************)
EXTENDS Walks

CONSTANTS
  LTS, Infra,             \* per edge: traffic stress 0..4, facility type
  Shape,                  \* per edge: its polyline in the database
  TurnPenalty,            \* per pair of edges: the turn model's penalty
  LTSPenalty,             \* per stress level
  OverThresholdPenalty, HazardPenaltyScale,
  Near,                   \* per place: the rows of the snap query
  Plans,                  \* the requests riders may send
  Reportable,             \* bound: the edges riders report hazards on
  MaxReports              \* bound: hazard reports while a plan is computed

ASSUME AttributesAssumption ==
  /\ Reportable \subseteq Edges
  /\ LTS \in [Edges -> 0 .. 4]
  /\ TurnPenalty \in [Edges \X Edges -> Nat]
  /\ LTSPenalty \in [0 .. 4 -> Nat]
  /\ {OverThresholdPenalty, HazardPenaltyScale, MaxReports} \subseteq Nat

Points == UNION {Range(Shape[e]) : e \in Edges}

\* What the ingest guarantees of a polyline: both ends, and at least two
\* points (osm/build.go).
ASSUME ShapeAssumption ==
  /\ \A e \in Edges : Shape[e] \in Seq(Points) /\ Len(Shape[e]) >= 2
  /\ \A e, f \in Edges : To[e] = From[f] => Last(Shape[e]) = Shape[f][1]

\* What a query finds is on the graph.
ASSUME NearAssumption ==
  \A place \in DOMAIN Near : Near[place] \in Seq([node : Nodes, distM : Nat])

MaxSnapDistanceM == 1000
MaxWaypoints == 10
MaxAlternatives == 2
maxAttempts == 6
AlternativePenalty == 2

-----------------------------------------------------------------------------
(* The request: profile, waypoints, number of alternatives.                *)

\* Ratios are in hundredths.
DetourRatios == 100 .. 1000
MaxBudgetM == 20000

\* A custom profile accepted with a negative weight.
Validate_AnySign(p) ==
  /\ p.maxLTS \in 1 .. 4
  /\ \A w \in {p.weightLTS, p.weightTurn, p.weightHazard} : w <= 10
  /\ p.maxDetour \in DetourRatios
  /\ p.budgetM \in 0 .. MaxBudgetM

\* Of the weights, those not in a cost below are folded into p.other.
Validate(p) ==
  /\ p.maxLTS \in 1 .. 4
  /\ \A w \in {p.weightLTS, p.weightTurn, p.weightHazard} : w \in 0 .. 10
  /\ p.maxDetour \in DetourRatios
  /\ p.budgetM \in 0 .. MaxBudgetM

resolveProfile(q) == IF q.custom THEN Validate(q.profile) ELSE q.known

validWaypoints(q) == Len(q.points) \in 2 .. MaxWaypoints

\* A body decodes to numbers; the presets are valid (profile.go).
ASSUME PlansAssumption ==
  \A q \in Plans :
    LET p == q.profile
    IN  /\ q.points \in Seq(DOMAIN Near) /\ q.alternatives \in Int
        /\ {p.maxLTS, p.budgetM, p.weightLTS, p.weightTurn, p.weightHazard,
            p.maxDetour} \subseteq Int
        /\ p.other \in [Edges -> Nat]
        /\ (~q.custom /\ q.known) => Validate(p)

-----------------------------------------------------------------------------
(* Snapping.                                                               *)

\* The nodes connected to n when direction is ignored.
Component(n) ==
  LET Neighbours(S) == {To[e] : e \in {f \in Edges : From[f] \in S}}
                         \union {From[e] : e \in {f \in Edges : To[f] \in S}}
  IN  FoldLeft(LAMBDA S, k : S \union Neighbours(S), {n},
               [k \in 1 .. Cardinality(Nodes) |-> k])

\* Of the biggest components, the one the scan over the nodes completes first.
LargestComponent ==
  LET all == {Component(n) : n \in Nodes}
      big == {c \in all : \A d \in all : Cardinality(d) <= Cardinality(c)}
  IN  CHOOSE c \in big : \A d \in big : Max(c) <= Max(d)

\* The positions of the rows before the first one that is too far away.
Within(rows) ==
  {i \in 1 .. Len(rows) : \A j \in 1 .. i : rows[j].distM <= MaxSnapDistanceM}

NoRoad == -1

\* The first candidate in the main component, else the first one.
Snap(place) ==
  LET rows == Near[place]
      near == Within(rows)
      main == {i \in near : rows[i].node \in LargestComponent}
  IN  IF main # {} THEN rows[Min(main)].node
      ELSE IF near # {} THEN rows[1].node ELSE NoRoad

-----------------------------------------------------------------------------
(* The cost model of one request, given the hazard snapshot hz.            *)

Multiplier(p, hz, e) ==
  1 + p.weightLTS * LTSPenalty[LTS[e]]
    + (IF LTS[e] > p.maxLTS THEN p.weightLTS * OverThresholdPenalty ELSE 0)
    + p.other[e]
    + (IF e \in hz THEN p.weightHazard * HazardPenaltyScale ELSE 0)

EdgeCost(p, hz, e) == LengthM[e] * Multiplier(p, hz, e)

Over(p) == {e \in Edges : LTS[e] # 0 /\ LTS[e] > p.maxLTS}

Allow(p) == IF p.budgetM > 0 THEN Edges ELSE Edges \ Over(p)

Leg(p, hz, a, b) ==
  [start |-> a, goal |-> b,
   edgeCost |-> [e \in Edges |-> EdgeCost(p, hz, e)],
   turnCost |-> [ef \in Edges \X Edges |-> p.weightTurn * TurnPenalty[ef]],
   allow |-> Allow(p), over |-> Over(p), hasOver |-> TRUE,
   budgetM |-> p.budgetM, budgetSteps |-> 0, maxExpansions |-> 0,
   noHeuristic |-> FALSE]

\* The distance-only options: no callback but LengthOnlyCost.
BaselineLeg(a, b) ==
  [start |-> a, goal |-> b, edgeCost |-> LengthM,
   turnCost |-> [ef \in Edges \X Edges |-> 0],
   allow |-> Edges, over |-> {}, hasOver |-> FALSE,
   budgetM |-> 0, budgetSteps |-> 0, maxExpansions |-> 0,
   noHeuristic |-> FALSE]

\* What routeLegs adds up over the legs.
AllEdges(ls) == FlattenSeq([i \in 1 .. Len(ls) |-> ls[i].edges])
Cost(ls) == SumUp([i \in 1 .. Len(ls) |-> ls[i].cost])
Length(ls) == SumUp([i \in 1 .. Len(ls) |-> ls[i].lengthM])
Used(ls) == SumUp([i \in 1 .. Len(ls) |-> ls[i].usedM])

\* Metres of the route on the edges of a set.
MetresOn(w, S) == SumUp([i \in 1 .. Len(w) |-> IF w[i] \in S THEN LengthM[w[i]] ELSE 0])

Summarise(hz, w) ==
  [byLTS |-> [l \in 0 .. 4 |-> MetresOn(w, {e \in Edges : LTS[e] = l})],
   hazardM |-> MetresOn(w, hz)]

-----------------------------------------------------------------------------
(* Geometry: polylines joined at shared junctions, and the segments.       *)

Joined(out, ps) == out \o (IF out = <<>> \/ ps = <<>> THEN ps ELSE Tail(ps))

\* Offsets are those of the code: from 0, the end of edge i at offs[i + 1].
EndOf(out) == IF out = <<>> THEN 0 ELSE Len(out) - 1

Undrawn == [pts |-> <<>>, offs |-> <<0>>]

\* The shared junction emitted twice.
assemble_EveryPoint(w) ==
  LET grow(a, e) == LET out == a.pts \o Shape[e]
                    IN  [pts |-> out, offs |-> Append(a.offs, EndOf(out))]
      upTo[i \in 0 .. Len(w)] == IF i = 0 THEN Undrawn ELSE grow(upTo[i - 1], w[i])
  IN  upTo[Len(w)]

\* One more edge drawn.
Grow(a, e) ==
  LET out == Joined(a.pts, Shape[e])
  IN  [pts |-> out, offs |-> Append(a.offs, EndOf(out))]

assemble(w) ==
  LET upTo[i \in 0 .. Len(w)] == IF i = 0 THEN Undrawn ELSE Grow(upTo[i - 1], w[i])
  IN  upTo[Len(w)]

Lengthen(seg, e, b) ==
  [seg EXCEPT !.end = Max({@, b}), !.lengthM = @ + LengthM[e]]

\* Edge e, from point a to point b, added to the segments.  A run of edges
\* alike in stress and facility is one segment; an edge that draws nothing is
\* folded into the run before it.
AddEdge(out, e, a, b) ==
  LET n == Len(out)
      Alike(seg) == seg.lts = LTS[e] /\ seg.infra = Infra[e]
      degenerate == b <= a
  IN  IF n > 0 /\ (degenerate \/ Alike(out[n]))
      THEN [out EXCEPT ![n] = Lengthen(@, e, b)]
      ELSE IF degenerate THEN out
      ELSE Append(out, [start |-> a, end |-> b, lts |-> LTS[e],
                        infra |-> Infra[e], lengthM |-> LengthM[e]])

buildSegments(w, ends) ==
  LET upTo[i \in 0 .. Len(w)] ==
        IF i = 0 THEN <<>> ELSE AddEdge(upTo[i - 1], w[i], ends[i], ends[i + 1])
  IN  upTo[Len(w)]

-----------------------------------------------------------------------------
(* Alternatives: penalise what was used, search again, keep what differs.  *)

\* The edges of a route and the other direction of the same streets.
Marked(w) == Range(w) \union
             {f \in Edges : \E e \in Range(w) : IsReverseOf(e, f)}

Penalise(r, S) ==
  [r EXCEPT !.edgeCost = [e \in Edges |->
     IF e \in S THEN AlternativePenalty * r.edgeCost[e] ELSE r.edgeCost[e]]]

isDistinct(cand, accepted) ==
  /\ cand.lengthM > 0
  /\ \A i \in DOMAIN accepted :
       10 * MetresOn(cand.edges, Range(accepted[i].edges)) <= 7 * cand.lengthM

TooDear(cost, primary) == 10 * cost > 16 * primary.cost

-----------------------------------------------------------------------------
VARIABLES
  phase,        \* where the handler is
  plan,         \* the request
  overlay,      \* the live hazard overlay: the edges hazards make worse
  reports,      \* hazard reports made so far
  snaps,        \* the nodes of the waypoints snapped so far
  hazardScores, \* this request's snapshot of the overlay
  legs, base,   \* the answers of routeLegs, for the profile and the baseline
  pts, offs,    \* the geometry of the route
  routes, penalised, attempt,   \* the loop of Alternatives
  resp          \* what has been put in the response

vars == <<phase, plan, overlay, reports, snaps, hazardScores, legs, base, pts,
          offs, routes, penalised, attempt, resp>>

world == <<overlay, reports>>
geometry == <<pts, offs>>
hunt == <<routes, penalised, attempt>>

Phases == {"idle", "snap", "snapshot", "route", "baseline", "geometry",
           "respond", "alternatives", "extras", "finish", "answered"}

NoResponse == [status |-> 0, edges |-> <<>>, lengthM |-> 0, cost |-> 0,
               usedM |-> 0, breakdown |-> Summarise({}, <<>>),
               segments |-> <<>>, baseM |-> 0, warned |-> FALSE,
               alternatives |-> <<>>]

Init ==
  /\ phase = "idle"
  /\ plan \in Plans
  /\ overlay = {} /\ reports = 0
  /\ snaps = <<>> /\ hazardScores = {}
  /\ legs = <<>> /\ base = <<>>
  /\ pts = <<>> /\ offs = <<>>
  /\ routes = <<>> /\ penalised = {} /\ attempt = 0
  /\ resp = NoResponse

Refuse(status) ==
  /\ phase' = "answered"
  /\ resp' = [NoResponse EXCEPT !.status = status]

\* Decoding, the profile and the waypoints, in that order; all are 400.
Receive ==
  /\ phase = "idle"
  /\ IF plan.decodes /\ resolveProfile(plan) /\ validWaypoints(plan)
     THEN phase' = "snap" /\ UNCHANGED resp
     ELSE Refuse(400)
  /\ UNCHANGED <<plan, world, snaps, hazardScores, legs, base, geometry,
                 hunt>>

\* One query per waypoint; the first point without a road ends the request.
SnapNext ==
  /\ phase = "snap"
  /\ LET node == Snap(plan.points[Len(snaps) + 1])
     IN  IF node = NoRoad
         THEN Refuse(422) /\ UNCHANGED snaps
         ELSE /\ snaps' = Append(snaps, node)
              /\ phase' = IF Len(snaps') = Len(plan.points)
                          THEN "snapshot" ELSE "snap"
              /\ UNCHANGED resp
  /\ UNCHANGED <<plan, world, hazardScores, legs, base, geometry, hunt>>

SnapFails ==
  /\ phase = "snap"
  /\ Refuse(500)
  /\ UNCHANGED <<plan, world, snaps, hazardScores, legs, base, geometry,
                 hunt>>

TakeSnapshot ==
  /\ phase = "snapshot"
  /\ hazardScores' = overlay
  /\ phase' = "route"
  /\ UNCHANGED <<plan, world, snaps, legs, base, geometry, hunt, resp>>

\* The options of a leg of this request; those of Alternatives are leg 1's.
OptsOf_Live(i) == Leg(plan.profile, overlay, snaps[i], snaps[i + 1])
OptsOf(i) == Leg(plan.profile, hazardScores, snaps[i], snaps[i + 1])

\* One leg of routeLegs.  An empty route means every waypoint snapped to the
\* same node.
RouteLeg ==
  /\ phase = "route"
  /\ \E a \in Answers(OptsOf(Len(legs) + 1)) :
       LET ls == Append(legs, a)
           last == Len(ls) = Len(snaps) - 1
       IN  IF last /\ AllEdges(ls) = <<>>
           THEN Refuse(422) /\ UNCHANGED legs
           ELSE /\ legs' = ls
                /\ phase' = IF last THEN "baseline" ELSE "route"
                /\ UNCHANGED resp
  /\ UNCHANGED <<plan, world, snaps, hazardScores, base, geometry, hunt>>

RouteLegFails ==
  /\ phase = "route"
  /\ Unroutable(OptsOf(Len(legs) + 1))
  /\ Refuse(422)
  /\ UNCHANGED <<plan, world, snaps, hazardScores, legs, base, geometry,
                 hunt>>

BaselineOpts(i) == BaselineLeg(snaps[i], snaps[i + 1])

\* One leg of the baseline.
RouteBaseline ==
  LET i == Len(base) + 1
  IN  /\ phase = "baseline"
      /\ \E a \in Answers(BaselineOpts(i)) : base' = Append(base, a)
      /\ phase' = IF i < Len(snaps) - 1 THEN "baseline" ELSE "geometry"
      /\ UNCHANGED <<plan, world, snaps, hazardScores, legs, geometry, hunt,
                     resp>>

RouteBaselineFails_Partial ==
  /\ phase = "baseline"
  /\ Unroutable(BaselineOpts(Len(base) + 1))
  /\ phase' = "geometry"
  /\ UNCHANGED <<plan, world, snaps, hazardScores, legs, base, geometry, hunt,
                 resp>>

\* The error is dropped, and with it the legs found before.
RouteBaselineFails ==
  /\ phase = "baseline"
  /\ Unroutable(BaselineOpts(Len(base) + 1))
  /\ base' = <<>>
  /\ phase' = "geometry"
  /\ UNCHANGED <<plan, world, snaps, hazardScores, legs, geometry, hunt, resp>>

FetchGeometry ==
  /\ phase = "geometry"
  /\ \E a \in {assemble(AllEdges(legs))} : pts' = a.pts /\ offs' = a.offs
  /\ phase' = "respond"
  /\ UNCHANGED <<plan, world, snaps, hazardScores, legs, base, hunt, resp>>

\* The query failed, or an edge of the route is no longer in the table.
FetchGeometryFails ==
  /\ phase = "geometry"
  /\ Refuse(500)
  /\ UNCHANGED <<plan, world, snaps, hazardScores, legs, base, geometry,
                 hunt>>

\* round2(length / baseLength), in hundredths.
DetourRatio(l, b) == (200 * l + b) \div (2 * b)

Respond ==
  LET w == AllEdges(legs)  l == Length(legs)  b == Length(base)
  IN  /\ phase = "respond"
      /\ resp' = [NoResponse EXCEPT
                    !.edges = w, !.lengthM = l, !.cost = Cost(legs),
                    !.usedM = Used(legs),
                    !.breakdown = Summarise(hazardScores, w),
                    !.segments = buildSegments(w, offs),
                    !.baseM = b,
                    !.warned = b > 0 /\ DetourRatio(l, b) > plan.profile.maxDetour]
      /\ phase' = IF plan.alternatives > 0 /\ Len(snaps) = 2
                  THEN "alternatives" ELSE "finish"
      /\ UNCHANGED <<plan, world, snaps, hazardScores, legs, base, geometry,
                     hunt>>

Want == Min({plan.alternatives, MaxAlternatives})

\* The primary again: the same search on the same graph, so the same route.
BeginAlternatives ==
  /\ phase = "alternatives" /\ routes = <<>>
  /\ routes' = legs
  /\ penalised' = Marked(legs[1].edges)
  /\ UNCHANGED <<phase, plan, world, snaps, hazardScores, legs, base,
                 geometry, attempt, resp>>

\* The loop stops: enough routes, enough attempts, no candidate, or one that
\* is much dearer than the primary.
EndLoop ==
  /\ phase' = "extras"
  /\ UNCHANGED <<plan, world, snaps, hazardScores, legs, base, geometry,
                 routes, penalised, attempt, resp>>

Searching_Unbounded ==
  /\ phase = "alternatives" /\ routes # <<>>
  /\ Len(routes) < Want + 1

Searching ==
  /\ phase = "alternatives" /\ routes # <<>>
  /\ attempt < maxAttempts /\ Len(routes) < Want + 1

\* What the next search may find, at its cost without the penalty.
Found == {[a EXCEPT !.cost = WalkCost(OptsOf(1), a.edges)] :
            a \in Answers(Penalise(OptsOf(1), penalised))}

Attempt ==
  /\ Searching
  /\ \E cand \in Found :
       /\ ~TooDear(cand.cost, routes[1])
       /\ routes' = IF isDistinct(cand, routes)
                    THEN Append(routes, cand) ELSE routes
       /\ penalised' = penalised \union Marked(cand.edges)
  /\ attempt' = attempt + 1
  /\ UNCHANGED <<phase, plan, world, snaps, hazardScores, legs, base,
                 geometry, resp>>

AttemptTooDear ==
  /\ Searching
  /\ \E cand \in Found : TooDear(cand.cost, routes[1])
  /\ EndLoop

AttemptFails ==
  /\ Searching
  /\ Unroutable(Penalise(OptsOf(1), penalised))
  /\ EndLoop

\* The loop's other condition forgotten: it ends by its attempts alone.
Enough_AttemptsOnly ==
  /\ phase = "alternatives" /\ routes # <<>>
  /\ attempt >= maxAttempts
  /\ EndLoop

Enough ==
  /\ phase = "alternatives" /\ routes # <<>>
  /\ ~Searching
  /\ EndLoop

\* The routes after the primary, in order, each with its geometry.
Attach ==
  LET k == Len(resp.alternatives) + 2
  IN  /\ phase = "extras"
      /\ IF k <= Len(routes)
         THEN /\ resp' = [resp EXCEPT !.alternatives = Append(@, routes[k])]
              /\ UNCHANGED phase
         ELSE phase' = "finish" /\ UNCHANGED resp
      /\ UNCHANGED <<plan, world, snaps, hazardScores, legs, base, geometry,
                     hunt>>

AttachFails_Error ==
  /\ phase = "extras"
  /\ Len(resp.alternatives) + 2 <= Len(routes)
  /\ Refuse(500)
  /\ UNCHANGED <<plan, world, snaps, hazardScores, legs, base, geometry,
                 hunt>>

\* The error is logged; the alternatives attached so far stay.
AttachFails ==
  /\ phase = "extras"
  /\ Len(resp.alternatives) + 2 <= Len(routes)
  /\ phase' = "finish"
  /\ UNCHANGED <<plan, world, snaps, hazardScores, legs, base, geometry, hunt,
                 resp>>

Answer ==
  /\ phase = "finish"
  /\ resp' = [resp EXCEPT !.status = 200]
  /\ phase' = "answered"
  /\ UNCHANGED <<plan, world, snaps, hazardScores, legs, base, geometry,
                 hunt>>

\* Another request's report or confirmation replaces the live overlay.
ReportLands ==
  /\ phase # "answered"
  /\ reports < MaxReports
  /\ reports' = reports + 1
  /\ \E e \in Reportable : overlay' = overlay \union {e}
  /\ UNCHANGED <<phase, plan, snaps, hazardScores, legs, base, geometry, hunt,
                 resp>>

Answered == phase = "answered" /\ UNCHANGED vars

Handler ==
  \/ Receive \/ SnapFails \/ SnapNext \/ TakeSnapshot
  \/ RouteLegFails \/ RouteLeg \/ RouteBaselineFails \/ RouteBaseline
  \/ FetchGeometryFails \/ FetchGeometry \/ Respond
  \/ BeginAlternatives \/ AttemptFails \/ Attempt \/ AttemptTooDear \/ Enough
  \/ AttachFails \/ Attach \/ Answer

Next == Handler \/ ReportLands \/ Answered

\* The handler's goroutine keeps running; its queries return or fail.
Spec == Init /\ [][Next]_vars /\ WF_vars(Handler)

-----------------------------------------------------------------------------
(* The handler never indexes past its waypoints, its attempts or its       *)
(* routes, and the response never lists more alternatives than the cap.    *)
TypeOK ==
  /\ phase \in Phases
  /\ plan \in Plans
  /\ overlay \subseteq Edges /\ hazardScores \subseteq Edges
  /\ reports \in 0 .. MaxReports
  /\ Len(snaps) <= Len(plan.points) /\ Range(snaps) \subseteq Nodes
  /\ \/ snaps = <<>>
     \/ Len(legs) < Len(snaps) /\ Len(base) < Len(snaps)
  /\ penalised \subseteq Edges
  /\ attempt \in 0 .. maxAttempts
  /\ Len(routes) <= MaxAlternatives + 1
  /\ resp.status \in {0, 200, 400, 422, 500}

Planned == resp.status = 200

(* A 200 describes one ridable route: it joins the snapped waypoints in    *)
(* order, and its distance, cost, stress metres and breakdown are those of *)
(* its edges, although searches, summary and budget each compute their own.*)
(* The stress metres stay within the budget of every leg (routeLegs), a    *)
(* zero budget means no stressful road at all, and the cost is "always at  *)
(* least DistanceM" (PlanResponse.Cost), which rests on Profile.Validate.  *)
RouteSpeaksTruth ==
  Planned =>
    LET w == resp.edges  p == plan.profile  stressed == Over(p)
        byLTS == resp.breakdown.byLTS
    IN  /\ IsWalk(w)
        /\ From[w[1]] = snaps[1] /\ To[Last(w)] = Last(snaps)
        /\ \A i \in 2 .. Len(snaps) - 1 : \E j \in 0 .. Len(w) :
             j = Len(AllEdges(SubSeq(legs, 1, i - 1))) /\
             (IF j = 0 THEN From[w[1]] ELSE To[w[j]]) = snaps[i]
        /\ resp.lengthM = WalkLength(w)
        /\ resp.usedM = MetresOn(w, stressed)
        /\ resp.usedM <= p.budgetM * Len(legs)
        /\ (p.budgetM = 0) => Range(w) \intersect stressed = {}
        /\ resp.cost >= resp.lengthM
        /\ resp.lengthM = SumUp([l \in 1 .. 5 |-> byLTS[l - 1]])
        /\ resp.usedM = SumUp([l \in 1 .. 4 |-> IF l > p.maxLTS THEN byLTS[l] ELSE 0])

(* Every stretch of the line is attributed to the road it came from: edge  *)
(* i's slice of the coordinates is that edge's polyline (assemble: "an     *)
(* off-by-one here misattributes a stretch of road"), the segments cover   *)
(* the line end to end and meet at shared coordinates (RouteSegment), each *)
(* edge lies in a segment of its own stress and facility, neighbours       *)
(* differ, and their lengths add up to the route's.                        *)
GeometryFaithful ==
  Planned =>
    LET w == resp.edges  segs == resp.segments
    IN  /\ \A i \in DOMAIN w :
             /\ SubSeq(pts, offs[i] + 1, offs[i + 1] + 1) = Shape[w[i]]
             /\ \E s \in Range(segs) :
                  /\ s.start <= offs[i] /\ offs[i + 1] <= s.end
                  /\ s.lts = LTS[w[i]] /\ s.infra = Infra[w[i]]
        /\ segs[1].start = 0 /\ Last(segs).end = Len(pts) - 1
        /\ \A k \in 1 .. Len(segs) - 1 :
             /\ segs[k].end = segs[k + 1].start
             /\ <<segs[k].lts, segs[k].infra>>
                  # <<segs[k + 1].lts, segs[k + 1].infra>>
        /\ Length(segs) = resp.lengthM

(* The baseline a rider is shown is never longer than the route beside it, *)
(* also when one of its legs failed after others were found: a partial     *)
(* baseline is not reported.                                               *)
BaselineComparable ==
  (Planned /\ resp.baseM > 0) =>
    /\ resp.baseM <= resp.lengthM
    /\ To[Last(AllEdges(base))] = Last(snaps)

(* What is offered beside the route is a choice: at most two routes, each  *)
(* joining the same ends within the budget and the cost ratio, sharing at  *)
(* most 70% of its length with the route and with every earlier offer, and *)
(* reported at its true cost under the overlay the route itself was        *)
(* computed with, whatever was reported meanwhile.  Without a budget none  *)
(* is cheaper than the route ("the best route plus up to n ...").          *)
AlternativesGenuine ==
  Planned =>
    /\ resp.alternatives = <<>> \/ Len(resp.alternatives) <= Want
    /\ \A k \in DOMAIN resp.alternatives :
         LET a == resp.alternatives[k]
             earlier == <<resp.edges>> \o
                        [j \in 1 .. k - 1 |-> resp.alternatives[j].edges]
         IN  /\ SoundAnswer(Leg(plan.profile, hazardScores, snaps[1], snaps[2]), a)
             /\ a.usedM <= plan.profile.budgetM
             /\ 10 * a.cost <= 16 * resp.cost
             /\ \A j \in 1 .. k :
                  10 * MetresOn(a.edges, Range(earlier[j])) <= 7 * a.lengthM
             /\ plan.profile.budgetM = 0 => a.cost >= resp.cost

(* "A failure here costs the extras, not the route itself": once the route *)
(* has its geometry the rider gets it, whatever becomes of alternatives.   *)
RouteSurvivesExtras == (phase = "respond") ~> Planned

(* Every request that reaches the handler is answered: the hunt for        *)
(* alternatives ends ("a request cannot spiral"), also where every search  *)
(* rediscovers the same road.                                              *)
PlanAnswered == (phase = "snap") ~> (phase = "answered")

=============================================================================
