---------------------------- MODULE HandlerProofs ----------------------------
(***************************************************************************)
(* Proofs about PlanHandler for any finite graph, any snap rows, any       *)
(* requests and any number of hazard reports meanwhile.                    *)
(*                                                                         *)
(* PlanInv says what each phase of handleRoutePlan may count on: every leg *)
(* is an answer to its own request (LegsFound), every alternative was      *)
(* accepted under the first leg's request and differs from those before it *)
(* (Hunted), the line is drawn from the legs (Drawn), and the response     *)
(* describes them (Reported).  What a 200 promises then follows by         *)
(* induction over its legs and over the edges of its route.                *)
(***************************************************************************)
EXTENDS PlanHandler, WalkProofs

-----------------------------------------------------------------------------
(* What an answer of a search says to the handler.                         *)

LEMMA WalkNumbers ==
  ASSUME NEW w \in Seq(Edges)
  PROVE  /\ WalkLength(w) \in Nat
         /\ \A r : WalkUsed(r, w) \in Nat
         /\ \A r : Sensible(r) => WalkCost(r, w) \in Nat
         /\ \A S : MetresOn(w, S) \in Nat
<1>1. Len(w) \in Nat /\ \A i \in 1 .. Len(w) : w[i] \in Edges
  OBVIOUS
<1>2. \A e \in Edges : LengthM[e] \in Nat
  BY GraphAssumption
<1>3. ASSUME NEW S PROVE MetresOn(w, S) \in Nat
  <2> DEFINE s == [i \in 1 .. Len(w) |-> IF w[i] \in S THEN LengthM[w[i]] ELSE 0]
  <2>1. Len(s) \in Nat /\ \A i \in 1 .. Len(s) : s[i] \in Nat
    BY <1>1, <1>2
  <2> HIDE DEF s
  <2>2. SumUp(s) \in Nat  BY <2>1, SumNat
  <2> QED  BY <2>2 DEF s, MetresOn
<1> QED  BY <1>3, WalkTotals

LEMMA AnswerTypes ==
  ASSUME NEW r, Sensible(r), r.budgetM \in Nat, NEW a \in Answers(r)
  PROVE  /\ a.edges \in Seq(Edges) /\ Range(a.edges) \subseteq Edges
         /\ a.cost \in Nat /\ a.lengthM \in Nat /\ a.usedM \in Nat
         /\ a.usedM <= r.budgetM
         /\ a.lengthM = WalkLength(a.edges)
         /\ a.usedM = WalkUsed(r, a.edges)
         /\ (a.edges = <<>>) <=> (r.start = r.goal)
<1>1. CASE r.start = r.goal /\ a = Bare("path")
  <2>1. /\ a.edges = <<>> /\ a.cost = 0 /\ a.lengthM = 0 /\ a.usedM = 0
    BY <1>1 DEF Bare, NoResult
  <2>2. WalkLength(<<>>) = 0 /\ WalkUsed(r, <<>>) = 0
    BY SumEmpty DEF WalkLength, WalkUsed
  <2>3. <<>> \in Seq(Edges) /\ Range(<<>>) = {}
    BY DEF Range
  <2>4. /\ a.edges \in Seq(Edges) /\ Range(a.edges) \subseteq Edges
        /\ a.lengthM = WalkLength(a.edges) /\ a.usedM = WalkUsed(r, a.edges)
    BY <2>1, <2>2, <2>3
  <2> QED  BY <1>1, <2>1, <2>4
<1>2. CASE r.start # r.goal
  <2>1. PICK w \in Candidates(r) :
          /\ a.edges = w /\ a.cost = WalkCost(r, w) /\ a.lengthM = WalkLength(w)
          /\ a.usedM = WalkUsed(r, w) /\ a.usedM <= r.budgetM
    BY <1>2, AnswerFacts
  <2>2. w \in Seq(Edges) /\ Len(w) \in Nat \ {0}
    BY CandidateFacts
  <2>3. w # <<>>  BY <2>2
  <2>4. Range(w) \subseteq Edges  BY <2>2 DEF Range
  <2> QED  BY <1>2, <2>1, <2>2, <2>3, <2>4, WalkNumbers
<1> QED  BY <1>1, <1>2, AnswerFacts

-----------------------------------------------------------------------------
(* The inductive invariant.                                                *)

AnswerType == [outcome : {"path"}, edges : Seq(Edges), cost : Nat, lengthM : Nat,
               usedM : Nat, expansions : {0}]

Fields(r) == [status |-> r.status, edges |-> r.edges, lengthM |-> r.lengthM,
              cost |-> r.cost, usedM |-> r.usedM, breakdown |-> r.breakdown,
              segments |-> r.segments, baseM |-> r.baseM, warned |-> r.warned,
              alternatives |-> r.alternatives]

AfterSnap == {"snapshot", "route", "baseline", "geometry", "respond", "alternatives",
              "extras", "finish"}
AfterRoute == {"baseline", "geometry", "respond", "alternatives", "extras", "finish"}
AfterBaseline == {"geometry", "respond", "alternatives", "extras", "finish"}
AfterGeometry == {"respond", "alternatives", "extras", "finish"}
AfterRespond == {"alternatives", "extras", "finish"}

Ready == plan.decodes /\ resolveProfile(plan) /\ validWaypoints(plan)

\* The handler has passed through a phase of S on its way to a 200.
Reached(S) == phase \in S \/ Planned

Shapes ==
  /\ phase \in Phases /\ plan \in Plans
  /\ overlay \subseteq Edges /\ hazardScores \subseteq Edges
  /\ reports \in 0 .. MaxReports
  /\ snaps \in Seq(Nodes)
  /\ legs \in Seq(AnswerType) /\ base \in Seq(AnswerType) /\ routes \in Seq(AnswerType)
  /\ penalised \subseteq Edges /\ attempt \in 0 .. maxAttempts
  /\ resp = Fields(resp) /\ resp.alternatives \in Seq(AnswerType)
  /\ resp.status \in {0, 200, 400, 422, 500}
  /\ resp.status # 0 => phase = "answered"

\* What each phase may count on.
Progress ==
  /\ phase \in {"idle", "answered"} \/ Ready
  /\ Planned => Ready
  /\ Len(snaps) <= Len(plan.points)
  /\ phase = "idle" => snaps = <<>>
  /\ phase = "snap" => Len(snaps) < Len(plan.points)
  /\ Reached(AfterSnap) => Len(snaps) = Len(plan.points)
  /\ phase \in {"idle", "snap", "snapshot"} => legs = <<>>
  /\ legs = <<>> \/ Len(legs) < Len(snaps)
  /\ phase = "route" => Len(legs) < Len(snaps) - 1
  /\ Reached(AfterRoute) => Len(legs) = Len(snaps) - 1 /\ AllEdges(legs) # <<>>
  /\ phase \in {"idle", "snap", "snapshot", "route"} => base = <<>>
  /\ base = <<>> \/ Len(base) < Len(snaps)
  /\ phase = "baseline" => Len(base) < Len(snaps) - 1
  /\ Reached(AfterBaseline) => base = <<>> \/ Len(base) = Len(snaps) - 1

\* The loop of Alternatives, by phase.
Hunting ==
  /\ phase \in {"alternatives", "extras", "finish", "answered"} \/ routes = <<>>
  /\ phase = "alternatives" => Len(snaps) = 2 /\ plan.alternatives > 0
                               /\ resp.alternatives = <<>>
  /\ phase = "extras" => routes # <<>>

LegsFound == \A i \in 1 .. Len(legs) : legs[i] \in Answers(OptsOf(i))
BaseFound == \A i \in 1 .. Len(base) : base[i] \in Answers(BaselineOpts(i))

Drawn == Reached(AfterGeometry) =>
           pts = assemble(AllEdges(legs)).pts /\ offs = assemble(AllEdges(legs)).offs

\* A route beside the first, when it was accepted and since.
Genuine(rs, k) ==
  /\ SoundAnswer(OptsOf(1), rs[k])
  /\ rs[k].usedM <= plan.profile.budgetM
  /\ ~TooDear(rs[k].cost, legs[1])
  /\ \A j \in 1 .. k - 1 :
       10 * MetresOn(rs[k].edges, Range(rs[j].edges)) <= 7 * rs[k].lengthM
  /\ plan.profile.budgetM = 0 => rs[k].cost >= legs[1].cost

Hunted ==
  routes # <<>> => /\ routes[1] = legs[1] /\ Len(snaps) = 2 /\ Len(legs) = 1
                   /\ Len(routes) <= Want + 1 /\ Want \in 1 .. MaxAlternatives
                   /\ \A k \in 2 .. Len(routes) : Genuine(routes, k)

Described ==
  /\ resp.edges = AllEdges(legs) /\ resp.lengthM = Length(legs)
  /\ resp.cost = Cost(legs) /\ resp.usedM = Used(legs)
  /\ resp.breakdown = Summarise(hazardScores, AllEdges(legs))
  /\ resp.segments = buildSegments(AllEdges(legs), offs)
  /\ resp.baseM = Length(base)
  /\ resp.alternatives = <<>> \/ Len(resp.alternatives) < Len(routes)
  /\ \A k \in 1 .. Len(resp.alternatives) : resp.alternatives[k] = routes[k + 1]

Reported == Reached(AfterRespond) => Described

PlanInv == /\ Shapes /\ Progress /\ Hunting /\ LegsFound /\ BaseFound /\ Drawn
           /\ Hunted /\ Reported

-----------------------------------------------------------------------------
(* What the requests of a valid plan ask.                                  *)

Valid(p) ==
  /\ p.maxLTS \in 1 .. 4
  /\ p.weightLTS \in Nat /\ p.weightTurn \in Nat /\ p.weightHazard \in Nat
  /\ p.budgetM \in Nat /\ p.maxDetour \in Nat
  /\ p.other \in [Edges -> Nat]

LEMMA ValidIs ==
  ASSUME NEW p, Validate(p), p.maxDetour \in Int, p.other \in [Edges -> Nat]
  PROVE  Valid(p)
<1>1. p.weightLTS \in 0 .. 10 /\ p.weightTurn \in 0 .. 10 /\ p.weightHazard \in 0 .. 10
  BY DEF Validate
<1>2. p.maxLTS \in 1 .. 4 /\ p.budgetM \in 0 .. MaxBudgetM
  BY DEF Validate
<1>3. p.maxDetour \in DetourRatios
  BY DEF Validate
<1>4. p.maxDetour \in Nat
  BY <1>3 DEF DetourRatios
<1> QED  BY <1>1, <1>2, <1>4 DEF Valid

LEMMA ReadyPlans ==
  ASSUME NEW q \in Plans, resolveProfile(q), validWaypoints(q)
  PROVE  Valid(q.profile) /\ Len(q.points) \in Int /\ Len(q.points) >= 2
<1>1. /\ q.profile.other \in [Edges -> Nat] /\ q.profile.maxDetour \in Int
      /\ (~q.custom /\ q.known) => Validate(q.profile)
  BY PlansAssumption, Zenon
<1>2. Validate(q.profile)
  BY <1>1, Zenon DEF resolveProfile
<1>3. Valid(q.profile)
  BY <1>1, <1>2, ValidIs, Zenon
<1>4. \A n : n \in 2 .. MaxWaypoints => n \in Int /\ n >= 2
  OBVIOUS
<1>5. Len(q.points) \in 2 .. MaxWaypoints
  BY Zenon DEF validWaypoints
<1> QED  BY <1>3, <1>4, <1>5, Zenon

LEMMA MultiplierType ==
  ASSUME NEW p, Valid(p), NEW hz, NEW e \in Edges
  PROVE  Multiplier(p, hz, e) \in Nat \ {0}
<1>1. LTS[e] \in 0 .. 4 /\ LTSPenalty[LTS[e]] \in Nat
      /\ OverThresholdPenalty \in Nat /\ HazardPenaltyScale \in Nat
  BY AttributesAssumption
<1>2. p.weightLTS \in Nat /\ p.weightHazard \in Nat /\ p.other[e] \in Nat
  BY DEF Valid
<1>3. \A a, b \in Nat : a * b \in Nat
  OBVIOUS
<1>4. p.weightLTS * LTSPenalty[LTS[e]] \in Nat
  BY <1>1, <1>2, <1>3
<1>5. p.weightLTS * OverThresholdPenalty \in Nat
  BY <1>1, <1>2, <1>3
<1>6. p.weightHazard * HazardPenaltyScale \in Nat
  BY <1>1, <1>2, <1>3
<1> QED  BY <1>2, <1>4, <1>5, <1>6 DEF Multiplier

LEMMA EdgeCostAtLeast ==
  ASSUME NEW p, Valid(p), NEW hz, NEW e \in Edges
  PROVE  EdgeCost(p, hz, e) \in Nat /\ EdgeCost(p, hz, e) >= LengthM[e]
<1>1. LengthM[e] \in Nat
  BY GraphAssumption
<1>2. Multiplier(p, hz, e) \in Nat \ {0}
  BY MultiplierType
<1>3. \A a \in Nat, b \in Nat \ {0} : a * b \in Nat /\ a * b >= a
  OBVIOUS
<1> QED  BY <1>1, <1>2, <1>3 DEF EdgeCost

LEMMA LegSensible ==
  ASSUME NEW p, Valid(p), NEW hz, NEW a, NEW b
  PROVE  /\ Sensible(Leg(p, hz, a, b)) /\ Leg(p, hz, a, b).budgetM \in Nat
         /\ Leg(p, hz, a, b).start = a /\ Leg(p, hz, a, b).goal = b
         /\ Leg(p, hz, a, b).budgetM = p.budgetM
<1>1. \A e \in Edges : EdgeCost(p, hz, e) \in Nat
  BY EdgeCostAtLeast
<1>2. ASSUME NEW ef \in Edges \X Edges PROVE p.weightTurn * TurnPenalty[ef] \in Nat
  <2>1. p.weightTurn \in Nat /\ TurnPenalty[ef] \in Nat
    BY AttributesAssumption DEF Valid
  <2>2. \A x, y \in Nat : x * y \in Nat
    OBVIOUS
  <2> QED  BY <2>1, <2>2
<1>3. Allow(p) \subseteq Edges
  BY DEF Allow
<1> QED  BY <1>1, <1>2, <1>3 DEF Sensible, Leg, Valid

LEMMA BaselineSensible ==
  ASSUME NEW a, NEW b
  PROVE  /\ Sensible(BaselineLeg(a, b)) /\ BaselineLeg(a, b).budgetM \in Nat
         /\ BaselineLeg(a, b).start = a /\ BaselineLeg(a, b).goal = b
BY GraphAssumption DEF Sensible, BaselineLeg

LEMMA PenalisedSensible ==
  ASSUME NEW p, Valid(p), NEW hz, NEW a, NEW b, NEW S
  PROVE  LET r == Leg(p, hz, a, b)
             q == Penalise(r, S)
         IN  /\ Sensible(q) /\ q.budgetM \in Nat
             /\ q.start = a /\ q.goal = b /\ q.allow = r.allow /\ q.over = r.over
             /\ q.hasOver = r.hasOver /\ q.budgetM = p.budgetM
<1> DEFINE r == Leg(p, hz, a, b)
           q == Penalise(r, S)
<1>1. Sensible(r) /\ r.start = a /\ r.goal = b /\ r.budgetM = p.budgetM /\ r.budgetM \in Nat
  BY LegSensible
<1>2. /\ q.start = r.start /\ q.goal = r.goal /\ q.allow = r.allow /\ q.over = r.over
      /\ q.hasOver = r.hasOver /\ q.budgetM = r.budgetM /\ q.turnCost = r.turnCost
      /\ q.edgeCost = [e \in Edges |-> IF e \in S THEN AlternativePenalty * r.edgeCost[e]
                                       ELSE r.edgeCost[e]]
  BY DEF Penalise, Leg
<1> HIDE DEF r, q
<1>3. q.edgeCost \in [Edges -> Nat]
  BY <1>1, <1>2 DEF Sensible, AlternativePenalty
<1>4. Sensible(q)
  BY <1>1, <1>2, <1>3 DEF Sensible
<1> QED  BY <1>1, <1>2, <1>4 DEF r, q

LEMMA AnswerTyped ==
  ASSUME NEW r, Sensible(r), r.budgetM \in Nat, NEW a \in Answers(r)
  PROVE  a \in AnswerType
<1>1. CASE r.start = r.goal /\ a = Bare("path")
  <2>1. a = [outcome |-> "path", edges |-> <<>>, cost |-> 0, lengthM |-> 0, usedM |-> 0,
             expansions |-> 0]
    BY <1>1 DEF Bare, NoResult
  <2> QED  BY <2>1 DEF AnswerType
<1>2. CASE r.start # r.goal
  <2>1. PICK w \in Candidates(r) : a = AnswerOf(r, w)
    BY <1>2, AnswerFacts
  <2>2. w \in Seq(Edges)
    BY CandidateFacts
  <2>3. WalkCost(r, w) \in Nat /\ WalkLength(w) \in Nat /\ WalkUsed(r, w) \in Nat
    BY <2>2, WalkNumbers
  <2> QED  BY <2>1, <2>2, <2>3 DEF AnswerOf, AnswerType
<1> QED  BY <1>1, <1>2, AnswerFacts

LEMMA DistinctCount ==
  ASSUME NEW w \in Seq(Edges), SimpleWalk(w, Len(w))
  PROVE  Cardinality(Range(w)) = Len(w)
<1>1. Len(w) \in Nat /\ IsFiniteSet(1 .. Len(w)) /\ Cardinality(1 .. Len(w)) = Len(w)
  BY FS_Interval
<1>2. w \in Surjection(1 .. Len(w), Range(w))
  BY DEF Surjection, Range, SimpleWalk
<1>3. w \in Injection(1 .. Len(w), Range(w))
  <2>1. w \in [1 .. Len(w) -> Range(w)]
    BY DEF SimpleWalk, Range
  <2> QED  BY <2>1 DEF Injection, IsInjective, SimpleWalk
<1>4. w \in Bijection(1 .. Len(w), Range(w))
  BY <1>2, <1>3 DEF Bijection
<1>5. IsFiniteSet(Range(w)) /\ Cardinality(Range(w)) <= Cardinality(1 .. Len(w))
  BY <1>1, <1>2, FS_Surjection
<1>6. Cardinality(Range(w)) = Cardinality(1 .. Len(w))
  BY <1>1, <1>4, FS_Bijection DEF ExistsBijection
<1> QED  BY <1>1, <1>6

\* A candidate under the penalties is a sound answer without them.
LEMMA CandidateSound ==
  ASSUME NEW p, Valid(p), NEW hz, NEW a, NEW b, NEW S,
         NEW w \in Candidates(Penalise(Leg(p, hz, a, b), S))
  PROVE  LET r == Leg(p, hz, a, b)
             q == Penalise(r, S)
         IN  /\ w \in Candidates(r)
             /\ WalkUsed(q, w) = WalkUsed(r, w)
             /\ \A c : (c.edges = w /\ c.cost = WalkCost(r, w) /\ c.lengthM = WalkLength(w)
                        /\ c.usedM = WalkUsed(q, w)) => SoundAnswer(r, c)
<1> DEFINE r == Leg(p, hz, a, b)
           q == Penalise(r, S)
<1>1. /\ q.start = r.start /\ q.goal = r.goal /\ q.allow = r.allow /\ q.over = r.over
      /\ q.hasOver = r.hasOver
  BY PenalisedSensible, LegSensible
<1>2. w \in Candidates(q)
  OBVIOUS
<1> HIDE DEF r, q
<1>3. /\ w \in Seq(Edges) /\ SimpleWalk(w, Len(w)) /\ Len(w) \in Nat
      /\ From[w[1]] = q.start /\ To[Last(w)] = q.goal /\ Range(w) \subseteq q.allow
  BY <1>2, CandidateFacts
<1>4. w \in Candidates(r)
  BY <1>1, <1>2, <1>3, CandidateThere
<1>5. WalkUsed(q, w) = WalkUsed(r, w)
  <2>1. \A e : Spend(q, e, 0) = Spend(r, e, 0)
    BY <1>1 DEF Spend, IsOver
  <2> QED  BY <2>1 DEF WalkUsed
<1>6. Cardinality(Range(w)) = Len(w)
  BY <1>3, DistinctCount
<1>7. IsWalk(w) /\ Rideable(r, w)
  BY <1>1, <1>3 DEF IsWalk, SimpleWalk, Rideable, Connects
<1>8. ASSUME NEW c, c.edges = w /\ c.cost = WalkCost(r, w) /\ c.lengthM = WalkLength(w)
             /\ c.usedM = WalkUsed(q, w)
      PROVE  SoundAnswer(r, c)
  BY <1>5, <1>6, <1>7, <1>8 DEF SoundAnswer
<1> QED  BY <1>4, <1>5, <1>8 DEF r, q

LEMMA LeastWant ==
  ASSUME NEW n \in Int, n > 0
  PROVE  Min({n, MaxAlternatives}) \in 1 .. MaxAlternatives
         /\ Min({n, MaxAlternatives}) <= n
<1>1. \E x \in {n, MaxAlternatives} : \A y \in {n, MaxAlternatives} : x =< y
  BY DEF MaxAlternatives
<1>2. /\ Min({n, MaxAlternatives}) \in {n, MaxAlternatives}
      /\ \A y \in {n, MaxAlternatives} : Min({n, MaxAlternatives}) =< y
  BY <1>1 DEF Min
<1> QED  BY <1>2 DEF MaxAlternatives

LEMMA SeqFacts ==
  ASSUME NEW S, NEW s \in Seq(S)
  PROVE  Len(s) \in Nat /\ \A i \in 1 .. Len(s) : s[i] \in S
OBVIOUS

LEMMA SnapType ==
  ASSUME NEW place \in DOMAIN Near, Snap(place) # NoRoad
  PROVE  Snap(place) \in Nodes
<1> DEFINE rows == Near[place]
           near == Within(rows)
           main == {i \in near : rows[i].node \in LargestComponent}
<1>1. rows \in Seq([node : Nodes, distM : Nat])
  BY NearAssumption
<1>2. near \subseteq 1 .. Len(rows)
  BY DEF Within
<1>3. Len(rows) \in Nat /\ \A i \in 1 .. Len(rows) : rows[i].node \in Nodes
  <2> HIDE DEF rows
  <2>1. Len(rows) \in Nat /\ \A i \in 1 .. Len(rows) : rows[i] \in [node : Nodes, distM : Nat]
    BY <1>1, SeqFacts, Zenon
  <2>2. \A row \in [node : Nodes, distM : Nat] : row.node \in Nodes
    OBVIOUS
  <2> QED  BY <2>1, <2>2, Zenon
<1>4. Snap(place) = IF main # {} THEN rows[Min(main)].node
                    ELSE IF near # {} THEN rows[1].node ELSE NoRoad
  BY DEF Snap
<1> HIDE DEF rows, near
<1>5. CASE main # {}
  <2>1. main \subseteq 1 .. Len(rows) /\ main \in SUBSET Nat
    <3>1. main \subseteq near  BY Zenon
    <3> HIDE DEF main
    <3> QED  BY <1>2, <1>3, <3>1
  <2> HIDE DEF main
  <2>2. \E x \in main : \A y \in main : x =< y
    BY <1>5, <2>1, LeastNumber
  <2>3. Min(main) \in main
    BY <2>2 DEF Min
  <2> QED  BY <1>3, <1>4, <1>5, <2>1, <2>3
<1>6. CASE main = {} /\ near # {}
  <2>1. 1 \in 1 .. Len(rows)
    <3>1. PICK i \in near : TRUE
      BY <1>6, Zenon
    <3>2. i \in 1 .. Len(rows)
      BY <1>2, <3>1, Zenon
    <3>3. Len(rows) \in Nat
      BY <1>3, Zenon
    <3> HIDE DEF main
    <3> QED  BY <3>2, <3>3
  <2> QED  BY <1>3, <1>4, <1>6, <2>1
<1> QED  BY <1>4, <1>5, <1>6

-----------------------------------------------------------------------------
(* The invariant is inductive.                                             *)

LEMMA InitInv == Init => PlanInv
<1> SUFFICES ASSUME Init PROVE PlanInv
  OBVIOUS
<1>1. resp = [status |-> 0, edges |-> <<>>, lengthM |-> 0, cost |-> 0,
              usedM |-> 0, breakdown |-> Summarise({}, <<>>),
              segments |-> <<>>, baseM |-> 0, warned |-> FALSE, alternatives |-> <<>>]
  BY DEF Init, NoResponse
<1>2. resp = Fields(resp) /\ resp.status = 0 /\ resp.alternatives = <<>>
  BY <1>1 DEF Fields
<1>3. Shapes
  BY <1>2, AttributesAssumption DEF Init, Shapes, Phases, maxAttempts
<1>4. phase = "idle" /\ snaps = <<>> /\ legs = <<>> /\ base = <<>> /\ routes = <<>>
  BY DEF Init
<1>5. ~Planned
  BY <1>2 DEF Planned
<1>6. Progress
  <2>1. Len(plan.points) \in Nat
    <3>1. plan \in Plans  BY DEF Init
    <3>2. plan.points \in Seq(DOMAIN Near)  BY <3>1, PlansAssumption, Zenon
    <3> QED  BY <3>2
  <2> QED
    BY <1>4, <1>5, <2>1 DEF Progress, Reached, AfterSnap, AfterRoute, AfterBaseline
<1>7. Hunting /\ Hunted
  BY <1>4 DEF Hunting, Hunted
<1>8. LegsFound /\ BaseFound
  BY <1>4 DEF LegsFound, BaseFound
<1>9. Drawn /\ Reported
  BY <1>4, <1>5 DEF Drawn, Reported, Reached, AfterGeometry, AfterRespond
<1> QED  BY <1>3, <1>6, <1>7, <1>8, <1>9 DEF PlanInv

\* What only later steps can disturb.
LEMMA KeepsLegs ==
  ASSUME LegsFound, plan' = plan, hazardScores' = hazardScores, snaps' = snaps, legs' = legs
  PROVE  LegsFound'
BY DEF LegsFound, OptsOf

LEMMA KeepsBase ==
  ASSUME BaseFound, snaps' = snaps, base' = base
  PROVE  BaseFound'
BY DEF BaseFound, BaselineOpts

LEMMA KeepsHunted ==
  ASSUME Hunted, plan' = plan, hazardScores' = hazardScores, snaps' = snaps, legs' = legs,
         routes' = routes
  PROVE  Hunted'
<1>1. \A k : Genuine(routes, k) => Genuine(routes, k)'
  BY DEF Genuine, OptsOf
<1>2. Want' = Want
  BY DEF Want
<1> QED  BY <1>1, <1>2 DEF Hunted

LEMMA KeepsDescribed ==
  ASSUME Described, hazardScores' = hazardScores, legs' = legs, base' = base, offs' = offs,
         routes' = routes, resp'.edges = resp.edges, resp'.lengthM = resp.lengthM,
         resp'.cost = resp.cost, resp'.usedM = resp.usedM, resp'.breakdown = resp.breakdown,
         resp'.segments = resp.segments, resp'.baseM = resp.baseM,
         resp'.alternatives = resp.alternatives
  PROVE  Described'
BY DEF Described

LEMMA PointsCount ==
  ASSUME NEW q \in Plans
  PROVE  Len(q.points) \in Nat /\ \A i \in 1 .. Len(q.points) : q.points[i] \in DOMAIN Near
<1>1. q.points \in Seq(DOMAIN Near)
  BY PlansAssumption, Zenon
<1> QED  BY <1>1

\* A refusal leaves everything else alone.
LEMMA RefuseKeeps ==
  ASSUME PlanInv, NEW st \in {400, 422, 500}, Refuse(st), plan' = plan,
         overlay' = overlay, reports' = reports, snaps' = snaps,
         hazardScores' = hazardScores, legs' = legs, base' = base, pts' = pts, offs' = offs,
         routes' = routes, penalised' = penalised, attempt' = attempt
  PROVE  PlanInv'
<1>1. /\ Shapes /\ Progress /\ Hunting /\ LegsFound /\ BaseFound /\ Hunted
  BY DEF PlanInv
<1>2. phase' = "answered"
  BY DEF Refuse
<1>3. resp' = [status |-> st, edges |-> <<>>, lengthM |-> 0, cost |-> 0,
               usedM |-> 0, breakdown |-> Summarise({}, <<>>),
               segments |-> <<>>, baseM |-> 0, warned |-> FALSE, alternatives |-> <<>>]
  BY DEF Refuse, NoResponse
<1>4. resp' = Fields(resp') /\ resp'.status = st /\ resp'.alternatives = <<>>
  BY <1>3 DEF Fields
<1>5. Shapes'
  BY <1>1, <1>2, <1>4 DEF Shapes, Phases
<1>6. ~(Planned')
  BY <1>4 DEF Planned
<1>7. Progress'
  BY <1>1, <1>2, <1>6 DEF Progress, Reached, AfterSnap, AfterRoute, AfterBaseline
<1>8. Hunting' /\ Drawn' /\ Reported'
  BY <1>2, <1>6 DEF Hunting, Drawn, Reported, Reached, AfterGeometry, AfterRespond
<1> QED  BY <1>1, <1>5, <1>7, <1>8, KeepsLegs, KeepsBase, KeepsHunted DEF PlanInv

LEMMA ReceiveStep == PlanInv /\ Receive => PlanInv'
<1> SUFFICES ASSUME PlanInv, Receive PROVE PlanInv'
  OBVIOUS
<1>1. /\ Shapes /\ Progress /\ Hunting /\ LegsFound /\ BaseFound /\ Hunted
  BY DEF PlanInv
<1>2. /\ phase = "idle" /\ plan' = plan /\ overlay' = overlay /\ reports' = reports
      /\ snaps' = snaps /\ hazardScores' = hazardScores /\ legs' = legs /\ base' = base
      /\ pts' = pts /\ offs' = offs /\ routes' = routes /\ penalised' = penalised
      /\ attempt' = attempt
  BY DEF Receive, world, geometry, hunt
<1>3. CASE Refuse(400)
  BY <1>2, <1>3, RefuseKeeps
<1>4. CASE Ready /\ phase' = "snap" /\ resp' = resp
  <2>1. Shapes'
    BY <1>1, <1>2, <1>4 DEF Shapes, Phases
  <2>2. Len(plan.points) > 0 /\ snaps = <<>>
    <3>1. plan \in Plans /\ resolveProfile(plan) /\ validWaypoints(plan)
      BY <1>1, <1>4 DEF Ready, Shapes
    <3>2. Len(plan.points) \in Int /\ Len(plan.points) >= 2
      BY <3>1, ReadyPlans, Zenon
    <3> QED  BY <1>1, <1>2, <3>2 DEF Progress
  <2>3. ~(Planned') /\ Ready'
    BY <1>1, <1>2, <1>4 DEF Shapes, Planned, Ready
  <2>4. Progress'
    BY <1>1, <1>2, <1>4, <2>2, <2>3
       DEF Progress, Reached, AfterSnap, AfterRoute, AfterBaseline
  <2>5. Hunting' /\ Drawn' /\ Reported'
    BY <1>1, <1>2, <1>4, <2>3 DEF Hunting, Drawn, Reported, Reached, AfterGeometry, AfterRespond
  <2> QED  BY <1>1, <1>2, <2>1, <2>4, <2>5, KeepsLegs, KeepsBase, KeepsHunted DEF PlanInv
<1> QED  BY <1>3, <1>4 DEF Receive, Ready

LEMMA SnapStep == PlanInv /\ SnapNext => PlanInv'
<1> SUFFICES ASSUME PlanInv, SnapNext PROVE PlanInv'
  OBVIOUS
<1>1. /\ Shapes /\ Progress /\ Hunting /\ LegsFound /\ BaseFound /\ Hunted
  BY DEF PlanInv
<1> DEFINE node == Snap(plan.points[Len(snaps) + 1])
<1>2. /\ phase = "snap" /\ plan' = plan /\ overlay' = overlay /\ reports' = reports
      /\ hazardScores' = hazardScores /\ legs' = legs /\ base' = base
      /\ pts' = pts /\ offs' = offs /\ routes' = routes /\ penalised' = penalised
      /\ attempt' = attempt
      /\ \/ Refuse(422) /\ snaps' = snaps
         \/ /\ node # NoRoad
            /\ snaps' = Append(snaps, node) /\ resp' = resp
            /\ phase' = IF Len(snaps') = Len(plan.points) THEN "snapshot" ELSE "snap"
  BY DEF SnapNext, world, geometry, hunt
<1>3. CASE Refuse(422) /\ snaps' = snaps
  BY <1>2, <1>3, RefuseKeeps
<1>4. CASE /\ node # NoRoad
           /\ snaps' = Append(snaps, node) /\ resp' = resp
           /\ phase' = IF Len(snaps') = Len(plan.points) THEN "snapshot" ELSE "snap"
  <2>1. /\ plan \in Plans /\ snaps \in Seq(Nodes) /\ Len(snaps) < Len(plan.points)
        /\ Len(snaps) \in Nat
    BY <1>1, <1>2 DEF Shapes, Progress
  <2>2. Len(plan.points) \in Nat /\ plan.points[Len(snaps) + 1] \in DOMAIN Near
    <3>1. Len(plan.points) \in Nat
          /\ \A i \in 1 .. Len(plan.points) : plan.points[i] \in DOMAIN Near
      BY <2>1, PointsCount, Zenon
    <3>2. Len(snaps) + 1 \in 1 .. Len(plan.points)
      BY <2>1, <3>1
    <3> QED  BY <3>1, <3>2, Zenon
  <2>3. node \in Nodes
    BY <1>4, <2>2, SnapType, Zenon
  <2> HIDE DEF node
  <2>4. snaps' \in Seq(Nodes) /\ Len(snaps') = Len(snaps) + 1
    BY <1>4, <2>1, <2>3
  <2>5. Shapes'
    BY <1>1, <1>2, <1>4, <2>4 DEF Shapes, Phases
  <2>6. ~(Planned') /\ Ready'
    BY <1>1, <1>2, <1>4 DEF Shapes, Progress, Planned, Ready
  <2>7. Progress'
    BY <1>1, <1>2, <1>4, <2>1, <2>2, <2>4, <2>6
       DEF Progress, Reached, AfterSnap, AfterRoute, AfterBaseline
  <2>8. Hunting' /\ Drawn' /\ Reported'
    BY <1>1, <1>2, <1>4, <2>6 DEF Hunting, Drawn, Reported, Reached, AfterGeometry, AfterRespond
  <2>9. legs' = <<>> /\ base' = <<>> /\ routes' = <<>>
    BY <1>1, <1>2 DEF Progress, Hunting
  <2>10. LegsFound' /\ BaseFound' /\ Hunted'
    BY <2>9 DEF LegsFound, BaseFound, Hunted
  <2> QED  BY <2>5, <2>7, <2>8, <2>10 DEF PlanInv
<1> QED  BY <1>2, <1>3, <1>4

LEMMA SnapshotStep == PlanInv /\ TakeSnapshot => PlanInv'
<1> SUFFICES ASSUME PlanInv, TakeSnapshot PROVE PlanInv'
  OBVIOUS
<1>1. /\ Shapes /\ Progress /\ Hunting /\ LegsFound /\ BaseFound /\ Hunted
  BY DEF PlanInv
<1>2. /\ phase = "snapshot" /\ phase' = "route" /\ plan' = plan /\ overlay' = overlay
      /\ reports' = reports /\ snaps' = snaps /\ hazardScores' = overlay /\ legs' = legs
      /\ base' = base /\ pts' = pts /\ offs' = offs /\ routes' = routes
      /\ penalised' = penalised /\ attempt' = attempt /\ resp' = resp
  BY DEF TakeSnapshot, world, geometry, hunt
<1>3. Shapes'
  BY <1>1, <1>2 DEF Shapes, Phases
<1>4. ~(Planned') /\ Ready /\ Ready'
  BY <1>1, <1>2 DEF Shapes, Progress, Planned, Ready
<1>5. legs = <<>> /\ base = <<>> /\ routes = <<>>
  BY <1>1, <1>2 DEF Progress, Hunting
<1>6. Progress'
  <2>1. Len(snaps) >= 2
    <3>1. plan \in Plans /\ resolveProfile(plan) /\ validWaypoints(plan)
      BY <1>1, <1>4 DEF Ready, Shapes
    <3>2. Len(plan.points) >= 2
      BY <3>1, ReadyPlans, Zenon
    <3>3. Len(snaps) = Len(plan.points)
      BY <1>1, <1>2 DEF Progress, Reached, AfterSnap
    <3> QED  BY <3>2, <3>3
  <2>2. Len(legs') = 0
    BY <1>2, <1>5
  <2> QED
    BY <1>1, <1>2, <1>4, <1>5, <2>1, <2>2
       DEF Progress, Reached, AfterSnap, AfterRoute, AfterBaseline
<1>7. Hunting' /\ Drawn' /\ Reported'
  BY <1>1, <1>2, <1>4 DEF Hunting, Drawn, Reported, Reached, AfterGeometry, AfterRespond
<1>8. LegsFound' /\ BaseFound' /\ Hunted'
  BY <1>2, <1>5 DEF LegsFound, BaseFound, Hunted
<1> QED  BY <1>3, <1>6, <1>7, <1>8 DEF PlanInv

\* A request whose legs can be asked for.
LEMMA LegTyped ==
  ASSUME Shapes, Ready, NEW i, NEW a \in Answers(OptsOf(i))
  PROVE  a \in AnswerType
<1>1. Valid(plan.profile)
  BY ReadyPlans, Zenon DEF Shapes, Ready
<1>2. Sensible(OptsOf(i)) /\ OptsOf(i).budgetM \in Nat
  BY <1>1, LegSensible, Zenon DEF OptsOf
<1> QED  BY <1>2, AnswerTyped, Zenon

LEMMA BaselineTyped ==
  ASSUME NEW i, NEW a \in Answers(BaselineOpts(i))
  PROVE  a \in AnswerType
<1>1. Sensible(BaselineOpts(i)) /\ BaselineOpts(i).budgetM \in Nat
  BY BaselineSensible, Zenon DEF BaselineOpts
<1> QED  BY <1>1, AnswerTyped, Zenon

LEMMA RouteLegStep == PlanInv /\ RouteLeg => PlanInv'
<1> SUFFICES ASSUME PlanInv, RouteLeg PROVE PlanInv'
  OBVIOUS
<1>1. /\ Shapes /\ Progress /\ Hunting /\ LegsFound /\ BaseFound /\ Hunted
  BY DEF PlanInv
<1>2. /\ phase = "route" /\ plan' = plan /\ overlay' = overlay /\ reports' = reports
      /\ snaps' = snaps /\ hazardScores' = hazardScores /\ base' = base
      /\ pts' = pts /\ offs' = offs /\ routes' = routes /\ penalised' = penalised
      /\ attempt' = attempt
  BY DEF RouteLeg, world, geometry, hunt
<1>3. PICK a \in Answers(OptsOf(Len(legs) + 1)) :
        LET ls == Append(legs, a)
            last == Len(ls) = Len(snaps) - 1
        IN  IF last /\ AllEdges(ls) = <<>>
            THEN Refuse(422) /\ UNCHANGED legs
            ELSE /\ legs' = ls
                 /\ phase' = IF last THEN "baseline" ELSE "route"
                 /\ UNCHANGED resp
  BY DEF RouteLeg
<1> DEFINE ls == Append(legs, a)
           last == Len(ls) = Len(snaps) - 1
<1>4. CASE last /\ AllEdges(ls) = <<>>
  <2>1. Refuse(422) /\ legs' = legs
    BY <1>3, <1>4
  <2> QED  BY <1>2, <2>1, RefuseKeeps
<1>5. CASE ~(last /\ AllEdges(ls) = <<>>)
  <2>1. legs' = ls /\ phase' = (IF last THEN "baseline" ELSE "route") /\ resp' = resp
    BY <1>3, <1>5
  <2>2. Ready /\ Ready' /\ ~(Planned')
    BY <1>1, <1>2, <2>1 DEF Shapes, Progress, Planned, Ready
  <2>3. a \in AnswerType
    BY <1>1, <1>3, <2>2, LegTyped, Zenon
  <2>4. legs \in Seq(AnswerType) /\ Len(legs) \in Nat /\ Len(snaps) \in Nat
        /\ Len(legs) < Len(snaps) - 1 /\ base = <<>> /\ routes = <<>>
    BY <1>1, <1>2 DEF Shapes, Progress, Hunting
  <2>5. /\ ls \in Seq(AnswerType) /\ Len(ls) = Len(legs) + 1
        /\ \A i \in 1 .. Len(legs) : ls[i] = legs[i]
        /\ ls[Len(legs) + 1] = a
    BY <2>3, <2>4
  <2>6. last => AllEdges(ls) # <<>>
    BY <1>5
  <2> HIDE DEF ls
  <2>7. Shapes'
    BY <1>1, <1>2, <2>1, <2>5 DEF Shapes, Phases
  <2>8. Progress'
    BY <1>1, <1>2, <2>1, <2>2, <2>4, <2>5, <2>6
       DEF Progress, Reached, AfterSnap, AfterRoute, AfterBaseline
  <2>9. Hunting' /\ Drawn' /\ Reported' /\ Hunted' /\ BaseFound'
    BY <1>1, <1>2, <2>1, <2>2, <2>4
       DEF Hunting, Drawn, Reported, Reached, AfterGeometry, AfterRespond, Hunted, BaseFound
  <2>10. LegsFound'
    <3> SUFFICES ASSUME NEW i \in 1 .. Len(ls) PROVE ls[i] \in Answers(OptsOf(i)')
      BY <2>1 DEF LegsFound
    <3>1. OptsOf(i)' = OptsOf(i)
      BY <1>2 DEF OptsOf
    <3>2. CASE i \in 1 .. Len(legs)
      BY <1>1, <2>5, <3>1, <3>2 DEF LegsFound
    <3>3. CASE i = Len(legs) + 1
      BY <1>3, <2>5, <3>1, <3>3
    <3> QED  BY <2>4, <2>5, <3>2, <3>3
  <2> QED  BY <2>7, <2>8, <2>9, <2>10 DEF PlanInv
<1> QED  BY <1>4, <1>5

LEMMA BaselineStep == PlanInv /\ RouteBaseline => PlanInv'
<1> SUFFICES ASSUME PlanInv, RouteBaseline PROVE PlanInv'
  OBVIOUS
<1>1. /\ Shapes /\ Progress /\ Hunting /\ LegsFound /\ BaseFound /\ Hunted
  BY DEF PlanInv
<1>2. /\ phase = "baseline" /\ plan' = plan /\ overlay' = overlay /\ reports' = reports
      /\ snaps' = snaps /\ hazardScores' = hazardScores /\ legs' = legs
      /\ pts' = pts /\ offs' = offs /\ routes' = routes /\ penalised' = penalised
      /\ attempt' = attempt /\ resp' = resp
      /\ phase' = IF Len(base) + 1 < Len(snaps) - 1 THEN "baseline" ELSE "geometry"
  BY DEF RouteBaseline, world, geometry, hunt
<1>3. PICK a \in Answers(BaselineOpts(Len(base) + 1)) : base' = Append(base, a)
  BY DEF RouteBaseline
<1>4. Ready /\ Ready' /\ ~(Planned')
  BY <1>1, <1>2 DEF Shapes, Progress, Planned, Ready
<1>5. a \in AnswerType
  BY <1>3, BaselineTyped, Zenon
<1>6. base \in Seq(AnswerType) /\ Len(base) \in Nat /\ Len(snaps) \in Nat
      /\ Len(base) < Len(snaps) - 1 /\ routes = <<>>
  BY <1>1, <1>2 DEF Shapes, Progress, Hunting
<1>7. /\ base' \in Seq(AnswerType) /\ Len(base') = Len(base) + 1
      /\ \A i \in 1 .. Len(base) : base'[i] = base[i]
      /\ base'[Len(base) + 1] = a
  BY <1>3, <1>5, <1>6
<1>8. Shapes'
  BY <1>1, <1>2, <1>7 DEF Shapes, Phases
<1>9. Progress'
  BY <1>1, <1>2, <1>4, <1>6, <1>7
     DEF Progress, Reached, AfterSnap, AfterRoute, AfterBaseline
<1>10. Hunting' /\ Drawn' /\ Reported' /\ Hunted'
  BY <1>1, <1>2, <1>4, <1>6
     DEF Hunting, Drawn, Reported, Reached, AfterGeometry, AfterRespond, Hunted
<1>11. BaseFound'
  <2> SUFFICES ASSUME NEW i \in 1 .. Len(base') PROVE base'[i] \in Answers(BaselineOpts(i)')
    BY DEF BaseFound
  <2>1. BaselineOpts(i)' = BaselineOpts(i)
    BY <1>2 DEF BaselineOpts
  <2>2. CASE i \in 1 .. Len(base)
    BY <1>1, <1>7, <2>1, <2>2 DEF BaseFound
  <2>3. CASE i = Len(base) + 1
    BY <1>3, <1>7, <2>1, <2>3
  <2> QED  BY <1>6, <1>7, <2>2, <2>3
<1> QED  BY <1>1, <1>2, <1>8, <1>9, <1>10, <1>11, KeepsLegs DEF PlanInv

LEMMA BaselineFailsStep == PlanInv /\ RouteBaselineFails => PlanInv'
<1> SUFFICES ASSUME PlanInv, RouteBaselineFails PROVE PlanInv'
  OBVIOUS
<1>1. /\ Shapes /\ Progress /\ Hunting /\ LegsFound /\ Hunted
  BY DEF PlanInv
<1>2. /\ phase = "baseline" /\ phase' = "geometry" /\ base' = <<>> /\ plan' = plan
      /\ overlay' = overlay /\ reports' = reports
      /\ snaps' = snaps /\ hazardScores' = hazardScores /\ legs' = legs
      /\ pts' = pts /\ offs' = offs /\ routes' = routes /\ penalised' = penalised
      /\ attempt' = attempt /\ resp' = resp
  BY DEF RouteBaselineFails, world, geometry, hunt
<1>3. Shapes'
  BY <1>1, <1>2 DEF Shapes, Phases
<1>4. Ready /\ Ready' /\ ~(Planned')
  BY <1>1, <1>2 DEF Shapes, Progress, Planned, Ready
<1>5. Progress'
  BY <1>1, <1>2, <1>4 DEF Progress, Reached, AfterSnap, AfterRoute, AfterBaseline
<1>6. Hunting' /\ Drawn' /\ Reported' /\ BaseFound'
  BY <1>1, <1>2, <1>4
     DEF Hunting, Drawn, Reported, Reached, AfterGeometry, AfterRespond, BaseFound
<1> QED  BY <1>1, <1>2, <1>3, <1>5, <1>6, KeepsLegs, KeepsHunted DEF PlanInv

LEMMA GeometryStep == PlanInv /\ FetchGeometry => PlanInv'
<1> SUFFICES ASSUME PlanInv, FetchGeometry PROVE PlanInv'
  OBVIOUS
<1>1. /\ Shapes /\ Progress /\ Hunting /\ LegsFound /\ BaseFound /\ Hunted
  BY DEF PlanInv
<1>2. /\ phase = "geometry" /\ phase' = "respond" /\ base' = base /\ plan' = plan
      /\ overlay' = overlay /\ reports' = reports
      /\ snaps' = snaps /\ hazardScores' = hazardScores /\ legs' = legs
      /\ routes' = routes /\ penalised' = penalised
      /\ attempt' = attempt /\ resp' = resp
  BY DEF FetchGeometry, world, hunt
<1>3. pts' = assemble(AllEdges(legs)).pts /\ offs' = assemble(AllEdges(legs)).offs
  BY DEF FetchGeometry
<1>4. Shapes'
  BY <1>1, <1>2 DEF Shapes, Phases
<1>5. Ready /\ Ready' /\ ~(Planned')
  BY <1>1, <1>2 DEF Shapes, Progress, Planned, Ready
<1>6. Progress'
  BY <1>1, <1>2, <1>5 DEF Progress, Reached, AfterSnap, AfterRoute, AfterBaseline
<1>7. Hunting' /\ Reported'
  BY <1>1, <1>2, <1>5 DEF Hunting, Reported, Reached, AfterRespond
<1>8. Drawn'
  BY <1>2, <1>3 DEF Drawn
<1> QED  BY <1>1, <1>2, <1>4, <1>6, <1>7, <1>8, KeepsLegs, KeepsBase, KeepsHunted DEF PlanInv

LEMMA RespondStep == PlanInv /\ Respond => PlanInv'
<1> SUFFICES ASSUME PlanInv, Respond PROVE PlanInv'
  OBVIOUS
<1>1. /\ Shapes /\ Progress /\ Hunting /\ LegsFound /\ BaseFound /\ Drawn /\ Hunted
  BY DEF PlanInv
<1>2. /\ phase = "respond" /\ base' = base /\ plan' = plan
      /\ overlay' = overlay /\ reports' = reports
      /\ snaps' = snaps /\ hazardScores' = hazardScores /\ legs' = legs
      /\ pts' = pts /\ offs' = offs /\ routes' = routes /\ penalised' = penalised
      /\ attempt' = attempt
      /\ phase' = IF plan.alternatives > 0 /\ Len(snaps) = 2 THEN "alternatives" ELSE "finish"
  BY DEF Respond, world, geometry, hunt
<1> DEFINE w == AllEdges(legs)
           l == Length(legs)
           b == Length(base)
<1>3. resp' = [status |-> 0, edges |-> w, lengthM |-> l, cost |-> Cost(legs),
               usedM |-> Used(legs), breakdown |-> Summarise(hazardScores, w),
               segments |-> buildSegments(w, offs), baseM |-> b,
               warned |-> b > 0 /\ DetourRatio(l, b) > plan.profile.maxDetour,
               alternatives |-> <<>>]
  BY DEF Respond, NoResponse
<1> HIDE DEF w, l, b
<1>4. /\ resp' = Fields(resp') /\ resp'.status = 0 /\ resp'.alternatives = <<>>
      /\ resp'.edges = w /\ resp'.lengthM = l /\ resp'.cost = Cost(legs)
      /\ resp'.usedM = Used(legs) /\ resp'.breakdown = Summarise(hazardScores, w)
      /\ resp'.segments = buildSegments(w, offs) /\ resp'.baseM = b
  BY <1>3 DEF Fields
<1>5. Shapes'
  BY <1>1, <1>2, <1>4 DEF Shapes, Phases
<1>6. Ready /\ Ready' /\ ~(Planned')
  BY <1>1, <1>2, <1>4 DEF Progress, Planned, Ready
<1>7. Progress'
  BY <1>1, <1>2, <1>6 DEF Progress, Reached, AfterSnap, AfterRoute, AfterBaseline
<1>8. Hunting'
  BY <1>1, <1>2, <1>4 DEF Hunting
<1>9. Drawn'
  BY <1>1, <1>2 DEF Drawn, Reached, AfterGeometry
<1>10. Reported'
  BY <1>2, <1>4 DEF Reported, Described, w, l, b
<1> QED  BY <1>1, <1>2, <1>5, <1>7, <1>8, <1>9, <1>10, KeepsLegs, KeepsBase, KeepsHunted
            DEF PlanInv

LEMMA CandidateGenuine ==
  ASSUME Shapes, Ready, LegsFound, Len(legs) = 1,
         NEW a \in Answers(Penalise(OptsOf(1), penalised)),
         NEW cand, cand = [a EXCEPT !.cost = WalkCost(OptsOf(1), a.edges)]
  PROVE  /\ cand \in AnswerType
         /\ cand.lengthM > 0 =>
              /\ SoundAnswer(OptsOf(1), cand)
              /\ cand.usedM <= plan.profile.budgetM
              /\ plan.profile.budgetM = 0 => cand.cost >= legs[1].cost
<1> DEFINE p == plan.profile
           r == OptsOf(1)
           q == Penalise(r, penalised)
<1>1. Valid(p)
  BY ReadyPlans, Zenon DEF Shapes, Ready
<1>2. r = Leg(p, hazardScores, snaps[1], snaps[2])
  BY DEF OptsOf
<1>3. /\ Sensible(r) /\ r.budgetM = p.budgetM /\ r.start = snaps[1] /\ r.goal = snaps[2]
  <2> HIDE DEF p, r
  <2> QED  BY <1>1, <1>2, LegSensible
<1>4. /\ Sensible(q) /\ q.budgetM \in Nat /\ q.start = snaps[1] /\ q.goal = snaps[2]
      /\ q.budgetM = p.budgetM
  <2> HIDE DEF p, r
  <2> QED  BY <1>1, <1>2, PenalisedSensible
<1>5. a \in Answers(q)
  OBVIOUS
<1>6. p.budgetM \in Nat
  BY <1>1 DEF Valid
<1>7. legs[1] \in Answers(r)
  BY DEF LegsFound
<1> HIDE DEF p, r, q
<1>8. a \in AnswerType
  BY <1>4, <1>5, AnswerTyped
<1>9. a.edges \in Seq(Edges)
  BY <1>8 DEF AnswerType
<1>10. WalkCost(r, a.edges) \in Nat
  BY <1>3, <1>9, WalkNumbers
<1>11. /\ cand \in AnswerType
       /\ cand.edges = a.edges /\ cand.lengthM = a.lengthM /\ cand.usedM = a.usedM
       /\ cand.cost = WalkCost(r, a.edges)
  <2>1. cand = [a EXCEPT !.cost = WalkCost(r, a.edges)]
    BY DEF r
  <2> QED  BY <1>8, <1>10, <2>1 DEF AnswerType
<1>12. ASSUME cand.lengthM > 0
       PROVE  /\ SoundAnswer(r, cand) /\ cand.usedM <= p.budgetM
              /\ p.budgetM = 0 => cand.cost >= legs[1].cost
  <2>1. snaps[1] # snaps[2]
    <3> SUFFICES ASSUME snaps[1] = snaps[2] PROVE FALSE
      OBVIOUS
    <3>1. a = Bare("path")
      BY <1>4, <1>5, AnswerFacts
    <3>2. a.lengthM = 0
      BY <3>1 DEF Bare, NoResult
    <3> QED  BY <1>11, <1>12, <3>2
  <2>2. PICK w \in Candidates(q) :
          a.edges = w /\ a.lengthM = WalkLength(w) /\ a.usedM = WalkUsed(q, w)
          /\ a.usedM <= q.budgetM
    BY <1>4, <1>5, <2>1, AnswerFacts
  <2>3. /\ w \in Candidates(r) /\ WalkUsed(q, w) = WalkUsed(r, w)
        /\ \A c : (c.edges = w /\ c.cost = WalkCost(r, w) /\ c.lengthM = WalkLength(w)
                   /\ c.usedM = WalkUsed(q, w)) => SoundAnswer(r, c)
    BY <1>1, <1>2, <2>2, CandidateSound DEF q
  <2>4. SoundAnswer(r, cand)
    BY <1>11, <2>2, <2>3
  <2>5. cand.usedM <= p.budgetM
    BY <1>4, <1>11, <2>2
  <2>6. ASSUME p.budgetM = 0 PROVE cand.cost >= legs[1].cost
    <3>1. w \in Seq(Edges)
      BY <2>2, CandidateFacts
    <3>2. WalkUsed(r, w) \in Nat
      BY <3>1, WalkNumbers
    <3>3. WalkUsed(r, w) = 0
      BY <1>4, <2>2, <2>3, <2>6, <3>2
    <3>4. WalkCost(r, w) \in ComfortableCosts(r)
      BY <2>3, <3>3 DEF ComfortableCosts
    <3>5. legs[1].cost <= WalkCost(r, w)
      BY <1>3, <1>7, <2>1, <3>4, AnswerFacts
    <3>6. legs[1].cost \in Nat
      <4>1. r.budgetM \in Nat  BY <1>3, <1>6
      <4>2. legs[1] \in AnswerType  BY <1>3, <1>7, <4>1, AnswerTyped
      <4> QED  BY <4>2 DEF AnswerType
    <3> QED  BY <1>10, <1>11, <2>2, <3>5, <3>6
  <2> QED  BY <2>4, <2>5, <2>6
<1> QED  BY <1>11, <1>12 DEF p, r

LEMMA BeginStep == PlanInv /\ BeginAlternatives => PlanInv'
<1> SUFFICES ASSUME PlanInv, BeginAlternatives PROVE PlanInv'
  OBVIOUS
<1>1. /\ Shapes /\ Progress /\ Hunting /\ LegsFound /\ BaseFound /\ Drawn /\ Hunted /\ Reported
  BY DEF PlanInv
<1>2. /\ phase = "alternatives" /\ phase' = phase /\ base' = base /\ plan' = plan
      /\ overlay' = overlay /\ reports' = reports
      /\ snaps' = snaps /\ hazardScores' = hazardScores /\ legs' = legs
      /\ pts' = pts /\ offs' = offs /\ routes' = legs /\ penalised' = Marked(legs[1].edges)
      /\ attempt' = attempt /\ resp' = resp
  BY DEF BeginAlternatives, world, geometry, hunt
<1>3. Len(snaps) = 2 /\ plan.alternatives > 0 /\ resp.alternatives = <<>>
      /\ Len(legs) = 1 /\ legs \in Seq(AnswerType) /\ ~Planned /\ ~(Planned')
  <2>1. Len(snaps) = 2 /\ plan.alternatives > 0 /\ resp.alternatives = <<>>
    BY <1>1, <1>2 DEF Hunting
  <2>2. Len(legs) = Len(snaps) - 1
    BY <1>1, <1>2 DEF Progress, Reached, AfterRoute
  <2>3. legs \in Seq(AnswerType) /\ ~Planned /\ ~(Planned')
    BY <1>1, <1>2 DEF Shapes, Planned
  <2> QED  BY <2>1, <2>2, <2>3
<1>4. Marked(legs[1].edges) \subseteq Edges
  <2>1. legs[1] \in AnswerType
    <3>1. Len(legs) = 1 /\ legs \in Seq(AnswerType)  BY <1>3, Zenon
    <3> QED  BY <3>1
  <2>2. legs[1].edges \in Seq(Edges)
    BY <2>1 DEF AnswerType
  <2>3. Range(legs[1].edges) \subseteq Edges
    BY <2>2 DEF Range
  <2> QED  BY <2>3 DEF Marked
<1>5. Shapes'
  BY <1>1, <1>2, <1>3, <1>4 DEF Shapes
<1>6. Progress'
  BY <1>1, <1>2, <1>3 DEF Progress, Reached, Ready, AfterSnap, AfterRoute, AfterBaseline
<1>7. Hunting' /\ Drawn'
  BY <1>1, <1>2, <1>3 DEF Hunting, Drawn, Reached, AfterGeometry
<1>8. Want \in 1 .. MaxAlternatives
  <2>1. plan.alternatives \in Int
    BY <1>1, PlansAssumption, Zenon DEF Shapes
  <2> QED  BY <1>3, <2>1, LeastWant DEF Want
<1>9. Hunted'
  <2>1. Want' = Want
    BY <1>2 DEF Want
  <2>2. 2 .. Len(routes') = {}
    BY <1>2, <1>3
  <2>3. Len(routes') <= Want + 1
    BY <1>2, <1>3, <1>8
  <2> QED  BY <1>2, <1>3, <1>8, <2>1, <2>2, <2>3 DEF Hunted
<1>10. Reported'
  <2>1. Described
    BY <1>1, <1>2 DEF Reported, Reached, AfterRespond
  <2>2. Described'
    BY <1>2, <1>3, <2>1 DEF Described
  <2> QED  BY <2>2 DEF Reported
<1> QED  BY <1>1, <1>2, <1>5, <1>6, <1>7, <1>9, <1>10, KeepsLegs, KeepsBase DEF PlanInv

\* The hunt goes on or stops with its routes as they are.
LEMMA EndLoopStep == PlanInv /\ phase = "alternatives" /\ routes # <<>> /\ EndLoop => PlanInv'
<1> SUFFICES ASSUME PlanInv, phase = "alternatives", routes # <<>>, EndLoop PROVE PlanInv'
  OBVIOUS
<1>1. /\ Shapes /\ Progress /\ Hunting /\ LegsFound /\ BaseFound /\ Drawn /\ Hunted /\ Reported
  BY DEF PlanInv
<1>2. /\ phase' = "extras" /\ base' = base /\ plan' = plan
      /\ overlay' = overlay /\ reports' = reports
      /\ snaps' = snaps /\ hazardScores' = hazardScores /\ legs' = legs
      /\ pts' = pts /\ offs' = offs /\ routes' = routes /\ penalised' = penalised
      /\ attempt' = attempt /\ resp' = resp
  BY DEF EndLoop, world, geometry
<1>3. Shapes' /\ ~(Planned')
  BY <1>1, <1>2 DEF Shapes, Phases, Planned
<1>4. Progress'
  BY <1>1, <1>2, <1>3 DEF Progress, Reached, Ready, AfterSnap, AfterRoute, AfterBaseline
<1>5. Hunting' /\ Drawn'
  BY <1>1, <1>2 DEF Hunting, Drawn, Reached, AfterGeometry
<1>6. Reported'
  <2>1. Described
    BY <1>1 DEF Reported, Reached, AfterRespond
  <2> QED  BY <1>2, <2>1, KeepsDescribed DEF Reported
<1> QED  BY <1>1, <1>2, <1>3, <1>4, <1>5, <1>6, KeepsLegs, KeepsBase, KeepsHunted DEF PlanInv

LEMMA AttemptStep == PlanInv /\ Attempt => PlanInv'
<1> SUFFICES ASSUME PlanInv, Attempt PROVE PlanInv'
  OBVIOUS
<1>1. /\ Shapes /\ Progress /\ Hunting /\ LegsFound /\ BaseFound /\ Drawn /\ Hunted /\ Reported
  BY DEF PlanInv
<1>2. /\ phase = "alternatives" /\ phase' = phase /\ base' = base /\ plan' = plan
      /\ overlay' = overlay /\ reports' = reports
      /\ snaps' = snaps /\ hazardScores' = hazardScores /\ legs' = legs
      /\ pts' = pts /\ offs' = offs /\ attempt' = attempt + 1 /\ resp' = resp
      /\ routes # <<>> /\ attempt < maxAttempts /\ Len(routes) < Want + 1
  BY DEF Attempt, Searching, world, geometry
<1>3. PICK cand \in Found :
        /\ ~TooDear(cand.cost, routes[1])
        /\ routes' = IF isDistinct(cand, routes) THEN Append(routes, cand) ELSE routes
        /\ penalised' = penalised \union Marked(cand.edges)
  BY DEF Attempt
<1>4. PICK a \in Answers(Penalise(OptsOf(1), penalised)) :
        cand = [a EXCEPT !.cost = WalkCost(OptsOf(1), a.edges)]
  BY <1>3 DEF Found
<1>5. /\ routes[1] = legs[1] /\ Len(snaps) = 2 /\ Len(legs) = 1
      /\ Want \in 1 .. MaxAlternatives /\ \A k \in 2 .. Len(routes) : Genuine(routes, k)
  BY <1>1, <1>2 DEF Hunted
<1>6. Ready /\ ~Planned /\ ~(Planned') /\ resp.alternatives = <<>>
      /\ routes \in Seq(AnswerType) /\ Len(routes) \in Nat
  BY <1>1, <1>2 DEF Progress, Shapes, Planned, Hunting
<1>7. /\ cand \in AnswerType
      /\ cand.lengthM > 0 =>
           /\ SoundAnswer(OptsOf(1), cand)
           /\ cand.usedM <= plan.profile.budgetM
           /\ plan.profile.budgetM = 0 => cand.cost >= legs[1].cost
  BY <1>1, <1>4, <1>5, <1>6, CandidateGenuine
<1>8. cand.edges \in Seq(Edges)
  BY <1>7 DEF AnswerType
<1>9. Marked(cand.edges) \subseteq Edges
  <2>1. Range(cand.edges) \subseteq Edges
    BY <1>8 DEF Range
  <2> QED  BY <2>1 DEF Marked
<1>10. routes' \in Seq(AnswerType)
  BY <1>3, <1>6, <1>7
<1>11. Shapes'
  BY <1>1, <1>2, <1>3, <1>9, <1>10 DEF Shapes, maxAttempts
<1>12. Progress'
  BY <1>1, <1>2, <1>6 DEF Progress, Reached, Ready, AfterSnap, AfterRoute, AfterBaseline
<1>13. Hunting' /\ Drawn'
  BY <1>1, <1>2, <1>6 DEF Hunting, Drawn, Reached, AfterGeometry
<1>14. Reported'
  <2>1. Described
    BY <1>1, <1>2 DEF Reported, Reached, AfterRespond
  <2>2. Described'
    BY <1>2, <1>6, <2>1 DEF Described
  <2> QED  BY <2>2 DEF Reported
<1>15. Hunted'
  <2>0. Want' = Want /\ OptsOf(1)' = OptsOf(1)
    BY <1>2 DEF Want, OptsOf
  <2>1. CASE ~isDistinct(cand, routes)
    <3>1. routes' = routes
      BY <1>3, <2>1
    <3> QED  BY <1>1, <1>2, <3>1, KeepsHunted
  <2>2. CASE isDistinct(cand, routes)
    <3>0. PICK n \in Nat : n = Len(routes) + 1
      BY <1>6
    <3>1. /\ routes' = Append(routes, cand) /\ Len(routes') = n
          /\ \A j \in 1 .. Len(routes) : routes'[j] = routes[j]
          /\ routes'[n] = cand /\ Len(routes) >= 1
      BY <1>2, <1>3, <1>6, <1>7, <2>2, <3>0
    <3>2. cand.lengthM > 0
          /\ \A j \in DOMAIN routes :
               10 * MetresOn(cand.edges, Range(routes[j].edges)) <= 7 * cand.lengthM
      BY <2>2 DEF isDistinct
    <3>3. DOMAIN routes = 1 .. Len(routes)
      BY <1>6
    <3>4. n - 1 = Len(routes)
      BY <1>6, <3>0
    <3>5. ~TooDear(cand.cost, legs[1])
      BY <1>3, <1>5
    <3>6. Genuine(routes, n)'
      <4>1. SoundAnswer(OptsOf(1), routes[n])'
        BY <1>7, <2>0, <3>1, <3>2
      <4>2. (routes[n].usedM <= plan.profile.budgetM)'
        BY <1>2, <1>7, <3>1, <3>2
      <4>3. (~TooDear(routes[n].cost, legs[1]))'
        BY <1>2, <3>1, <3>5
      <4>4. (plan.profile.budgetM = 0 => routes[n].cost >= legs[1].cost)'
        BY <1>2, <1>7, <3>1, <3>2
      <4>5. ASSUME NEW j \in 1 .. n - 1
            PROVE  10 * MetresOn(routes'[n].edges, Range(routes'[j].edges))
                     <= 7 * routes'[n].lengthM
        <5>1. j \in DOMAIN routes /\ routes'[j] = routes[j] /\ routes'[n] = cand
          BY <3>1, <3>3, <3>4
        <5> QED  BY <3>2, <5>1
      <4> QED  BY <4>1, <4>2, <4>3, <4>4, <4>5 DEF Genuine
    <3>7. ASSUME NEW k \in 2 .. Len(routes) PROVE Genuine(routes, k)'
      <4>1. Genuine(routes, k) /\ routes'[k] = routes[k]
            /\ \A j \in 1 .. k - 1 : routes'[j] = routes[j]
        BY <1>5, <1>6, <3>1
      <4> QED  BY <1>2, <2>0, <4>1 DEF Genuine
    <3>8. \A k \in 2 .. Len(routes') : k \in 2 .. Len(routes) \/ k = n
      BY <1>6, <3>1, <3>4
    <3>9. \A k \in 2 .. Len(routes') : Genuine(routes, k)'
      BY <3>6, <3>7, <3>8
    <3>10. routes'[1] = legs'[1] /\ Len(routes') <= Want' + 1
      BY <1>2, <1>5, <1>6, <2>0, <3>1, <3>4
    <3> QED  BY <1>2, <1>5, <2>0, <3>9, <3>10 DEF Hunted
  <2> QED  BY <2>1, <2>2
<1> QED  BY <1>1, <1>2, <1>11, <1>12, <1>13, <1>14, <1>15, KeepsLegs, KeepsBase DEF PlanInv

LEMMA AttachStep == PlanInv /\ Attach => PlanInv'
<1> SUFFICES ASSUME PlanInv, Attach PROVE PlanInv'
  OBVIOUS
<1>1. /\ Shapes /\ Progress /\ Hunting /\ LegsFound /\ BaseFound /\ Drawn /\ Hunted /\ Reported
  BY DEF PlanInv
<1> DEFINE alts == resp.alternatives
           k == Len(alts) + 2
<1>2. /\ phase = "extras" /\ base' = base /\ plan' = plan
      /\ overlay' = overlay /\ reports' = reports
      /\ snaps' = snaps /\ hazardScores' = hazardScores /\ legs' = legs
      /\ pts' = pts /\ offs' = offs /\ routes' = routes /\ penalised' = penalised
      /\ attempt' = attempt
  BY DEF Attach, world, geometry, hunt
<1>3. IF k <= Len(routes)
      THEN resp' = [resp EXCEPT !.alternatives = Append(@, routes[k])] /\ phase' = phase
      ELSE phase' = "finish" /\ resp' = resp
  BY DEF Attach
<1>4. Described
  BY <1>1, <1>2 DEF Reported, Reached, AfterRespond
<1>5. CASE k <= Len(routes)
  <2>1. resp' = [resp EXCEPT !.alternatives = Append(alts, routes[k])] /\ phase' = "extras"
    BY <1>2, <1>3, <1>5
  <2>2. /\ resp'.edges = resp.edges /\ resp'.lengthM = resp.lengthM
        /\ resp'.cost = resp.cost /\ resp'.usedM = resp.usedM /\ resp'.breakdown = resp.breakdown
        /\ resp'.segments = resp.segments /\ resp'.baseM = resp.baseM
        /\ resp'.status = resp.status /\ resp'.warned = resp.warned
        /\ resp'.alternatives = Append(alts, routes[k]) /\ resp' = Fields(resp')
    <3>1. resp = Fields(resp)
      BY <1>1 DEF Shapes
    <3> QED  BY <2>1, <3>1 DEF Fields
  <2>3. alts \in Seq(AnswerType) /\ Len(alts) \in Nat /\ routes \in Seq(AnswerType)
        /\ Len(routes) \in Nat
    BY <1>1 DEF Shapes
  <2>4. k \in 1 .. Len(routes)
    BY <1>5, <2>3
  <2>5. routes[k] \in AnswerType
    BY <2>3, <2>4
  <2>6. /\ resp'.alternatives \in Seq(AnswerType) /\ Len(resp'.alternatives) = Len(alts) + 1
        /\ \A i \in 1 .. Len(alts) : resp'.alternatives[i] = alts[i]
        /\ resp'.alternatives[Len(alts) + 1] = routes[k]
    BY <2>2, <2>3, <2>5
  <2>7. Shapes' /\ ~(Planned')
    BY <1>1, <1>2, <2>1, <2>2, <2>6 DEF Shapes, Planned
  <2>8. Progress'
    BY <1>1, <1>2, <2>1, <2>7 DEF Progress, Reached, Ready, AfterSnap, AfterRoute, AfterBaseline
  <2>9. Hunting' /\ Drawn'
    BY <1>1, <1>2, <2>1 DEF Hunting, Drawn, Reached, AfterGeometry
  <2>10. /\ Len(resp'.alternatives) < Len(routes)
         /\ \A i \in 1 .. Len(resp'.alternatives) : resp'.alternatives[i] = routes[i + 1]
    <3>1. \A i \in 1 .. Len(alts) : alts[i] = routes[i + 1]
      BY <1>4 DEF Described
    <3>2. Len(resp'.alternatives) < Len(routes)
      BY <1>5, <2>3, <2>6
    <3>3. ASSUME NEW i \in 1 .. Len(resp'.alternatives)
          PROVE  resp'.alternatives[i] = routes[i + 1]
      <4>1. CASE i \in 1 .. Len(alts)  BY <2>6, <3>1, <4>1
      <4>2. CASE i = Len(alts) + 1
        <5>1. i + 1 = k  BY <2>3, <4>2
        <5>2. resp'.alternatives[i] = routes[k]  BY <2>6, <4>2
        <5> HIDE DEF k
        <5> QED  BY <5>1, <5>2
      <4> QED  BY <2>3, <2>6, <4>1, <4>2
    <3> QED  BY <3>2, <3>3
  <2>11. Described'
    BY <1>2, <1>4, <2>2, <2>10 DEF Described
  <2> QED  BY <1>1, <1>2, <2>7, <2>8, <2>9, <2>11, KeepsLegs, KeepsBase, KeepsHunted
              DEF PlanInv, Reported
<1>6. CASE ~(k <= Len(routes))
  <2>1. phase' = "finish" /\ resp' = resp
    BY <1>3, <1>6
  <2>2. Shapes' /\ ~(Planned')
    BY <1>1, <1>2, <2>1 DEF Shapes, Phases, Planned
  <2>3. Progress'
    BY <1>1, <1>2, <2>1, <2>2 DEF Progress, Reached, Ready, AfterSnap, AfterRoute, AfterBaseline
  <2>4. Hunting' /\ Drawn'
    BY <1>1, <1>2, <2>1 DEF Hunting, Drawn, Reached, AfterGeometry
  <2>5. Described'
    BY <1>2, <1>4, <2>1, KeepsDescribed
  <2> QED  BY <1>1, <1>2, <2>2, <2>3, <2>4, <2>5, KeepsLegs, KeepsBase, KeepsHunted
              DEF PlanInv, Reported
<1> QED  BY <1>5, <1>6

\* A logged error, and the answer itself.
LEMMA FinishSteps == PlanInv /\ (AttachFails \/ Answer) => PlanInv'
<1> SUFFICES ASSUME PlanInv, AttachFails \/ Answer PROVE PlanInv'
  OBVIOUS
<1>1. /\ Shapes /\ Progress /\ Hunting /\ LegsFound /\ BaseFound /\ Drawn /\ Hunted /\ Reported
  BY DEF PlanInv
<1>2. /\ phase \in AfterRespond /\ phase # "alternatives" /\ base' = base /\ plan' = plan
      /\ overlay' = overlay /\ reports' = reports
      /\ snaps' = snaps /\ hazardScores' = hazardScores /\ legs' = legs
      /\ pts' = pts /\ offs' = offs /\ routes' = routes /\ penalised' = penalised
      /\ attempt' = attempt
      /\ \/ phase' = "finish" /\ resp' = resp
         \/ phase' = "answered" /\ resp' = [resp EXCEPT !.status = 200]
  BY DEF AttachFails, Answer, AfterRespond, world, geometry, hunt
<1>3. /\ resp'.edges = resp.edges /\ resp'.lengthM = resp.lengthM
      /\ resp'.cost = resp.cost /\ resp'.usedM = resp.usedM /\ resp'.breakdown = resp.breakdown
      /\ resp'.segments = resp.segments /\ resp'.baseM = resp.baseM
      /\ resp'.alternatives = resp.alternatives /\ resp' = Fields(resp')
      /\ \/ resp'.status = resp.status /\ phase' = "finish"
         \/ resp'.status = 200 /\ phase' = "answered"
  <2>1. resp = Fields(resp)
    BY <1>1 DEF Shapes
  <2>2. CASE phase' = "finish" /\ resp' = resp
    <3>1. resp' = Fields(resp')  BY <2>1, <2>2, Zenon
    <3> QED  BY <2>2, <3>1
  <2>3. CASE phase' = "answered" /\ resp' = [resp EXCEPT !.status = 200]
    <3>1. resp' = [Fields(resp) EXCEPT !.status = 200]  BY <2>1, <2>3
    <3> QED  BY ZenonT(30), <2>3, <3>1 DEF Fields
  <2> QED  BY <1>2, <2>2, <2>3
<1>4. Ready /\ Ready' /\ phase # "answered"
  BY <1>1, <1>2 DEF Progress, Ready, AfterRespond
<1>5. Shapes'
  BY <1>1, <1>2, <1>3, <1>4 DEF Shapes, Phases
<1>6. Progress'
  BY <1>1, <1>2, <1>4 DEF Progress, Reached, AfterSnap, AfterRoute, AfterBaseline, AfterRespond
<1>7. Hunting' /\ Drawn'
  BY <1>1, <1>2 DEF Hunting, Drawn, Reached, AfterGeometry, AfterRespond
<1>8. Described'
  <2>1. Described
    BY <1>1, <1>2 DEF Reported, Reached
  <2> QED  BY <1>2, <1>3, <2>1, KeepsDescribed
<1> QED  BY <1>1, <1>2, <1>5, <1>6, <1>7, <1>8, KeepsLegs, KeepsBase, KeepsHunted
            DEF PlanInv, Reported

LEMMA ReportStep == PlanInv /\ ReportLands => PlanInv'
<1> SUFFICES ASSUME PlanInv, ReportLands PROVE PlanInv'
  OBVIOUS
<1>1. /\ Shapes /\ Progress /\ Hunting /\ LegsFound /\ BaseFound /\ Drawn /\ Hunted /\ Reported
  BY DEF PlanInv
<1>2. /\ phase' = phase /\ base' = base /\ plan' = plan /\ reports < MaxReports
      /\ reports' = reports + 1
      /\ snaps' = snaps /\ hazardScores' = hazardScores /\ legs' = legs
      /\ pts' = pts /\ offs' = offs /\ routes' = routes /\ penalised' = penalised
      /\ attempt' = attempt /\ resp' = resp
  BY DEF ReportLands, geometry, hunt
<1>3. PICK e \in Reportable : overlay' = overlay \union {e}
  BY DEF ReportLands
<1>4. MaxReports \in Nat /\ overlay' \subseteq Edges
  BY <1>1, <1>3, AttributesAssumption DEF Shapes
<1>5. Shapes'
  BY <1>1, <1>2, <1>4 DEF Shapes
<1>6. Planned' = Planned
  BY <1>2 DEF Planned
<1>7. Progress'
  BY <1>1, <1>2, <1>6 DEF Progress, Reached, Ready
<1>8. Hunting' /\ Drawn'
  BY <1>1, <1>2, <1>6 DEF Hunting, Drawn, Reached
<1>9. Reported'
  BY <1>1, <1>2, <1>6, KeepsDescribed DEF Reported, Reached
<1> QED  BY <1>1, <1>2, <1>5, <1>7, <1>8, <1>9, KeepsLegs, KeepsBase, KeepsHunted DEF PlanInv

LEMMA StutterStep == PlanInv /\ UNCHANGED vars => PlanInv'
<1> SUFFICES ASSUME PlanInv, UNCHANGED vars PROVE PlanInv'
  OBVIOUS
<1>1. /\ Shapes /\ Progress /\ Hunting /\ LegsFound /\ BaseFound /\ Drawn /\ Hunted /\ Reported
  BY DEF PlanInv
<1>2. /\ phase' = phase /\ base' = base /\ plan' = plan /\ reports' = reports
      /\ overlay' = overlay
      /\ snaps' = snaps /\ hazardScores' = hazardScores /\ legs' = legs
      /\ pts' = pts /\ offs' = offs /\ routes' = routes /\ penalised' = penalised
      /\ attempt' = attempt /\ resp' = resp
  BY DEF vars
<1>3. Shapes' /\ Planned' = Planned
  BY <1>1, <1>2 DEF Shapes, Planned
<1>4. Progress'
  BY <1>1, <1>2, <1>3 DEF Progress, Reached, Ready
<1>5. Hunting' /\ Drawn'
  BY <1>1, <1>2, <1>3 DEF Hunting, Drawn, Reached
<1>6. Reported'
  BY <1>1, <1>2, <1>3, KeepsDescribed DEF Reported, Reached
<1> QED  BY <1>1, <1>2, <1>3, <1>4, <1>5, <1>6, KeepsLegs, KeepsBase, KeepsHunted DEF PlanInv

LEMMA StepInv == PlanInv /\ [Next]_vars => PlanInv'
<1> SUFFICES ASSUME PlanInv, [Next]_vars PROVE PlanInv'
  OBVIOUS
<1>1. CASE Receive  BY <1>1, ReceiveStep
<1>2. CASE SnapFails
  BY <1>2, RefuseKeeps DEF SnapFails, world, geometry, hunt
<1>3. CASE SnapNext  BY <1>3, SnapStep
<1>4. CASE TakeSnapshot  BY <1>4, SnapshotStep
<1>5. CASE RouteLegFails
  BY <1>5, RefuseKeeps DEF RouteLegFails, world, geometry, hunt
<1>6. CASE RouteLeg  BY <1>6, RouteLegStep
<1>7. CASE RouteBaselineFails  BY <1>7, BaselineFailsStep
<1>8. CASE RouteBaseline  BY <1>8, BaselineStep
<1>9. CASE FetchGeometryFails
  BY <1>9, RefuseKeeps DEF FetchGeometryFails, world, geometry, hunt
<1>10. CASE FetchGeometry  BY <1>10, GeometryStep
<1>11. CASE Respond  BY <1>11, RespondStep
<1>12. CASE BeginAlternatives  BY <1>12, BeginStep
<1>13. CASE AttemptFails  BY <1>13, EndLoopStep DEF AttemptFails, Searching
<1>14. CASE Attempt  BY <1>14, AttemptStep
<1>15. CASE AttemptTooDear  BY <1>15, EndLoopStep DEF AttemptTooDear, Searching
<1>16. CASE Enough  BY <1>16, EndLoopStep DEF Enough
<1>17. CASE AttachFails  BY <1>17, FinishSteps
<1>18. CASE Attach  BY <1>18, AttachStep
<1>19. CASE Answer  BY <1>19, FinishSteps
<1>20. CASE ReportLands  BY <1>20, ReportStep
<1>21. CASE Answered  BY <1>21, StutterStep DEF Answered
<1>22. CASE UNCHANGED vars  BY <1>22, StutterStep
<1> QED
  BY <1>1, <1>2, <1>3, <1>4, <1>5, <1>6, <1>7, <1>8, <1>9, <1>10, <1>11, <1>12, <1>13,
     <1>14, <1>15, <1>16, <1>17, <1>18, <1>19, <1>20, <1>21, <1>22 DEF Next, Handler

(* Whatever is reported and whichever query fails while a request is       *)
(* served, each phase of handleRoutePlan finds what the phases before it   *)
(* left.                                                                   *)
THEOREM PlanInvariant == Spec => []PlanInv
<1>1. Init => PlanInv  BY InitInv
<1>2. PlanInv /\ [Next]_vars => PlanInv'  BY StepInv
<1> QED  BY <1>1, <1>2, PTL DEF Spec

-----------------------------------------------------------------------------
(* The legs put together.                                                  *)

Joining(g, s, k) == [i \in 1 .. k |-> IF i = 1 THEN s[i] ELSE g[i - 1] \o s[i]]

LEMMA FlattenUnfolds ==
  ASSUME NEW s, Len(s) \in Nat \ {0}
  PROVE  \E g : /\ g[1] = s[1] /\ \A i \in 2 .. Len(s) : g[i] = g[i - 1] \o s[i]
                /\ FlattenSeq(s) = g[Len(s)]
<1> DEFINE T == {k \in Nat : \E g : g = Joining(g, s, k)}
<1>1. 0 \in T
  <2> DEFINE g == [i \in 1 .. 0 |-> <<>>]
  <2>1. g = Joining(g, s, 0)
    BY DEF Joining
  <2> HIDE DEF g
  <2> QED  BY <2>1
<1>2. ASSUME NEW k \in T PROVE k + 1 \in T
  <2>1. PICK g : g = Joining(g, s, k)
    OBVIOUS
  <2> DEFINE h == [i \in 1 .. k + 1 |-> IF i \in 1 .. k THEN g[i]
                                        ELSE IF i = 1 THEN s[i] ELSE g[i - 1] \o s[i]]
  <2>2. ASSUME NEW i \in 1 .. k + 1
        PROVE  h[i] = IF i = 1 THEN s[i] ELSE h[i - 1] \o s[i]
    <3>1. h[i] = IF i \in 1 .. k THEN g[i] ELSE IF i = 1 THEN s[i] ELSE g[i - 1] \o s[i]
      OBVIOUS
    <3>2. i = 1 \/ (i - 1 \in 1 .. k /\ i - 1 \in 1 .. k + 1)
      OBVIOUS
    <3>3. i - 1 \in 1 .. k => h[i - 1] = g[i - 1]
      OBVIOUS
    <3>4. i \in 1 .. k => g[i] = IF i = 1 THEN s[i] ELSE g[i - 1] \o s[i]
      BY <2>1 DEF Joining
    <3> HIDE DEF h
    <3> QED  BY <3>1, <3>2, <3>3, <3>4
  <2>3. h = [i \in 1 .. k + 1 |-> h[i]]
    OBVIOUS
  <2> HIDE DEF h
  <2>4. h = Joining(h, s, k + 1)
    BY <2>2, <2>3 DEF Joining
  <2> QED  BY <2>4
<1> HIDE DEF T
<1>3. T = Nat  BY <1>1, <1>2, Induct DEF T
<1>4. Len(s) \in T  BY <1>3
<1> DEFINE f == CHOOSE g : g = [i \in 1 .. Len(s) |-> IF i = 1 THEN s[i] ELSE g[i - 1] \o s[i]]
<1>5. f = [i \in 1 .. Len(s) |-> IF i = 1 THEN s[i] ELSE f[i - 1] \o s[i]]
  <2>1. \E g : g = [i \in 1 .. Len(s) |-> IF i = 1 THEN s[i] ELSE g[i - 1] \o s[i]]
    BY <1>4 DEF T, Joining
  <2> QED  BY <2>1
<1>6. FlattenSeq(s) = f[Len(s)]
  BY DEF FlattenSeq
<1> HIDE DEF f
<1>7. f[1] = s[1] /\ \A i \in 2 .. Len(s) : f[i] = f[i - 1] \o s[i]
  <2>1. 1 \in 1 .. Len(s) /\ \A i \in 2 .. Len(s) : i \in 1 .. Len(s) /\ i # 1
    OBVIOUS
  <2> QED  BY <1>5, <2>1
<1> QED  BY <1>6, <1>7

LEMMA NoEdges == ASSUME NEW ls, Len(ls) = 0 PROVE AllEdges(ls) = <<>>
<1> DEFINE s == [i \in 1 .. Len(ls) |-> ls[i].edges]
<1>1. Len(s) = 0 /\ s = <<>>
  OBVIOUS
<1> HIDE DEF s
<1>2. FlattenSeq(s) = s
  BY <1>1 DEF FlattenSeq
<1> QED  BY <1>1, <1>2 DEF AllEdges, s

LEMMA OneLeg == ASSUME NEW ls, Len(ls) = 1 PROVE AllEdges(ls) = ls[1].edges
<1> DEFINE s == [i \in 1 .. Len(ls) |-> ls[i].edges]
<1>1. Len(s) = 1 /\ s[1] = ls[1].edges
  OBVIOUS
<1> HIDE DEF s
<1>2. FlattenSeq(s) = s[1]
  <2>1. Len(s) \in Nat \ {0}  BY <1>1
  <2> QED  BY <1>1, <2>1, FlattenUnfolds
<1> QED  BY <1>1, <1>2 DEF AllEdges, s

LEMMA MoreEdges ==
  ASSUME NEW ls, NEW ms, Len(ls) \in Nat, Len(ms) = Len(ls) + 1,
         \A i \in 1 .. Len(ls) : ms[i] = ls[i], ms[Len(ms)].edges \in Seq(Edges)
  PROVE  AllEdges(ms) = AllEdges(ls) \o ms[Len(ms)].edges
<1>1. CASE Len(ls) = 0
  <2>1. AllEdges(ls) = <<>> /\ AllEdges(ms) = ms[1].edges /\ Len(ms) = 1
    BY <1>1, NoEdges, OneLeg
  <2>2. \A w \in Seq(Edges) : <<>> \o w = w
    OBVIOUS
  <2> QED  BY <2>1, <2>2
<1>2. CASE Len(ls) # 0
  <2> DEFINE s == [i \in 1 .. Len(ls) |-> ls[i].edges]
             t == [i \in 1 .. Len(ms) |-> ms[i].edges]
             n == Len(ls)
  <2>1. Len(s) = n /\ Len(t) = n + 1 /\ \A i \in 1 .. n : t[i] = s[i]
    OBVIOUS
  <2>2. t[n + 1] = ms[Len(ms)].edges
    OBVIOUS
  <2>3. n \in Nat \ {0}
    BY <1>2
  <2> HIDE DEF s, t, n
  <2>4. PICK g : /\ g[1] = s[1] /\ \A i \in 2 .. n : g[i] = g[i - 1] \o s[i]
                 /\ FlattenSeq(s) = g[n]
    BY <2>1, <2>3, FlattenUnfolds
  <2>5. PICK h : /\ h[1] = t[1] /\ \A i \in 2 .. n + 1 : h[i] = h[i - 1] \o t[i]
                 /\ FlattenSeq(t) = h[n + 1]
    <3>1. Len(t) \in Nat \ {0}  BY <2>1, <2>3
    <3> QED  BY ZenonT(30), <2>1, <3>1, FlattenUnfolds
  <2> DEFINE T == {i \in Nat : i + 1 <= n => h[i + 1] = g[i + 1]}
  <2>6. 0 \in T
    BY <2>1, <2>3, <2>4, <2>5
  <2>7. ASSUME NEW i \in T PROVE i + 1 \in T
    <3> SUFFICES ASSUME (i + 1) + 1 <= n PROVE h[(i + 1) + 1] = g[(i + 1) + 1]
      OBVIOUS
    <3>1. h[i + 1] = g[i + 1]
      BY <2>3
    <3>2. (i + 1) + 1 \in 2 .. n /\ (i + 1) + 1 \in 2 .. n + 1 /\ ((i + 1) + 1) - 1 = i + 1
          /\ (i + 1) + 1 \in 1 .. n
      BY <2>3
    <3> DEFINE m == (i + 1) + 1
    <3>3. h[m] = h[m - 1] \o t[m] /\ g[m] = g[m - 1] \o s[m] /\ t[m] = s[m]
      BY <2>1, <2>4, <2>5, <3>2, Zenon
    <3> QED  BY <3>1, <3>2, <3>3, Zenon
  <2> HIDE DEF T
  <2>8. T = Nat  BY <2>6, <2>7, Induct DEF T
  <2>9. h[n] = g[n]
    <3>1. n - 1 \in T /\ (n - 1) + 1 = n  BY <2>3, <2>8
    <3> QED  BY <2>3, <3>1 DEF T
  <2>10. n + 1 \in 2 .. n + 1 /\ (n + 1) - 1 = n
    BY <2>3
  <2>11. h[n + 1] = h[n] \o t[n + 1]
    BY <2>5, <2>10
  <2>12. FlattenSeq(t) = FlattenSeq(s) \o t[n + 1]
    BY <2>4, <2>5, <2>9, <2>11
  <2> QED  BY <2>2, <2>12 DEF AllEdges, s, t
<1> QED  BY <1>1, <1>2

LEMMA OneCost ==
  ASSUME NEW ls \in Seq(AnswerType), Len(ls) = 1
  PROVE  Cost(ls) = ls[1].cost
<1> DEFINE s == [i \in 1 .. Len(ls) |-> ls[i].cost]
<1>1. ls[1] \in AnswerType
  OBVIOUS
<1>2. ls[1].cost \in Int
  BY <1>1 DEF AnswerType
<1>3. Len(s) = 1 /\ s[1] = ls[1].cost
  OBVIOUS
<1> HIDE DEF s
<1>4. SumUp(s) = s[1]
  BY <1>2, <1>3, SumOne
<1> QED  BY <1>3, <1>4 DEF Cost, s

\* w leads from n to m.
Leads(w, n, m) ==
  /\ w \in Seq(Edges) /\ IsWalk(w)
  /\ IF w = <<>> THEN n = m ELSE From[w[1]] = n /\ To[Last(w)] = m

LEMMA LeadsNowhere == \A n : Leads(<<>>, n, n)
BY DEF Leads, IsWalk

LEMMA LeadsOn ==
  ASSUME NEW a, NEW b, NEW c, NEW v, NEW w, Leads(v, a, b), Leads(w, b, c)
  PROVE  Leads(v \o w, a, c)
<1> DEFINE u == v \o w
<1>1. v \in Seq(Edges) /\ w \in Seq(Edges) /\ Len(v) \in Nat /\ Len(w) \in Nat
  BY DEF Leads
<1>2. /\ u \in Seq(Edges) /\ Len(u) = Len(v) + Len(w)
      /\ \A i \in 1 .. Len(v) : u[i] = v[i]
      /\ \A i \in Len(v) + 1 .. Len(v) + Len(w) : u[i] = w[i - Len(v)]
  BY <1>1
<1>3. (v = <<>> => u = w) /\ (w = <<>> => u = v)
  BY <1>1
<1> HIDE DEF u
<1>4. CASE v = <<>> \/ w = <<>>
  <2>1. CASE v = <<>>
    <3>1. u = w /\ a = b  BY <1>3, <2>1 DEF Leads
    <3> QED  BY <3>1 DEF u
  <2>2. CASE w = <<>>
    <3>1. u = v /\ b = c  BY <1>3, <2>2 DEF Leads
    <3> QED  BY <3>1 DEF u
  <2> QED  BY <1>4, <2>1, <2>2
<1>5. CASE v # <<>> /\ w # <<>>
  <2>1. Len(v) >= 1 /\ Len(w) >= 1
    BY <1>1, <1>5
  <2>2. u[1] = v[1] /\ u[Len(u)] = w[Len(w)] /\ u[Len(v)] = v[Len(v)]
        /\ u[Len(v) + 1] = w[1] /\ u # <<>>
    <3>1. /\ 1 \in 1 .. Len(v) /\ Len(v) \in 1 .. Len(v)
          /\ Len(u) \in Len(v) + 1 .. Len(v) + Len(w) /\ Len(u) - Len(v) = Len(w)
          /\ Len(v) + 1 \in Len(v) + 1 .. Len(v) + Len(w) /\ (Len(v) + 1) - Len(v) = 1
      BY <1>1, <1>2, <2>1
    <3>2. u[1] = v[1] /\ u[Len(v)] = v[Len(v)]
      BY <1>2, <3>1
    <3>3. u[Len(u)] = w[Len(u) - Len(v)] /\ u[Len(v) + 1] = w[(Len(v) + 1) - Len(v)]
      BY <1>2, <3>1
    <3>4. u # <<>>
      BY <1>1, <1>2, <2>1
    <3> QED  BY <3>1, <3>2, <3>3, <3>4
  <2>3. From[v[1]] = a /\ To[v[Len(v)]] = b /\ From[w[1]] = b /\ To[w[Len(w)]] = c
    BY <1>5 DEF Leads, Last
  <2>4. ASSUME NEW i \in 1 .. Len(u) - 1 PROVE To[u[i]] = From[u[i + 1]]
    <3>1. CASE i < Len(v)
      <4>1. i \in 1 .. Len(v) /\ i + 1 \in 1 .. Len(v) /\ i \in 1 .. Len(v) - 1
        BY <1>1, <1>2, <3>1
      <4>2. To[v[i]] = From[v[i + 1]]
        BY <4>1 DEF Leads, IsWalk
      <4> QED  BY <1>2, <4>1, <4>2
    <3>2. CASE i = Len(v)
      BY <2>2, <2>3, <3>2
    <3>3. CASE i > Len(v)
      <4>1. /\ i \in Len(v) + 1 .. Len(v) + Len(w)
            /\ i + 1 \in Len(v) + 1 .. Len(v) + Len(w)
            /\ i - Len(v) \in 1 .. Len(w) - 1
            /\ (i + 1) - Len(v) = (i - Len(v)) + 1
        BY <1>1, <1>2, <3>3
      <4>2. To[w[i - Len(v)]] = From[w[(i - Len(v)) + 1]]
        BY <4>1 DEF Leads, IsWalk
      <4>3. u[i] = w[i - Len(v)] /\ u[i + 1] = w[(i + 1) - Len(v)]
        BY <1>2, <4>1
      <4> QED  BY <4>1, <4>2, <4>3
    <3> QED  BY <1>1, <3>1, <3>2, <3>3
  <2>5. From[u[1]] = a /\ To[Last(u)] = c
    BY <2>2, <2>3 DEF Last
  <2>6. IsWalk(u)
    BY <2>4 DEF IsWalk
  <2>7. Leads(u, a, c)
    BY <1>2, <2>2, <2>5, <2>6 DEF Leads
  <2> QED  BY <2>7 DEF u
<1> QED  BY <1>4, <1>5

LEMMA AnswerLeads ==
  ASSUME NEW r, Sensible(r), r.budgetM \in Nat, NEW a \in Answers(r)
  PROVE  Leads(a.edges, r.start, r.goal)
<1>1. CASE r.start = r.goal /\ a = Bare("path")
  <2>1. a.edges = <<>>
    BY <1>1 DEF Bare, NoResult
  <2> QED  BY <1>1, <2>1, LeadsNowhere
<1>2. CASE r.start # r.goal
  <2>1. PICK w \in Candidates(r) : a.edges = w
    BY <1>2, AnswerFacts
  <2>2. /\ Len(w) \in Nat \ {0} /\ w \in Seq(Edges) /\ SimpleWalk(w, Len(w))
        /\ From[w[1]] = r.start /\ To[Last(w)] = r.goal
    BY CandidateFacts
  <2>3. w # <<>>
    BY <2>2
  <2> QED  BY <2>1, <2>2, <2>3 DEF Leads, IsWalk, SimpleWalk
<1> QED  BY <1>1, <1>2, AnswerFacts

\* The first k legs.
Upto(ls, k) == SubSeq(ls, 1, k)

LEMMA UptoFacts ==
  ASSUME NEW ls \in Seq(AnswerType), NEW k \in 0 .. Len(ls)
  PROVE  /\ Upto(ls, k) \in Seq(AnswerType) /\ Len(Upto(ls, k)) = k
         /\ \A i \in 1 .. k : Upto(ls, k)[i] = ls[i]
         /\ Upto(ls, Len(ls)) = ls
BY DEF Upto

LEMMA UptoNext ==
  ASSUME NEW ls \in Seq(AnswerType), NEW k \in Nat, k + 1 <= Len(ls)
  PROVE  /\ AllEdges(Upto(ls, k + 1)) = AllEdges(Upto(ls, k)) \o ls[k + 1].edges
         /\ ls[k + 1] \in AnswerType
<1>1. k \in 0 .. Len(ls) /\ k + 1 \in 0 .. Len(ls) /\ k + 1 \in 1 .. Len(ls)
  OBVIOUS
<1> DEFINE s == Upto(ls, k)
           t == Upto(ls, k + 1)
<1>2. /\ Len(s) = k /\ Len(t) = k + 1 /\ \A i \in 1 .. k : s[i] = ls[i]
      /\ \A i \in 1 .. k + 1 : t[i] = ls[i]
  BY <1>1, UptoFacts
<1>3. ls[k + 1] \in AnswerType
  BY <1>1
<1>4. ls[k + 1].edges \in Seq(Edges)
  BY <1>3 DEF AnswerType
<1> HIDE DEF s, t
<1>5. \A i \in 1 .. Len(s) : t[i] = s[i]
  BY <1>1, <1>2
<1>6. t[Len(t)] = ls[k + 1]
  BY <1>1, <1>2
<1>7. AllEdges(t) = AllEdges(s) \o t[Len(t)].edges
  BY <1>2, <1>4, <1>5, <1>6, MoreEdges
<1> QED  BY <1>3, <1>6, <1>7 DEF s, t

\* Legs that meet make one walk.
LEMMA Chained ==
  ASSUME NEW ls \in Seq(AnswerType), NEW at,
         \A i \in 1 .. Len(ls) : Leads(ls[i].edges, at[i], at[i + 1])
  PROVE  \A k \in 0 .. Len(ls) : Leads(AllEdges(Upto(ls, k)), at[1], at[k + 1])
<1> DEFINE T == {k \in Nat : k <= Len(ls) => Leads(AllEdges(Upto(ls, k)), at[1], at[k + 1])}
<1>1. 0 \in T
  <2>1. Len(Upto(ls, 0)) = 0
    BY UptoFacts
  <2>2. AllEdges(Upto(ls, 0)) = <<>>
    BY <2>1, NoEdges
  <2>3. Leads(<<>>, at[1], at[0 + 1])
    BY LeadsNowhere
  <2> QED  BY <2>2, <2>3
<1>2. ASSUME NEW k \in T PROVE k + 1 \in T
  <2> SUFFICES ASSUME k + 1 <= Len(ls)
               PROVE  Leads(AllEdges(Upto(ls, k + 1)), at[1], at[(k + 1) + 1])
    OBVIOUS
  <2>1. Leads(AllEdges(Upto(ls, k)), at[1], at[k + 1])
    OBVIOUS
  <2>2. k + 1 \in 1 .. Len(ls)
    OBVIOUS
  <2>3. AllEdges(Upto(ls, k + 1)) = AllEdges(Upto(ls, k)) \o ls[k + 1].edges
    BY UptoNext
  <2> QED  BY <2>1, <2>2, <2>3, LeadsOn
<1> HIDE DEF T
<1>3. T = Nat  BY <1>1, <1>2, Induct DEF T
<1> QED  BY <1>3 DEF T

\* The legs of a plan meet at its waypoints, and so do those of its baseline.
LEMMA LegsLead ==
  ASSUME Shapes, LegsFound, Valid(plan.profile)
  PROVE  \A i \in 1 .. Len(legs) : Leads(legs[i].edges, snaps[i], snaps[i + 1])
<1> SUFFICES ASSUME NEW i \in 1 .. Len(legs)
             PROVE  Leads(legs[i].edges, snaps[i], snaps[i + 1])
  OBVIOUS
<1> DEFINE r == OptsOf(i)
<1>1. legs[i] \in Answers(r)
  BY DEF LegsFound
<1>2. Sensible(r) /\ r.budgetM \in Nat /\ r.start = snaps[i] /\ r.goal = snaps[i + 1]
  BY LegSensible DEF OptsOf
<1> HIDE DEF r
<1> QED  BY <1>1, <1>2, AnswerLeads

LEMMA BaseLeads ==
  ASSUME Shapes, BaseFound
  PROVE  \A i \in 1 .. Len(base) : Leads(base[i].edges, snaps[i], snaps[i + 1])
<1> SUFFICES ASSUME NEW i \in 1 .. Len(base)
             PROVE  Leads(base[i].edges, snaps[i], snaps[i + 1])
  OBVIOUS
<1> DEFINE r == BaselineOpts(i)
<1>1. base[i] \in Answers(r)
  BY DEF BaseFound
<1>2. Sensible(r) /\ r.budgetM \in Nat /\ r.start = snaps[i] /\ r.goal = snaps[i + 1]
  BY BaselineSensible DEF BaselineOpts
<1> HIDE DEF r
<1> QED  BY <1>1, <1>2, AnswerLeads

LEMMA SumConcat ==
  ASSUME NEW s \in Seq(Nat), NEW t \in Seq(Nat)
  PROVE  SumUp(s \o t) = SumUp(s) + SumUp(t)
<1> DEFINE u == s \o t
           F(k) == [i \in 1 .. Len(s) + k |-> u[i]]
           H(k) == [i \in 1 .. k |-> t[i]]
           T == {k \in Nat : k <= Len(t) => SumUp(F(k)) = SumUp(s) + SumUp(H(k))}
<1>1. /\ Len(s) \in Nat /\ Len(t) \in Nat /\ Len(u) = Len(s) + Len(t) /\ u \in Seq(Nat)
      /\ \A i \in 1 .. Len(s) : u[i] = s[i]
      /\ \A i \in 1 .. Len(t) : u[Len(s) + i] = t[i]
      /\ \A i \in 1 .. Len(t) : t[i] \in Nat
      /\ \A i \in 1 .. Len(s) : s[i] \in Nat
  OBVIOUS
<1> HIDE DEF u
<1>2. 0 \in T
  <2>1. F(0) = s
    BY <1>1
  <2>2. Len(H(0)) = 0
    OBVIOUS
  <2> HIDE DEF F, H
  <2>3. SumUp(H(0)) = 0
    BY <2>2, SumEmpty
  <2>4. SumUp(s) \in Nat
    BY <1>1, SumNat
  <2> QED  BY <2>1, <2>3, <2>4
<1>3. ASSUME NEW k \in T PROVE k + 1 \in T
  <2> SUFFICES ASSUME k + 1 <= Len(t) PROVE SumUp(F(k + 1)) = SumUp(s) + SumUp(H(k + 1))
    OBVIOUS
  <2>1. SumUp(F(k)) = SumUp(s) + SumUp(H(k)) /\ k \in Nat
    BY <1>1
  <2>2. /\ Len(F(k)) = Len(s) + k /\ Len(F(k + 1)) = (Len(s) + k) + 1
        /\ \A i \in 1 .. Len(s) + k : F(k + 1)[i] = F(k)[i]
        /\ F(k + 1)[(Len(s) + k) + 1] = u[(Len(s) + k) + 1]
    BY SMTT(30), <1>1
  <2>3. /\ Len(H(k)) = k /\ Len(H(k + 1)) = k + 1
        /\ \A i \in 1 .. k : H(k + 1)[i] = H(k)[i]
        /\ H(k + 1)[k + 1] = t[k + 1]
    BY <1>1
  <2>4. k + 1 \in 1 .. Len(t) /\ Len(s) + (k + 1) = (Len(s) + k) + 1 /\ Len(s) + k \in Nat
    BY <1>1, <2>1
  <2>5. u[(Len(s) + k) + 1] = t[k + 1] /\ t[k + 1] \in Nat
    BY <1>1, <2>4
  <2>6. \A i \in 1 .. Len(H(k)) : H(k)[i] \in Nat
    BY <1>1, <2>1, <2>3
  <2> HIDE DEF F, H
  <2>7. SumUp(F(k + 1)) = SumUp(F(k)) + F(k + 1)[Len(F(k + 1))]
    BY <2>2, <2>4, SumAppend
  <2>8. SumUp(H(k + 1)) = SumUp(H(k)) + H(k + 1)[Len(H(k + 1))]
    BY <2>1, <2>3, SumAppend
  <2>9. SumUp(s) \in Nat /\ SumUp(H(k)) \in Nat
    BY <1>1, <2>1, <2>3, <2>6, SumNat
  <2>10. F(k + 1)[Len(F(k + 1))] = t[k + 1] /\ H(k + 1)[Len(H(k + 1))] = t[k + 1]
    BY <2>2, <2>3, <2>5
  <2> QED  BY <2>1, <2>5, <2>7, <2>8, <2>9, <2>10
<1> HIDE DEF T, F, H
<1>4. T = Nat  BY <1>2, <1>3, Induct DEF T
<1>5. SumUp(F(Len(t))) = SumUp(s) + SumUp(H(Len(t)))
  BY <1>1, <1>4 DEF T
<1>6. F(Len(t)) = u /\ H(Len(t)) = t
  BY <1>1 DEF F, H
<1> QED  BY <1>5, <1>6 DEF u

\* The sum of what each edge of a walk weighs.
Weigh(weight, w) == SumUp([i \in 1 .. Len(w) |-> weight[w[i]]])

LEMMA WeighType ==
  ASSUME NEW weight \in [Edges -> Nat], NEW w \in Seq(Edges)
  PROVE  Weigh(weight, w) \in Nat
<1> DEFINE s == [i \in 1 .. Len(w) |-> weight[w[i]]]
<1>1. Len(s) \in Nat /\ \A i \in 1 .. Len(s) : s[i] \in Nat
  OBVIOUS
<1> HIDE DEF s
<1>2. SumUp(s) \in Nat  BY <1>1, SumNat
<1> QED  BY <1>2 DEF Weigh, s

LEMMA WeighConcat ==
  ASSUME NEW weight \in [Edges -> Nat], NEW v \in Seq(Edges), NEW w \in Seq(Edges)
  PROVE  Weigh(weight, v \o w) = Weigh(weight, v) + Weigh(weight, w)
<1> DEFINE s == [i \in 1 .. Len(v) |-> weight[v[i]]]
           t == [i \in 1 .. Len(w) |-> weight[w[i]]]
           u == [i \in 1 .. Len(v \o w) |-> weight[(v \o w)[i]]]
<1>1. /\ Len(v) \in Nat /\ Len(w) \in Nat /\ v \o w \in Seq(Edges)
      /\ Len(v \o w) = Len(v) + Len(w)
      /\ \A i \in 1 .. Len(v) : (v \o w)[i] = v[i]
      /\ \A i \in Len(v) + 1 .. Len(v) + Len(w) : (v \o w)[i] = w[i - Len(v)]
  OBVIOUS
<1>2. s \in Seq(Nat) /\ t \in Seq(Nat) /\ Len(s) = Len(v) /\ Len(t) = Len(w)
  OBVIOUS
<1>3. u \in Seq(Nat) /\ Len(u) = Len(v) + Len(w)
  BY <1>1
<1>4. \A i \in 1 .. Len(v) : u[i] = s[i]
  BY <1>1
<1>5. ASSUME NEW i \in Len(v) + 1 .. Len(v) + Len(w) PROVE u[i] = t[i - Len(v)]
  <2>1. i \in 1 .. Len(v \o w) /\ i - Len(v) \in 1 .. Len(w)
    BY <1>1
  <2>2. (v \o w)[i] = w[i - Len(v)]
    BY <1>1
  <2> QED  BY <2>1, <2>2
<1> HIDE DEF s, t, u
<1>6. u = s \o t
  <2> DEFINE x == s \o t
  <2>1. /\ x \in Seq(Nat) /\ Len(x) = Len(v) + Len(w)
        /\ \A i \in 1 .. Len(v) : x[i] = s[i]
        /\ \A i \in Len(v) + 1 .. Len(v) + Len(w) : x[i] = t[i - Len(v)]
    <3>1. /\ x \in Seq(Nat) /\ Len(x) = Len(s) + Len(t)
          /\ \A i \in 1 .. Len(s) : x[i] = s[i]
          /\ \A i \in Len(s) + 1 .. Len(s) + Len(t) : x[i] = t[i - Len(s)]
      <4>1. s \in Seq(Nat) /\ t \in Seq(Nat)  BY <1>2
      <4> QED  BY <4>1
    <3> QED  BY <1>2, <3>1
  <2> HIDE DEF x
  <2>2. \A i \in 1 .. Len(v) + Len(w) : u[i] = x[i]
    <3>1. \A i \in 1 .. Len(v) + Len(w) :
            i \in 1 .. Len(v) \/ i \in Len(v) + 1 .. Len(v) + Len(w)
      BY <1>1
    <3> QED  BY <1>4, <1>5, <2>1, <3>1
  <2>3. u = x
    BY <1>3, <2>1, <2>2
  <2> QED  BY <2>3 DEF x
<1>7. SumUp(u) = SumUp(s) + SumUp(t)
  BY <1>2, <1>6, SumConcat
<1> QED  BY <1>7 DEF Weigh, s, t, u

\* A route weighs what its legs weigh.
LEMMA WeighLegs ==
  ASSUME NEW weight \in [Edges -> Nat], NEW ls \in Seq(AnswerType)
  PROVE  Weigh(weight, AllEdges(ls)) = SumUp([i \in 1 .. Len(ls) |-> Weigh(weight, ls[i].edges)])
         /\ AllEdges(ls) \in Seq(Edges)
<1> DEFINE F(k) == [i \in 1 .. k |-> Weigh(weight, ls[i].edges)]
           T == {k \in Nat : k <= Len(ls) =>
                   /\ AllEdges(Upto(ls, k)) \in Seq(Edges)
                   /\ Weigh(weight, AllEdges(Upto(ls, k))) = SumUp(F(k))}
<1>1. 0 \in T
  <2>1. Len(Upto(ls, 0)) = 0
    BY UptoFacts
  <2>2. AllEdges(Upto(ls, 0)) = <<>>
    BY <2>1, NoEdges
  <2>3. Weigh(weight, <<>>) = 0
    BY SumEmpty DEF Weigh
  <2>4. Len(F(0)) = 0
    OBVIOUS
  <2> HIDE DEF F
  <2>5. SumUp(F(0)) = 0
    BY <2>4, SumEmpty
  <2>6. <<>> \in Seq(Edges)
    OBVIOUS
  <2>7. /\ AllEdges(Upto(ls, 0)) \in Seq(Edges)
        /\ Weigh(weight, AllEdges(Upto(ls, 0))) = SumUp(F(0))
    BY <2>2, <2>3, <2>5, <2>6
  <2> QED  BY <2>7
<1>2. ASSUME NEW k \in T PROVE k + 1 \in T
  <2> SUFFICES ASSUME k + 1 <= Len(ls)
               PROVE  /\ AllEdges(Upto(ls, k + 1)) \in Seq(Edges)
                      /\ Weigh(weight, AllEdges(Upto(ls, k + 1))) = SumUp(F(k + 1))
    OBVIOUS
  <2>1. /\ AllEdges(Upto(ls, k)) \in Seq(Edges) /\ k \in Nat
        /\ Weigh(weight, AllEdges(Upto(ls, k))) = SumUp(F(k))
    OBVIOUS
  <2>2. /\ AllEdges(Upto(ls, k + 1)) = AllEdges(Upto(ls, k)) \o ls[k + 1].edges
        /\ ls[k + 1] \in AnswerType
    BY UptoNext
  <2>3. ls[k + 1].edges \in Seq(Edges)
    BY <2>2 DEF AnswerType
  <2>4. /\ Len(F(k)) = k /\ Len(F(k + 1)) = k + 1
        /\ \A i \in 1 .. k : F(k + 1)[i] = F(k)[i]
        /\ F(k + 1)[k + 1] = Weigh(weight, ls[k + 1].edges)
    OBVIOUS
  <2> HIDE DEF F
  <2>5. SumUp(F(k + 1)) = SumUp(F(k)) + Weigh(weight, ls[k + 1].edges)
    BY <2>4, SumAppend
  <2>6. AllEdges(Upto(ls, k + 1)) \in Seq(Edges)
    <3>1. \A v, w \in Seq(Edges) : v \o w \in Seq(Edges)
      OBVIOUS
    <3> QED  BY <2>1, <2>2, <2>3, <3>1
  <2> QED  BY <2>1, <2>2, <2>3, <2>5, <2>6, WeighConcat
<1> HIDE DEF T, F
<1>3. T = Nat  BY <1>1, <1>2, Induct DEF T
<1>4. Len(ls) \in Nat /\ Upto(ls, Len(ls)) = ls
  BY UptoFacts
<1>5. /\ AllEdges(Upto(ls, Len(ls))) \in Seq(Edges)
      /\ Weigh(weight, AllEdges(Upto(ls, Len(ls)))) = SumUp(F(Len(ls)))
  BY <1>3, <1>4 DEF T
<1> QED  BY <1>4, <1>5 DEF F

LEMMA LengthOfLegs ==
  ASSUME NEW ls \in Seq(AnswerType),
         \A i \in 1 .. Len(ls) : ls[i].lengthM = WalkLength(ls[i].edges)
  PROVE  Length(ls) = WalkLength(AllEdges(ls))
<1>1. LengthM \in [Edges -> Nat]
  BY GraphAssumption
<1>2. \A w : WalkLength(w) = Weigh(LengthM, w)
  BY DEF WalkLength, Weigh
<1>3. [i \in 1 .. Len(ls) |-> ls[i].lengthM] = [i \in 1 .. Len(ls) |-> Weigh(LengthM, ls[i].edges)]
  BY <1>2
<1> QED  BY <1>1, <1>2, <1>3, WeighLegs DEF Length

-----------------------------------------------------------------------------
(* The theorems.                                                           *)

(* No index the handler uses is out of range, and no list it returns is    *)
(* longer than promised: waypoints, legs, attempts, routes, alternatives.  *)
THEOREM TypeCorrect == Spec => []TypeOK
<1>1. PlanInv => TypeOK
  <2> SUFFICES ASSUME PlanInv PROVE TypeOK
    OBVIOUS
  <2>1. Shapes /\ Progress /\ Hunted
    BY DEF PlanInv
  <2>2. Range(snaps) \subseteq Nodes
    BY <2>1 DEF Shapes, Range
  <2>3. snaps = <<>> \/ (Len(legs) < Len(snaps) /\ Len(base) < Len(snaps))
    <3>1. Len(snaps) \in Nat /\ snaps \in Seq(Nodes)
      BY <2>1 DEF Shapes
    <3>2. snaps # <<>> => Len(snaps) > 0
      BY <3>1
    <3>3. Len(<<>>) = 0
      OBVIOUS
    <3>4. Len(legs) < Len(snaps) \/ legs = <<>>
      BY <2>1 DEF Progress
    <3>5. Len(base) < Len(snaps) \/ base = <<>>
      BY <2>1 DEF Progress
    <3> QED  BY <3>2, <3>3, <3>4, <3>5
  <2>4. Len(routes) <= MaxAlternatives + 1
    <3>1. CASE routes = <<>>
      BY <3>1 DEF MaxAlternatives
    <3>2. CASE routes # <<>>
      <4>1. Len(routes) <= Want + 1 /\ Want \in 1 .. MaxAlternatives
        BY <2>1, <3>2 DEF Hunted
      <4>2. Len(routes) \in Nat
        BY <2>1 DEF Shapes
      <4> QED  BY <4>1, <4>2 DEF MaxAlternatives
    <3> QED  BY <3>1, <3>2
  <2>5. Len(snaps) <= Len(plan.points)
    BY <2>1 DEF Progress
  <2> QED  BY <2>1, <2>2, <2>3, <2>4, <2>5 DEF TypeOK, Shapes
<1> QED  BY <1>1, PlanInvariant, PTL

\* What a 200 comes with.
LEMMA PlannedFacts ==
  ASSUME PlanInv, Planned
  PROVE  /\ Shapes /\ LegsFound /\ BaseFound /\ Drawn /\ Hunted /\ Described
         /\ Valid(plan.profile) /\ Len(snaps) >= 2
         /\ Len(legs) = Len(snaps) - 1 /\ AllEdges(legs) # <<>>
         /\ base = <<>> \/ Len(base) = Len(snaps) - 1
         /\ pts = assemble(AllEdges(legs)).pts /\ offs = assemble(AllEdges(legs)).offs
<1>1. Shapes /\ Progress /\ LegsFound /\ BaseFound /\ Drawn /\ Hunted /\ Reported
  BY DEF PlanInv
<1>2. Described
  BY <1>1 DEF Reported, Reached
<1>3. plan \in Plans /\ resolveProfile(plan) /\ validWaypoints(plan)
  BY <1>1 DEF Progress, Ready, Shapes
<1>4. Valid(plan.profile) /\ Len(plan.points) \in Int /\ Len(plan.points) >= 2
  BY <1>3, ReadyPlans, Zenon
<1>5. /\ Len(snaps) = Len(plan.points)
      /\ Len(legs) = Len(snaps) - 1 /\ AllEdges(legs) # <<>>
      /\ base = <<>> \/ Len(base) = Len(snaps) - 1
  BY <1>1 DEF Progress, Reached
<1>6. pts = assemble(AllEdges(legs)).pts /\ offs = assemble(AllEdges(legs)).offs
  BY <1>1 DEF Drawn, Reached
<1> QED  BY <1>1, <1>2, <1>4, <1>5, <1>6

(* Every route offered beside the first is a sound one under the same      *)
(* hazards, within the budget and the cost ratio, different enough from    *)
(* every route before it and, without a budget, not cheaper than the first.*)
THEOREM AlternativesStayGenuine == Spec => []AlternativesGenuine
<1>1. PlanInv => AlternativesGenuine
  <2> SUFFICES ASSUME PlanInv, Planned, resp.alternatives # <<>>
               PROVE  /\ Len(resp.alternatives) <= Want
                      /\ \A k \in 1 .. Len(resp.alternatives) :
                           LET a == resp.alternatives[k]
                               earlier == <<resp.edges>> \o
                                          [j \in 1 .. k - 1 |-> resp.alternatives[j].edges]
                           IN  /\ SoundAnswer(Leg(plan.profile, hazardScores, snaps[1],
                                                  snaps[2]), a)
                               /\ a.usedM <= plan.profile.budgetM
                               /\ 10 * a.cost <= 16 * resp.cost
                               /\ \A j \in 1 .. k :
                                    10 * MetresOn(a.edges, Range(earlier[j])) <= 7 * a.lengthM
                               /\ plan.profile.budgetM = 0 => a.cost >= resp.cost
    <3>1. DOMAIN resp.alternatives = 1 .. Len(resp.alternatives)
      BY DEF PlanInv, Shapes
    <3>2. resp.alternatives = <<>> => 1 .. Len(resp.alternatives) = {}
      OBVIOUS
    <3> QED  BY <3>1, <3>2 DEF AlternativesGenuine
  <2> DEFINE alts == resp.alternatives
             opts == Leg(plan.profile, hazardScores, snaps[1], snaps[2])
  <2>1. /\ Shapes /\ LegsFound /\ Hunted /\ Described /\ Valid(plan.profile)
    BY PlannedFacts
  <2>2. alts \in Seq(AnswerType) /\ Len(alts) \in Nat /\ legs \in Seq(AnswerType)
        /\ routes \in Seq(AnswerType) /\ Len(routes) \in Nat
    BY <2>1 DEF Shapes
  <2>3. /\ Len(alts) < Len(routes)
        /\ \A k \in 1 .. Len(alts) : alts[k] = routes[k + 1]
    BY <2>1 DEF Described
  <2>4. routes # <<>>
    BY <2>2, <2>3
  <2>5. /\ routes[1] = legs[1] /\ Len(legs) = 1
        /\ Len(routes) <= Want + 1 /\ Want \in 1 .. MaxAlternatives
        /\ \A k \in 2 .. Len(routes) : Genuine(routes, k)
    BY <2>1, <2>4 DEF Hunted
  <2>6. resp.edges = legs[1].edges /\ resp.cost = legs[1].cost
    <3>1. resp.edges = AllEdges(legs) /\ resp.cost = Cost(legs)
      BY <2>1 DEF Described
    <3> QED  BY <2>2, <2>5, <3>1, OneLeg, OneCost
  <2>7. Len(alts) <= Want
    BY <2>2, <2>3, <2>5
  <2>8. ASSUME NEW k \in 1 .. Len(alts)
        PROVE  LET a == alts[k]
                   earlier == <<resp.edges>> \o [j \in 1 .. k - 1 |-> alts[j].edges]
               IN  /\ SoundAnswer(opts, a)
                   /\ a.usedM <= plan.profile.budgetM
                   /\ 10 * a.cost <= 16 * resp.cost
                   /\ \A j \in 1 .. k :
                        10 * MetresOn(a.edges, Range(earlier[j])) <= 7 * a.lengthM
                   /\ plan.profile.budgetM = 0 => a.cost >= resp.cost
    <3> DEFINE a == alts[k]
               others == [j \in 1 .. k - 1 |-> alts[j].edges]
               earlier == <<resp.edges>> \o others
    <3>1. k + 1 \in 2 .. Len(routes) /\ a = routes[k + 1] /\ k \in Nat \ {0}
      BY <2>2, <2>3
    <3>2. Genuine(routes, k + 1)
      BY <2>5, <3>1
    <3>3. (k + 1) - 1 = k
      BY <3>1
    <3>4. /\ SoundAnswer(OptsOf(1), a)
          /\ a.usedM <= plan.profile.budgetM
          /\ ~TooDear(a.cost, legs[1])
          /\ \A j \in 1 .. k :
               10 * MetresOn(a.edges, Range(routes[j].edges)) <= 7 * a.lengthM
          /\ plan.profile.budgetM = 0 => a.cost >= legs[1].cost
      BY <3>1, <3>2, <3>3 DEF Genuine
    <3>5. SoundAnswer(opts, a)
      BY <3>4 DEF OptsOf
    <3>6. 10 * a.cost <= 16 * resp.cost
      <4>1. a.cost \in Nat /\ legs[1].cost \in Nat
        <5>1. a \in AnswerType
          BY <2>2
        <5>2. legs[1] \in AnswerType
          BY <2>2, <2>5
        <5> QED  BY <5>1, <5>2 DEF AnswerType
      <4>2. ~(10 * a.cost > 16 * legs[1].cost)
        BY <3>4 DEF TooDear
      <4> HIDE DEF a
      <4> QED  BY <2>6, <4>1, <4>2
    <3>7. \A j \in 1 .. k : earlier[j] = routes[j].edges
      <4>1. /\ \A j \in 2 .. k : j - 1 \in 1 .. k - 1 /\ j - 1 \in 1 .. Len(alts)
                                 /\ (j - 1) + 1 = j
            /\ k - 1 \in Nat
        BY <2>2, <3>1
      <4>2. others \in Seq(Seq(Edges)) /\ Len(others) = k - 1
        <5>1. ASSUME NEW j \in 1 .. k - 1 PROVE alts[j].edges \in Seq(Edges)
          <6>1. j \in 1 .. Len(alts)  BY <2>2, <5>1
          <6>2. alts[j] \in AnswerType  BY <2>2, <6>1
          <6> QED  BY <6>2 DEF AnswerType
        <5> QED  BY <4>1, <5>1
      <4>3. \A j \in 1 .. k - 1 : others[j] = alts[j].edges
        OBVIOUS
      <4> HIDE DEF others
      <4>4. /\ earlier[1] = resp.edges
            /\ \A j \in 2 .. k : earlier[j] = others[j - 1]
        <5>1. <<resp.edges>> \in Seq({resp.edges} \union Seq(Edges))
              /\ others \in Seq({resp.edges} \union Seq(Edges))
          BY <4>2
        <5> QED  BY <3>1, <4>1, <4>2, <5>1
      <4>5. \A j \in 2 .. k : others[j - 1] = routes[j].edges
        BY <2>3, <4>1, <4>3
      <4>6. \A j \in 1 .. k : j = 1 \/ j \in 2 .. k
        BY <3>1
      <4> HIDE DEF earlier
      <4> QED  BY <2>5, <2>6, <4>4, <4>5, <4>6
    <3>8. \A j \in 1 .. k :
            10 * MetresOn(a.edges, Range(earlier[j])) <= 7 * a.lengthM
      BY <3>4, <3>7
    <3>9. plan.profile.budgetM = 0 => a.cost >= resp.cost
      BY <2>6, <3>4
    <3> QED  BY <3>4, <3>5, <3>6, <3>8, <3>9
  <2> QED  BY <2>7, <2>8
<1> QED  BY <1>1, PlanInvariant, PTL

\* The search by length alone, and what it is compared with.
LEMMA BaselineCosts ==
  ASSUME NEW a, NEW b, NEW w \in Seq(Edges)
  PROVE  /\ WalkUsed(BaselineLeg(a, b), w) = 0
         /\ WalkCost(BaselineLeg(a, b), w) = WalkLength(w)
<1> DEFINE r == BaselineLeg(a, b)
           s == [i \in 1 .. Len(w) |-> Spend(r, w[i], 0)]
           t == [i \in 1 .. Len(w) - 1 |-> r.turnCost[<<w[i], w[i + 1]>>]]
<1>1. r.hasOver = FALSE /\ r.edgeCost = LengthM
      /\ r.turnCost = [ef \in Edges \X Edges |-> 0]
  BY DEF BaselineLeg
<1>2. Len(w) \in Nat /\ \A i \in 1 .. Len(w) : w[i] \in Edges
  OBVIOUS
<1> HIDE DEF r
<1>3. SumUp(s) = 0
  <2>1. Len(s) = Len(w) /\ \A i \in 1 .. Len(s) : s[i] = 0
    BY <1>1, <1>2 DEF Spend, IsOver
  <2> HIDE DEF s
  <2> QED  BY <1>2, <2>1, SumZero
<1>4. SumUp(t) = 0
  <2>1. CASE Len(w) = 0
    <3>1. Len(t) = 0 /\ t \in Seq(Nat)  BY <2>1
    <3>2. t = <<>>  BY <3>1
    <3> HIDE DEF t
    <3> QED  BY <3>1, SumEmpty
  <2>2. CASE Len(w) # 0
    <3>1. Len(t) = Len(w) - 1 /\ Len(t) \in Nat
      BY <1>2, <2>2
    <3>2. ASSUME NEW i \in 1 .. Len(t) PROVE t[i] = 0
      <4>1. i \in 1 .. Len(w) - 1 /\ i \in 1 .. Len(w) /\ i + 1 \in 1 .. Len(w)
        <5> HIDE DEF t
        <5> QED  BY <1>2, <3>1
      <4>2. <<w[i], w[i + 1]>> \in Edges \X Edges
        BY <1>2, <4>1
      <4> QED  BY <1>1, <4>1, <4>2
    <3> HIDE DEF t
    <3> QED  BY <3>1, <3>2, SumZero
  <2> QED  BY <2>1, <2>2
<1>5. WalkUsed(r, w) = SumUp(s)
  BY DEF WalkUsed
<1>6. WalkCost(r, w) = WalkLength(w) + SumUp(t)
  BY <1>1 DEF WalkCost, WalkLength
<1>7. WalkLength(w) \in Nat
  BY WalkNumbers
<1> HIDE DEF s, t
<1> QED  BY <1>3, <1>4, <1>5, <1>6, <1>7 DEF r

LEMMA BaselineNoLonger ==
  ASSUME NEW p, Valid(p), NEW hz, NEW n, NEW m,
         NEW b \in Answers(BaselineLeg(n, m)), NEW l \in Answers(Leg(p, hz, n, m))
  PROVE  b.lengthM \in Nat /\ l.lengthM \in Nat /\ b.lengthM <= l.lengthM
<1> DEFINE q == BaselineLeg(n, m)
           r == Leg(p, hz, n, m)
<1>1. Sensible(q) /\ q.budgetM \in Nat /\ q.start = n /\ q.goal = m /\ q.allow = Edges
  BY BaselineSensible DEF BaselineLeg
<1>2. Sensible(r) /\ r.budgetM \in Nat /\ r.start = n /\ r.goal = m
  BY LegSensible
<1>3. /\ b \in Answers(q) /\ l \in Answers(r)
      /\ \A w \in Seq(Edges) : WalkUsed(q, w) = 0 /\ WalkCost(q, w) = WalkLength(w)
  BY BaselineCosts
<1> HIDE DEF q, r
<1>4. b.lengthM \in Nat /\ l.lengthM \in Nat
  <2>1. b \in AnswerType /\ l \in AnswerType
    BY <1>1, <1>2, <1>3, AnswerTyped
  <2> QED  BY <2>1 DEF AnswerType
<1>5. CASE n = m
  <2>1. b = Bare("path") /\ l = Bare("path")
    BY <1>1, <1>2, <1>3, <1>5, AnswerFacts
  <2> QED  BY <1>4, <2>1
<1>6. CASE n # m
  <2>1. PICK v \in Candidates(q) :
          b.cost = WalkCost(q, v) /\ b.lengthM = WalkLength(v)
          /\ \A c \in ComfortableCosts(q) : b.cost <= c
    BY <1>1, <1>3, <1>6, AnswerFacts
  <2>2. PICK w \in Candidates(r) : l.lengthM = WalkLength(w)
    BY <1>2, <1>3, <1>6, AnswerFacts
  <2>3. v \in Seq(Edges) /\ w \in Seq(Edges)
    BY <2>1, <2>2, CandidateFacts
  <2>4. w \in Candidates(q)
    <3>1. Range(w) \subseteq q.allow
      BY <1>1, <2>3 DEF Range
    <3> QED  BY <1>1, <1>2, <2>2, <3>1, CandidateThere
  <2>5. WalkCost(q, w) \in ComfortableCosts(q)
    BY <1>3, <2>3, <2>4 DEF ComfortableCosts
  <2>6. b.cost <= WalkCost(q, w)
    BY <2>1, <2>5
  <2> QED  BY <1>3, <1>4, <2>1, <2>2, <2>3, <2>6
<1> QED  BY <1>4, <1>5, <1>6

(* A baseline that is shown leads to the last waypoint and is never longer *)
(* than the route it is compared with.                                     *)
THEOREM BaselineStaysComparable == Spec => []BaselineComparable
<1>1. PlanInv => BaselineComparable
  <2> SUFFICES ASSUME PlanInv, Planned, resp.baseM > 0
               PROVE  resp.baseM <= resp.lengthM /\ To[Last(AllEdges(base))] = Last(snaps)
    BY DEF BaselineComparable
  <2>1. /\ Shapes /\ LegsFound /\ BaseFound /\ Described /\ Valid(plan.profile)
        /\ Len(snaps) >= 2 /\ Len(legs) = Len(snaps) - 1
        /\ base = <<>> \/ Len(base) = Len(snaps) - 1
    BY PlannedFacts
  <2>2. snaps \in Seq(Nodes) /\ Len(snaps) \in Nat /\ base \in Seq(AnswerType)
        /\ legs \in Seq(AnswerType) /\ resp.baseM = Length(base)
        /\ resp.lengthM = Length(legs)
    BY <2>1 DEF Shapes, Described
  <2> DEFINE bs == [i \in 1 .. Len(base) |-> base[i].lengthM]
             lm == [i \in 1 .. Len(legs) |-> legs[i].lengthM]
  <2>3. base # <<>>
    <3> SUFFICES ASSUME base = <<>> PROVE FALSE
      OBVIOUS
    <3>1. Len(bs) = 0
      OBVIOUS
    <3> HIDE DEF bs
    <3>2. SumUp(bs) = 0
      BY <3>1, SumEmpty
    <3>3. Length(base) = 0
      BY <3>2 DEF Length, bs
    <3> QED  BY <2>2, <3>3
  <2>4. Len(base) = Len(legs) /\ Len(legs) \in Nat \ {0}
    BY <2>1, <2>2, <2>3
  <2>5. ASSUME NEW i \in 1 .. Len(legs)
        PROVE  base[i].lengthM \in Nat /\ legs[i].lengthM \in Nat
               /\ base[i].lengthM <= legs[i].lengthM
    <3>1. base[i] \in Answers(BaselineOpts(i)) /\ legs[i] \in Answers(OptsOf(i))
      BY <2>1, <2>4 DEF BaseFound, LegsFound
    <3> QED  BY <2>1, <3>1, BaselineNoLonger DEF BaselineOpts, OptsOf
  <2>6. /\ Len(bs) \in Nat /\ Len(lm) = Len(bs)
        /\ \A i \in 1 .. Len(bs) : bs[i] \in Nat /\ lm[i] \in Nat /\ bs[i] <= lm[i]
    BY <2>4, <2>5
  <2>7. Length(base) = SumUp(bs) /\ Length(legs) = SumUp(lm)
    BY DEF Length
  <2> HIDE DEF bs, lm
  <2>8. resp.baseM <= resp.lengthM
    BY <2>2, <2>6, <2>7, SumMonotone
  <2>9. To[Last(AllEdges(base))] = Last(snaps)
    <3>1. \A i \in 1 .. Len(base) : Leads(base[i].edges, snaps[i], snaps[i + 1])
      BY <2>1, BaseLeads
    <3>2. \A k \in 0 .. Len(base) : Leads(AllEdges(Upto(base, k)), snaps[1], snaps[k + 1])
      BY <2>2, <3>1, Chained
    <3>3. Upto(base, Len(base)) = base /\ Len(base) \in 0 .. Len(base)
          /\ Len(base) + 1 = Len(snaps)
      BY <2>1, <2>2, <2>3, <2>4, UptoFacts
    <3>4. Leads(AllEdges(base), snaps[1], Last(snaps))
      <4>1. Leads(AllEdges(Upto(base, Len(base))), snaps[1], snaps[Len(base) + 1])
        BY <3>2, <3>3
      <4> QED  BY <3>3, <4>1 DEF Last
    <3>5. AllEdges(base) # <<>>
      <4> SUFFICES ASSUME AllEdges(base) = <<>> PROVE FALSE
        OBVIOUS
      <4>1. \A i \in 1 .. Len(base) : base[i].lengthM = WalkLength(base[i].edges)
        <5> SUFFICES ASSUME NEW i \in 1 .. Len(base)
                     PROVE  base[i].lengthM = WalkLength(base[i].edges)
          OBVIOUS
        <5>1. base[i] \in Answers(BaselineOpts(i))
          BY <2>1 DEF BaseFound
        <5>2. Sensible(BaselineOpts(i)) /\ BaselineOpts(i).budgetM \in Nat
          BY BaselineSensible DEF BaselineOpts
        <5> QED  BY <5>1, <5>2, AnswerTypes
      <4>2. Length(base) = WalkLength(<<>>)
        BY <2>2, <4>1, LengthOfLegs
      <4>3. WalkLength(<<>>) = 0
        BY SumEmpty DEF WalkLength
      <4> QED  BY <2>2, <4>2, <4>3
    <3> QED  BY <3>4, <3>5 DEF Leads
  <2> QED  BY <2>8, <2>9
<1> QED  BY <1>1, PlanInvariant, PTL

-----------------------------------------------------------------------------
(* The route of a 200.                                                     *)

\* v is how w begins.
Starts(v, w) == Len(v) \in 0 .. Len(w) /\ \A j \in 1 .. Len(v) : w[j] = v[j]

LEMMA LegsStart ==
  ASSUME NEW ls \in Seq(AnswerType), NEW k \in 0 .. Len(ls)
  PROVE  Starts(AllEdges(Upto(ls, k)), AllEdges(ls))
<1> DEFINE v == AllEdges(Upto(ls, k))
           T == {n \in Nat : k + n <= Len(ls) =>
                   Starts(v, AllEdges(Upto(ls, k + n))) /\ AllEdges(Upto(ls, k + n)) \in Seq(Edges)}
<1>0. k \in Nat /\ Len(ls) \in Nat
  OBVIOUS
<1>1. 0 \in T
  <2>1. k + 0 = k /\ Upto(ls, k) \in Seq(AnswerType)
    BY <1>0, UptoFacts
  <2>2. LengthM \in [Edges -> Nat]
    BY GraphAssumption
  <2>3. v \in Seq(Edges)
    BY <2>1, <2>2, WeighLegs
  <2> HIDE DEF v
  <2>4. Starts(v, v)
    BY <2>3 DEF Starts
  <2> QED  BY <2>1, <2>3, <2>4 DEF v
<1>2. ASSUME NEW n \in T PROVE n + 1 \in T
  <2> SUFFICES ASSUME k + (n + 1) <= Len(ls)
               PROVE  Starts(v, AllEdges(Upto(ls, k + (n + 1))))
                      /\ AllEdges(Upto(ls, k + (n + 1))) \in Seq(Edges)
    OBVIOUS
  <2> DEFINE u == AllEdges(Upto(ls, k + n))
             x == ls[(k + n) + 1].edges
  <2>1. k + (n + 1) = (k + n) + 1 /\ k + n \in Nat /\ k + n <= Len(ls)
    BY <1>0
  <2>2. Starts(v, u) /\ u \in Seq(Edges)
    BY <2>1
  <2>3. AllEdges(Upto(ls, (k + n) + 1)) = u \o x /\ ls[(k + n) + 1] \in AnswerType
    BY <2>1, UptoNext
  <2>4. x \in Seq(Edges)
    BY <2>3 DEF AnswerType
  <2> HIDE DEF u, v, x
  <2>5. Starts(u, u \o x) /\ u \o x \in Seq(Edges)
    BY <2>2, <2>4 DEF Starts
  <2>6. Starts(v, u \o x)
    BY <2>2, <2>4, <2>5 DEF Starts
  <2> QED  BY <2>1, <2>3, <2>5, <2>6
<1> HIDE DEF T
<1>3. T = Nat  BY <1>1, <1>2, Induct DEF T
<1>4. Len(ls) - k \in Nat /\ k + (Len(ls) - k) = Len(ls)
  BY <1>0
<1> DEFINE m == Len(ls) - k
<1>5. Starts(v, AllEdges(Upto(ls, k + m)))
  <2>1. m \in T /\ k + m <= Len(ls)
    BY <1>0, <1>3, <1>4
  <2> QED  BY <2>1 DEF T
<1>6. Starts(v, AllEdges(Upto(ls, Len(ls))))
  BY <1>4, <1>5
<1> QED  BY <1>0, <1>6, UptoFacts

LEMMA EdgesOfLegs ==
  ASSUME NEW ls \in Seq(AnswerType), NEW S,
         \A i \in 1 .. Len(ls) : Range(ls[i].edges) \subseteq S
  PROVE  Range(AllEdges(ls)) \subseteq S
<1> DEFINE T == {k \in Nat : k <= Len(ls) =>
                   /\ AllEdges(Upto(ls, k)) \in Seq(Edges)
                   /\ Range(AllEdges(Upto(ls, k))) \subseteq S}
<1>1. 0 \in T
  <2>1. AllEdges(Upto(ls, 0)) = <<>>
    BY UptoFacts, NoEdges
  <2>2. <<>> \in Seq(Edges) /\ Range(<<>>) = {}
    BY DEF Range
  <2>3. AllEdges(Upto(ls, 0)) \in Seq(Edges) /\ Range(AllEdges(Upto(ls, 0))) \subseteq S
    BY <2>1, <2>2
  <2> QED  BY <2>3
<1>2. ASSUME NEW k \in T PROVE k + 1 \in T
  <2> SUFFICES ASSUME k + 1 <= Len(ls)
               PROVE  /\ AllEdges(Upto(ls, k + 1)) \in Seq(Edges)
                      /\ Range(AllEdges(Upto(ls, k + 1))) \subseteq S
    OBVIOUS
  <2> DEFINE u == AllEdges(Upto(ls, k))
             x == ls[k + 1].edges
  <2>1. u \in Seq(Edges) /\ Range(u) \subseteq S /\ k \in Nat
    OBVIOUS
  <2>2. AllEdges(Upto(ls, k + 1)) = u \o x /\ ls[k + 1] \in AnswerType
    BY <2>1, UptoNext
  <2>3. x \in Seq(Edges) /\ Range(x) \subseteq S
    <3>1. k + 1 \in 1 .. Len(ls)  BY <2>1
    <3> QED  BY <2>2, <3>1 DEF AnswerType
  <2> HIDE DEF u, x
  <2>4. u \o x \in Seq(Edges)
    BY <2>1, <2>3
  <2>5. ASSUME NEW j \in 1 .. Len(u \o x) PROVE (u \o x)[j] \in S
    <3>1. CASE j \in 1 .. Len(u)
      <4>1. (u \o x)[j] = u[j]  BY <2>1, <2>3, <3>1
      <4> QED  BY <2>1, <3>1, <4>1 DEF Range
    <3>2. CASE j \notin 1 .. Len(u)
      <4>1. (u \o x)[j] = x[j - Len(u)] /\ j - Len(u) \in 1 .. Len(x)
        BY <2>1, <2>3, <3>2
      <4> QED  BY <2>3, <4>1 DEF Range
    <3> QED  BY <3>1, <3>2
  <2>6. Range(u \o x) \subseteq S
    BY <2>4, <2>5 DEF Range
  <2> QED  BY <2>2, <2>4, <2>6
<1> HIDE DEF T
<1>3. T = Nat  BY <1>1, <1>2, Induct DEF T
<1> QED  BY <1>3, UptoFacts DEF T

LEMMA SumAtMost ==
  ASSUME NEW s, NEW b \in Nat, Len(s) \in Nat,
         \A i \in 1 .. Len(s) : s[i] \in Nat /\ s[i] <= b
  PROVE  SumUp(s) <= b * Len(s)
<1>1. PICK g : /\ g[0] = 0 /\ \A i \in 1 .. Len(s) : g[i] = g[i - 1] + s[i]
               /\ SumUp(s) = g[Len(s)]
  BY SumUnfolds
<1> DEFINE T == {i \in Nat : i <= Len(s) => g[i] \in Nat /\ g[i] <= b * i}
<1>2. 0 \in T
  BY <1>1
<1>3. ASSUME NEW i \in T PROVE i + 1 \in T
  <2> SUFFICES ASSUME i + 1 <= Len(s) PROVE g[i + 1] \in Nat /\ g[i + 1] <= b * (i + 1)
    OBVIOUS
  <2>1. i + 1 \in 1 .. Len(s) /\ (i + 1) - 1 = i  OBVIOUS
  <2>2. g[i + 1] = g[(i + 1) - 1] + s[i + 1]  BY <1>1, <2>1
  <2>3. g[i] \in Nat /\ g[i] <= b * i  BY <2>1
  <2>4. s[i + 1] \in Nat /\ s[i + 1] <= b  BY <2>1
  <2>5. b * (i + 1) = b * i + b /\ b * i \in Nat  OBVIOUS
  <2> QED  BY <2>1, <2>2, <2>3, <2>4, <2>5
<1> HIDE DEF T
<1>4. T = Nat  BY <1>2, <1>3, Induct DEF T
<1> QED  BY <1>1, <1>4 DEF T

\* The weights behind MetresOn, and how they add up.
Part(S) == [e \in Edges |-> IF e \in S THEN LengthM[e] ELSE 0]

LEMMA PartFacts ==
  ASSUME NEW S
  PROVE  /\ Part(S) \in [Edges -> Nat]
         /\ \A w \in Seq(Edges) : MetresOn(w, S) = Weigh(Part(S), w)
<1>1. Part(S) \in [Edges -> Nat]
  BY GraphAssumption DEF Part
<1>2. ASSUME NEW w \in Seq(Edges) PROVE MetresOn(w, S) = Weigh(Part(S), w)
  <2>1. \A i \in 1 .. Len(w) : w[i] \in Edges
    OBVIOUS
  <2>2. [i \in 1 .. Len(w) |-> IF w[i] \in S THEN LengthM[w[i]] ELSE 0]
          = [i \in 1 .. Len(w) |-> Part(S)[w[i]]]
    BY <2>1 DEF Part
  <2> QED  BY <2>2 DEF MetresOn, Weigh
<1> QED  BY <1>1, <1>2

LEMMA WeighPlus ==
  ASSUME NEW a \in [Edges -> Nat], NEW b \in [Edges -> Nat], NEW c \in [Edges -> Nat],
         NEW w \in Seq(Edges), \A e \in Edges : c[e] = a[e] + b[e]
  PROVE  Weigh(c, w) = Weigh(a, w) + Weigh(b, w)
<1> DEFINE s == [i \in 1 .. Len(w) |-> a[w[i]]]
           t == [i \in 1 .. Len(w) |-> b[w[i]]]
           u == [i \in 1 .. Len(w) |-> c[w[i]]]
<1>1. /\ Len(s) \in Nat /\ Len(t) = Len(s) /\ Len(u) = Len(s)
      /\ \A i \in 1 .. Len(s) : s[i] \in Nat /\ t[i] \in Nat /\ u[i] = s[i] + t[i]
  OBVIOUS
<1> HIDE DEF s, t, u
<1>2. SumUp(u) = SumUp(s) + SumUp(t)
  BY <1>1, SumPlus
<1> QED  BY <1>2 DEF Weigh, s, t, u

LEMMA SumFour ==
  ASSUME NEW s, Len(s) = 4, \A i \in 1 .. 4 : s[i] \in Nat
  PROVE  SumUp(s) = s[1] + s[2] + s[3] + s[4]
<1>1. PICK g : /\ g[0] = 0 /\ \A i \in 1 .. Len(s) : g[i] = g[i - 1] + s[i]
               /\ SumUp(s) = g[Len(s)]
  BY SumUnfolds
<1>2. g[1] = g[0] + s[1] /\ g[2] = g[1] + s[2] /\ g[3] = g[2] + s[3] /\ g[4] = g[3] + s[4]
  BY <1>1
<1> QED  BY <1>1, <1>2

LEMMA SumFive ==
  ASSUME NEW s, Len(s) = 5, \A i \in 1 .. 5 : s[i] \in Nat
  PROVE  SumUp(s) = s[1] + s[2] + s[3] + s[4] + s[5]
<1>1. PICK g : /\ g[0] = 0 /\ \A i \in 1 .. Len(s) : g[i] = g[i - 1] + s[i]
               /\ SumUp(s) = g[Len(s)]
  BY SumUnfolds
<1>2. /\ g[1] = g[0] + s[1] /\ g[2] = g[1] + s[2] /\ g[3] = g[2] + s[3]
      /\ g[4] = g[3] + s[4] /\ g[5] = g[4] + s[5]
  BY <1>1
<1> QED  BY <1>1, <1>2

LEMMA MetresUnion ==
  ASSUME NEW A, NEW B, NEW w \in Seq(Edges), A \intersect B = {}
  PROVE  MetresOn(w, A \union B) = MetresOn(w, A) + MetresOn(w, B)
<1>1. /\ Part(A) \in [Edges -> Nat] /\ Part(B) \in [Edges -> Nat]
      /\ Part(A \union B) \in [Edges -> Nat]
      /\ MetresOn(w, A) = Weigh(Part(A), w) /\ MetresOn(w, B) = Weigh(Part(B), w)
      /\ MetresOn(w, A \union B) = Weigh(Part(A \union B), w)
  BY PartFacts
<1>2. ASSUME NEW e \in Edges PROVE Part(A \union B)[e] = Part(A)[e] + Part(B)[e]
  BY GraphAssumption DEF Part
<1> DEFINE a == Part(A)
           b == Part(B)
           c == Part(A \union B)
<1>3. /\ a \in [Edges -> Nat] /\ b \in [Edges -> Nat] /\ c \in [Edges -> Nat]
      /\ \A e \in Edges : c[e] = a[e] + b[e]
  BY <1>1, <1>2
<1> HIDE DEF a, b, c
<1>4. Weigh(c, w) = Weigh(a, w) + Weigh(b, w)
  BY ZenonT(30), <1>3, WeighPlus
<1> QED  BY <1>1, <1>4 DEF a, b, c

LEMMA MetresAll ==
  ASSUME NEW w \in Seq(Edges)
  PROVE  MetresOn(w, Edges) = WalkLength(w) /\ MetresOn(w, {}) = 0
<1>1. \A i \in 1 .. Len(w) : w[i] \in Edges
  OBVIOUS
<1>2. [i \in 1 .. Len(w) |-> IF w[i] \in Edges THEN LengthM[w[i]] ELSE 0]
        = [i \in 1 .. Len(w) |-> LengthM[w[i]]]
  BY <1>1
<1>3. MetresOn(w, Edges) = WalkLength(w)
  BY <1>2 DEF MetresOn, WalkLength
<1>4. MetresOn(w, {}) = 0
  <2> DEFINE s == [i \in 1 .. Len(w) |-> IF w[i] \in {} THEN LengthM[w[i]] ELSE 0]
  <2>1. Len(s) \in Nat /\ \A i \in 1 .. Len(s) : s[i] = 0
    OBVIOUS
  <2> HIDE DEF s
  <2>2. SumUp(s) = 0
    BY <2>1, SumZero
  <2> QED  BY <2>2 DEF MetresOn, s
<1> QED  BY <1>3, <1>4

LEMMA MetresInFive ==
  ASSUME NEW A, NEW B, NEW C, NEW D, NEW E, NEW S, NEW w \in Seq(Edges),
         S = (((A \union B) \union C) \union D) \union E,
         A \intersect B = {}, (A \union B) \intersect C = {},
         ((A \union B) \union C) \intersect D = {},
         (((A \union B) \union C) \union D) \intersect E = {}
  PROVE  MetresOn(w, S) = MetresOn(w, A) + MetresOn(w, B) + MetresOn(w, C)
                          + MetresOn(w, D) + MetresOn(w, E)
<1>1. MetresOn(w, A \union B) = MetresOn(w, A) + MetresOn(w, B)
  BY MetresUnion
<1>2. MetresOn(w, (A \union B) \union C) = MetresOn(w, A \union B) + MetresOn(w, C)
  BY MetresUnion
<1>3. MetresOn(w, ((A \union B) \union C) \union D)
        = MetresOn(w, (A \union B) \union C) + MetresOn(w, D)
  BY MetresUnion
<1>4. MetresOn(w, S) = MetresOn(w, ((A \union B) \union C) \union D) + MetresOn(w, E)
  BY MetresUnion
<1> QED  BY <1>1, <1>2, <1>3, <1>4

\* The edges of one stress level.
Level(l) == {e \in Edges : LTS[e] = l}

\* The breakdown accounts for every metre, and for every stressful one.
LEMMA BreakdownAdds ==
  ASSUME NEW w \in Seq(Edges), NEW hz, NEW p, Valid(p)
  PROVE  LET byLTS == Summarise(hz, w).byLTS
         IN  /\ WalkLength(w) = SumUp([l \in 1 .. 5 |-> byLTS[l - 1]])
             /\ MetresOn(w, Over(p))
                  = SumUp([l \in 1 .. 4 |-> IF l > p.maxLTS THEN byLTS[l] ELSE 0])
<1> DEFINE byLTS == Summarise(hz, w).byLTS
           s == [l \in 1 .. 5 |-> byLTS[l - 1]]
           t == [l \in 1 .. 4 |-> IF l > p.maxLTS THEN byLTS[l] ELSE 0]
           B(l) == IF l > p.maxLTS THEN Level(l) ELSE {}
<1>1. \A e \in Edges : LTS[e] \in {0, 1, 2, 3, 4}
  BY AttributesAssumption
<1>2. \A l \in 0 .. 4 : byLTS[l] = MetresOn(w, Level(l))
  BY DEF Summarise, Level
<1>3. \A S : MetresOn(w, S) \in Nat
  BY WalkNumbers
<1>4. \A l, m : l # m => Level(l) \intersect Level(m) = {}
  BY DEF Level
<1>5. Edges = (((Level(0) \union Level(1)) \union Level(2)) \union Level(3)) \union Level(4)
  BY <1>1 DEF Level
<1>6. WalkLength(w) = MetresOn(w, Level(0)) + MetresOn(w, Level(1)) + MetresOn(w, Level(2))
                      + MetresOn(w, Level(3)) + MetresOn(w, Level(4))
  <2>1. /\ Level(0) \intersect Level(1) = {}
        /\ (Level(0) \union Level(1)) \intersect Level(2) = {}
        /\ ((Level(0) \union Level(1)) \union Level(2)) \intersect Level(3) = {}
        /\ (((Level(0) \union Level(1)) \union Level(2)) \union Level(3)) \intersect Level(4) = {}
    BY DEF Level
  <2>2. MetresOn(w, Edges) = MetresOn(w, Level(0)) + MetresOn(w, Level(1))
          + MetresOn(w, Level(2)) + MetresOn(w, Level(3)) + MetresOn(w, Level(4))
    BY <1>5, <2>1, MetresInFive
  <2> QED  BY <2>2, MetresAll
<1> HIDE DEF byLTS
<1>7. WalkLength(w) = SumUp(s)
  <2>1. /\ Len(s) = 5
        /\ s[1] = MetresOn(w, Level(0)) /\ s[2] = MetresOn(w, Level(1))
        /\ s[3] = MetresOn(w, Level(2)) /\ s[4] = MetresOn(w, Level(3))
        /\ s[5] = MetresOn(w, Level(4))
    BY <1>2
  <2>2. \A i \in 1 .. 5 : s[i] \in Nat
    <3>1. \A i \in 1 .. 5 : i = 1 \/ i = 2 \/ i = 3 \/ i = 4 \/ i = 5
      OBVIOUS
    <3> HIDE DEF s
    <3> QED  BY <1>3, <2>1, <3>1
  <2> HIDE DEF s
  <2>3. SumUp(s) = s[1] + s[2] + s[3] + s[4] + s[5]
    BY <2>1, <2>2, SumFive
  <2> QED  BY <1>6, <2>1, <2>3
<1>8. p.maxLTS \in 1 .. 4
  BY DEF Valid
<1>9. Over(p) = ((({} \union B(1)) \union B(2)) \union B(3)) \union B(4)
  BY <1>1, <1>8 DEF Over, Level
<1>10. MetresOn(w, Over(p)) = MetresOn(w, B(1)) + MetresOn(w, B(2)) + MetresOn(w, B(3))
                              + MetresOn(w, B(4))
  <2>1. /\ ({} \union B(1)) \intersect B(2) = {}
        /\ (({} \union B(1)) \union B(2)) \intersect B(3) = {}
        /\ ((({} \union B(1)) \union B(2)) \union B(3)) \intersect B(4) = {}
        /\ {} \intersect B(1) = {}
    BY DEF Level
  <2> HIDE DEF B
  <2>2. MetresOn(w, Over(p)) = MetresOn(w, {}) + MetresOn(w, B(1)) + MetresOn(w, B(2))
                               + MetresOn(w, B(3)) + MetresOn(w, B(4))
    BY <1>9, <2>1, MetresInFive
  <2> QED  BY <1>3, <2>2, MetresAll
<1>11. ASSUME NEW l \in 1 .. 4 PROVE MetresOn(w, B(l)) = t[l] /\ t[l] \in Nat
  <2>1. t[l] = IF l > p.maxLTS THEN byLTS[l] ELSE 0
    OBVIOUS
  <2>2. byLTS[l] = MetresOn(w, Level(l))
    BY <1>2
  <2> HIDE DEF t
  <2> QED  BY <1>3, <2>1, <2>2, MetresAll
<1>12. MetresOn(w, Over(p)) = SumUp(t)
  <2>1. Len(t) = 4
    OBVIOUS
  <2>2. \A i \in 1 .. 4 : t[i] \in Nat
    BY <1>11
  <2>3. MetresOn(w, B(1)) = t[1] /\ MetresOn(w, B(2)) = t[2] /\ MetresOn(w, B(3)) = t[3]
        /\ MetresOn(w, B(4)) = t[4]
    BY <1>11
  <2> HIDE DEF t, B
  <2>4. SumUp(t) = t[1] + t[2] + t[3] + t[4]
    BY <2>1, <2>2, SumFour
  <2> QED  BY <1>10, <2>3, <2>4
<1> QED  BY <1>7, <1>12 DEF byLTS

\* What a leg says of its stress and its cost.
LEMMA LegSays ==
  ASSUME NEW p, Valid(p), NEW hz, NEW n, NEW m, NEW a \in Answers(Leg(p, hz, n, m))
  PROVE  /\ a.usedM = MetresOn(a.edges, Over(p)) /\ a.usedM <= p.budgetM
         /\ a.usedM \in Nat /\ a.cost \in Nat
         /\ a.lengthM = WalkLength(a.edges) /\ a.lengthM \in Nat /\ a.cost >= a.lengthM
         /\ a.edges \in Seq(Edges)
         /\ p.budgetM = 0 => Range(a.edges) \subseteq Edges \ Over(p)
<1> DEFINE r == Leg(p, hz, n, m)
<1>1. Sensible(r) /\ r.budgetM \in Nat /\ r.budgetM = p.budgetM
      /\ r.start = n /\ r.goal = m
  BY LegSensible
<1>2. /\ r.hasOver = TRUE /\ r.over = Over(p) /\ r.allow = Allow(p)
      /\ \A e \in Edges : r.edgeCost[e] = EdgeCost(p, hz, e)
  BY DEF Leg
<1>3. a \in Answers(r)
  OBVIOUS
<1> HIDE DEF r
<1>4. /\ a.edges \in Seq(Edges) /\ Range(a.edges) \subseteq Edges
      /\ a.cost \in Nat /\ a.lengthM \in Nat /\ a.usedM \in Nat
      /\ a.usedM <= p.budgetM
      /\ a.lengthM = WalkLength(a.edges)
      /\ a.usedM = WalkUsed(r, a.edges)
  BY <1>1, <1>3, AnswerTypes
<1>5. WalkUsed(r, a.edges) = MetresOn(a.edges, Over(p))
  <2>1. \A e : Spend(r, e, 0) = IF e \in Over(p) THEN 0 + LengthM[e] ELSE 0
    BY <1>2 DEF Spend, IsOver
  <2> DEFINE w == a.edges
  <2>2. \A i \in 1 .. Len(w) : w[i] \in Edges
    BY <1>4
  <2>3. \A e \in Edges : LengthM[e] \in Nat
    BY GraphAssumption
  <2> HIDE DEF w
  <2>4. [i \in 1 .. Len(w) |-> Spend(r, w[i], 0)]
          = [i \in 1 .. Len(w) |-> IF w[i] \in Over(p) THEN LengthM[w[i]] ELSE 0]
    BY <2>1, <2>2, <2>3
  <2>5. WalkUsed(r, w) = MetresOn(w, Over(p))
    BY <2>4 DEF WalkUsed, MetresOn
  <2> QED  BY <2>5 DEF w
<1>6. CASE n = m
  <2>1. a = Bare("path")
    BY <1>1, <1>3, <1>6, AnswerFacts
  <2>2. a.edges = <<>> /\ a.cost = 0 /\ a.lengthM = 0
    BY <2>1 DEF Bare, NoResult
  <2>3. Range(a.edges) = {}
    BY <2>2 DEF Range
  <2> QED  BY <1>4, <1>5, <2>2, <2>3
<1>7. CASE n # m
  <2>1. PICK w \in Candidates(r) : a.edges = w /\ a.cost = WalkCost(r, w)
    BY <1>1, <1>3, <1>7, AnswerFacts
  <2>2. w \in Seq(Edges) /\ Range(w) \subseteq Allow(p) /\ Len(w) \in Nat \ {0}
    BY <1>2, CandidateFacts
  <2>3. p.budgetM = 0 => Allow(p) = Edges \ Over(p)
    BY DEF Allow
  <2> DEFINE s == [i \in 1 .. Len(w) |-> LengthM[w[i]]]
             t == [i \in 1 .. Len(w) |-> r.edgeCost[w[i]]]
             u == [i \in 1 .. Len(w) - 1 |-> r.turnCost[<<w[i], w[i + 1]>>]]
  <2>4. \A i \in 1 .. Len(w) : w[i] \in Edges
    BY <2>2
  <2>5. /\ Len(s) \in Nat /\ Len(t) = Len(s)
        /\ \A i \in 1 .. Len(s) : s[i] \in Nat /\ t[i] \in Nat /\ s[i] <= t[i]
    <3>1. \A e \in Edges : LengthM[e] \in Nat /\ r.edgeCost[e] \in Nat
                           /\ LengthM[e] <= r.edgeCost[e]
      <4> SUFFICES ASSUME NEW e \in Edges
                   PROVE  LengthM[e] \in Nat /\ r.edgeCost[e] \in Nat
                          /\ LengthM[e] <= r.edgeCost[e]
        OBVIOUS
      <4>1. LengthM[e] \in Nat
        BY GraphAssumption
      <4>2. EdgeCost(p, hz, e) \in Nat /\ EdgeCost(p, hz, e) >= LengthM[e]
        BY EdgeCostAtLeast
      <4> QED  BY <1>2, <4>1, <4>2
    <3> QED  BY <2>2, <2>4, <3>1
  <2>6. SumUp(u) \in Nat
    <3>1. Len(u) = Len(w) - 1 /\ Len(u) \in Nat
      BY <2>2
    <3>2. ASSUME NEW i \in 1 .. Len(u) PROVE u[i] \in Nat
      <4>1. i \in 1 .. Len(w) - 1 /\ i \in 1 .. Len(w) /\ i + 1 \in 1 .. Len(w)
        <5> HIDE DEF u
        <5> QED  BY <2>2, <3>1
      <4>2. <<w[i], w[i + 1]>> \in Edges \X Edges
        BY <2>4, <4>1
      <4>3. r.turnCost \in [Edges \X Edges -> Nat]
        BY <1>1 DEF Sensible
      <4> QED  BY <4>1, <4>2, <4>3
    <3> HIDE DEF u
    <3> QED  BY <3>1, <3>2, SumNat
  <2>7. WalkLength(w) = SumUp(s) /\ WalkCost(r, w) = SumUp(t) + SumUp(u)
    BY DEF WalkLength, WalkCost
  <2> HIDE DEF s, t, u
  <2>8. SumUp(s) <= SumUp(t) /\ SumUp(s) \in Nat /\ SumUp(t) \in Nat
    BY <2>5, SumMonotone, SumNat
  <2>9. a.cost >= a.lengthM
    BY <1>4, <2>1, <2>6, <2>7, <2>8
  <2>10. p.budgetM = 0 => Range(a.edges) \subseteq Edges \ Over(p)
    BY <2>1, <2>2, <2>3
  <2> QED  BY <1>4, <1>5, <2>9, <2>10
<1> QED  BY <1>6, <1>7

(* A 200 speaks the truth about its route: where it leads, how long it is, *)
(* what it costs, and how much of it is stressful.                         *)
THEOREM RouteSpeaksTrue == Spec => []RouteSpeaksTruth
<1>1. PlanInv => RouteSpeaksTruth
  <2> DEFINE w == resp.edges
             p == plan.profile
             byLTS == resp.breakdown.byLTS
  <2> SUFFICES ASSUME PlanInv, Planned
               PROVE  /\ IsWalk(w)
                      /\ From[w[1]] = snaps[1] /\ To[Last(w)] = Last(snaps)
                      /\ \A i \in 2 .. Len(snaps) - 1 : \E j \in 0 .. Len(w) :
                           j = Len(AllEdges(SubSeq(legs, 1, i - 1))) /\
                           (IF j = 0 THEN From[w[1]] ELSE To[w[j]]) = snaps[i]
                      /\ resp.lengthM = WalkLength(w)
                      /\ resp.usedM = MetresOn(w, Over(p))
                      /\ resp.usedM <= p.budgetM * Len(legs)
                      /\ (p.budgetM = 0) => Range(w) \intersect Over(p) = {}
                      /\ resp.cost >= resp.lengthM
                      /\ resp.lengthM = SumUp([l \in 1 .. 5 |-> byLTS[l - 1]])
                      /\ resp.usedM = SumUp([l \in 1 .. 4 |-> IF l > p.maxLTS THEN byLTS[l]
                                                              ELSE 0])
    BY DEF RouteSpeaksTruth
  <2>1. /\ Shapes /\ LegsFound /\ Described /\ Valid(p)
        /\ Len(snaps) >= 2 /\ Len(legs) = Len(snaps) - 1 /\ AllEdges(legs) # <<>>
    BY PlannedFacts
  <2>2. snaps \in Seq(Nodes) /\ Len(snaps) \in Nat /\ legs \in Seq(AnswerType)
        /\ Len(legs) \in Nat \ {0}
    <3>1. snaps \in Seq(Nodes) /\ legs \in Seq(AnswerType)
      BY <2>1 DEF Shapes
    <3>2. Len(snaps) \in Nat /\ Len(legs) \in Nat
      BY <3>1, SeqFacts
    <3> HIDE DEF p
    <3> QED  BY <2>1, <3>1, <3>2
  <2>3. /\ w = AllEdges(legs) /\ resp.lengthM = Length(legs) /\ resp.cost = Cost(legs)
        /\ resp.usedM = Used(legs) /\ resp.breakdown = Summarise(hazardScores, w)
    BY <2>1 DEF Described
  <2>4. LengthM \in [Edges -> Nat] /\ Part(Over(p)) \in [Edges -> Nat] /\ p.budgetM \in Nat
    BY <2>1, GraphAssumption, PartFacts DEF Valid
  <2>5. w \in Seq(Edges) /\ w # <<>> /\ Len(w) \in Nat
    <3>1. AllEdges(legs) \in Seq(Edges)
      BY <2>2, <2>4, WeighLegs
    <3> QED  BY <2>1, <2>3, <3>1
  <2>6. ASSUME NEW i \in 1 .. Len(legs)
        PROVE  LET a == legs[i]
               IN  /\ a.usedM = MetresOn(a.edges, Over(p)) /\ a.usedM <= p.budgetM
                   /\ a.usedM \in Nat /\ a.cost \in Nat
                   /\ a.lengthM = WalkLength(a.edges) /\ a.lengthM \in Nat
                   /\ a.cost >= a.lengthM
                   /\ a.edges \in Seq(Edges)
                   /\ p.budgetM = 0 => Range(a.edges) \subseteq Edges \ Over(p)
    <3>1. legs[i] \in Answers(Leg(p, hazardScores, snaps[i], snaps[i + 1]))
      BY <2>1 DEF LegsFound, OptsOf
    <3> HIDE DEF p
    <3> QED  BY <2>1, <3>1, LegSays
  <2>7. \A k \in 0 .. Len(legs) : Leads(AllEdges(Upto(legs, k)), snaps[1], snaps[k + 1])
    <3>1. \A i \in 1 .. Len(legs) : Leads(legs[i].edges, snaps[i], snaps[i + 1])
      BY <2>1, LegsLead
    <3> QED  BY <2>2, <3>1, Chained
  <2>8. IsWalk(w) /\ From[w[1]] = snaps[1] /\ To[Last(w)] = Last(snaps)
    <3>1. Len(legs) \in 0 .. Len(legs) /\ Len(legs) + 1 = Len(snaps)
      BY <2>1, <2>2
    <3>2. Leads(AllEdges(Upto(legs, Len(legs))), snaps[1], snaps[Len(legs) + 1])
      BY <2>7, <3>1
    <3>3. Upto(legs, Len(legs)) = legs
      BY <2>2, <3>1, UptoFacts
    <3>4. Leads(AllEdges(legs), snaps[1], Last(snaps))
      BY <3>1, <3>2, <3>3 DEF Last
    <3>5. Leads(w, snaps[1], Last(snaps))
      BY <2>3, <3>4
    <3> HIDE DEF w
    <3> QED  BY <2>5, <3>5 DEF Leads
  <2>9. ASSUME NEW i \in 2 .. Len(snaps) - 1
        PROVE  \E j \in 0 .. Len(w) :
                 j = Len(AllEdges(SubSeq(legs, 1, i - 1))) /\
                 (IF j = 0 THEN From[w[1]] ELSE To[w[j]]) = snaps[i]
    <3> DEFINE v == AllEdges(Upto(legs, i - 1))
    <3>1. i - 1 \in 0 .. Len(legs) /\ (i - 1) + 1 = i
      BY <2>1, <2>2
    <3>2. Leads(v, snaps[1], snaps[i])
      BY <2>7, <3>1
    <3>3. Starts(v, w)
      BY <2>2, <2>3, <3>1, LegsStart
    <3>4. v = AllEdges(SubSeq(legs, 1, i - 1))
      BY DEF Upto
    <3> HIDE DEF v, w
    <3>5. Len(v) \in 0 .. Len(w) /\ \A j \in 1 .. Len(v) : w[j] = v[j]
      BY <3>3 DEF Starts
    <3>6. CASE v = <<>>
      <4>1. Len(v) = 0
        BY <3>6
      <4>2. From[w[1]] = snaps[i]
        BY <2>8, <3>2, <3>6 DEF Leads
      <4> QED  BY <3>4, <3>5, <4>1, <4>2
    <3>7. CASE v # <<>>
      <4>1. v \in Seq(Edges) /\ To[Last(v)] = snaps[i]
        BY <3>2, <3>7 DEF Leads
      <4>2. Len(v) \in 1 .. Len(v)
        BY <3>7, <4>1
      <4>3. To[w[Len(v)]] = snaps[i] /\ Len(v) # 0
        BY <3>5, <4>1, <4>2 DEF Last
      <4> QED  BY <3>4, <3>5, <4>3
    <3> QED  BY <3>6, <3>7
  <2>10. resp.lengthM = WalkLength(w)
    <3>1. \A i \in 1 .. Len(legs) : legs[i].lengthM = WalkLength(legs[i].edges)
      BY <2>6
    <3> QED  BY <2>2, <2>3, <3>1, LengthOfLegs
  <2> DEFINE used == [i \in 1 .. Len(legs) |-> legs[i].usedM]
             cost == [i \in 1 .. Len(legs) |-> legs[i].cost]
             metres == [i \in 1 .. Len(legs) |-> legs[i].lengthM]
             part == Part(Over(p))
  <2>11. resp.usedM = MetresOn(w, Over(p))
    <3>1. \A v \in Seq(Edges) : MetresOn(v, Over(p)) = Weigh(part, v)
      BY PartFacts
    <3>2. Weigh(part, AllEdges(legs)) = SumUp([i \in 1 .. Len(legs) |-> Weigh(part, legs[i].edges)])
      BY <2>2, <2>4, WeighLegs
    <3> HIDE DEF part
    <3>3. used = [i \in 1 .. Len(legs) |-> Weigh(part, legs[i].edges)]
      BY <2>6, <3>1
    <3>4. Used(legs) = SumUp(used)
      BY DEF Used
    <3> HIDE DEF used, p, w
    <3> QED  BY <2>3, <2>5, <3>1, <3>2, <3>3, <3>4
  <2>12. resp.usedM <= p.budgetM * Len(legs)
    <3>1. Len(used) = Len(legs) /\ Used(legs) = SumUp(used)
      BY DEF Used
    <3>2. \A i \in 1 .. Len(used) : used[i] \in Nat /\ used[i] <= p.budgetM
      BY <2>6
    <3> HIDE DEF used, p
    <3>3. SumUp(used) <= p.budgetM * Len(used)
      BY <2>2, <2>4, <3>1, <3>2, SumAtMost
    <3> QED  BY <2>3, <3>1, <3>3
  <2>13. (p.budgetM = 0) => Range(w) \intersect Over(p) = {}
    <3> SUFFICES ASSUME p.budgetM = 0 PROVE Range(w) \intersect Over(p) = {}
      OBVIOUS
    <3> DEFINE S == Edges \ Over(p)
    <3>1. \A i \in 1 .. Len(legs) : Range(legs[i].edges) \subseteq S
      BY <2>6
    <3>2. S \intersect Over(p) = {}
      OBVIOUS
    <3> HIDE DEF S
    <3>3. Range(AllEdges(legs)) \subseteq S
      BY <2>2, <3>1, EdgesOfLegs
    <3> QED  BY <2>3, <3>2, <3>3
  <2>14. resp.cost >= resp.lengthM
    <3>1. Cost(legs) = SumUp(cost) /\ Length(legs) = SumUp(metres)
      BY DEF Cost, Length
    <3>2. /\ Len(metres) \in Nat /\ Len(cost) = Len(metres)
          /\ \A i \in 1 .. Len(metres) : metres[i] \in Nat /\ cost[i] \in Nat
                                         /\ metres[i] <= cost[i]
      BY <2>2, <2>6
    <3> HIDE DEF cost, metres
    <3>3. SumUp(metres) <= SumUp(cost) /\ SumUp(metres) \in Nat /\ SumUp(cost) \in Nat
      BY <3>2, SumMonotone, SumNat
    <3> QED  BY <2>3, <3>1, <3>3
  <2>15. /\ WalkLength(w) = SumUp([l \in 1 .. 5 |-> byLTS[l - 1]])
         /\ MetresOn(w, Over(p))
              = SumUp([l \in 1 .. 4 |-> IF l > p.maxLTS THEN byLTS[l] ELSE 0])
    <3>1. byLTS = Summarise(hazardScores, w).byLTS
      BY <2>3
    <3> HIDE DEF p, w, byLTS
    <3> QED  BY <2>1, <2>5, <3>1, BreakdownAdds
  <2> HIDE DEF w, p, byLTS
  <2> QED  BY <2>8, <2>9, <2>10, <2>11, <2>12, <2>13, <2>14, <2>15
<1> QED  BY <1>1, PlanInvariant, PTL

-----------------------------------------------------------------------------
(* The line drawn, and the segments it is cut into.                        *)

Drawing(g, w, k) == [i \in 0 .. k |-> IF i = 0 THEN Undrawn ELSE Grow(g[i - 1], w[i])]

LEMMA DrawingUnfolds ==
  ASSUME NEW w, Len(w) \in Nat
  PROVE  \E g : /\ g[0] = Undrawn /\ \A i \in 1 .. Len(w) : g[i] = Grow(g[i - 1], w[i])
                /\ assemble(w) = g[Len(w)]
<1> DEFINE T == {k \in Nat : \E g : g = Drawing(g, w, k)}
<1>1. 0 \in T
  <2> DEFINE g == [i \in 0 .. 0 |-> Undrawn]
  <2>1. g = Drawing(g, w, 0)
    BY DEF Drawing
  <2> HIDE DEF g
  <2> QED  BY <2>1
<1>2. ASSUME NEW k \in T PROVE k + 1 \in T
  <2>1. PICK g : g = Drawing(g, w, k)
    OBVIOUS
  <2> DEFINE h == [i \in 0 .. k + 1 |-> IF i \in 0 .. k THEN g[i]
                                        ELSE IF i = 0 THEN Undrawn ELSE Grow(g[i - 1], w[i])]
  <2>2. ASSUME NEW i \in 0 .. k + 1
        PROVE  h[i] = IF i = 0 THEN Undrawn ELSE Grow(h[i - 1], w[i])
    <3>1. h[i] = IF i \in 0 .. k THEN g[i] ELSE IF i = 0 THEN Undrawn ELSE Grow(g[i - 1], w[i])
      OBVIOUS
    <3>2. i = 0 \/ (i - 1 \in 0 .. k /\ i - 1 \in 0 .. k + 1)
      OBVIOUS
    <3>3. i - 1 \in 0 .. k => h[i - 1] = g[i - 1]
      OBVIOUS
    <3>4. i \in 0 .. k => g[i] = IF i = 0 THEN Undrawn ELSE Grow(g[i - 1], w[i])
      BY <2>1 DEF Drawing
    <3> HIDE DEF h
    <3> QED  BY <3>1, <3>2, <3>3, <3>4
  <2>3. h = [i \in 0 .. k + 1 |-> h[i]]
    OBVIOUS
  <2> HIDE DEF h
  <2>4. h = Drawing(h, w, k + 1)
    BY <2>2, <2>3 DEF Drawing
  <2> QED  BY <2>4
<1> HIDE DEF T
<1>3. T = Nat  BY <1>1, <1>2, Induct DEF T
<1> DEFINE f == CHOOSE g : g = [i \in 0 .. Len(w) |-> IF i = 0 THEN Undrawn
                                                      ELSE Grow(g[i - 1], w[i])]
<1>4. f = [i \in 0 .. Len(w) |-> IF i = 0 THEN Undrawn ELSE Grow(f[i - 1], w[i])]
  <2>1. \E g : g = [i \in 0 .. Len(w) |-> IF i = 0 THEN Undrawn ELSE Grow(g[i - 1], w[i])]
    BY <1>3 DEF T, Drawing
  <2> QED  BY <2>1
<1>5. assemble(w) = f[Len(w)]
  BY DEF assemble
<1> HIDE DEF f
<1>6. f[0] = Undrawn /\ \A i \in 1 .. Len(w) : f[i] = Grow(f[i - 1], w[i])
  <2>1. 0 \in 0 .. Len(w) /\ \A i \in 1 .. Len(w) : i \in 0 .. Len(w) /\ i # 0
    OBVIOUS
  <2> QED  BY <1>4, <2>1
<1> QED  BY <1>5, <1>6

\* The line a carries the polyline s between its i-th offset and the next.
Carries(a, i, s) ==
  /\ a.offs[i + 1] = a.offs[i] + Len(s) - 1
  /\ a.offs[i + 1] < Len(a.pts)
  /\ \A j \in 1 .. Len(s) : a.pts[a.offs[i] + j] = s[j]

\* What has been drawn after k edges of w.
DrawnUpto(a, w, k) ==
  /\ a.pts \in Seq(Points) /\ a.offs \in Seq(Nat)
  /\ Len(a.offs) = k + 1 /\ a.offs[1] = 0
  /\ k = 0 => a.pts = <<>>
  /\ k # 0 => /\ a.offs[k + 1] = Len(a.pts) - 1
              /\ a.pts[Len(a.pts)] = Last(Shape[w[k]])
  /\ \A i \in 1 .. k : Carries(a, i, Shape[w[i]])

LEMMA JoinedFacts ==
  ASSUME NEW p \in Seq(Points), NEW s \in Seq(Points), Len(s) >= 2,
         p # <<>> => p[Len(p)] = s[1]
  PROVE  LET out == Joined(p, s)
             b == IF p = <<>> THEN 0 ELSE Len(p) - 1
         IN  /\ out \in Seq(Points) /\ Len(out) = b + Len(s) /\ b \in Nat
             /\ EndOf(out) = b + (Len(s) - 1)
             /\ \A i \in 1 .. Len(p) : out[i] = p[i]
             /\ \A j \in 1 .. Len(s) : out[b + j] = s[j]
<1> DEFINE out == Joined(p, s)
           b == IF p = <<>> THEN 0 ELSE Len(p) - 1
<1>1. s # <<>> /\ Len(p) \in Nat /\ Len(s) \in Nat
  OBVIOUS
<1>2. CASE p = <<>>
  <2>1. out = <<>> \o s
    BY <1>2 DEF Joined
  <2>2. out = s
    BY <2>1
  <2>3. EndOf(out) = Len(s) - 1 /\ b = 0 /\ Len(p) = 0
    BY <1>1, <1>2, <2>2 DEF EndOf
  <2> HIDE DEF out, b
  <2>4. /\ out \in Seq(Points) /\ Len(out) = b + Len(s) /\ b \in Nat
        /\ EndOf(out) = b + (Len(s) - 1)
        /\ \A i \in 1 .. Len(p) : out[i] = p[i]
        /\ \A j \in 1 .. Len(s) : out[b + j] = s[j]
    BY <1>1, <2>2, <2>3
  <2> QED  BY <2>4 DEF out, b
<1>3. CASE p # <<>>
  <2> DEFINE t == Tail(s)
  <2>1. out = p \o t
    BY <1>1, <1>3 DEF Joined
  <2>2. t \in Seq(Points) /\ Len(t) = Len(s) - 1 /\ \A j \in 1 .. Len(s) - 1 : t[j] = s[j + 1]
    BY <1>1
  <2>3. Len(p) >= 1 /\ b = Len(p) - 1 /\ b \in Nat
    BY <1>1, <1>3
  <2> HIDE DEF t, out, b
  <2>4. /\ out \in Seq(Points) /\ Len(out) = Len(p) + Len(t)
        /\ \A i \in 1 .. Len(p) : out[i] = p[i]
        /\ \A i \in Len(p) + 1 .. Len(p) + Len(t) : out[i] = t[i - Len(p)]
    <3>1. /\ p \o t \in Seq(Points) /\ Len(p \o t) = Len(p) + Len(t)
          /\ \A i \in 1 .. Len(p) : (p \o t)[i] = p[i]
          /\ \A i \in Len(p) + 1 .. Len(p) + Len(t) : (p \o t)[i] = t[i - Len(p)]
      <4>1. p \in Seq(Points) /\ t \in Seq(Points)
        BY <2>2
      <4> QED  BY <4>1
    <3> QED  BY <2>1, <3>1
  <2>5. Len(out) = b + Len(s)
    BY <1>1, <2>2, <2>3, <2>4
  <2>6. ASSUME NEW j \in 1 .. Len(s) PROVE out[b + j] = s[j]
    <3>1. CASE j = 1
      <4>1. b + j = Len(p) /\ Len(p) \in 1 .. Len(p)
        BY <1>1, <2>3, <3>1
      <4> QED  BY <1>3, <2>4, <3>1, <4>1
    <3>2. CASE j # 1
      <4>1. /\ b + j \in Len(p) + 1 .. Len(p) + Len(t) /\ (b + j) - Len(p) = j - 1
            /\ j - 1 \in 1 .. Len(s) - 1 /\ (j - 1) + 1 = j
        BY <1>1, <2>2, <2>3, <3>2
      <4>2. out[b + j] = t[j - 1] /\ t[j - 1] = s[(j - 1) + 1]
        BY <2>2, <2>4, <4>1
      <4> QED  BY <4>1, <4>2
    <3> QED  BY <3>1, <3>2
  <2>7. EndOf(out) = b + (Len(s) - 1)
    <3>1. out # <<>>
      BY <1>1, <2>3, <2>5
    <3> QED  BY <1>1, <2>3, <2>5, <3>1 DEF EndOf
  <2>8. /\ out \in Seq(Points) /\ Len(out) = b + Len(s) /\ b \in Nat
        /\ EndOf(out) = b + (Len(s) - 1)
        /\ \A i \in 1 .. Len(p) : out[i] = p[i]
        /\ \A j \in 1 .. Len(s) : out[b + j] = s[j]
    BY <2>3, <2>4, <2>5, <2>6, <2>7
  <2> QED  BY <2>8 DEF out, b
<1> QED  BY <1>2, <1>3

LEMMA DrawOn ==
  ASSUME NEW w \in Seq(Edges), IsWalk(w), NEW k \in Nat, k + 1 <= Len(w),
         NEW a, DrawnUpto(a, w, k)
  PROVE  DrawnUpto(Grow(a, w[k + 1]), w, k + 1)
<1> DEFINE e == w[k + 1]
           s == Shape[e]
           p == a.pts
           out == Joined(p, s)
           o == Append(a.offs, EndOf(out))
           b == IF p = <<>> THEN 0 ELSE Len(p) - 1
           g == Grow(a, e)
<1>1. e \in Edges /\ Len(w) \in Nat
  OBVIOUS
<1>2. s \in Seq(Points) /\ Len(s) >= 2 /\ Len(s) \in Nat
  BY <1>1, ShapeAssumption
<1>3. /\ p \in Seq(Points) /\ a.offs \in Seq(Nat) /\ Len(a.offs) = k + 1 /\ a.offs[1] = 0
      /\ k = 0 => p = <<>>
      /\ k # 0 => a.offs[k + 1] = Len(p) - 1 /\ p[Len(p)] = Last(Shape[w[k]])
      /\ \A i \in 1 .. k : Carries(a, i, Shape[w[i]])
  BY DEF DrawnUpto
<1>4. k # 0 => Last(Shape[w[k]]) = s[1]
  <2> SUFFICES ASSUME k # 0 PROVE Last(Shape[w[k]]) = s[1]
    OBVIOUS
  <2>1. k \in 1 .. Len(w) - 1 /\ k \in 1 .. Len(w)
    BY <1>1
  <2>2. To[w[k]] = From[w[k + 1]] /\ w[k] \in Edges
    BY <2>1 DEF IsWalk
  <2> QED  BY <1>1, <2>2, ShapeAssumption
<1>5. p = <<>> <=> k = 0
  <2> SUFFICES ASSUME p = <<>>, k # 0 PROVE FALSE
    BY <1>3
  <2>1. Len(p) = 0
    OBVIOUS
  <2>2. k + 1 \in 1 .. Len(a.offs)
    BY <1>3
  <2>3. a.offs[k + 1] \in Nat
    BY <1>3, <2>2
  <2> HIDE DEF p
  <2> QED  BY <1>3, <2>1, <2>3
<1>6. g = [pts |-> out, offs |-> o]
  BY DEF Grow
<1>7. p # <<>> => p[Len(p)] = s[1]
  BY <1>3, <1>4, <1>5
<1>8. a.offs[k + 1] = b
  <2>1. k = 0 => k + 1 = 1
    OBVIOUS
  <2> HIDE DEF p
  <2> QED  BY <1>3, <1>5, <2>1
<1> HIDE DEF e, s, p, g
<1>9. /\ out \in Seq(Points) /\ Len(out) = b + Len(s) /\ b \in Nat
      /\ EndOf(out) = b + (Len(s) - 1)
      /\ \A i \in 1 .. Len(p) : out[i] = p[i]
      /\ \A j \in 1 .. Len(s) : out[b + j] = s[j]
  BY <1>2, <1>3, <1>7, JoinedFacts
<1> HIDE DEF out, b
<1>10. EndOf(out) \in Nat
  BY <1>2, <1>9
<1>11. /\ o \in Seq(Nat) /\ Len(o) = (k + 1) + 1 /\ o[(k + 1) + 1] = EndOf(out)
       /\ \A i \in 1 .. k + 1 : o[i] = a.offs[i]
  BY <1>3, <1>10
<1> HIDE DEF o
<1>12. g.pts = out /\ g.offs = o
  BY <1>6
<1>13. out[Len(out)] = Last(s)
  <2>1. Len(s) \in 1 .. Len(s)
    BY <1>2
  <2> QED  BY <1>9, <2>1 DEF Last
<1>14. Len(p) <= Len(out)
  <2>1. p # <<>> => b = Len(p) - 1
    BY DEF b
  <2>2. p = <<>> => Len(p) = 0
    OBVIOUS
  <2>3. Len(p) \in Nat
    BY <1>3
  <2> QED  BY <1>2, <1>9, <2>1, <2>2, <2>3
<1>15. ASSUME NEW i \in 1 .. k + 1 PROVE Carries(g, i, Shape[w[i]])
  <2>1. CASE i = k + 1
    <3>1. g.offs[i] = b /\ g.offs[i + 1] = b + (Len(s) - 1)
      BY <1>8, <1>9, <1>11, <1>12, <2>1
    <3>2. Shape[w[i]] = s
      BY <2>1 DEF s, e
    <3>3. g.offs[i + 1] = g.offs[i] + Len(s) - 1 /\ g.offs[i + 1] < Len(out)
      BY <1>2, <1>9, <3>1
    <3> QED  BY <1>9, <1>12, <3>1, <3>2, <3>3 DEF Carries
  <2>2. CASE i # k + 1
    <3>1. i \in 1 .. k /\ i \in 1 .. k + 1 /\ i + 1 \in 1 .. k + 1
      BY <2>2
    <3>2. Carries(a, i, Shape[w[i]])
      BY <1>3, <3>1
    <3>3. g.offs[i] = a.offs[i] /\ g.offs[i + 1] = a.offs[i + 1]
      BY <1>11, <1>12, <3>1
    <3> DEFINE q == Shape[w[i]]
    <3>4. q \in Seq(Points) /\ Len(q) \in Nat
      <4>1. w[i] \in Edges
        <5>1. i \in 1 .. Len(w)  BY <1>1, <3>1
        <5> QED  BY <5>1
      <4> QED  BY <4>1, ShapeAssumption
    <3> HIDE DEF q
    <3>5. /\ a.offs[i + 1] = a.offs[i] + Len(q) - 1 /\ a.offs[i + 1] < Len(p)
          /\ \A j \in 1 .. Len(q) : p[a.offs[i] + j] = q[j]
      BY <3>2 DEF Carries, p, q
    <3>6. a.offs[i] \in Nat /\ Len(p) \in Nat
      BY SMTT(30), <1>3, <3>1
    <3>7. ASSUME NEW j \in 1 .. Len(q) PROVE out[a.offs[i] + j] = q[j]
      <4>1. a.offs[i] + j \in 1 .. Len(p)
        BY <3>4, <3>5, <3>6
      <4> QED  BY <1>9, <3>5, <4>1
    <3>8. a.offs[i + 1] < Len(out)
      <4>1. a.offs[i + 1] \in Nat
        <5>1. i + 1 \in 1 .. Len(a.offs)
          BY <1>3, <3>1
        <5>2. a.offs \in Seq(Nat)  BY <1>3
        <5> QED  BY <5>1, <5>2
      <4>2. Len(out) \in Nat
        BY <1>2, <1>9
      <4> QED  BY <1>14, <3>5, <3>6, <4>1, <4>2
    <3>9. Carries(g, i, q)
      BY <1>12, <3>3, <3>5, <3>7, <3>8 DEF Carries
    <3> QED  BY <3>9 DEF q
  <2> QED  BY <2>1, <2>2
<1>16. g.offs[(k + 1) + 1] = Len(g.pts) - 1
  <2>1. g.offs[(k + 1) + 1] = b + (Len(s) - 1) /\ Len(g.pts) = b + Len(s)
    BY <1>9, <1>11, <1>12
  <2> QED  BY <1>2, <1>9, <2>1
<1>17. g.offs[1] = 0
  <2>1. 1 \in 1 .. k + 1
    OBVIOUS
  <2> QED  BY <1>3, <1>11, <1>12, <2>1
<1>18. g.pts[Len(g.pts)] = Last(Shape[w[k + 1]])
  BY <1>12, <1>13 DEF s, e
<1>19. k + 1 # 0
  OBVIOUS
<1>20. DrawnUpto(g, w, k + 1)
  BY <1>9, <1>11, <1>12, <1>15, <1>16, <1>17, <1>18, <1>19 DEF DrawnUpto
<1> QED  BY <1>20 DEF g, e

LEMMA LineDrawn ==
  ASSUME NEW w \in Seq(Edges), IsWalk(w)
  PROVE  DrawnUpto(assemble(w), w, Len(w))
<1>0. Len(w) \in Nat
  OBVIOUS
<1>1. PICK g : /\ g[0] = Undrawn /\ \A i \in 1 .. Len(w) : g[i] = Grow(g[i - 1], w[i])
               /\ assemble(w) = g[Len(w)]
  BY <1>0, DrawingUnfolds
<1> DEFINE T == {k \in Nat : k <= Len(w) => DrawnUpto(g[k], w, k)}
<1>2. 0 \in T
  <2>1. <<>> \in Seq(Points) /\ <<0>> \in Seq(Nat) /\ Len(<<0>>) = 0 + 1 /\ <<0>>[1] = 0
    OBVIOUS
  <2>2. Undrawn.pts = <<>> /\ Undrawn.offs = <<0>>
    BY DEF Undrawn
  <2>3. DrawnUpto(Undrawn, w, 0)
    BY <2>1, <2>2 DEF DrawnUpto
  <2> QED  BY <1>1, <2>3
<1>3. ASSUME NEW k \in T PROVE k + 1 \in T
  <2> SUFFICES ASSUME k + 1 <= Len(w) PROVE DrawnUpto(g[k + 1], w, k + 1)
    OBVIOUS
  <2>1. k + 1 \in 1 .. Len(w) /\ (k + 1) - 1 = k /\ k \in Nat
    BY <1>0
  <2>2. g[k + 1] = Grow(g[k], w[k + 1])
    BY <1>1, <2>1
  <2>3. DrawnUpto(g[k], w, k)
    BY <1>0, <2>1
  <2> QED  BY <2>1, <2>2, <2>3, DrawOn
<1> HIDE DEF T
<1>4. T = Nat  BY <1>2, <1>3, Induct DEF T
<1>5. DrawnUpto(g[Len(w)], w, Len(w))
  BY <1>0, <1>4 DEF T
<1> QED  BY <1>1, <1>5

Cutting(g, w, ends, k) ==
  [i \in 0 .. k |-> IF i = 0 THEN <<>> ELSE AddEdge(g[i - 1], w[i], ends[i], ends[i + 1])]

LEMMA CuttingUnfolds ==
  ASSUME NEW w, NEW ends, Len(w) \in Nat
  PROVE  \E g : /\ g[0] = <<>>
                /\ \A i \in 1 .. Len(w) : g[i] = AddEdge(g[i - 1], w[i], ends[i], ends[i + 1])
                /\ buildSegments(w, ends) = g[Len(w)]
<1> DEFINE T == {k \in Nat : \E g : g = Cutting(g, w, ends, k)}
<1>1. 0 \in T
  <2> DEFINE g == [i \in 0 .. 0 |-> <<>>]
  <2>1. g = Cutting(g, w, ends, 0)
    BY DEF Cutting
  <2> HIDE DEF g
  <2> QED  BY <2>1
<1>2. ASSUME NEW k \in T PROVE k + 1 \in T
  <2>1. PICK g : g = Cutting(g, w, ends, k)
    OBVIOUS
  <2> DEFINE h == [i \in 0 .. k + 1 |-> IF i \in 0 .. k THEN g[i] ELSE IF i = 0 THEN <<>>
                                        ELSE AddEdge(g[i - 1], w[i], ends[i], ends[i + 1])]
  <2>2. ASSUME NEW i \in 0 .. k + 1
        PROVE  h[i] = IF i = 0 THEN <<>> ELSE AddEdge(h[i - 1], w[i], ends[i], ends[i + 1])
    <3>1. h[i] = IF i \in 0 .. k THEN g[i] ELSE IF i = 0 THEN <<>>
                 ELSE AddEdge(g[i - 1], w[i], ends[i], ends[i + 1])
      OBVIOUS
    <3>2. i = 0 \/ (i - 1 \in 0 .. k /\ i - 1 \in 0 .. k + 1)
      OBVIOUS
    <3>3. i - 1 \in 0 .. k => h[i - 1] = g[i - 1]
      OBVIOUS
    <3>4. i \in 0 .. k => g[i] = IF i = 0 THEN <<>>
                                 ELSE AddEdge(g[i - 1], w[i], ends[i], ends[i + 1])
      BY <2>1 DEF Cutting
    <3> HIDE DEF h
    <3> QED  BY <3>1, <3>2, <3>3, <3>4
  <2>3. h = [i \in 0 .. k + 1 |-> h[i]]
    OBVIOUS
  <2> HIDE DEF h
  <2>4. h = Cutting(h, w, ends, k + 1)
    BY <2>2, <2>3 DEF Cutting
  <2> QED  BY <2>4
<1> HIDE DEF T
<1>3. T = Nat  BY <1>1, <1>2, Induct DEF T
<1> DEFINE f == CHOOSE g : g = [i \in 0 .. Len(w) |-> IF i = 0 THEN <<>>
                                  ELSE AddEdge(g[i - 1], w[i], ends[i], ends[i + 1])]
<1>4. f = [i \in 0 .. Len(w) |-> IF i = 0 THEN <<>>
                                 ELSE AddEdge(f[i - 1], w[i], ends[i], ends[i + 1])]
  <2>1. \E g : g = [i \in 0 .. Len(w) |-> IF i = 0 THEN <<>>
                                          ELSE AddEdge(g[i - 1], w[i], ends[i], ends[i + 1])]
    BY <1>3 DEF T, Cutting
  <2> QED  BY <2>1
<1>5. buildSegments(w, ends) = f[Len(w)]
  BY DEF buildSegments
<1> HIDE DEF f
<1>6. f[0] = <<>> /\ \A i \in 1 .. Len(w) : f[i] = AddEdge(f[i - 1], w[i], ends[i], ends[i + 1])
  <2>1. 0 \in 0 .. Len(w) /\ \A i \in 1 .. Len(w) : i \in 0 .. Len(w) /\ i # 0
    OBVIOUS
  <2> QED  BY <1>4, <2>1
<1> QED  BY <1>5, <1>6

SegmentType == [start : Nat, end : Nat, lts : 0 .. 4, infra : {Infra[e] : e \in Edges},
                lengthM : Nat]

AlikeEdge(seg, e) == seg.lts = LTS[e] /\ seg.infra = Infra[e]

\* Edge e, from point a to point b, lies in the segment.
LiesIn(seg, e, a, b) == seg.start <= a /\ b <= seg.end /\ AlikeEdge(seg, e)

Meet(s, t) == s.end = t.start /\ <<s.lts, s.infra>> # <<t.lts, t.infra>>

\* The segments after k edges of w.
CutUpto(segs, w, ends, k) ==
  /\ segs \in Seq(SegmentType)
  /\ k = 0 => segs = <<>>
  /\ k # 0 => /\ segs # <<>> /\ segs[1].start = 0
              /\ segs[Len(segs)].end = ends[k + 1]
              /\ AlikeEdge(segs[Len(segs)], w[k])
  /\ \A j \in 1 .. Len(segs) : segs[j].start <= segs[j].end
  /\ \A i \in 1 .. k : \E j \in 1 .. Len(segs) : LiesIn(segs[j], w[i], ends[i], ends[i + 1])
  /\ \A j \in 1 .. Len(segs) - 1 : Meet(segs[j], segs[j + 1])
  /\ Length(segs) = SumUp([i \in 1 .. k |-> LengthM[w[i]]])

LEMMA NewSegment ==
  ASSUME NEW e \in Edges, NEW a \in Nat, NEW b \in Nat
  PROVE  LET s == [start |-> a, end |-> b, lts |-> LTS[e], infra |-> Infra[e],
                   lengthM |-> LengthM[e]]
         IN  /\ s \in SegmentType /\ s.start = a /\ s.end = b /\ s.lengthM = LengthM[e]
             /\ AlikeEdge(s, e)
<1>1. LTS[e] \in 0 .. 4 /\ LengthM[e] \in Nat
  BY GraphAssumption, AttributesAssumption
<1> QED  BY <1>1 DEF SegmentType, AlikeEdge

LEMMA LongerSegment ==
  ASSUME NEW s \in SegmentType, NEW e \in Edges, NEW b \in Nat, s.end <= b
  PROVE  LET t == Lengthen(s, e, b)
         IN  /\ t \in SegmentType /\ t.start = s.start /\ t.end = b
             /\ t.lengthM = s.lengthM + LengthM[e]
             /\ t.lts = s.lts /\ t.infra = s.infra
<1>1. /\ s.start \in Nat /\ s.end \in Nat /\ s.lts \in 0 .. 4
      /\ s.infra \in {Infra[f] : f \in Edges} /\ s.lengthM \in Nat
      /\ s = [start |-> s.start, end |-> s.end, lts |-> s.lts, infra |-> s.infra,
              lengthM |-> s.lengthM]
  BY DEF SegmentType
<1>2. LengthM[e] \in Nat
  BY GraphAssumption
<1>3. Max({s.end, b}) = b
  <2> DEFINE m == Max({s.end, b})
  <2>1. \E x \in {s.end, b} : \A y \in {s.end, b} : x >= y
    BY <1>1
  <2>2. m \in {s.end, b} /\ \A y \in {s.end, b} : m >= y
    BY <2>1 DEF Max
  <2> HIDE DEF m
  <2>3. m = b
    BY <1>1, <2>2
  <2> QED  BY <2>3 DEF m
<1> DEFINE t == Lengthen(s, e, b)
<1>4. t = [start |-> s.start, end |-> Max({s.end, b}), lts |-> s.lts, infra |-> s.infra,
           lengthM |-> s.lengthM + LengthM[e]]
  <2> DEFINE m == Max({s.end, b})
             l == s.lengthM + LengthM[e]
  <2>1. t = [s EXCEPT !.end = m, !.lengthM = l]
    BY DEF Lengthen
  <2> HIDE DEF m, l, t
  <2>2. PICK v1, v2, v3, v4, v5 :
          s = [start |-> v1, end |-> v2, lts |-> v3, infra |-> v4, lengthM |-> v5]
    BY <1>1
  <2>3. t = [start |-> v1, end |-> m, lts |-> v3, infra |-> v4, lengthM |-> l]
    BY <2>1, <2>2
  <2>4. s.start = v1 /\ s.lts = v3 /\ s.infra = v4
    BY <2>2
  <2> QED  BY <2>3, <2>4 DEF m, l
<1>5. s.lengthM + LengthM[e] \in Nat
  BY <1>1, <1>2
<1> HIDE DEF t
<1>6. /\ t.start = s.start /\ t.end = b /\ t.lts = s.lts /\ t.infra = s.infra
      /\ t.lengthM = s.lengthM + LengthM[e]
  BY <1>3, <1>4
<1>7. t \in SegmentType
  BY <1>1, <1>3, <1>4, <1>5 DEF SegmentType
<1> QED  BY <1>6, <1>7 DEF t

\* The total of a list of segments, one more or one longer.
LEMMA LengthMore ==
  ASSUME NEW segs \in Seq(SegmentType), NEW s \in SegmentType
  PROVE  Length(Append(segs, s)) = Length(segs) + s.lengthM
<1> DEFINE m == Append(segs, s)
           u == [i \in 1 .. Len(segs) |-> segs[i].lengthM]
           v == [i \in 1 .. Len(m) |-> m[i].lengthM]
<1>1. Len(segs) \in Nat /\ Len(m) = Len(segs) + 1 /\ m[Len(segs) + 1] = s
      /\ \A i \in 1 .. Len(segs) : m[i] = segs[i]
  OBVIOUS
<1> HIDE DEF m
<1>2. Len(u) \in Nat /\ Len(v) = Len(u) + 1 /\ v[Len(v)] = s.lengthM
      /\ \A i \in 1 .. Len(u) : v[i] = u[i]
  BY <1>1
<1> HIDE DEF u, v
<1>3. SumUp(v) = SumUp(u) + s.lengthM
  BY <1>2, SumAppend
<1> QED  BY <1>3 DEF Length, u, v, m

LEMMA LengthGrows ==
  ASSUME NEW segs \in Seq(SegmentType), segs # <<>>, NEW t \in SegmentType, NEW d \in Nat,
         t.lengthM = segs[Len(segs)].lengthM + d
  PROVE  Length([segs EXCEPT ![Len(segs)] = t]) = Length(segs) + d
<1> DEFINE n == Len(segs)
           m == [segs EXCEPT ![n] = t]
           h == [i \in 1 .. n - 1 |-> segs[i].lengthM]
           u == [i \in 1 .. n |-> segs[i].lengthM]
           v == [i \in 1 .. Len(m) |-> m[i].lengthM]
<1>1. n \in Nat \ {0}
  OBVIOUS
<1>2. Len(m) = n /\ m[n] = t /\ \A i \in 1 .. n - 1 : m[i] = segs[i]
  BY <1>1
<1>3. \A i \in 1 .. n : segs[i] \in SegmentType
  OBVIOUS
<1>4. \A s \in SegmentType : s.lengthM \in Nat
  BY DEF SegmentType
<1> HIDE DEF m, n
<1>5. Len(h) = n - 1 /\ n - 1 \in Nat /\ Len(u) = (n - 1) + 1 /\ Len(v) = (n - 1) + 1
  BY <1>1, <1>2
<1>6. \A i \in 1 .. n - 1 : u[i] = h[i] /\ v[i] = h[i]
  BY <1>1, <1>2
<1>7. u[n] = segs[n].lengthM /\ v[n] = t.lengthM
  BY <1>1, <1>2
<1>8. \A i \in 1 .. n - 1 : h[i] \in Nat
  BY <1>1, <1>3, <1>4
<1> HIDE DEF h, u, v
<1>9. SumUp(u) = SumUp(h) + u[Len(u)] /\ SumUp(v) = SumUp(h) + v[Len(v)]
  BY <1>5, <1>6, SumAppend
<1>10. SumUp(h) \in Nat
  BY <1>5, <1>8, SumNat
<1>11. n \in 1 .. n
  BY <1>1
<1>12. segs[n].lengthM \in Nat
  BY <1>3, <1>4, <1>11
<1>13. t.lengthM = segs[n].lengthM + d
  BY DEF n
<1>14. SumUp(v) = SumUp(u) + d
  BY <1>1, <1>5, <1>7, <1>9, <1>10, <1>12, <1>13
<1> QED  BY <1>14 DEF Length, u, v, m, n

LEMMA CutOn ==
  ASSUME NEW w \in Seq(Edges), NEW ends \in Seq(Nat), NEW k \in Nat, k + 1 <= Len(w),
         Len(ends) = Len(w) + 1, ends[1] = 0, ends[k + 1] < ends[(k + 1) + 1],
         NEW segs, CutUpto(segs, w, ends, k)
  PROVE  CutUpto(AddEdge(segs, w[k + 1], ends[k + 1], ends[(k + 1) + 1]), w, ends, k + 1)
<1> DEFINE e == w[k + 1]
           a == ends[k + 1]
           b == ends[(k + 1) + 1]
           n == Len(segs)
           F(i) == [j \in 1 .. i |-> LengthM[w[j]]]
           longer == Lengthen(segs[n], e, b)
           new == [start |-> a, end |-> b, lts |-> LTS[e], infra |-> Infra[e],
                   lengthM |-> LengthM[e]]
           more == AddEdge(segs, e, a, b)
<1>1. e \in Edges /\ a \in Nat /\ b \in Nat /\ a < b
  OBVIOUS
<1>2. /\ segs \in Seq(SegmentType) /\ (segs = <<>> <=> k = 0)
      /\ k # 0 => segs[1].start = 0 /\ segs[n].end = a /\ AlikeEdge(segs[n], w[k])
      /\ \A j \in 1 .. n : segs[j].start <= segs[j].end
      /\ \A i \in 1 .. k : \E j \in 1 .. n : LiesIn(segs[j], w[i], ends[i], ends[i + 1])
      /\ \A j \in 1 .. n - 1 : Meet(segs[j], segs[j + 1])
      /\ Length(segs) = SumUp(F(k))
  BY DEF CutUpto
<1>3. n \in Nat /\ \A j \in 1 .. n : segs[j] \in SegmentType
  BY <1>2
<1>4. \A s \in SegmentType : s.start \in Nat /\ s.end \in Nat /\ s.lengthM \in Nat
  BY DEF SegmentType
<1>5. SumUp(F(k + 1)) = SumUp(F(k)) + LengthM[e]
  <2>1. /\ Len(F(k)) = k /\ Len(F(k + 1)) = k + 1 /\ \A i \in 1 .. k : F(k + 1)[i] = F(k)[i]
        /\ F(k + 1)[k + 1] = LengthM[e]
    OBVIOUS
  <2> HIDE DEF F, e
  <2>2. Len(F(k)) \in Nat /\ Len(F(k + 1)) = Len(F(k)) + 1
        /\ \A i \in 1 .. Len(F(k)) : F(k + 1)[i] = F(k)[i]
    BY <2>1
  <2>3. SumUp(F(k + 1)) = SumUp(F(k)) + F(k + 1)[Len(F(k + 1))]
    BY <2>2, SumAppend
  <2> QED  BY <2>1, <2>3
<1>6. LengthM[e] \in Nat
  BY <1>1, GraphAssumption
<1>7. k # 0 => n \in 1 .. n /\ n # 0
  BY <1>2, <1>3
<1>8. more = IF n > 0 /\ AlikeEdge(segs[n], e) THEN [segs EXCEPT ![n] = longer]
             ELSE Append(segs, new)
  <2>1. ~(b <= a)
    BY <1>1
  <2> HIDE DEF a, b, e
  <2> QED  BY <2>1, Zenon DEF AddEdge, AlikeEdge
<1>9. a = ends[k + 1] /\ b = ends[(k + 1) + 1] /\ e = w[k + 1]
  OBVIOUS
<1> HIDE DEF F, e, a, b, n, more
<1>10. CASE n > 0 /\ AlikeEdge(segs[n], e)
  <2>1. k # 0 /\ segs # <<>>
    <3>1. n # 0
      BY <1>3, <1>10
    <3>2. Len(<<>>) = 0
      OBVIOUS
    <3> QED  BY <1>2, <3>1, <3>2 DEF n
  <2>2. /\ longer \in SegmentType /\ longer.start = segs[n].start /\ longer.end = b
        /\ longer.lengthM = segs[n].lengthM + LengthM[e]
        /\ longer.lts = segs[n].lts /\ longer.infra = segs[n].infra
    <3>1. segs[n] \in SegmentType /\ segs[n].end <= b
      BY SMTT(30), <1>1, <1>2, <1>3, <1>7, <2>1
    <3> QED  BY SMTT(30), <1>1, <3>1, LongerSegment
  <2> HIDE DEF longer
  <2>3. more = [segs EXCEPT ![n] = longer]
    BY <1>8, <1>10
  <2>4. /\ more \in Seq(SegmentType) /\ Len(more) = n /\ more[n] = longer
        /\ \A j \in 1 .. n : j # n => more[j] = segs[j]
    BY <1>2, <1>7, <2>1, <2>2, <2>3 DEF n
  <2>5. \A j \in 1 .. n : /\ more[j].start = segs[j].start /\ more[j].lts = segs[j].lts
                          /\ more[j].infra = segs[j].infra
    BY <2>2, <2>4
  <2>6. ASSUME NEW j \in 1 .. n
        PROVE  more[j].start <= more[j].end /\ segs[j].end <= more[j].end
    <3>1. segs[j].start \in Nat /\ segs[j].end \in Nat /\ segs[j].start <= segs[j].end
      BY <1>2, <1>3, <1>4
    <3>2. CASE j = n
      <4>1. segs[j].end = a /\ more[j].start = segs[j].start /\ more[j].end = b
        BY <1>2, <2>1, <2>2, <2>4, <3>2
      <4> QED  BY <1>1, <3>1, <4>1
    <3>3. CASE j # n
      BY <2>4, <3>1, <3>3
    <3> QED  BY <3>2, <3>3
  <2>7. AlikeEdge(more[n], e)
    BY <1>10, <2>2, <2>4 DEF AlikeEdge
  <2>8. more # <<>> /\ more[1].start = 0 /\ more[n].end = b
    <3>1. 1 \in 1 .. n
      BY <1>3, <1>10
    <3>2. more[1].start = 0
      BY <1>2, <2>1, <2>5, <3>1
    <3>3. more # <<>>
      BY <1>10, <2>4
    <3> QED  BY <2>2, <2>4, <3>2, <3>3
  <2>9. ASSUME NEW i \in 1 .. k + 1
        PROVE  \E j \in 1 .. n : LiesIn(more[j], w[i], ends[i], ends[i + 1])
    <3>1. CASE i = k + 1
      <4>1. more[n].start <= a
        <5>1. segs[n].start <= segs[n].end /\ segs[n].end = a
          BY <1>2, <1>7, <2>1
        <5> QED  BY <1>7, <2>1, <2>5, <5>1
      <4>2. b <= more[n].end
        BY <1>1, <2>8
      <4>3. LiesIn(more[n], w[i], ends[i], ends[i + 1])
        BY <1>9, <2>7, <3>1, <4>1, <4>2 DEF LiesIn
      <4> QED  BY <1>7, <2>1, <4>3
    <3>2. CASE i # k + 1
      <4>1. i \in 1 .. k
        BY <3>2
      <4>2. PICK j \in 1 .. n : LiesIn(segs[j], w[i], ends[i], ends[i + 1])
        BY <1>2, <4>1
      <4>3. ends[i + 1] <= more[j].end
        <5>1. ends[i + 1] <= segs[j].end /\ segs[j].end <= more[j].end
          BY <2>6, <4>2 DEF LiesIn
        <5>2. segs[j].end \in Nat
          BY <1>3, <1>4
        <5>3. ends[i + 1] \in Nat
          <6>1. i + 1 \in 1 .. Len(ends)
            BY <4>1
          <6> QED  BY SMTT(30), <6>1
        <5>4. more[j].end \in Nat
          <6>1. more[j] \in SegmentType
            BY <2>4
          <6> QED  BY <1>4, <6>1
        <5>5. \A x, y, z \in Nat : x <= y /\ y <= z => x <= z
          OBVIOUS
        <5> QED  BY <5>1, <5>2, <5>3, <5>4, <5>5, Zenon
      <4>4. LiesIn(more[j], w[i], ends[i], ends[i + 1])
        BY <2>5, <4>2, <4>3 DEF LiesIn, AlikeEdge
      <4> QED  BY <4>4
    <3> QED  BY <3>1, <3>2
  <2>10. ASSUME NEW j \in 1 .. n - 1 PROVE Meet(more[j], more[j + 1])
    <3>1. j \in 1 .. n /\ j # n /\ j + 1 \in 1 .. n
      BY <1>3
    <3>2. Meet(segs[j], segs[j + 1])
      BY <1>2
    <3>3. more[j] = segs[j]
      BY <2>4, <3>1
    <3> QED  BY <2>5, <3>1, <3>2, <3>3 DEF Meet
  <2>11. Length(more) = SumUp(F(k + 1))
    <3>1. Length([segs EXCEPT ![Len(segs)] = longer]) = Length(segs) + LengthM[e]
      <4>1. longer.lengthM = segs[Len(segs)].lengthM + LengthM[e]
        BY <2>2 DEF n
      <4> QED  BY <1>2, <1>6, <2>1, <2>2, <4>1, LengthGrows
    <3> QED  BY <1>2, <1>5, <2>3, <3>1 DEF n
  <2>12. CutUpto(more, w, ends, k + 1)
    <3>1. k + 1 # 0
      OBVIOUS
    <3>2. Length(more) = SumUp([i \in 1 .. k + 1 |-> LengthM[w[i]]])
      BY <2>11 DEF F
    <3>3. Len(more) = n
      BY <2>4
    <3>4. more[Len(more)].end = ends[(k + 1) + 1] /\ AlikeEdge(more[Len(more)], w[k + 1])
      BY <1>9, <2>7, <2>8, <3>3
    <3>5. more # <<>> /\ more[1].start = 0 /\ more \in Seq(SegmentType)
      BY <2>4, <2>8
    <3>6. \A j \in 1 .. Len(more) : more[j].start <= more[j].end
      BY <2>6, <3>3
    <3>7. \A i \in 1 .. k + 1 : \E j \in 1 .. Len(more) :
            LiesIn(more[j], w[i], ends[i], ends[i + 1])
      BY <2>9, <3>3
    <3>8. \A j \in 1 .. Len(more) - 1 : Meet(more[j], more[j + 1])
      BY <2>10, <3>3
    <3> QED  BY <3>1, <3>2, <3>4, <3>5, <3>6, <3>7, <3>8 DEF CutUpto
  <2> QED  BY <2>12 DEF more, e, a, b
<1>11. CASE ~(n > 0 /\ AlikeEdge(segs[n], e))
  <2>1. /\ new \in SegmentType /\ new.start = a /\ new.end = b /\ new.lengthM = LengthM[e]
        /\ AlikeEdge(new, e)
    BY <1>1, NewSegment
  <2> HIDE DEF new
  <2>2. more = Append(segs, new)
    BY <1>8, <1>11
  <2>3. /\ more \in Seq(SegmentType) /\ Len(more) = n + 1 /\ more[n + 1] = new
        /\ \A j \in 1 .. n : more[j] = segs[j]
    BY <1>2, <2>1, <2>2 DEF n
  <2>4. more # <<>> /\ more[1].start = 0
    <3>1. more # <<>>
      BY <1>3, <2>3
    <3>2. CASE k = 0
      <4>1. n = 0 /\ a = 0
        BY <1>2, <1>9, <3>2 DEF n
      <4> QED  BY <2>1, <2>3, <3>1, <4>1
    <3>3. CASE k # 0
      <4>1. 1 \in 1 .. n
        BY <1>3, <1>7, <3>3
      <4> QED  BY <1>2, <2>3, <3>1, <3>3, <4>1
    <3> QED  BY <3>2, <3>3
  <2>5. \A j \in 1 .. n + 1 : more[j].start <= more[j].end
    <3>1. \A j \in 1 .. n + 1 : j \in 1 .. n \/ j = n + 1
      BY <1>3
    <3>2. new.start <= new.end
      BY <1>1, <2>1
    <3> QED  BY <1>2, <2>3, <3>1, <3>2
  <2>6. n + 1 \in 1 .. n + 1 /\ \A j \in 1 .. n : j \in 1 .. n + 1
    BY <1>3
  <2>7. ASSUME NEW i \in 1 .. k + 1
        PROVE  \E j \in 1 .. n + 1 : LiesIn(more[j], w[i], ends[i], ends[i + 1])
    <3>1. CASE i = k + 1
      <4>1. new.start <= a /\ b <= new.end
        BY <1>1, <2>1
      <4>2. LiesIn(more[n + 1], w[i], ends[i], ends[i + 1])
        BY <1>9, <2>1, <2>3, <3>1, <4>1 DEF LiesIn
      <4> QED  BY <2>6, <4>2
    <3>2. CASE i # k + 1
      <4>1. i \in 1 .. k
        BY <3>2
      <4>2. PICK j \in 1 .. n : LiesIn(segs[j], w[i], ends[i], ends[i + 1])
        BY <1>2, <4>1
      <4> QED  BY <2>3, <2>6, <4>2
    <3> QED  BY <3>1, <3>2
  <2>8. ASSUME NEW j \in 1 .. n PROVE Meet(more[j], more[j + 1])
    <3>1. CASE j = n
      <4>1. k # 0
        <5> SUFFICES ASSUME k = 0 PROVE FALSE
          OBVIOUS
        <5>1. n = 0
          BY <1>2 DEF n
        <5> QED  BY <5>1
      <4>2. segs[n].end = new.start
        BY <1>2, <2>1, <4>1
      <4>3. ~AlikeEdge(segs[n], e)
        BY <1>3, <1>7, <1>11, <4>1
      <4>4. <<segs[n].lts, segs[n].infra>> # <<new.lts, new.infra>>
        BY <2>1, <4>3 DEF AlikeEdge
      <4> QED  BY <2>3, <3>1, <4>2, <4>4 DEF Meet
    <3>2. CASE j # n
      <4>1. j \in 1 .. n - 1 /\ j + 1 \in 1 .. n
        BY <1>3, <3>2
      <4> QED  BY <1>2, <2>3, <4>1
    <3> QED  BY <3>1, <3>2
  <2>9. Length(more) = SumUp(F(k + 1))
    <3>1. Length(Append(segs, new)) = Length(segs) + new.lengthM
      BY <1>2, <2>1, LengthMore
    <3> QED  BY <1>2, <1>5, <2>1, <2>2, <3>1
  <2>10. CutUpto(more, w, ends, k + 1)
    <3>1. k + 1 # 0 /\ Len(more) = n + 1 /\ (n + 1) - 1 = n
      BY <1>3, <2>3
    <3>2. Length(more) = SumUp([i \in 1 .. k + 1 |-> LengthM[w[i]]])
      BY <2>9 DEF F
    <3>3. more[Len(more)].end = ends[(k + 1) + 1] /\ AlikeEdge(more[Len(more)], w[k + 1])
      BY <1>9, <2>1, <2>3
    <3>4. more \in Seq(SegmentType)
      BY <2>3
    <3>5. \A j \in 1 .. Len(more) : more[j].start <= more[j].end
      BY <2>5, <3>1
    <3>6. \A i \in 1 .. k + 1 : \E j \in 1 .. Len(more) :
            LiesIn(more[j], w[i], ends[i], ends[i + 1])
      BY <2>7, <3>1
    <3>7. \A j \in 1 .. Len(more) - 1 : Meet(more[j], more[j + 1])
      BY <2>8, <3>1
    <3> QED  BY <2>4, <3>1, <3>2, <3>3, <3>4, <3>5, <3>6, <3>7 DEF CutUpto
  <2> QED  BY <2>10 DEF more, e, a, b
<1> QED  BY <1>10, <1>11

LEMMA SegmentsCut ==
  ASSUME NEW w \in Seq(Edges), NEW ends \in Seq(Nat), Len(ends) = Len(w) + 1, ends[1] = 0,
         \A k \in 1 .. Len(w) : ends[k] < ends[k + 1]
  PROVE  CutUpto(buildSegments(w, ends), w, ends, Len(w))
<1>0. Len(w) \in Nat
  OBVIOUS
<1>1. PICK g : /\ g[0] = <<>>
               /\ \A i \in 1 .. Len(w) : g[i] = AddEdge(g[i - 1], w[i], ends[i], ends[i + 1])
               /\ buildSegments(w, ends) = g[Len(w)]
  BY <1>0, CuttingUnfolds
<1> DEFINE T == {k \in Nat : k <= Len(w) => CutUpto(g[k], w, ends, k)}
<1>2. 0 \in T
  <2> DEFINE s == [i \in 1 .. 0 |-> LengthM[w[i]]]
             t == [i \in 1 .. Len(<<>>) |-> <<>>[i].lengthM]
  <2>1. Len(s) = 0 /\ Len(t) = 0
    OBVIOUS
  <2> HIDE DEF s, t
  <2>2. SumUp(s) = 0 /\ SumUp(t) = 0
    BY <2>1, SumEmpty
  <2>3. Length(<<>>) = SumUp([i \in 1 .. 0 |-> LengthM[w[i]]])
    BY <2>2 DEF Length, s, t
  <2>4. <<>> \in Seq(SegmentType) /\ Len(<<>>) = 0
    OBVIOUS
  <2>5. CutUpto(<<>>, w, ends, 0)
    BY <2>3, <2>4 DEF CutUpto
  <2> QED  BY <1>1, <2>5
<1>3. ASSUME NEW k \in T PROVE k + 1 \in T
  <2> SUFFICES ASSUME k + 1 <= Len(w) PROVE CutUpto(g[k + 1], w, ends, k + 1)
    OBVIOUS
  <2>1. k + 1 \in 1 .. Len(w) /\ (k + 1) - 1 = k /\ k \in Nat
    BY <1>0
  <2>2. g[k + 1] = AddEdge(g[k], w[k + 1], ends[k + 1], ends[(k + 1) + 1])
    BY <1>1, <2>1
  <2>3. CutUpto(g[k], w, ends, k)
    BY <1>0, <2>1
  <2>4. ends[k + 1] < ends[(k + 1) + 1]
    BY <2>1
  <2> QED  BY <2>1, <2>2, <2>3, <2>4, CutOn
<1> HIDE DEF T
<1>4. T = Nat  BY <1>2, <1>3, Induct DEF T
<1>5. CutUpto(g[Len(w)], w, ends, Len(w))
  BY <1>0, <1>4 DEF T
<1> QED  BY <1>1, <1>5

(* Every point of the line belongs to the edge it is attributed to, and    *)
(* the segments cover the line without a gap, each in one stress and       *)
(* facility and no two neighbours in the same.                             *)
THEOREM GeometryStaysFaithful == Spec => []GeometryFaithful
<1>1. PlanInv => GeometryFaithful
  <2> DEFINE w == resp.edges
             segs == resp.segments
  <2> SUFFICES ASSUME PlanInv, Planned
               PROVE  /\ \A i \in DOMAIN w :
                           /\ SubSeq(pts, offs[i] + 1, offs[i + 1] + 1) = Shape[w[i]]
                           /\ \E s \in Range(segs) :
                                /\ s.start <= offs[i] /\ offs[i + 1] <= s.end
                                /\ s.lts = LTS[w[i]] /\ s.infra = Infra[w[i]]
                      /\ segs[1].start = 0 /\ Last(segs).end = Len(pts) - 1
                      /\ \A k \in 1 .. Len(segs) - 1 :
                           /\ segs[k].end = segs[k + 1].start
                           /\ <<segs[k].lts, segs[k].infra>>
                                # <<segs[k + 1].lts, segs[k + 1].infra>>
                      /\ Length(segs) = resp.lengthM
    BY DEF GeometryFaithful
  <2>1. /\ Shapes /\ LegsFound /\ Described /\ Valid(plan.profile)
        /\ AllEdges(legs) # <<>>
        /\ pts = assemble(AllEdges(legs)).pts /\ offs = assemble(AllEdges(legs)).offs
    BY PlannedFacts
  <2>2. legs \in Seq(AnswerType) /\ Len(legs) \in Nat
    BY <2>1 DEF Shapes
  <2>3. /\ w = AllEdges(legs) /\ segs = buildSegments(w, offs) /\ resp.lengthM = Length(legs)
    BY <2>1 DEF Described
  <2>4. w \in Seq(Edges) /\ Len(w) \in Nat /\ Len(w) # 0
    <3>1. AllEdges(legs) \in Seq(Edges)
      BY <2>2, GraphAssumption, WeighLegs
    <3> QED  BY <2>1, <2>3, <3>1
  <2>5. IsWalk(w)
    <3>1. \A i \in 1 .. Len(legs) : Leads(legs[i].edges, snaps[i], snaps[i + 1])
      BY <2>1, LegsLead
    <3>2. Leads(AllEdges(Upto(legs, Len(legs))), snaps[1], snaps[Len(legs) + 1])
      BY <2>2, <3>1, Chained
    <3>3. Upto(legs, Len(legs)) = legs
      BY <2>2, UptoFacts
    <3> QED  BY <2>3, <3>2, <3>3 DEF Leads
  <2>6. resp.lengthM = WalkLength(w)
    <3>1. ASSUME NEW i \in 1 .. Len(legs)
          PROVE  legs[i].lengthM = WalkLength(legs[i].edges)
      <4>1. legs[i] \in Answers(Leg(plan.profile, hazardScores, snaps[i], snaps[i + 1]))
        BY <2>1 DEF LegsFound, OptsOf
      <4> QED  BY <2>1, <4>1, LegSays
    <3> QED  BY <2>2, <2>3, <3>1, LengthOfLegs
  <2>7. pts = assemble(w).pts /\ offs = assemble(w).offs
    BY <2>1, <2>3
  <2> DEFINE a == assemble(w)
  <2>8. DrawnUpto(a, w, Len(w))
    <3> HIDE DEF w
    <3> QED  BY <2>4, <2>5, LineDrawn
  <2> HIDE DEF w, segs, a
  <2>9. a.pts = pts /\ a.offs = offs
    BY <2>7 DEF a
  <2>10. /\ pts \in Seq(Points) /\ offs \in Seq(Nat) /\ Len(offs) = Len(w) + 1
         /\ offs[1] = 0 /\ offs[Len(w) + 1] = Len(pts) - 1
    BY <2>4, <2>8, <2>9 DEF DrawnUpto
  <2>11. ASSUME NEW i \in 1 .. Len(w)
         PROVE  LET s == Shape[w[i]]
                IN  /\ s \in Seq(Points) /\ Len(s) >= 2 /\ Len(s) \in Nat
                    /\ offs[i] \in Nat /\ offs[i + 1] \in Nat
                    /\ offs[i + 1] = offs[i] + Len(s) - 1 /\ offs[i + 1] < Len(pts)
                    /\ \A j \in 1 .. Len(s) : pts[offs[i] + j] = s[j]
    <3>1. Carries(a, i, Shape[w[i]])
      BY <2>8 DEF DrawnUpto
    <3>2. w[i] \in Edges
      BY <2>4
    <3>3. Shape[w[i]] \in Seq(Points) /\ Len(Shape[w[i]]) >= 2
      BY <3>2, ShapeAssumption
    <3>4. i \in 1 .. Len(offs) /\ i + 1 \in 1 .. Len(offs)
      BY <2>4, <2>10
    <3>5. offs[i] \in Nat /\ offs[i + 1] \in Nat
      BY <2>10, <3>4
    <3> QED  BY SMTT(30), <2>9, <3>1, <3>3, <3>5 DEF Carries
  <2>12. ASSUME NEW i \in 1 .. Len(w)
         PROVE  SubSeq(pts, offs[i] + 1, offs[i + 1] + 1) = Shape[w[i]]
    <3> DEFINE s == Shape[w[i]]
               m == offs[i] + 1
               n == offs[i + 1] + 1
               t == SubSeq(pts, m, n)
    <3>1. /\ s \in Seq(Points) /\ Len(s) \in Nat /\ Len(s) >= 2
          /\ m \in Nat /\ n \in Nat /\ m >= 1 /\ n = m + Len(s) - 1 /\ n <= Len(pts)
          /\ \A j \in 1 .. Len(s) : pts[(m - 1) + j] = s[j]
      <4> DEFINE o == offs[i]
      <4>1. /\ s \in Seq(Points) /\ Len(s) >= 2 /\ Len(s) \in Nat
            /\ o \in Nat /\ offs[i + 1] \in Nat
            /\ offs[i + 1] = o + Len(s) - 1 /\ offs[i + 1] < Len(pts)
            /\ \A j \in 1 .. Len(s) : pts[o + j] = s[j]
        BY <2>11
      <4>2. m = o + 1 /\ n = offs[i + 1] + 1 /\ Len(pts) \in Nat
        BY <2>10
      <4> HIDE DEF s, m, n, o
      <4>3. m - 1 = o
        BY <4>1, <4>2
      <4> QED  BY <4>1, <4>2, <4>3
    <3> HIDE DEF s, m, n
    <3>2. t \in Seq(Points) /\ Len(t) = n - m + 1
          /\ \A j \in 1 .. n - m + 1 : t[j] = pts[m + j - 1]
      <4>1. pts \in Seq(Points) /\ m \in 1 .. Len(pts) /\ n \in 1 .. Len(pts)
        BY SMTT(30), <2>10, <3>1
      <4> QED  BY <3>1, <4>1
    <3> HIDE DEF t
    <3>3. n - m + 1 = Len(s)
      BY <3>1
    <3>4. ASSUME NEW j \in 1 .. Len(s) PROVE t[j] = s[j]
      <4>1. m + j - 1 = (m - 1) + j
        BY <3>1
      <4> QED  BY <3>1, <3>2, <3>3, <4>1
    <3>5. t = s
      BY SMTT(30), <3>1, <3>2, <3>3, <3>4
    <3> QED  BY <3>5 DEF t, s, m, n
  <2>13. CutUpto(segs, w, offs, Len(w))
    <3>1. \A k \in 1 .. Len(w) : offs[k] < offs[k + 1]
      <4> SUFFICES ASSUME NEW k \in 1 .. Len(w) PROVE offs[k] < offs[k + 1]
        OBVIOUS
      <4> DEFINE l == Len(Shape[w[k]])
      <4>1. l \in Nat /\ l >= 2 /\ offs[k] \in Nat /\ offs[k + 1] = offs[k] + l - 1
        BY <2>11
      <4> HIDE DEF l
      <4> QED  BY <4>1
    <3>2. CutUpto(buildSegments(w, offs), w, offs, Len(w))
      BY <2>4, <2>10, <3>1, SegmentsCut
    <3> QED  BY <2>3, <3>2
  <2>14. /\ segs \in Seq(SegmentType) /\ Len(segs) \in Nat
         /\ segs # <<>> /\ segs[1].start = 0 /\ segs[Len(segs)].end = offs[Len(w) + 1]
         /\ \A i \in 1 .. Len(w) : \E j \in 1 .. Len(segs) :
              LiesIn(segs[j], w[i], offs[i], offs[i + 1])
         /\ \A j \in 1 .. Len(segs) - 1 : Meet(segs[j], segs[j + 1])
         /\ Length(segs) = WalkLength(w)
    BY <2>4, <2>13 DEF CutUpto, WalkLength
  <2>15. ASSUME NEW i \in 1 .. Len(w)
         PROVE  \E s \in Range(segs) :
                  /\ s.start <= offs[i] /\ offs[i + 1] <= s.end
                  /\ s.lts = LTS[w[i]] /\ s.infra = Infra[w[i]]
    <3>1. PICK j \in 1 .. Len(segs) : LiesIn(segs[j], w[i], offs[i], offs[i + 1])
      BY <2>14
    <3>2. segs[j] \in Range(segs)
      BY <2>14 DEF Range
    <3> QED  BY <3>1, <3>2 DEF LiesIn, AlikeEdge
  <2>16. DOMAIN w = 1 .. Len(w)
    BY <2>4
  <2>17. Last(segs).end = Len(pts) - 1
    BY <2>10, <2>14 DEF Last
  <2>18. \A k \in 1 .. Len(segs) - 1 :
           /\ segs[k].end = segs[k + 1].start
           /\ <<segs[k].lts, segs[k].infra>> # <<segs[k + 1].lts, segs[k + 1].infra>>
    BY <2>14 DEF Meet
  <2>19. Length(segs) = resp.lengthM
    BY <2>6, <2>14
  <2> QED  BY <2>12, <2>14, <2>15, <2>16, <2>17, <2>18, <2>19
<1> QED  BY <1>1, PlanInvariant, PTL

=============================================================================
