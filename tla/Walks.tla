-------------------------------- MODULE Walks --------------------------------
(***************************************************************************)
(* A reference definition of what Search may return, by enumeration: the   *)
(* walks of the graph that repeat no edge, with their cost, length and     *)
(* over-threshold metres.  (A walk that repeats an edge costs and spends   *)
(* at least as much as the one with the loop cut out.)  SearchReference    *)
(* checks Search against it; PlanHandler uses it in the place of Search.   *)
(***************************************************************************)
EXTENDS RoadGraph, FiniteSetsExt, SequencesExt

ASSUME FiniteAssumption == IsFiniteSet(Edges)

\* The walks one edge longer that still repeat no edge.
Longer(walks) ==
  UNION {{Append(w, e) : e \in OutEdges(To[Last(w)]) \ Range(w)} : w \in walks}

WalksOfLength[n \in 1 .. Cardinality(Edges)] ==
  IF n = 1 THEN {<<e>> : e \in Edges} ELSE Longer(WalksOfLength[n - 1])

Walks == UNION {WalksOfLength[n] : n \in 1 .. Cardinality(Edges)}

IsWalk(w) == \A i \in 1 .. Len(w) - 1 : To[w[i]] = From[w[i + 1]]

\* The sum of a sequence of numbers.
SumUp(s) ==
  LET upTo[i \in 0 .. Len(s)] == IF i = 0 THEN 0 ELSE upTo[i - 1] + s[i]
  IN  upTo[Len(s)]

WalkLength(w) == SumUp([i \in 1 .. Len(w) |-> LengthM[w[i]]])
WalkUsed(r, w) == SumUp([i \in 1 .. Len(w) |-> Spend(r, w[i], 0)])
WalkCost(r, w) == SumUp([i \in 1 .. Len(w) |-> r.edgeCost[w[i]]])
                  + SumUp([i \in 1 .. Len(w) - 1 |-> r.turnCost[<<w[i], w[i + 1]>>]])

Connects(r, w) == From[w[1]] = r.start /\ To[Last(w)] = r.goal
Rideable(r, w) == Connects(r, w) /\ Range(w) \subseteq r.allow

\* The walks between two nodes.
WalksBetween == [ends \in Nodes \X Nodes |->
                   {w \in Walks : From[w[1]] = ends[1] /\ To[Last(w)] = ends[2]}]

\* The walks that answer a request, whatever they spend.
Candidates(r) == IF {r.start, r.goal} \subseteq Nodes
                 THEN {w \in WalksBetween[<<r.start, r.goal>>] : Rideable(r, w)}
                 ELSE {}

\* A path that says of itself what its edges add up to.
SoundAnswer(r, res) ==
  LET w == res.edges
  IN  /\ IsWalk(w) /\ Rideable(r, w)
      /\ Cardinality(Range(w)) = Len(w)
      /\ res.cost = WalkCost(r, w)
      /\ res.lengthM = WalkLength(w)
      /\ res.usedM = WalkUsed(r, w)

\* The costs of the routes that stay within the threshold throughout.
ComfortableCosts(r) ==
  {WalkCost(r, w) : w \in {v \in Candidates(r) : WalkUsed(r, v) = 0}}

\* No such route was overlooked.
BestAnswer(r, res) ==
  \A c \in ComfortableCosts(r) : res.outcome = "path" /\ res.cost <= c

AnswerOf(r, w) ==
  [outcome |-> "path", edges |-> w, cost |-> WalkCost(r, w),
   lengthM |-> WalkLength(w), usedM |-> WalkUsed(r, w), expansions |-> 0]

(* Every path a call of Search may return: sound, within the budget, best. *)
(* It may also answer "unroutable" wherever start and goal differ, because *)
(* the expansion limit says so of a network that has a route too.          *)
Answers(r) ==
  LET costs == ComfortableCosts(r)
  IN  IF r.start = r.goal THEN {Bare("path")}
      ELSE {a \in {AnswerOf(r, w) : w \in Candidates(r)} :
              a.usedM <= r.budgetM /\ \A c \in costs : a.cost <= c}

Unroutable(r) == r.start # r.goal

=============================================================================
