------------------------------- MODULE MCSearch -------------------------------
(***************************************************************************)
(* A graph of four junctions and seven directed edges: two ways round a    *)
(* block, a two-way street inside it, and a dead end (node 4).  Node 9 is  *)
(* out of range.                                                           *)
(***************************************************************************)
EXTENDS SearchReference

MCNodes == 1 .. 4
MCEdges == 1 .. 7
MCFrom == <<1, 1, 2, 3, 2, 3, 2>>
MCTo == <<2, 3, 3, 2, 4, 4, 1>>
MCLengthM == <<1, 2, 1, 1, 2, 2, 1>>

Metric == {<<1, 2, 1>>, <<1, 3, 2>>, <<1, 4, 3>>, <<2, 3, 1>>, <<2, 4, 2>>,
           <<3, 4, 2>>}
MCStraightLine == [p \in MCNodes \X MCNodes |->
  IF p[1] = p[2] THEN 0
  ELSE (CHOOSE m \in Metric : {m[1], m[2]} = {p[1], p[2]})[3]]

Endpoints == {<<1, 4>>, <<3, 1>>}

\* Two stress surcharges and a turn that a rider should avoid.
Surcharges == {{}, {5}, {2, 5}}
Turns == {{}, {<<1, 5>>, <<1, 7>>, <<2, 6>>}, {<<1, 3>>, <<3, 6>>, <<2, 6>>}}
Overs == {{2}, {1, 5}, {5, 6}, {3, 4, 6}}

Plan(ends, dear, turns, over, budget, steps, free) ==
  [start |-> ends[1], goal |-> ends[2],
   edgeCost |-> [e \in MCEdges |->
                   IF e \in dear THEN 2 * MCLengthM[e] + 1 ELSE MCLengthM[e]],
   turnCost |-> [p \in MCEdges \X MCEdges |-> IF p \in turns THEN 4 ELSE 0],
   allow |-> MCEdges, over |-> over, hasOver |-> over # {},
   budgetM |-> budget, budgetSteps |-> steps, maxExpansions |-> 0,
   noHeuristic |-> free]

Plain == Plan(<<1, 4>>, {}, {}, {}, 0, 0, FALSE)

MCRequests ==
  {Plan(p, d, t, o, b, 0, FALSE) : p \in Endpoints, d \in Surcharges,
     t \in Turns, o \in Overs, b \in {0, 2, 4}}
  \union {Plan(p, d, t, {}, 0, 0, f) : p \in Endpoints, d \in Surcharges,
            t \in Turns, f \in BOOLEAN}
  \union {Plan(p, d, {}, {2, 3, 5}, 4, 9, TRUE) : p \in Endpoints,
            d \in Surcharges}
  \union {[Plain EXCEPT !.allow = {2, 4, 5}, !.start = 1],
          [Plain EXCEPT !.allow = {3, 4, 5}],
          [Plain EXCEPT !.maxExpansions = 2],
          [Plain EXCEPT !.goal = 1],
          [Plain EXCEPT !.start = 4, !.goal = 1],
          [Plain EXCEPT !.start = 9]}

=============================================================================
