---------------------------- MODULE MCSearchLadder ----------------------------
(***************************************************************************)
(* Four stages in a row, each a choice between a quiet detour and a shorter*)
(* stressful street, then a quiet block, then an unavoidable stressful     *)
(* crossing.  Per stage the edges are, in order: detour (5 m, within the   *)
(* threshold), street (3 m, over), block (1 m, within), crossing (1 m over,*)
(* 2 m in the last stage).  Budget 16 m in the default four buckets of 4 m.*)
(***************************************************************************)
EXTENDS SearchReference

Stages == 4
LadderEdges == 1 .. 4 * Stages
Stage(e) == (e - 1) \div 4
Kind(e) == (e - 1) % 4

LadderNodes == 1 .. 3 * Stages + 1
LadderFrom == [e \in LadderEdges |->
  3 * Stage(e) + (CASE Kind(e) \in {0, 1} -> 1 [] Kind(e) = 2 -> 2
                    [] OTHER -> 3)]
LadderTo == [e \in LadderEdges |->
  3 * Stage(e) + (CASE Kind(e) \in {0, 1} -> 2 [] Kind(e) = 2 -> 3
                    [] OTHER -> 4)]
LadderLengthM == [e \in LadderEdges |->
  CASE Kind(e) = 0 -> 5 [] Kind(e) = 1 -> 3 [] Kind(e) = 2 -> 1
    [] OTHER -> IF Stage(e) = Stages - 1 THEN 2 ELSE 1]
LadderStraightLine == [p \in LadderNodes \X LadderNodes |-> 0]

LadderRequests ==
  {[start |-> 1, goal |-> 3 * Stages + 1, edgeCost |-> LadderLengthM,
    turnCost |-> [p \in LadderEdges \X LadderEdges |-> 0],
    allow |-> LadderEdges, over |-> {e \in LadderEdges : Kind(e) \in {1, 3}},
    hasOver |-> TRUE, budgetM |-> 16, budgetSteps |-> 0,
    maxExpansions |-> 0, noHeuristic |-> FALSE]}

=============================================================================
