---------------------------- MODULE MCPlanHandler ----------------------------
(***************************************************************************)
(* Two corridors from node 1 to node 4, a two-way link between them, two   *)
(* parallel streets from 2 to 4 and one back, and an island {5, 6}.        *)
(***************************************************************************)
EXTENDS PlanHandler

MCNodes == 1 .. 6
MCEdges == 1 .. 9
MCFrom == <<1, 2, 1, 3, 2, 3, 4, 5, 2>>
MCTo ==   <<2, 4, 3, 4, 3, 2, 2, 6, 4>>
MCLengthM == <<10, 10, 17, 17, 2, 2, 10, 3, 15>>
MCLTS == <<1, 3, 2, 1, 0, 4, 3, 1, 2>>
MCInfra == <<"lane", "lane", "none", "none", "none", "none", "lane", "none",
             "lane">>

\* Polylines with and without a point between their ends.
MCShape == [e \in MCEdges |-> IF e % 2 = 1
                              THEN <<MCFrom[e], 100 + e, MCTo[e]>>
                              ELSE <<MCFrom[e], MCTo[e]>>]
MCTurnPenalty == [ef \in MCEdges \X MCEdges |->
                    IF ef \in {<<1, 2>>, <<3, 6>>} THEN 3 ELSE 0]
MCLTSPenalty == [l \in 0 .. 4 |-> <<1, 0, 0, 1, 2>>[l + 1]]

Row(n, d) == [node |-> n, distM |-> d]
MCNear == [home |-> <<Row(5, 3), Row(1, 20)>>,
           work |-> <<Row(4, 1000), Row(1, 1001)>>,
           cafe |-> <<Row(2, 8)>>,
           park |-> <<Row(3, 8)>>,
           islet |-> <<Row(6, 10), Row(5, 12), Row(1, 1001)>>,
           lake |-> <<Row(1, 1500)>>]

Profile(maxLTS, budget, lts, turn, hazard, dear) ==
  [maxLTS |-> maxLTS, budgetM |-> budget, weightLTS |-> lts,
   weightTurn |-> turn, weightHazard |-> hazard, maxDetour |-> 150,
   other |-> [e \in MCEdges |-> IF e \in dear THEN 1 ELSE 0]]

Shortest == Profile(4, 0, 0, 0, 0, {})

\* Budgets that rule the stressful road out, allow it once, and do not bind.
Profiles == {Shortest,
             Profile(4, 0, 0, 1, 1, {}), Profile(4, 0, 0, 0, 1, {1}),
             Profile(4, 0, 0, 1, 1, {1, 2}),
             Profile(2, 0, 1, 0, 1, {}), Profile(2, 10, 1, 1, 1, {}),
             Profile(3, 2, 1, 0, 1, {2}), Profile(2, 40, 0, 1, 1, {4})}

Ask(p, points, n) ==
  [decodes |-> TRUE, custom |-> TRUE, known |-> FALSE, profile |-> p,
   points |-> points, alternatives |-> n]

Home == <<"home", "work">>

MCPlans ==
  {Ask(p, Home, n) : p \in Profiles, n \in {-1, 1, 3}}
  \union {Ask(p, pts3, 2) : p \in {Shortest, Profile(2, 10, 1, 1, 1, {}),
                                       Profile(2, 10, 0, 0, 1, {})},
            pts3 \in {<<"home", "cafe", "work">>, <<"home", "work", "cafe">>,
                      <<"home", "home", "park">>}}
  \union {Ask(Shortest, p2, 1) : p2 \in {<<"home", "islet">>, <<"lake", "work">>,
            <<"home", "lake">>, <<"home", "cafe">>, <<"home", "home">>,
            <<"home">>}}
  \union {[Ask(Shortest, Home, 0) EXCEPT !.decodes = FALSE],
          [Ask(Shortest, Home, 1) EXCEPT !.custom = FALSE],
          [Ask(Shortest, Home, 1) EXCEPT !.custom = FALSE, !.known = TRUE],
          Ask(Profile(4, 0, 0, -2, 0, {}), Home, 1),
          Ask(Profile(4, 0, 11, 0, 0, {}), Home, 1),
          Ask(Profile(5, 0, 1, 0, 0, {}), Home, 1)}

=============================================================================
