--------------------------- MODULE MCNetworkRefresh ---------------------------
(***************************************************************************)
(* Three extracts of one quarter.  The first has a street with a bend at   *)
(* node 7 and a junction at 2, a one-way arterial, a turning circle, a     *)
(* street that leaves the extract and a motorway; the second has fewer     *)
(* streets in another order, so that every id names another road, and two  *)
(* of them cross in their middle; the third has nothing but the turning    *)
(* circle.                                                                 *)
(***************************************************************************)
EXTENDS NetworkRefresh, TLC

MCWhere == [n \in 1 .. 8 |-> IF n = 6 THEN 5 ELSE n]

Tags == [highway |-> "residential", bicycle |-> "", access |-> "", service |-> "",
         oneway |-> "", onewayBicycle |-> "", roundabout |-> FALSE,
         contraflow |-> FALSE]
Quiet == [infra |-> "none", highway |-> "residential", surface |-> "paved",
          speed |-> SpeedUnknown, lanes |-> LanesUnknown]
Fast == [Quiet EXCEPT !.infra = "painted_lane", !.highway = "primary"]

Way(id, ns, tags, facts) == [id |-> id, nodes |-> ns, tags |-> tags, facts |-> facts]

Street == Way("street", <<1, 7, 2, 3>>, Tags, Quiet)
Arterial == Way("arterial", <<2, 4>>,
                [Tags EXCEPT !.highway = "primary", !.oneway = "yes"], Fast)
Circle == Way("circle", <<4, 5, 6, 4>>, [Tags EXCEPT !.roundabout = TRUE], Quiet)
Leaving == Way("leaving", <<3, 8>>, Tags, Quiet)
Motorway == Way("motorway", <<7, 3>>, [Tags EXCEPT !.highway = "motorway"], Fast)
Lane == Way("lane", <<1, 7, 2>>,
            [Tags EXCEPT !.oneway = "yes", !.onewayBicycle = "no"],
            [Quiet EXCEPT !.speed = 20])

Alley == Way("alley", <<4, 7, 3>>, [Tags EXCEPT !.oneway = "yes"],
             [Quiet EXCEPT !.highway = "service"])

MCExtracts == {
  [ways |-> <<Street, Arterial, Circle, Leaving, Motorway>>, clipped |-> {8}],
  [ways |-> <<Arterial, Lane, Alley>>, clipped |-> {}],
  [ways |-> <<Circle>>, clipped |-> {}]}

Crash(sid, place) == [sid |-> sid, place |-> place, usable |-> TRUE]
MCFeeds == {
  <<Crash(1, 7), Crash(1, 4), [Crash(2, 2) EXCEPT !.usable = FALSE]>>,
  <<Crash(3, 4)>>}

MCCloseTo == {<<p, p>> : p \in 1 .. 8}
MCHeightAt == [p \in 1 .. 8 |-> IF p = 3 THEN Null ELSE 10 * p]

Symmetry == Permutations(Operators)

=============================================================================
