----------------------------- MODULE NetworkProofs -----------------------------
(***************************************************************************)
(* For any number of operators, extracts, feeds and servers' starts, and   *)
(* whatever commands run into each other or are killed: the network has    *)
(* the topology of its streets; every crash score sums up the crashes near *)
(* its road in the import matched last, which crash_edge names until the   *)
(* next import; stress, heights and grades stand on their own roads,       *)
(* except what one command wrote over another's network; what graph.Load   *)
(* accepts can be searched and translated, and a plan shows the roads it   *)
(* was routed on while copy and tables are of one network.  On the way:    *)
(* what the stress rubric guarantees for every road, and what Build makes  *)
(* of any extract.                                                         *)
(***************************************************************************)
EXTENDS NetworkRefresh, FiniteSetTheorems, SequenceTheorems, WellFoundedInduction, TLAPS

-----------------------------------------------------------------------------
(* What the stress rubric guarantees for every road whatever its speed     *)
(* limit and lane count: the classification is total, and it moves with    *)
(* speed, lanes and separation the way its rules intend, except on service *)
(* roads and living streets, whose rules ignore part of the facts.         *)

\* Two roads that differ in their tagged speed limit, or in their lanes.
SameButSpeed(f, g) ==
  /\ f.infra = g.infra /\ f.highway = g.highway /\ f.surface = g.surface
  /\ f.lanes = g.lanes
  /\ 0 < f.speed /\ f.speed <= g.speed

SameButLanes(f, g) ==
  /\ f.infra = g.infra /\ f.highway = g.highway /\ f.surface = g.surface
  /\ f.speed = g.speed
  /\ 0 < f.lanes /\ f.lanes <= g.lanes

\* Untagged speeds and lanes are given a positive default.
LEMMA EffectivePositive ==
  ASSUME NEW f, FactsType(f)
  PROVE  /\ EffectiveSpeed(f) \in Nat \ {0}
         /\ EffectiveLanes(f) \in Nat \ {0}
<1>1. DefaultSpeedMPH(f.highway) \in Nat \ {0}
  BY DEF DefaultSpeedMPH
<1>2. DefaultLanes(f.highway) \in Nat \ {0}
  BY DEF DefaultLanes
<1> QED  BY <1>1, <1>2 DEF FactsType, EffectiveSpeed, EffectiveLanes

\* The four tables have a level for every positive speed and lane count.
LEMMA TablesTotal ==
  ASSUME NEW highway, NEW speed \in Nat, NEW lanes \in Nat
  PROVE  /\ BufferedLane(speed, lanes) \in 1 .. 4
         /\ PaintedLane(speed, lanes) \in 1 .. 4
         /\ MixedTraffic(highway, speed, lanes) \in 1 .. 4
<1>1. BufferedLane(speed, lanes) \in 1 .. 4  BY DEF BufferedLane
<1>2. PaintedLane(speed, lanes) \in 1 .. 4  BY DEF PaintedLane
<1>3. MixedTraffic(highway, speed, lanes) \in 1 .. 4  BY DEF MixedTraffic
<1> QED  BY <1>1, <1>2, <1>3

(* Every road gets a level the column accepts (00002_routing_graph.sql:    *)
(* CHECK lts BETWEEN 1 AND 4) and that is not taken for "never scored",    *)
(* whatever an extract says of its speed and lanes: PersistLTS cannot fail *)
(* on a value ClassifyLTS computed.                                        *)
THEOREM ClassificationTotal ==
  ASSUME NEW f, FactsType(f)
  PROVE  ClassifyLTS(f) \in 1 .. 4
<1> DEFINE speed == EffectiveSpeed(f)  lanes == EffectiveLanes(f)
<1>1. speed \in Nat /\ lanes \in Nat  BY EffectivePositive
<1>2. /\ BufferedLane(speed, lanes) \in 1 .. 4
      /\ PaintedLane(speed, lanes) \in 1 .. 4
      /\ MixedTraffic(f.highway, speed, lanes) \in 1 .. 4
  BY <1>1, TablesTotal
<1> HIDE DEF speed, lanes
<1> QED  BY <1>2 DEF ClassifyLTS, speed, lanes

\* Each table rises with the speed limit; service roads are an exception.
LEMMA TablesRiseWithSpeed ==
  ASSUME NEW highway, NEW s \in Nat, NEW t \in Nat, s <= t, NEW lanes \in Nat
  PROVE  /\ BufferedLane(s, lanes) <= BufferedLane(t, lanes)
         /\ PaintedLane(s, lanes) <= PaintedLane(t, lanes)
         /\ highway # "service" =>
              MixedTraffic(highway, s, lanes) <= MixedTraffic(highway, t, lanes)
<1>1. BufferedLane(s, lanes) <= BufferedLane(t, lanes)  BY DEF BufferedLane
<1>2. PaintedLane(s, lanes) <= PaintedLane(t, lanes)  BY DEF PaintedLane
<1>3. highway # "service" =>
        MixedTraffic(highway, s, lanes) <= MixedTraffic(highway, t, lanes)
  BY DEF MixedTraffic
<1> QED  BY <1>1, <1>2, <1>3

LEMMA TablesRiseWithLanes ==
  ASSUME NEW highway, NEW speed \in Nat, NEW k \in Nat, NEW l \in Nat, k <= l
  PROVE  /\ BufferedLane(speed, k) <= BufferedLane(speed, l)
         /\ PaintedLane(speed, k) <= PaintedLane(speed, l)
         /\ MixedTraffic(highway, speed, k) <= MixedTraffic(highway, speed, l)
<1>1. BufferedLane(speed, k) <= BufferedLane(speed, l)  BY DEF BufferedLane
<1>2. PaintedLane(speed, k) <= PaintedLane(speed, l)  BY DEF PaintedLane
<1>3. MixedTraffic(highway, speed, k) <= MixedTraffic(highway, speed, l)
  BY DEF MixedTraffic
<1> QED  BY <1>1, <1>2, <1>3

(* A higher speed limit never lowers a road's stress, so a rider's         *)
(* threshold never admits the faster of two like roads and refuses the     *)
(* slower.  Service roads are excepted because the code is: an alley of up *)
(* to 20 mph is level 2, one of 21 to 25 mph falls through to level 1.     *)
THEOREM FasterNeverCalmer ==
  ASSUME NEW f, NEW g, FactsType(f), FactsType(g), SameButSpeed(f, g),
         f.highway # "service"
  PROVE  ClassifyLTS(f) <= ClassifyLTS(g)
<1> DEFINE s == EffectiveSpeed(f)  t == EffectiveSpeed(g)  lanes == EffectiveLanes(f)
<1>1. s \in Nat /\ t \in Nat /\ lanes \in Nat  BY EffectivePositive
<1>2. s <= t /\ EffectiveLanes(g) = lanes
  BY DEF SameButSpeed, FactsType, EffectiveSpeed, EffectiveLanes
<1>3. /\ BufferedLane(s, lanes) <= BufferedLane(t, lanes)
      /\ PaintedLane(s, lanes) <= PaintedLane(t, lanes)
      /\ MixedTraffic(f.highway, s, lanes) <= MixedTraffic(f.highway, t, lanes)
  BY <1>1, <1>2, TablesRiseWithSpeed
<1> HIDE DEF s, t, lanes
<1> QED  BY <1>2, <1>3 DEF ClassifyLTS, SameButSpeed, s, t, lanes

(* More lanes never lower a road's stress, on any class of road.           *)
THEOREM WiderNeverCalmer ==
  ASSUME NEW f, NEW g, FactsType(f), FactsType(g), SameButLanes(f, g)
  PROVE  ClassifyLTS(f) <= ClassifyLTS(g)
<1> DEFINE speed == EffectiveSpeed(f)  k == EffectiveLanes(f)  l == EffectiveLanes(g)
<1>1. speed \in Nat /\ k \in Nat /\ l \in Nat  BY EffectivePositive
<1>2. k <= l /\ EffectiveSpeed(g) = speed
  BY DEF SameButLanes, FactsType, EffectiveSpeed, EffectiveLanes
<1>3. /\ BufferedLane(speed, k) <= BufferedLane(speed, l)
      /\ PaintedLane(speed, k) <= PaintedLane(speed, l)
      /\ MixedTraffic(f.highway, speed, k) <= MixedTraffic(f.highway, speed, l)
  BY <1>1, <1>2, TablesRiseWithLanes
<1> HIDE DEF speed, k, l
<1> QED  BY <1>2, <1>3 DEF ClassifyLTS, SameButLanes, speed, k, l

\* One road, with a buffered lane and without a facility of its own.
LosesItsBuffer(f, g) ==
  /\ f.infra = "buffered_lane" /\ g.infra \in {"shared_lane", "none"}
  /\ f.highway = g.highway /\ f.speed = g.speed /\ f.lanes = g.lanes

LEMMA BufferTable ==
  ASSUME NEW highway, highway # "living_street", NEW speed \in Nat, NEW lanes \in Nat
  PROVE  BufferedLane(speed, lanes) <= MixedTraffic(highway, speed, lanes)
BY DEF BufferedLane, MixedTraffic

(* A buffered lane is never rated worse than the same road without one; on *)
(* a living street, which is level 1 for its class, the lane can cost.  A  *)
(* painted lane has no such guarantee: on two lanes at 40 mph it is level 4*)
(* and mixed traffic level 3.                                              *)
THEOREM BufferNeverWorse ==
  ASSUME NEW f, NEW g, FactsType(f), FactsType(g), LosesItsBuffer(f, g),
         f.highway # "living_street"
  PROVE  ClassifyLTS(f) <= ClassifyLTS(g)
<1> DEFINE speed == EffectiveSpeed(f)  lanes == EffectiveLanes(f)
<1>1. speed \in Nat /\ lanes \in Nat  BY EffectivePositive
<1>2. EffectiveSpeed(g) = speed /\ EffectiveLanes(g) = lanes
  BY DEF LosesItsBuffer, EffectiveSpeed, EffectiveLanes
<1>3. BufferedLane(speed, lanes) <= MixedTraffic(f.highway, speed, lanes)
  BY <1>1, BufferTable
<1>4. ClassifyLTS(f) = BufferedLane(speed, lanes)
  BY Zenon DEF ClassifyLTS, LosesItsBuffer
<1>5. ClassifyLTS(g) = MixedTraffic(f.highway, speed, lanes)
  BY <1>2, Zenon DEF ClassifyLTS, LosesItsBuffer
<1> QED  BY <1>3, <1>4, <1>5

-----------------------------------------------------------------------------
(* Induction over the naturals, for a set.                                 *)

LEMMA LeastNumber ==
  ASSUME NEW T \in SUBSET Nat, T # {}
  PROVE  \E n \in T : \A m \in T : n <= m
<1>1. IsWellFoundedOn(OpToRel(<, Nat), Nat)
  BY NatLessThanWellFounded
<1>2. PICK n \in T : \A m \in Nat : <<m, n>> \in OpToRel(<, Nat) => m \notin T
  BY <1>1, WFMin
<1>3. \A m \in T : ~(m < n)
  BY <1>2 DEF OpToRel
<1> QED  BY <1>3

LEMMA Induct ==
  ASSUME NEW T \in SUBSET Nat, 0 \in T, \A n \in T : n + 1 \in T
  PROVE  T = Nat
<1> SUFFICES ASSUME T # Nat PROVE FALSE
  OBVIOUS
<1>1. PICK n \in Nat \ T : \A m \in Nat \ T : n <= m
  BY LeastNumber
<1>2. n # 0 /\ n - 1 \in Nat
  BY <1>1
<1>3. n - 1 \in T
  BY <1>1, <1>2
<1> QED  BY <1>1, <1>3

-----------------------------------------------------------------------------
(* The loops of Build, unfolded.                                           *)

\* What an extract offers to the loops.
LEMMA WaysOf ==
  ASSUME NEW x \in Extracts
  PROVE  /\ Len(x.ways) \in Nat /\ DOMAIN x.ways = 1 .. Len(x.ways)
         /\ \A i \in ScanWays(x) :
              /\ i \in DOMAIN x.ways
              /\ x.ways[i].nodes \in Seq(DOMAIN Where)
              /\ Len(x.ways[i].nodes) \in Nat /\ Len(x.ways[i].nodes) >= 2
              /\ DOMAIN x.ways[i].nodes = 1 .. Len(x.ways[i].nodes)
              /\ \A j \in 1 .. Len(x.ways[i].nodes) : x.ways[i].nodes[j] \in DOMAIN Where
              /\ FactsType(x.ways[i].facts)
<1>1. /\ x.ways \in Seq(Range(x.ways))
      /\ \A w \in Range(x.ways) : w.nodes \in Seq(DOMAIN Where) /\ FactsType(w.facts)
  BY ExtractAssumption
<1>2. Len(x.ways) \in Nat /\ DOMAIN x.ways = 1 .. Len(x.ways)
  BY <1>1
<1>3. ASSUME NEW i \in ScanWays(x)
      PROVE  /\ i \in DOMAIN x.ways
             /\ x.ways[i].nodes \in Seq(DOMAIN Where)
             /\ Len(x.ways[i].nodes) \in Nat /\ Len(x.ways[i].nodes) >= 2
             /\ DOMAIN x.ways[i].nodes = 1 .. Len(x.ways[i].nodes)
             /\ \A j \in 1 .. Len(x.ways[i].nodes) : x.ways[i].nodes[j] \in DOMAIN Where
             /\ FactsType(x.ways[i].facts)
  <2>1. i \in DOMAIN x.ways /\ Len(x.ways[i].nodes) >= 2
    BY DEF ScanWays
  <2>2. x.ways[i] \in Range(x.ways)
    BY <2>1 DEF Range
  <2>3. x.ways[i].nodes \in Seq(DOMAIN Where) /\ FactsType(x.ways[i].facts)
    BY <1>1, <2>2
  <2> QED  BY <2>1, <2>3
<1> QED  BY <1>2, <1>3

\* The walk along a way, and the states it goes through.
IsWalk(f, x, w, g, n) ==
  f = [j \in 1 .. n |-> IF j = 1 THEN [start |-> 1, g |-> g] ELSE cutAt(x, w, f[j - 1], j)]

LEMMA WalkExists ==
  ASSUME NEW x, NEW w, NEW g, NEW n \in Nat
  PROVE  \E f : IsWalk(f, x, w, g, n)
<1> DEFINE T == {k \in Nat : \E f : IsWalk(f, x, w, g, k)}
<1>1. 0 \in T
  <2>1. IsWalk(<<>>, x, w, g, 0)
    BY DEF IsWalk
  <2> QED  BY <2>1
<1>2. ASSUME NEW k \in T PROVE k + 1 \in T
  <2>1. PICK f : f = [j \in 1 .. k |-> IF j = 1 THEN [start |-> 1, g |-> g]
                                      ELSE cutAt(x, w, f[j - 1], j)]
    BY <1>2 DEF IsWalk
  <2> DEFINE h == [j \in 1 .. k + 1 |->
                     IF j <= k THEN f[j] ELSE IF j = 1 THEN [start |-> 1, g |-> g]
                                         ELSE cutAt(x, w, f[k], k + 1)]
  <2>2. ASSUME NEW j \in 1 .. k + 1
        PROVE  h[j] = IF j = 1 THEN [start |-> 1, g |-> g] ELSE cutAt(x, w, h[j - 1], j)
    <3>1. CASE j \in 1 .. k
      <4>1. h[j] = f[j]  BY <3>1
      <4>2. CASE j = 1  BY <2>1, <3>1, <4>1, <4>2
      <4>3. CASE j # 1
        <5>1. j - 1 \in 1 .. k /\ h[j - 1] = f[j - 1]  BY <3>1, <4>3
        <5> QED  BY <2>1, <3>1, <4>1, <4>3, <5>1
      <4> QED  BY <4>2, <4>3
    <3>2. CASE j = k + 1
      <4>1. CASE k = 0  BY <3>2, <4>1
      <4>2. CASE k # 0
        <5>1. h[j - 1] = f[k] /\ h[j] = cutAt(x, w, f[k], j)  BY <3>2, <4>2
        <5> QED  BY <3>2, <4>2, <5>1
      <4> QED  BY <4>1, <4>2
    <3> QED  BY <3>1, <3>2
  <2>3. IsWalk(h, x, w, g, k + 1)
    <3> HIDE DEF h
    <3>1. h = [j \in 1 .. k + 1 |-> h[j]]
      BY DEF h
    <3> QED  BY <2>2, <3>1 DEF IsWalk
  <2> HIDE DEF h
  <2> QED  BY <2>3
<1> HIDE DEF T
<1>3. T = Nat  BY <1>1, <1>2, Induct DEF T
<1> QED  BY <1>3 DEF T

LEMMA WalkUnfolds ==
  ASSUME NEW x \in Extracts, NEW g, NEW i \in ScanWays(x)
  PROVE  \E f : /\ f[1] = [start |-> 1, g |-> g]
                /\ \A j \in 2 .. Len(x.ways[i].nodes) :
                     f[j] = cutAt(x, x.ways[i], f[j - 1], j)
                /\ addWay(x, g, i) = f[Len(x.ways[i].nodes)].g
<1> DEFINE w == x.ways[i]
           f == CHOOSE h : h = [j \in DOMAIN w.nodes |->
                                  IF j = 1 THEN [start |-> 1, g |-> g]
                                  ELSE cutAt(x, w, h[j - 1], j)]
<1>1. Len(w.nodes) \in Nat /\ Len(w.nodes) >= 2 /\ DOMAIN w.nodes = 1 .. Len(w.nodes)
  BY WaysOf
<1>2. f = [j \in DOMAIN w.nodes |-> IF j = 1 THEN [start |-> 1, g |-> g]
                                    ELSE cutAt(x, w, f[j - 1], j)]
  <2>1. \E h : IsWalk(h, x, w, g, Len(w.nodes))
    <3> HIDE DEF w
    <3> QED  BY <1>1, WalkExists
  <2> QED  BY <1>1, <2>1 DEF IsWalk
<1>3. addWay(x, g, i) = f[Len(w.nodes)].g
  BY DEF addWay
<1> HIDE DEF f
<1>4. f[1] = [start |-> 1, g |-> g]
  BY <1>1, <1>2
<1>5. ASSUME NEW j \in 2 .. Len(w.nodes)
      PROVE  f[j] = cutAt(x, w, f[j - 1], j)
  BY SMTT(30), <1>1, <1>2
<1> QED  BY <1>3, <1>4, <1>5

\* The loop over the ways.
LEMMA DoneExists ==
  ASSUME NEW x, NEW n \in Nat
  PROVE  \E f : f = [i \in 0 .. n |-> IF i = 0 THEN [nodes |-> <<>>, edges |-> <<>>]
                                      ELSE addWay(x, f[i - 1], i)]
<1> DEFINE T == {k \in Nat : \E f : f = [i \in 0 .. k |->
                   IF i = 0 THEN [nodes |-> <<>>, edges |-> <<>>] ELSE addWay(x, f[i - 1], i)]}
<1>1. 0 \in T
  <2> DEFINE h == [i \in 0 .. 0 |-> [nodes |-> <<>>, edges |-> <<>>]]
  <2>1. h = [i \in 0 .. 0 |-> IF i = 0 THEN [nodes |-> <<>>, edges |-> <<>>]
                              ELSE addWay(x, h[i - 1], i)]
    OBVIOUS
  <2> HIDE DEF h
  <2> QED  BY <2>1
<1>2. ASSUME NEW k \in T PROVE k + 1 \in T
  <2>1. PICK f : f = [i \in 0 .. k |-> IF i = 0 THEN [nodes |-> <<>>, edges |-> <<>>]
                                       ELSE addWay(x, f[i - 1], i)]
    BY <1>2
  <2> DEFINE h == [i \in 0 .. k + 1 |-> IF i <= k THEN f[i] ELSE addWay(x, f[k], k + 1)]
  <2>2. ASSUME NEW i \in 0 .. k + 1
        PROVE  h[i] = IF i = 0 THEN [nodes |-> <<>>, edges |-> <<>>]
                      ELSE addWay(x, h[i - 1], i)
    <3>1. CASE i = 0  BY <2>1, <3>1
    <3>2. CASE i \in 1 .. k  BY <2>1, <3>2
    <3>3. CASE i = k + 1  BY <3>3
    <3> QED  BY <3>1, <3>2, <3>3
  <2>3. h = [i \in 0 .. k + 1 |-> IF i = 0 THEN [nodes |-> <<>>, edges |-> <<>>]
                                  ELSE addWay(x, h[i - 1], i)]
    BY <2>2
  <2> HIDE DEF h
  <2> QED  BY <2>3
<1> HIDE DEF T
<1>3. T = Nat  BY <1>1, <1>2, Induct DEF T
<1> QED  BY <1>3 DEF T

LEMMA BuildUnfolds ==
  ASSUME NEW x \in Extracts
  PROVE  \E f : /\ f[0] = [nodes |-> <<>>, edges |-> <<>>]
                /\ \A i \in 1 .. Len(x.ways) : f[i] = addWay(x, f[i - 1], i)
                /\ Build(x) = [nodes |-> Table(f[Len(x.ways)].nodes),
                               edges |-> Table(f[Len(x.ways)].edges)]
<1> DEFINE f == CHOOSE h : h = [i \in 0 .. Len(x.ways) |->
                                  IF i = 0 THEN [nodes |-> <<>>, edges |-> <<>>]
                                  ELSE addWay(x, h[i - 1], i)]
<1>1. Len(x.ways) \in Nat
  BY WaysOf
<1>2. f = [i \in 0 .. Len(x.ways) |-> IF i = 0 THEN [nodes |-> <<>>, edges |-> <<>>]
                                      ELSE addWay(x, f[i - 1], i)]
  BY <1>1, DoneExists
<1>3. Build(x) = [nodes |-> Table(f[Len(x.ways)].nodes),
                  edges |-> Table(f[Len(x.ways)].edges)]
  BY DEF Build
<1> HIDE DEF f
<1>4. f[0] = [nodes |-> <<>>, edges |-> <<>>]
  BY <1>1, <1>2
<1>5. ASSUME NEW i \in 1 .. Len(x.ways) PROVE f[i] = addWay(x, f[i - 1], i)
  BY <1>1, <1>2
<1> QED  BY <1>3, <1>4, <1>5

-----------------------------------------------------------------------------
(* Where ways are cut.                                                     *)

LEMMA ImageFinite ==
  ASSUME NEW S, IsFiniteSet(S), NEW f
  PROVE  IsFiniteSet({f[i] : i \in S})
<1> DEFINE T == {f[i] : i \in S}
           h == [i \in S |-> f[i]]
<1>1. h \in Surjection(S, T)
  BY DEF Surjection
<1> HIDE DEF h, T
<1>2. IsFiniteSet(T)
  BY <1>1, FS_Surjection
<1> QED  BY <1>2 DEF T

LEMMA VisitsFinite ==
  ASSUME NEW x \in Extracts
  PROVE  IsFiniteSet(Visits(x))
<1> DEFINE touch == [i \in ScanWays(x) |-> {<<i, j>> : j \in DOMAIN x.ways[i].nodes}]
           S == {touch[i] : i \in ScanWays(x)}
<1>1. IsFiniteSet(ScanWays(x))
  <2>1. IsFiniteSet(1 .. Len(x.ways))
    BY WaysOf, FS_Interval
  <2>2. ScanWays(x) \subseteq 1 .. Len(x.ways)
    BY WaysOf
  <2> QED  BY <2>1, <2>2, FS_Subset
<1>2. IsFiniteSet(S)
  <2> HIDE DEF touch
  <2> QED  BY <1>1, ImageFinite
<1>3. ASSUME NEW i \in ScanWays(x) PROVE IsFiniteSet(touch[i])
  <2> DEFINE pair == [j \in DOMAIN x.ways[i].nodes |-> <<i, j>>]
  <2>1. IsFiniteSet(DOMAIN x.ways[i].nodes)
    <3>1. Len(x.ways[i].nodes) \in Nat /\ DOMAIN x.ways[i].nodes = 1 .. Len(x.ways[i].nodes)
      BY WaysOf
    <3> QED  BY <3>1, FS_Interval
  <2>2. IsFiniteSet({pair[j] : j \in DOMAIN x.ways[i].nodes})
    <3> HIDE DEF pair
    <3> QED  BY <2>1, ImageFinite
  <2>3. {pair[j] : j \in DOMAIN x.ways[i].nodes} = touch[i]
    OBVIOUS
  <2> QED  BY <2>2, <2>3
<1>4. \A s \in S : IsFiniteSet(s)
  <2> HIDE DEF touch
  <2> QED  BY <1>3
<1>5. IsFiniteSet(UNION S)
  <2> HIDE DEF S
  <2> QED  BY <1>2, <1>4, FS_UNION
<1>6. Visits(x) = UNION S
  BY DEF Visits
<1> QED  BY <1>5, <1>6

LEMMA VisitIs ==
  ASSUME NEW x, NEW i \in ScanWays(x), NEW j \in DOMAIN x.ways[i].nodes
  PROVE  <<i, j>> \in Visits(x) /\ NodeAt(x, <<i, j>>) = x.ways[i].nodes[j]
BY DEF Visits, NodeAt

\* A node that is passed twice is a split point.
LEMMA CrossingsSplit ==
  ASSUME NEW x \in Extracts, NEW n \in Crossings[x]
  PROVE  IsSplitPoint(x, n)
<1> DEFINE V == {v \in Visits(x) : NodeAt(x, v) = n}
           c == Cardinality(V)
<1>1. PICK u \in Visits(x), t \in Visits(x) : t # u /\ NodeAt(x, u) = n /\ NodeAt(x, t) = n
  BY DEF Crossings
<1>2. IsFiniteSet(V)
  BY VisitsFinite, FS_Subset
<1>3. c \in Nat /\ c >= 2
  <2>1. {u, t} \subseteq V
    BY <1>1
  <2>2. Cardinality({u, t}) = 2
    <3>1. IsFiniteSet({u}) /\ Cardinality({u}) = 1
      BY FS_Singleton
    <3>2. {u, t} = {u} \union {t} /\ t \notin {u}
      BY <1>1
    <3>3. Cardinality({u} \union {t}) = 1 + 1
      BY <3>1, <3>2, FS_AddElement
    <3> QED  BY <3>2, <3>3
  <2>3. c \in Nat /\ Cardinality({u, t}) <= c
    BY <1>2, <2>1, FS_Subset, FS_CardinalityType
  <2> QED  BY <2>2, <2>3
<1>4. Min({2, c}) = 2
  <2> HIDE DEF c
  <2> QED  BY <1>3 DEF Min
<1>5. NodeUse(x, n) = 2
  <2> HIDE DEF c
  <2>1. NodeUse(x, n) = IF \E i \in ScanWays(x) : n \in {x.ways[i].nodes[1], Last(x.ways[i].nodes)}
                        THEN 2 ELSE Min({2, c})
    BY DEF NodeUse, c
  <2> QED  BY <1>4, <2>1
<1> QED  BY <1>5 DEF IsSplitPoint

-----------------------------------------------------------------------------
(* Rows of the node table.                                                 *)

NodeRows == {NodeRow(n) : n \in DOMAIN Where}

LEMMA InternKeeps ==
  ASSUME NEW rows \in Seq(NodeRows), NEW n \in DOMAIN Where
  PROVE  /\ intern(rows, n) \in Seq(NodeRows)
         /\ Len(rows) <= Len(intern(rows, n))
         /\ \A i \in 1 .. Len(rows) : intern(rows, n)[i] = rows[i]
         /\ \E i \in 1 .. Len(intern(rows, n)) : intern(rows, n)[i].osm = n
<1>1. CASE \E i \in DOMAIN rows : rows[i].osm = n
  BY <1>1 DEF intern
<1>2. CASE ~\E i \in DOMAIN rows : rows[i].osm = n
  <2>1. intern(rows, n) = Append(rows, NodeRow(n))
    BY <1>2 DEF intern
  <2>2. NodeRow(n) \in NodeRows /\ NodeRow(n).osm = n
    BY DEF NodeRows, NodeRow
  <2> DEFINE r == NodeRow(n)
  <2> HIDE DEF r
  <2>3. /\ Append(rows, r) \in Seq(NodeRows)
        /\ Len(Append(rows, r)) = Len(rows) + 1
        /\ \A i \in 1 .. Len(rows) : Append(rows, r)[i] = rows[i]
        /\ Append(rows, r)[Len(rows) + 1] = r
    BY <2>2, AppendProperties DEF r
  <2>4. Len(rows) \in Nat
    OBVIOUS
  <2>5. \E i \in 1 .. Len(rows) + 1 : Append(rows, r)[i].osm = n
    BY <2>2, <2>3, <2>4 DEF r
  <2> QED  BY <2>1, <2>3, <2>4, <2>5 DEF r
<1> QED  BY <1>1, <1>2

LEMMA DenseIdFinds ==
  ASSUME NEW rows \in Seq(NodeRows), NEW n,
         \E i \in 1 .. Len(rows) : rows[i].osm = n
  PROVE  DenseId(rows, n) \in 0 .. Len(rows) - 1 /\ rows[DenseId(rows, n) + 1].osm = n
<1> DEFINE i == CHOOSE i \in DOMAIN rows : rows[i].osm = n
<1>1. i \in 1 .. Len(rows) /\ rows[i].osm = n /\ Len(rows) \in Nat
  OBVIOUS
<1>2. DenseId(rows, n) = i - 1
  BY DEF DenseId
<1> HIDE DEF i
<1>3. (i - 1) + 1 = i /\ i - 1 \in 0 .. Len(rows) - 1
  BY <1>1
<1> QED  BY <1>1, <1>2, <1>3

-----------------------------------------------------------------------------
(* Rows of the edge table, as one segment adds them.                       *)

EdgeRows(x) ==
  {EdgeRow(x.ways[i], s, from, to) :
     i \in ScanWays(x), s \in Seq(DOMAIN Where), from \in Nat, to \in Nat}

EdgeColumns == {"way", "shape", "from", "to", "facts", "lts", "score", "grade"}

\* An edge that stands in the table follows a way between nodes that do.
FollowsWay(x, ns, e) ==
  /\ DOMAIN e = EdgeColumns
  /\ e.lts = 0 /\ e.score = {} /\ e.grade = Null
  /\ FactsType(e.facts)
  /\ e.from \in 0 .. Len(ns) - 1 /\ ns[e.from + 1].osm = e.shape[1]
  /\ e.to \in 0 .. Len(ns) - 1 /\ ns[e.to + 1].osm = Last(e.shape)
  /\ StepsOf(e) \subseteq RideSteps[x]
  /\ Inner(e) \intersect Crossings[x] = {}

SoFar(x, g) ==
  /\ g.nodes \in Seq(NodeRows)
  /\ g.edges \in Seq(EdgeRows(x))
  /\ \A k \in 1 .. Len(g.edges) : FollowsWay(x, g.nodes, g.edges[k])

\* One row or none, and again one row or none, behind a table.
Behind(R, es, F, a, B, b) ==
  LET s == es \o a \o b
  IN  /\ s \in Seq(R)
      /\ Len(es) <= Len(s)
      /\ \A k \in 1 .. Len(es) : s[k] = es[k]
      /\ \A k \in 1 .. Len(s) :
           k > Len(es) => (a = <<F>> /\ s[k] = F) \/ (b = <<B>> /\ s[k] = B)
      /\ a = <<F>> => \E k \in 1 .. Len(s) : s[k] = F
      /\ b = <<B>> => \E k \in 1 .. Len(s) : s[k] = B

LEMMA Joined ==
  ASSUME NEW R, NEW es \in Seq(R), NEW F \in R, NEW B \in R,
         NEW a \in {<<>>, <<F>>}, NEW b \in {<<>>, <<B>>}
  PROVE  Behind(R, es, F, a, B, b)
<1> DEFINE s == es \o a \o b
<1>1. a \in Seq(R) /\ Len(a) \in 0 .. 1 /\ (Len(a) = 1 => a = <<F>>) /\ (a = <<F>> => Len(a) = 1)
  <2>1. CASE a = <<>>
    <3>1. a \in Seq(R) /\ Len(a) = 0 /\ Len(<<F>>) = 1
      BY <2>1
    <3> QED  BY <3>1
  <2>2. CASE a = <<F>>
    <3>1. a \in Seq(R) /\ Len(a) = 1
      BY <2>2
    <3> QED  BY <2>2, <3>1
  <2> QED  BY <2>1, <2>2
<1>2. b \in Seq(R) /\ Len(b) \in 0 .. 1 /\ (Len(b) = 1 => b = <<B>>) /\ (b = <<B>> => Len(b) = 1)
  <2>1. CASE b = <<>>
    <3>1. b \in Seq(R) /\ Len(b) = 0 /\ Len(<<B>>) = 1
      BY <2>1
    <3> QED  BY <3>1
  <2>2. CASE b = <<B>>
    <3>1. b \in Seq(R) /\ Len(b) = 1
      BY <2>2
    <3> QED  BY <2>2, <3>1
  <2> QED  BY <2>1, <2>2
<1> DEFINE m == es \o a
<1>3. /\ m \in Seq(R) /\ Len(m) = Len(es) + Len(a)
      /\ \A k \in 1 .. Len(es) + Len(a) : m[k] = IF k <= Len(es) THEN es[k] ELSE a[k - Len(es)]
  BY <1>1, ConcatProperties
<1> HIDE DEF m
<1>4. s = m \o b
  BY DEF m
<1> HIDE DEF s
<1>5. /\ s \in Seq(R) /\ Len(s) = Len(m) + Len(b)
      /\ \A k \in 1 .. Len(m) + Len(b) : s[k] = IF k <= Len(m) THEN m[k] ELSE b[k - Len(m)]
  <2>1. m \in Seq(R) /\ b \in Seq(R)
    BY <1>2, <1>3
  <2>2. /\ m \o b \in Seq(R) /\ Len(m \o b) = Len(m) + Len(b)
        /\ \A k \in 1 .. Len(m) + Len(b) :
             (m \o b)[k] = IF k <= Len(m) THEN m[k] ELSE b[k - Len(m)]
    BY <2>1, ConcatProperties
  <2> QED  BY <1>4, <2>2
<1>6. Len(es) \in Nat /\ Len(m) \in Nat /\ Len(s) \in Nat
  BY <1>3, <1>5
<1>7. \A k \in 1 .. Len(es) : s[k] = es[k]
  BY <1>1, <1>2, <1>3, <1>5, <1>6
<1>8. ASSUME NEW k \in 1 .. Len(s), k > Len(es)
      PROVE  (a = <<F>> /\ s[k] = F) \/ (b = <<B>> /\ s[k] = B)
  <2>1. CASE k <= Len(m)
    <3>1. s[k] = a[k - Len(es)] /\ k - Len(es) \in 1 .. Len(a)
      BY <1>1, <1>2, <1>3, <1>5, <1>6, <1>8, <2>1
    <3>2. k - Len(es) = 1 /\ a = <<F>>
      BY <1>1, <1>6, <3>1
    <3> QED  BY <3>1, <3>2
  <2>2. CASE k > Len(m)
    <3>1. s[k] = b[k - Len(m)] /\ k - Len(m) \in 1 .. Len(b)
      BY <1>2, <1>5, <1>6, <1>8, <2>2
    <3>2. k - Len(m) = 1 /\ b = <<B>>
      BY <1>2, <1>6, <3>1
    <3> QED  BY <3>1, <3>2
  <2> QED  BY <1>6, <2>1, <2>2
<1>9. ASSUME a = <<F>> PROVE \E k \in 1 .. Len(s) : s[k] = F
  <2>1. Len(a) = 1 /\ a[1] = F
    BY <1>1, <1>9
  <2>2. Len(es) + 1 \in 1 .. Len(s) /\ s[Len(es) + 1] = a[1]
    BY <1>2, <1>3, <1>5, <1>6, <2>1
  <2> QED  BY <2>1, <2>2
<1>10. ASSUME b = <<B>> PROVE \E k \in 1 .. Len(s) : s[k] = B
  <2>1. Len(b) = 1 /\ b[1] = B
    BY <1>2, <1>10
  <2>2. Len(m) + 1 \in 1 .. Len(s) /\ s[Len(m) + 1] = b[1]
    BY <1>3, <1>5, <1>6, <2>1
  <2> QED  BY <2>1, <2>2
<1>11. Len(es) <= Len(s)
  BY <1>1, <1>2, <1>3, <1>5, <1>6
<1> QED  BY <1>5, <1>7, <1>8, <1>9, <1>10, <1>11 DEF s, Behind

LEMMA ReverseIs ==
  ASSUME NEW S, NEW s \in Seq(S)
  PROVE  /\ Reverse(s) \in Seq(S) /\ Len(Reverse(s)) = Len(s)
         /\ \A k \in 1 .. Len(s) : Reverse(s)[k] = s[Len(s) - k + 1]
<1>1. Reverse(s) = [k \in 1 .. Len(s) |-> s[Len(s) - k + 1]]
  BY DEF Reverse
<1>2. Len(s) \in Nat /\ \A k \in 1 .. Len(s) : Len(s) - k + 1 \in 1 .. Len(s)
  OBVIOUS
<1>3. Reverse(s) \in Seq(S) /\ Len(Reverse(s)) = Len(s)
  BY <1>1, <1>2
<1> QED  BY <1>1, <1>3

\* The nodes between two cuts.
LEMMA RunAlong ==
  ASSUME NEW x \in Extracts, NEW i \in ScanWays(x), NEW w, w = x.ways[i],
         NEW a \in 1 .. Len(w.nodes), NEW b \in 1 .. Len(w.nodes), a < b,
         NEW shape, shape = SubSeq(w.nodes, a, b)
  PROVE  /\ shape \in Seq(DOMAIN Where)
         /\ Len(shape) = b - a + 1
         /\ \A k \in 1 .. Len(shape) : shape[k] = w.nodes[a + k - 1]
<1> DEFINE ns == w.nodes
<1>1. ns \in Seq(DOMAIN Where) /\ Len(ns) \in Nat
  BY WaysOf
<1> HIDE DEF ns
<1>2. /\ SubSeq(ns, a, b) \in Seq(DOMAIN Where)
      /\ Len(SubSeq(ns, a, b)) = b - a + 1
      /\ \A k \in 1 .. b - a + 1 : SubSeq(ns, a, b)[k] = ns[a + k - 1]
  BY SMTT(30), <1>1, SubSeqProperties DEF ns
<1> QED  BY <1>2 DEF ns

LEMMA WayRidden ==
  ASSUME NEW x \in Extracts, NEW i \in ScanWays(x), NEW w, w = x.ways[i]
  PROVE  /\ StepsAlong(w) \subseteq RideSteps[x]
         /\ \A j \in 1 .. Len(w.nodes) - 1 :
              /\ Forward(w.tags) => <<w.nodes[j], w.nodes[j + 1]>> \in StepsAlong(w)
              /\ Backward(w.tags) => <<w.nodes[j + 1], w.nodes[j]>> \in StepsAlong(w)
<1>1. StepsAlong(w) \subseteq RideSteps[x]
  BY DEF RideSteps
<1>2. ASSUME NEW j \in 1 .. Len(w.nodes) - 1, Forward(w.tags)
      PROVE  <<w.nodes[j], w.nodes[j + 1]>> \in StepsAlong(w)
  <2>1. <<w.nodes[j], w.nodes[j + 1]>> \in
          (IF Forward(w.tags) THEN {<<w.nodes[j], w.nodes[j + 1]>>} ELSE {}) \union
          (IF Backward(w.tags) THEN {<<w.nodes[j + 1], w.nodes[j]>>} ELSE {})
    BY <1>2
  <2> QED  BY <2>1 DEF StepsAlong
<1>3. ASSUME NEW j \in 1 .. Len(w.nodes) - 1, Backward(w.tags)
      PROVE  <<w.nodes[j + 1], w.nodes[j]>> \in StepsAlong(w)
  <2>1. <<w.nodes[j + 1], w.nodes[j]>> \in
          (IF Forward(w.tags) THEN {<<w.nodes[j], w.nodes[j + 1]>>} ELSE {}) \union
          (IF Backward(w.tags) THEN {<<w.nodes[j + 1], w.nodes[j]>>} ELSE {})
    BY <1>3
  <2> QED  BY <2>1 DEF StepsAlong
<1> QED  BY <1>1, <1>2, <1>3

\* The row of a run between two cuts, in the way's direction ...
LEMMA ForthFollows ==
  ASSUME NEW x \in Extracts, NEW i \in ScanWays(x), NEW w,
         NEW a \in 1 .. Len(w.nodes), NEW b \in 1 .. Len(w.nodes),
         NEW shape, NEW rows, NEW from \in 0 .. Len(rows) - 1, NEW to \in 0 .. Len(rows) - 1,
         NEW e, w = x.ways[i], a < b, shape = SubSeq(w.nodes, a, b),
         \A j \in a + 1 .. b - 1 : ~IsSplitPoint(x, w.nodes[j]),
         rows[from + 1].osm = shape[1], rows[to + 1].osm = Last(shape),
         e = EdgeRow(w, shape, from, to), Forward(w.tags)
  PROVE  /\ FollowsWay(x, rows, e)
         /\ \A j \in a .. b - 1 : <<w.nodes[j], w.nodes[j + 1]>> \in StepsOf(e)
<1>1. /\ FactsType(w.facts) /\ Len(w.nodes) \in Nat /\ a \in Nat /\ b \in Nat
      /\ 1 <= a /\ b <= Len(w.nodes)
      /\ StepsAlong(w) \subseteq RideSteps[x]
  BY WaysOf, WayRidden
<1> DEFINE n == Len(shape)
<1>2. /\ n = b - a + 1
      /\ \A k \in 1 .. n : shape[k] = w.nodes[a + k - 1]
  BY RunAlong
<1> DEFINE m == Len(w.nodes)
<1>n. /\ n \in Nat /\ m \in Nat /\ a \in Nat /\ b \in Nat
      /\ n = b - a + 1 /\ 1 <= a /\ a < b /\ b <= m
  BY <1>1, <1>2
<1> HIDE DEF n, m
<1>3. /\ DOMAIN e = EdgeColumns
      /\ e.shape = shape /\ e.from = from /\ e.to = to /\ e.facts = w.facts
      /\ e.lts = 0 /\ e.score = {} /\ e.grade = Null
  BY DEF EdgeRow, EdgeColumns
<1>4. ASSUME NEW k \in 1 .. n - 1
      PROVE  <<shape[k], shape[k + 1]>> \in RideSteps[x]
  <2>1. a + k - 1 \in 1 .. m - 1 /\ k \in 1 .. n /\ k + 1 \in 1 .. n
    <3>1. k \in Nat /\ 1 <= k /\ k <= b - a
      BY <1>n
    <3>2. 1 <= a + k - 1 /\ a + k - 1 <= b - 1 /\ k + 1 <= n
      BY <1>n, <3>1
    <3> QED  BY SMTT(30), <1>n, <3>1, <3>2
  <2>2. shape[k] = w.nodes[a + k - 1] /\ shape[k + 1] = w.nodes[(a + k - 1) + 1]
    <3>1. a + (k + 1) - 1 = (a + k - 1) + 1
      BY <1>1
    <3> QED  BY <1>2, <2>1, <3>1
  <2> QED  BY ZenonT(30), <1>1, <2>1, <2>2, WayRidden DEF m
<1>5. ASSUME NEW k \in 2 .. n - 1
      PROVE  shape[k] \notin Crossings[x]
  <2>1. a + k - 1 \in a + 1 .. b - 1 /\ shape[k] = w.nodes[a + k - 1]
    BY <1>1, <1>2, <1>n
  <2> QED  BY <2>1, CrossingsSplit
<1>6. ASSUME NEW j \in a .. b - 1
      PROVE  <<w.nodes[j], w.nodes[j + 1]>> \in StepsOf(e)
  <2>1. j - a + 1 \in 1 .. n - 1 /\ j - a + 1 \in 1 .. n /\ (j - a + 1) + 1 \in 1 .. n
    BY <1>n
  <2>2. a + (j - a + 1) - 1 = j /\ a + ((j - a + 1) + 1) - 1 = j + 1
    BY SMTT(30), <1>1
  <2>3. shape[j - a + 1] = w.nodes[j] /\ shape[(j - a + 1) + 1] = w.nodes[j + 1]
    BY <1>2, <2>1, <2>2
  <2>4. StepsOf(e) = {<<shape[k], shape[k + 1]>> : k \in 1 .. n - 1}
    BY <1>3 DEF StepsOf, n
  <2> QED  BY <2>1, <2>3, <2>4
<1>7. StepsOf(e) \subseteq RideSteps[x] /\ Inner(e) \intersect Crossings[x] = {}
  <2>1. /\ StepsOf(e) = {<<shape[k], shape[k + 1]>> : k \in 1 .. n - 1}
        /\ Inner(e) = {shape[k] : k \in 2 .. n - 1}
    BY <1>3 DEF StepsOf, Inner, n
  <2> QED  BY <1>4, <1>5, <2>1
<1> QED  BY <1>1, <1>3, <1>6, <1>7 DEF FollowsWay

\* ... and against it.
LEMMA BackFollows ==
  ASSUME NEW x \in Extracts, NEW i \in ScanWays(x), NEW w,
         NEW a \in 1 .. Len(w.nodes), NEW b \in 1 .. Len(w.nodes),
         NEW shape, NEW rows, NEW from \in 0 .. Len(rows) - 1, NEW to \in 0 .. Len(rows) - 1,
         NEW e, w = x.ways[i], a < b, shape = SubSeq(w.nodes, a, b),
         \A j \in a + 1 .. b - 1 : ~IsSplitPoint(x, w.nodes[j]),
         rows[from + 1].osm = shape[1], rows[to + 1].osm = Last(shape),
         e = EdgeRow(w, Reverse(shape), to, from), Backward(w.tags)
  PROVE  /\ FollowsWay(x, rows, e)
         /\ \A j \in a .. b - 1 : <<w.nodes[j + 1], w.nodes[j]>> \in StepsOf(e)
<1> DEFINE back == Reverse(shape)
<1>1. /\ FactsType(w.facts) /\ Len(w.nodes) \in Nat /\ a \in Nat /\ b \in Nat
      /\ 1 <= a /\ b <= Len(w.nodes)
      /\ StepsAlong(w) \subseteq RideSteps[x]
  BY WaysOf, WayRidden
<1> DEFINE n == Len(shape)
<1>2. /\ n = b - a + 1 /\ Len(back) = n
      /\ \A k \in 1 .. n : shape[k] = w.nodes[a + k - 1]
      /\ \A k \in 1 .. n : back[k] = w.nodes[b - k + 1]
  <2>1. /\ shape \in Seq(DOMAIN Where) /\ n = b - a + 1
        /\ \A k \in 1 .. n : shape[k] = w.nodes[a + k - 1]
    <3>1. shape \in Seq(DOMAIN Where)
      BY RunAlong
    <3>2. Len(shape) = b - a + 1
      BY RunAlong
    <3>3. \A k \in 1 .. Len(shape) : shape[k] = w.nodes[a + k - 1]
      BY RunAlong
    <3> QED  BY <3>1, <3>2, <3>3
  <2>2. Len(back) = n /\ \A k \in 1 .. n : back[k] = shape[n - k + 1]
    BY ZenonT(30), <2>1, ReverseIs
  <2> HIDE DEF back, n
  <2>3. ASSUME NEW k \in 1 .. n PROVE back[k] = w.nodes[b - k + 1]
    <3>1. n - k + 1 \in 1 .. n /\ a + (n - k + 1) - 1 = b - k + 1
      BY <1>1, <2>1
    <3>2. back[k] = shape[n - k + 1]
      BY <2>2
    <3>3. shape[n - k + 1] = w.nodes[a + (n - k + 1) - 1]
      BY <2>1, <3>1
    <3> QED  BY <3>1, <3>2, <3>3
  <2> QED  BY <2>1, <2>2, <2>3
<1> DEFINE m == Len(w.nodes)
<1>n. /\ n \in Nat /\ m \in Nat /\ a \in Nat /\ b \in Nat
      /\ n = b - a + 1 /\ 1 <= a /\ a < b /\ b <= m
  BY <1>1, <1>2
<1> HIDE DEF n, m
<1>3. /\ DOMAIN e = EdgeColumns
      /\ e.shape = back /\ e.from = to /\ e.to = from /\ e.facts = w.facts
      /\ e.lts = 0 /\ e.score = {} /\ e.grade = Null
  BY DEF EdgeRow, EdgeColumns
<1> HIDE DEF back
<1>4. ASSUME NEW k \in 1 .. n - 1
      PROVE  <<back[k], back[k + 1]>> \in RideSteps[x]
  <2>1. b - k \in 1 .. m - 1 /\ k \in 1 .. n /\ k + 1 \in 1 .. n
    BY <1>n
  <2>2. back[k] = w.nodes[(b - k) + 1] /\ back[k + 1] = w.nodes[b - k]
    <3>1. b - k + 1 = (b - k) + 1 /\ b - (k + 1) + 1 = b - k
      BY <1>1
    <3> QED  BY <1>2, <2>1, <3>1
  <2> QED  BY <1>1, <2>1, <2>2, WayRidden DEF m
<1>5. ASSUME NEW k \in 2 .. n - 1
      PROVE  back[k] \notin Crossings[x]
  <2>1. b - k + 1 \in a + 1 .. b - 1 /\ k \in 1 .. n
    BY <1>n
  <2>2. back[k] = w.nodes[b - k + 1]
    BY <1>2, <2>1
  <2> QED  BY <2>1, <2>2, CrossingsSplit
<1>6. /\ StepsOf(e) = {<<back[k], back[k + 1]>> : k \in 1 .. n - 1}
      /\ Inner(e) = {back[k] : k \in 2 .. n - 1}
  BY <1>2, <1>3 DEF StepsOf, Inner
<1>7. ASSUME NEW j \in a .. b - 1
      PROVE  <<w.nodes[j + 1], w.nodes[j]>> \in StepsOf(e)
  <2>1. b - j \in 1 .. n - 1 /\ b - j \in 1 .. n /\ (b - j) + 1 \in 1 .. n
    BY <1>n
  <2>2. b - (b - j) + 1 = j + 1 /\ b - ((b - j) + 1) + 1 = j
    BY <1>1
  <2>3. back[b - j] = w.nodes[j + 1] /\ back[(b - j) + 1] = w.nodes[j]
    BY <1>2, <2>1, <2>2
  <2> QED  BY <1>6, <2>1, <2>3
<1>8. back[1] = Last(shape) /\ Last(back) = shape[1]
  <2>1. 1 \in 1 .. n /\ n \in 1 .. n
    BY <1>n
  <2>2. b - 1 + 1 = b /\ b - n + 1 = a /\ a + 1 - 1 = a /\ a + n - 1 = b
    BY <1>n
  <2>3. back[1] = w.nodes[b] /\ back[n] = w.nodes[a]
    BY <1>2, <2>1, <2>2
  <2>4. shape[1] = w.nodes[a] /\ shape[n] = w.nodes[b]
    BY <1>2, <2>1, <2>2
  <2>5. Last(back) = back[n] /\ Last(shape) = shape[n]
    BY <1>2 DEF Last, n
  <2> QED  BY <2>3, <2>4, <2>5
<1>9. StepsOf(e) \subseteq RideSteps[x] /\ Inner(e) \intersect Crossings[x] = {}
  BY <1>4, <1>5, <1>6
<1> QED  BY <1>1, <1>3, <1>7, <1>8, <1>9 DEF FollowsWay

-----------------------------------------------------------------------------
(* What a segment, a way and all ways add.                                 *)

\* The edges stay where they are.
Grown(g, h) ==
  /\ Len(g.edges) <= Len(h.edges)
  /\ \A k \in 1 .. Len(g.edges) : h.edges[k] = g.edges[k]

Ridden(g, step) == \E k \in 1 .. Len(g.edges) : step \in StepsOf(g.edges[k])

\* The way can be ridden from its node number a to its node number b.
Covers(g, w, a, b) ==
  \A j \in a .. b - 1 :
    /\ Forward(w.tags) => Ridden(g, <<w.nodes[j], w.nodes[j + 1]>>)
    /\ Backward(w.tags) => Ridden(g, <<w.nodes[j + 1], w.nodes[j]>>)

LEMMA CoversKept ==
  ASSUME NEW g, NEW h, Len(g.edges) \in Nat, Len(h.edges) \in Nat, Grown(g, h),
         NEW w, NEW a, NEW b, Covers(g, w, a, b)
  PROVE  Covers(h, w, a, b)
<1>1. ASSUME NEW step, Ridden(g, step) PROVE Ridden(h, step)
  <2>1. PICK k \in 1 .. Len(g.edges) : step \in StepsOf(g.edges[k])
    BY <1>1 DEF Ridden
  <2>2. k \in 1 .. Len(h.edges) /\ h.edges[k] = g.edges[k]
    BY DEF Grown
  <2> QED  BY <2>1, <2>2 DEF Ridden
<1> QED  BY <1>1 DEF Covers

LEMMA GrownTwice ==
  ASSUME NEW f, NEW g, NEW h, Len(f.edges) \in Nat, Len(g.edges) \in Nat,
         Len(h.edges) \in Nat, Grown(f, g), Grown(g, h)
  PROVE  Grown(f, h)
BY DEF Grown

LEMMA FollowsKept ==
  ASSUME NEW x, NEW rows, NEW more, Len(rows) \in Nat, Len(more) \in Nat,
         Len(rows) <= Len(more), \A i \in 1 .. Len(rows) : more[i] = rows[i],
         NEW e, FollowsWay(x, rows, e)
  PROVE  FollowsWay(x, more, e)
<1>1. /\ e.from \in 0 .. Len(rows) - 1 /\ e.from \in 0 .. Len(more) - 1
      /\ e.to \in 0 .. Len(rows) - 1 /\ e.to \in 0 .. Len(more) - 1
  BY DEF FollowsWay
<1>2. more[e.from + 1] = rows[e.from + 1] /\ more[e.to + 1] = rows[e.to + 1]
  BY SMTT(30), <1>1
<1> QED  BY <1>1, <1>2 DEF FollowsWay

LEMMA RowOf ==
  ASSUME NEW x, NEW i \in ScanWays(x), NEW s \in Seq(DOMAIN Where),
         NEW from \in Nat, NEW to \in Nat
  PROVE  EdgeRow(x.ways[i], s, from, to) \in EdgeRows(x)
BY DEF EdgeRows

Added(x, w, g, a, b) ==
  LET shape == SubSeq(w.nodes, a, b)
      h == addSegment(x, g, w, shape)
  IN  /\ SoFar(x, h) /\ Grown(g, h)
      /\ Representable(x, shape) => Covers(h, w, a, b)

LEMMA SegmentAdded ==
  ASSUME NEW x \in Extracts, NEW i \in ScanWays(x), NEW w, NEW g,
         NEW a \in 1 .. Len(w.nodes), NEW b \in 1 .. Len(w.nodes),
         w = x.ways[i], a < b,
         \A j \in a + 1 .. b - 1 : ~IsSplitPoint(x, w.nodes[j]), SoFar(x, g)
  PROVE  Added(x, w, g, a, b)
<1> SUFFICES ASSUME NEW shape, NEW h, shape = SubSeq(w.nodes, a, b),
                    h = addSegment(x, g, w, shape)
             PROVE  /\ SoFar(x, h) /\ Grown(g, h)
                    /\ Representable(x, shape) => Covers(h, w, a, b)
  BY DEF Added
<1>1. /\ shape \in Seq(DOMAIN Where) /\ Len(shape) \in Nat /\ Len(shape) >= 2
      /\ Reverse(shape) \in Seq(DOMAIN Where)
  <2>1. shape \in Seq(DOMAIN Where)
    BY RunAlong
  <2>2. Len(shape) = b - a + 1
    BY RunAlong
  <2>3. a \in Nat /\ b \in Nat
    <3>1. Len(w.nodes) \in Nat
      BY WaysOf
    <3> QED  BY <3>1
  <2>4. Len(shape) \in Nat /\ Len(shape) >= 2
    BY <2>2, <2>3
  <2>5. Reverse(shape) \in Seq(DOMAIN Where)
    BY <2>1, ReverseIs
  <2> QED  BY <2>1, <2>4, <2>5
<1>2. CASE ~Representable(x, shape)
  <2>1. h = g
    BY <1>2 DEF addSegment
  <2>2. Len(g.edges) \in Nat
    BY DEF SoFar
  <2> QED  BY <1>2, <2>1, <2>2 DEF Grown
<1>3. CASE Representable(x, shape)
  <2> DEFINE one == intern(g.nodes, shape[1])
             rows == intern(one, Last(shape))
             from == DenseId(rows, shape[1])
             to == DenseId(rows, Last(shape))
             F == EdgeRow(w, shape, from, to)
             B == EdgeRow(w, Reverse(shape), to, from)
             forth == IF Forward(w.tags) THEN <<F>> ELSE <<>>
             back == IF Backward(w.tags) THEN <<B>> ELSE <<>>
             es == g.edges \o forth \o back
  <2>1. h = [nodes |-> rows, edges |-> es]
    BY <1>3 DEF addSegment
  <2>2. h.nodes = rows /\ h.edges = es
    <3> HIDE DEF rows, es
    <3> QED  BY <2>1
  <2>3. shape[1] \in DOMAIN Where /\ Last(shape) \in DOMAIN Where
    <3>1. 1 \in 1 .. Len(shape) /\ Len(shape) \in 1 .. Len(shape)
      BY <1>1
    <3>2. \A k \in 1 .. Len(shape) : shape[k] \in DOMAIN Where
      BY <1>1
    <3> QED  BY <3>1, <3>2 DEF Last
  <2>4. /\ one \in Seq(NodeRows) /\ Len(g.nodes) <= Len(one)
        /\ \A k \in 1 .. Len(g.nodes) : one[k] = g.nodes[k]
        /\ \E k \in 1 .. Len(one) : one[k].osm = shape[1]
    BY <2>3, InternKeeps DEF SoFar
  <2> HIDE DEF one
  <2>5. /\ rows \in Seq(NodeRows) /\ Len(one) <= Len(rows)
        /\ \A k \in 1 .. Len(one) : rows[k] = one[k]
        /\ \E k \in 1 .. Len(rows) : rows[k].osm = Last(shape)
    BY <2>3, <2>4, InternKeeps
  <2> HIDE DEF rows
  <2>6. Len(g.nodes) \in Nat /\ Len(one) \in Nat /\ Len(rows) \in Nat
    BY <2>4, <2>5 DEF SoFar
  <2>7. /\ Len(g.nodes) <= Len(rows)
        /\ \A k \in 1 .. Len(g.nodes) : rows[k] = g.nodes[k]
        /\ \E k \in 1 .. Len(rows) : rows[k].osm = shape[1]
    BY <2>4, <2>5, <2>6
  <2>8. from \in 0 .. Len(rows) - 1 /\ rows[from + 1].osm = shape[1]
    BY <2>5, <2>7, DenseIdFinds
  <2>9. to \in 0 .. Len(rows) - 1 /\ rows[to + 1].osm = Last(shape)
    BY <2>5, DenseIdFinds
  <2> HIDE DEF from, to
  <2>10. F \in EdgeRows(x) /\ B \in EdgeRows(x)
    <3>1. from \in Nat /\ to \in Nat
      BY <2>6, <2>8, <2>9
    <3>2. F = EdgeRow(x.ways[i], shape, from, to) /\ B = EdgeRow(x.ways[i], Reverse(shape), to, from)
      OBVIOUS
    <3> HIDE DEF F, B
    <3> QED  BY <1>1, <3>1, <3>2, RowOf
  <2>11. ASSUME Forward(w.tags)
         PROVE  /\ FollowsWay(x, rows, F)
                /\ \A j \in a .. b - 1 : <<w.nodes[j], w.nodes[j + 1]>> \in StepsOf(F)
    <3> HIDE DEF F
    <3>1. F = EdgeRow(w, shape, from, to)
      BY DEF F
    <3> QED  BY ZenonT(30), <2>8, <2>9, <2>11, <3>1, ForthFollows
  <2>12. ASSUME Backward(w.tags)
         PROVE  /\ FollowsWay(x, rows, B)
                /\ \A j \in a .. b - 1 : <<w.nodes[j + 1], w.nodes[j]>> \in StepsOf(B)
    <3> HIDE DEF B
    <3>1. B = EdgeRow(w, Reverse(shape), to, from)
      BY DEF B
    <3> QED  BY ZenonT(30), <2>8, <2>9, <2>12, <3>1, BackFollows
  <2> HIDE DEF F, B
  <2>13. /\ forth \in {<<>>, <<F>>}
         /\ back \in {<<>>, <<B>>}
         /\ forth = <<F>> => Forward(w.tags)
         /\ back = <<B>> => Backward(w.tags)
         /\ Forward(w.tags) => forth = <<F>>
         /\ Backward(w.tags) => back = <<B>>
    <3>1. <<>> # <<F>> /\ <<>> # <<B>>
      <4>1. Len(<<F>>) = 1 /\ Len(<<B>>) = 1 /\ Len(<<>>) = 0
        OBVIOUS
      <4> QED  BY <4>1
    <3> QED  BY <3>1
  <2> HIDE DEF forth, back
  <2>14. g.edges \in Seq(EdgeRows(x)) /\ Len(g.edges) \in Nat
    BY DEF SoFar
  <2>15. /\ es \in Seq(EdgeRows(x))
         /\ Len(g.edges) <= Len(es)
         /\ \A k \in 1 .. Len(g.edges) : es[k] = g.edges[k]
         /\ \A k \in 1 .. Len(es) :
              k > Len(g.edges) => (forth = <<F>> /\ es[k] = F) \/ (back = <<B>> /\ es[k] = B)
         /\ forth = <<F>> => \E k \in 1 .. Len(es) : es[k] = F
         /\ back = <<B>> => \E k \in 1 .. Len(es) : es[k] = B
    <3> DEFINE base == g.edges
               R == EdgeRows(x)
    <3>1. es = base \o forth \o back
      OBVIOUS
    <3>2. base \in Seq(R) /\ F \in R /\ B \in R
      BY <2>10, <2>14
    <3> HIDE DEF es, base, R
    <3>3. /\ es \in Seq(R)
          /\ Len(base) <= Len(es)
          /\ \A k \in 1 .. Len(base) : es[k] = base[k]
          /\ \A k \in 1 .. Len(es) :
               k > Len(base) => (forth = <<F>> /\ es[k] = F) \/ (back = <<B>> /\ es[k] = B)
          /\ forth = <<F>> => \E k \in 1 .. Len(es) : es[k] = F
          /\ back = <<B>> => \E k \in 1 .. Len(es) : es[k] = B
      <4>1. Behind(R, base, F, forth, B, back)
        BY <2>13, <3>2, Joined
      <4> QED  BY <3>1, <4>1 DEF Behind
    <3> QED  BY <3>3 DEF base, R
  <2> HIDE DEF es
  <2>16. ASSUME NEW k \in 1 .. Len(es) PROVE FollowsWay(x, rows, es[k])
    <3>1. CASE k \in 1 .. Len(g.edges)
      <4>1. FollowsWay(x, g.nodes, g.edges[k])
        BY <3>1 DEF SoFar
      <4>2. FollowsWay(x, rows, g.edges[k])
        BY <2>6, <2>7, <4>1, FollowsKept
      <4> QED  BY <2>15, <3>1, <4>2
    <3>2. CASE k > Len(g.edges)
      BY <2>11, <2>12, <2>13, <2>15, <3>2
    <3> QED  BY <2>14, <3>1, <3>2
  <2>17. SoFar(x, h)
    BY <2>2, <2>5, <2>15, <2>16 DEF SoFar
  <2>18. Grown(g, h)
    BY <2>2, <2>15 DEF Grown
  <2>19. ASSUME NEW j \in a .. b - 1, Forward(w.tags)
         PROVE  Ridden(h, <<w.nodes[j], w.nodes[j + 1]>>)
    <3>1. PICK k \in 1 .. Len(es) : es[k] = F
      BY <2>13, <2>15, <2>19
    <3> QED  BY <2>2, <2>11, <2>19, <3>1 DEF Ridden
  <2>20. ASSUME NEW j \in a .. b - 1, Backward(w.tags)
         PROVE  Ridden(h, <<w.nodes[j + 1], w.nodes[j]>>)
    <3>1. PICK k \in 1 .. Len(es) : es[k] = B
      BY <2>13, <2>15, <2>20
    <3> QED  BY <2>2, <2>12, <2>20, <3>1 DEF Ridden
  <2> QED  BY <2>17, <2>18, <2>19, <2>20 DEF Covers
<1> QED  BY <1>2, <1>3

\* Every run of a way that is whole is stored.
LEMMA WholeStored ==
  ASSUME NEW x \in Extracts, NEW i \in ScanWays(x), NEW w,
         NEW a \in 1 .. Len(w.nodes), NEW b \in 1 .. Len(w.nodes),
         w = x.ways[i], a < b, IsWhole(x, w)
  PROVE  Representable(x, SubSeq(w.nodes, a, b))
<1> DEFINE shape == SubSeq(w.nodes, a, b)
<1>1. /\ Len(w.nodes) \in Nat /\ DOMAIN w.nodes = 1 .. Len(w.nodes)
      /\ a \in Nat /\ b \in Nat /\ 1 <= a /\ b <= Len(w.nodes)
  BY WaysOf
<1>2. shape \in Seq(DOMAIN Where)
  BY RunAlong
<1>3. Len(shape) = b - a + 1
  BY RunAlong
<1>4. \A k \in 1 .. Len(shape) : shape[k] = w.nodes[a + k - 1]
  BY RunAlong
<1> HIDE DEF shape
<1>5. shape[1] = w.nodes[a] /\ shape[2] = w.nodes[a + 1] /\ Last(shape) = w.nodes[b]
  <2>1. /\ 1 \in 1 .. Len(shape) /\ 2 \in 1 .. Len(shape) /\ Len(shape) \in 1 .. Len(shape)
        /\ a + 1 - 1 = a /\ a + 2 - 1 = a + 1 /\ a + Len(shape) - 1 = b
    BY <1>1, <1>3
  <2> QED  BY <1>4, <2>1 DEF Last
<1>6. shape[1] # Last(shape)
  <2>1. IsInjective(w.nodes)
    BY DEF IsWhole
  <2>2. \A k, l \in DOMAIN w.nodes : w.nodes[k] = w.nodes[l] => k = l
    BY <2>1 DEF IsInjective
  <2>3. w.nodes[a] # w.nodes[b]
    BY <1>1, <2>2
  <2> QED  BY <1>5, <2>3
<1>7. Range(shape) \intersect x.clipped = {}
  <2>1. ASSUME NEW k \in 1 .. Len(shape) PROVE shape[k] \in Range(w.nodes)
    <3>1. a + k - 1 \in 1 .. Len(w.nodes)
      BY <1>1, <1>3
    <3> QED  BY <1>1, <1>4, <3>1 DEF Range
  <2>2. DOMAIN shape = 1 .. Len(shape)
    BY <1>2
  <2>3. Range(shape) \subseteq Range(w.nodes)
    BY <2>1, <2>2 DEF Range
  <2> QED  BY <2>3 DEF IsWhole
<1>8. \E j \in 2 .. Len(shape) : Where[shape[j - 1]] # Where[shape[j]]
  <2>1. a + 1 \in 2 .. Len(w.nodes) /\ (a + 1) - 1 = a /\ 2 \in 2 .. Len(shape) /\ 2 - 1 = 1
    BY <1>1, <1>3
  <2>2. Where[w.nodes[(a + 1) - 1]] # Where[w.nodes[a + 1]]
    BY <2>1 DEF IsWhole
  <2>3. Where[shape[1]] # Where[shape[2]]
    BY <1>5, <2>1, <2>2
  <2> QED  BY <2>1, <2>3
<1> QED  BY <1>6, <1>7, <1>8 DEF Representable, shape

\* Along a way: everything up to the last cut is stored, and nothing since
\* then asks for a cut.
WalkedTo(x, w, g, walk, j) ==
  /\ walk.start \in 1 .. j
  /\ SoFar(x, walk.g) /\ Grown(g, walk.g)
  /\ \A k \in walk.start + 1 .. j : ~IsSplitPoint(x, w.nodes[k])
  /\ IsWhole(x, w) => Covers(walk.g, w, 1, walk.start)
  /\ j = Len(w.nodes) => walk.start = j

LEMMA CutKeeps ==
  ASSUME NEW x \in Extracts, NEW i \in ScanWays(x), NEW w, NEW g, NEW walk,
         NEW j \in 2 .. Len(w.nodes), w = x.ways[i], SoFar(x, g),
         WalkedTo(x, w, g, walk, j - 1)
  PROVE  WalkedTo(x, w, g, cutAt(x, w, walk, j), j)
<1> DEFINE a == walk.start
           h == walk.g
           next == cutAt(x, w, walk, j)
<1>1. Len(w.nodes) \in Nat /\ j \in Nat /\ 2 <= j /\ j <= Len(w.nodes)
  BY WaysOf
<1>2. /\ a \in 1 .. j - 1 /\ a \in 1 .. Len(w.nodes) /\ a < j
      /\ SoFar(x, h) /\ Grown(g, h)
      /\ \A k \in a + 1 .. j - 1 : ~IsSplitPoint(x, w.nodes[k])
      /\ IsWhole(x, w) => Covers(h, w, 1, a)
  BY <1>1 DEF WalkedTo
<1> HIDE DEF a, h
<1>3. CASE IsSplitPoint(x, w.nodes[j]) \/ j = Len(w.nodes)
  <2> DEFINE shape == SubSeq(w.nodes, a, j)
             more == addSegment(x, h, w, shape)
  <2>1. next = [start |-> j, g |-> more]
    BY <1>3 DEF cutAt, a, h
  <2> HIDE DEF next, shape, more
  <2>2. next.start = j /\ next.g = more
    BY <2>1
  <2>3. /\ SoFar(x, more) /\ Grown(h, more)
        /\ Representable(x, shape) => Covers(more, w, a, j)
    <3>1. shape = SubSeq(w.nodes, a, j) /\ more = addSegment(x, h, w, shape)
      BY DEF shape, more
    <3>2. j \in 1 .. Len(w.nodes)
      BY <1>1
    <3>3. Added(x, w, h, a, j)
      BY <1>2, <3>2, SegmentAdded
    <3> QED  BY <3>1, <3>3 DEF Added
  <2>4. Len(g.edges) \in Nat /\ Len(h.edges) \in Nat /\ Len(more.edges) \in Nat
    BY <1>2, <2>3 DEF SoFar
  <2>5. Grown(g, more)
    BY <1>2, <2>3, <2>4, GrownTwice
  <2>6. ASSUME IsWhole(x, w) PROVE Covers(more, w, 1, j)
    <3>1. j \in 1 .. Len(w.nodes)
      BY <1>1
    <3>2. Representable(x, shape)
      BY <1>2, <2>6, <3>1, WholeStored DEF shape
    <3>3. Covers(more, w, 1, a)
      BY <1>2, <2>3, <2>4, <2>6, CoversKept
    <3>4. \A k \in 1 .. j - 1 : k \in 1 .. a - 1 \/ k \in a .. j - 1
      BY <1>1, <1>2
    <3> QED  BY <2>3, <3>2, <3>3, <3>4 DEF Covers
  <2>7. \A k \in next.start + 1 .. j : ~IsSplitPoint(x, w.nodes[k])
    BY <1>1, <2>2
  <2>8. WalkedTo(x, w, g, next, j)
    BY <1>1, <2>2, <2>3, <2>5, <2>6, <2>7 DEF WalkedTo
  <2> QED  BY <2>8 DEF next
<1>4. CASE ~(IsSplitPoint(x, w.nodes[j]) \/ j = Len(w.nodes))
  <2>1. next = walk
    BY <1>4 DEF cutAt
  <2>2. \A k \in a + 1 .. j : k \in a + 1 .. j - 1 \/ k = j
    BY <1>1, <1>2
  <2>3. \A k \in a + 1 .. j : ~IsSplitPoint(x, w.nodes[k])
    BY <1>2, <1>4, <2>2
  <2>4. a \in 1 .. j
    BY <1>1, <1>2
  <2> HIDE DEF next
  <2>5. WalkedTo(x, w, g, walk, j)
    BY <1>2, <1>4, <2>3, <2>4 DEF WalkedTo, a, h
  <2> QED  BY <2>1, <2>5 DEF next
<1> QED  BY <1>3, <1>4

LEMMA WayAdded ==
  ASSUME NEW x \in Extracts, NEW i \in ScanWays(x), NEW g, SoFar(x, g)
  PROVE  /\ SoFar(x, addWay(x, g, i)) /\ Grown(g, addWay(x, g, i))
         /\ IsWhole(x, x.ways[i]) =>
              Covers(addWay(x, g, i), x.ways[i], 1, Len(x.ways[i].nodes))
<1> DEFINE w == x.ways[i]
           n == Len(w.nodes)
<1>1. PICK f : /\ f[1] = [start |-> 1, g |-> g]
               /\ \A j \in 2 .. n : f[j] = cutAt(x, w, f[j - 1], j)
               /\ addWay(x, g, i) = f[n].g
  BY WalkUnfolds
<1>2. n \in Nat /\ n >= 2
  BY WaysOf
<1> DEFINE T == {k \in Nat : k + 1 <= n => WalkedTo(x, w, g, f[k + 1], k + 1)}
<1>3. 0 \in T
  <2> DEFINE s == f[1]
  <2>1. s.start = 1 /\ s.g = g
    BY <1>1
  <2> HIDE DEF s
  <2>2. Len(g.edges) \in Nat
    BY DEF SoFar
  <2>3. Grown(g, g) /\ Covers(g, w, 1, 1)
    BY <2>2 DEF Grown, Covers
  <2>4. WalkedTo(x, w, g, s, 1)
    BY <1>2, <2>1, <2>3 DEF WalkedTo
  <2> QED  BY <2>4 DEF s
<1>4. ASSUME NEW k \in T PROVE k + 1 \in T
  <2> SUFFICES ASSUME k + 2 <= n PROVE WalkedTo(x, w, g, f[k + 2], k + 2)
    <3>1. k \in Nat /\ (k + 1) + 1 = k + 2
      OBVIOUS
    <3> QED  BY <3>1
  <2> DEFINE j == k + 2
  <2>1. k \in Nat /\ j \in 2 .. n /\ j - 1 = k + 1 /\ k + 1 <= n
    BY <1>2
  <2>2. WalkedTo(x, w, g, f[j - 1], j - 1)
    BY <2>1
  <2>3. f[j] = cutAt(x, w, f[j - 1], j)
    BY <1>1, <2>1
  <2> HIDE DEF j, w
  <2>4. WalkedTo(x, w, g, cutAt(x, w, f[j - 1], j), j)
    BY <2>1, <2>2, CutKeeps DEF w
  <2> QED  BY <2>3, <2>4 DEF j
<1> HIDE DEF T
<1>5. T = Nat
  BY <1>3, <1>4, Induct DEF T
<1>6. WalkedTo(x, w, g, f[n], n)
  <2>1. n - 1 \in T /\ (n - 1) + 1 = n
    BY <1>2, <1>5
  <2> QED  BY <1>2, <2>1 DEF T
<1> QED  BY <1>1, <1>6 DEF WalkedTo

\* What all ways make: a graph that follows them, and all of each whole one.
LEMMA WaysBuilt ==
  ASSUME NEW x \in Extracts
  PROVE  \E g : /\ SoFar(x, g)
                /\ Build(x) = [nodes |-> Table(g.nodes), edges |-> Table(g.edges)]
                /\ \A i \in ScanWays(x) :
                     IsWhole(x, x.ways[i]) => Covers(g, x.ways[i], 1, Len(x.ways[i].nodes))
<1> DEFINE n == Len(x.ways)
           whole(g, i) == IsWhole(x, x.ways[i]) =>
                            Covers(g, x.ways[i], 1, Len(x.ways[i].nodes))
<1>1. PICK f : /\ f[0] = [nodes |-> <<>>, edges |-> <<>>]
               /\ \A i \in 1 .. n : f[i] = addWay(x, f[i - 1], i)
               /\ Build(x) = [nodes |-> Table(f[n].nodes), edges |-> Table(f[n].edges)]
  BY BuildUnfolds
<1>2. n \in Nat /\ \A i \in ScanWays(x) : i \in 1 .. n
  BY WaysOf
<1> DEFINE done(k) == /\ SoFar(x, f[k])
                      /\ \A i \in ScanWays(x) : i <= k => whole(f[k], i)
           T == {k \in Nat : k <= n => done(k)}
<1>3. 0 \in T
  <2>1. f[0].nodes = <<>> /\ f[0].edges = <<>>
    BY <1>1
  <2>2. SoFar(x, f[0])
    BY <2>1 DEF SoFar
  <2>3. \A i \in ScanWays(x) : ~(i <= 0)
    BY <1>2
  <2> QED  BY <2>2, <2>3
<1>4. ASSUME NEW k \in T PROVE k + 1 \in T
  <2> SUFFICES ASSUME k + 1 <= n PROVE done(k + 1)
    BY DEF T
  <2>1. k \in Nat /\ k <= n /\ k + 1 \in 1 .. n /\ (k + 1) - 1 = k
    BY <1>2
  <2>2. done(k)
    BY <2>1
  <2> DEFINE g == f[k]
             h == f[k + 1]
  <2>3. h = addWay(x, g, k + 1)
    BY <1>1, <2>1
  <2>4. SoFar(x, g) /\ \A i \in ScanWays(x) : i <= k => whole(g, i)
    BY <2>2
  <2> HIDE DEF g, h, whole
  <2>5. CASE k + 1 \notin ScanWays(x)
    <3>1. h = g
      BY <2>3, <2>5 DEF addWay
    <3>2. \A i \in ScanWays(x) : i <= k + 1 => i <= k
      BY <1>2, <2>1, <2>5
    <3>3. SoFar(x, h) /\ \A i \in ScanWays(x) : i <= k + 1 => whole(h, i)
      BY <2>4, <3>1, <3>2
    <3> QED  BY <3>3 DEF h
  <2>6. CASE k + 1 \in ScanWays(x)
    <3>1. SoFar(x, h) /\ Grown(g, h) /\ whole(h, k + 1)
      BY <2>3, <2>4, <2>6, WayAdded DEF whole
    <3>2. Len(g.edges) \in Nat /\ Len(h.edges) \in Nat
      BY <2>4, <3>1 DEF SoFar
    <3>3. ASSUME NEW i \in ScanWays(x), i <= k PROVE whole(h, i)
      BY <2>4, <3>1, <3>2, <3>3, CoversKept DEF whole
    <3>4. \A i \in ScanWays(x) : i <= k + 1 => i <= k \/ i = k + 1
      BY <1>2, <2>1
    <3>5. \A i \in ScanWays(x) : i <= k + 1 => whole(h, i)
      BY <3>1, <3>3, <3>4
    <3> QED  BY <3>1, <3>5 DEF h
  <2> QED  BY <2>5, <2>6
<1> HIDE DEF T
<1>5. T = Nat
  BY <1>3, <1>4, Induct DEF T
<1>6. done(n)
  BY <1>2, <1>5 DEF T
<1> QED  BY <1>1, <1>2, <1>6

-----------------------------------------------------------------------------
(* The networks that may be loaded.                                        *)

LEMMA TableRows ==
  ASSUME NEW rows, Len(rows) \in Nat
  PROVE  /\ DenseIds(DOMAIN Table(rows))
         /\ DOMAIN Table(rows) = 0 .. Len(rows) - 1
         /\ \A k \in 0 .. Len(rows) - 1 : Table(rows)[k] = rows[k + 1]
<1>1. /\ DOMAIN Table(rows) = 0 .. Len(rows) - 1
      /\ \A k \in 0 .. Len(rows) - 1 : Table(rows)[k] = rows[k + 1]
  BY DEF Table
<1>2. /\ IsFiniteSet(0 .. Len(rows) - 1)
      /\ 0 .. Cardinality(0 .. Len(rows) - 1) - 1 = 0 .. Len(rows) - 1
  <2>1. /\ IsFiniteSet(0 .. Len(rows) - 1)
        /\ Cardinality(0 .. Len(rows) - 1)
             = IF 0 > Len(rows) - 1 THEN 0 ELSE (Len(rows) - 1) - 0 + 1
    BY FS_Interval
  <2> QED  BY <2>1
<1> QED  BY <1>1, <1>2 DEF DenseIds

\* What Build makes: dense rows with nothing derived yet, and edges that end at
\* the nodes their shapes end at, along ways and from crossing to crossing.
LEMMA NetworkBuilt ==
  ASSUME NEW x \in Extracts
  PROVE  /\ DenseIds(DOMAIN Network[x].nodes)
         /\ DenseIds(DOMAIN Network[x].edges)
         /\ \A n \in DOMAIN Network[x].nodes :
              /\ DOMAIN Network[x].nodes[n] = {"osm", "height"}
              /\ Network[x].nodes[n].height = Null
         /\ \A i \in DOMAIN Network[x].edges :
              LET e == Network[x].edges[i]
              IN  /\ DOMAIN e = EdgeColumns
                  /\ e.lts = 0 /\ e.score = {} /\ e.grade = Null
                  /\ FactsType(e.facts)
                  /\ e.from \in DOMAIN Network[x].nodes /\ e.to \in DOMAIN Network[x].nodes
                  /\ Network[x].nodes[e.from].osm = e.shape[1]
                  /\ Network[x].nodes[e.to].osm = Last(e.shape)
                  /\ StepsOf(e) \subseteq RideSteps[x]
                  /\ Inner(e) \intersect Crossings[x] = {}
         /\ WholeSteps[x] \subseteq UNION {StepsOf(Network[x].edges[i]) :
                                            i \in DOMAIN Network[x].edges}
<1>1. PICK g : /\ SoFar(x, g)
               /\ Build(x) = [nodes |-> Table(g.nodes), edges |-> Table(g.edges)]
               /\ \A i \in ScanWays(x) :
                    IsWhole(x, x.ways[i]) => Covers(g, x.ways[i], 1, Len(x.ways[i].nodes))
  BY WaysBuilt
<1> DEFINE ns == Network[x].nodes
           es == Network[x].edges
<1>2. ns = Table(g.nodes) /\ es = Table(g.edges)
  <2>1. Network[x] = Build(x)
    BY DEF Network
  <2> QED  BY <1>1, <2>1
<1>3. /\ g.nodes \in Seq(NodeRows) /\ Len(g.nodes) \in Nat /\ Len(g.edges) \in Nat
      /\ \A k \in 1 .. Len(g.edges) : FollowsWay(x, g.nodes, g.edges[k])
  BY <1>1 DEF SoFar
<1> HIDE DEF ns, es
<1>4. /\ DenseIds(DOMAIN ns) /\ DOMAIN ns = 0 .. Len(g.nodes) - 1
      /\ \A k \in 0 .. Len(g.nodes) - 1 : ns[k] = g.nodes[k + 1]
  BY <1>2, <1>3, TableRows
<1>5. /\ DenseIds(DOMAIN es) /\ DOMAIN es = 0 .. Len(g.edges) - 1
      /\ \A k \in 0 .. Len(g.edges) - 1 : es[k] = g.edges[k + 1]
  BY <1>2, <1>3, TableRows
<1>6. ASSUME NEW n \in DOMAIN ns
      PROVE  DOMAIN ns[n] = {"osm", "height"} /\ ns[n].height = Null
  <2>1. n + 1 \in 1 .. Len(g.nodes) /\ ns[n] = g.nodes[n + 1]
    BY <1>3, <1>4
  <2>2. ns[n] \in NodeRows
    BY <1>3, <2>1
  <2> QED  BY <2>2 DEF NodeRows, NodeRow
<1>7. ASSUME NEW i \in DOMAIN es, NEW e, e = es[i]
      PROVE  /\ DOMAIN e = EdgeColumns
             /\ e.lts = 0 /\ e.score = {} /\ e.grade = Null
             /\ FactsType(e.facts)
             /\ e.from \in DOMAIN ns /\ e.to \in DOMAIN ns
             /\ ns[e.from].osm = e.shape[1]
             /\ ns[e.to].osm = Last(e.shape)
             /\ StepsOf(e) \subseteq RideSteps[x]
             /\ Inner(e) \intersect Crossings[x] = {}
  <2>1. i + 1 \in 1 .. Len(g.edges) /\ e = g.edges[i + 1]
    BY <1>3, <1>5, <1>7
  <2>2. FollowsWay(x, g.nodes, e)
    BY <1>3, <2>1
  <2>3. /\ e.from \in DOMAIN ns /\ ns[e.from] = g.nodes[e.from + 1]
        /\ e.to \in DOMAIN ns /\ ns[e.to] = g.nodes[e.to + 1]
    BY <1>4, <2>2 DEF FollowsWay
  <2> QED  BY <2>2, <2>3 DEF FollowsWay
<1>8. ASSUME NEW step \in WholeSteps[x]
      PROVE  \E i \in DOMAIN es : step \in StepsOf(es[i])
  <2>1. PICK i \in ScanWays(x) : IsWhole(x, x.ways[i]) /\ step \in StepsAlong(x.ways[i])
    BY DEF WholeSteps
  <2> DEFINE w == x.ways[i]
  <2>2. PICK j \in 1 .. Len(w.nodes) - 1 :
          \/ Forward(w.tags) /\ step = <<w.nodes[j], w.nodes[j + 1]>>
          \/ Backward(w.tags) /\ step = <<w.nodes[j + 1], w.nodes[j]>>
    BY <2>1 DEF StepsAlong
  <2>3. Covers(g, w, 1, Len(w.nodes))
    BY <1>1, <2>1
  <2>4. Ridden(g, step)
    BY <2>2, <2>3 DEF Covers
  <2>5. PICK k \in 1 .. Len(g.edges) : step \in StepsOf(g.edges[k])
    BY <2>4 DEF Ridden
  <2>6. k - 1 \in DOMAIN es /\ es[k - 1] = g.edges[k]
    <3>1. k - 1 \in 0 .. Len(g.edges) - 1 /\ (k - 1) + 1 = k
      BY <1>3
    <3> QED  BY <1>5, <3>1
  <2> QED  BY <2>5, <2>6
<1>9. WholeSteps[x] \subseteq UNION {StepsOf(es[i]) : i \in DOMAIN es}
  BY <1>8
<1> QED  BY <1>4, <1>5, <1>6, <1>7, <1>9 DEF ns, es

-----------------------------------------------------------------------------

ProcFields == {"at", "held", "count", "graph", "gens"}
GraphFields == {"nodes", "rows", "dbid", "offs", "dbIndex", "nodeMaxLTS"}

(***************************************************************************)
(* The inductive invariant.  Commands keep the columns of the rows and     *)
(* the ends of the edges; what a command holds from an earlier statement   *)
(* fits the tables as long as the network is the one it was read from.     *)
(***************************************************************************)
Rows ==
  /\ \A n \in DOMAIN nodes : DOMAIN nodes[n] = {"osm", "height"}
  /\ \A i \in DOMAIN edges :
       /\ DOMAIN edges[i] = EdgeColumns
       /\ edges[i].from \in DOMAIN nodes /\ edges[i].to \in DOMAIN nodes
       /\ nodes[edges[i].from].osm = edges[i].shape[1]
       /\ nodes[edges[i].to].osm = Last(edges[i].shape)

Shapes == DOMAIN proc = Processes /\ \A p \in Processes : DOMAIN proc[p] = ProcFields

Generations == gen \in Nat /\ \A p \in Processes : proc[p].gens \subseteq 0 .. gen

\* Heights read from the nodes of this network.
SampledFits(p) ==
  \A n \in DOMAIN proc[p].held :
    n \in DOMAIN nodes => proc[p].held[n] = HeightAt[Where[nodes[n].osm]]

\* A graph whose rows are found by the ids of the edges they were read from,
\* and have their facts.
GraphFits(p) ==
  LET g == proc[p].graph
  IN  /\ DOMAIN g = GraphFields
      /\ \A i \in DOMAIN edges : IndexOfDBID(g, i) # -1 =>
           /\ IndexOfDBID(g, i) \in DOMAIN g.rows
           /\ DOMAIN g.rows[IndexOfDBID(g, i)] = EdgeColumns
           /\ g.rows[IndexOfDBID(g, i)].facts = edges[i].facts

Held(p) ==
  /\ proc[p].at = "built" => proc[p].held[1] \in Extracts
  /\ (proc[p].at = "sampled" /\ proc[p].gens = {gen}) => SampledFits(p)
  /\ (proc[p].at = "loaded" /\ proc[p].gens = {gen}) => GraphFits(p)

NetworkInv ==
  /\ Rows /\ Shapes /\ Generations
  /\ \A p \in Processes : Held(p)
  /\ ScoresBelong /\ CrashExplained

-----------------------------------------------------------------------------
\* The database id of an edge finds the row that was read for it.
LEMMA IndexFindsRow ==
  ASSUME NEW ns, NEW es, NEW id, IndexOfDBID(GraphOf(ns, es), id) # -1
  PROVE  /\ IndexOfDBID(GraphOf(ns, es), id) \in DOMAIN GraphOf(ns, es).rows
         /\ GraphOf(ns, es).rows[IndexOfDBID(GraphOf(ns, es), id)] = es[id]
<1> DEFINE g == GraphOf(ns, es)  dbid == Table(EdgeOrder(es))
<1>1. /\ g.dbIndex = buildDBIndex(dbid)
      /\ g.rows = [i \in DOMAIN dbid |-> es[dbid[i]]]
  BY DEF GraphOf
<1> HIDE DEF g, dbid
<1>2. id \in DOMAIN g.dbIndex /\ IndexOfDBID(g, id) = g.dbIndex[id] /\ g.dbIndex[id] # -1
  BY DEF IndexOfDBID, g
<1>3. id \in Range(dbid) /\ g.dbIndex[id] = CHOOSE i \in DOMAIN dbid : dbid[i] = id
  BY <1>1, <1>2 DEF buildDBIndex
<1>4. \E i \in DOMAIN dbid : dbid[i] = id
  BY <1>3 DEF Range
<1>5. g.dbIndex[id] \in DOMAIN dbid /\ dbid[g.dbIndex[id]] = id
  BY <1>3, <1>4
<1> QED  BY <1>1, <1>2, <1>5 DEF g

LEMMA LoadedFits ==
  ASSUME Rows, NEW ns, NEW i \in DOMAIN edges,
         IndexOfDBID(GraphOf(ns, edges), i) # -1
  PROVE  LET g == GraphOf(ns, edges)
         IN  /\ DOMAIN g = GraphFields
             /\ IndexOfDBID(g, i) \in DOMAIN g.rows
             /\ DOMAIN g.rows[IndexOfDBID(g, i)] = EdgeColumns
             /\ g.rows[IndexOfDBID(g, i)].facts = edges[i].facts
<1> DEFINE g == GraphOf(ns, edges)
<1>1. DOMAIN g = GraphFields  BY DEF GraphOf, GraphFields
<1> HIDE DEF g
<1>2. IndexOfDBID(g, i) \in DOMAIN g.rows /\ g.rows[IndexOfDBID(g, i)] = edges[i]
  BY IndexFindsRow DEF g
<1>3. DOMAIN edges[i] = EdgeColumns  BY DEF Rows
<1>4. /\ DOMAIN g = GraphFields
      /\ IndexOfDBID(g, i) \in DOMAIN g.rows
      /\ DOMAIN g.rows[IndexOfDBID(g, i)] = EdgeColumns
      /\ g.rows[IndexOfDBID(g, i)].facts = edges[i].facts
  BY <1>1, <1>2, <1>3
<1> QED  BY <1>4 DEF g

-----------------------------------------------------------------------------
(* What holds after steps that keep the roads, and of everybody else.      *)

\* A step that leaves the network in place and touches derived columns only.
SameRoads ==
  /\ gen' = gen
  /\ DOMAIN nodes' = DOMAIN nodes
  /\ \A n \in DOMAIN nodes :
       DOMAIN nodes'[n] = {"osm", "height"} /\ nodes'[n].osm = nodes[n].osm
  /\ DOMAIN edges' = DOMAIN edges
  /\ \A i \in DOMAIN edges :
       /\ DOMAIN edges'[i] = EdgeColumns
       /\ edges'[i].facts = edges[i].facts /\ edges'[i].shape = edges[i].shape
       /\ edges'[i].from = edges[i].from /\ edges'[i].to = edges[i].to

LEMMA RowsKept ==
  ASSUME Rows, SameRoads
  PROVE  Rows'
BY DEF Rows, SameRoads

LEMMA HeldKept ==
  ASSUME SameRoads, NEW p \in Processes, Held(p), proc'[p] = proc[p]
  PROVE  Held(p)'
<1>1. SampledFits(p) => SampledFits(p)'  BY DEF SampledFits, SameRoads
<1>2. GraphFits(p) => GraphFits(p)'  BY DEF GraphFits, SameRoads
<1> QED  BY <1>1, <1>2 DEF Held, SameRoads

\* Once the network is replaced, nothing that was held claims to fit.
LEMMA HeldOutdated ==
  ASSUME Generations, gen' = gen + 1, NEW p \in Processes, Held(p),
         proc'[p] = proc[p]
  PROVE  Held(p)'
<1>1. proc'[p].gens # {gen'}  BY DEF Generations
<1> QED  BY <1>1 DEF Held

LEMMA IdleHolds ==
  ASSUME NEW p \in Processes, proc'[p].at \notin {"built", "sampled", "loaded"}
  PROVE  Held(p)'
BY DEF Held

\* A process moves on while the tables rest.
LEMMA QuietStep ==
  ASSUME NetworkInv, UNCHANGED <<tables, history>>, NEW p \in Processes, NEW new,
         DOMAIN new = ProcFields, new.gens \subseteq 0 .. gen,
         proc' = [proc EXCEPT ![p] = new], Held(p)'
  PROVE  NetworkInv'
<1>1. /\ gen' = gen /\ nodes' = nodes /\ edges' = edges /\ crashes' = crashes
      /\ crashEdge' = crashEdge /\ matched' = matched /\ scored' = scored /\ raced' = raced
  BY DEF tables, history
<1>2. Rows'  BY <1>1 DEF NetworkInv, Rows
<1>3. /\ Shapes' /\ proc'[p] = new
      /\ \A q \in Processes \ {p} : proc'[q] = proc[q]
  BY DEF NetworkInv, Shapes
<1>4. Generations'  BY <1>1, <1>3 DEF NetworkInv, Generations
<1>5. SameRoads  BY <1>1 DEF NetworkInv, Rows, SameRoads
<1>6. ASSUME NEW q \in Processes PROVE Held(q)'
  <2>1. CASE q = p  BY <2>1
  <2>2. CASE q # p  BY <1>3, <1>5, <2>2, HeldKept DEF NetworkInv
  <2> QED  BY <2>1, <2>2
<1>7. ScoresBelong'  BY <1>1 DEF NetworkInv, ScoresBelong
<1>8. CrashExplained'  BY <1>1 DEF NetworkInv, CrashExplained
<1> QED  BY <1>2, <1>3, <1>4, <1>6, <1>7, <1>8 DEF NetworkInv

LEMMA IdleStep == Idle = At("idle")
BY DEF Idle, At

\* A statement that writes derived columns and ends at a step without results.
LEMMA WritingStep ==
  ASSUME NetworkInv, SameRoads, NEW p \in Processes,
         NEW step \in {"stored", "heights", "graded", "idle"},
         proc' = [proc EXCEPT ![p] = At(step)],
         ScoresBelong', CrashExplained'
  PROVE  NetworkInv'
<1>1. Rows'  BY RowsKept DEF NetworkInv
<1>2. /\ Shapes' /\ proc'[p].gens = {} /\ proc'[p].at = step
      /\ \A q \in Processes \ {p} : proc'[q] = proc[q]
  BY DEF NetworkInv, Shapes, At, Idle, ProcFields
<1>3. Generations'  BY <1>2 DEF NetworkInv, Generations, SameRoads
<1>4. ASSUME NEW q \in Processes PROVE Held(q)'
  <2>1. CASE q = p  BY <1>2, <2>1, IdleHolds
  <2>2. CASE q # p  BY <1>2, <2>2, HeldKept DEF NetworkInv
  <2> QED  BY <2>1, <2>2
<1> QED  BY <1>1, <1>2, <1>3, <1>4 DEF NetworkInv

-----------------------------------------------------------------------------
\* A network with nothing derived yet.
Fresh(ns, es) ==
  /\ \A n \in DOMAIN ns : DOMAIN ns[n] = {"osm", "height"} /\ ns[n].height = Null
  /\ \A i \in DOMAIN es :
       /\ DOMAIN es[i] = EdgeColumns
       /\ es[i].lts = 0 /\ es[i].score = {} /\ es[i].grade = Null
       /\ es[i].from \in DOMAIN ns /\ es[i].to \in DOMAIN ns
       /\ ns[es[i].from].osm = es[i].shape[1]
       /\ ns[es[i].to].osm = Last(es[i].shape)

LEMMA FreshNetwork ==
  ASSUME NEW x \in Extracts
  PROVE  Fresh(Network[x].nodes, Network[x].edges)
BY NetworkBuilt DEF Fresh

LEMMA InitInv == Init => NetworkInv
<1> SUFFICES ASSUME Init PROVE NetworkInv
  OBVIOUS
<1>1. PICK x \in Extracts : nodes = Network[x].nodes /\ edges = Network[x].edges
  BY DEF Init
<1>2. /\ crashEdge = {} /\ matched = FALSE /\ scored = {} /\ raced = {} /\ gen = 0
      /\ proc = [p \in Processes |-> Idle]
  BY DEF Init
<1>a. Fresh(nodes, edges)  BY <1>1, FreshNetwork
<1>3. Rows  BY <1>a DEF Fresh, Rows
<1>4. Shapes /\ Generations /\ \A p \in Processes : Held(p)
  BY <1>2 DEF Shapes, Generations, Held, Idle, ProcFields
<1>5. ScoresBelong  BY <1>a DEF Fresh, ScoresBelong
<1>6. CrashExplained  BY <1>2, <1>a DEF Fresh, CrashExplained
<1> QED  BY <1>3, <1>4, <1>5, <1>6 DEF NetworkInv

LEMMA LoadTablesInv ==
  ASSUME NetworkInv, NEW o \in Operators, LoadTables(o)
  PROVE  NetworkInv'
<1> DEFINE x == proc[o].held[1]
<1>1. /\ nodes' = Network[x].nodes /\ edges' = Network[x].edges
      /\ crashEdge' = {} /\ gen' = gen + 1
      /\ matched' = FALSE /\ scored' = {} /\ raced' = {}
      /\ proc' = [proc EXCEPT ![o] = Idle]
  BY DEF LoadTables, Move
<1>a. x \in Extracts  BY DEF LoadTables, NetworkInv, Held, Processes
<1>b. Fresh(nodes', edges')  BY <1>1, <1>a, FreshNetwork
<1>2. Rows'  BY <1>b DEF Fresh, Rows
<1>3. /\ Shapes' /\ proc'[o] = Idle
      /\ \A q \in Processes \ {o} : proc'[q] = proc[q]
  BY <1>1 DEF NetworkInv, Shapes, Processes, Idle, ProcFields
<1>4. Generations'
  BY <1>1, <1>3 DEF NetworkInv, Generations, Idle
<1>5. ASSUME NEW q \in Processes PROVE Held(q)'
  <2>1. CASE q = o  BY <1>3, <2>1, IdleHolds DEF Idle
  <2>2. CASE q # o  BY <1>1, <1>3, <2>2, HeldOutdated DEF NetworkInv
  <2> QED  BY <2>1, <2>2
<1>6. ScoresBelong'  BY <1>b DEF Fresh, ScoresBelong
<1>7. CrashExplained'  BY <1>1, <1>b DEF Fresh, CrashExplained
<1> QED  BY <1>2, <1>3, <1>4, <1>5, <1>6, <1>7 DEF NetworkInv

-----------------------------------------------------------------------------
(* Statements that write derived columns.                                  *)

LEMMA StoreCrashesInv ==
  ASSUME NetworkInv, NEW o \in Operators, StoreCrashes(o)
  PROVE  NetworkInv' /\ SameRoads
<1>1. /\ UNCHANGED <<nodes, edges, gen, scored, raced>>
      /\ crashEdge' = {} /\ matched' = FALSE
      /\ proc' = [proc EXCEPT ![o] = At("stored")] /\ o \in Processes
  BY DEF StoreCrashes, Move, Processes
<1>2. SameRoads  BY <1>1 DEF NetworkInv, Rows, SameRoads
<1>3. ScoresBelong'  BY <1>1 DEF NetworkInv, ScoresBelong
<1>4. CrashExplained'  BY <1>1 DEF NetworkInv, CrashExplained
<1> QED  BY <1>1, <1>2, <1>3, <1>4, WritingStep

LEMMA MatchToEdgesInv ==
  ASSUME NetworkInv, NEW o \in Operators, MatchToEdges(o)
  PROVE  NetworkInv' /\ SameRoads
<1>1. /\ UNCHANGED <<nodes, crashes, gen, raced>> /\ matched' = TRUE /\ scored' = crashes
      /\ crashEdge' = {m \in crashes \X DOMAIN edges : m[1] \in Matches(edges[m[2]])}
      /\ edges' = [i \in DOMAIN edges |-> [edges[i] EXCEPT !.score = Matches(edges[i])]]
      /\ proc' = [proc EXCEPT ![o] = At("idle")] /\ o \in Processes
  BY IdleStep DEF MatchToEdges, Move, Processes, Rescored
<1>2. ASSUME NEW i \in DOMAIN edges
      PROVE  /\ DOMAIN edges'[i] = EdgeColumns
             /\ edges'[i].score = Matches(edges[i])
             /\ edges'[i].facts = edges[i].facts /\ edges'[i].shape = edges[i].shape
             /\ edges'[i].from = edges[i].from /\ edges'[i].to = edges[i].to
             /\ edges'[i].lts = edges[i].lts /\ edges'[i].grade = edges[i].grade
  <2>1. DOMAIN edges[i] = EdgeColumns  BY DEF NetworkInv, Rows
  <2>2. edges'[i] = [edges[i] EXCEPT !.score = Matches(edges[i])]  BY <1>1
  <2> QED  BY <2>1, <2>2 DEF EdgeColumns
<1>3. DOMAIN edges' = DOMAIN edges  BY <1>1
<1>4. SameRoads  BY <1>1, <1>2, <1>3 DEF NetworkInv, Rows, SameRoads
<1>5. ScoresBelong'  BY <1>1, <1>2, <1>3 DEF NetworkInv, ScoresBelong
<1>6. CrashExplained'
  <2>1. ASSUME NEW i \in DOMAIN edges
        PROVE  /\ edges'[i].score = {c \in crashes' : <<c, i>> \in crashEdge'}
               /\ edges'[i].score = {c \in scored' : Near(c.place, edges'[i].shape)}
    <3>1. \A c \in crashes : <<c, i>> \in crashEdge' <=> c \in Matches(edges[i])
      BY <1>1
    <3>2. Matches(edges[i]) = {c \in crashes : Near(c.place, edges[i].shape)}
      BY DEF Matches
    <3>3. crashes' = crashes /\ scored' = crashes /\ edges'[i].score = Matches(edges[i])
          /\ edges'[i].shape = edges[i].shape
      BY <1>1, <1>2
    <3> QED  BY <3>1, <3>2, <3>3
  <2> QED  BY <1>1, <1>3, <2>1 DEF CrashExplained
<1> QED  BY <1>1, <1>4, <1>5, <1>6, WritingStep

LEMMA WriteHeightsInv ==
  ASSUME NetworkInv, NEW o \in Operators, WriteHeights(o)
  PROVE  NetworkInv' /\ SameRoads
<1> DEFINE ele == proc[o].held
<1>1. /\ UNCHANGED <<edges, crashes, crashEdge, gen, matched, scored>>
      /\ nodes' = [n \in DOMAIN nodes |->
                     IF n \in DOMAIN ele /\ ele[n] # Null
                     THEN [nodes[n] EXCEPT !.height = ele[n]] ELSE nodes[n]]
      /\ raced' = (IF proc[o].gens = {gen} THEN raced ELSE raced \union {"height"})
      /\ proc' = [proc EXCEPT ![o] = At("heights")] /\ o \in Processes
      /\ proc[o].at = "sampled"
  BY DEF WriteHeights, Move, Processes
<1>2. ASSUME NEW n \in DOMAIN nodes
      PROVE  /\ DOMAIN nodes'[n] = {"osm", "height"} /\ nodes'[n].osm = nodes[n].osm
             /\ \/ nodes'[n].height = nodes[n].height
                \/ n \in DOMAIN ele /\ nodes'[n].height = ele[n]
  <2>1. DOMAIN nodes[n] = {"osm", "height"}  BY DEF NetworkInv, Rows
  <2>2. nodes'[n] = IF n \in DOMAIN ele /\ ele[n] # Null
                    THEN [nodes[n] EXCEPT !.height = ele[n]] ELSE nodes[n]
    BY <1>1
  <2> QED  BY <2>1, <2>2
<1>3. DOMAIN nodes' = DOMAIN nodes  BY <1>1
<1>4. SameRoads  BY <1>1, <1>2, <1>3 DEF NetworkInv, Rows, SameRoads
<1>5. ScoresBelong'
  <2>1. "lts" \notin raced' => "lts" \notin raced  BY <1>1
  <2>2. ("lts" \notin raced =>
           \A i \in DOMAIN edges : edges[i].lts \in {0, ClassifyLTS(edges[i].facts)})'
    BY <1>1, <2>1 DEF NetworkInv, ScoresBelong
  <2>3. ASSUME "height" \notin raced'
        PROVE  /\ "height" \notin raced
               /\ \A n \in DOMAIN nodes' :
                    nodes'[n].height \in {Null, HeightAt[Where[nodes'[n].osm]]}
    <3>1. "height" \notin raced /\ proc[o].gens = {gen}  BY <1>1, <2>3
    <3>2. \A n \in DOMAIN nodes : n \in DOMAIN ele => ele[n] = HeightAt[Where[nodes[n].osm]]
      BY <1>1, <3>1 DEF NetworkInv, Held, SampledFits
    <3>3. \A n \in DOMAIN nodes : nodes[n].height \in {Null, HeightAt[Where[nodes[n].osm]]}
      BY <3>1 DEF NetworkInv, ScoresBelong
    <3> QED  BY <1>2, <1>3, <3>1, <3>2, <3>3
  <2> QED  BY <1>1, <2>2, <2>3 DEF NetworkInv, ScoresBelong
<1>6. CrashExplained'  BY <1>1 DEF NetworkInv, CrashExplained
<1> QED  BY <1>1, <1>4, <1>5, <1>6, WritingStep

\* A statement that writes grades, each the edge's own or flat.
LEMMA GradesInv ==
  ASSUME NetworkInv, NEW o \in Operators, NEW step \in {"graded", "idle"},
         proc' = [proc EXCEPT ![o] = At(step)],
         NEW graded, NEW new,
         edges' = [i \in DOMAIN edges |-> IF i \in graded
                                          THEN [edges[i] EXCEPT !.grade = new[i]]
                                          ELSE edges[i]],
         \A i \in DOMAIN edges : i \in graded => new[i] \in {Flat, GradeOf(edges[i])},
         \A i \in DOMAIN edges : (i \in graded /\ new[i] # Flat) => Measurable(edges[i]),
         UNCHANGED <<nodes, crashes, crashEdge, gen, matched, scored, raced>>
  PROVE  NetworkInv' /\ SameRoads
<1>1. ASSUME NEW i \in DOMAIN edges
      PROVE  /\ DOMAIN edges'[i] = EdgeColumns
             /\ edges'[i].score = edges[i].score /\ edges'[i].lts = edges[i].lts
             /\ edges'[i].facts = edges[i].facts /\ edges'[i].shape = edges[i].shape
             /\ edges'[i].from = edges[i].from /\ edges'[i].to = edges[i].to
             /\ edges'[i].grade = (IF i \in graded THEN new[i] ELSE edges[i].grade)
  <2>1. DOMAIN edges[i] = EdgeColumns  BY DEF NetworkInv, Rows
  <2>2. edges'[i] = IF i \in graded THEN [edges[i] EXCEPT !.grade = new[i]] ELSE edges[i]
    OBVIOUS
  <2> QED  BY <2>1, <2>2 DEF EdgeColumns
<1>2. DOMAIN edges' = DOMAIN edges  OBVIOUS
<1>3. SameRoads  BY <1>1, <1>2 DEF NetworkInv, Rows, SameRoads
<1>4. CrashExplained'  BY <1>1, <1>2 DEF NetworkInv, CrashExplained
<1>5. ScoresBelong'
  <2>1. ASSUME "height" \notin raced, NEW i \in DOMAIN edges
        PROVE  edges'[i].grade \in {Null, Flat, <<HeightAt[Where[edges[i].shape[1]]],
                                                  HeightAt[Where[Last(edges[i].shape)]]>>}
    <3>1. edges[i].grade \in {Null, Flat, <<HeightAt[Where[edges[i].shape[1]]],
                                            HeightAt[Where[Last(edges[i].shape)]]>>}
      BY <2>1 DEF NetworkInv, ScoresBelong
    <3>2. ASSUME i \in graded, new[i] # Flat
          PROVE  new[i] = <<HeightAt[Where[edges[i].shape[1]]],
                            HeightAt[Where[Last(edges[i].shape)]]>>
      <4>1. /\ nodes[edges[i].from].height # Null /\ nodes[edges[i].to].height # Null
            /\ new[i] = <<nodes[edges[i].from].height, nodes[edges[i].to].height>>
        BY <3>2 DEF Measurable, GradeOf
      <4>2. /\ edges[i].from \in DOMAIN nodes /\ edges[i].to \in DOMAIN nodes
            /\ nodes[edges[i].from].osm = edges[i].shape[1]
            /\ nodes[edges[i].to].osm = Last(edges[i].shape)
        BY DEF NetworkInv, Rows
      <4>3. \A n \in DOMAIN nodes : nodes[n].height \in {Null, HeightAt[Where[nodes[n].osm]]}
        BY <2>1 DEF NetworkInv, ScoresBelong
      <4> QED  BY <4>1, <4>2, <4>3
    <3> QED  BY <1>1, <3>1, <3>2
  <2>2. "lts" \notin raced =>
          \A i \in DOMAIN edges : edges'[i].lts \in {0, ClassifyLTS(edges'[i].facts)}
    BY <1>1 DEF NetworkInv, ScoresBelong
  <2>3. "height" \notin raced =>
          \A n \in DOMAIN nodes : nodes[n].height \in {Null, HeightAt[Where[nodes[n].osm]]}
    BY DEF NetworkInv, ScoresBelong
  <2> QED  BY <1>1, <1>2, <2>1, <2>2, <2>3 DEF ScoresBelong
<1> QED  BY <1>3, <1>4, <1>5, WritingStep DEF Processes

LEMMA ApplyGradesInv ==
  ASSUME NetworkInv, NEW o \in Operators, ApplyGrades(o)
  PROVE  NetworkInv' /\ SameRoads
<1> DEFINE graded == {i \in DOMAIN edges : Measurable(edges[i])}
           new == [i \in DOMAIN edges |-> GradeOf(edges[i])]
<1>1. edges' = [i \in DOMAIN edges |-> IF i \in graded
                                       THEN [edges[i] EXCEPT !.grade = new[i]]
                                       ELSE edges[i]]
  BY DEF ApplyGrades
<1>2. /\ UNCHANGED <<nodes, crashes, crashEdge, gen, matched, scored, raced>>
      /\ proc' = [proc EXCEPT ![o] = At("graded")]
  BY DEF ApplyGrades, Move, history
<1>3. \A i \in DOMAIN edges :
        /\ i \in graded => new[i] \in {Flat, GradeOf(edges[i])}
        /\ (i \in graded /\ new[i] # Flat) => Measurable(edges[i])
  OBVIOUS
<1> HIDE DEF graded, new
<1> QED  BY <1>1, <1>2, <1>3, GradesInv

LEMMA ZeroGradesInv ==
  ASSUME NetworkInv, NEW o \in Operators, ZeroGrades(o)
  PROVE  NetworkInv' /\ SameRoads
<1> DEFINE graded == {i \in DOMAIN edges : edges[i].grade = Null}
           new == [i \in DOMAIN edges |-> Flat]
<1>1. edges' = [i \in DOMAIN edges |-> IF i \in graded
                                       THEN [edges[i] EXCEPT !.grade = new[i]]
                                       ELSE edges[i]]
  BY DEF ZeroGrades
<1>2. /\ UNCHANGED <<nodes, crashes, crashEdge, gen, matched, scored, raced>>
      /\ proc' = [proc EXCEPT ![o] = At("idle")]
  BY IdleStep DEF ZeroGrades, Move, history
<1>3. \A i \in DOMAIN edges :
        /\ i \in graded => new[i] \in {Flat, GradeOf(edges[i])}
        /\ (i \in graded /\ new[i] # Flat) => Measurable(edges[i])
  OBVIOUS
<1> HIDE DEF graded, new
<1> QED  BY <1>1, <1>2, <1>3, GradesInv

-----------------------------------------------------------------------------
(* Stress written back by id.                                              *)

LEMMA PersistLTSInv ==
  ASSUME NetworkInv, NEW o \in Operators, PersistLTS(o)
  PROVE  NetworkInv' /\ SameRoads
<1> DEFINE old == proc[o].graph
           g == ScoreGraph(old)
<1>1. /\ UNCHANGED <<nodes, crashes, crashEdge, gen, matched, scored>>
      /\ edges' = [i \in DOMAIN edges |->
                     IF IndexOfDBID(g, i) # -1
                     THEN [edges[i] EXCEPT !.lts = g.rows[IndexOfDBID(g, i)].lts]
                     ELSE edges[i]]
      /\ raced' = (IF proc[o].gens = {gen} THEN raced ELSE raced \union {"lts"})
      /\ proc' = [proc EXCEPT ![o] = At("idle")] /\ o \in Processes
      /\ proc[o].at = "loaded"
  BY IdleStep DEF PersistLTS, Move, Processes
<1>2. ASSUME NEW i \in DOMAIN edges, proc[o].gens = {gen}, IndexOfDBID(g, i) # -1
      PROVE  g.rows[IndexOfDBID(g, i)].lts = ClassifyLTS(edges[i].facts)
  <2>1. GraphFits(o)  BY <1>1, <1>2 DEF NetworkInv, Held
  <2>2. DOMAIN old = GraphFields  BY <2>1 DEF GraphFits
  <2>3. /\ g.dbIndex = old.dbIndex
        /\ g.rows = [k \in DOMAIN old.rows |->
                       [old.rows[k] EXCEPT !.lts = ClassifyLTS(old.rows[k].facts)]]
    BY <2>2 DEF ScoreGraph, GraphFields
  <2> HIDE DEF g
  <2>4. IndexOfDBID(g, i) = IndexOfDBID(old, i)  BY <2>3 DEF IndexOfDBID
  <2> DEFINE k == IndexOfDBID(old, i)
  <2>5. /\ k \in DOMAIN old.rows /\ DOMAIN old.rows[k] = EdgeColumns
        /\ old.rows[k].facts = edges[i].facts
    BY <1>2, <2>1, <2>4 DEF GraphFits
  <2> HIDE DEF k
  <2>6. g.rows[k] = [old.rows[k] EXCEPT !.lts = ClassifyLTS(old.rows[k].facts)]
    BY <2>3, <2>5
  <2>7. g.rows[k].lts = ClassifyLTS(old.rows[k].facts)
    BY <2>5, <2>6 DEF EdgeColumns
  <2> QED  BY <2>4, <2>5, <2>7 DEF k
<1> HIDE DEF g
<1>3. ASSUME NEW i \in DOMAIN edges
      PROVE  /\ DOMAIN edges'[i] = EdgeColumns
             /\ edges'[i].score = edges[i].score /\ edges'[i].grade = edges[i].grade
             /\ edges'[i].facts = edges[i].facts /\ edges'[i].shape = edges[i].shape
             /\ edges'[i].from = edges[i].from /\ edges'[i].to = edges[i].to
             /\ proc[o].gens = {gen} =>
                  edges'[i].lts \in {edges[i].lts, ClassifyLTS(edges[i].facts)}
  <2>1. DOMAIN edges[i] = EdgeColumns  BY DEF NetworkInv, Rows
  <2>2. edges'[i] = IF IndexOfDBID(g, i) # -1
                    THEN [edges[i] EXCEPT !.lts = g.rows[IndexOfDBID(g, i)].lts]
                    ELSE edges[i]
    BY <1>1
  <2>3. CASE IndexOfDBID(g, i) # -1
    BY <1>2, <2>1, <2>2, <2>3 DEF EdgeColumns
  <2>4. CASE IndexOfDBID(g, i) = -1
    BY <2>1, <2>2, <2>4
  <2> QED  BY <2>3, <2>4
<1>4. DOMAIN edges' = DOMAIN edges  BY <1>1
<1>5. SameRoads  BY <1>1, <1>3, <1>4 DEF NetworkInv, Rows, SameRoads
<1>6. ScoresBelong'
  <2>1. ASSUME "lts" \notin raced', NEW i \in DOMAIN edges'
        PROVE  edges'[i].lts \in {0, ClassifyLTS(edges'[i].facts)}
    <3>1. "lts" \notin raced /\ proc[o].gens = {gen}  BY <1>1, <2>1
    <3>2. edges[i].lts \in {0, ClassifyLTS(edges[i].facts)}
      BY <1>4, <2>1, <3>1 DEF NetworkInv, ScoresBelong
    <3> QED  BY <1>3, <1>4, <2>1, <3>1, <3>2
  <2>2. "height" \notin raced' => "height" \notin raced  BY <1>1
  <2>3. ("height" \notin raced =>
          /\ \A n \in DOMAIN nodes : nodes[n].height \in {Null, HeightAt[Where[nodes[n].osm]]}
          /\ \A i \in DOMAIN edges :
               LET s == edges[i].shape
               IN  edges[i].grade \in
                     {Null, Flat, <<HeightAt[Where[s[1]]], HeightAt[Where[Last(s)]]>>})'
    BY <1>1, <1>3, <1>4, <2>2 DEF NetworkInv, ScoresBelong
  <2> QED  BY <2>1, <2>3 DEF ScoresBelong
<1>7. CrashExplained'  BY <1>1, <1>3, <1>4 DEF NetworkInv, CrashExplained
<1> QED  BY <1>1, <1>5, <1>6, <1>7, WritingStep

-----------------------------------------------------------------------------
(* Steps that only move a process on.                                      *)

LEMMA StartingStep ==
  ASSUME NetworkInv, UNCHANGED <<tables, history>>, NEW p \in Processes,
         NEW step \in {"idle", "fetched", "tiles", "load"}, NEW held,
         proc' = [proc EXCEPT ![p] = [At(step) EXCEPT !.held = held]]
  PROVE  NetworkInv'
<1> DEFINE new == [At(step) EXCEPT !.held = held]
<1>1. DOMAIN new = ProcFields /\ new.gens \subseteq 0 .. gen /\ new.at = step
  BY DEF At, Idle, ProcFields
<1> HIDE DEF new
<1>2. proc'[p] = new  BY DEF NetworkInv, Shapes, new
<1>3. Held(p)'  BY <1>1, <1>2, IdleHolds
<1> QED  BY <1>1, <1>3, QuietStep DEF new

LEMMA ResetStep ==
  ASSUME NetworkInv, UNCHANGED <<tables, history>>, NEW p \in Processes,
         NEW step \in {"idle", "fetched", "tiles", "load"},
         proc' = [proc EXCEPT ![p] = At(step)]
  PROVE  NetworkInv'
<1>1. DOMAIN At(step) = ProcFields /\ At(step).gens \subseteq 0 .. gen /\ At(step).at = step
  BY DEF At, Idle, ProcFields
<1>2. proc'[p] = At(step)  BY DEF NetworkInv, Shapes
<1>3. Held(p)'  BY <1>1, <1>2, IdleHolds
<1> QED  BY <1>1, <1>3, QuietStep

LEMMA CommandsInv ==
  ASSUME NetworkInv, NEW o \in Operators,
         IngestOsm(o) \/ IngestCrashes(o) \/ IngestElevation(o) \/ ScoreEdges(o)
           \/ Abort(o)
  PROVE  NetworkInv'
<1>1. o \in Processes  BY DEF Processes
<1>2. CASE IngestOsm(o)
  <2>1. PICK x \in Extracts : Command(o, [At("built") EXCEPT !.held = <<x>>])
    BY <1>2 DEF IngestOsm
  <2> DEFINE new == [At("built") EXCEPT !.held = <<x>>]
  <2>2. UNCHANGED <<tables, history>> /\ proc' = [proc EXCEPT ![o] = new]
    BY <2>1 DEF Command, Move
  <2>3. /\ DOMAIN new = ProcFields /\ new.gens \subseteq 0 .. gen
        /\ new.at = "built" /\ new.held = <<x>>
    BY DEF At, Idle, ProcFields
  <2> HIDE DEF new
  <2>4. proc'[o] = new  BY <1>1, <2>2 DEF NetworkInv, Shapes
  <2>5. Held(o)'  BY <2>3, <2>4 DEF Held
  <2> QED  BY <1>1, <2>2, <2>3, <2>5, QuietStep
<1>3. CASE IngestCrashes(o)
  <2>1. PICK f \in Feeds : Command(o, [At("fetched") EXCEPT !.held = <<f>>])
    BY <1>3 DEF IngestCrashes
  <2> QED  BY <1>1, <2>1, StartingStep DEF Command, Move
<1>4. CASE IngestElevation(o)
  BY <1>1, <1>4, ResetStep DEF IngestElevation, Command, Move
<1>5. CASE ScoreEdges(o)
  BY <1>1, <1>5, ResetStep DEF ScoreEdges, Command, Move
<1>6. CASE Abort(o)
  BY <1>1, <1>6, ResetStep, IdleStep DEF Abort, Move
<1> QED  BY <1>2, <1>3, <1>4, <1>5, <1>6

LEMMA SampleNodesInv ==
  ASSUME NetworkInv, NEW o \in Operators, SampleNodes(o)
  PROVE  NetworkInv'
<1> DEFINE heights == [n \in DOMAIN nodes |-> HeightAt[Where[nodes[n].osm]]]
           new == [At("sampled") EXCEPT !.held = heights, !.gens = {gen}]
<1>1. UNCHANGED <<tables, history>> /\ proc' = [proc EXCEPT ![o] = new] /\ o \in Processes
  BY DEF SampleNodes, Move, Processes
<1>2. /\ DOMAIN new = ProcFields /\ new.gens \subseteq 0 .. gen
      /\ new.at = "sampled" /\ new.held = heights
  BY DEF At, Idle, ProcFields, NetworkInv, Generations
<1> HIDE DEF new
<1>3. proc'[o] = new  BY <1>1 DEF NetworkInv, Shapes
<1>4. SampledFits(o)'  BY <1>1, <1>2, <1>3 DEF SampledFits, tables
<1>5. Held(o)'  BY <1>2, <1>3, <1>4 DEF Held
<1> QED  BY <1>1, <1>2, <1>5, QuietStep

LEMMA LoadInv ==
  ASSUME NetworkInv, NEW p \in Processes, Load(p)
  PROVE  NetworkInv'
<1>1. UNCHANGED <<tables, history>>  BY DEF Load, CountNodes, ReadNodes, ReadEdges, Loading
<1>2. CASE CountNodes(p)
  <2> DEFINE new == [At("counted") EXCEPT !.count = Cardinality(DOMAIN nodes)]
  <2>1. proc' = [proc EXCEPT ![p] = new]  BY <1>2 DEF CountNodes, Move
  <2>2. DOMAIN new = ProcFields /\ new.gens \subseteq 0 .. gen /\ new.at = "counted"
    BY DEF At, Idle, ProcFields
  <2> HIDE DEF new
  <2>3. Held(p)'  BY <2>1, <2>2, IdleHolds DEF NetworkInv, Shapes
  <2> QED  BY <1>1, <2>1, <2>2, <2>3, QuietStep
<1>3. CASE ReadNodes(p)
  <2> DEFINE new == [At("noded") EXCEPT !.held = [n \in DOMAIN nodes |-> nodes[n].osm],
                                        !.gens = {gen}]
  <2>1. \/ proc' = [proc EXCEPT ![p] = new]
        \/ proc' = [proc EXCEPT ![p] = At("idle")]
    BY <1>3, IdleStep DEF ReadNodes, Move
  <2>2. DOMAIN new = ProcFields /\ new.gens \subseteq 0 .. gen /\ new.at = "noded"
    BY DEF At, Idle, ProcFields, NetworkInv, Generations
  <2> HIDE DEF new
  <2>3. CASE proc' = [proc EXCEPT ![p] = new]
    <3>1. Held(p)'  BY <2>2, <2>3, IdleHolds DEF NetworkInv, Shapes
    <3> QED  BY <1>1, <2>2, <2>3, <3>1, QuietStep
  <2>4. CASE proc' = [proc EXCEPT ![p] = At("idle")]  BY <1>1, <2>4, ResetStep
  <2> QED  BY <2>1, <2>3, <2>4
<1>4. CASE ReadEdges(p)
  <2> DEFINE g == GraphOf(proc[p].held, edges)
             new == [At("loaded") EXCEPT !.graph = g,
                                         !.gens = proc[p].gens \union {gen}]
  <2>1. \/ proc' = [proc EXCEPT ![p] = new]
        \/ proc' = [proc EXCEPT ![p] = At("idle")]
    BY <1>4, IdleStep DEF ReadEdges, Move
  <2>2. /\ DOMAIN g = GraphFields
        /\ \A i \in DOMAIN edges : IndexOfDBID(g, i) # -1 =>
             /\ IndexOfDBID(g, i) \in DOMAIN g.rows
             /\ DOMAIN g.rows[IndexOfDBID(g, i)] = EdgeColumns
             /\ g.rows[IndexOfDBID(g, i)].facts = edges[i].facts
    <3>1. DOMAIN g = GraphFields  BY DEF GraphOf, GraphFields
    <3> QED  BY <3>1, LoadedFits DEF NetworkInv
  <2> HIDE DEF g
  <2>3. proc[p].gens \subseteq 0 .. gen /\ gen \in 0 .. gen
    BY DEF NetworkInv, Generations
  <2>4. /\ DOMAIN new = ProcFields /\ new.gens \subseteq 0 .. gen
        /\ new.at = "loaded" /\ new.graph = g
    BY <2>3 DEF At, Idle, ProcFields
  <2> HIDE DEF new
  <2>5. CASE proc' = [proc EXCEPT ![p] = new]
    <3>1. proc'[p] = new  BY <2>5 DEF NetworkInv, Shapes
    <3>2. GraphFits(p)'  BY <1>1, <2>2, <2>4, <3>1 DEF GraphFits, tables
    <3>3. Held(p)'  BY <2>4, <3>1, <3>2 DEF Held
    <3> QED  BY <1>1, <2>4, <2>5, <3>3, QuietStep
  <2>6. CASE proc' = [proc EXCEPT ![p] = At("idle")]  BY <1>1, <2>6, ResetStep
  <2> QED  BY <2>1, <2>5, <2>6
<1> QED  BY <1>2, <1>3, <1>4 DEF Load

\* Steps that leave tables and processes alone.
LEMMA RestInv ==
  ASSUME NetworkInv, UNCHANGED <<tables, proc, history>>
  PROVE  NetworkInv'
<1>1. /\ gen' = gen /\ nodes' = nodes /\ edges' = edges /\ crashes' = crashes
      /\ crashEdge' = crashEdge /\ matched' = matched /\ scored' = scored /\ raced' = raced
      /\ proc' = proc
  BY DEF tables, history
<1>2. Rows'  BY <1>1 DEF NetworkInv, Rows
<1>3. Shapes'  BY <1>1 DEF NetworkInv, Shapes
<1>4. Generations'  BY <1>1 DEF NetworkInv, Generations
<1>5. SameRoads  BY <1>1 DEF NetworkInv, Rows, SameRoads
<1>6. \A q \in Processes : Held(q)'  BY <1>1, <1>5, HeldKept DEF NetworkInv
<1>7. ScoresBelong'  BY <1>1 DEF NetworkInv, ScoresBelong
<1>8. CrashExplained'  BY <1>1 DEF NetworkInv, CrashExplained
<1> QED  BY <1>2, <1>3, <1>4, <1>6, <1>7, <1>8 DEF NetworkInv

LEMMA ServerInv ==
  ASSUME NetworkInv, Server
  PROVE  NetworkInv'
<1>1. Api \in Processes  BY DEF Processes
<1>2. CASE StartServer
  BY <1>1, <1>2, ResetStep DEF StartServer, Move
<1>3. CASE Load(Api)  BY <1>1, <1>3, LoadInv
<1>4. CASE RefreshHazards
  <2> DEFINE new == [proc[Api] EXCEPT !.at = "serving"]
  <2>1. UNCHANGED <<tables, history>> /\ proc' = [proc EXCEPT ![Api] = new]
    BY <1>4 DEF RefreshHazards, Move
  <2>2. DOMAIN proc[Api] = ProcFields /\ proc[Api].gens \subseteq 0 .. gen
    BY <1>1 DEF NetworkInv, Shapes, Generations
  <2>3. DOMAIN new = ProcFields /\ new.gens = proc[Api].gens /\ new.at = "serving"
    BY <2>2 DEF ProcFields
  <2> HIDE DEF new
  <2>4. Held(Api)'  BY <1>1, <2>1, <2>3, IdleHolds DEF NetworkInv, Shapes
  <2> QED  BY <1>1, <2>1, <2>2, <2>3, <2>4, QuietStep
<1>5. CASE StopServer
  BY <1>1, <1>5, ResetStep, IdleStep DEF StopServer, Move
<1>6. CASE SnapPoint \/ RoutePlan \/ DrawPlan
  BY <1>6, RestInv DEF SnapPoint, RoutePlan, DrawPlan
<1> QED  BY <1>2, <1>3, <1>4, <1>5, <1>6 DEF Server

LEMMA NextInv ==
  ASSUME NetworkInv, [Next]_vars
  PROVE  NetworkInv'
<1>1. CASE Server  BY <1>1, ServerInv
<1>2. ASSUME NEW o \in Operators, CLI(o) PROVE NetworkInv'
  <2>1. CASE IngestOsm(o) \/ IngestCrashes(o) \/ IngestElevation(o) \/ ScoreEdges(o)
               \/ Abort(o)
    BY <2>1, CommandsInv
  <2>2. CASE LoadTables(o)  BY <2>2, LoadTablesInv
  <2>3. CASE StoreCrashes(o)  BY <2>3, StoreCrashesInv
  <2>4. CASE MatchToEdges(o)  BY <2>4, MatchToEdgesInv
  <2>5. CASE SampleNodes(o)  BY <2>5, SampleNodesInv
  <2>6. CASE WriteHeights(o)  BY <2>6, WriteHeightsInv
  <2>7. CASE ApplyGrades(o)  BY <2>7, ApplyGradesInv
  <2>8. CASE ZeroGrades(o)  BY <2>8, ZeroGradesInv
  <2>9. CASE Load(o)  BY <2>9, LoadInv DEF Processes
  <2>10. CASE PersistLTS(o)  BY <2>10, PersistLTSInv
  <2> QED  BY <1>2, <2>1, <2>2, <2>3, <2>4, <2>5, <2>6, <2>7, <2>8, <2>9, <2>10 DEF CLI
<1>3. CASE UNCHANGED vars  BY <1>3, RestInv DEF vars
<1> QED  BY <1>1, <1>2, <1>3 DEF Next

(* Rows keep their columns and edges their ends, what a command holds fits *)
(* the network it was read from, and derived values and crash_edge agree   *)
(* with the roads, after every step of every command (cmd/viatuta).        *)
THEOREM NetworkInvariant == Spec => []NetworkInv
<1>1. Init => NetworkInv  BY InitInv
<1>2. NetworkInv /\ [Next]_vars => NetworkInv'  BY NextInv
<1> QED  BY <1>1, <1>2, PTL DEF Spec

(* PersistLTS, WriteElevations and ApplyGrades put every stress, height    *)
(* and grade on the road it was computed for, unless the network was       *)
(* replaced between that command's read and its write.                     *)
THEOREM ScoresOnTheirRoads == Spec => []ScoresBelong
<1>1. NetworkInv => ScoresBelong  BY DEF NetworkInv
<1> QED  BY <1>1, NetworkInvariant, PTL

(* MatchToEdges gives every edge the score its rows of crash_edge explain, *)
(* and nothing but the next match or a reload changes it: an import, also  *)
(* one that fails before its match, empties crash_edge and leaves every    *)
(* edge with the score of the import matched last, never of two.           *)
THEOREM CrashesExplained == Spec => []CrashExplained
<1>1. NetworkInv => CrashExplained  BY DEF NetworkInv
<1> QED  BY <1>1, NetworkInvariant, PTL

-----------------------------------------------------------------------------
(* Counting and ranking.                                                   *)

(* The first n naturals.                                                   *)
LEMMA FirstNaturals ==
  ASSUME NEW n \in Nat
  PROVE  IsFiniteSet(0 .. n - 1) /\ Cardinality(0 .. n - 1) = n
BY FS_Interval

(* Ranks: in a finite set under a strict total order, counting the smaller *)
(* elements numbers the elements from zero, in order.                      *)
RankIn(S, R) == [i \in S |-> Cardinality({j \in S : <<j, i>> \in R})]

LEMMA Ranking ==
  ASSUME NEW S, IsFiniteSet(S), NEW R,
         \A i \in S : <<i, i>> \notin R,
         \A i, j, k \in S : <<i, j>> \in R /\ <<j, k>> \in R => <<i, k>> \in R,
         \A i, j \in S : i # j => <<i, j>> \in R \/ <<j, i>> \in R
  PROVE  LET rank == RankIn(S, R)
         IN  /\ \A i \in S : rank[i] \in 0 .. Cardinality(S) - 1
             /\ \A i, j \in S : <<i, j>> \in R <=> rank[i] < rank[j]
             /\ \A i, j \in S : rank[i] = rank[j] => i = j
             /\ \A k \in 0 .. Cardinality(S) - 1 : \E i \in S : rank[i] = k
<1> DEFINE rank == RankIn(S, R)
           Below(i) == {j \in S : <<j, i>> \in R}
<1>a. Cardinality(S) \in Nat
  BY FS_CardinalityType
<1>1. ASSUME NEW i \in S
      PROVE  /\ IsFiniteSet(Below(i)) /\ rank[i] = Cardinality(Below(i))
             /\ rank[i] \in 0 .. Cardinality(S) - 1
  <2>1. Below(i) \subseteq S \ {i}
    OBVIOUS
  <2>2. IsFiniteSet(S \ {i}) /\ Cardinality(S \ {i}) = Cardinality(S) - 1
    BY FS_RemoveElement
  <2>3. IsFiniteSet(Below(i)) /\ Cardinality(Below(i)) <= Cardinality(S \ {i})
    BY <2>1, <2>2, FS_Subset
  <2>4. Cardinality(Below(i)) \in Nat
    BY <2>3, FS_CardinalityType
  <2>5. rank[i] = Cardinality(Below(i))
    BY DEF RankIn
  <2> HIDE DEF Below, rank
  <2> QED BY <1>a, <2>2, <2>3, <2>4, <2>5
<1> HIDE DEF rank
<1>b. \A i \in S : rank[i] \in 0 .. Cardinality(S) - 1 /\ rank[i] \in Nat
  <2> TAKE i \in S
  <2>1. rank[i] \in 0 .. Cardinality(S) - 1
    BY <1>1
  <2> QED BY <1>a, <2>1
<1>2. ASSUME NEW i \in S, NEW j \in S, <<i, j>> \in R
      PROVE  rank[i] < rank[j]
  <2>1. Below(i) \subseteq Below(j)
    BY <1>2
  <2>2. i \in Below(j) /\ i \notin Below(i)
    BY <1>2
  <2>3. Cardinality(Below(i)) <= Cardinality(Below(j))
        /\ (Cardinality(Below(j)) = Cardinality(Below(i)) => Below(j) = Below(i))
    BY <1>1, <2>1, FS_Subset
  <2>4. rank[i] # rank[j]
    BY <1>1, <2>2, <2>3
  <2>5. rank[i] <= rank[j]
    BY <1>1, <2>3
  <2> QED BY <1>b, <2>4, <2>5
<1>3. ASSUME NEW i \in S, NEW j \in S, rank[i] < rank[j]
      PROVE  <<i, j>> \in R
  <2>1. i # j
    BY <1>b, <1>3
  <2>2. ~(<<j, i>> \in R)
    BY <1>b, <1>2, <1>3
  <2> QED BY <2>1, <2>2
<1>4. \A i, j \in S : rank[i] = rank[j] => i = j
  <2> TAKE i, j \in S
  <2>1. <<i, j>> \in R => rank[i] < rank[j]
    BY <1>2
  <2>2. <<j, i>> \in R => rank[j] < rank[i]
    BY <1>2
  <2>3. rank[i] \in Nat /\ rank[j] \in Nat
    BY <1>b
  <2> QED BY <2>1, <2>2, <2>3
<1>5. \A k \in 0 .. Cardinality(S) - 1 : \E i \in S : rank[i] = k
  <2> DEFINE ranks == 0 .. Cardinality(S) - 1
  <2>1. IsFiniteSet(ranks) /\ Cardinality(ranks) = Cardinality(S)
    BY <1>a, FirstNaturals
  <2>2. rank \in [S -> ranks]
    <3>1. DOMAIN rank = S /\ rank = [i \in S |-> rank[i]]
      BY DEF rank, RankIn
    <3> QED BY <1>b, <3>1
  <2>4. rank \in Injection(S, ranks)
    BY <1>4, <2>2 DEF Injection, IsInjective
  <2>5. rank \in Surjection(S, ranks)
    BY <2>1, <2>4, FS_Injection
  <2> QED BY <2>5 DEF Surjection
<1> HIDE DEF Below
<1>6. rank = RankIn(S, R)
  BY DEF rank
<1> QED BY <1>b, <1>2, <1>3, <1>4, <1>5, <1>6

(* A set of naturals without gaps below its elements is an interval from   *)
(* zero, as long as it has elements.                                       *)
LEMMA DownClosed ==
  ASSUME NEW n \in Nat, NEW D \in SUBSET (0 .. n - 1),
         \A i \in D : 0 .. i \subseteq D
  PROVE  Cardinality(D) \in Nat /\ D = 0 .. Cardinality(D) - 1
<1>1. IsFiniteSet(D) /\ Cardinality(D) \in Nat
  <2>1. IsFiniteSet(0 .. n - 1)
    BY FS_Interval
  <2> QED BY <2>1, FS_Subset, FS_CardinalityType
<1>2. ASSUME NEW i \in D PROVE i < Cardinality(D)
  <2>1. IsFiniteSet(0 .. i) /\ Cardinality(0 .. i) = i + 1
    BY FS_Interval
  <2>2. Cardinality(0 .. i) <= Cardinality(D)
    BY <1>1, FS_Subset
  <2> QED BY <1>1, <2>1, <2>2
<1>3. D \subseteq 0 .. Cardinality(D) - 1
  BY <1>1, <1>2
<1>4. /\ IsFiniteSet(0 .. Cardinality(D) - 1)
      /\ Cardinality(0 .. Cardinality(D) - 1) = Cardinality(D)
  BY <1>1, FirstNaturals
<1> QED BY <1>1, <1>3, <1>4, FS_Subset

-----------------------------------------------------------------------------
(* The graph that GraphOf builds.                                          *)

(* loadEdges' ORDER BY from_node, id: dbid enumerates the edges, each once,*)
(* in that order.                                                          *)
LEMMA EdgeOrderFacts ==
  ASSUME NEW es, DenseIds(DOMAIN es), \A i \in DOMAIN es : es[i].from \in Nat
  PROVE  LET dbid == Table(EdgeOrder(es))
             indices == 0 .. Cardinality(DOMAIN es) - 1
         IN  /\ DOMAIN dbid = indices
             /\ \A k \in indices : dbid[k] \in DOMAIN es
             /\ \A i \in DOMAIN es : \E k \in indices : dbid[k] = i
             /\ \A k, l \in indices : k < l => Before(es, dbid[k], dbid[l])
             /\ \A k, l \in indices : dbid[k] = dbid[l] => k = l
<1> DEFINE D == DOMAIN es
           N == Cardinality(D)
           R == {p \in D \X D : Before(es, p[1], p[2])}
           rank == RankIn(D, R)
           order == EdgeOrder(es)
           dbid == Table(order)
<1>a. IsFiniteSet(D) /\ D = 0 .. N - 1 /\ N \in Nat
  BY FS_CardinalityType DEF DenseIds
<1>b. D \subseteq Nat
  BY <1>a
<1>1. \A i, j \in D : <<i, j>> \in R <=> Before(es, i, j)
  OBVIOUS
<1>2. /\ \A i \in D : <<i, i>> \notin R
      /\ \A i, j, k \in D : <<i, j>> \in R /\ <<j, k>> \in R => <<i, k>> \in R
      /\ \A i, j \in D : i # j => <<i, j>> \in R \/ <<j, i>> \in R
  <2> HIDE DEF R, D
  <2> USE <1>b, <1>1 DEF Before
  <2>1. \A i \in D : es[i].from \in Nat /\ i \in Nat
    BY DEF D
  <2> QED BY <2>1
<1> HIDE DEF R
<1>3. /\ \A i \in D : rank[i] \in 0 .. N - 1
      /\ \A i, j \in D : <<i, j>> \in R <=> rank[i] < rank[j]
      /\ \A i, j \in D : rank[i] = rank[j] => i = j
      /\ \A k \in 0 .. N - 1 : \E i \in D : rank[i] = k
  BY <1>a, <1>2, Ranking
<1>4. \A i \in D : rank[i] = Cardinality({j \in D : Before(es, j, i)})
  <2> TAKE i \in D
  <2>1. {j \in D : <<j, i>> \in R} = {j \in D : Before(es, j, i)}
    BY <1>1
  <2> QED BY <2>1 DEF RankIn
<1> HIDE DEF rank
<1>5. order = [k \in 1 .. N |->
                 CHOOSE i \in D : Cardinality({j \in D : Before(es, j, i)}) = k - 1]
  BY DEF EdgeOrder
<1>6. \A k \in 1 .. N : order[k] \in D /\ rank[order[k]] = k - 1
  <2> TAKE k \in 1 .. N
  <2>1. k - 1 \in 0 .. N - 1
    BY <1>a
  <2>2. \E i \in D : Cardinality({j \in D : Before(es, j, i)}) = k - 1
    <3>1. PICK i \in D : rank[i] = k - 1
      BY <1>3, <2>1
    <3>2. Cardinality({j \in D : Before(es, j, i)}) = k - 1
      BY <1>4, <3>1
    <3> QED BY <3>2
  <2>3. order[k] \in D /\ Cardinality({j \in D : Before(es, j, order[k])}) = k - 1
    BY <1>5, <2>2
  <2> QED BY <1>4, <2>3
<1>7. Len(order) = N
  BY <1>a, <1>5, <1>6
<1> HIDE DEF order
<1>8. dbid = [k \in 0 .. N - 1 |-> order[k + 1]]
  BY <1>7 DEF Table
<1>9. \A k \in 0 .. N - 1 : dbid[k] \in D /\ rank[dbid[k]] = k
  <2> TAKE k \in 0 .. N - 1
  <2>1. k + 1 \in 1 .. N /\ (k + 1) - 1 = k
    BY <1>a
  <2> QED BY <1>6, <1>8, <2>1
<1>10. DOMAIN dbid = 0 .. N - 1
  BY <1>8
<1> HIDE DEF dbid
<1>11. \A i \in D : \E k \in 0 .. N - 1 : dbid[k] = i
  BY <1>3, <1>9
<1>12. \A k, l \in 0 .. N - 1 : k < l => Before(es, dbid[k], dbid[l])
  <2> TAKE k, l \in 0 .. N - 1
  <2>1. k < l => <<dbid[k], dbid[l]>> \in R
    BY <1>3, <1>9
  <2> QED BY <1>1, <1>9, <2>1
<1>13. \A k, l \in 0 .. N - 1 : dbid[k] = dbid[l] => k = l
  BY <1>9
<1> QED BY <1>9, <1>10, <1>11, <1>12, <1>13 DEF dbid, order

\* What the search and the translation of ids need of a loaded graph, and the
\* types of its rows; GraphWellFormed is part of it.
GraphOK(g) ==
  /\ DOMAIN g = GraphFields
  /\ \A i \in DOMAIN g.rows :
       /\ i \in Nat
       /\ {g.rows[i].from, g.rows[i].to} \subseteq DOMAIN g.nodes
       /\ g.rows[i].lts \in 0 .. 4 /\ FactsType(g.rows[i].facts)
       /\ IndexOfDBID(g, g.dbid[i]) = i
       /\ \A n \in {g.rows[i].from, g.rows[i].to} :
            g.rows[i].lts <= g.nodeMaxLTS[n]
  /\ \A n \in DOMAIN g.nodes :
       OutEdges(g, n) = {i \in DOMAIN g.rows : g.rows[i].from = n}
  /\ \A d \in DOMAIN g.dbIndex :
       g.dbIndex[d] # -1 => /\ g.dbIndex[d] \in DOMAIN g.rows
                            /\ g.dbid[g.dbIndex[d]] = d

LEMMA MaxExists ==
  ASSUME NEW S \in SUBSET (0 .. 4), 0 \in S
  PROVE  Max(S) \in S /\ \A x \in S : Max(S) >= x
<1>1. \E m \in S : \A x \in S : m >= x
  <2>1. CASE 4 \in S  BY <2>1
  <2>2. CASE 4 \notin S /\ 3 \in S  BY <2>2
  <2>3. CASE S \subseteq 0 .. 2 /\ 2 \in S  BY <2>3
  <2>4. CASE S \subseteq 0 .. 1 /\ 1 \in S  BY <2>4
  <2>5. CASE S = {0}  BY <2>5
  <2> QED BY <2>1, <2>2, <2>3, <2>4, <2>5
<1> QED BY <1>1 DEF Max

\* The rows that leave a node.
RowsFrom(rows, n) == {i \in DOMAIN rows : rows[i].from = n}

(* Counting the rows of smaller nodes cuts the sorted rows into the slices *)
(* of their nodes.                                                         *)
LEMMA OffsetsCut ==
  ASSUME NEW M \in Nat, NEW N \in Nat, NEW rows, DOMAIN rows = 0 .. N - 1,
         \A i \in DOMAIN rows : rows[i].from \in 0 .. M - 1,
         \A i, j \in DOMAIN rows : i < j => rows[i].from <= rows[j].from,
         NEW ns, DOMAIN ns = 0 .. M - 1
  PROVE  \A n \in DOMAIN ns :
           buildOffsets(ns, rows)[n] .. buildOffsets(ns, rows)[n + 1] - 1
             = RowsFrom(rows, n)
<1> DEFINE offs == buildOffsets(ns, rows)
           Low(k) == {i \in DOMAIN rows : rows[i].from + 1 <= k}
<1>1. \A k \in 0 .. M : offs[k] = Cardinality(Low(k))
  <2>1. Cardinality(DOMAIN ns) = M
    BY FirstNaturals
  <2> QED BY <2>1 DEF buildOffsets
<1>2. ASSUME NEW k \in 0 .. M
      PROVE  offs[k] \in Nat /\ Low(k) = 0 .. offs[k] - 1
  <2>1. Low(k) \in SUBSET (0 .. N - 1)
    OBVIOUS
  <2>2. \A i \in Low(k) : 0 .. i \subseteq Low(k)
    <3> TAKE i \in Low(k)
    <3>1. ASSUME NEW j \in 0 .. i PROVE j \in Low(k)
      <4>1. j \in DOMAIN rows /\ i \in DOMAIN rows /\ (j < i \/ j = i)
        OBVIOUS
      <4>2. rows[j].from <= rows[i].from
        BY <4>1
      <4> QED BY <4>1, <4>2
    <3> QED BY <3>1
  <2> HIDE DEF Low, offs
  <2> QED BY <1>1, <2>1, <2>2, DownClosed
<1> TAKE n \in DOMAIN ns
<1>3. n \in 0 .. M /\ n + 1 \in 0 .. M
  OBVIOUS
<1>4. RowsFrom(rows, n) = Low(n + 1) \ Low(n)
  BY DEF RowsFrom
<1> HIDE DEF Low, offs
<1>5. Low(n + 1) \ Low(n) = offs[n] .. offs[n + 1] - 1
  BY SMTT(30), <1>2, <1>3
<1> QED BY <1>4, <1>5 DEF offs

(* graph.Load's checks are enough: whatever nodes and edges its queries    *)
(* returned, a graph it accepts is well formed, even when they are not of  *)
(* one network.                                                            *)
LEMMA GraphBuilt ==
  ASSUME NEW ns, NEW es, DenseIds(DOMAIN ns), DenseIds(DOMAIN es), DOMAIN es # {},
         EndsInRange(ns, es),
         \A i \in DOMAIN es : es[i].lts \in 0 .. 4 /\ FactsType(es[i].facts)
  PROVE  LET g == GraphOf(ns, es)
         IN  /\ GraphOK(g)
             /\ \A k \in DOMAIN g.rows :
                  g.dbid[k] \in DOMAIN es /\ g.rows[k] = es[g.dbid[k]]
             /\ \A i \in DOMAIN es : \E k \in DOMAIN g.rows : g.dbid[k] = i
<1> DEFINE g == GraphOf(ns, es)
           M == Cardinality(DOMAIN ns)
           N == Cardinality(DOMAIN es)
           dbid == Table(EdgeOrder(es))
           rows == [i \in DOMAIN dbid |-> es[dbid[i]]]
           ends(i) == {rows[i].from, rows[i].to}
<1>1. M \in Nat /\ DOMAIN ns = 0 .. M - 1 /\ N \in Nat /\ DOMAIN es = 0 .. N - 1
  BY FS_CardinalityType DEF DenseIds
<1>2. /\ g.nodes = ns /\ g.rows = rows /\ g.dbid = dbid
      /\ g.offs = buildOffsets(ns, rows) /\ g.dbIndex = buildDBIndex(dbid)
      /\ g.nodeMaxLTS = ComputeNodeMaxLTS(ns, rows)
      /\ DOMAIN g = GraphFields
  BY DEF GraphOf, GraphFields
<1> HIDE DEF g
<1>3. \A i \in DOMAIN es :
        /\ es[i].from \in 0 .. M - 1 /\ es[i].to \in 0 .. M - 1
        /\ es[i].from \in Nat
  BY <1>1 DEF EndsInRange
<1>4. /\ DOMAIN dbid = 0 .. N - 1
      /\ \A k \in 0 .. N - 1 : dbid[k] \in 0 .. N - 1
      /\ \A i \in DOMAIN es : \E k \in 0 .. N - 1 : dbid[k] = i
      /\ \A k, l \in 0 .. N - 1 : k < l => Before(es, dbid[k], dbid[l])
      /\ \A k, l \in 0 .. N - 1 : dbid[k] = dbid[l] => k = l
  BY <1>1, <1>3, EdgeOrderFacts
<1> HIDE DEF dbid, M, N
<1>5. /\ DOMAIN rows = 0 .. N - 1
      /\ \A k \in 0 .. N - 1 : rows[k] = es[dbid[k]] /\ k \in Nat
  BY <1>1, <1>4
<1>6. \A k \in DOMAIN rows :
        /\ rows[k].from \in 0 .. M - 1 /\ rows[k].to \in 0 .. M - 1
        /\ rows[k].lts \in 0 .. 4 /\ FactsType(rows[k].facts)
  BY <1>1, <1>3, <1>4, <1>5
<1>7. \A i, j \in DOMAIN rows : i < j => rows[i].from <= rows[j].from
  <2> SUFFICES ASSUME NEW i \in 0 .. N - 1, NEW j \in 0 .. N - 1, i < j
               PROVE  es[dbid[i]].from <= es[dbid[j]].from
    BY <1>5
  <2>1. Before(es, dbid[i], dbid[j])
    BY <1>4
  <2>2. es[dbid[i]].from \in Nat /\ es[dbid[j]].from \in Nat
    BY <1>1, <1>3, <1>4
  <2> QED BY <2>1, <2>2 DEF Before
<1> HIDE DEF rows
<1>8. \A n \in DOMAIN ns : OutEdges(g, n) = {i \in DOMAIN rows : rows[i].from = n}
  <2>1. \A i \in DOMAIN rows : rows[i].from \in 0 .. M - 1
    BY <1>6
  <2>2. M \in Nat /\ N \in Nat /\ DOMAIN ns = 0 .. M - 1 /\ DOMAIN rows = 0 .. N - 1
    BY <1>1, <1>5
  <2> DEFINE offs == buildOffsets(ns, rows)
  <2>3. \A n \in DOMAIN ns :
          offs[n] .. offs[n + 1] - 1 = RowsFrom(rows, n)
    BY <1>7, <2>1, <2>2, OffsetsCut
  <2> HIDE DEF offs
  <2>4. g.offs = offs
    BY <1>2 DEF offs
  <2> QED BY <2>3, <2>4 DEF OutEdges, RowsFrom
<1>9. /\ DOMAIN g.dbIndex = 0 .. N - 1
      /\ \A d \in 0 .. N - 1 :
           /\ g.dbIndex[d] = CHOOSE i \in DOMAIN dbid : dbid[i] = d
           /\ g.dbIndex[d] \in 0 .. N - 1 /\ dbid[g.dbIndex[d]] = d
  <2>1. Range(dbid) = 0 .. N - 1
    <3>1. Range(dbid) = {dbid[k] : k \in 0 .. N - 1}
      BY <1>4 DEF Range
    <3>2. \A i \in 0 .. N - 1 : \E k \in 0 .. N - 1 : dbid[k] = i
      BY <1>1, <1>4
    <3> QED BY <1>4, <3>1, <3>2
  <2>2. N # 0
    BY <1>1
  <2>3. Max(0 .. N - 1) = N - 1
    <3>1. N - 1 \in 0 .. N - 1 /\ \A y \in 0 .. N - 1 : N - 1 >= y
      BY <1>1, <2>2
    <3>2. /\ Max(0 .. N - 1) \in 0 .. N - 1
          /\ \A y \in 0 .. N - 1 : Max(0 .. N - 1) >= y
      BY <3>1 DEF Max
    <3> QED BY <1>1, <3>1, <3>2
  <2>4. g.dbIndex = [d \in 0 .. N - 1 |->
                       IF d \in 0 .. N - 1
                       THEN CHOOSE i \in DOMAIN dbid : dbid[i] = d ELSE -1]
    BY <1>2, <2>1, <2>3 DEF buildDBIndex
  <2>5. \A d \in 0 .. N - 1 : \E i \in DOMAIN dbid : dbid[i] = d
    BY <1>1, <1>4
  <2> QED BY SMTT(30), <1>4, <2>4, <2>5
<1>10. \A k \in DOMAIN rows : IndexOfDBID(g, dbid[k]) = k
  <2> TAKE k \in DOMAIN rows
  <2>1. k \in 0 .. N - 1 /\ dbid[k] \in 0 .. N - 1
    BY <1>4, <1>5
  <2>2. g.dbIndex[dbid[k]] = k
    BY <1>4, <1>9, <2>1
  <2> QED BY <1>9, <2>1, <2>2 DEF IndexOfDBID
<1>11. \A k \in DOMAIN rows : \A n \in ends(k) : rows[k].lts <= g.nodeMaxLTS[n]
  <2> TAKE k \in DOMAIN rows
  <2> TAKE n \in ends(k)
  <2> DEFINE S == {0} \union {rows[i].lts : i \in {j \in DOMAIN rows :
                                                 n \in {rows[j].from, rows[j].to}}}
  <2>1. n \in DOMAIN ns
    BY <1>1, <1>6
  <2>2. g.nodeMaxLTS[n] = Max(S)
    BY <1>2, <2>1 DEF ComputeNodeMaxLTS
  <2>3. S \in SUBSET (0 .. 4) /\ 0 \in S
    BY <1>6
  <2>4. rows[k].lts \in S
    OBVIOUS
  <2> HIDE DEF S
  <2>5. Max(S) \in S /\ \A x \in S : Max(S) >= x
    BY <2>3, MaxExists
  <2> QED BY <2>2, <2>3, <2>4, <2>5
<1>12. GraphOK(g)
  <2>1. \A i \in DOMAIN g.rows :
          /\ i \in Nat
          /\ {g.rows[i].from, g.rows[i].to} \subseteq DOMAIN g.nodes
          /\ g.rows[i].lts \in 0 .. 4 /\ FactsType(g.rows[i].facts)
    BY <1>1, <1>2, <1>5, <1>6
  <2>2. \A i \in DOMAIN g.rows :
          /\ IndexOfDBID(g, g.dbid[i]) = i
          /\ \A n \in {g.rows[i].from, g.rows[i].to} :
               g.rows[i].lts <= g.nodeMaxLTS[n]
    BY <1>2, <1>10, <1>11
  <2>3. \A n \in DOMAIN g.nodes :
          OutEdges(g, n) = {i \in DOMAIN g.rows : g.rows[i].from = n}
    BY <1>2, <1>8
  <2>4. \A d \in DOMAIN g.dbIndex :
          /\ g.dbIndex[d] \in DOMAIN g.rows
          /\ g.dbid[g.dbIndex[d]] = d
    BY <1>2, <1>5, <1>9
  <2> QED BY <1>2, <2>1, <2>2, <2>3, <2>4 DEF GraphOK
<1> QED BY <1>1, <1>2, <1>4, <1>5, <1>12 DEF g

-----------------------------------------------------------------------------
(***************************************************************************)
(* The second invariant: what the tables, the loaded graphs, the overlay   *)
(* and the plan under way have to do with each other.  A graph is well     *)
(* formed whatever networks its queries saw; it names the roads of the     *)
(* tables as long as those are of the one network it was read from.        *)
(***************************************************************************)
TablesOK ==
  /\ DenseIds(DOMAIN nodes) /\ DenseIds(DOMAIN edges)
  /\ \A i \in DOMAIN edges : edges[i].lts \in 0 .. 4 /\ FactsType(edges[i].facts)
  /\ crashEdge \subseteq crashes \X DOMAIN edges
  /\ \A c, d \in crashes : c.sid = d.sid => c = d

\* Every row of a graph is the road its id names, and every road has a row.
NamesRoads(g) ==
  /\ \A k \in DOMAIN g.rows :
       /\ g.dbid[k] \in DOMAIN edges
       /\ g.rows[k].shape = edges[g.dbid[k]].shape
       /\ g.rows[k].from = edges[g.dbid[k]].from
  /\ \A i \in DOMAIN edges : \E k \in DOMAIN g.rows : g.dbid[k] = i

HasGraph(p) == proc[p].at \in {"loaded", "serving"}

ProcOK(p) ==
  /\ proc[p].at = "fetched" => proc[p].held[1] \in Feeds
  /\ proc[p].at = "noded" => DenseIds(DOMAIN proc[p].held)
  /\ HasGraph(p) => GraphOK(proc[p].graph) /\ proc[p].gens # {}
  /\ (HasGraph(p) /\ proc[p].gens = {gen}) => NamesRoads(proc[p].graph)
  /\ ~HasGraph(p) => proc[p].graph = NoGraph

OverlayOK ==
  /\ overlay.scores \subseteq DOMAIN Graph.rows
  /\ ~Serving => overlay.scores = {}
  /\ (Serving /\ OneNetwork(overlay.gens)) =>
       overlay.scores = {i \in DOMAIN Graph.rows : Near(HazardPlace, Graph.rows[i].shape)}

PlanFields == {"at", "node", "place", "edge", "gens", "drawn"}

PlanOK ==
  /\ DOMAIN plan = PlanFields /\ plan.at \in {"none", "snapped", "routed", "drawn"}
  /\ plan.gens \subseteq 0 .. gen
  /\ plan.at # "none" => Serving /\ proc[Api].gens \subseteq plan.gens
  /\ plan.at \in {"snapped", "routed"} => plan.node \in DOMAIN Graph.nodes
  /\ (plan.at \in {"snapped", "routed"} /\ plan.gens = {gen}) =>
       plan.node \in DOMAIN nodes /\ nodes[plan.node].osm = plan.place
  /\ plan.at = "routed" => /\ plan.edge \in DOMAIN Graph.rows
                           /\ Graph.rows[plan.edge].from = plan.node
  /\ (plan.at = "drawn" /\ OneNetwork(plan.gens)) =>
       plan.drawn = Graph.rows[plan.edge].shape /\ plan.drawn[1] = plan.place

\* A network is replaced once per command, and only by a command.
Built == {o \in Operators : proc[o].at = "built"}

CountOK ==
  /\ IsFiniteSet(Built) /\ commands \in Nat
  /\ gen + Cardinality(Built) <= commands /\ commands <= MaxCommands

LoadedInv ==
  /\ NetworkInv /\ TablesOK
  /\ \A p \in Processes : ProcOK(p)
  /\ OverlayOK /\ PlanOK /\ CountOK

-----------------------------------------------------------------------------
(* Every step keeps the roads or replaces the network.                     *)

\* The steps of an operator that write nothing into the tables.
Quiet(o) ==
  \/ IngestOsm(o) \/ IngestCrashes(o) \/ IngestElevation(o) \/ ScoreEdges(o)
  \/ SampleNodes(o) \/ Load(o) \/ Abort(o)

LEMMA QuietRests ==
  ASSUME NEW o, Quiet(o)
  PROVE  UNCHANGED <<tables, history, server>>
BY DEF Quiet, IngestOsm, IngestCrashes, IngestElevation, ScoreEdges, Command,
       SampleNodes, Load, CountNodes, ReadNodes, ReadEdges, Loading, Abort

LEMMA ServerRests ==
  ASSUME Server
  PROVE  UNCHANGED <<tables, history>>
BY DEF Server, StartServer, Load, CountNodes, ReadNodes, ReadEdges, Loading,
       RefreshHazards, StopServer, SnapPoint, RoutePlan, DrawPlan

LEMMA RestingKeepsRoads ==
  ASSUME NetworkInv, UNCHANGED <<tables, history>>
  PROVE  SameRoads
<1>1. gen' = gen /\ nodes' = nodes /\ edges' = edges
  BY DEF tables, history
<1> QED  BY <1>1 DEF NetworkInv, Rows, SameRoads

LEMMA WritesKeepRoads ==
  ASSUME NetworkInv, NEW o \in Operators,
         StoreCrashes(o) \/ MatchToEdges(o) \/ WriteHeights(o) \/ ApplyGrades(o)
           \/ ZeroGrades(o) \/ PersistLTS(o)
  PROVE  SameRoads
BY StoreCrashesInv, MatchToEdgesInv, WriteHeightsInv, ApplyGradesInv, ZeroGradesInv,
   PersistLTSInv

LEMMA RoadsKept ==
  ASSUME NetworkInv, [Next]_vars
  PROVE  SameRoads \/ \E o \in Operators : LoadTables(o)
<1>1. CASE Server  BY <1>1, ServerRests, RestingKeepsRoads
<1>2. ASSUME NEW o \in Operators, CLI(o)
      PROVE  SameRoads \/ LoadTables(o)
  <2>1. CASE Quiet(o)  BY <2>1, QuietRests, RestingKeepsRoads
  <2> QED  BY <1>2, <2>1, WritesKeepRoads DEF CLI, Quiet
<1>3. CASE UNCHANGED vars  BY <1>3, RestingKeepsRoads DEF vars
<1> QED  BY <1>1, <1>2, <1>3 DEF Next

-----------------------------------------------------------------------------
(* The tables.                                                             *)

LEMMA FreshTables ==
  ASSUME NEW x \in Extracts
  PROVE  /\ DenseIds(DOMAIN Network[x].nodes) /\ DenseIds(DOMAIN Network[x].edges)
         /\ \A i \in DOMAIN Network[x].edges :
              Network[x].edges[i].lts \in 0 .. 4 /\ FactsType(Network[x].edges[i].facts)
<1>1. \A i \in DOMAIN Network[x].edges :
        Network[x].edges[i].lts = 0 /\ FactsType(Network[x].edges[i].facts)
  BY NetworkBuilt
<1> QED  BY <1>1, NetworkBuilt

\* A statement that keeps the roads: what it writes is in range.
LEMMA TablesKept ==
  ASSUME TablesOK, SameRoads,
         \A i \in DOMAIN edges : edges'[i].lts \in 0 .. 4,
         crashEdge' \subseteq crashes' \X DOMAIN edges,
         \A c, d \in crashes' : c.sid = d.sid => c = d
  PROVE  TablesOK'
BY DEF TablesOK, SameRoads

\* ON CONFLICT DO NOTHING: of the records with one source id the first is stored.
LEMMA StoredOnce ==
  ASSUME NEW f, DOMAIN f \subseteq Nat
  PROVE  \A c, d \in Stored(f) : c.sid = d.sid => c = d
<1> SUFFICES ASSUME NEW c \in Stored(f), NEW d \in Stored(f), c.sid = d.sid
             PROVE  c = d
  OBVIOUS
<1>1. PICK i \in Usable(f) : c = f[i] /\ \A k \in Usable(f) : k < i => f[k].sid # f[i].sid
  BY DEF Stored
<1>2. PICK j \in Usable(f) : d = f[j] /\ \A k \in Usable(f) : k < j => f[k].sid # f[j].sid
  BY DEF Stored
<1>3. i \in Nat /\ j \in Nat  BY DEF Usable
<1>4. ~(i < j) /\ ~(j < i)  BY <1>1, <1>2
<1> QED  BY <1>1, <1>2, <1>3, <1>4

LEMMA TablesStep ==
  ASSUME NetworkInv, TablesOK, \A p \in Processes : ProcOK(p), [Next]_vars
  PROVE  TablesOK'
<1>1. CASE UNCHANGED <<tables, history>>
  <2>1. /\ nodes' = nodes /\ edges' = edges /\ crashes' = crashes
        /\ crashEdge' = crashEdge
    BY <1>1 DEF tables
  <2> QED  BY <2>1 DEF TablesOK
<1>2. ASSUME NEW o \in Operators, CLI(o) PROVE TablesOK'
  <2>1. CASE Quiet(o)  BY <1>1, <2>1, QuietRests
  <2>2. CASE LoadTables(o)
    <3>1. proc[o].held[1] \in Extracts
      BY <2>2 DEF LoadTables, NetworkInv, Held, Processes
    <3>2. PICK x \in Extracts :
            nodes' = Network[x].nodes /\ edges' = Network[x].edges
      BY <2>2, <3>1 DEF LoadTables
    <3>3. crashEdge' = {} /\ crashes' = crashes
      BY <2>2 DEF LoadTables
    <3> QED  BY <3>2, <3>3, FreshTables DEF TablesOK
  <2>3. CASE StoreCrashes(o)
    <3>1. SameRoads  BY <2>3, StoreCrashesInv
    <3>2. /\ crashEdge' = {} /\ edges' = edges /\ proc[o].held[1] \in Feeds
          /\ crashes' = Stored(proc[o].held[1])
      BY <2>3 DEF StoreCrashes, ProcOK, Processes
    <3>3. \A c, d \in crashes' : c.sid = d.sid => c = d
      <4>1. proc[o].held[1] \in Seq(Range(proc[o].held[1]))
        BY <3>2, FeedAssumption
      <4>2. DOMAIN proc[o].held[1] \subseteq Nat
        BY <4>1
      <4> QED  BY <3>2, <4>2, StoredOnce
    <3>4. \A i \in DOMAIN edges : edges'[i].lts \in 0 .. 4
      BY <3>2 DEF TablesOK
    <3> QED  BY <3>1, <3>2, <3>3, <3>4, TablesKept
  <2>4. CASE MatchToEdges(o)
    <3>1. SameRoads  BY <2>4, MatchToEdgesInv
    <3>2. /\ crashes' = crashes
          /\ crashEdge' = {m \in crashes \X DOMAIN edges : m[1] \in Matches(edges[m[2]])}
      BY <2>4 DEF MatchToEdges
    <3>3. ASSUME NEW i \in DOMAIN edges PROVE edges'[i].lts = edges[i].lts
      <4>1. edges'[i] = [edges[i] EXCEPT !.score = Matches(edges[i])]
        BY <2>4 DEF MatchToEdges, Rescored
      <4>2. DOMAIN edges[i] = EdgeColumns  BY DEF NetworkInv, Rows
      <4> QED  BY <4>1, <4>2 DEF EdgeColumns
    <3> QED  BY <3>1, <3>2, <3>3, TablesKept DEF TablesOK
  <2>5. CASE WriteHeights(o)
    <3>1. SameRoads  BY <2>5, WriteHeightsInv
    <3>2. edges' = edges /\ crashes' = crashes /\ crashEdge' = crashEdge
      BY <2>5 DEF WriteHeights
    <3> QED  BY <3>1, <3>2, TablesKept DEF TablesOK
  <2>6. CASE ApplyGrades(o) \/ ZeroGrades(o)
    <3>1. SameRoads  BY <2>6, ApplyGradesInv, ZeroGradesInv
    <3>2. crashes' = crashes /\ crashEdge' = crashEdge
      BY <2>6 DEF ApplyGrades, ZeroGrades
    <3>3. ASSUME NEW i \in DOMAIN edges PROVE edges'[i].lts = edges[i].lts
      <4>1. \/ edges'[i] = edges[i]
            \/ edges'[i] = [edges[i] EXCEPT !.grade = GradeOf(edges[i])]
            \/ edges'[i] = [edges[i] EXCEPT !.grade = Flat]
        BY <2>6 DEF ApplyGrades, ZeroGrades
      <4>2. DOMAIN edges[i] = EdgeColumns  BY DEF NetworkInv, Rows
      <4> QED  BY <4>1, <4>2 DEF EdgeColumns
    <3> QED  BY <3>1, <3>2, <3>3, TablesKept DEF TablesOK
  <2>7. CASE PersistLTS(o)
    <3> DEFINE old == proc[o].graph
               g == ScoreGraph(old)
    <3>1. SameRoads  BY <2>7, PersistLTSInv
    <3>2. /\ crashes' = crashes /\ crashEdge' = crashEdge /\ proc[o].at = "loaded"
          /\ edges' = [i \in DOMAIN edges |->
                         IF IndexOfDBID(g, i) # -1
                         THEN [edges[i] EXCEPT !.lts = g.rows[IndexOfDBID(g, i)].lts]
                         ELSE edges[i]]
      BY <2>7 DEF PersistLTS
    <3>3. GraphOK(old)  BY <3>2 DEF ProcOK, HasGraph, Processes
    <3>4. /\ g.dbIndex = old.dbIndex
          /\ g.rows = [k \in DOMAIN old.rows |->
                         [old.rows[k] EXCEPT !.lts = ClassifyLTS(old.rows[k].facts)]]
      BY <3>3 DEF GraphOK, ScoreGraph, GraphFields
    <3> HIDE DEF g
    <3>5. ASSUME NEW i \in DOMAIN edges PROVE edges'[i].lts \in 0 .. 4
      <4>1. CASE IndexOfDBID(g, i) = -1
        BY <3>2, <4>1 DEF TablesOK
      <4>2. CASE IndexOfDBID(g, i) # -1
        <5> DEFINE k == IndexOfDBID(g, i)
        <5>1. k \in DOMAIN old.rows
          BY <3>3, <3>4, <4>2 DEF GraphOK, IndexOfDBID
        <5>2. edges'[i] = [edges[i] EXCEPT !.lts = g.rows[k].lts]
          BY <3>2, <4>2
        <5> HIDE DEF k
        <5>3. edges'[i].lts = g.rows[k].lts
          BY <5>2 DEF NetworkInv, Rows, EdgeColumns
        <5>4. g.rows[k] = [old.rows[k] EXCEPT !.lts = ClassifyLTS(old.rows[k].facts)]
          BY <3>4, <5>1
        <5>5. FactsType(old.rows[k].facts)  BY <3>3, <5>1 DEF GraphOK
        <5>6. ClassifyLTS(old.rows[k].facts) \in 1 .. 4
          BY <5>5, ClassificationTotal
        <5>7. old.rows[k].lts \in 0 .. 4  BY <3>3, <5>1 DEF GraphOK
        <5>8. g.rows[k].lts \in 0 .. 4
          BY <5>4, <5>6, <5>7
        <5> QED  BY <5>3, <5>8
      <4> QED  BY <4>1, <4>2
    <3> QED  BY <3>1, <3>2, <3>5, TablesKept DEF TablesOK
  <2> QED  BY <1>2, <2>1, <2>2, <2>3, <2>4, <2>5, <2>6, <2>7 DEF CLI, Quiet
<1>3. CASE Server  BY <1>1, <1>3, ServerRests
<1>4. CASE UNCHANGED vars  BY <1>1, <1>4 DEF vars
<1> QED  BY <1>2, <1>3, <1>4 DEF Next

-----------------------------------------------------------------------------
(* What the processes hold.                                                *)

LEMMA ProcKept ==
  ASSUME SameRoads, NEW p, ProcOK(p), proc'[p] = proc[p]
  PROVE  ProcOK(p)'
<1>1. NamesRoads(proc[p].graph) => NamesRoads(proc[p].graph)'
  BY DEF NamesRoads, SameRoads
<1>2. GraphOK(proc[p].graph) => GraphOK(proc[p].graph)'
  OBVIOUS
<1>3. gen' = gen  BY DEF SameRoads
<1> QED  BY <1>1, <1>2, <1>3 DEF ProcOK, HasGraph

\* Once the network is replaced, no graph claims to name its roads.
LEMMA ProcOutdated ==
  ASSUME Generations, gen' = gen + 1, NEW p \in Processes, ProcOK(p), proc'[p] = proc[p]
  PROVE  ProcOK(p)'
<1>1. proc'[p].gens # {gen'}  BY DEF Generations
<1>2. GraphOK(proc[p].graph) => GraphOK(proc[p].graph)'
  OBVIOUS
<1> QED  BY <1>1, <1>2 DEF ProcOK, HasGraph

LEMMA ProcStarted ==
  ASSUME NEW p, proc'[p].at \notin {"fetched", "noded", "loaded", "serving"},
         proc'[p].graph = NoGraph
  PROVE  ProcOK(p)'
BY DEF ProcOK, HasGraph

\* A step of one process leaves what the others hold.
LEMMA OthersKept ==
  ASSUME NetworkInv, \A q \in Processes : ProcOK(q), NEW p \in Processes, NEW new,
         proc' = [proc EXCEPT ![p] = new], SameRoads \/ gen' = gen + 1,
         proc'[p] = new => ProcOK(p)'
  PROVE  \A q \in Processes : ProcOK(q)'
<1> SUFFICES ASSUME NEW q \in Processes PROVE ProcOK(q)'
  OBVIOUS
<1>1. CASE q = p  BY <1>1 DEF NetworkInv, Shapes
<1>2. CASE q # p
  <2>1. proc'[q] = proc[q]  BY <1>2 DEF NetworkInv, Shapes
  <2> QED  BY <2>1, ProcKept, ProcOutdated DEF NetworkInv
<1> QED  BY <1>1, <1>2

LEMMA AtFields ==
  ASSUME NEW step
  PROVE  At(step).at = step /\ At(step).graph = NoGraph /\ DOMAIN At(step) = ProcFields
BY DEF At, Idle, ProcFields

LEMMA StepProcs ==
  ASSUME NetworkInv, \A q \in Processes : ProcOK(q), NEW p \in Processes,
         SameRoads \/ gen' = gen + 1,
         NEW step, step \notin {"fetched", "noded", "loaded", "serving"},
         proc' = [proc EXCEPT ![p] = At(step)]
  PROVE  \A q \in Processes : ProcOK(q)'
<1>1. At(step).at = step /\ At(step).graph = NoGraph
  BY AtFields
<1>2. proc'[p] = At(step) => ProcOK(p)'
  BY <1>1, ProcStarted
<1> QED  BY <1>2, OthersKept

LEMMA GraphRead ==
  ASSUME TablesOK, NEW p, ProcOK(p), ReadEdges(p), edges' = edges,
         proc'[p] = [At("loaded") EXCEPT !.graph = GraphOf(proc[p].held, edges),
                                         !.gens = proc[p].gens \union {gen}],
         DOMAIN edges # {} /\ EndsInRange(proc[p].held, edges)
  PROVE  ProcOK(p)'
<1> DEFINE g == GraphOf(proc[p].held, edges)
<1>1. /\ proc'[p].at = "loaded" /\ proc'[p].graph = g
      /\ proc'[p].gens = proc[p].gens \union {gen}
  BY AtFields DEF ProcFields
<1>2. DenseIds(DOMAIN proc[p].held)
  BY DEF ReadEdges, Loading, ProcOK
<1>3. /\ GraphOK(g)
      /\ \A k \in DOMAIN g.rows :
           g.dbid[k] \in DOMAIN edges /\ g.rows[k] = edges[g.dbid[k]]
      /\ \A i \in DOMAIN edges : \E k \in DOMAIN g.rows : g.dbid[k] = i
  BY <1>2, GraphBuilt DEF TablesOK
<1> HIDE DEF g
<1>4. NamesRoads(g)  BY <1>3 DEF NamesRoads
<1>5. NamesRoads(proc[p].graph)'
  BY <1>1, <1>4 DEF NamesRoads
<1>6. GraphOK(proc[p].graph)'
  <2>1. GraphOK(proc'[p].graph)  BY <1>1, <1>3
  <2> QED  BY <2>1
<1> QED  BY <1>1, <1>5, <1>6 DEF ProcOK, HasGraph

LEMMA LoadProcs ==
  ASSUME NetworkInv, TablesOK, \A q \in Processes : ProcOK(q), NEW p \in Processes,
         Load(p), SameRoads
  PROVE  \A q \in Processes : ProcOK(q)'
<1>1. nodes' = nodes /\ edges' = edges
  BY DEF Load, CountNodes, ReadNodes, ReadEdges, Loading, tables
<1>2. CASE CountNodes(p)
  <2> DEFINE new == [At("counted") EXCEPT !.count = Cardinality(DOMAIN nodes)]
  <2>1. proc' = [proc EXCEPT ![p] = new]  BY <1>2 DEF CountNodes, Move
  <2>2. new.at = "counted" /\ new.graph = NoGraph  BY AtFields DEF ProcFields
  <2> HIDE DEF new
  <2> QED  BY <2>1, <2>2, OthersKept, ProcStarted
<1>3. ASSUME proc' = [proc EXCEPT ![p] = Idle] PROVE \A q \in Processes : ProcOK(q)'
  BY <1>3, StepProcs, IdleStep
<1>4. CASE ReadNodes(p)
  <2> DEFINE new == [At("noded") EXCEPT !.held = [n \in DOMAIN nodes |-> nodes[n].osm],
                                        !.gens = {gen}]
  <2>1. proc' = [proc EXCEPT ![p] = new] \/ proc' = [proc EXCEPT ![p] = Idle]
    BY <1>4 DEF ReadNodes, Move
  <2>2. new.at = "noded" /\ new.graph = NoGraph /\ DOMAIN new.held = DOMAIN nodes
    BY AtFields DEF ProcFields
  <2> HIDE DEF new
  <2>3. proc'[p] = new => ProcOK(p)'
    <3>1. DenseIds(DOMAIN nodes)  BY DEF TablesOK
    <3>2. DenseIds(DOMAIN new.held)  BY <2>2, <3>1
    <3>3. proc'[p] = new => DenseIds(DOMAIN proc[p].held)'
      BY <3>2 DEF DenseIds
    <3> QED  BY <2>2, <3>3 DEF ProcOK, HasGraph
  <2> QED  BY <1>3, <2>1, <2>3, OthersKept
<1>5. CASE ReadEdges(p)
  <2> DEFINE new == [At("loaded") EXCEPT !.graph = GraphOf(proc[p].held, edges),
                                         !.gens = proc[p].gens \union {gen}]
  <2>1. \/ /\ proc' = [proc EXCEPT ![p] = new]
           /\ DOMAIN edges # {} /\ EndsInRange(proc[p].held, edges)
        \/ proc' = [proc EXCEPT ![p] = Idle]
    BY <1>5 DEF ReadEdges, Move
  <2>2. CASE /\ proc' = [proc EXCEPT ![p] = new]
             /\ DOMAIN edges # {} /\ EndsInRange(proc[p].held, edges)
    <3>1. proc'[p] = new => ProcOK(p)'
      BY <1>1, <1>5, <2>2, GraphRead
    <3> HIDE DEF new
    <3> QED  BY <2>2, <3>1, OthersKept
  <2> QED  BY <1>3, <2>1, <2>2
<1> QED  BY <1>2, <1>4, <1>5 DEF Load

LEMMA CommandProcs ==
  ASSUME NetworkInv, TablesOK, \A q \in Processes : ProcOK(q), NEW o \in Operators,
         CLI(o)
  PROVE  \A q \in Processes : ProcOK(q)'
<1>1. o \in Processes  BY DEF Processes
<1>2. SameRoads \/ gen' = gen + 1
  <2>1. [Next]_vars  BY DEF Next
  <2>2. CASE \E u \in Operators : LoadTables(u)  BY <2>2 DEF LoadTables
  <2> QED  BY <2>1, <2>2, RoadsKept
<1>4. CASE \/ IngestElevation(o) \/ ScoreEdges(o) \/ Abort(o) \/ LoadTables(o)
           \/ StoreCrashes(o) \/ MatchToEdges(o) \/ WriteHeights(o) \/ ApplyGrades(o)
           \/ ZeroGrades(o) \/ PersistLTS(o)
  <2>1. \E step \in {"tiles", "load", "idle", "stored", "heights", "graded"} :
          proc' = [proc EXCEPT ![o] = At(step)]
    BY <1>4, IdleStep DEF IngestElevation, ScoreEdges, Command, Abort, LoadTables,
       StoreCrashes, MatchToEdges, WriteHeights, ApplyGrades, ZeroGrades, PersistLTS, Move
  <2> QED  BY <1>1, <1>2, <2>1, StepProcs
<1>5. CASE IngestOsm(o)
  <2>1. PICK x \in Extracts : proc' = [proc EXCEPT ![o] = [At("built") EXCEPT !.held = <<x>>]]
    BY <1>5 DEF IngestOsm, Command, Move
  <2> DEFINE new == [At("built") EXCEPT !.held = <<x>>]
  <2>2. new.at = "built" /\ new.graph = NoGraph  BY AtFields DEF ProcFields
  <2> HIDE DEF new
  <2> QED  BY <1>1, <1>2, <2>1, <2>2, OthersKept, ProcStarted DEF new
<1>6. CASE IngestCrashes(o)
  <2>1. PICK f \in Feeds :
          proc' = [proc EXCEPT ![o] = [At("fetched") EXCEPT !.held = <<f>>]]
    BY <1>6 DEF IngestCrashes, Command, Move
  <2> DEFINE new == [At("fetched") EXCEPT !.held = <<f>>]
  <2>2. new.at = "fetched" /\ new.graph = NoGraph /\ new.held = <<f>>
    BY AtFields DEF ProcFields
  <2>3. proc' = [proc EXCEPT ![o] = new]  BY <2>1
  <2> HIDE DEF new
  <2>4. proc'[o] = new => ProcOK(o)'
    BY <2>2 DEF ProcOK, HasGraph
  <2> QED  BY <1>1, <1>2, <2>3, <2>4, OthersKept
<1>7. CASE SampleNodes(o)
  <2> DEFINE heights == [n \in DOMAIN nodes |-> HeightAt[Where[nodes[n].osm]]]
             new == [At("sampled") EXCEPT !.held = heights, !.gens = {gen}]
  <2>1. proc' = [proc EXCEPT ![o] = new]  BY <1>7 DEF SampleNodes, Move
  <2>2. new.at = "sampled" /\ new.graph = NoGraph  BY AtFields DEF ProcFields
  <2> HIDE DEF new
  <2> QED  BY <1>1, <1>2, <2>1, <2>2, OthersKept, ProcStarted
<1>8. CASE Load(o)
  <2>1. SameRoads  BY <1>8, QuietRests, RestingKeepsRoads DEF Quiet
  <2> QED  BY <1>1, <1>8, <2>1, LoadProcs
<1> QED  BY <1>4, <1>5, <1>6, <1>7, <1>8 DEF CLI

LEMMA ServerProcs ==
  ASSUME NetworkInv, TablesOK, \A q \in Processes : ProcOK(q), Server
  PROVE  \A q \in Processes : ProcOK(q)'
<1>1. Api \in Processes  BY DEF Processes
<1>2. SameRoads  BY ServerRests, RestingKeepsRoads
<1>3. CASE StartServer \/ StopServer
  <2>1. \E step \in {"load", "idle"} : proc' = [proc EXCEPT ![Api] = At(step)]
    BY <1>3, IdleStep DEF StartServer, StopServer, Move
  <2> QED  BY <1>1, <1>2, <2>1, StepProcs
<1>4. CASE Load(Api)  BY <1>1, <1>2, <1>4, LoadProcs
<1>5. CASE RefreshHazards
  <2> DEFINE new == [proc[Api] EXCEPT !.at = "serving"]
  <2>1. proc' = [proc EXCEPT ![Api] = new] /\ HasGraph(Api)
    BY <1>5 DEF RefreshHazards, Move, HasGraph
  <2>2. /\ new.at = "serving" /\ new.graph = Graph /\ new.gens = proc[Api].gens
    BY <1>1 DEF NetworkInv, Shapes, ProcFields, Graph
  <2> HIDE DEF new
  <2>3. /\ GraphOK(Graph) /\ proc[Api].gens # {}
        /\ proc[Api].gens = {gen} => NamesRoads(Graph)
    BY <1>1, <2>1 DEF ProcOK, Graph
  <2>4. GraphOK(Graph) => (proc'[Api] = new => GraphOK(proc[Api].graph)')
    BY <2>2 DEF GraphOK, IndexOfDBID, OutEdges
  <2>5. NamesRoads(Graph) => (proc'[Api] = new => NamesRoads(proc[Api].graph)')
    BY <1>2, <2>2 DEF NamesRoads, SameRoads
  <2>6. proc'[Api] = new => ProcOK(Api)'
    BY <1>2, <2>2, <2>3, <2>4, <2>5 DEF ProcOK, HasGraph, SameRoads
  <2> QED  BY <1>1, <1>2, <2>1, <2>6, OthersKept
<1>6. CASE SnapPoint \/ RoutePlan \/ DrawPlan
  <2>1. proc' = proc  BY <1>6 DEF SnapPoint, RoutePlan, DrawPlan
  <2> QED  BY <1>2, <2>1, ProcKept
<1> QED  BY <1>3, <1>4, <1>5, <1>6 DEF Server

\* A load starts no command and replaces no network.
LEMMA LoadBuilds ==
  ASSUME NetworkInv, NEW p \in Processes, Load(p)
  PROVE  /\ commands' = commands /\ gen' = gen
         /\ \A o \in Operators : proc'[o].at = "built" => proc[o].at = "built"
<1>1. commands' = commands /\ gen' = gen
  BY DEF Load, CountNodes, ReadNodes, ReadEdges, Loading, counters, history
<1>2. \E new : new.at # "built" /\ proc' = [proc EXCEPT ![p] = new]
  <2>1. CASE CountNodes(p)
    <3>1. [At("counted") EXCEPT !.count = Cardinality(DOMAIN nodes)].at = "counted"
      BY AtFields DEF ProcFields
    <3> QED  BY <2>1, <3>1 DEF CountNodes, Move
  <2>2. CASE proc' = [proc EXCEPT ![p] = Idle]
    BY <2>2 DEF Idle
  <2>3. CASE ReadNodes(p)
    <3> DEFINE new == [At("noded") EXCEPT !.held = [n \in DOMAIN nodes |-> nodes[n].osm],
                                          !.gens = {gen}]
    <3>1. proc' = [proc EXCEPT ![p] = new] \/ proc' = [proc EXCEPT ![p] = Idle]
      BY <2>3 DEF ReadNodes, Move
    <3>2. new.at = "noded"  BY AtFields DEF ProcFields
    <3> HIDE DEF new
    <3> QED  BY <2>2, <3>1, <3>2
  <2>4. CASE ReadEdges(p)
    <3> DEFINE new == [At("loaded") EXCEPT !.graph = GraphOf(proc[p].held, edges),
                                           !.gens = proc[p].gens \union {gen}]
    <3>1. proc' = [proc EXCEPT ![p] = new] \/ proc' = [proc EXCEPT ![p] = Idle]
      BY <2>4 DEF ReadEdges, Move
    <3>2. new.at = "loaded"  BY AtFields DEF ProcFields
    <3> HIDE DEF new
    <3> QED  BY <2>2, <3>1, <3>2
  <2> QED  BY <2>1, <2>3, <2>4 DEF Load
<1>3. ASSUME NEW o \in Operators, proc'[o].at = "built" PROVE proc[o].at = "built"
  BY <1>2, <1>3 DEF NetworkInv, Shapes, Processes
<1> QED  BY <1>1, <1>3

-----------------------------------------------------------------------------
(* No more networks than commands.                                         *)

LEMMA CountKept ==
  ASSUME CountOK, Generations, gen' = gen, commands' \in {commands, commands + 1},
         commands' <= MaxCommands,
         \A o \in Operators : proc'[o].at = "built" => proc[o].at = "built"
  PROVE  CountOK'
<1> DEFINE B == Built  C == Built'
<1>1. C \subseteq B  BY DEF Built
<1>2. IsFiniteSet(B) /\ gen \in Nat /\ commands \in Nat
      /\ gen + Cardinality(B) <= commands
  BY DEF CountOK, Generations
<1> HIDE DEF B, C
<1>3. IsFiniteSet(C) /\ Cardinality(C) <= Cardinality(B)
  BY <1>1, <1>2, FS_Subset
<1>4. Cardinality(B) \in Nat /\ Cardinality(C) \in Nat
  BY <1>2, <1>3, FS_CardinalityType
<1>5. gen' + Cardinality(C) <= commands'
  BY <1>2, <1>3, <1>4
<1> QED  BY <1>2, <1>3, <1>5 DEF CountOK, C

LEMMA CountStep ==
  ASSUME NetworkInv, CountOK, [Next]_vars
  PROVE  CountOK'
<1>1. commands <= MaxCommands /\ commands \in Nat /\ gen \in Nat
  BY DEF CountOK, NetworkInv, Generations
<1>2. ASSUME NEW p \in Processes, NEW new, new.at # "built",
             proc' = [proc EXCEPT ![p] = new]
      PROVE  \A o \in Operators : proc'[o].at = "built" => proc[o].at = "built"
  BY <1>2 DEF NetworkInv, Shapes, Processes
<1>3. ASSUME NEW o \in Operators, CLI(o) PROVE CountOK'
  <2>1. o \in Processes  BY DEF Processes
  <2>2. CASE IngestOsm(o)
    <3>1. /\ proc[o].at = "idle" /\ commands' = commands + 1 /\ commands < MaxCommands
          /\ gen' = gen
          /\ \E x : proc' = [proc EXCEPT ![o] = [At("built") EXCEPT !.held = <<x>>]]
      BY <2>2 DEF IngestOsm, Command, Move, history
    <3>2. proc'[o].at = "built" /\ \A q \in Operators \ {o} : proc'[q] = proc[q]
      BY <2>1, <3>1, AtFields DEF NetworkInv, Shapes, ProcFields, Processes
    <3> DEFINE B == Built  C == Built'
    <3>3. C = B \union {o} /\ o \notin B
      BY <3>1, <3>2 DEF Built
    <3>4. IsFiniteSet(B) /\ gen + Cardinality(B) <= commands
      BY DEF CountOK
    <3> HIDE DEF B, C
    <3>5. IsFiniteSet(C) /\ Cardinality(C) = Cardinality(B) + 1
      BY <3>3, <3>4, FS_AddElement
    <3>6. Cardinality(B) \in Nat  BY <3>4, FS_CardinalityType
    <3>7. gen' + Cardinality(C) <= commands' /\ commands' <= MaxCommands /\ commands' \in Nat
      BY <1>1, <3>1, <3>4, <3>5, <3>6, BoundsAssumption
    <3> QED  BY <3>5, <3>7 DEF CountOK, C
  <2>3. CASE LoadTables(o)
    <3>1. /\ proc[o].at = "built" /\ commands' = commands /\ gen' = gen + 1
          /\ proc' = [proc EXCEPT ![o] = Idle]
      BY <2>3 DEF LoadTables, Move, counters
    <3>2. proc'[o].at = "idle" /\ \A q \in Operators \ {o} : proc'[q] = proc[q]
      BY <2>1, <3>1 DEF NetworkInv, Shapes, Processes, Idle
    <3> DEFINE B == Built  C == Built'
    <3>3. C = B \ {o} /\ o \in B
      BY <3>1, <3>2 DEF Built
    <3>4. IsFiniteSet(B) /\ gen + Cardinality(B) <= commands
      BY DEF CountOK
    <3> HIDE DEF B, C
    <3>5. IsFiniteSet(C) /\ Cardinality(C) = Cardinality(B) - 1
      BY <3>3, <3>4, FS_RemoveElement
    <3>6. Cardinality(B) \in Nat  BY <3>4, FS_CardinalityType
    <3>7. gen' + Cardinality(C) <= commands'
      BY <1>1, <3>1, <3>4, <3>5, <3>6
    <3> QED  BY <1>1, <3>1, <3>5, <3>7 DEF CountOK, C
  <2>4. CASE IngestCrashes(o) \/ IngestElevation(o) \/ ScoreEdges(o)
    <3>1. /\ commands' = commands + 1 /\ commands < MaxCommands /\ gen' = gen
          /\ \E new : new.at # "built" /\ proc' = [proc EXCEPT ![o] = new]
      <4>1. CASE IngestCrashes(o)
        <5>1. PICK f \in Feeds : Command(o, [At("fetched") EXCEPT !.held = <<f>>])
          BY <4>1 DEF IngestCrashes
        <5>2. [At("fetched") EXCEPT !.held = <<f>>].at = "fetched"
          BY AtFields DEF ProcFields
        <5> QED  BY <5>1, <5>2 DEF Command, Move, history
      <4>2. CASE IngestElevation(o) \/ ScoreEdges(o)
        <5>1. \E step \in {"tiles", "load"} : Command(o, At(step))
          BY <4>2 DEF IngestElevation, ScoreEdges
        <5> QED  BY <5>1, AtFields DEF Command, Move, history
      <4> QED  BY <2>4, <4>1, <4>2
    <3>2. \A q \in Operators : proc'[q].at = "built" => proc[q].at = "built"
      BY <1>2, <2>1, <3>1
    <3> QED  BY <1>1, <3>1, <3>2, CountKept, BoundsAssumption DEF NetworkInv
  <2>5. CASE \/ StoreCrashes(o) \/ MatchToEdges(o) \/ WriteHeights(o) \/ ApplyGrades(o)
             \/ ZeroGrades(o) \/ PersistLTS(o) \/ Abort(o)
    <3>1. \E step \in {"idle", "stored", "heights", "graded"} :
            proc' = [proc EXCEPT ![o] = At(step)]
      BY <2>5, IdleStep DEF StoreCrashes, MatchToEdges, WriteHeights, ApplyGrades,
         ZeroGrades, PersistLTS, Abort, Move
    <3>2. \A q \in Operators : proc'[q].at = "built" => proc[q].at = "built"
      BY <1>2, <2>1, <3>1, AtFields
    <3>3. commands' = commands /\ gen' = gen
      BY <2>5 DEF StoreCrashes, MatchToEdges, WriteHeights, ApplyGrades, ZeroGrades,
         PersistLTS, Abort, counters, history
    <3> QED  BY <1>1, <3>2, <3>3, CountKept DEF NetworkInv
  <2>6. CASE SampleNodes(o)
    <3> DEFINE heights == [n \in DOMAIN nodes |-> HeightAt[Where[nodes[n].osm]]]
               new == [At("sampled") EXCEPT !.held = heights, !.gens = {gen}]
    <3>1. proc' = [proc EXCEPT ![o] = new] /\ commands' = commands /\ gen' = gen
      BY <2>6 DEF SampleNodes, Move, counters, history
    <3>2. new.at # "built"  BY AtFields DEF ProcFields
    <3> HIDE DEF new
    <3>3. \A q \in Operators : proc'[q].at = "built" => proc[q].at = "built"
      BY <1>2, <2>1, <3>1, <3>2
    <3> QED  BY <1>1, <3>1, <3>3, CountKept DEF NetworkInv
  <2>7. CASE Load(o)  BY <1>1, <2>1, <2>7, LoadBuilds, CountKept DEF NetworkInv
  <2> QED  BY <1>3, <2>2, <2>3, <2>4, <2>5, <2>6, <2>7 DEF CLI
<1>4. CASE Server
  <2>1. \A q \in Operators : proc'[q] = proc[q]
    <3>1. proc' = proc \/ \E new : proc' = [proc EXCEPT ![Api] = new]
      BY <1>4 DEF Server, StartServer, Load, CountNodes, ReadNodes, ReadEdges,
         RefreshHazards, StopServer, SnapPoint, RoutePlan, DrawPlan, Move
    <3> QED  BY <3>1, ApiAssumption DEF NetworkInv, Shapes, Processes
  <2>2. commands' = commands /\ gen' = gen
    BY <1>4 DEF Server, StartServer, Load, CountNodes, ReadNodes, ReadEdges, Loading,
       RefreshHazards, StopServer, SnapPoint, RoutePlan, DrawPlan, counters, history
  <2> QED  BY <1>1, <2>1, <2>2, CountKept DEF NetworkInv
<1>5. CASE UNCHANGED vars
  <2>1. proc' = proc /\ commands' = commands /\ gen' = gen
    BY <1>5 DEF vars, counters, history
  <2> QED  BY <1>1, <2>1, CountKept DEF NetworkInv
<1> QED  BY <1>3, <1>4, <1>5 DEF Next

-----------------------------------------------------------------------------
(* The overlay and the plan under way.                                     *)

LEMMA OnlyOne ==
  ASSUME NEW n \in Nat, NEW gens \in SUBSET (0 .. n), OneNetwork(gens), NEW x \in gens
  PROVE  gens = {x}
<1>1. IsFiniteSet(gens)
  <2>1. IsFiniteSet(0 .. n)  BY FS_Interval
  <2> QED  BY <2>1, FS_Subset
<1>2. \E y : gens = {y}
  BY <1>1, FS_Singleton DEF OneNetwork
<1> QED  BY <1>2

\* The server keeps its copy while the tables change under it.
LEMMA ServerKept ==
  ASSUME NetworkInv, OverlayOK, PlanOK, UNCHANGED server, proc'[Api] = proc[Api],
         SameRoads \/ gen' = gen + 1
  PROVE  OverlayOK' /\ PlanOK'
<1>1. overlay' = overlay /\ plan' = plan  BY DEF server
<1>2. OverlayOK'  BY <1>1 DEF OverlayOK, Serving, Graph
<1>3. plan.gens \subseteq 0 .. gen' /\ gen \in Nat
  BY DEF PlanOK, SameRoads, NetworkInv, Generations
<1>4. (plan.at \in {"snapped", "routed"} /\ plan.gens = {gen'}) =>
        plan.node \in DOMAIN nodes' /\ nodes'[plan.node].osm = plan.place
  <2>1. CASE SameRoads  BY <2>1 DEF PlanOK, SameRoads
  <2>2. CASE gen' = gen + 1
    BY <1>3, <2>2 DEF PlanOK
  <2> QED  BY <2>1, <2>2
<1>5. PlanOK'  BY <1>1, <1>3, <1>4 DEF PlanOK, Serving, Graph
<1> QED  BY <1>2, <1>5

LEMMA NoPlanOK ==
  ASSUME plan' = NoPlan
  PROVE  PlanOK'
<1>1. /\ DOMAIN plan' = PlanFields /\ plan'.at = "none" /\ plan'.gens = {}
  BY DEF NoPlan, PlanFields
<1> QED  BY <1>1 DEF PlanOK

\* Before the server listens there is nothing that refers to its graph.
LEMMA StartingServer ==
  ASSUME OverlayOK, PlanOK, ~Serving, ~Serving', UNCHANGED server, gen' = gen
  PROVE  OverlayOK' /\ PlanOK'
<1>1. overlay' = overlay /\ plan' = plan  BY DEF server
<1>2. overlay.scores = {} /\ plan.at = "none"  BY DEF OverlayOK, PlanOK
<1>3. OverlayOK'  BY <1>1, <1>2 DEF OverlayOK
<1>4. PlanOK'  BY <1>1, <1>2 DEF PlanOK
<1> QED  BY <1>3, <1>4

LEMMA LoadNotServing ==
  ASSUME NetworkInv, Load(Api)
  PROVE  ~Serving /\ ~Serving'
<1>1. ~Serving  BY DEF Load, CountNodes, ReadNodes, ReadEdges, Loading, Serving
<1>2. \E new : new.at # "serving" /\ proc' = [proc EXCEPT ![Api] = new]
  <2>1. CASE CountNodes(Api)
    <3>1. [At("counted") EXCEPT !.count = Cardinality(DOMAIN nodes)].at = "counted"
      BY AtFields DEF ProcFields
    <3> QED  BY <2>1, <3>1 DEF CountNodes, Move
  <2>2. CASE proc' = [proc EXCEPT ![Api] = Idle]
    BY <2>2 DEF Idle
  <2>3. CASE ReadNodes(Api)
    <3> DEFINE new == [At("noded") EXCEPT !.held = [n \in DOMAIN nodes |-> nodes[n].osm],
                                          !.gens = {gen}]
    <3>1. proc' = [proc EXCEPT ![Api] = new] \/ proc' = [proc EXCEPT ![Api] = Idle]
      BY <2>3 DEF ReadNodes, Move
    <3>2. new.at = "noded"  BY AtFields DEF ProcFields
    <3> HIDE DEF new
    <3> QED  BY <2>2, <3>1, <3>2
  <2>4. CASE ReadEdges(Api)
    <3> DEFINE new == [At("loaded") EXCEPT !.graph = GraphOf(proc[Api].held, edges),
                                           !.gens = proc[Api].gens \union {gen}]
    <3>1. proc' = [proc EXCEPT ![Api] = new] \/ proc' = [proc EXCEPT ![Api] = Idle]
      BY <2>4 DEF ReadEdges, Move
    <3>2. new.at = "loaded"  BY AtFields DEF ProcFields
    <3> HIDE DEF new
    <3> QED  BY <2>2, <3>1, <3>2
  <2> QED  BY <2>1, <2>3, <2>4 DEF Load
<1>3. ~Serving'  BY <1>2 DEF NetworkInv, Shapes, Processes, Serving
<1> QED  BY <1>1, <1>3

\* hazard.Refresh, on a graph and tables of one network, finds the rows of the
\* reported place.
LEMMA HazardRows ==
  ASSUME NEW g, GraphOK(g), NamesRoads(g)
  PROVE  HazardsOf(g) = {k \in DOMAIN g.rows : Near(HazardPlace, g.rows[k].shape)}
<1> DEFINE S == {j \in DOMAIN edges : Near(HazardPlace, edges[j].shape)}
<1>1. ASSUME NEW k \in HazardsOf(g)
      PROVE  k \in DOMAIN g.rows /\ Near(HazardPlace, g.rows[k].shape)
  <2>1. PICK i \in S : k = IndexOfDBID(g, i) /\ k # -1
    BY <1>1 DEF HazardsOf
  <2>2. k \in DOMAIN g.rows /\ g.dbid[k] = i
    BY <2>1 DEF GraphOK, IndexOfDBID
  <2> QED  BY <2>1, <2>2 DEF NamesRoads
<1>2. ASSUME NEW k \in DOMAIN g.rows, Near(HazardPlace, g.rows[k].shape)
      PROVE  k \in HazardsOf(g)
  <2>1. g.dbid[k] \in S  BY <1>2 DEF NamesRoads
  <2>2. IndexOfDBID(g, g.dbid[k]) = k /\ k \in Nat  BY <1>2 DEF GraphOK
  <2> HIDE DEF S
  <2>3. k \in {IndexOfDBID(g, i) : i \in S} \ {-1}  BY <2>1, <2>2
  <2> QED  BY <2>3 DEF HazardsOf, S
<1> QED  BY <1>1, <1>2

LEMMA HazardsInRange ==
  ASSUME NEW g, GraphOK(g)
  PROVE  HazardsOf(g) \subseteq DOMAIN g.rows
<1> SUFFICES ASSUME NEW k \in HazardsOf(g) PROVE k \in DOMAIN g.rows
  OBVIOUS
<1>1. \E i : k = IndexOfDBID(g, i) /\ k # -1  BY DEF HazardsOf
<1> QED  BY <1>1 DEF GraphOK, IndexOfDBID

LEMMA RefreshOK ==
  ASSUME NetworkInv, \A p \in Processes : ProcOK(p), PlanOK, RefreshHazards
  PROVE  OverlayOK' /\ PlanOK'
<1>1. Api \in Processes  BY DEF Processes
<1>2. /\ HasGraph(Api) /\ plan' = plan /\ nodes' = nodes /\ edges' = edges /\ gen' = gen
      /\ overlay' = [scores |-> HazardsOf(Graph), gens |-> proc[Api].gens \union {gen}]
      /\ proc' = [proc EXCEPT ![Api] = [proc[Api] EXCEPT !.at = "serving"]]
  BY DEF RefreshHazards, HasGraph, Move, tables, history
<1>3. Serving' /\ Graph' = Graph /\ proc'[Api].gens = proc[Api].gens
  BY <1>1, <1>2 DEF NetworkInv, Shapes, ProcFields, Graph, Serving
<1>4. /\ GraphOK(Graph) /\ proc[Api].gens # {}
      /\ proc[Api].gens = {gen} => NamesRoads(Graph)
  BY <1>1, <1>2 DEF ProcOK, Graph
<1>5. OverlayOK'
  <2>1. HazardsOf(Graph) \subseteq DOMAIN Graph.rows  BY <1>4, HazardsInRange
  <2>2. ASSUME OneNetwork(proc[Api].gens \union {gen})
        PROVE  HazardsOf(Graph)
                 = {k \in DOMAIN Graph.rows : Near(HazardPlace, Graph.rows[k].shape)}
    <3>1. proc[Api].gens \union {gen} \in SUBSET (0 .. gen) /\ gen \in Nat
      BY <1>1 DEF NetworkInv, Generations
    <3> DEFINE gens == proc[Api].gens \union {gen}
    <3>2. gens = {gen}
      <4>1. gens \in SUBSET (0 .. gen) /\ gen \in gens /\ OneNetwork(gens) /\ gen \in Nat
        BY <2>2, <3>1
      <4> HIDE DEF gens
      <4> QED  BY <4>1, OnlyOne
    <3>3. proc[Api].gens = {gen}  BY <1>4, <3>2
    <3> QED  BY <1>4, <3>3, HazardRows
  <2>3. /\ overlay'.scores = HazardsOf(Graph)
        /\ overlay'.gens = proc[Api].gens \union {gen}
    BY <1>2
  <2> QED  BY <1>3, <2>1, <2>2, <2>3 DEF OverlayOK, Near, OneNetwork
<1>6. PlanOK'  BY <1>2, <1>3 DEF PlanOK
<1> QED  BY <1>5, <1>6

LEMMA SnapOK ==
  ASSUME NetworkInv, OverlayOK, PlanOK, SnapPoint
  PROVE  OverlayOK' /\ PlanOK'
<1>1. /\ Serving /\ nodes' = nodes /\ proc' = proc /\ overlay' = overlay /\ gen' = gen
  BY DEF SnapPoint, tables, history
<1>2. PICK i \in DOMAIN edges : \E n \in {edges[i].from, edges[i].to} :
        plan' = IF n \in DOMAIN Graph.nodes
                THEN [NoPlan EXCEPT !.at = "snapped", !.node = n,
                                    !.place = nodes[n].osm,
                                    !.gens = proc[Api].gens \union {gen}]
                ELSE NoPlan
  BY DEF SnapPoint
<1>3. PICK n \in {edges[i].from, edges[i].to} :
        plan' = IF n \in DOMAIN Graph.nodes
                THEN [NoPlan EXCEPT !.at = "snapped", !.node = n,
                                    !.place = nodes[n].osm,
                                    !.gens = proc[Api].gens \union {gen}]
                ELSE NoPlan
  BY <1>2
<1>4. n \in DOMAIN nodes  BY DEF NetworkInv, Rows
<1>5. proc[Api].gens \union {gen} \subseteq 0 .. gen
  BY DEF NetworkInv, Generations, Processes
<1>6. OverlayOK'  BY <1>1 DEF OverlayOK, Serving, Graph
<1>7. CASE n \in DOMAIN Graph.nodes
  <2>1. /\ plan'.at = "snapped" /\ plan'.node = n /\ plan'.place = nodes[n].osm
        /\ plan'.gens = proc[Api].gens \union {gen} /\ DOMAIN plan' = PlanFields
    BY <1>3, <1>7 DEF NoPlan, PlanFields
  <2>2. PlanOK'  BY <1>1, <1>4, <1>5, <1>7, <2>1 DEF PlanOK, Serving, Graph
  <2> QED  BY <1>6, <2>2
<1>8. CASE n \notin DOMAIN Graph.nodes
  <2>1. plan' = NoPlan  BY <1>3, <1>8
  <2>2. PlanOK'  BY <2>1, NoPlanOK
  <2> QED  BY <1>6, <2>2
<1> QED  BY <1>7, <1>8

LEMMA RouteOK ==
  ASSUME NetworkInv, \A p \in Processes : ProcOK(p), OverlayOK, PlanOK, RoutePlan
  PROVE  OverlayOK' /\ PlanOK'
<1>1. /\ plan.at = "snapped" /\ nodes' = nodes /\ proc' = proc /\ overlay' = overlay
      /\ gen' = gen
      /\ \/ \E e \in OutEdges(Graph, plan.node) :
              plan' = [plan EXCEPT !.at = "routed", !.edge = e]
         \/ plan' = NoPlan
  BY DEF RoutePlan, tables, history
<1>2. OverlayOK'  BY <1>1 DEF OverlayOK, Serving, Graph
<1>3. Serving /\ plan.node \in DOMAIN Graph.nodes  BY <1>1 DEF PlanOK
<1>4. GraphOK(Graph)  BY <1>3 DEF Serving, ProcOK, HasGraph, Graph, Processes
<1>5. CASE plan' = NoPlan  BY <1>2, <1>5, NoPlanOK
<1>6. ASSUME NEW e \in OutEdges(Graph, plan.node),
             plan' = [plan EXCEPT !.at = "routed", !.edge = e]
      PROVE  PlanOK'
  <2>1. e \in DOMAIN Graph.rows /\ Graph.rows[e].from = plan.node
    BY <1>3, <1>4 DEF GraphOK
  <2>2. /\ plan'.at = "routed" /\ plan'.edge = e /\ plan'.node = plan.node
        /\ plan'.gens = plan.gens /\ plan'.place = plan.place
        /\ DOMAIN plan' = PlanFields
    BY <1>6 DEF PlanOK, PlanFields
  <2> QED  BY <1>1, <1>3, <2>1, <2>2 DEF PlanOK, Serving, Graph
<1> QED  BY <1>1, <1>2, <1>5, <1>6

LEMMA DrawOK ==
  ASSUME NetworkInv, \A p \in Processes : ProcOK(p), OverlayOK, PlanOK, DrawPlan
  PROVE  OverlayOK' /\ PlanOK'
<1> DEFINE id == DrawnId(plan.edge)
<1>1. /\ plan.at = "routed" /\ nodes' = nodes /\ proc' = proc /\ overlay' = overlay
      /\ gen' = gen
      /\ plan' = IF id \in DOMAIN edges
                 THEN [plan EXCEPT !.at = "drawn", !.drawn = edges[id].shape,
                                   !.gens = @ \union {gen}]
                 ELSE NoPlan
  BY DEF DrawPlan, tables, history
<1>2. OverlayOK'  BY <1>1 DEF OverlayOK, Serving, Graph
<1>3. /\ Serving /\ plan.edge \in DOMAIN Graph.rows
      /\ Graph.rows[plan.edge].from = plan.node
      /\ proc[Api].gens \subseteq plan.gens /\ plan.gens \subseteq 0 .. gen
      /\ DOMAIN plan = PlanFields
  BY <1>1 DEF PlanOK
<1>4. /\ GraphOK(Graph) /\ proc[Api].gens # {}
      /\ proc[Api].gens = {gen} => NamesRoads(Graph)
  BY <1>3 DEF Serving, ProcOK, HasGraph, Graph, Processes
<1>5. gen \in Nat  BY DEF NetworkInv, Generations
<1>6. CASE id \notin DOMAIN edges  BY <1>1, <1>2, <1>6, NoPlanOK
<1>7. CASE id \in DOMAIN edges
  <2>1. /\ plan'.at = "drawn" /\ plan'.drawn = edges[id].shape
        /\ plan'.gens = plan.gens \union {gen} /\ plan'.edge = plan.edge
        /\ plan'.place = plan.place /\ DOMAIN plan' = PlanFields
    BY <1>1, <1>3, <1>7 DEF PlanFields
  <2>2. ASSUME OneNetwork(plan.gens \union {gen})
        PROVE  /\ edges[id].shape = Graph.rows[plan.edge].shape
               /\ edges[id].shape[1] = plan.place
    <3>1. plan.gens \union {gen} \in SUBSET (0 .. gen)
      BY <1>3, <1>5
    <3>2. plan.gens \union {gen} = {gen}
      BY <1>5, <2>2, <3>1, OnlyOne
    <3>3. proc[Api].gens = {gen} /\ plan.gens = {gen}
      BY <1>3, <1>4, <3>2
    <3>4. NamesRoads(Graph) /\ id = Graph.dbid[plan.edge]
      BY <1>4, <3>3 DEF DrawnId
    <3> HIDE DEF id
    <3>5. edges[id].shape = Graph.rows[plan.edge].shape /\ edges[id].from = plan.node
      BY <1>3, <3>4 DEF NamesRoads
    <3>6. nodes[plan.node].osm = plan.place  BY <1>1, <3>3 DEF PlanOK
    <3>7. nodes[edges[id].from].osm = edges[id].shape[1]
      BY <1>7 DEF NetworkInv, Rows
    <3> QED  BY <3>5, <3>6, <3>7
  <2> HIDE DEF id
  <2>3. plan'.gens \subseteq 0 .. gen  BY <1>3, <1>5, <2>1
  <2>4. PlanOK'
    BY <1>1, <1>3, <2>1, <2>2, <2>3 DEF PlanOK, Serving, Graph, OneNetwork
  <2> QED  BY <1>2, <2>4
<1> QED  BY <1>6, <1>7

LEMMA ServerStep ==
  ASSUME LoadedInv, [Next]_vars
  PROVE  OverlayOK' /\ PlanOK'
<1> USE DEF LoadedInv
<1>1. Api \in Processes  BY DEF Processes
<1>2. ASSUME UNCHANGED server, proc'[Api] = proc[Api]
      PROVE  OverlayOK' /\ PlanOK'
  <2>1. CASE \E o \in Operators : LoadTables(o)  BY <1>2, <2>1, ServerKept DEF LoadTables
  <2> QED  BY <1>2, <2>1, RoadsKept, ServerKept
<1>3. ASSUME NEW o \in Operators, CLI(o) PROVE OverlayOK' /\ PlanOK'
  <2>1. UNCHANGED server
    BY <1>3, QuietRests DEF CLI, Quiet, LoadTables, StoreCrashes, MatchToEdges,
       WriteHeights, ApplyGrades, ZeroGrades, PersistLTS, server
  <2>2. \E new : proc' = [proc EXCEPT ![o] = new]
    BY <1>3 DEF CLI, IngestOsm, LoadTables, IngestCrashes, StoreCrashes, MatchToEdges,
       IngestElevation, SampleNodes, WriteHeights, ApplyGrades, ZeroGrades, ScoreEdges,
       Load, CountNodes, ReadNodes, ReadEdges, PersistLTS, Abort, Command, Move
  <2>3. proc'[Api] = proc[Api]
    BY <2>2, ApiAssumption DEF NetworkInv, Shapes, Processes
  <2> QED  BY <1>2, <2>1, <2>3
<1>4. CASE Server
  <2>1. gen' = gen  BY <1>4, ServerRests DEF history
  <2>2. CASE StartServer
    <3>1. ~Serving /\ UNCHANGED server  BY <2>2 DEF StartServer, Serving
    <3>2. proc'[Api].at = "load"
      BY <1>1, <2>2, AtFields DEF StartServer, Move, NetworkInv, Shapes
    <3>3. ~Serving'  BY <3>2 DEF Serving
    <3> QED  BY <2>1, <3>1, <3>3, StartingServer
  <2>3. CASE Load(Api)
    <3>1. UNCHANGED server
      BY <2>3 DEF Load, CountNodes, ReadNodes, ReadEdges, Loading
    <3> QED  BY <2>1, <2>3, <3>1, LoadNotServing, StartingServer
  <2>4. CASE RefreshHazards  BY <2>4, RefreshOK
  <2>5. CASE StopServer
    <3>1. overlay'.scores = {} /\ plan' = NoPlan  BY <2>5 DEF StopServer
    <3>2. proc'[Api].at = "idle"
      BY <1>1, <2>5, AtFields, IdleStep DEF StopServer, Move, NetworkInv, Shapes
    <3>3. OverlayOK'  BY <3>1, <3>2 DEF OverlayOK, Serving
    <3> QED  BY <3>1, <3>3, NoPlanOK
  <2>6. CASE SnapPoint  BY <2>6, SnapOK
  <2>7. CASE RoutePlan  BY <2>7, RouteOK
  <2>8. CASE DrawPlan  BY <2>8, DrawOK
  <2> QED  BY <1>4, <2>2, <2>3, <2>4, <2>5, <2>6, <2>7, <2>8 DEF Server
<1>5. CASE UNCHANGED vars  BY <1>2, <1>5 DEF vars
<1> QED  BY <1>3, <1>4, <1>5 DEF Next

-----------------------------------------------------------------------------
LEMMA LoadedInit == Init => LoadedInv
<1> SUFFICES ASSUME Init PROVE LoadedInv
  OBVIOUS
<1>1. NetworkInv  BY InitInv
<1>2. PICK x \in Extracts : nodes = Network[x].nodes /\ edges = Network[x].edges
  BY DEF Init
<1>3. /\ crashes = {} /\ crashEdge = {} /\ proc = [p \in Processes |-> Idle]
      /\ overlay.scores = {} /\ plan = NoPlan /\ commands = 0 /\ gen = 0
  BY DEF Init
<1>4. TablesOK  BY <1>2, <1>3, FreshTables DEF TablesOK
<1>5. \A p \in Processes :
        proc[p].at = "idle" /\ proc[p].graph = NoGraph
  BY <1>3 DEF Idle
<1>6. \A p \in Processes : ProcOK(p)  BY <1>5 DEF ProcOK, HasGraph
<1>7. ~Serving  BY <1>5 DEF Serving, Processes
<1>8. OverlayOK  BY <1>3, <1>7 DEF OverlayOK
<1>9. PlanOK
  <2>1. DOMAIN plan = PlanFields /\ plan.at = "none" /\ plan.gens = {}
    BY <1>3 DEF NoPlan, PlanFields
  <2> QED  BY <2>1 DEF PlanOK
<1>10. CountOK
  <2>1. Built = {}  BY <1>5 DEF Built, Processes
  <2>2. IsFiniteSet(Built) /\ Cardinality(Built) = 0  BY <2>1, FS_EmptySet
  <2> QED  BY <1>3, <2>2, BoundsAssumption DEF CountOK
<1> QED  BY <1>1, <1>4, <1>6, <1>8, <1>9, <1>10 DEF LoadedInv

LEMMA LoadedNext ==
  ASSUME LoadedInv, [Next]_vars
  PROVE  LoadedInv'
<1>1. NetworkInv'  BY NextInv DEF LoadedInv
<1>2. TablesOK'  BY TablesStep DEF LoadedInv
<1>3. \A p \in Processes : ProcOK(p)'
  <2>1. CASE Server  BY <2>1, ServerProcs DEF LoadedInv
  <2>2. CASE \E o \in Operators : CLI(o)  BY <2>2, CommandProcs DEF LoadedInv
  <2>3. CASE UNCHANGED vars
    <3>1. UNCHANGED <<tables, history>> /\ proc' = proc  BY <2>3 DEF vars
    <3> QED  BY <3>1, RestingKeepsRoads, ProcKept DEF LoadedInv
  <2> QED  BY <2>1, <2>2, <2>3 DEF Next
<1>4. OverlayOK' /\ PlanOK'  BY ServerStep
<1>5. CountOK'  BY CountStep DEF LoadedInv
<1> QED  BY <1>1, <1>2, <1>3, <1>4, <1>5 DEF LoadedInv

(* Tables, loaded graphs, hazard scores and the plan under way fit each    *)
(* other as far as their networks do, after every step of every command,   *)
(* load and request.                                                       *)
THEOREM LoadedInvariant == Spec => []LoadedInv
<1>1. Init => LoadedInv  BY LoadedInit
<1>2. LoadedInv /\ [Next]_vars => LoadedInv'  BY LoadedNext
<1> QED  BY <1>1, <1>2, PTL DEF Spec

(* Ids stay dense, edges end at nodes, matches and hazard scores name rows *)
(* that exist, and no network comes without a command (osm.Load,           *)
(* crash.MatchToEdges, hazard.Refresh).                                    *)
THEOREM TypeCorrect == Spec => []TypeOK
<1>1. ASSUME LoadedInv PROVE TypeOK
  <2>1. gen \in 0 .. MaxCommands
    <3>1. gen \in Nat /\ Cardinality(Built) \in Nat /\ commands \in Nat
          /\ gen + Cardinality(Built) <= commands /\ commands <= MaxCommands
      BY <1>1, FS_CardinalityType
         DEF LoadedInv, CountOK, NetworkInv, Generations
    <3> QED  BY <3>1, BoundsAssumption
  <2>2. EndsInRange(nodes, edges)
    BY <1>1 DEF LoadedInv, NetworkInv, Rows, EndsInRange
  <2> QED  BY <1>1, <2>1, <2>2 DEF LoadedInv, TablesOK, OverlayOK, PlanOK, TypeOK
<1> QED  BY <1>1, LoadedInvariant, PTL

(* A graph that graph.Load accepted can be searched and translated, also   *)
(* when a reload fell between its queries: its checks are enough.          *)
THEOREM GraphsWellFormed == Spec => []GraphWellFormed
<1>1. ASSUME LoadedInv PROVE GraphWellFormed
  <2>1. ASSUME NEW p \in Processes, proc[p].graph # NoGraph
        PROVE  GraphOK(proc[p].graph)
    BY <1>1, <2>1 DEF LoadedInv, ProcOK
  <2> QED  BY <2>1 DEF GraphWellFormed, GraphOK
<1> QED  BY <1>1, LoadedInvariant, PTL

(* As long as the server's copy and the tables are of one network, the     *)
(* line drawn is the routed road's, from the place that was snapped, and   *)
(* hazards lie on the roads they were reported on (FetchGeometry, Snap,    *)
(* hazard.Refresh).                                                        *)
THEOREM PlansFaithful == Spec => []PlanFaithful
<1>1. LoadedInv => PlanFaithful
  BY DEF LoadedInv, OverlayOK, PlanOK, PlanFaithful
<1> QED  BY <1>1, LoadedInvariant, PTL

-----------------------------------------------------------------------------
(* The third invariant: whatever the commands derive, the roads stay those *)
(* of the extract that was loaded last.                                    *)

OfSource ==
  /\ source \in Extracts
  /\ DOMAIN nodes = DOMAIN Network[source].nodes
  /\ \A n \in DOMAIN nodes : nodes[n].osm = Network[source].nodes[n].osm
  /\ DOMAIN edges = DOMAIN Network[source].edges
  /\ \A i \in DOMAIN edges :
       /\ edges[i].shape = Network[source].edges[i].shape
       /\ edges[i].from = Network[source].edges[i].from
       /\ edges[i].to = Network[source].edges[i].to

LEMMA SourceKept ==
  ASSUME [Next]_vars
  PROVE  source' = source \/ \E o \in Operators : LoadTables(o)
<1>1. CASE Server  BY <1>1, ServerRests DEF history
<1>2. ASSUME NEW o \in Operators, CLI(o)
      PROVE  source' = source \/ LoadTables(o)
  <2>1. CASE Quiet(o)  BY <2>1, QuietRests DEF history
  <2>2. CASE \/ StoreCrashes(o) \/ MatchToEdges(o) \/ WriteHeights(o) \/ PersistLTS(o)
    BY <2>2 DEF StoreCrashes, MatchToEdges, WriteHeights, PersistLTS
  <2>3. CASE ApplyGrades(o) \/ ZeroGrades(o)
    BY <2>3 DEF ApplyGrades, ZeroGrades, history
  <2> QED  BY <1>2, <2>1, <2>2, <2>3 DEF CLI, Quiet
<1>3. CASE UNCHANGED vars  BY <1>3 DEF vars, history
<1> QED  BY <1>1, <1>2, <1>3 DEF Next

LEMMA OfSourceInit == Init => OfSource
BY DEF Init, OfSource

LEMMA OfSourceStep ==
  ASSUME NetworkInv, OfSource, [Next]_vars
  PROVE  OfSource'
<1>1. CASE \E o \in Operators : LoadTables(o)
  <2>1. PICK o \in Operators : LoadTables(o)  BY <1>1
  <2> DEFINE x == proc[o].held[1]
  <2>2. /\ x \in Extracts /\ source' = x
        /\ nodes' = Network[x].nodes /\ edges' = Network[x].edges
    BY <2>1 DEF LoadTables, NetworkInv, Held, Processes
  <2> HIDE DEF x
  <2> QED  BY <2>2 DEF OfSource
<1>2. CASE ~\E o \in Operators : LoadTables(o)
  <2>1. SameRoads /\ source' = source  BY <1>2, RoadsKept, SourceKept
  <2> QED  BY <2>1 DEF SameRoads, OfSource
<1> QED  BY <1>1, <1>2

(* Whatever extracts are loaded and whichever commands run, the network    *)
(* keeps the topology of the streets it was built from (osm.Build,         *)
(* IsSplitPoint, osm.Load): edges run along ways in directions that may be *)
(* ridden and from crossing to crossing, and whole ways can be ridden from *)
(* end to end.                                                             *)
THEOREM StreetsJoined == Spec => []JunctionsJoined
<1>1. Init => OfSource  BY OfSourceInit
<1>2. NetworkInv /\ OfSource /\ [Next]_vars => OfSource'  BY OfSourceStep
<1>3. ASSUME NetworkInv, OfSource PROVE JunctionsJoined
  <2> DEFINE x == source
             es == Network[x].edges
  <2>1. x \in Extracts  BY <1>3 DEF OfSource
  <2>2. ASSUME NEW i \in DOMAIN edges
        PROVE  /\ StepsOf(edges[i]) = StepsOf(es[i])
               /\ Inner(edges[i]) = Inner(es[i])
    BY <1>3 DEF OfSource, StepsOf, Inner
  <2>3. DOMAIN edges = DOMAIN es  BY <1>3 DEF OfSource
  <2>4. ASSUME NEW i \in DOMAIN edges
        PROVE  /\ StepsOf(edges[i]) \subseteq RideSteps[x]
               /\ Inner(edges[i]) \intersect Crossings[x] = {}
    <3>1. /\ StepsOf(es[i]) \subseteq RideSteps[x]
          /\ Inner(es[i]) \intersect Crossings[x] = {}
      BY <2>1, <2>3, NetworkBuilt
    <3> QED  BY <2>2, <3>1
  <2>5. WholeSteps[x] \subseteq UNION {StepsOf(edges[i]) : i \in DOMAIN edges}
    <3>1. WholeSteps[x] \subseteq UNION {StepsOf(es[i]) : i \in DOMAIN es}
      BY <2>1, NetworkBuilt
    <3> HIDE DEF es
    <3> QED  BY <2>2, <2>3, <3>1
  <2>6. \A i \in DOMAIN edges : /\ nodes[edges[i].from].osm = edges[i].shape[1]
                               /\ nodes[edges[i].to].osm = Last(edges[i].shape)
    BY <1>3 DEF NetworkInv, Rows
  <2> QED  BY <2>4, <2>5, <2>6 DEF JunctionsJoined
<1> QED  BY <1>1, <1>2, <1>3, NetworkInvariant, PTL DEF Spec

=============================================================================
