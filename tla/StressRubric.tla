----------------------------- MODULE StressRubric -----------------------------
(***************************************************************************)
(* The Level of Traffic Stress of a road (internal/safety/lts.go and the   *)
(* defaults of params.go): what score-edges computes for every edge.  The  *)
(* facts of a road are its facility, road class, surface, speed limit and  *)
(* lane count, the last two possibly untagged.                             *)
(***************************************************************************)
EXTENDS Integers

SpeedUnknown == -1
LanesUnknown == -1

\* The road classes that have a default; the others share one.
Highways == {"living_street", "service", "residential", "unclassified",
             "tertiary", "secondary", "primary", "trunk", "other"}
Infras == {"protected_track", "path", "pedestrian", "buffered_lane",
           "painted_lane", "shared_lane", "none"}
Surfaces == {"unknown", "paved", "compacted", "loose", "bad"}

FactsType(f) ==
  /\ f.infra \in Infras
  /\ f.highway \in Highways
  /\ f.surface \in Surfaces
  /\ f.speed \in Int
  /\ f.lanes \in Int

DefaultSpeedMPH(highway) ==
  CASE highway \in {"living_street", "service"} -> 15
    [] highway = "tertiary" -> 35
    [] highway = "secondary" -> 40
    [] highway = "primary" -> 45
    [] highway = "trunk" -> 55
    [] OTHER -> 30

DefaultLanes(highway) ==
  IF highway \in {"secondary", "primary", "trunk"} THEN 4 ELSE 2

\* SpeedUnknown is below zero, so one test covers "untagged" and "absurd".
EffectiveSpeed(f) == IF f.speed > 0 THEN f.speed ELSE DefaultSpeedMPH(f.highway)
EffectiveLanes(f) == IF f.lanes > 0 THEN f.lanes ELSE DefaultLanes(f.highway)

BufferedLane(speed, lanes) ==
  IF speed <= 30 /\ lanes <= 3 THEN 1
  ELSE IF speed <= 35 THEN 2
  ELSE IF speed <= 45 THEN 3
  ELSE 4

PaintedLane(speed, lanes) ==
  IF speed <= 25 /\ lanes <= 2 THEN 1
  ELSE IF speed <= 30 /\ lanes <= 3 THEN 2
  ELSE IF speed <= 35 /\ lanes <= 4 THEN 3
  ELSE 4

\* Sharrows fall through to here: they are given no credit.
MixedTraffic(highway, speed, lanes) ==
  IF highway = "living_street" THEN 1
  ELSE IF highway = "service" /\ speed <= 20 THEN 2
  ELSE IF lanes >= 6 \/ speed >= 45 THEN 4
  ELSE IF speed >= 35 THEN (IF lanes >= 4 THEN 4 ELSE 3)
  ELSE IF speed >= 26 THEN (IF lanes >= 4 THEN 3 ELSE 2)
  ELSE IF lanes >= 4 THEN 3 ELSE 1

ClassifyLTS(f) ==
  LET speed == EffectiveSpeed(f)  lanes == EffectiveLanes(f)
  IN  CASE f.infra = "protected_track" -> 1
        [] f.infra = "path" -> IF f.surface \in {"loose", "bad"} THEN 2 ELSE 1
        [] f.infra = "pedestrian" -> 2
        [] f.infra = "buffered_lane" -> BufferedLane(speed, lanes)
        [] f.infra = "painted_lane" -> PaintedLane(speed, lanes)
        [] OTHER -> MixedTraffic(f.highway, speed, lanes)

=============================================================================
