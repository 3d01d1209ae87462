------------------------------ MODULE RoadGraph ------------------------------
(***************************************************************************)
(* The road network as the router sees it (internal/graph/graph.go) and    *)
(* the vocabulary of a search on it: what a request asks and what an       *)
(* answer says (the Options and Path of internal/routing/search.go).       *)
(***************************************************************************)
EXTENDS Integers, Sequences

CONSTANTS
  Nodes, Edges,         \* the loaded graph: node and edge indices
  From, To, LengthM     \* its edge arrays

(***************************************************************************)
(* A request is the arguments of one call: start, goal and the Options.    *)
(* The cost, turn, allow and over callbacks are pure, so each is its       *)
(* graph; hasOver is "Over is not nil".                                    *)
(***************************************************************************)
RequestType(r) ==
  /\ r.start \in Int /\ r.goal \in Int
  /\ r.edgeCost \in [Edges -> Nat]
  /\ r.turnCost \in [Edges \X Edges -> Nat]
  /\ r.allow \subseteq Edges
  /\ r.over \subseteq Edges
  /\ r.hasOver \in BOOLEAN
  /\ r.budgetM \in Nat
  /\ r.budgetSteps \in Nat
  /\ r.maxExpansions \in Nat
  /\ r.noHeuristic \in BOOLEAN

ASSUME GraphAssumption ==
  /\ Nodes \subseteq Int
  /\ From \in [Edges -> Nodes]
  /\ To \in [Edges -> Nodes]
  /\ LengthM \in [Edges -> Nat]

OutEdges(n) == {e \in Edges : From[e] = n}

IsReverseOf(a, b) == From[a] = To[b] /\ To[a] = From[b]

IsOver(r, e) == r.hasOver /\ e \in r.over

\* Over-threshold metres spent once e has been ridden after `spent`.
Spend(r, e, spent) == IF IsOver(r, e) THEN spent + LengthM[e] ELSE spent

NoResult == [outcome |-> "none", edges |-> <<>>, cost |-> 0, lengthM |-> 0,
             usedM |-> 0, expansions |-> 0]

\* The empty Path of start = goal, ErrUnroutable and validate's range error.
Bare(outcome) == [NoResult EXCEPT !.outcome = outcome]

=============================================================================
