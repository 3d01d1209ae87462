------------------------------- MODULE Search -------------------------------
(***************************************************************************)
(* routing.Search (internal/routing/search.go): the edge-based, bucketed,  *)
(* budget-constrained A* search that answers every route request, together *)
(* with the pooled workspace it runs in (internal/routing/workspace.go).   *)
(*                                                                         *)
(* A search state is a directed edge plus a budget bucket.  Costs and      *)
(* lengths are naturals; the priority queue is the set of its items, and a *)
(* pop may take any item of least priority, because the binary heap's tie  *)
(* order depends on its history.  One action is one iteration of the loop. *)
(***************************************************************************)
EXTENDS RoadGraph

CONSTANTS
  StraightLine,         \* [Nodes \X Nodes -> Nat], the haversine distance
  Requests,             \* the searches callers may ask for
  DefaultBudgetSteps, MaxBudgetSteps, DefaultMaxExpansions,
  NoState,              \* -1 in the prev array
  MaxCalls              \* bound: searches that share one pooled workspace

ASSUME LimitsAssumption ==
  /\ DefaultBudgetSteps \in Nat \ {0}
  /\ MaxBudgetSteps \in Nat \ {0}
  /\ DefaultMaxExpansions \in Nat \ {0}
  /\ MaxCalls \in Nat

ASSUME RequestAssumption == \A r \in Requests : RequestType(r)

(***************************************************************************)
(* What search.go relies on for A*: no road is shorter than the straight   *)
(* line between its ends, and no edge costs less than its length (the      *)
(* multiplier floor of 1.0) unless the heuristic is switched off.          *)
(***************************************************************************)
ASSUME HeuristicAssumption ==
  /\ StraightLine \in [Nodes \X Nodes -> Nat]
  /\ \A e \in Edges, g \in Nodes :
        StraightLine[<<From[e], g>>] <= LengthM[e] + StraightLine[<<To[e], g>>]
  /\ \A r \in Requests, e \in Edges :
        r.noHeuristic \/ LengthM[e] <= r.edgeCost[e]

(* Metres above the threshold are never free: the multiplier's floor again,*)
(* which holds with and without the heuristic (safety.Model.EdgeCost).     *)
ASSUME CostAssumption ==
  \A r \in Requests, e \in Edges :
    (IsOver(r, e) /\ LengthM[e] > 0) => r.edgeCost[e] > 0

States == Edges \X (0 .. MaxBudgetSteps - 1)
EdgeOf(st) == st[1]

ASSUME NoStateAssumption == NoState \notin States

Infinity == -1          \* math.Inf(1): compared through Less only
NotCached == -1         \* hcache's "not yet computed"
Less(c, d) == d = Infinity \/ c < d

-----------------------------------------------------------------------------
(* The pure parts of a call.                                               *)

\* The number of buckets without the upper limit.
budgetBuckets_NoMax(r) ==
  IF ~r.hasOver \/ r.budgetM = 0 THEN 1
  ELSE IF r.budgetSteps = 0 THEN DefaultBudgetSteps ELSE r.budgetSteps

budgetBuckets(r) ==
  IF ~r.hasOver \/ r.budgetM = 0 THEN 1
  ELSE LET nb == IF r.budgetSteps = 0 THEN DefaultBudgetSteps
                                      ELSE r.budgetSteps
       IN  IF nb > MaxBudgetSteps THEN MaxBudgetSteps ELSE nb

\* used / stepM with stepM = BudgetM / nb, truncated and clamped.
bucketOf(r, used) ==
  LET nb == budgetBuckets(r)
  IN  IF nb = 1 THEN 0
      ELSE LET b == (used * nb) \div r.budgetM
           IN  IF b >= nb THEN nb - 1 ELSE b

\* Checking one over-threshold edge against the budget, not their total.
Enterable_SeedOnly(r, e, spent) ==
  e \in r.allow /\ (IsOver(r, e) => LengthM[e] <= r.budgetM)
Enterable(r, e, spent) ==
  e \in r.allow /\ (IsOver(r, e) => spent + LengthM[e] <= r.budgetM)

StateFor(r, e, used) == <<e, bucketOf(r, used)>>

MaxExp(r) == IF r.maxExpansions = 0 THEN DefaultMaxExpansions
                                    ELSE r.maxExpansions

-----------------------------------------------------------------------------
VARIABLES
  dist, usedM, prev, done, hcache, queue,   \* the workspace
  req, expansions,                          \* the running call
  status,                                   \* "idle", "running", "returned"
  result,                                   \* what the last call returned
  calls                                     \* calls made so far

workspace == <<dist, usedM, prev, done, hcache, queue>>
vars == <<dist, usedM, prev, done, hcache, queue, req, expansions, status,
          result, calls>>

QueueItem == [state : States, priority : Nat]

(* buildPath walks the predecessor chain back to the start.                *)
Chain(last) ==
  LET walk[st \in States] ==
        IF prev[st] = NoState THEN <<EdgeOf(st)>>
                              ELSE Append(walk[prev[st]], EdgeOf(st))
  IN  walk[last]

ChainLength(last) ==
  LET len[st \in States] ==
        LengthM[EdgeOf(st)] +
          (IF prev[st] = NoState THEN 0 ELSE len[prev[st]])
  IN  len[last]

buildPath(last, n) ==
  [outcome |-> "path", edges |-> Chain(last), cost |-> dist[last],
   lengthM |-> ChainLength(last), usedM |-> usedM[last], expansions |-> n]

\* The heuristic of the node an edge ends at, through the per-node cache.
H(r, hc, n) == IF r.noHeuristic THEN 0
               ELSE IF hc[n] # NotCached THEN hc[n]
               ELSE StraightLine[<<n, r.goal>>]

\* The cache after the heuristic was evaluated at every node of ns.
Cached(r, hc, ns) ==
  [n \in Nodes |-> IF n \in ns /\ ~r.noHeuristic THEN H(r, hc, n) ELSE hc[n]]

-----------------------------------------------------------------------------
(* getWorkspace: what a pooled workspace is reset to.  usedM is not reset: *)
(* an entry is written with the dist entry that makes it readable.         *)

CleanDone_Forgotten == done

CleanDist == [st \in States |-> Infinity]
CleanPrev == [st \in States |-> NoState]
CleanDone == {}
CleanHcache == [n \in Nodes |-> NotCached]

Init ==
  /\ dist = CleanDist
  /\ usedM = [st \in States |-> 0]
  /\ prev = CleanPrev
  /\ done = {}
  /\ hcache = [n \in Nodes |-> NotCached]
  /\ queue = {}
  /\ req \in Requests
  /\ expansions = 0
  /\ status = "idle"
  /\ result = NoResult
  /\ calls = 0

Call(r) ==
  /\ status # "running"
  /\ calls < MaxCalls
  /\ calls' = calls + 1
  /\ req' = r
  /\ expansions' = 0

\* start = goal returns an empty path before anything is validated, and
\* validate fails before a workspace is taken.
ReturnEarly(r) ==
  /\ Call(r)
  /\ \/ /\ r.start = r.goal
        /\ result' = Bare("path")
     \/ /\ r.start # r.goal
        /\ {r.start, r.goal} \subseteq Nodes
        /\ OutEdges(r.start) = {}
        /\ result' = Bare("unroutable")
     \/ /\ r.start # r.goal
        /\ ~ {r.start, r.goal} \subseteq Nodes
        /\ result' = Bare("out of range")
  /\ status' = "returned"
  /\ UNCHANGED workspace

(* The seed loop: every allowed, affordable edge out of the start node.    *)
(* Its test c < dist[st] holds: dist was just reset, and the states differ.*)
Seeds(r) ==
  {StateFor(r, e, Spend(r, e, 0)) :
      e \in {d \in OutEdges(r.start) : Enterable(r, d, 0)}}

Begin(r) ==
  LET S == Seeds(r)
  IN  /\ Call(r)
      /\ r.start # r.goal
      /\ {r.start, r.goal} \subseteq Nodes
      /\ OutEdges(r.start) # {}
      /\ dist' = [st \in States |-> IF st \in S THEN r.edgeCost[EdgeOf(st)]
                                                ELSE CleanDist[st]]
      /\ usedM' = [st \in States |-> IF st \in S
                                     THEN Spend(r, EdgeOf(st), 0)
                                     ELSE usedM[st]]
      /\ prev' = CleanPrev
      /\ done' = CleanDone
      /\ queue' = {[state |-> st,
                    priority |-> r.edgeCost[EdgeOf(st)] +
                                 H(r, CleanHcache, To[EdgeOf(st)])] : st \in S}
      /\ hcache' = Cached(r, CleanHcache, {To[EdgeOf(st)] : st \in S})
      /\ status' = "running"
      /\ result' = NoResult

-----------------------------------------------------------------------------
(* The main loop.                                                          *)

Least(item) == \A q \in queue : item.priority <= q.priority

Pop(item) ==
  /\ status = "running"
  /\ Least(item)

\* release empties the queue and hands the workspace back to the pool.
Return(res) ==
  /\ status' = "returned"
  /\ result' = res
  /\ queue' = {}

PopStale(item) ==
  /\ Pop(item)
  /\ item.state \in done
  /\ queue' = queue \ {item}
  /\ UNCHANGED <<dist, usedM, prev, done, hcache, req, expansions, status,
                 result, calls>>

Settle(item) ==
  /\ Pop(item)
  /\ item.state \notin done
  /\ done' = done \union {item.state}
  /\ expansions' = expansions + 1
  /\ UNCHANGED <<req, calls>>

PopOverLimit(item) ==
  /\ Settle(item)
  /\ expansions + 1 > MaxExp(req)
  /\ Return(Bare("unroutable"))
  /\ UNCHANGED <<dist, usedM, prev, hcache>>

\* The goal is tested when a state is popped, not when it is pushed.
PopGoal(item) ==
  /\ Settle(item)
  /\ expansions + 1 <= MaxExp(req)
  /\ To[EdgeOf(item.state)] = req.goal
  /\ Return(buildPath(item.state, expansions + 1))
  /\ UNCHANGED <<dist, usedM, prev, hcache>>

\* The states one settled state leads to, and the cost of getting there.
Successors(st) ==
  {StateFor(req, f, Spend(req, f, usedM[st])) :
      f \in {d \in OutEdges(To[EdgeOf(st)]) : Enterable(req, d, usedM[st])}}

Reach(st, t) ==
  dist[st] + req.edgeCost[EdgeOf(t)] + req.turnCost[<<EdgeOf(st), EdgeOf(t)>>]

Improved_FirstFound(st) ==
  {t \in Successors(st) \ (done \union {st}) : dist[t] = Infinity}

Improved(st) ==
  {t \in Successors(st) \ (done \union {st}) : Less(Reach(st, t), dist[t])}

\* prev written only once, or for every successor instead of the improved.
NewPrev_Once(st) ==
  [t \in States |-> IF t \in Improved(st) /\ prev[t] = NoState
                   THEN st ELSE prev[t]]
NewPrev_Always(st) ==
  [t \in States |-> IF t \in Successors(st) THEN st ELSE prev[t]]

NewPrev(st) == [t \in States |-> IF t \in Improved(st) THEN st ELSE prev[t]]

PopExpand(item) ==
  LET st == item.state  I == Improved(st)
  IN  /\ Settle(item)
      /\ expansions + 1 <= MaxExp(req)
      /\ To[EdgeOf(st)] # req.goal
      /\ dist' = [t \in States |-> IF t \in I THEN Reach(st, t) ELSE dist[t]]
      /\ usedM' = [t \in States |->
                     IF t \in I THEN Spend(req, EdgeOf(t), usedM[st])
                                ELSE usedM[t]]
      /\ prev' = NewPrev(st)
      /\ queue' = (queue \ {item}) \union
                    {[state |-> t, priority |-> Reach(st, t) +
                                     H(req, hcache, To[EdgeOf(t)])] : t \in I}
      /\ hcache' = Cached(req, hcache, {To[EdgeOf(t)] : t \in I})
      /\ UNCHANGED <<status, result>>

\* The queue ran dry without reaching the goal.
Exhausted ==
  /\ status = "running"
  /\ queue = {}
  /\ Return(Bare("unroutable"))
  /\ UNCHANGED <<dist, usedM, prev, done, hcache, req, expansions, calls>>

Loop == \/ \E item \in queue : \/ PopStale(item)
                               \/ PopOverLimit(item)
                               \/ PopGoal(item)
                               \/ PopExpand(item)
        \/ Exhausted

\* Bounded number of calls: the pool simply stays idle afterwards.
Finished == status # "running" /\ calls = MaxCalls /\ UNCHANGED vars

Next == \/ \E r \in Requests : ReturnEarly(r) \/ Begin(r)
        \/ Loop
        \/ Finished

\* The goroutine that runs a search keeps running it.
Spec == Init /\ [][Next]_vars /\ WF_vars(Loop)

-----------------------------------------------------------------------------
(* What every state of a search satisfies.                                 *)

(* Every variable stays within its type; the workspace never holds a       *)
(* negative cost, an unknown state or a bucket past the last one.          *)
TypeOK ==
  /\ dist \in [States -> Nat \union {Infinity}]
  /\ usedM \in [States -> Nat]
  /\ prev \in [States -> States \union {NoState}]
  /\ done \subseteq States
  /\ hcache \in [Nodes -> Nat \union {NotCached}]
  /\ queue \subseteq QueueItem
  /\ req \in Requests
  /\ expansions \in Nat
  /\ status \in {"idle", "running", "returned"}
  /\ calls \in 0 .. MaxCalls

Labelled(st) == dist[st] # Infinity

\* The label of an edge the search started on.
SeedLabel(st) ==
  /\ From[EdgeOf(st)] = req.start
  /\ dist[st] = req.edgeCost[EdgeOf(st)]
  /\ usedM[st] = Spend(req, EdgeOf(st), 0)

\* The label of an edge entered from the state p.
StepLabel(p, st) ==
  /\ p \in done
  /\ Labelled(p)
  /\ To[EdgeOf(p)] = From[EdgeOf(st)]
  /\ dist[st] = Reach(p, st)
  /\ usedM[st] = Spend(req, EdgeOf(st), usedM[p])

(* While a search runs, every label is one a rider could have earned: its  *)
(* edge is allowed, its metres are within the budget and in its bucket, and*)
(* cost and metres are exactly those of the settled predecessor plus this  *)
(* edge (search.go's dist, usedM and prev are written together).           *)
LabelsConsistent ==
  status = "running" =>
    \A st \in States : Labelled(st) =>
      /\ EdgeOf(st) \in req.allow
      /\ usedM[st] <= req.budgetM
      /\ st = StateFor(req, EdgeOf(st), usedM[st])
      /\ IF prev[st] = NoState THEN SeedLabel(st) ELSE StepLabel(prev[st], st)

(* A settled state has been expanded for good: whatever it leads to already*)
(* carries a label at most as costly.  This is the certificate that makes  *)
(* popping the goal optimal, and the reason a settled state need never be  *)
(* reopened (search.go "settle each state exactly once").                  *)
SettledRelaxed ==
  status = "running" =>
    \A st \in done : \A t \in Successors(st) :
      Labelled(t) /\ dist[t] <= Reach(st, t)

(* The strengthening that makes the two invariants above inductive.        *)

\* The heuristic without its cache.
Estimate(n) == IF req.noHeuristic THEN 0 ELSE StraightLine[<<n, req.goal>>]

\* A state's cost so far plus what the heuristic says remains.
Total(st) == dist[st] + Estimate(To[EdgeOf(st)])

\* A workspace is only taken for endpoints that validate accepted, and the
\* cache holds nothing but this goal's distances.
CacheCorrect ==
  status = "running" =>
    /\ req.goal \in Nodes
    /\ \A n \in Nodes : hcache[n] \in {NotCached, StraightLine[<<n, req.goal>>]}

\* Queue items never undercut their state's label, every open label is
\* queued at its current priority, and nothing queued precedes a settled
\* state: states are settled in order of their totals.
QueueSound ==
  status = "running" =>
    /\ \A q \in queue : Labelled(q.state) /\ Total(q.state) <= q.priority
    /\ \A st \in States :
         (Labelled(st) /\ st \notin done) =>
            \E q \in queue : q.state = st /\ q.priority = Total(st)
    /\ \A st \in done :
         Labelled(st) /\ \A q \in queue : Total(st) <= q.priority

SearchInv ==
  /\ TypeOK
  /\ CacheCorrect
  /\ LabelsConsistent
  /\ QueueSound
  /\ SettledRelaxed

(* A route never contains more over-threshold road than the budget: the    *)
(* exact metres, not the bucket, bound it (search.go "never exceeds the    *)
(* true budget").                                                          *)
RouteWithinBudget ==
  result.outcome = "path" => result.usedM <= req.budgetM

(* Once a state is settled its cost, metres and predecessor never change   *)
(* while that search runs, although stale queue items still name it.       *)
SettledFrozen ==
  [][status = "running" =>
       \A st \in done : /\ st \in done'
                        /\ dist'[st] = dist[st]
                        /\ usedM'[st] = usedM[st]
                        /\ prev'[st] = prev[st]]_vars

=============================================================================
