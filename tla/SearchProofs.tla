----------------------------- MODULE SearchProofs -----------------------------
(***************************************************************************)
(* Proofs about Search for every graph, every set of requests and every    *)
(* number of calls.                                                        *)
(***************************************************************************)
EXTENDS SearchReference, WalkProofs

(* The bucket of any spent distance is a valid array index: int(used/stepM)*)
(* is a natural, and the clamp keeps it below nb, which is at most         *)
(* maxBudgetSteps.                                                         *)
LEMMA BucketInRange ==
  ASSUME NEW r \in Requests, NEW used \in Nat
  PROVE  bucketOf(r, used) \in 0 .. MaxBudgetSteps - 1
<1>1. budgetBuckets(r) \in 1 .. MaxBudgetSteps
  BY RequestAssumption, LimitsAssumption DEF budgetBuckets, RequestType
<1>2. CASE budgetBuckets(r) = 1
  BY <1>2, LimitsAssumption DEF bucketOf
<1>3. CASE budgetBuckets(r) # 1
  <2>1. r.budgetM \in Nat \ {0}
    BY <1>3, RequestAssumption DEF budgetBuckets, RequestType
  <2>2. used * budgetBuckets(r) \in Nat
    BY <1>1
  <2>3. (used * budgetBuckets(r)) \div r.budgetM \in Nat
    <3> DEFINE x == used * budgetBuckets(r)
    <3> HIDE DEF x
    <3>1. x \in Nat
      BY <2>2 DEF x
    <3>2. x \div r.budgetM \in Nat
      BY <3>1, <2>1
    <3> QED BY <3>2 DEF x
  <2> QED BY <1>1, <1>3, <2>3, LimitsAssumption DEF bucketOf
<1> QED BY <1>2, <1>3

(* The state an edge is entered in is a state of the search.               *)
LEMMA StateForType ==
  ASSUME NEW r \in Requests, NEW e \in Edges, NEW used \in Nat
  PROVE  /\ StateFor(r, e, used) \in States
         /\ EdgeOf(StateFor(r, e, used)) = e
BY BucketInRange DEF StateFor, States, EdgeOf

(* Riding an edge never lowers the metres spent, and an edge that may be   *)
(* entered leaves them within the budget.                                  *)
LEMMA SpendWithinBudget ==
  ASSUME NEW r \in Requests, NEW e \in Edges, NEW spent \in Nat,
         spent <= r.budgetM, Enterable(r, e, spent)
  PROVE  /\ Spend(r, e, spent) \in Nat
         /\ Spend(r, e, spent) <= r.budgetM
         /\ e \in r.allow
BY RequestAssumption, GraphAssumption
   DEF Enterable, Spend, IsOver, RequestType

LEMMA SpendType ==
  ASSUME NEW r \in Requests, NEW e \in Edges, NEW spent \in Nat
  PROVE  Spend(r, e, spent) \in Nat
BY GraphAssumption DEF Spend

(* The edge of a state and its costs have the types the arrays promise.    *)
LEMMA StateFields ==
  ASSUME NEW st \in States
  PROVE  /\ EdgeOf(st) \in Edges
         /\ From[EdgeOf(st)] \in Nodes
         /\ To[EdgeOf(st)] \in Nodes
         /\ LengthM[EdgeOf(st)] \in Nat
BY GraphAssumption DEF States, EdgeOf

LEMMA CostTypes ==
  ASSUME NEW r \in Requests, NEW e \in Edges, NEW f \in Edges
  PROVE  r.edgeCost[e] \in Nat /\ r.turnCost[<<e, f>>] \in Nat
BY RequestAssumption DEF RequestType

(* What a seed is.                                                         *)
LEMMA SeedFacts ==
  ASSUME NEW r \in Requests, NEW st \in Seeds(r)
  PROVE  /\ st \in States
         /\ From[EdgeOf(st)] = r.start
         /\ Enterable(r, EdgeOf(st), 0)
         /\ st = StateFor(r, EdgeOf(st), Spend(r, EdgeOf(st), 0))
<1>1. PICK e \in OutEdges(r.start) :
        Enterable(r, e, 0) /\ st = StateFor(r, e, Spend(r, e, 0))
  BY DEF Seeds
<1>2. e \in Edges /\ From[e] = r.start
  BY <1>1 DEF OutEdges
<1>3. Spend(r, e, 0) \in Nat
  BY <1>2, SpendType
<1>4. EdgeOf(st) = e /\ st \in States
  BY <1>1, <1>2, <1>3, StateForType
<1> QED BY <1>1, <1>2, <1>4

(* What a successor of a state is.                                         *)
LEMMA SuccessorFacts ==
  ASSUME TypeOK, NEW st \in States, NEW t \in Successors(st)
  PROVE  /\ t \in States
         /\ From[EdgeOf(t)] = To[EdgeOf(st)]
         /\ Enterable(req, EdgeOf(t), usedM[st])
         /\ t = StateFor(req, EdgeOf(t), Spend(req, EdgeOf(t), usedM[st]))
<1>0. req \in Requests /\ usedM[st] \in Nat
  BY DEF TypeOK
<1>1. PICK f \in OutEdges(To[EdgeOf(st)]) :
        /\ Enterable(req, f, usedM[st])
        /\ t = StateFor(req, f, Spend(req, f, usedM[st]))
  BY DEF Successors
<1>2. f \in Edges /\ From[f] = To[EdgeOf(st)]
  BY <1>1 DEF OutEdges
<1>3. Spend(req, f, usedM[st]) \in Nat
  BY <1>0, <1>2, SpendType
<1>4. EdgeOf(t) = f /\ t \in States
  BY <1>0, <1>1, <1>2, <1>3, StateForType
<1> QED BY <1>1, <1>2, <1>4

(* The cost of reaching a successor of a labelled state is a natural.      *)
LEMMA ReachType ==
  ASSUME TypeOK, NEW st \in States, NEW t \in States, Labelled(st)
  PROVE  /\ dist[st] \in Nat
         /\ Reach(st, t) \in Nat
         /\ dist[st] + req.edgeCost[EdgeOf(t)] <= Reach(st, t)
<1>1. dist[st] \in Nat
  BY DEF TypeOK, Labelled
<1>2. req \in Requests /\ EdgeOf(st) \in Edges /\ EdgeOf(t) \in Edges
  BY StateFields DEF TypeOK
<1>3. /\ req.edgeCost[EdgeOf(t)] \in Nat
      /\ req.turnCost[<<EdgeOf(st), EdgeOf(t)>>] \in Nat
  BY <1>2, CostTypes
<1> QED BY <1>1, <1>3 DEF Reach

(* The cached heuristic is the true one.                                   *)
LEMMA CachedEstimate ==
  ASSUME TypeOK, CacheCorrect, status = "running", NEW n \in Nodes
  PROVE  H(req, hcache, n) = Estimate(n) /\ Estimate(n) \in Nat
BY HeuristicAssumption DEF TypeOK, CacheCorrect, H, Estimate, NotCached

(* The heuristic is consistent: entering t from st cannot reduce the total *)
(* (search.go "h(e) <= cost(e->f) + h(f) always holds").                   *)
LEMMA Consistent ==
  ASSUME TypeOK, CacheCorrect, status = "running",
         NEW st \in States, Labelled(st), NEW t \in Successors(st)
  PROVE  Total(st) <= Reach(st, t) + Estimate(To[EdgeOf(t)])
<1>1. t \in States /\ From[EdgeOf(t)] = To[EdgeOf(st)]
  BY SuccessorFacts
<1>2. /\ req \in Requests /\ req.goal \in Nodes
      /\ EdgeOf(t) \in Edges /\ To[EdgeOf(t)] \in Nodes
      /\ To[EdgeOf(st)] \in Nodes
      /\ LengthM[EdgeOf(t)] \in Nat
  BY <1>1, StateFields DEF TypeOK, CacheCorrect
<1>3. /\ dist[st] \in Nat
      /\ Reach(st, t) \in Nat
      /\ dist[st] + req.edgeCost[EdgeOf(t)] <= Reach(st, t)
      /\ req.edgeCost[EdgeOf(t)] \in Nat
  BY <1>1, <1>2, ReachType, CostTypes
<1>4. Estimate(To[EdgeOf(t)]) \in Nat /\ Estimate(To[EdgeOf(st)]) \in Nat
  BY <1>2, CachedEstimate
<1>5. Estimate(To[EdgeOf(st)]) <=
        req.edgeCost[EdgeOf(t)] + Estimate(To[EdgeOf(t)])
  <2>1. CASE req.noHeuristic
    BY <2>1, <1>3, <1>4 DEF Estimate
  <2>2. CASE ~req.noHeuristic
    <3>1. LengthM[EdgeOf(t)] <= req.edgeCost[EdgeOf(t)]
      BY <2>2, <1>2, HeuristicAssumption
    <3>2. StraightLine[<<To[EdgeOf(st)], req.goal>>] <=
            LengthM[EdgeOf(t)] + StraightLine[<<To[EdgeOf(t)], req.goal>>]
      BY <1>1, <1>2, HeuristicAssumption
    <3> QED BY <3>1, <3>2, <2>2, <1>2, <1>3, <1>4 DEF Estimate
  <2> QED BY <2>1, <2>2
<1> QED BY <1>3, <1>4, <1>5 DEF Total

-----------------------------------------------------------------------------
(* Initially nothing runs.                                                 *)
LEMMA InitInv == Init => SearchInv
BY LimitsAssumption, NoStateAssumption
   DEF Init, SearchInv, TypeOK, CacheCorrect, LabelsConsistent, QueueSound,
       SettledRelaxed, CleanDist, CleanPrev, Infinity, NotCached

(* Returning from a call, early or from the loop, leaves a well-typed      *)
(* workspace behind and no search running.                                 *)
LEMMA ReturnInv ==
  ASSUME TypeOK, TypeOK', status' = "returned"
  PROVE  SearchInv'
BY DEF SearchInv, CacheCorrect, LabelsConsistent, QueueSound, SettledRelaxed

(* Begin: a reset workspace with one label and one queue item per seed.    *)
LEMMA BeginInv ==
  ASSUME SearchInv, NEW r \in Requests, Begin(r)
  PROVE  SearchInv'
<1> DEFINE S == Seeds(r)
<1>1. TypeOK /\ RequestType(r)
  BY RequestAssumption DEF SearchInv
<1>2. ASSUME NEW st \in S
      PROVE  /\ st \in States
             /\ From[EdgeOf(st)] = r.start
             /\ Enterable(r, EdgeOf(st), 0)
             /\ st = StateFor(r, EdgeOf(st), Spend(r, EdgeOf(st), 0))
             /\ EdgeOf(st) \in Edges /\ To[EdgeOf(st)] \in Nodes
             /\ r.edgeCost[EdgeOf(st)] \in Nat
  BY SeedFacts, StateFields, CostTypes
<1>3. /\ req' = r /\ status' = "running" /\ expansions' = 0
      /\ calls < MaxCalls /\ calls' = calls + 1
      /\ r.goal \in Nodes
      /\ prev' = [st \in States |-> NoState] /\ done' = {}
      /\ dist' = [st \in States |-> IF st \in S THEN r.edgeCost[EdgeOf(st)]
                                               ELSE Infinity]
      /\ usedM' = [st \in States |-> IF st \in S
                                     THEN Spend(r, EdgeOf(st), 0)
                                     ELSE usedM[st]]
  BY DEF Begin, Call, CleanPrev, CleanDone, CleanDist
<1>4. \A n \in Nodes : /\ H(r, CleanHcache, n) = Estimate(n)'
                       /\ Estimate(n)' \in Nat
  BY <1>1, <1>3, HeuristicAssumption
     DEF H, CleanHcache, NotCached, Estimate, RequestType
<1>5. /\ hcache' = Cached(r, CleanHcache, {To[EdgeOf(st)] : st \in S})
      /\ queue' = {[state |-> st,
                    priority |-> r.edgeCost[EdgeOf(st)] +
                                 H(r, CleanHcache, To[EdgeOf(st)])] : st \in S}
  BY DEF Begin
<1>6. \A q \in queue' : /\ q \in QueueItem /\ q.state \in S
                        /\ q.priority = r.edgeCost[EdgeOf(q.state)] +
                                         Estimate(To[EdgeOf(q.state)])'
  BY <1>2, <1>4, <1>5 DEF QueueItem
<1>7. \A st \in S : \E q \in queue' :
        /\ q.state = st
        /\ q.priority = r.edgeCost[EdgeOf(st)] + Estimate(To[EdgeOf(st)])'
  <2> TAKE st \in S
  <2> DEFINE q == [state |-> st,
                   priority |-> r.edgeCost[EdgeOf(st)] +
                                H(r, CleanHcache, To[EdgeOf(st)])]
  <2>1. q \in queue'
    BY <1>5
  <2>2. q.state = st /\ q.priority = r.edgeCost[EdgeOf(st)] +
                                     H(r, CleanHcache, To[EdgeOf(st)])
    OBVIOUS
  <2>3. H(r, CleanHcache, To[EdgeOf(st)]) = Estimate(To[EdgeOf(st)])'
    BY <1>2, <1>4
  <2> HIDE DEF q
  <2> QED BY <2>1, <2>2, <2>3
<1>8. TypeOK'
  <2>1. dist' \in [States -> Nat \union {Infinity}]
    BY <1>2, <1>3
  <2>2. usedM' \in [States -> Nat]
    BY <1>1, <1>2, <1>3, SpendType DEF TypeOK
  <2>3. hcache' \in [Nodes -> Nat \union {NotCached}]
    BY <1>4, <1>5 DEF Cached, CleanHcache
  <2>4. queue' \subseteq QueueItem
    BY <1>6
  <2>5. calls' \in 0 .. MaxCalls
    BY <1>1, <1>3, LimitsAssumption DEF TypeOK
  <2> QED BY <1>3, <2>1, <2>2, <2>3, <2>4, <2>5 DEF TypeOK
<1>9. CacheCorrect'
  <2>1. \A n \in Nodes : hcache'[n] \in {NotCached, StraightLine[<<n, r.goal>>]}
    BY <1>5 DEF Cached, CleanHcache, H, NotCached
  <2> QED BY <1>3, <2>1 DEF CacheCorrect
<1>10. \A st \in States : Labelled(st)' <=> st \in S
  BY <1>2, <1>3 DEF Labelled, Infinity
<1>11. LabelsConsistent'
  <2> SUFFICES ASSUME NEW st \in S
               PROVE  /\ EdgeOf(st) \in r.allow
                      /\ usedM'[st] <= r.budgetM
                      /\ st = StateFor(r, EdgeOf(st), usedM'[st])
                      /\ prev'[st] = NoState
                      /\ SeedLabel(st)'
    BY <1>3, <1>10 DEF LabelsConsistent
  <2>1. usedM'[st] = Spend(r, EdgeOf(st), 0) /\ prev'[st] = NoState
    BY <1>2, <1>3
  <2>2. r.budgetM \in Nat
    BY <1>1 DEF RequestType
  <2>3. Spend(r, EdgeOf(st), 0) <= r.budgetM /\ EdgeOf(st) \in r.allow
    BY <1>2, <2>2, SpendWithinBudget
  <2>4. SeedLabel(st)'
    BY <1>2, <1>3, <2>1 DEF SeedLabel
  <2> QED BY <1>2, <2>1, <2>3, <2>4
<1>12. QueueSound'
  <2>1. \A st \in S : Total(st)' = r.edgeCost[EdgeOf(st)] +
                                    Estimate(To[EdgeOf(st)])'
    BY <1>2, <1>3 DEF Total
  <2>2. \A st \in S : Total(st)' \in Nat
    BY <1>2, <1>4, <2>1
  <2>3. \A q \in queue' : /\ Labelled(q.state)'
                          /\ Total(q.state)' <= q.priority
    BY <1>2, <1>6, <1>10, <2>1, <2>2
  <2>4. \A st \in States : Labelled(st)' =>
           \E q \in queue' : q.state = st /\ q.priority = Total(st)'
    BY <1>7, <1>10, <2>1
  <2> QED BY <1>3, <2>3, <2>4 DEF QueueSound
<1>13. SettledRelaxed'
  BY <1>3 DEF SettledRelaxed
<1> QED BY <1>8, <1>9, <1>11, <1>12, <1>13 DEF SearchInv

-----------------------------------------------------------------------------
(* Popping a state that is not settled yet: it is labelled, its label is   *)
(* what it was queued at, and no settled state has a larger total.         *)
LEMMA PoppedFacts ==
  ASSUME SearchInv, status = "running", NEW item \in queue, Least(item),
         item.state \notin done
  PROVE  /\ item.state \in States
         /\ Labelled(item.state)
         /\ Total(item.state) \in Nat
         /\ \A q \in queue : Total(item.state) <= q.priority
         /\ \A d \in done : Total(d) <= Total(item.state)
<1>1. TypeOK /\ CacheCorrect /\ QueueSound
  BY DEF SearchInv
<1>2. item.state \in States /\ queue \subseteq QueueItem
  BY <1>1 DEF TypeOK, QueueItem
<1>3. Labelled(item.state) /\ Total(item.state) <= item.priority
  BY <1>1 DEF QueueSound
<1>4. Total(item.state) \in Nat
  BY <1>1, <1>2, <1>3, StateFields, ReachType, CachedEstimate DEF Total
<1>5. \A q \in queue : q.priority \in Nat /\ item.priority <= q.priority
  BY <1>2 DEF Least, QueueItem
<1>6. \A q \in queue : Total(item.state) <= q.priority
  BY <1>3, <1>4, <1>5
<1>7. PICK q0 \in queue : q0.priority = Total(item.state)
  BY <1>1, <1>2, <1>3 DEF QueueSound
<1>8. \A d \in done : Total(d) <= Total(item.state)
  BY <1>1, <1>7 DEF QueueSound
<1> QED BY <1>2, <1>3, <1>4, <1>6, <1>8

(* Skipping a stale item only shortens the queue: the item's state is      *)
(* settled, so no open label loses its entry.                              *)
LEMMA PopStaleInv ==
  ASSUME SearchInv, NEW item \in queue, PopStale(item)
  PROVE  SearchInv'
<1>1. /\ TypeOK /\ CacheCorrect /\ LabelsConsistent /\ QueueSound
      /\ SettledRelaxed
  BY DEF SearchInv
<1>2. /\ status = "running" /\ item.state \in done
      /\ queue' = queue \ {item}
      /\ UNCHANGED <<dist, usedM, prev, done, hcache, req, expansions, status,
                     result, calls>>
  BY DEF PopStale, Pop
<1>3. TypeOK'
  BY <1>1, <1>2 DEF TypeOK
<1>4. CacheCorrect'
  BY <1>1, <1>2 DEF CacheCorrect
<1>5. LabelsConsistent'
  BY <1>1, <1>2 DEF LabelsConsistent, Labelled, SeedLabel, StepLabel, Reach
<1>6. SettledRelaxed'
  BY <1>1, <1>2 DEF SettledRelaxed, Successors, Labelled, Reach
<1>7. QueueSound'
  <2>1. \A st : /\ Total(st)' = Total(st)
                /\ Labelled(st)' <=> Labelled(st)
    BY <1>2 DEF Total, Estimate, Labelled
  <2>2. \A st \in States : (Labelled(st) /\ st \notin done) =>
           \E q \in queue' : q.state = st /\ q.priority = Total(st)
    BY <1>1, <1>2 DEF QueueSound
  <2>3. /\ \A q \in queue' : Labelled(q.state) /\ Total(q.state) <= q.priority
        /\ \A st \in done : Labelled(st) /\ \A q \in queue' :
                                               Total(st) <= q.priority
    BY <1>1, <1>2 DEF QueueSound
  <2> QED BY <1>2, <2>1, <2>2, <2>3 DEF QueueSound
<1> QED BY <1>3, <1>4, <1>5, <1>6, <1>7 DEF SearchInv

(* Expanding a settled state: the improved successors get new labels, and  *)
(* nothing settled changes.                                                *)
LEMMA PopExpandInv ==
  ASSUME SearchInv, NEW item \in queue, PopExpand(item)
  PROVE  SearchInv'
<1> DEFINE st == item.state
           I == Improved(st)
<1>1. /\ TypeOK /\ CacheCorrect /\ LabelsConsistent /\ QueueSound
      /\ SettledRelaxed /\ req \in Requests
  BY DEF SearchInv, TypeOK
<1>2. /\ status = "running" /\ Least(item) /\ st \notin done
      /\ done' = done \union {st} /\ expansions' = expansions + 1
      /\ UNCHANGED <<req, calls, status>>
      /\ dist' = [t \in States |-> IF t \in I THEN Reach(st, t) ELSE dist[t]]
      /\ usedM' = [t \in States |->
                     IF t \in I THEN Spend(req, EdgeOf(t), usedM[st])
                                ELSE usedM[t]]
      /\ prev' = [t \in States |-> IF t \in I THEN st ELSE prev[t]]
      /\ queue' = (queue \ {item}) \union
                    {[state |-> t, priority |-> Reach(st, t) +
                                     H(req, hcache, To[EdgeOf(t)])] : t \in I}
      /\ hcache' = Cached(req, hcache, {To[EdgeOf(t)] : t \in I})
  BY DEF PopExpand, Settle, Pop, NewPrev
<1>3. /\ st \in States /\ Labelled(st) /\ Total(st) \in Nat
      /\ \A q \in queue : Total(st) <= q.priority
      /\ \A d \in done : Total(d) <= Total(st)
  BY <1>2, PoppedFacts
<1>4. /\ dist[st] \in Nat /\ usedM[st] \in Nat
      /\ usedM[st] <= req.budgetM
  BY <1>1, <1>2, <1>3, ReachType DEF TypeOK, LabelsConsistent
<1>5. ASSUME NEW t \in Successors(st)
      PROVE  /\ t \in States /\ From[EdgeOf(t)] = To[EdgeOf(st)]
             /\ EdgeOf(t) \in Edges /\ To[EdgeOf(t)] \in Nodes
             /\ Spend(req, EdgeOf(t), usedM[st]) \in Nat
             /\ Spend(req, EdgeOf(t), usedM[st]) <= req.budgetM
             /\ EdgeOf(t) \in req.allow
             /\ t = StateFor(req, EdgeOf(t), Spend(req, EdgeOf(t), usedM[st]))
             /\ Reach(st, t) \in Nat
             /\ Estimate(To[EdgeOf(t)]) \in Nat
             /\ H(req, hcache, To[EdgeOf(t)]) = Estimate(To[EdgeOf(t)])
             /\ Total(st) <= Reach(st, t) + Estimate(To[EdgeOf(t)])
  <2>1. /\ t \in States /\ From[EdgeOf(t)] = To[EdgeOf(st)]
        /\ Enterable(req, EdgeOf(t), usedM[st])
        /\ t = StateFor(req, EdgeOf(t), Spend(req, EdgeOf(t), usedM[st]))
    BY <1>1, <1>3, SuccessorFacts
  <2>2. EdgeOf(t) \in Edges /\ To[EdgeOf(t)] \in Nodes
    BY <2>1, StateFields
  <2>3. /\ Spend(req, EdgeOf(t), usedM[st]) \in Nat
        /\ Spend(req, EdgeOf(t), usedM[st]) <= req.budgetM
        /\ EdgeOf(t) \in req.allow
    BY <1>1, <1>4, <2>1, <2>2, SpendWithinBudget
  <2>4. Reach(st, t) \in Nat
    BY <1>1, <1>3, <2>1, ReachType
  <2>5. /\ Estimate(To[EdgeOf(t)]) \in Nat
        /\ H(req, hcache, To[EdgeOf(t)]) = Estimate(To[EdgeOf(t)])
    BY <1>1, <1>2, <2>2, CachedEstimate
  <2>6. Total(st) <= Reach(st, t) + Estimate(To[EdgeOf(t)])
    BY <1>1, <1>2, <1>3, Consistent
  <2> QED BY <2>1, <2>2, <2>3, <2>4, <2>5, <2>6
<1>6. /\ I \subseteq Successors(st) /\ I \subseteq States
      /\ st \notin I /\ \A d \in done : d \notin I
      /\ \A t \in I : Less(Reach(st, t), dist[t])
      /\ \A t \in Successors(st) \ I :
            t \in done \/ t = st \/ ~Less(Reach(st, t), dist[t])
  BY <1>5 DEF Improved
<1>7. TypeOK'
  <2>1. dist' \in [States -> Nat \union {Infinity}]
    BY <1>1, <1>2, <1>5, <1>6 DEF TypeOK
  <2>2. usedM' \in [States -> Nat]
    BY <1>1, <1>2, <1>5, <1>6 DEF TypeOK
  <2>3. prev' \in [States -> States \union {NoState}]
    BY <1>1, <1>2, <1>3 DEF TypeOK
  <2>4. hcache' \in [Nodes -> Nat \union {NotCached}]
    <3>1. \A n \in Nodes : H(req, hcache, n) \in Nat
      BY <1>1, <1>2, CachedEstimate
    <3> QED BY <1>1, <1>2, <3>1 DEF TypeOK, Cached
  <2>5. queue' \subseteq QueueItem
    BY <1>1, <1>2, <1>5, <1>6 DEF TypeOK, QueueItem
  <2> QED BY <1>1, <1>2, <1>3, <2>1, <2>2, <2>3, <2>4, <2>5 DEF TypeOK
<1>8. CacheCorrect'
  <2>1. \A n \in Nodes :
          hcache'[n] \in {NotCached, StraightLine[<<n, req.goal>>]}
    BY <1>1, <1>2 DEF CacheCorrect, Cached, H, NotCached
  <2> QED BY <1>1, <1>2, <2>1 DEF CacheCorrect
\* The new label of an improved state, and the old one of every other.
<1>9. \A t \in I : /\ dist'[t] = Reach(st, t) /\ prev'[t] = st
                   /\ usedM'[t] = Spend(req, EdgeOf(t), usedM[st])
  BY <1>2, <1>6
<1>10. \A t \in States \ I : /\ dist'[t] = dist[t] /\ prev'[t] = prev[t]
                             /\ usedM'[t] = usedM[t]
  BY <1>2
<1>11. \A t \in States : Labelled(t)' <=> (t \in I \/ Labelled(t))
  BY <1>5, <1>6, <1>9, <1>10 DEF Labelled, Infinity
<1>12. \A d \in done' : /\ d \in States \ I
                        /\ \A t : Reach(d, t)' = Reach(d, t)
                        /\ Successors(d)' = Successors(d)
  <2> SUFFICES ASSUME NEW d \in done'
               PROVE  /\ d \in States \ I
                      /\ \A t : Reach(d, t)' = Reach(d, t)
                      /\ Successors(d)' = Successors(d)
    OBVIOUS
  <2>1. d \in States \ I
    BY <1>1, <1>2, <1>3, <1>6 DEF TypeOK
  <2>2. dist'[d] = dist[d] /\ usedM'[d] = usedM[d] /\ req' = req
    BY <1>2, <1>10, <2>1
  <2> QED BY <2>1, <2>2 DEF Reach, Successors
<1>13. LabelsConsistent'
  <2> SUFFICES ASSUME NEW t \in States, Labelled(t)'
               PROVE  /\ EdgeOf(t) \in req.allow
                      /\ usedM'[t] <= req.budgetM
                      /\ t = StateFor(req, EdgeOf(t), usedM'[t])
                      /\ IF prev'[t] = NoState THEN SeedLabel(t)'
                                               ELSE StepLabel(prev[t], t)'
    BY <1>2 DEF LabelsConsistent
  <2>1. CASE t \in I
    <3>1. st # NoState
      BY <1>3, NoStateAssumption
    <3>2. /\ st \in done' /\ Labelled(st)' /\ dist'[st] = dist[st]
          /\ usedM'[st] = usedM[st] /\ Reach(st, t)' = Reach(st, t)
      BY <1>2, <1>3, <1>6, <1>10, <1>11, <1>12
    <3>3. prev'[t] = st /\ StepLabel(st, t)'
      BY <1>2, <1>5, <1>6, <1>9, <2>1, <3>2 DEF StepLabel
    <3>4. StepLabel(prev[t], t)'
      BY <3>3 DEF StepLabel, Labelled, Reach
    <3> QED BY <1>5, <1>6, <1>9, <2>1, <3>1, <3>3, <3>4
  <2>2. CASE t \notin I
    <3>1. /\ Labelled(t) /\ dist'[t] = dist[t] /\ prev'[t] = prev[t]
          /\ usedM'[t] = usedM[t]
      BY <1>10, <1>11, <2>2
    <3>2. /\ EdgeOf(t) \in req.allow /\ usedM[t] <= req.budgetM
          /\ t = StateFor(req, EdgeOf(t), usedM[t])
          /\ IF prev[t] = NoState THEN SeedLabel(t) ELSE StepLabel(prev[t], t)
      BY <1>1, <1>2, <3>1 DEF LabelsConsistent
    <3>3. CASE prev[t] = NoState
      BY <1>2, <3>1, <3>2, <3>3 DEF SeedLabel
    <3>4. CASE prev[t] # NoState
      <4>1. StepLabel(prev[t], t) /\ prev[t] \in done /\ prev[t] \in done'
        BY <1>2, <3>2, <3>4 DEF StepLabel
      <4>2. /\ prev[t] \in States \ I
            /\ Reach(prev[t], t)' = Reach(prev[t], t)
            /\ dist'[prev[t]] = dist[prev[t]]
            /\ usedM'[prev[t]] = usedM[prev[t]]
        BY <1>10, <1>12, <3>1, <4>1 DEF Reach
      <4>3. StepLabel(prev[t], t)'
        BY <1>2, <3>1, <4>1, <4>2 DEF StepLabel, Labelled
      <4> QED BY <3>1, <3>2, <3>4, <4>3
    <3> QED BY <3>3, <3>4
  <2> QED BY <2>1, <2>2
\* Totals of unimproved states stay; an improved state's total is its new
\* priority, below what it was if it had one.
<1>14. \A t \in States \ I : Total(t)' = Total(t)
  BY <1>2, <1>10 DEF Total, Estimate
<1>15. \A t \in I : /\ Total(t)' = Reach(st, t) + Estimate(To[EdgeOf(t)])
                    /\ Total(t)' \in Nat
                    /\ Total(st) <= Total(t)'
                    /\ Labelled(t) => Total(t)' <= Total(t)
  <2> SUFFICES ASSUME NEW t \in I
               PROVE  /\ Total(t)' = Reach(st, t) + Estimate(To[EdgeOf(t)])
                      /\ Total(t)' \in Nat
                      /\ Total(st) <= Total(t)'
                      /\ Labelled(t) => Total(t)' <= Total(t)
    OBVIOUS
  <2>1. Total(t)' = Reach(st, t) + Estimate(To[EdgeOf(t)])
    BY <1>2, <1>9 DEF Total, Estimate
  <2>2. /\ Reach(st, t) \in Nat /\ Estimate(To[EdgeOf(t)]) \in Nat
        /\ Total(st) <= Reach(st, t) + Estimate(To[EdgeOf(t)])
    BY <1>5, <1>6
  <2>3. Labelled(t) => dist[t] \in Nat /\ Reach(st, t) < dist[t]
    BY <1>1, <1>6 DEF Labelled, Less, TypeOK
  <2> QED BY <2>1, <2>2, <2>3 DEF Total
<1>16. ASSUME NEW q \in queue'
       PROVE  \/ q \in queue /\ q # item
              \/ /\ q.state \in I
                 /\ q.priority = Total(q.state)'
  <2>1. CASE q \in queue \ {item}
    BY <2>1
  <2>2. CASE q \notin queue \ {item}
    <3>1. PICK t \in I : q = [state |-> t, priority |-> Reach(st, t) +
                                     H(req, hcache, To[EdgeOf(t)])]
      BY <1>2, <2>2
    <3>2. H(req, hcache, To[EdgeOf(t)]) = Estimate(To[EdgeOf(t)])
      BY <1>5, <1>6
    <3>3. q.state = t /\ q.priority = Reach(st, t) + Estimate(To[EdgeOf(t)])
      BY <3>1, <3>2
    <3> QED BY <1>15, <3>3
  <2> QED BY <2>1, <2>2
<1>17. ASSUME NEW t \in I
       PROVE  \E q \in queue' : q.state = t /\ q.priority = Total(t)'
  <2> DEFINE q == [state |-> t, priority |-> Reach(st, t) +
                                     H(req, hcache, To[EdgeOf(t)])]
  <2>1. q \in queue'
    BY <1>2
  <2>2. /\ q.state = t
        /\ q.priority = Reach(st, t) + H(req, hcache, To[EdgeOf(t)])
    OBVIOUS
  <2>3. H(req, hcache, To[EdgeOf(t)]) = Estimate(To[EdgeOf(t)])
    BY <1>5, <1>6
  <2> HIDE DEF q
  <2> QED BY <1>15, <2>1, <2>2, <2>3
<1>18. QueueSound'
  <2>1. ASSUME NEW q \in queue'
        PROVE  Labelled(q.state)' /\ Total(q.state)' <= q.priority
    <3>1. q \in QueueItem /\ q.state \in States /\ q.priority \in Nat
      BY <1>7 DEF TypeOK, QueueItem
    <3>2. CASE q.state \in I /\ q.priority = Total(q.state)'
      BY <1>11, <1>15, <3>1, <3>2
    <3>3. CASE q \in queue
      <4>1. Labelled(q.state) /\ Total(q.state) <= q.priority
        BY <1>1, <1>2, <3>3 DEF QueueSound
      <4>2. CASE q.state \in I
        <5>1. Total(q.state) \in Nat
          BY <1>1, <1>2, <3>1, <4>1, StateFields, ReachType, CachedEstimate
             DEF Total
        <5> QED BY <1>11, <1>15, <3>1, <4>1, <4>2, <5>1
      <4>3. CASE q.state \notin I
        BY <1>11, <1>14, <3>1, <4>1, <4>3
      <4> QED BY <4>2, <4>3
    <3> QED BY <1>16, <3>2, <3>3
  <2>2. ASSUME NEW t \in States, Labelled(t)', t \notin done'
        PROVE  \E q \in queue' : q.state = t /\ q.priority = Total(t)'
    <3>1. CASE t \in I
      BY <1>17, <3>1
    <3>2. CASE t \notin I
      <4>1. Labelled(t) /\ t \notin done /\ t # st
        BY <1>2, <1>11, <2>2, <3>2
      <4>2. PICK q \in queue : q.state = t /\ q.priority = Total(t)
        BY <1>1, <1>2, <4>1 DEF QueueSound
      <4>3. q \in queue'
        BY <1>2, <4>1, <4>2
      <4> QED BY <1>14, <3>2, <4>2, <4>3
    <3> QED BY <3>1, <3>2
  <2>3. ASSUME NEW d \in done'
        PROVE  Labelled(d)' /\ \A q \in queue' : Total(d)' <= q.priority
    <3>1. d \in States /\ Labelled(d)' /\ Total(d)' = Total(d)
      BY <1>1, <1>2, <1>3, <1>11, <1>12, <1>14 DEF QueueSound
    <3>2. Total(d) <= Total(st)
      BY <1>2, <1>3
    <3>3. Total(d) \in Nat
      <4>1. Labelled(d)
        BY <1>1, <1>2, <1>3 DEF QueueSound
      <4> QED BY <1>1, <1>2, <3>1, <4>1, StateFields, ReachType,
                 CachedEstimate DEF Total
    <3>4. ASSUME NEW q \in queue' PROVE Total(d) <= q.priority
      <4>1. q.priority \in Nat
        BY <1>7 DEF TypeOK, QueueItem
      <4>2. Total(st) <= q.priority
        BY <1>3, <1>15, <1>16
      <4> QED BY <1>3, <3>2, <3>3, <4>1, <4>2
    <3> QED BY <3>1, <3>4
  <2> QED BY <2>1, <2>2, <2>3 DEF QueueSound
\* A successor of an older settled state keeps a label at most as costly;
\* one of st is improved, was no dearer already, or was settled before, and
\* then its total, hence its cost, is no larger.
<1>19. SettledRelaxed'
  <2> SUFFICES ASSUME NEW d \in done', NEW t \in Successors(d)
               PROVE  Labelled(t)' /\ dist'[t] <= Reach(d, t)
    BY <1>2, <1>12 DEF SettledRelaxed
  <2>1. d \in States /\ Labelled(d)
    BY <1>1, <1>2, <1>3, <1>12 DEF QueueSound
  <2>2. t \in States /\ Reach(d, t) \in Nat
    BY <1>1, <2>1, SuccessorFacts, ReachType
  <2>3. CASE d # st
    <3>1. Labelled(t) /\ dist[t] <= Reach(d, t)
      BY <1>1, <1>2, <2>3 DEF SettledRelaxed
    <3>2. dist[t] \in Nat
      BY <1>1, <2>2, <3>1 DEF TypeOK, Labelled
    <3>3. CASE t \in I
      BY <1>5, <1>6, <1>9, <1>11, <2>2, <3>1, <3>2, <3>3 DEF Less, Labelled
    <3>4. CASE t \notin I
      BY <1>10, <1>11, <2>2, <3>1, <3>4
    <3> QED BY <3>3, <3>4
  <2>4. CASE d = st
    <3>1. CASE t \in I
      BY <1>5, <1>6, <1>9, <1>11, <2>2, <2>4, <3>1
    <3>2. CASE t \notin I /\ t \notin done /\ t # st
      <4>1. ~Less(Reach(st, t), dist[t])
        BY <1>6, <2>4, <3>2
      <4>2. Labelled(t) /\ dist[t] \in Nat /\ dist[t] <= Reach(st, t)
        BY <1>1, <2>2, <2>4, <4>1 DEF Less, Labelled, TypeOK
      <4> QED BY <1>10, <1>11, <2>2, <2>4, <3>2, <4>2
    <3>3. CASE t = st
      <4>1. dist[st] <= Reach(st, t)
        <5>1. req.edgeCost[EdgeOf(t)] \in Nat
          BY <1>1, <1>5, <2>4, CostTypes
        <5>2. dist[st] + req.edgeCost[EdgeOf(t)] <= Reach(st, t)
          BY <1>1, <1>3, <2>2, ReachType
        <5> QED BY <1>4, <2>2, <2>4, <5>1, <5>2
      <4> QED BY <1>3, <1>6, <1>10, <1>11, <2>2, <2>4, <3>3, <4>1
    <3>4. CASE t \in done
      <4>1. Labelled(t) /\ Total(t) <= Total(st)
        BY <1>1, <1>2, <1>3, <3>4 DEF QueueSound
      <4>2. dist[t] \in Nat /\ Estimate(To[EdgeOf(t)]) \in Nat
        BY <1>1, <1>5, <2>2, <2>4, <4>1, ReachType
      <4>3. Total(st) <= Reach(st, t) + Estimate(To[EdgeOf(t)])
        BY <1>5, <2>4
      <4>4. dist[t] <= Reach(st, t)
        BY <1>3, <2>2, <2>4, <4>1, <4>2, <4>3 DEF Total
      <4> QED BY <1>6, <1>10, <1>11, <2>2, <2>4, <3>4, <4>1, <4>4
    <3> QED BY <3>1, <3>2, <3>3, <3>4
  <2> QED BY <2>3, <2>4
<1> QED BY <1>7, <1>8, <1>13, <1>18, <1>19 DEF SearchInv

-----------------------------------------------------------------------------
(* Every step of the specification preserves the invariant.                *)
LEMMA NextInv == SearchInv /\ [Next]_vars => SearchInv'
<1> SUFFICES ASSUME SearchInv, [Next]_vars PROVE SearchInv'
  OBVIOUS
<1>1. TypeOK
  BY DEF SearchInv
<1>2. ASSUME NEW r \in Requests, ReturnEarly(r) PROVE SearchInv'
  <2>1. /\ UNCHANGED <<dist, usedM, prev, done, hcache, queue>>
        /\ req' = r /\ expansions' = 0 /\ status' = "returned"
        /\ calls < MaxCalls /\ calls' = calls + 1
    BY <1>2 DEF ReturnEarly, Call, workspace
  <2>2. calls' \in 0 .. MaxCalls
    BY <1>1, <2>1, LimitsAssumption DEF TypeOK
  <2>3. TypeOK'
    BY <1>1, <2>1, <2>2 DEF TypeOK
  <2> QED BY <1>1, <2>1, <2>3, ReturnInv
<1>3. ASSUME NEW r \in Requests, Begin(r) PROVE SearchInv'
  BY <1>3, BeginInv
<1>4. ASSUME NEW item \in queue, PopStale(item) PROVE SearchInv'
  BY <1>4, PopStaleInv
<1>5. ASSUME NEW item \in queue, PopOverLimit(item) \/ PopGoal(item)
      PROVE  SearchInv'
  <2>1. item.state \in States
    BY <1>1 DEF TypeOK, QueueItem
  <2>2. TypeOK' /\ status' = "returned"
    BY <1>1, <1>5, <2>1 DEF TypeOK, PopOverLimit, PopGoal, Settle, Return
  <2> QED BY <1>1, <2>2, ReturnInv
<1>6. ASSUME NEW item \in queue, PopExpand(item) PROVE SearchInv'
  BY <1>6, PopExpandInv
<1>7. CASE Exhausted
  <2>1. TypeOK' /\ status' = "returned"
    BY <1>1, <1>7 DEF TypeOK, Exhausted, Return
  <2> QED BY <1>1, <2>1, ReturnInv
<1>8. CASE UNCHANGED vars
  <2>1. TypeOK' /\ CacheCorrect'
    BY <1>8 DEF vars, SearchInv, TypeOK, CacheCorrect
  <2>2. LabelsConsistent'
    BY <1>8 DEF vars, SearchInv, LabelsConsistent, Labelled, SeedLabel,
                StepLabel, Reach
  <2>3. QueueSound'
    BY <1>8 DEF vars, SearchInv, QueueSound, Labelled, Total, Estimate
  <2>4. SettledRelaxed'
    BY <1>8 DEF vars, SearchInv, SettledRelaxed, Labelled, Successors, Reach
  <2> QED BY <2>1, <2>2, <2>3, <2>4 DEF SearchInv
<1> QED BY <1>2, <1>3, <1>4, <1>5, <1>6, <1>7, <1>8 DEF Next, Loop, Finished

(* The inductive invariant holds in every reachable state.                 *)
THEOREM SearchInvariant == Spec => []SearchInv
BY InitInv, NextInv, PTL DEF Spec

(* The workspace arrays, the queue and the counters are well typed in every*)
(* state of every sequence of searches.                                    *)
THEOREM TypeCorrect == Spec => []TypeOK
<1>1. SearchInv => TypeOK
  BY DEF SearchInv
<1> QED BY <1>1, SearchInvariant, PTL

(* Every label of a running search is the exact cost and the exact metres  *)
(* of a predecessor chain within the budget, for every graph and request.  *)
THEOREM LabelsAreConsistent == Spec => []LabelsConsistent
<1>1. SearchInv => LabelsConsistent
  BY DEF SearchInv
<1> QED BY <1>1, SearchInvariant, PTL

(* With the code's heuristic no settled state ever offers a cheaper way to *)
(* one of its successors: settling each state once loses nothing.          *)
THEOREM SettledAreRelaxed == Spec => []SettledRelaxed
<1>1. SearchInv => SettledRelaxed
  BY DEF SearchInv
<1> QED BY <1>1, SearchInvariant, PTL

(* A settled label never changes while its search runs.                    *)
THEOREM SettledLabelsFrozen == Spec => SettledFrozen
<1>1. SearchInv /\ [Next]_vars =>
        [status = "running" =>
           \A st \in done : /\ st \in done'
                            /\ dist'[st] = dist[st]
                            /\ usedM'[st] = usedM[st]
                            /\ prev'[st] = prev[st]]_vars
  <2> SUFFICES ASSUME SearchInv, Next, status = "running", NEW st \in done
               PROVE  /\ st \in done'
                      /\ dist'[st] = dist[st]
                      /\ usedM'[st] = usedM[st]
                      /\ prev'[st] = prev[st]
    OBVIOUS
  <2>1. st \in States
    BY DEF SearchInv, TypeOK
  <2>2. ASSUME NEW item \in queue, PopExpand(item)
        PROVE  /\ st \in done'
               /\ dist'[st] = dist[st]
               /\ usedM'[st] = usedM[st]
               /\ prev'[st] = prev[st]
    <3>1. st \notin Improved(item.state)
      BY DEF Improved
    <3> QED BY <2>1, <2>2, <3>1 DEF PopExpand, Settle, NewPrev
  <2>3. ASSUME NEW item \in queue,
               PopStale(item) \/ PopOverLimit(item) \/ PopGoal(item)
        PROVE  /\ st \in done'
               /\ dist'[st] = dist[st]
               /\ usedM'[st] = usedM[st]
               /\ prev'[st] = prev[st]
    BY <2>3 DEF PopStale, PopOverLimit, PopGoal, Settle
  <2>4. CASE Exhausted
    BY <2>4 DEF Exhausted
  <2>5. CASE Finished
    BY <2>5 DEF Finished
  <2> QED BY <2>2, <2>3, <2>4, <2>5 DEF Next, Loop, ReturnEarly, Begin, Call
<1> QED BY <1>1, SearchInvariant, PTL DEF Spec, SettledFrozen

(* No route ever contains more over-threshold road than the rider's budget,*)
(* however coarse the buckets are.                                         *)
THEOREM BudgetRespected == Spec => []RouteWithinBudget
<1>1. Init => RouteWithinBudget
  BY DEF Init, RouteWithinBudget, NoResult
<1>2. SearchInv /\ RouteWithinBudget /\ [Next]_vars => RouteWithinBudget'
  <2> SUFFICES ASSUME SearchInv, RouteWithinBudget, [Next]_vars
               PROVE  RouteWithinBudget'
    OBVIOUS
  <2>1. ASSUME NEW r \in Requests, ReturnEarly(r) PROVE RouteWithinBudget'
    <3>1. result'.usedM = 0 /\ req' = r /\ r.budgetM \in Nat
      BY <2>1, RequestAssumption
         DEF ReturnEarly, Call, Bare, NoResult, RequestType
    <3> QED BY <3>1 DEF RouteWithinBudget
  <2>2. ASSUME NEW r \in Requests, Begin(r) PROVE RouteWithinBudget'
    BY <2>2 DEF Begin, NoResult, RouteWithinBudget
  <2>3. ASSUME NEW item \in queue, PopGoal(item) PROVE RouteWithinBudget'
    <3>1. /\ status = "running" /\ Least(item) /\ item.state \notin done
          /\ req' = req
          /\ result' = buildPath(item.state, expansions + 1)
      BY <2>3 DEF PopGoal, Settle, Pop, Return
    <3>2. item.state \in States /\ Labelled(item.state)
      BY <3>1, PoppedFacts
    <3>3. usedM[item.state] <= req.budgetM
      BY <3>1, <3>2 DEF SearchInv, LabelsConsistent
    <3>4. result'.usedM = usedM[item.state]
      BY <3>1 DEF buildPath
    <3> QED BY <3>1, <3>3, <3>4 DEF RouteWithinBudget
  <2>4. ASSUME NEW item \in queue,
               PopStale(item) \/ PopOverLimit(item) \/ PopExpand(item)
        PROVE  RouteWithinBudget'
    BY <2>4 DEF PopStale, PopOverLimit, PopExpand, Settle, Return, Bare,
                NoResult, RouteWithinBudget
  <2>5. CASE Exhausted
    BY <2>5 DEF Exhausted, Return, Bare, NoResult, RouteWithinBudget
  <2>6. CASE UNCHANGED vars
    BY <2>6 DEF vars, RouteWithinBudget
  <2> QED BY <2>1, <2>2, <2>3, <2>4, <2>5, <2>6 DEF Next, Loop, Finished
<1> QED BY <1>1, <1>2, SearchInvariant, PTL DEF Spec

-----------------------------------------------------------------------------
(* No comfortable route is overlooked.  A search that has not returned has *)
(* gone some way along every such route: the first edge of the route whose *)
(* state is not settled is labelled, waits in the queue, and promises no   *)
(* more than the route costs.  So the queue cannot have run dry, and what  *)
(* is popped at the goal is no dearer.                                     *)

\* What the search's start and its goal test leave true of a running search.
Frontier ==
  status = "running" =>
    /\ req.start # req.goal
    /\ {req.start, req.goal} \subseteq Nodes
    /\ \A st \in Seeds(req) : Labelled(st) /\ dist[st] <= req.edgeCost[EdgeOf(st)]
    /\ \A st \in done : To[EdgeOf(st)] # req.goal

ComfortInv == SearchInv /\ Frontier /\ NoComfortableRouteLost

\* What a rider spends first falls into the first bucket.
LEMMA FirstBucket ==
  ASSUME NEW r \in Requests
  PROVE  bucketOf(r, 0) = 0
<1>1. budgetBuckets(r) \in 1 .. MaxBudgetSteps
  BY RequestAssumption, LimitsAssumption DEF budgetBuckets, RequestType
<1>2. CASE budgetBuckets(r) = 1
  BY <1>2 DEF bucketOf
<1>3. CASE budgetBuckets(r) # 1
  <2>1. r.budgetM \in Nat \ {0}
    BY <1>3, RequestAssumption DEF budgetBuckets, RequestType
  <2>2. (0 * budgetBuckets(r)) \div r.budgetM = 0
    BY <1>1, <2>1
  <2> QED  BY <1>1, <1>3, <2>2, LimitsAssumption DEF bucketOf
<1> QED  BY <1>2, <1>3

\* Entering an edge lowers the estimate by no more than the edge costs.
LEMMA EstimateDrops ==
  ASSUME TypeOK, CacheCorrect, status = "running", NEW f \in Edges
  PROVE  /\ Estimate(From[f]) \in Nat /\ Estimate(To[f]) \in Nat
         /\ Estimate(From[f]) <= req.edgeCost[f] + Estimate(To[f])
<1>1. /\ req \in Requests /\ req.goal \in Nodes /\ From[f] \in Nodes /\ To[f] \in Nodes
      /\ LengthM[f] \in Nat
  BY GraphAssumption DEF TypeOK, CacheCorrect
<1>2. Estimate(From[f]) \in Nat /\ Estimate(To[f]) \in Nat
  BY <1>1, CachedEstimate
<1>3. req.edgeCost[f] \in Nat
  BY <1>1, CostTypes
<1>4. CASE req.noHeuristic
  BY <1>2, <1>3, <1>4 DEF Estimate
<1>5. CASE ~req.noHeuristic
  <2>1. LengthM[f] <= req.edgeCost[f]
    BY <1>1, <1>5, HeuristicAssumption
  <2>2. StraightLine[<<From[f], req.goal>>] <= LengthM[f] + StraightLine[<<To[f], req.goal>>]
    BY <1>1, HeuristicAssumption
  <2> QED  BY <1>1, <1>2, <1>3, <1>5, <2>1, <2>2 DEF Estimate
<1> QED  BY <1>2, <1>4, <1>5

\* A settled state in the first bucket has labelled the state of any edge
\* that follows and spends nothing.
LEMMA Onward ==
  ASSUME SearchInv, status = "running", NEW e \in Edges, NEW f \in Edges,
         <<e, 0>> \in done, From[f] = To[e], f \in req.allow, Spend(req, f, 0) = 0
  PROVE  /\ Labelled(<<e, 0>>) /\ Labelled(<<f, 0>>)
         /\ dist[<<f, 0>>] <= dist[<<e, 0>>] + req.edgeCost[f] + req.turnCost[<<e, f>>]
<1> DEFINE st == <<e, 0>>  t == <<f, 0>>
<1>1. TypeOK /\ LabelsConsistent /\ SettledRelaxed /\ QueueSound
  BY DEF SearchInv
<1>2. st \in States /\ EdgeOf(st) = e /\ EdgeOf(t) = f /\ st \in done
  BY <1>1 DEF TypeOK, EdgeOf
<1>3. Labelled(st)
  BY <1>1, <1>2 DEF QueueSound
<1>4. usedM[st] \in Nat /\ usedM[st] <= req.budgetM /\ st = StateFor(req, e, usedM[st])
  BY <1>1, <1>2, <1>3 DEF LabelsConsistent, TypeOK
<1>5. bucketOf(req, usedM[st]) = 0
  BY <1>4 DEF StateFor
<1>6. LengthM[f] \in Nat /\ req \in Requests /\ req.budgetM \in Nat
  BY <1>1, GraphAssumption, RequestAssumption DEF TypeOK, RequestType
<1>7. Enterable(req, f, usedM[st]) /\ Spend(req, f, usedM[st]) = usedM[st]
  BY <1>4, <1>6 DEF Enterable, Spend
<1>8. f \in OutEdges(To[EdgeOf(st)])
  BY <1>2 DEF OutEdges
<1>9. t = StateFor(req, f, Spend(req, f, usedM[st]))
  BY <1>5, <1>7 DEF StateFor
<1>10. t \in Successors(st)
  BY <1>7, <1>8, <1>9 DEF Successors
<1>11. Labelled(t) /\ dist[t] <= Reach(st, t)
  BY <1>1, <1>2, <1>10 DEF SettledRelaxed
<1>12. Reach(st, t) = dist[st] + req.edgeCost[f] + req.turnCost[<<e, f>>]
  BY <1>2 DEF Reach
<1> QED  BY <1>3, <1>11, <1>12

\* Along a route nothing is estimated above what the rest of it costs.
LEMMA EstimateAlong ==
  ASSUME TypeOK, CacheCorrect, status = "running",
         NEW w \in Seq(Edges), Len(w) \in Nat \ {0}, SimpleWalk(w, Len(w)),
         NEW c, \A i \in 1 .. Len(w) : c[i] \in Nat,
         \A i \in 1 .. Len(w) - 1 :
           c[i + 1] = c[i] + req.edgeCost[w[i + 1]] + req.turnCost[<<w[i], w[i + 1]>>],
         NEW i \in 1 .. Len(w)
  PROVE  c[i] + Estimate(To[w[i]]) <= c[Len(w)] + Estimate(To[w[Len(w)]])
<1> DEFINE n == Len(w)
           T == {k \in Nat : i + k <= n =>
                   c[i] + Estimate(To[w[i]]) <= c[i + k] + Estimate(To[w[i + k]])}
<1>0. \A j \in 1 .. n : w[j] \in Edges /\ c[j] \in Nat /\ Estimate(To[w[j]]) \in Nat
  BY EstimateDrops
<1>1. 0 \in T
  <2>1. i + 0 = i  OBVIOUS
  <2>2. c[i] \in Nat /\ Estimate(To[w[i]]) \in Nat  BY <1>0
  <2> QED  BY <2>1, <2>2
<1>2. ASSUME NEW k \in T PROVE k + 1 \in T
  <2> SUFFICES ASSUME i + (k + 1) <= n
               PROVE  c[i] + Estimate(To[w[i]])
                        <= c[i + (k + 1)] + Estimate(To[w[i + (k + 1)]])
    OBVIOUS
  <2> DEFINE j == i + k
  <2>1. j \in 1 .. n - 1 /\ j \in 1 .. n /\ j + 1 \in 1 .. n /\ i + (k + 1) = j + 1 /\ j <= n
    OBVIOUS
  <2>2. c[i] + Estimate(To[w[i]]) <= c[j] + Estimate(To[w[j]])
    BY <2>1
  <2> HIDE DEF j, T
  <2>3. c[j + 1] = c[j] + req.edgeCost[w[j + 1]] + req.turnCost[<<w[j], w[j + 1]>>]
    BY <2>1
  <2>4. /\ req.edgeCost[w[j + 1]] \in Nat /\ req.turnCost[<<w[j], w[j + 1]>>] \in Nat
    <3>1. w[j] \in Edges /\ w[j + 1] \in Edges /\ req \in Requests
      BY <1>0, <2>1 DEF TypeOK
    <3> QED  BY <3>1, CostTypes
  <2>5. Estimate(To[w[j]]) <= req.edgeCost[w[j + 1]] + Estimate(To[w[j + 1]])
    <3>1. To[w[j]] = From[w[j + 1]]
      BY <2>1 DEF SimpleWalk
    <3>2. Estimate(From[w[j + 1]]) <= req.edgeCost[w[j + 1]] + Estimate(To[w[j + 1]])
      BY <1>0, <2>1, EstimateDrops
    <3> QED  BY <3>1, <3>2
  <2>6. /\ c[i] \in Nat /\ c[j] \in Nat /\ c[j + 1] \in Nat
        /\ Estimate(To[w[i]]) \in Nat /\ Estimate(To[w[j]]) \in Nat
        /\ Estimate(To[w[j + 1]]) \in Nat
    BY <1>0, <2>1
  <2>7. c[i] + Estimate(To[w[i]]) <= c[j + 1] + Estimate(To[w[j + 1]])
    <3> DEFINE a == c[i]  x == Estimate(To[w[i]])  b == c[j]  y == Estimate(To[w[j]])
               d == c[j + 1]  z == Estimate(To[w[j + 1]])
               e == req.edgeCost[w[j + 1]]  t == req.turnCost[<<w[j], w[j + 1]>>]
    <3>1. /\ a \in Nat /\ x \in Nat /\ b \in Nat /\ y \in Nat /\ d \in Nat /\ z \in Nat
          /\ e \in Nat /\ t \in Nat
      BY <2>4, <2>6
    <3>2. a + x <= b + y /\ d = b + e + t /\ y <= e + z
      BY <2>2, <2>3, <2>5
    <3> HIDE DEF a, x, b, y, d, z, e, t
    <3>3. a + x <= d + z
      BY <3>1, <3>2
    <3> QED  BY <3>3 DEF a, x, d, z
  <2> QED  BY <2>1, <2>7
<1> HIDE DEF T
<1>3. T = Nat  BY <1>1, <1>2, Induct DEF T
<1>4. n - i \in T /\ i + (n - i) = n /\ i + (n - i) <= n
  BY <1>3
<1> QED  BY <1>4 DEF T

\* While a search runs, every comfortable route has an edge in the queue that
\* promises no more than the route costs.
LEMMA Promising ==
  ASSUME SearchInv, Frontier, status = "running",
         NEW w \in Candidates(req), WalkUsed(req, w) = 0
  PROVE  \E q \in queue : q.priority <= WalkCost(req, w) + Estimate(req.goal)
<1> DEFINE n == Len(w)
           st(i) == <<w[i], 0>>
<1>1. /\ TypeOK /\ CacheCorrect /\ LabelsConsistent /\ QueueSound /\ SettledRelaxed
      /\ req \in Requests /\ Sensible(req) /\ req.budgetM \in Nat
  BY RequestAssumption DEF SearchInv, TypeOK, Sensible, RequestType
<1>2. /\ n \in Nat \ {0} /\ w \in Seq(Edges) /\ SimpleWalk(w, n)
      /\ From[w[1]] = req.start /\ To[Last(w)] = req.goal
      /\ Range(w) \subseteq req.allow
  BY CandidateFacts
<1>3. \A i \in 1 .. n : w[i] \in Edges /\ w[i] \in req.allow
  BY <1>2 DEF Range
<1>4. To[w[n]] = req.goal
  BY <1>2 DEF Last
<1>5. \A i \in 1 .. n : Spend(req, w[i], 0) = 0
  <2> DEFINE s == [i \in 1 .. n |-> Spend(req, w[i], 0)]
  <2>1. Len(s) = n /\ \A i \in 1 .. n : s[i] = Spend(req, w[i], 0)
    BY <1>2
  <2>2. \A i \in 1 .. n : s[i] \in Nat
    BY <1>1, <1>3, <2>1, SpendType
  <2>3. SumUp(s) = 0
    BY DEF WalkUsed
  <2> HIDE DEF s
  <2> QED  BY <1>2, <2>1, <2>2, <2>3, NothingSpent
<1>6. PICK c : /\ c[1] = req.edgeCost[w[1]]
               /\ \A i \in 1 .. n : c[i] \in Nat
               /\ \A i \in 1 .. n - 1 :
                    c[i + 1] = c[i] + req.edgeCost[w[i + 1]] + req.turnCost[<<w[i], w[i + 1]>>]
               /\ c[n] = WalkCost(req, w)
  BY <1>1, <1>2, CostSoFar
<1>7. \A i \in 1 .. n : st(i) \in States /\ EdgeOf(st(i)) = w[i]
  BY <1>3, LimitsAssumption DEF States, EdgeOf
\* The first edge of the route that is not settled.
<1>8. \E i \in 1 .. n : Labelled(st(i)) /\ dist[st(i)] <= c[i] /\ st(i) \notin done
  <2> SUFFICES ASSUME \A i \in 1 .. n :
                        Labelled(st(i)) /\ dist[st(i)] <= c[i] => st(i) \in done
               PROVE  FALSE
    OBVIOUS
  <2> DEFINE T == {k \in Nat : k + 1 <= n =>
                     Labelled(st(k + 1)) /\ dist[st(k + 1)] <= c[k + 1]}
  <2>1. 0 \in T
    <3>1. 1 \in 1 .. n /\ 0 + 1 = 1  BY <1>2
    <3>2. w[1] \in OutEdges(req.start)
      BY <1>2, <1>3, <3>1 DEF OutEdges
    <3>3. Enterable(req, w[1], 0)
      <4>1. LengthM[w[1]] \in Nat  BY <1>3, <3>1, GraphAssumption
      <4>2. w[1] \in req.allow /\ Spend(req, w[1], 0) = 0  BY <1>3, <1>5, <3>1
      <4> QED  BY <1>1, <4>1, <4>2 DEF Enterable, Spend
    <3>4. st(1) = StateFor(req, w[1], Spend(req, w[1], 0))
      BY <1>1, <1>5, <3>1, FirstBucket DEF StateFor
    <3>5. st(1) \in Seeds(req)
      BY <3>2, <3>3, <3>4 DEF Seeds
    <3>6. Labelled(st(1)) /\ dist[st(1)] <= req.edgeCost[w[1]]
      BY <1>7, <3>1, <3>5 DEF Frontier
    <3> HIDE DEF st
    <3> QED  BY <1>6, <3>1, <3>6
  <2>2. ASSUME NEW k \in T PROVE k + 1 \in T
    <3> SUFFICES ASSUME (k + 1) + 1 <= n
                 PROVE  Labelled(st((k + 1) + 1)) /\ dist[st((k + 1) + 1)] <= c[(k + 1) + 1]
      OBVIOUS
    <3> DEFINE j == k + 1
    <3>1. j \in 1 .. n /\ j \in 1 .. n - 1 /\ j + 1 \in 1 .. n
      BY <1>2
    <3>2. Labelled(st(j)) /\ dist[st(j)] <= c[j]
      BY <3>1
    <3>3. st(j) \in done
      BY <3>1, <3>2
    <3> HIDE DEF j, T
    <3>4. /\ w[j] \in Edges /\ w[j + 1] \in Edges /\ w[j + 1] \in req.allow
          /\ Spend(req, w[j + 1], 0) = 0 /\ From[w[j + 1]] = To[w[j]]
      BY <1>2, <1>3, <1>5, <3>1 DEF SimpleWalk
    <3>5. /\ Labelled(st(j + 1))
          /\ dist[st(j + 1)] <= dist[st(j)] + req.edgeCost[w[j + 1]]
                                + req.turnCost[<<w[j], w[j + 1]>>]
      BY <3>3, <3>4, Onward
    <3>6. c[j + 1] = c[j] + req.edgeCost[w[j + 1]] + req.turnCost[<<w[j], w[j + 1]>>]
      BY <1>6, <3>1
    <3>7. /\ dist[st(j)] \in Nat /\ dist[st(j + 1)] \in Nat
          /\ c[j] \in Nat /\ c[j + 1] \in Nat
      BY <1>1, <1>6, <1>7, <3>1, <3>2, <3>5 DEF Labelled, TypeOK
    <3>8. req.edgeCost[w[j + 1]] \in Nat /\ req.turnCost[<<w[j], w[j + 1]>>] \in Nat
      BY <1>1, <3>4, CostTypes
    <3> HIDE DEF st
    <3>9. dist[st(j + 1)] <= c[j + 1]
      BY SMTT(30), <3>2, <3>5, <3>6, <3>7, <3>8
    <3> QED  BY <3>5, <3>9 DEF j
  <2> HIDE DEF T, st
  <2>3. T = Nat  BY <2>1, <2>2, Induct DEF T
  <2>4. n - 1 \in T /\ (n - 1) + 1 = n /\ n \in 1 .. n /\ (n - 1) + 1 <= n
    BY <1>2, <2>3
  <2>5. Labelled(st(n)) /\ dist[st(n)] <= c[n]
    BY <2>4 DEF T
  <2>6. st(n) \in done
    BY <2>4, <2>5
  <2>7. To[EdgeOf(st(n))] = req.goal
    BY <1>4, <1>7, <2>4
  <2> QED  BY <2>6, <2>7 DEF Frontier
<1>9. PICK i \in 1 .. n : Labelled(st(i)) /\ dist[st(i)] <= c[i] /\ st(i) \notin done
  BY <1>8
<1>10. PICK q \in queue : q.state = st(i) /\ q.priority = Total(st(i))
  BY <1>1, <1>7, <1>9 DEF QueueSound
<1>11. Total(st(i)) = dist[st(i)] + Estimate(To[w[i]])
  BY <1>7 DEF Total
<1>12. c[i] + Estimate(To[w[i]]) <= c[n] + Estimate(To[w[n]])
  BY <1>1, <1>2, <1>6, EstimateAlong
<1>13. /\ dist[st(i)] \in Nat /\ c[i] \in Nat /\ Estimate(To[w[i]]) \in Nat
       /\ c[n] \in Nat /\ Estimate(To[w[n]]) \in Nat
  <2>1. dist[st(i)] \in Nat  BY <1>1, <1>7, <1>9 DEF Labelled, TypeOK
  <2>2. n \in 1 .. n  BY <1>2
  <2>3. w[i] \in Edges /\ w[n] \in Edges  BY <1>3, <2>2
  <2> QED  BY <1>1, <1>6, <2>1, <2>2, <2>3, EstimateDrops
<1> HIDE DEF st
<1>14. q.priority <= c[n] + Estimate(To[w[n]])
  BY <1>9, <1>10, <1>11, <1>12, <1>13
<1> QED  BY <1>4, <1>6, <1>10, <1>14

LEMMA FrontierInit == Init => Frontier /\ NoComfortableRouteLost
BY DEF Init, Frontier, NoComfortableRouteLost

LEMMA FrontierStep ==
  ASSUME SearchInv, Frontier, [Next]_vars
  PROVE  Frontier'
<1>1. ASSUME NEW r \in Requests, ReturnEarly(r) PROVE Frontier'
  BY <1>1 DEF ReturnEarly, Frontier
<1>2. ASSUME NEW r \in Requests, Begin(r) PROVE Frontier'
  <2>1. /\ req' = r /\ r.start # r.goal /\ {r.start, r.goal} \subseteq Nodes
        /\ done' = {} /\ Seeds(req)' = Seeds(r)
        /\ dist' = [st \in States |-> IF st \in Seeds(r) THEN r.edgeCost[EdgeOf(st)]
                                                       ELSE Infinity]
    BY <1>2 DEF Begin, Call, CleanDone, CleanDist, Seeds
  <2>2. ASSUME NEW st \in Seeds(r)
        PROVE  dist'[st] = r.edgeCost[EdgeOf(st)] /\ r.edgeCost[EdgeOf(st)] \in Nat
    <3>1. st \in States  BY SeedFacts
    <3> QED  BY <2>1, <3>1, StateFields, CostTypes
  <2>3. \A st \in Seeds(r) : Labelled(st)' /\ dist'[st] <= r.edgeCost[EdgeOf(st)]
    BY <2>2 DEF Labelled, Infinity
  <2> QED  BY <2>1, <2>3 DEF Frontier
<1>3. ASSUME NEW item \in queue, PopStale(item) PROVE Frontier'
  BY <1>3 DEF PopStale, Frontier, Seeds, Labelled
<1>4. ASSUME NEW item \in queue, PopOverLimit(item) \/ PopGoal(item) PROVE Frontier'
  BY <1>4 DEF PopOverLimit, PopGoal, Return, Frontier
<1>5. ASSUME NEW item \in queue, PopExpand(item) PROVE Frontier'
  <2> DEFINE st == item.state
  <2>1. /\ status = "running" /\ req' = req /\ done' = done \union {st}
        /\ To[EdgeOf(st)] # req.goal /\ st \notin done /\ Least(item)
        /\ dist' = [t \in States |-> IF t \in Improved(st) THEN Reach(st, t) ELSE dist[t]]
    BY <1>5 DEF PopExpand, Settle, Pop
  <2>2. st \in States /\ Labelled(st) /\ TypeOK /\ req \in Requests
    BY <2>1, PoppedFacts DEF SearchInv, TypeOK
  <2>3. ASSUME NEW t \in Seeds(req)
        PROVE  Labelled(t)' /\ dist'[t] <= req.edgeCost[EdgeOf(t)]
    <3>1. Labelled(t) /\ dist[t] <= req.edgeCost[EdgeOf(t)] /\ t \in States
      BY <2>1, <2>2, SeedFacts DEF Frontier
    <3>2. dist[t] \in Nat /\ req.edgeCost[EdgeOf(t)] \in Nat /\ Reach(st, t) \in Nat
      BY <2>2, <3>1, StateFields, CostTypes, ReachType DEF TypeOK, Labelled
    <3>3. CASE t \in Improved(st)
      <4>1. Reach(st, t) < dist[t]
        BY <3>1, <3>3 DEF Improved, Less, Labelled
      <4>2. dist'[t] = Reach(st, t)
        BY <2>1, <3>1, <3>3
      <4> QED  BY <3>1, <3>2, <4>1, <4>2 DEF Labelled, Infinity
    <3>4. CASE t \notin Improved(st)
      BY <2>1, <3>1, <3>4 DEF Labelled
    <3> QED  BY <3>3, <3>4
  <2>4. Seeds(req)' = Seeds(req)
    BY <2>1 DEF Seeds
  <2> QED  BY <2>1, <2>3, <2>4 DEF Frontier
<1>6. CASE Exhausted
  BY <1>6 DEF Exhausted, Return, Frontier
<1>7. CASE UNCHANGED vars
  BY <1>7 DEF vars, Frontier, Seeds, Labelled
<1> QED  BY <1>1, <1>2, <1>3, <1>4, <1>5, <1>6, <1>7 DEF Next, Loop, Finished

\* What is popped at the goal costs no more than any comfortable route.
LEMMA PoppedAtGoal ==
  ASSUME SearchInv, Frontier, status = "running",
         NEW item \in queue, Least(item), item.state \notin done,
         To[EdgeOf(item.state)] = req.goal
  PROVE  \A c \in ComfortableCosts(req) : dist[item.state] <= c
<1> DEFINE st == item.state
<1>1. TypeOK /\ CacheCorrect
  BY DEF SearchInv
<1>2. /\ st \in States /\ Labelled(st)
      /\ \A q \in queue : Total(st) <= q.priority
  BY PoppedFacts
<1>3. /\ Total(st) = dist[st] + Estimate(req.goal)
      /\ dist[st] \in Nat /\ Estimate(req.goal) \in Nat
  BY <1>1, <1>2, CachedEstimate DEF Total, TypeOK, Labelled, CacheCorrect
<1> SUFFICES ASSUME NEW c \in ComfortableCosts(req) PROVE dist[st] <= c
  OBVIOUS
<1>4. PICK w \in Candidates(req) : WalkUsed(req, w) = 0 /\ c = WalkCost(req, w)
  BY DEF ComfortableCosts
<1>5. PICK q \in queue : q.priority <= WalkCost(req, w) + Estimate(req.goal)
  BY <1>4, Promising
<1>6. q.priority \in Nat
  BY <1>1, <1>5 DEF TypeOK, QueueItem
<1>7. WalkCost(req, w) \in Nat
  <2>1. w \in Seq(Edges)  BY CandidateFacts
  <2>2. Sensible(req)
    BY <1>1, RequestAssumption DEF TypeOK, Sensible, RequestType
  <2> QED  BY <2>1, <2>2, WalkTotals
<1>8. dist[st] + Estimate(req.goal) <= q.priority
  BY <1>2, <1>3, <1>5
<1> QED  BY <1>3, <1>4, <1>5, <1>6, <1>7, <1>8

LEMMA ComfortStep ==
  ASSUME SearchInv, Frontier, NoComfortableRouteLost, [Next]_vars
  PROVE  NoComfortableRouteLost'
<1>1. ASSUME NEW r \in Requests, ReturnEarly(r) PROVE NoComfortableRouteLost'
  <2>1. /\ req' = r
        /\ \/ r.start = r.goal
           \/ OutEdges(r.start) = {}
           \/ ~ {r.start, r.goal} \subseteq Nodes
    BY <1>1 DEF ReturnEarly, Call
  <2>2. r.start = r.goal \/ Candidates(r) = {}
    <3> SUFFICES ASSUME r.start # r.goal, NEW w \in Candidates(r) PROVE FALSE
      OBVIOUS
    <3>1. w[1] \in OutEdges(r.start) /\ {r.start, r.goal} \subseteq Nodes
      <4>1. Len(w) \in Nat \ {0} /\ w \in Seq(Edges) /\ From[w[1]] = r.start
        BY CandidateFacts
      <4>2. w[1] \in Edges  BY <4>1
      <4> QED  BY <4>1, <4>2 DEF OutEdges, Candidates
    <3> QED  BY <2>1, <3>1
  <2>3. r.start = r.goal \/ ComfortableCosts(r) = {}
    BY <2>2 DEF ComfortableCosts
  <2> QED  BY <2>1, <2>3 DEF NoComfortableRouteLost, BestAnswer
<1>2. ASSUME NEW r \in Requests, Begin(r) PROVE NoComfortableRouteLost'
  BY <1>2 DEF Begin, NoComfortableRouteLost
<1>3. ASSUME NEW item \in queue, PopStale(item) \/ PopExpand(item)
      PROVE  NoComfortableRouteLost'
  BY <1>3 DEF PopStale, PopExpand, Settle, Pop, NoComfortableRouteLost
<1>4. ASSUME NEW item \in queue, PopOverLimit(item) PROVE NoComfortableRouteLost'
  <2>1. expansions' > MaxExp(req')
    BY <1>4 DEF PopOverLimit, Settle
  <2> QED  BY <2>1 DEF NoComfortableRouteLost, HitLimit
<1>5. ASSUME NEW item \in queue, PopGoal(item) PROVE NoComfortableRouteLost'
  <2> DEFINE st == item.state
  <2>1. /\ status = "running" /\ req' = req /\ st \notin done /\ Least(item)
        /\ To[EdgeOf(st)] = req.goal
        /\ result'.outcome = "path" /\ result'.cost = dist[st]
    BY <1>5 DEF PopGoal, Settle, Pop, Return, buildPath
  <2>2. \A c \in ComfortableCosts(req) : dist[st] <= c
    BY <2>1, PoppedAtGoal
  <2>3. ComfortableCosts(req)' = ComfortableCosts(req)
    BY <2>1 DEF ComfortableCosts
  <2> QED  BY <2>1, <2>2, <2>3 DEF NoComfortableRouteLost, BestAnswer
<1>6. CASE Exhausted
  <2>1. status = "running" /\ queue = {} /\ req' = req
    BY <1>6 DEF Exhausted
  <2>2. ComfortableCosts(req) = {}
    <3> SUFFICES ASSUME NEW w \in Candidates(req), WalkUsed(req, w) = 0 PROVE FALSE
      BY DEF ComfortableCosts
    <3> QED  BY <2>1, Promising
  <2> QED  BY <2>1, <2>2 DEF NoComfortableRouteLost, BestAnswer
<1>7. CASE UNCHANGED vars
  BY <1>7 DEF vars, NoComfortableRouteLost, HitLimit
<1> QED  BY <1>1, <1>2, <1>3, <1>4, <1>5, <1>6, <1>7 DEF Next, Loop, Finished

(* Unless the expansion limit cut it off, no search overlooks a route that *)
(* stays within the rider's threshold throughout, nor returns a dearer one,*)
(* on any finite graph and whatever the budget and its buckets.            *)
THEOREM ComfortableRouteFound == Spec => []NoComfortableRouteLost
<1>1. Init => ComfortInv
  BY InitInv, FrontierInit DEF ComfortInv
<1>2. ComfortInv /\ [Next]_vars => ComfortInv'
  BY NextInv, FrontierStep, ComfortStep DEF ComfortInv
<1>3. ComfortInv => NoComfortableRouteLost
  BY DEF ComfortInv
<1> QED  BY <1>1, <1>2, <1>3, PTL DEF Spec

-----------------------------------------------------------------------------
(* What buildPath walks back along.  While a search runs, every label has a*)
(* trail: the states from a seed to it, each the predecessor of the next,  *)
(* all but the last settled and hence frozen, none twice.                  *)

Trail(p, st) ==
  /\ p \in Seq(States) /\ Len(p) # 0 /\ p[Len(p)] = st
  /\ prev[p[1]] = NoState
  /\ \A i \in 1 .. Len(p) - 1 : p[i] \in done /\ prev[p[i + 1]] = p[i]
  /\ \A i, j \in 1 .. Len(p) : p[i] = p[j] => i = j

Trails(path) ==
  \A st \in States :
    IF Labelled(st)
    THEN /\ Trail(path[st], st)
         /\ path[st] = IF prev[st] = NoState THEN <<st>> ELSE Append(path[prev[st]], st)
    ELSE prev[st] = NoState

Traced == status = "running" => \E path : Trails(path)

LEMMA TracedInit == Init => Traced
BY DEF Init, Traced

LEMMA TracedBegin ==
  ASSUME NEW r \in Requests, Begin(r)
  PROVE  Traced'
<1> DEFINE path == [st \in States |-> <<st>>]
<1>1. \A st \in States : prev'[st] = NoState
  BY DEF Begin, CleanPrev
<1>2. ASSUME NEW st \in States
      PROVE  Trail(path[st], st)' /\ path[st] = <<st>>
  <2> DEFINE p == <<st>>
  <2>1. path[st] = p
    OBVIOUS
  <2>2. p \in Seq(States) /\ Len(p) = 1 /\ p[1] = st
    OBVIOUS
  <2> HIDE DEF p, path
  <2>3. Trail(p, st)'
    BY <1>1, <2>2 DEF Trail
  <2> QED  BY <2>1, <2>3 DEF p
<1>3. Trails(path)'
  BY <1>1, <1>2 DEF Trails
<1> HIDE DEF path
<1> QED  BY <1>3 DEF Traced

LEMMA TracedExpand ==
  ASSUME SearchInv, Traced, NEW item \in queue, PopExpand(item)
  PROVE  Traced'
<1> DEFINE st == item.state  I == Improved(st)
<1>1. /\ status = "running" /\ done' = done \union {st} /\ st \notin done /\ Least(item)
      /\ dist' = [t \in States |-> IF t \in I THEN Reach(st, t) ELSE dist[t]]
      /\ prev' = [t \in States |-> IF t \in I THEN st ELSE prev[t]]
  BY DEF PopExpand, Settle, Pop, NewPrev
<1>2. st \in States /\ Labelled(st) /\ TypeOK /\ LabelsConsistent /\ QueueSound
  BY <1>1, PoppedFacts DEF SearchInv
<1>3. PICK path : Trails(path)
  BY <1>1 DEF Traced
<1>4. ASSUME NEW t \in I
      PROVE  t \in States /\ t \notin done /\ t # st /\ Reach(st, t) \in Nat
  <2>1. t \in Successors(st) /\ t \notin done /\ t # st
    BY DEF Improved
  <2> QED  BY <1>2, <2>1, SuccessorFacts, ReachType
<1>n. PICK next : next = [t \in States |-> IF t \in I THEN Append(path[st], t) ELSE path[t]]
  OBVIOUS
<1>5. Trail(path[st], st) /\ st # NoState
  BY <1>2, <1>3, NoStateAssumption DEF Trails
<1>6. done \subseteq States
  BY <1>2 DEF TypeOK
\* The trail of a label that did not improve is untouched.
<1>7. ASSUME NEW t \in States, t \notin I, NEW p, Trail(p, t)
      PROVE  Trail(p, t)'
  <2>1. /\ p \in Seq(States) /\ Len(p) \in Nat \ {0} /\ p[Len(p)] = t
        /\ prev[p[1]] = NoState
        /\ \A i \in 1 .. Len(p) - 1 : p[i] \in done /\ prev[p[i + 1]] = p[i]
        /\ \A i, j \in 1 .. Len(p) : p[i] = p[j] => i = j
    BY <1>7 DEF Trail
  <2>2. ASSUME NEW i \in 1 .. Len(p) PROVE prev'[p[i]] = prev[p[i]]
    <3>1. p[i] \in States
      BY <2>1
    <3>2. p[i] \notin I
      <4>1. CASE i = Len(p)  BY <1>7, <2>1, <4>1
      <4>2. CASE i # Len(p)
        <5>1. i \in 1 .. Len(p) - 1  BY <2>1, <4>2
        <5> QED  BY <1>4, <2>1, <5>1
      <4> QED  BY <4>1, <4>2
    <3> QED  BY <1>1, <3>1, <3>2
  <2>3. 1 \in 1 .. Len(p) /\ \A i \in 1 .. Len(p) - 1 : i + 1 \in 1 .. Len(p)
    BY <2>1
  <2>4. prev'[p[1]] = NoState
    BY <2>1, <2>2, <2>3
  <2>5. \A i \in 1 .. Len(p) - 1 : p[i] \in done' /\ prev'[p[i + 1]] = p[i]
    BY <1>1, <2>1, <2>2, <2>3
  <2> QED  BY <2>1, <2>4, <2>5 DEF Trail
<1>8. ASSUME NEW t \in I PROVE Trail(Append(path[st], t), t)'
  <2> DEFINE p == path[st]  q == Append(path[st], t)  n == Len(path[st])
  <2>1. /\ p \in Seq(States) /\ n \in Nat \ {0} /\ p[n] = st
        /\ \A i \in 1 .. n - 1 : p[i] \in done
        /\ \A i, j \in 1 .. n : p[i] = p[j] => i = j
    BY <1>5 DEF Trail
  <2>2. st \notin I
    BY <1>4
  <2>3. Trail(p, st)'
    BY <1>2, <1>5, <1>7, <2>2
  <2>4. /\ prev'[p[1]] = NoState
        /\ \A i \in 1 .. n - 1 : p[i] \in done' /\ prev'[p[i + 1]] = p[i]
    BY <2>3 DEF Trail
  <2>5. t \in States
    BY <1>4
  <2>6. /\ q \in Seq(States) /\ Len(q) = n + 1 /\ q[n + 1] = t
        /\ \A i \in 1 .. n : q[i] = p[i]
    BY <2>1, <2>5, AppendProperties
  <2> HIDE DEF p, q, n
  <2>7. prev'[q[1]] = NoState
    BY <2>1, <2>4, <2>6
  <2>8. ASSUME NEW i \in 1 .. n PROVE q[i] \in done' /\ prev'[q[i + 1]] = q[i]
    <3>1. CASE i = n
      <4>1. q[i] = st /\ q[i + 1] = t  BY <2>1, <2>6, <3>1
      <4> QED  BY <1>1, <2>5, <4>1
    <3>2. CASE i # n
      <4>1. i \in 1 .. n - 1 /\ i + 1 \in 1 .. n  BY <2>1, <3>2
      <4>2. q[i] = p[i] /\ q[i + 1] = p[i + 1]  BY <2>6, <4>1
      <4> QED  BY <2>4, <4>1, <4>2
    <3> QED  BY <3>1, <3>2
  <2>9. ASSUME NEW i \in 1 .. n PROVE q[i] # t
    <3>1. p[i] \in done \union {st}
      <4>1. CASE i = n  BY <2>1, <4>1
      <4>2. CASE i # n
        <5>1. i \in 1 .. n - 1  BY <2>1, <4>2
        <5> QED  BY <2>1, <5>1
      <4> QED  BY <4>1, <4>2
    <3> QED  BY <1>4, <2>6, <3>1
  <2>10. ASSUME NEW i \in 1 .. n + 1, NEW j \in 1 .. n + 1, q[i] = q[j] PROVE i = j
    <3>1. CASE i \in 1 .. n /\ j \in 1 .. n
      BY <2>1, <2>6, <2>10, <3>1
    <3>2. CASE ~(i \in 1 .. n /\ j \in 1 .. n)
      BY <2>1, <2>6, <2>9, <2>10, <3>2
    <3> QED  BY <3>1, <3>2
  <2>11. Len(q) - 1 = n /\ Len(q) # 0
    BY <2>1, <2>6
  <2>12. Trail(q, t)'
    BY <2>6, <2>7, <2>8, <2>10, <2>11 DEF Trail
  <2> QED  BY <2>12 DEF q
<1>9. ASSUME NEW t \in States
      PROVE  IF Labelled(t)'
             THEN /\ Trail(next[t], t)'
                  /\ next[t] = IF prev'[t] = NoState THEN <<t>> ELSE Append(next[prev'[t]], t)
             ELSE prev'[t] = NoState
  <2>1. CASE t \in I
    <3>1. Labelled(t)'
      BY <1>1, <1>4, <2>1 DEF Labelled, Infinity
    <3>2. prev'[t] = st /\ next[t] = Append(path[st], t) /\ next[st] = path[st]
      BY <1>1, <1>2, <1>4, <1>n, <2>1
    <3> HIDE DEF st, I
    <3>3. Trail(next[t], t)'
      <4>1. Trail(Append(path[st], t), t)'  BY <1>8, <2>1
      <4> QED  BY <3>2, <4>1
    <3> QED  BY <1>5, <3>1, <3>2, <3>3
  <2>2. CASE t \notin I
    <3>1. /\ dist'[t] = dist[t] /\ prev'[t] = prev[t] /\ next[t] = path[t]
          /\ Labelled(t)' <=> Labelled(t)
      BY <1>1, <1>n, <2>2 DEF Labelled
    <3>2. CASE Labelled(t)
      <4>1. /\ Trail(path[t], t)
            /\ path[t] = IF prev[t] = NoState THEN <<t>> ELSE Append(path[prev[t]], t)
        BY <1>3, <3>2 DEF Trails
      <4>2. Trail(path[t], t)'
        BY <1>7, <2>2, <4>1
      <4>3. prev[t] # NoState => next[prev[t]] = path[prev[t]]
        <5> SUFFICES ASSUME prev[t] # NoState PROVE next[prev[t]] = path[prev[t]]
          OBVIOUS
        <5>1. StepLabel(prev[t], t)
          BY <1>1, <1>2, <3>2 DEF LabelsConsistent
        <5>2. prev[t] \in done
          BY <5>1 DEF StepLabel
        <5> QED  BY <1>4, <1>6, <1>n, <5>2
      <4> HIDE DEF I
      <4>4. Trail(next[t], t)'
        BY <3>1, <4>2
      <4>5. next[t] = IF prev'[t] = NoState THEN <<t>> ELSE Append(next[prev'[t]], t)
        BY <3>1, <4>1, <4>3
      <4> QED  BY <3>1, <3>2, <4>4, <4>5
    <3>3. CASE ~Labelled(t)
      <4>1. prev[t] = NoState
        BY <1>3, <3>3 DEF Trails
      <4> QED  BY <3>1, <3>3, <4>1
    <3> QED  BY <3>2, <3>3
  <2> QED  BY <2>1, <2>2
<1>10. Trails(next)'
  BY <1>9 DEF Trails
<1> QED  BY <1>10 DEF Traced

LEMMA TracedStep ==
  ASSUME SearchInv, Traced, [Next]_vars
  PROVE  Traced'
<1>1. ASSUME NEW r \in Requests, ReturnEarly(r) PROVE Traced'
  BY <1>1 DEF ReturnEarly, Traced
<1>2. ASSUME NEW r \in Requests, Begin(r) PROVE Traced'
  BY <1>2, TracedBegin
<1>3. ASSUME UNCHANGED <<dist, prev, done, status>> PROVE Traced'
  BY ZenonT(30), <1>3 DEF Traced, Trails, Trail, Labelled
<1>4. ASSUME NEW item \in queue, PopStale(item) PROVE Traced'
  BY <1>3, <1>4 DEF PopStale
<1>5. ASSUME NEW item \in queue, PopOverLimit(item) \/ PopGoal(item) PROVE Traced'
  BY <1>5 DEF PopOverLimit, PopGoal, Return, Traced
<1>6. ASSUME NEW item \in queue, PopExpand(item) PROVE Traced'
  BY <1>6, TracedExpand
<1>7. CASE Exhausted
  BY <1>7 DEF Exhausted, Return, Traced
<1>8. CASE UNCHANGED vars
  BY <1>3, <1>8 DEF vars
<1> QED  BY <1>1, <1>2, <1>4, <1>5, <1>6, <1>7, <1>8 DEF Next, Loop, Finished

-----------------------------------------------------------------------------
(* What a trail adds up to is what the label says.                         *)

\* The edges of the first i states of a trail.
Ridden(p, i) == [j \in 1 .. i |-> EdgeOf(p[j])]

LEMMA RiddenFacts ==
  ASSUME NEW p \in Seq(States)
  PROVE  /\ \A i \in 0 .. Len(p) : Ridden(p, i) \in Seq(Edges) /\ Len(Ridden(p, i)) = i
         /\ Len(p) # 0 => Ridden(p, 1) = <<EdgeOf(p[1])>>
         /\ \A i \in 1 .. Len(p) - 1 :
              Ridden(p, i + 1) = Append(Ridden(p, i), EdgeOf(p[i + 1]))
<1>1. \A i \in 1 .. Len(p) : p[i] \in States /\ EdgeOf(p[i]) \in Edges
  BY StateFields
<1>2. ASSUME NEW i \in 0 .. Len(p)
      PROVE  Ridden(p, i) \in Seq(Edges) /\ Len(Ridden(p, i)) = i
  BY <1>1 DEF Ridden
<1>3. Len(p) # 0 => Ridden(p, 1) = <<EdgeOf(p[1])>>
  BY DEF Ridden
<1>4. ASSUME NEW i \in 1 .. Len(p) - 1
      PROVE  Ridden(p, i + 1) = Append(Ridden(p, i), EdgeOf(p[i + 1]))
  <2> DEFINE a == Ridden(p, i)  e == EdgeOf(p[i + 1])  b == Append(a, e)
  <2>1. i \in Nat /\ i \in 0 .. Len(p) /\ i + 1 \in 1 .. Len(p)
    OBVIOUS
  <2>2. a \in Seq(Edges) /\ Len(a) = i /\ e \in Edges
    BY <1>1, <1>2, <2>1
  <2>3. \A j \in 1 .. i : a[j] = EdgeOf(p[j])
    BY DEF Ridden
  <2> HIDE DEF a, e
  <2>4. /\ b \in Seq(Edges) /\ Len(b) = i + 1 /\ b[i + 1] = e
        /\ \A j \in 1 .. i : b[j] = a[j]
    BY <2>1, <2>2, AppendProperties
  <2> HIDE DEF b
  <2>5. b = [j \in 1 .. i + 1 |-> b[j]]
    BY <2>1, <2>4
  <2>6. \A j \in 1 .. i + 1 : b[j] = EdgeOf(p[j])
    <3> TAKE j \in 1 .. i + 1
    <3>1. j \in 1 .. i \/ j = i + 1  BY <2>1
    <3> QED  BY <2>3, <2>4, <3>1 DEF e
  <2>7. b = [j \in 1 .. i + 1 |-> EdgeOf(p[j])]
    BY <2>5, <2>6
  <2> QED  BY <2>7 DEF Ridden, b, a, e
<1> QED  BY <1>2, <1>3, <1>4

\* Every state of a trail has a label, and each the one its predecessor gave.
LEMMA TrailLabels ==
  ASSUME SearchInv, status = "running", NEW st \in States, Labelled(st),
         NEW p, Trail(p, st)
  PROVE  /\ Len(p) \in Nat \ {0} /\ p \in Seq(States) /\ p[Len(p)] = st
         /\ \A i \in 1 .. Len(p) :
              /\ p[i] \in States /\ Labelled(p[i])
              /\ EdgeOf(p[i]) \in Edges /\ EdgeOf(p[i]) \in req.allow
              /\ dist[p[i]] \in Nat /\ usedM[p[i]] \in Nat
              /\ usedM[p[i]] <= req.budgetM
              /\ p[i] = StateFor(req, EdgeOf(p[i]), usedM[p[i]])
         /\ SeedLabel(p[1])
         /\ \A i \in 1 .. Len(p) - 1 : StepLabel(p[i], p[i + 1])
<1>1. TypeOK /\ LabelsConsistent /\ QueueSound
  BY DEF SearchInv
<1>2. /\ Len(p) \in Nat \ {0} /\ p \in Seq(States) /\ p[Len(p)] = st
      /\ prev[p[1]] = NoState
      /\ \A i \in 1 .. Len(p) - 1 : p[i] \in done /\ prev[p[i + 1]] = p[i]
  BY DEF Trail
<1>3. ASSUME NEW i \in 1 .. Len(p) PROVE p[i] \in States /\ Labelled(p[i])
  <2>1. CASE i = Len(p)  BY <1>2, <2>1
  <2>2. CASE i # Len(p)
    <3>1. i \in 1 .. Len(p) - 1  BY <1>2, <2>2
    <3>2. p[i] \in done  BY <1>2, <3>1
    <3> QED  BY <1>1, <3>2 DEF QueueSound, TypeOK
  <2> QED  BY <2>1, <2>2
<1>4. ASSUME NEW i \in 1 .. Len(p)
      PROVE  /\ EdgeOf(p[i]) \in Edges /\ EdgeOf(p[i]) \in req.allow
             /\ dist[p[i]] \in Nat /\ usedM[p[i]] \in Nat
             /\ usedM[p[i]] <= req.budgetM
             /\ p[i] = StateFor(req, EdgeOf(p[i]), usedM[p[i]])
             /\ IF prev[p[i]] = NoState THEN SeedLabel(p[i]) ELSE StepLabel(prev[p[i]], p[i])
  <2>1. p[i] \in States /\ Labelled(p[i])
    BY <1>3
  <2>2. dist[p[i]] \in Nat /\ usedM[p[i]] \in Nat
    BY <1>1, <2>1 DEF TypeOK, Labelled
  <2>3. EdgeOf(p[i]) \in Edges
    BY <2>1, StateFields
  <2> QED  BY <1>1, <2>1, <2>2, <2>3 DEF LabelsConsistent
<1>5. SeedLabel(p[1])
  <2>1. 1 \in 1 .. Len(p)  BY <1>2
  <2> QED  BY <1>2, <1>4, <2>1
<1>6. ASSUME NEW i \in 1 .. Len(p) - 1 PROVE StepLabel(p[i], p[i + 1])
  <2>1. i + 1 \in 1 .. Len(p) /\ i \in 1 .. Len(p)  BY <1>2
  <2>2. prev[p[i + 1]] = p[i] /\ p[i] # NoState
    BY <1>2, <1>3, <2>1, NoStateAssumption
  <2> QED  BY <1>4, <2>1, <2>2
<1> QED  BY <1>2, <1>3, <1>4, <1>5, <1>6

LEMMA TrailAddsUp ==
  ASSUME SearchInv, status = "running", NEW st \in States, Labelled(st),
         NEW p, Trail(p, st)
  PROVE  \A i \in 1 .. Len(p) : /\ dist[p[i]] = WalkCost(req, Ridden(p, i))
                                /\ usedM[p[i]] = WalkUsed(req, Ridden(p, i))
<1> DEFINE n == Len(p)
           T == {k \in Nat : k + 1 <= n =>
                   /\ dist[p[k + 1]] = WalkCost(req, Ridden(p, k + 1))
                   /\ usedM[p[k + 1]] = WalkUsed(req, Ridden(p, k + 1))}
<1>1. /\ n \in Nat \ {0} /\ p \in Seq(States)
      /\ \A i \in 1 .. n : EdgeOf(p[i]) \in Edges /\ dist[p[i]] \in Nat /\ usedM[p[i]] \in Nat
      /\ SeedLabel(p[1])
      /\ \A i \in 1 .. n - 1 : StepLabel(p[i], p[i + 1])
  BY TrailLabels
<1>2. req \in Requests /\ Sensible(req)
  BY RequestAssumption DEF SearchInv, TypeOK, Sensible, RequestType
<1>3. 0 \in T
  <2>1. 1 \in 1 .. n /\ 0 + 1 = 1  BY <1>1
  <2>2. Ridden(p, 1) = <<EdgeOf(p[1])>>
    BY <1>1, RiddenFacts
  <2>3. /\ WalkCost(req, Ridden(p, 1)) = req.edgeCost[EdgeOf(p[1])]
        /\ WalkUsed(req, Ridden(p, 1)) = Spend(req, EdgeOf(p[1]), 0)
    BY <1>1, <1>2, <2>1, <2>2, OneEdge
  <2> QED  BY <1>1, <2>1, <2>3 DEF SeedLabel
<1>4. ASSUME NEW k \in T PROVE k + 1 \in T
  <2> SUFFICES ASSUME (k + 1) + 1 <= n
               PROVE  /\ dist[p[(k + 1) + 1]] = WalkCost(req, Ridden(p, (k + 1) + 1))
                      /\ usedM[p[(k + 1) + 1]] = WalkUsed(req, Ridden(p, (k + 1) + 1))
    OBVIOUS
  <2> DEFINE j == k + 1  w == Ridden(p, j)  e == EdgeOf(p[j + 1])
  <2>1. /\ j \in 1 .. n /\ j \in 1 .. n - 1 /\ j + 1 \in 1 .. n /\ j \in 0 .. n /\ j # 0
    BY <1>1
  <2>2. dist[p[j]] = WalkCost(req, w) /\ usedM[p[j]] = WalkUsed(req, w)
    BY <2>1
  <2> HIDE DEF j, T
  <2>3. w \in Seq(Edges) /\ Len(w) = j
    BY <1>1, <2>1, RiddenFacts
  <2>4. w[j] = EdgeOf(p[j])
    BY <2>1 DEF Ridden
  <2>5. Ridden(p, j + 1) = Append(w, e)
    BY <1>1, <2>1, RiddenFacts
  <2>6. e \in Edges
    BY <1>1, <2>1
  <2> HIDE DEF w, e
  <2>7. /\ WalkUsed(req, Append(w, e)) = WalkUsed(req, w) + Spend(req, e, 0)
        /\ WalkCost(req, Append(w, e))
             = WalkCost(req, w) + req.edgeCost[e] + req.turnCost[<<w[Len(w)], e>>]
    BY <1>2, <2>1, <2>3, <2>6, EdgeMore
  <2>8. StepLabel(p[j], p[j + 1])
    BY <1>1, <2>1
  <2>9. dist[p[j + 1]] = dist[p[j]] + req.edgeCost[e] + req.turnCost[<<EdgeOf(p[j]), e>>]
    BY <2>8 DEF StepLabel, Reach, e
  <2>10. usedM[p[j + 1]] = usedM[p[j]] + Spend(req, e, 0)
    <3>1. usedM[p[j + 1]] = Spend(req, e, usedM[p[j]])
      BY <2>8 DEF StepLabel, e
    <3>2. LengthM[e] \in Nat /\ usedM[p[j]] \in Nat
      BY <1>1, <2>1, <2>6, GraphAssumption
    <3> QED  BY <3>1, <3>2 DEF Spend
  <2>11. /\ dist[p[j + 1]] = WalkCost(req, Ridden(p, j + 1))
         /\ usedM[p[j + 1]] = WalkUsed(req, Ridden(p, j + 1))
    BY <2>2, <2>3, <2>4, <2>5, <2>7, <2>9, <2>10
  <2> QED  BY <2>11 DEF j
<1> HIDE DEF T
<1>5. T = Nat  BY <1>3, <1>4, Induct DEF T
<1> SUFFICES ASSUME NEW i \in 1 .. n
             PROVE  /\ dist[p[i]] = WalkCost(req, Ridden(p, i))
                    /\ usedM[p[i]] = WalkUsed(req, Ridden(p, i))
  OBVIOUS
<1>6. i - 1 \in T /\ (i - 1) + 1 = i /\ (i - 1) + 1 <= n
  BY <1>1, <1>5
<1> QED  BY <1>6 DEF T

\* buildPath walks the trail: each state's chain is its predecessor's and it.
Extended(f) ==
  [st \in States |-> IF prev[st] = NoState THEN <<EdgeOf(st)>>
                                           ELSE Append(f[prev[st]], EdgeOf(st))]

Lengthened(f) ==
  [st \in States |-> LengthM[EdgeOf(st)] + (IF prev[st] = NoState THEN 0 ELSE f[prev[st]])]

LEMMA ChainFollows ==
  ASSUME SearchInv, status = "running", NEW path, Trails(path),
         NEW st \in States, Labelled(st)
  PROVE  LET p == path[st]
         IN  /\ Chain(st) = Ridden(p, Len(p))
             /\ ChainLength(st) = WalkLength(Ridden(p, Len(p)))
<1> DEFINE whole(q) == Ridden(q, Len(q))
           f0 == [s \in States |-> IF Labelled(s) THEN whole(path[s]) ELSE <<EdgeOf(s)>>]
           g0 == [s \in States |-> IF Labelled(s) THEN WalkLength(whole(path[s]))
                                   ELSE LengthM[EdgeOf(s)]]
<1>1. /\ TypeOK /\ LabelsConsistent /\ QueueSound
      /\ req \in Requests /\ Sensible(req)
  BY RequestAssumption DEF SearchInv, TypeOK, Sensible, RequestType
<1>2. ASSUME NEW s \in States, Labelled(s)
      PROVE  /\ Trail(path[s], s)
             /\ path[s] = IF prev[s] = NoState THEN <<s>> ELSE Append(path[prev[s]], s)
             /\ prev[s] # NoState => prev[s] \in States /\ Labelled(prev[s])
  <2>1. /\ Trail(path[s], s)
        /\ path[s] = IF prev[s] = NoState THEN <<s>> ELSE Append(path[prev[s]], s)
    BY <1>2 DEF Trails
  <2>2. prev[s] # NoState => prev[s] \in States /\ Labelled(prev[s])
    BY <1>1, <1>2 DEF LabelsConsistent, StepLabel, TypeOK
  <2> QED  BY <2>1, <2>2
\* One state more on a trail is one edge more on its walk.
<1>3. ASSUME NEW s \in States, Labelled(s), prev[s] # NoState
      PROVE  LET w == whole(path[prev[s]])
             IN  /\ w \in Seq(Edges) /\ Len(w) # 0
                 /\ whole(path[s]) = Append(w, EdgeOf(s))
  <2> DEFINE q == path[prev[s]]  n == Len(q)  p == path[s]
  <2>1. prev[s] \in States /\ Labelled(prev[s]) /\ Trail(q, prev[s]) /\ Trail(p, s)
    BY <1>2, <1>3
  <2>2. n \in Nat \ {0} /\ q \in Seq(States) /\ p \in Seq(States)
    BY <2>1 DEF Trail
  <2>3. p = Append(q, s)
    BY <1>2, <1>3
  <2> HIDE DEF q, p, n
  <2>a. n = Len(q)
    BY DEF n
  <2>4. Len(p) = n + 1 /\ p[n + 1] = s /\ \A i \in 1 .. n : p[i] = q[i]
    BY <2>2, <2>3, <2>a, AppendProperties
  <2>5. n \in 1 .. Len(p) - 1 /\ n \in 0 .. Len(q)
    BY <2>2, <2>4, <2>a
  <2>6. Ridden(p, n) = Ridden(q, n)
    BY <2>4 DEF Ridden
  <2>7. Ridden(p, n + 1) = Append(Ridden(p, n), EdgeOf(p[n + 1]))
    BY <2>2, <2>5, RiddenFacts
  <2>8. Ridden(q, n) \in Seq(Edges) /\ Len(Ridden(q, n)) = n
    BY <2>2, <2>5, RiddenFacts
  <2> QED  BY <2>2, <2>4, <2>6, <2>7, <2>8, <2>a DEF q, p
<1>4. ASSUME NEW s \in States, Labelled(s), prev[s] = NoState
      PROVE  whole(path[s]) = <<EdgeOf(s)>>
  <2>1. path[s] = <<s>>
    BY <1>2, <1>4
  <2> DEFINE q == <<s>>
  <2>2. q \in Seq(States) /\ Len(q) = 1 /\ q[1] = s
    OBVIOUS
  <2> HIDE DEF q
  <2>3. Ridden(q, 1) = <<EdgeOf(s)>>
    BY <2>2, RiddenFacts
  <2> QED  BY <2>1, <2>2, <2>3 DEF q
<1> HIDE DEF whole
<1>5. ASSUME NEW s \in States PROVE f0[s] = Extended(f0)[s]
  <2>1. CASE Labelled(s) /\ prev[s] # NoState
    <3>1. prev[s] \in States /\ Labelled(prev[s])  BY <1>2, <2>1
    <3>2. whole(path[s]) = Append(whole(path[prev[s]]), EdgeOf(s))  BY <1>3, <2>1
    <3> QED  BY <2>1, <3>1, <3>2 DEF Extended
  <2>2. CASE Labelled(s) /\ prev[s] = NoState
    BY <1>4, <2>2 DEF Extended
  <2>3. CASE ~Labelled(s)
    <3>1. prev[s] = NoState  BY <2>3 DEF Trails
    <3> QED  BY <2>3, <3>1 DEF Extended
  <2> QED  BY <2>1, <2>2, <2>3
<1>6. ASSUME NEW s \in States PROVE g0[s] = Lengthened(g0)[s]
  <2>1. LengthM[EdgeOf(s)] \in Nat /\ EdgeOf(s) \in Edges
    BY StateFields
  <2>2. CASE Labelled(s) /\ prev[s] # NoState
    <3>1. prev[s] \in States /\ Labelled(prev[s])  BY <1>2, <2>2
    <3>2. /\ whole(path[s]) = Append(whole(path[prev[s]]), EdgeOf(s))
          /\ whole(path[prev[s]]) \in Seq(Edges) /\ Len(whole(path[prev[s]])) # 0
      BY <1>3, <2>2
    <3>3. WalkLength(whole(path[s]))
            = WalkLength(whole(path[prev[s]])) + LengthM[EdgeOf(s)]
      BY <1>1, <2>1, <3>2, EdgeMore
    <3>4. WalkLength(whole(path[prev[s]])) \in Nat
      BY <3>2, WalkTotals
    <3> QED  BY <2>1, <2>2, <3>1, <3>3, <3>4 DEF Lengthened
  <2>3. CASE Labelled(s) /\ prev[s] = NoState
    <3>1. WalkLength(whole(path[s])) = LengthM[EdgeOf(s)]
      BY <1>1, <1>4, <2>1, <2>3, OneEdge
    <3> QED  BY <2>1, <2>3, <3>1 DEF Lengthened
  <2>4. CASE ~Labelled(s)
    <3>1. prev[s] = NoState  BY <2>4 DEF Trails
    <3> QED  BY <2>1, <2>4, <3>1 DEF Lengthened
  <2> QED  BY <2>2, <2>3, <2>4
<1>7. f0 = Extended(f0) /\ g0 = Lengthened(g0)
  <2>1. /\ Extended(f0) = [s \in States |-> Extended(f0)[s]]
        /\ Lengthened(g0) = [s \in States |-> Lengthened(g0)[s]]
    BY DEF Extended, Lengthened
  <2>2. f0 = [s \in States |-> f0[s]] /\ g0 = [s \in States |-> g0[s]]
    OBVIOUS
  <2> HIDE DEF f0, g0
  <2> QED  BY <1>5, <1>6, <2>1, <2>2
<1> DEFINE f == CHOOSE h : h = Extended(h)
           g == CHOOSE h : h = Lengthened(h)
<1>8. f = Extended(f) /\ g = Lengthened(g)
  <2> HIDE DEF f0, g0
  <2> QED  BY <1>7
<1>9. Chain(st) = f[st] /\ ChainLength(st) = g[st]
  BY DEF Chain, ChainLength, Extended, Lengthened
<1> HIDE DEF f, g, f0, g0
\* Along the trail there is only one function they can be.
<1> DEFINE p == path[st]  n == Len(path[st])
           T == {k \in Nat : k + 1 <= n => /\ f[p[k + 1]] = Ridden(p, k + 1)
                                           /\ g[p[k + 1]] = WalkLength(Ridden(p, k + 1))}
<1>10. /\ Trail(p, st) /\ n \in Nat \ {0} /\ p \in Seq(States) /\ p[n] = st
       /\ \A i \in 1 .. n : p[i] \in States /\ EdgeOf(p[i]) \in Edges
       /\ prev[p[1]] = NoState
       /\ \A i \in 1 .. n - 1 : prev[p[i + 1]] = p[i] /\ p[i] # NoState
  <2>1. Trail(p, st)
    BY <1>2
  <2>2. /\ n \in Nat \ {0} /\ p \in Seq(States) /\ p[n] = st
        /\ prev[p[1]] = NoState /\ \A i \in 1 .. n - 1 : prev[p[i + 1]] = p[i]
    BY <2>1 DEF Trail
  <2>3. \A i \in 1 .. n : p[i] \in States
    BY <2>2
  <2>4. \A i \in 1 .. n - 1 : i \in 1 .. n
    BY <2>2
  <2> QED  BY <2>1, <2>2, <2>3, <2>4, StateFields, NoStateAssumption
<1>11. 0 \in T
  <2>1. 1 \in 1 .. n /\ 0 + 1 = 1  BY <1>10
  <2>2. Ridden(p, 1) = <<EdgeOf(p[1])>>
    BY <1>10, RiddenFacts
  <2>3. Extended(f)[p[1]] = <<EdgeOf(p[1])>>
    BY <1>10, <2>1 DEF Extended
  <2>4. Lengthened(g)[p[1]] = LengthM[EdgeOf(p[1])]
    <3>1. LengthM[EdgeOf(p[1])] \in Nat  BY <1>10, <2>1, StateFields
    <3> QED  BY <1>10, <2>1, <3>1 DEF Lengthened
  <2>5. WalkLength(<<EdgeOf(p[1])>>) = LengthM[EdgeOf(p[1])]
    BY <1>1, <1>10, <2>1, OneEdge
  <2> HIDE DEF p, n
  <2>6. f[p[1]] = Ridden(p, 1) /\ g[p[1]] = WalkLength(Ridden(p, 1))
    BY <1>8, <2>2, <2>3, <2>4, <2>5
  <2> QED  BY <2>1, <2>6
<1>12. ASSUME NEW k \in T PROVE k + 1 \in T
  <2> SUFFICES ASSUME (k + 1) + 1 <= n
               PROVE  /\ f[p[(k + 1) + 1]] = Ridden(p, (k + 1) + 1)
                      /\ g[p[(k + 1) + 1]] = WalkLength(Ridden(p, (k + 1) + 1))
    OBVIOUS
  <2> DEFINE j == k + 1  w == Ridden(p, j)  s == p[j + 1]
  <2>1. j \in 1 .. n /\ j \in 1 .. n - 1 /\ j + 1 \in 1 .. n /\ j \in 0 .. n /\ j # 0
    BY <1>10
  <2>2. f[p[j]] = w /\ g[p[j]] = WalkLength(w)
    BY <2>1
  <2> HIDE DEF j, T
  <2>3. w \in Seq(Edges) /\ Len(w) = j /\ Ridden(p, j + 1) = Append(w, EdgeOf(s))
    BY <1>10, <2>1, RiddenFacts
  <2>4. s \in States /\ EdgeOf(s) \in Edges /\ prev[s] = p[j] /\ prev[s] # NoState
    BY <1>10, <2>1
  <2>5. LengthM[EdgeOf(s)] \in Nat
    BY <2>4, StateFields
  <2> HIDE DEF p, n, w, s
  <2>6. Extended(f)[s] = Append(f[p[j]], EdgeOf(s))
    BY <2>4 DEF Extended
  <2>7. Lengthened(g)[s] = LengthM[EdgeOf(s)] + g[p[j]]
    BY <2>4 DEF Lengthened
  <2>8. WalkLength(Append(w, EdgeOf(s))) = WalkLength(w) + LengthM[EdgeOf(s)]
    BY <1>1, <2>1, <2>3, <2>4, EdgeMore
  <2>9. WalkLength(w) \in Nat
    BY <2>3, WalkTotals
  <2>a. f[s] = Append(w, EdgeOf(s))
    BY <1>8, <2>2, <2>6
  <2>b. g[s] = LengthM[EdgeOf(s)] + WalkLength(w)
    BY <1>8, <2>2, <2>7
  <2>c. g[s] = WalkLength(Append(w, EdgeOf(s)))
    BY <2>5, <2>8, <2>9, <2>b
  <2>10. f[s] = Ridden(p, j + 1) /\ g[s] = WalkLength(Ridden(p, j + 1))
    BY <2>3, <2>a, <2>c
  <2> QED  BY <2>10 DEF j, s
<1> HIDE DEF T
<1>13. T = Nat  BY <1>11, <1>12, Induct DEF T
<1>14. n - 1 \in T /\ (n - 1) + 1 = n /\ (n - 1) + 1 <= n
  BY <1>10, <1>13
<1>15. f[p[n]] = Ridden(p, n) /\ g[p[n]] = WalkLength(Ridden(p, n))
  BY <1>14 DEF T
<1> QED  BY <1>9, <1>10, <1>15

-----------------------------------------------------------------------------
(* Two states of a trail never share an edge.  Between them some metres of *)
(* the budget would have been spent, at a cost, and whatever follows on the*)
(* trail could have been reached from the first of them, cheaper and in a  *)
(* lower bucket, up to the goal itself, where the search would have stopped*)
(* already.                                                                *)

LEMMA QuotientMonotone ==
  ASSUME NEW b \in Nat \ {0}, NEW x \in Nat, NEW y \in Nat, x <= y
  PROVE  x \div b <= y \div b
<1> DEFINE p == x \div b  q == y \div b
<1>1. p \in Nat /\ q \in Nat
  OBVIOUS
<1>2. b * p <= x
  OBVIOUS
<1>3. y < b * q + b
  OBVIOUS
<1> HIDE DEF p, q
<1>4. ASSUME q < p PROVE FALSE
  <2>1. b * (q + 1) <= b * p
    BY <1>1, <1>4
  <2> QED  BY <1>1, <1>2, <1>3, <2>1
<1> QED  BY <1>1, <1>4 DEF p, q

LEMMA ProductMonotone ==
  ASSUME NEW n \in Nat, NEW x \in Nat, NEW y \in Nat, x <= y
  PROVE  x * n \in Nat /\ y * n \in Nat /\ x * n <= y * n
OBVIOUS

\* Who has spent no more is in no later bucket.
LEMMA BucketMonotone ==
  ASSUME NEW r \in Requests, NEW u \in Nat, NEW v \in Nat, u <= v
  PROVE  bucketOf(r, u) <= bucketOf(r, v)
<1> DEFINE nb == budgetBuckets(r)
<1>1. nb \in 1 .. MaxBudgetSteps
  BY RequestAssumption, LimitsAssumption DEF budgetBuckets, RequestType
<1>2. CASE nb = 1
  BY <1>2 DEF bucketOf
<1>3. CASE nb # 1
  <2>1. r.budgetM \in Nat \ {0}
    BY <1>3, RequestAssumption DEF budgetBuckets, RequestType
  <2> HIDE DEF nb
  <2>2. nb \in Nat
    BY <1>1, LimitsAssumption
  <2> DEFINE x == u * nb  y == v * nb
  <2>3. x \in Nat /\ y \in Nat /\ x <= y
    BY <2>2, ProductMonotone
  <2> HIDE DEF x, y
  <2> DEFINE a == x \div r.budgetM  b == y \div r.budgetM
  <2>4. a <= b
    BY <2>1, <2>3, QuotientMonotone
  <2>5. a \in Nat /\ b \in Nat
    BY <2>1, <2>3
  <2>6. /\ bucketOf(r, u) = IF a >= nb THEN nb - 1 ELSE a
        /\ bucketOf(r, v) = IF b >= nb THEN nb - 1 ELSE b
    BY <1>3 DEF bucketOf, nb, x, y
  <2> HIDE DEF a, b
  <2> QED  BY <2>2, <2>4, <2>5, <2>6
<1> QED  BY <1>2, <1>3

\* Further along a trail more has been spent, and then it has cost more too.
LEMMA TrailGrows ==
  ASSUME SearchInv, status = "running", NEW st \in States, Labelled(st),
         NEW p, Trail(p, st), NEW i \in 1 .. Len(p), NEW j \in 1 .. Len(p), i <= j
  PROVE  /\ usedM[p[i]] <= usedM[p[j]]
         /\ dist[p[i]] <= dist[p[j]]
         /\ usedM[p[i]] = usedM[p[j]] \/ dist[p[i]] < dist[p[j]]
<1> DEFINE n == Len(p)
           T == {k \in Nat : i + k <= n =>
                   /\ usedM[p[i]] <= usedM[p[i + k]]
                   /\ dist[p[i]] <= dist[p[i + k]]
                   /\ usedM[p[i]] = usedM[p[i + k]] \/ dist[p[i]] < dist[p[i + k]]}
<1>1. /\ n \in Nat \ {0} /\ p \in Seq(States)
      /\ \A k \in 1 .. n : EdgeOf(p[k]) \in Edges /\ dist[p[k]] \in Nat /\ usedM[p[k]] \in Nat
      /\ \A k \in 1 .. n - 1 : StepLabel(p[k], p[k + 1])
  BY TrailLabels
<1>2. req \in Requests
  BY DEF SearchInv, TypeOK
<1>3. 0 \in T
  <2>1. i + 0 = i  OBVIOUS
  <2>2. dist[p[i]] \in Nat /\ usedM[p[i]] \in Nat  BY <1>1
  <2> QED  BY <2>1, <2>2
<1>4. ASSUME NEW k \in T PROVE k + 1 \in T
  <2> SUFFICES ASSUME i + (k + 1) <= n
               PROVE  /\ usedM[p[i]] <= usedM[p[i + (k + 1)]]
                      /\ dist[p[i]] <= dist[p[i + (k + 1)]]
                      /\ \/ usedM[p[i]] = usedM[p[i + (k + 1)]]
                         \/ dist[p[i]] < dist[p[i + (k + 1)]]
    OBVIOUS
  <2> DEFINE m == i + k  e == EdgeOf(p[m + 1])
             c == req.edgeCost[e]  t == req.turnCost[<<EdgeOf(p[m]), e>>]
             u == Spend(req, e, 0)
  <2>1. m \in 1 .. n /\ m \in 1 .. n - 1 /\ m + 1 \in 1 .. n /\ i + (k + 1) = m + 1
    BY SMTT(30), <1>1
  <2>2. /\ usedM[p[i]] <= usedM[p[m]] /\ dist[p[i]] <= dist[p[m]]
        /\ usedM[p[i]] = usedM[p[m]] \/ dist[p[i]] < dist[p[m]]
    BY <2>1
  <2> HIDE DEF m, T
  <2>3. StepLabel(p[m], p[m + 1])
    BY <1>1, <2>1
  <2>4. e \in Edges /\ EdgeOf(p[m]) \in Edges
    BY <1>1, <2>1
  <2>5. c \in Nat /\ t \in Nat /\ u \in Nat /\ LengthM[e] \in Nat
    BY <1>2, <2>4, CostTypes, SpendType, GraphAssumption
  <2>6. dist[p[m + 1]] = dist[p[m]] + c + t
    BY <2>3 DEF StepLabel, Reach
  <2>7. usedM[p[m + 1]] = usedM[p[m]] + u
    <3>1. usedM[p[m + 1]] = Spend(req, e, usedM[p[m]]) /\ usedM[p[m]] \in Nat
      BY <1>1, <2>1, <2>3 DEF StepLabel
    <3> QED  BY <2>5, <3>1 DEF Spend
  <2>8. u = 0 \/ c > 0
    BY <1>2, <2>4, <2>5, CostAssumption DEF Spend
  <2>9. /\ dist[p[i]] \in Nat /\ usedM[p[i]] \in Nat
        /\ dist[p[m]] \in Nat /\ usedM[p[m]] \in Nat
    BY <1>1, <2>1
  <2> HIDE DEF c, t, u, e
  <2>10. /\ usedM[p[i]] <= usedM[p[m + 1]] /\ dist[p[i]] <= dist[p[m + 1]]
         /\ usedM[p[i]] = usedM[p[m + 1]] \/ dist[p[i]] < dist[p[m + 1]]
    <3> DEFINE u0 == usedM[p[i]]  d0 == dist[p[i]]
               u1 == usedM[p[m]]  d1 == dist[p[m]]
               u2 == usedM[p[m + 1]]  d2 == dist[p[m + 1]]
    <3>1. u0 \in Nat /\ d0 \in Nat /\ u1 \in Nat /\ d1 \in Nat
      BY <2>9
    <3>2. u0 <= u1 /\ d0 <= d1 /\ (u0 = u1 \/ d0 < d1)
      BY <2>2
    <3>3. d2 = d1 + c + t /\ u2 = u1 + u /\ (u = 0 \/ c > 0)
      BY <2>6, <2>7, <2>8
    <3> HIDE DEF u0, d0, u1, d1, u2, d2
    <3>4. u0 <= u2 /\ d0 <= d2 /\ (u0 = u2 \/ d0 < d2)
      BY <2>5, <3>1, <3>2, <3>3
    <3> QED  BY <3>4 DEF u0, d0, u2, d2
  <2> QED  BY <2>1, <2>10
<1> HIDE DEF T
<1>5. T = Nat  BY <1>3, <1>4, Induct DEF T
<1>6. j - i \in T /\ i + (j - i) = j /\ i + (j - i) <= n
  BY <1>1, <1>5
<1> QED  BY <1>6 DEF T

LEMMA EdgesDiffer ==
  ASSUME SearchInv, Frontier, status = "running",
         NEW item \in queue, Least(item), item.state \notin done,
         To[EdgeOf(item.state)] = req.goal,
         NEW p, Trail(p, item.state), NEW i \in 1 .. Len(p), NEW j \in 1 .. Len(p), i < j
  PROVE  EdgeOf(p[i]) # EdgeOf(p[j])
<1> DEFINE st == item.state  n == Len(p)
<1> SUFFICES ASSUME EdgeOf(p[i]) = EdgeOf(p[j]) PROVE FALSE
  OBVIOUS
<1>1. /\ TypeOK /\ CacheCorrect /\ LabelsConsistent /\ QueueSound /\ SettledRelaxed
      /\ req \in Requests /\ req.budgetM \in Nat
  BY RequestAssumption DEF SearchInv, TypeOK, RequestType
<1>2. /\ st \in States /\ Labelled(st) /\ Total(st) \in Nat
      /\ \A q \in queue : Total(st) <= q.priority
      /\ \A d \in done : Total(d) <= Total(st)
  BY PoppedFacts
<1>3. /\ n \in Nat \ {0} /\ p \in Seq(States) /\ p[n] = st
      /\ \A k \in 1 .. n :
           /\ p[k] \in States /\ Labelled(p[k])
           /\ EdgeOf(p[k]) \in Edges /\ EdgeOf(p[k]) \in req.allow
           /\ dist[p[k]] \in Nat /\ usedM[p[k]] \in Nat
           /\ usedM[p[k]] <= req.budgetM
           /\ p[k] = StateFor(req, EdgeOf(p[k]), usedM[p[k]])
      /\ \A k \in 1 .. n - 1 : StepLabel(p[k], p[k + 1])
  BY <1>2, TrailLabels
<1>4. /\ \A k \in 1 .. n - 1 : p[k] \in done
      /\ \A k, m \in 1 .. n : p[k] = p[m] => k = m
  BY DEF Trail
\* A settled state at the same edge, cheaper and in a lower bucket.
<1> DEFINE B(s) == bucketOf(req, usedM[s])
           Ahead(t, k) == /\ t \in done /\ EdgeOf(t) = EdgeOf(p[k])
                          /\ dist[t] < dist[p[k]] /\ B(t) < B(p[k])
           T == {k \in Nat : j + k <= n => \E t : Ahead(t, j + k)}
<1>5. ASSUME NEW s \in States, Labelled(s)
      PROVE  /\ B(s) \in Nat /\ usedM[s] \in Nat /\ dist[s] \in Nat /\ s = <<EdgeOf(s), B(s)>>
             /\ EdgeOf(s) \in Edges
  <2>1. usedM[s] \in Nat /\ dist[s] \in Nat /\ EdgeOf(s) \in Edges
    BY <1>1, <1>5, StateFields DEF TypeOK, Labelled
  <2>2. s = StateFor(req, EdgeOf(s), usedM[s])
    BY <1>1, <1>5 DEF LabelsConsistent
  <2>3. B(s) \in 0 .. MaxBudgetSteps - 1
    BY <1>1, <2>1, BucketInRange
  <2> QED  BY <2>1, <2>2, <2>3, LimitsAssumption DEF StateFor
<1>6. \A d \in done : d \in States /\ Labelled(d)
  BY <1>1 DEF TypeOK, QueueSound
<1>7. 0 \in T
  <2>1. i \in 1 .. n - 1 /\ j + 0 = j
    BY <1>3
  <2>2. p[i] \in done /\ p[i] # p[j]
    BY <1>4, <2>1
  <2>3. B(p[i]) # B(p[j])
    BY <1>3, <1>5, <2>2
  <2>4. usedM[p[i]] # usedM[p[j]]
    BY <2>3
  <2>5. /\ usedM[p[i]] <= usedM[p[j]]
        /\ usedM[p[i]] = usedM[p[j]] \/ dist[p[i]] < dist[p[j]]
    BY <1>2, TrailGrows
  <2>6. B(p[i]) <= B(p[j])
    BY <1>1, <1>3, <2>5, BucketMonotone
  <2>7. B(p[i]) \in Nat /\ B(p[j]) \in Nat
    BY <1>3, <1>5
  <2> HIDE DEF B
  <2>8. B(p[i]) < B(p[j])
    BY <2>3, <2>6, <2>7
  <2>9. Ahead(p[i], j)
    BY <2>2, <2>4, <2>5, <2>8
  <2> HIDE DEF Ahead
  <2> QED  BY <2>1, <2>9
<1>8. ASSUME NEW k \in T PROVE k + 1 \in T
  <2> SUFFICES ASSUME j + (k + 1) <= n PROVE \E t : Ahead(t, j + (k + 1))
    BY DEF T
  <2> DEFINE m == j + k  s == p[m + 1]  e == EdgeOf(p[m + 1])
  <2>1. m \in 1 .. n /\ m \in 1 .. n - 1 /\ m + 1 \in 1 .. n /\ j + (k + 1) = m + 1
    BY <1>3
  <2> HIDE DEF Ahead
  <2>2. PICK t : Ahead(t, m)
    BY <2>1
  <2> HIDE DEF m, T
  <2>3. /\ t \in done /\ EdgeOf(t) = EdgeOf(p[m])
        /\ dist[t] < dist[p[m]] /\ B(t) < B(p[m])
    BY <2>2 DEF Ahead
  <2>4. /\ t \in States /\ Labelled(t) /\ usedM[t] \in Nat /\ dist[t] \in Nat /\ B(t) \in Nat
        /\ usedM[p[m]] \in Nat /\ dist[p[m]] \in Nat /\ B(p[m]) \in Nat
    BY <1>3, <1>5, <1>6, <2>1, <2>3
  <2>5. usedM[t] < usedM[p[m]]
    <3>1. CASE usedM[p[m]] <= usedM[t]
      <4>1. B(p[m]) <= B(t)
        BY <1>1, <2>4, <3>1, BucketMonotone
      <4> HIDE DEF B
      <4> QED  BY <2>3, <2>4, <4>1
    <3> QED  BY <2>4, <3>1
  <2>6. /\ s \in States /\ Labelled(s) /\ e \in Edges /\ e \in req.allow
        /\ dist[s] \in Nat /\ usedM[s] \in Nat /\ usedM[s] <= req.budgetM
        /\ EdgeOf(p[m]) \in Edges
        /\ StepLabel(p[m], s)
    BY <1>3, <2>1
  <2>7. /\ To[EdgeOf(t)] = From[e]
        /\ usedM[s] = Spend(req, e, usedM[p[m]])
        /\ dist[s] = dist[p[m]] + req.edgeCost[e] + req.turnCost[<<EdgeOf(p[m]), e>>]
    BY <2>3, <2>6 DEF StepLabel, Reach
  <2>8. LengthM[e] \in Nat
    BY <2>6, GraphAssumption
  <2> DEFINE u == Spend(req, e, usedM[t])  x == StateFor(req, e, u)
  <2>9. u \in Nat /\ u <= usedM[s]
    <3> DEFINE a == usedM[t]  b == usedM[p[m]]  l == LengthM[e]  z == usedM[s]
    <3>1. a \in Nat /\ b \in Nat /\ l \in Nat /\ a < b
      BY <2>4, <2>5, <2>8
    <3>2. /\ u = IF IsOver(req, e) THEN a + l ELSE a
          /\ z = IF IsOver(req, e) THEN b + l ELSE b
      BY <2>7 DEF Spend
    <3> HIDE DEF a, b, l, z, u
    <3>3. u \in Nat /\ u <= z
      BY <3>1, <3>2
    <3> QED  BY <3>3 DEF z
  <2>10. Enterable(req, e, usedM[t])
    <3>1. IsOver(req, e) => usedM[t] + LengthM[e] <= usedM[s]
      BY <2>4, <2>5, <2>7, <2>8 DEF Spend
    <3> QED  BY SMTT(30), <1>1, <2>4, <2>6, <2>8, <3>1 DEF Enterable
  <2>11. x \in Successors(t)
    BY <2>6, <2>7, <2>10 DEF Successors, OutEdges
  <2>12. /\ x \in States /\ EdgeOf(x) = e /\ Labelled(x) /\ dist[x] <= Reach(t, x)
    BY <1>1, <2>3, <2>6, <2>9, <2>11, StateForType DEF SettledRelaxed
  <2>13. dist[x] < dist[s]
    <3>1. Reach(t, x) = dist[t] + req.edgeCost[e] + req.turnCost[<<EdgeOf(p[m]), e>>]
      BY <2>3, <2>12 DEF Reach
    <3>2. req.edgeCost[e] \in Nat /\ req.turnCost[<<EdgeOf(p[m]), e>>] \in Nat
      BY <1>1, <2>6, CostTypes
    <3>3. dist[x] \in Nat
      BY <1>5, <2>12
    <3> DEFINE dt == dist[t]  dm == dist[p[m]]  ds == dist[s]  dx == dist[x]
               c == req.edgeCost[e]  w == req.turnCost[<<EdgeOf(p[m]), e>>]
    <3>4. dt \in Nat /\ dm \in Nat /\ dx \in Nat /\ c \in Nat /\ w \in Nat
      BY <2>4, <3>2, <3>3
    <3>5. dt < dm /\ ds = dm + c + w
      BY <2>3, <2>7
    <3>6. dx <= dt + c + w
      BY <2>12, <3>1
    <3> HIDE DEF x, e, s, B, dt, dm, ds, dx, c, w
    <3>7. dx < ds
      BY <3>4, <3>5, <3>6
    <3> QED  BY <3>7 DEF dx, ds
  <2>14. x = <<e, bucketOf(req, u)>> /\ x = <<e, B(x)>> /\ s = <<e, B(s)>>
    BY <1>5, <2>6, <2>12 DEF StateFor
  <2>15. B(x) = bucketOf(req, u)
    <3> HIDE DEF x, u, e, B
    <3> QED  BY <2>14
  <2>16. B(x) < B(s)
    <3>1. bucketOf(req, u) <= B(s)
      BY <1>1, <2>6, <2>9, BucketMonotone
    <3>2. x # s
      BY <1>5, <2>6, <2>12, <2>13
    <3>3. B(x) \in Nat /\ B(s) \in Nat
      BY <1>5, <2>6, <2>12
    <3> HIDE DEF x, u, e, s, B
    <3> QED  BY <2>14, <2>15, <3>1, <3>2, <3>3
  <2>17. x \in done
    <3>a. SUFFICES ASSUME x \notin done PROVE FALSE
      OBVIOUS
    <3>1. PICK q \in queue : q.state = x /\ q.priority = Total(x)
      BY <1>1, <2>12, <3>a DEF QueueSound
    <3>2. Total(st) <= Total(x)
      BY <1>2, <3>1
    <3>3. Total(s) <= Total(st)
      <4>1. CASE m + 1 = n  BY <1>2, <1>3, <4>1
      <4>2. CASE m + 1 # n
        <5>1. m + 1 \in 1 .. n - 1  BY <1>3, <2>1, <4>2
        <5> QED  BY <1>2, <1>4, <5>1
      <4> QED  BY <4>1, <4>2
    <3>4. Total(x) = dist[x] + Estimate(To[e]) /\ Total(s) = dist[s] + Estimate(To[e])
      BY <2>12 DEF Total
    <3>5. dist[x] \in Nat /\ dist[s] \in Nat /\ Estimate(To[e]) \in Nat
      BY <1>1, <1>5, <2>6, <2>12, EstimateDrops
    <3> HIDE DEF x, s, e, st
    <3> QED  BY <1>2, <2>13, <3>2, <3>3, <3>4, <3>5
  <2>18. Ahead(x, m + 1)
    <3>1. EdgeOf(x) = EdgeOf(p[m + 1])  BY <2>12
    <3> HIDE DEF x, e
    <3> QED  BY <2>13, <2>16, <2>17, <3>1 DEF Ahead
  <2> QED  BY <2>1, <2>18
<1> HIDE DEF Ahead
<1>9. T = Nat
  <2> HIDE DEF T
  <2> QED  BY <1>7, <1>8, Induct DEF T
<1>10. n - j \in Nat /\ j + (n - j) = n /\ j + (n - j) <= n
  BY <1>3
<1>11. PICK t : Ahead(t, n)
  BY <1>9, <1>10
<1>12. t \in done /\ To[EdgeOf(t)] = req.goal
  BY <1>3, <1>11 DEF Ahead
<1> QED  BY <1>12 DEF Frontier

-----------------------------------------------------------------------------
(* The contract, read with this module's graph, is about the same walks.   *)

LEMMA SameWalks == Promise!Walks = Walks
<1>1. \A n : Promise!OutEdges(n) = OutEdges(n)
  BY DEF Promise!OutEdges, OutEdges
<1>2. /\ \A w : Promise!Last(w) = Last(w)
      /\ \A w : Promise!Range(w) = Range(w)
  BY DEF Promise!Last, Last, Promise!Range, Range
<1>3. \A walks : Promise!Longer(walks) = Longer(walks)
  BY <1>1, <1>2 DEF Promise!Longer, Longer
<1>4. \A S : Promise!Cardinality(S) = Cardinality(S)
  BY DEF Promise!Cardinality, Cardinality
<1>5. Promise!WalksOfLength = WalksOfLength
  BY <1>3, <1>4 DEF Promise!WalksOfLength, WalksOfLength
<1> QED  BY <1>4, <1>5 DEF Promise!Walks, Walks

LEMMA SameTotals ==
  ASSUME NEW r, NEW w
  PROVE  /\ Promise!WalkLength(w) = WalkLength(w)
         /\ Promise!WalkUsed(r, w) = WalkUsed(r, w)
         /\ Promise!WalkCost(r, w) = WalkCost(r, w)
<1>1. \A s : Promise!SumUp(s) = SumUp(s)
  BY DEF Promise!SumUp, SumUp
<1>2. \A e : Promise!Spend(r, e, 0) = Spend(r, e, 0)
  BY DEF Promise!Spend, Promise!IsOver, Spend, IsOver
<1>3. Promise!WalkLength(w) = WalkLength(w)
  BY <1>1 DEF Promise!WalkLength, WalkLength
<1>4. Promise!WalkUsed(r, w) = WalkUsed(r, w)
  BY <1>1, <1>2 DEF Promise!WalkUsed, WalkUsed
<1>5. Promise!WalkCost(r, w) = WalkCost(r, w)
  BY <1>1 DEF Promise!WalkCost, WalkCost
<1> QED  BY <1>3, <1>4, <1>5

LEMMA SameAnswers ==
  ASSUME NEW r
  PROVE  Promise!Answers(r) = Answers(r)
<1>1. \A w : Promise!Last(w) = Last(w) /\ Promise!Range(w) = Range(w)
  BY DEF Promise!Last, Last, Promise!Range, Range
<1>2. Promise!WalksBetween = WalksBetween
  BY <1>1, SameWalks DEF Promise!WalksBetween, WalksBetween
<1>3. \A w : Promise!Rideable(r, w) <=> Rideable(r, w)
  BY <1>1 DEF Promise!Rideable, Rideable, Promise!Connects, Connects
<1>4. Promise!Candidates(r) = Candidates(r)
  BY <1>2, <1>3 DEF Promise!Candidates, Candidates
<1>5. Promise!ComfortableCosts(r) = ComfortableCosts(r)
  BY <1>4, SameTotals DEF Promise!ComfortableCosts, ComfortableCosts
<1>6. \A w : Promise!AnswerOf(r, w) = AnswerOf(r, w)
  BY SameTotals DEF Promise!AnswerOf, AnswerOf
<1>7. Promise!Bare("path") = Bare("path")
  BY DEF Promise!Bare, Bare, Promise!NoResult, NoResult
<1> QED  BY <1>4, <1>5, <1>6, <1>7 DEF Promise!Answers, Answers

-----------------------------------------------------------------------------
(* Search implements the safety half of its contract.                      *)

\* An answer as the caller sees it.
Seen(res) == [res EXCEPT !.expansions = 0]

LEMMA SeenBare == \A outcome : Seen(Bare(outcome)) = Bare(outcome)
<1> TAKE outcome
<1>1. Bare(outcome) = [outcome |-> outcome, edges |-> <<>>, cost |-> 0, lengthM |-> 0,
                       usedM |-> 0, expansions |-> 0]
  BY DEF Bare, NoResult
<1> QED  BY <1>1 DEF Seen

LEMMA SeenNothing == Seen(NoResult) = NoResult
BY DEF Seen, NoResult

\* The walk under the trail that buildPath follows is a candidate.
LEMMA TrailRideable ==
  ASSUME SearchInv, Frontier, status = "running",
         NEW item \in queue, Least(item), item.state \notin done,
         To[EdgeOf(item.state)] = req.goal,
         NEW p, Trail(p, item.state)
  PROVE  Ridden(p, Len(p)) \in Candidates(req)
<1> DEFINE n == Len(p)  w == Ridden(p, n)
<1>1. item.state \in States /\ Labelled(item.state)
  BY PoppedFacts
<1>2. /\ n \in Nat \ {0} /\ p \in Seq(States) /\ p[n] = item.state
      /\ \A i \in 1 .. n : EdgeOf(p[i]) \in Edges /\ EdgeOf(p[i]) \in req.allow
      /\ SeedLabel(p[1])
      /\ \A i \in 1 .. n - 1 : StepLabel(p[i], p[i + 1])
  BY <1>1, TrailLabels
<1>3. /\ 1 \in 1 .. n /\ n \in 1 .. n /\ n \in 0 .. n
      /\ \A i \in 1 .. n - 1 : i \in 1 .. n /\ i + 1 \in 1 .. n
  BY <1>2
<1>4. w \in Seq(Edges) /\ Len(w) = n
  BY <1>2, <1>3, RiddenFacts
<1>5. \A i \in 1 .. n : w[i] = EdgeOf(p[i])
  BY DEF Ridden
<1>6. \A i, j \in 1 .. n : w[i] = w[j] => i = j
  <2> SUFFICES ASSUME NEW i \in 1 .. n, NEW j \in 1 .. n, w[i] = w[j], i # j
               PROVE  FALSE
    OBVIOUS
  <2>1. EdgeOf(p[i]) = EdgeOf(p[j])
    BY <1>5
  <2>2. CASE i < j  BY <2>1, <2>2, EdgesDiffer
  <2>3. CASE j < i  BY <2>1, <2>3, EdgesDiffer
  <2>4. i < j \/ j < i
    BY <1>2
  <2> QED  BY <2>2, <2>3, <2>4
<1>7. \A i \in 1 .. n - 1 : To[w[i]] = From[w[i + 1]]
  BY <1>2, <1>3, <1>5 DEF StepLabel
<1>8. w \in [1 .. n -> Edges]
  BY <1>2 DEF Ridden
<1>9. w \in Walks
  <2>1. SimpleWalk(w, n)
    BY <1>6, <1>7, <1>8 DEF SimpleWalk
  <2> QED  BY <1>2, <2>1, SimpleWalkThere
<1>10. From[w[1]] = req.start
  BY <1>2, <1>3, <1>5 DEF SeedLabel
<1> HIDE DEF w, n
<1>11. To[Last(w)] = req.goal
  BY <1>2, <1>3, <1>4, <1>5 DEF Last
<1>12. Range(w) \subseteq req.allow
  BY <1>2, <1>4, <1>5, <1>8 DEF Range
<1>13. {req.start, req.goal} \subseteq Nodes
  BY DEF Frontier
<1>14. w \in WalksBetween[<<req.start, req.goal>>]
  <2>1. <<req.start, req.goal>> \in Nodes \X Nodes
    BY <1>13
  <2>2. WalksBetween[<<req.start, req.goal>>]
          = {v \in Walks : From[v[1]] = req.start /\ To[Last(v)] = req.goal}
    BY <2>1 DEF WalksBetween
  <2> QED  BY <1>9, <1>10, <1>11, <2>2
<1>15. w \in Candidates(req)
  BY <1>10, <1>11, <1>12, <1>13, <1>14 DEF Candidates, Rideable, Connects
<1> QED  BY <1>15 DEF w, n

\* What a search that reaches the goal answers.
LEMMA GoalAnswered ==
  ASSUME SearchInv, Frontier, Traced, NEW item \in queue, PopGoal(item)
  PROVE  Seen(result') \in Answers(req)
<1> DEFINE st == item.state  k == expansions + 1
<1>1. /\ status = "running" /\ st \notin done /\ Least(item)
      /\ To[EdgeOf(st)] = req.goal
      /\ result' = buildPath(st, k)
  BY DEF PopGoal, Settle, Pop, Return
<1>2. st \in States /\ Labelled(st)
  BY <1>1, PoppedFacts
<1>3. PICK path : Trails(path)
  BY <1>1 DEF Traced
<1> DEFINE p == path[st]  n == Len(p)  w == Ridden(p, n)
<1>4. Trail(p, st)
  BY <1>2, <1>3 DEF Trails
<1>5. w \in Candidates(req)
  BY <1>1, <1>4, TrailRideable
<1>6. Chain(st) = w /\ ChainLength(st) = WalkLength(w)
  BY <1>1, <1>2, <1>3, ChainFollows
<1>7. dist[st] = WalkCost(req, w) /\ usedM[st] = WalkUsed(req, w)
  <2>1. n \in 1 .. n /\ p[n] = st
    BY <1>4 DEF Trail
  <2> QED  BY <1>1, <1>2, <1>4, <2>1, TrailAddsUp
<1>8. usedM[st] <= req.budgetM
  BY <1>1, <1>2 DEF SearchInv, LabelsConsistent
<1>9. \A c \in ComfortableCosts(req) : dist[st] <= c
  BY <1>1, PoppedAtGoal
<1>10. req.start # req.goal
  BY <1>1 DEF Frontier
<1> HIDE DEF st, k, p, n, w
<1>11. Seen(result') = AnswerOf(req, w)
  BY <1>1, <1>6, <1>7 DEF Seen, buildPath, AnswerOf
<1>12. /\ AnswerOf(req, w).usedM = usedM[st]
       /\ AnswerOf(req, w).cost = dist[st]
  BY <1>7 DEF AnswerOf
<1> QED  BY <1>5, <1>8, <1>9, <1>10, <1>11, <1>12 DEF Answers

PromiseInv == SearchInv /\ Frontier /\ Traced

LEMMA PromiseInit == Init => Promise!Init
<1> SUFFICES ASSUME Init PROVE Promise!Init
  OBVIOUS
<1>1. RequestType(req)
  BY RequestAssumption DEF Init
<1>2. Promise!RequestType(req)
  BY <1>1 DEF Promise!RequestType, RequestType
<1>3. Seen(result) = Promise!NoResult
  BY SeenNothing DEF Init, Promise!NoResult, NoResult
<1> QED  BY <1>2, <1>3 DEF Init, Promise!Init, Seen

LEMMA PromiseStep ==
  ASSUME PromiseInv, [Next]_vars
  PROVE  [Promise!Next]_(Promise!contract)
<1>1. SearchInv /\ Frontier /\ Traced
  BY DEF PromiseInv
<1>2. ASSUME NEW r \in Requests PROVE Promise!RequestType(r)
  BY RequestAssumption DEF Promise!RequestType, RequestType
<1>3. /\ \A outcome : Promise!Bare(outcome) = Bare(outcome)
      /\ Promise!NoResult = NoResult
      /\ \A n : Promise!OutEdges(n) = OutEdges(n)
  BY DEF Promise!Bare, Bare, Promise!NoResult, NoResult, Promise!OutEdges, OutEdges
<1>4. ASSUME NEW r \in Requests, ReturnEarly(r) PROVE Promise!Ask
  <2>1. status # "running" /\ status' = "returned" /\ req' = r
    BY <1>4 DEF ReturnEarly, Call
  <2>2. Seen(result') \in Promise!Refusals(r)
    BY <1>3, <1>4, SeenBare DEF ReturnEarly, Promise!Refusals
  <2> QED  BY <1>2, <2>1, <2>2 DEF Promise!Ask, Seen
<1>5. ASSUME NEW r \in Requests, Begin(r) PROVE Promise!Ask
  <2>1. /\ status # "running" /\ status' = "running" /\ req' = r
        /\ result' = NoResult
    BY <1>5 DEF Begin, Call
  <2>2. Promise!Refusals(r) = {}
    BY <1>3, <1>5 DEF Begin, Promise!Refusals
  <2>3. Seen(result') = Promise!NoResult
    BY <1>3, <2>1, SeenNothing
  <2> QED  BY <1>2, <2>1, <2>2, <2>3 DEF Promise!Ask, Seen
<1>6. ASSUME NEW item \in queue, PopGoal(item) PROVE Promise!Reply
  <2>1. status = "running" /\ status' = "returned" /\ req' = req
    BY <1>6 DEF PopGoal, Settle, Pop, Return
  <2>2. Seen(result') \in Promise!Answers(req)
    BY <1>1, <1>6, GoalAnswered, SameAnswers
  <2> QED  BY <2>1, <2>2 DEF Promise!Reply, Seen
<1>7. ASSUME Return(Bare("unroutable")), status = "running", req' = req
      PROVE  Promise!Reply
  <2>1. Seen(result') = Promise!Bare("unroutable") /\ status' = "returned"
    BY <1>3, <1>7, SeenBare DEF Return
  <2> QED  BY <1>7, <2>1 DEF Promise!Reply, Seen
<1>8. ASSUME NEW item \in queue, PopOverLimit(item) PROVE Promise!Reply
  BY <1>7, <1>8 DEF PopOverLimit, Settle, Pop
<1>9. CASE Exhausted
  BY <1>7, <1>9 DEF Exhausted, Promise!Next
<1>10. ASSUME UNCHANGED <<req, status, result>> PROVE UNCHANGED Promise!contract
  BY <1>10 DEF Promise!contract
<1>11. ASSUME NEW item \in queue, PopStale(item) \/ PopExpand(item)
       PROVE  UNCHANGED Promise!contract
  BY <1>10, <1>11 DEF PopStale, PopExpand, Settle
<1>12. CASE UNCHANGED vars
  BY <1>10, <1>12 DEF vars
<1> QED  BY <1>4, <1>5, <1>6, <1>8, <1>9, <1>11, <1>12
         DEF Next, Loop, Finished, Promise!Next

(* Whatever calls share a workspace and in whatever order states of equal  *)
(* priority are popped, every step of Search is one its contract allows:   *)
(* what it returns is refused as validate refuses it, is "unroutable", or  *)
(* is a walk of allowed edges from start to goal that repeats no edge, is  *)
(* within the budget, adds up to what it says and is no dearer than a      *)
(* comfortable one.                                                        *)
THEOREM KeepsItsPromise == Spec => Promise!Safety
<1>1. Init => PromiseInv /\ Promise!Init
  BY InitInv, FrontierInit, TracedInit, PromiseInit DEF PromiseInv
<1>2. PromiseInv /\ [Next]_vars => PromiseInv'
  BY NextInv, FrontierStep, TracedStep DEF PromiseInv
<1>3. PromiseInv /\ [Next]_vars => [Promise!Next]_(Promise!contract)
  BY PromiseStep
<1> QED  BY <1>1, <1>2, <1>3, PTL DEF Spec, Promise!Safety

=============================================================================
