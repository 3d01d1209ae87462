--------------------------- MODULE SearchReference ---------------------------
(***************************************************************************)
(* What a search returned against the reference definition of Walks.       *)
(***************************************************************************)
EXTENDS Search, Walks

HitLimit == expansions > MaxExp(req)

Promise == INSTANCE SearchContract
             WITH asked <- req, phase <- status, reply <- [result EXCEPT !.expansions = 0]

(* Search implements its contract, over any sequence of calls that share a *)
(* workspace.  A returned path is a connected walk from start to goal over *)
(* allowed edges, repeats no edge, stays within the budget, says of itself *)
(* what its edges add up to (buildPath walks prev backwards through labels *)
(* written in different iterations) and is no dearer than a comfortable    *)
(* one; nothing else is ever answered, no answer changes, and every search *)
(* returns: it settles each state once and stops at the goal, at the       *)
(* expansion limit or when the queue is empty.                             *)
Contract == Promise!Spec

(* When nothing is over the rider's threshold the answer is the cheapest   *)
(* route there is, and "unroutable" is only said when there is none.  With *)
(* a budget, it is never dearer than the cheapest route that stays inside  *)
(* the threshold throughout, and such a route is never overlooked.         *)
NoComfortableRouteLost ==
  (status = "returned" /\ ~HitLimit /\ req.start # req.goal) =>
    BestAnswer(req, result)

(* Comment at search.go:124-127: the search is conservative "by at most    *)
(* one bucket's width", so a route that leaves a bucket's width of the     *)
(* budget unused must be found, or something cheaper returned.             *)
WithinOneBucket ==
  (status = "returned" /\ ~HitLimit /\ req.start # req.goal) =>
    \A w \in Candidates(req) :
      (WalkUsed(req, w) * budgetBuckets(req)
         <= req.budgetM * (budgetBuckets(req) - 1)) =>
        result.outcome = "path" /\ result.cost <= WalkCost(req, w)

=============================================================================
