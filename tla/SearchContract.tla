---------------------------- MODULE SearchContract ----------------------------
(***************************************************************************)
(* What Search promises its callers (routing.Search's signature, its errors*)
(* and the comments of search.go): a request is refused at once or answered*)
(* once, with a path of Answers or with "unroutable", and it is answered   *)
(* in the end.  How it searches, what it keeps between two calls and in    *)
(* which order it looks is not its callers' business.  Search implements   *)
(* this (SearchReference); PlanHandler is built on it.                     *)
(***************************************************************************)
EXTENDS Walks

VARIABLES
  asked,                \* the last request
  phase,                \* "idle", "running" or "returned"
  reply                 \* the answer, without the number of expansions

contract == <<asked, phase, reply>>

Init == RequestType(asked) /\ phase = "idle" /\ reply = NoResult

\* The checks before a search, in their order.
Refusals(r) ==
  IF r.start = r.goal THEN {Bare("path")}
  ELSE IF ~ {r.start, r.goal} \subseteq Nodes THEN {Bare("out of range")}
  ELSE IF OutEdges(r.start) = {} THEN {Bare("unroutable")}
  ELSE {}

Ask ==
  /\ phase # "running"
  /\ RequestType(asked')
  /\ \/ phase' = "returned" /\ reply' \in Refusals(asked')
     \/ Refusals(asked') = {} /\ phase' = "running" /\ reply' = NoResult

Reply ==
  /\ phase = "running"
  /\ phase' = "returned"
  /\ reply' \in Answers(asked) \union {Bare("unroutable")}
  /\ asked' = asked

Next == Ask \/ Reply

\* Whoever asks is answered, however long it takes.
Replies == (phase = "running") ~> (phase = "returned")

Safety == Init /\ [][Next]_contract

Spec == Safety /\ Replies

=============================================================================
