----------------------------- MODULE PlanClient -----------------------------
(***************************************************************************)
(* The planning hook of the web client (web/src/state/usePlan.ts) over     *)
(* api/client.ts: debounce, one abort controller per plan, the baseline    *)
(* that is fetched next to the plan, and the warm-up poll.                 *)
(*                                                                         *)
(* An input stands for everything a plan depends on: both markers, the     *)
(* settings and the compare switch.  A React state change and the effects  *)
(* it re-runs are one step; every await is a point where other steps come  *)
(* in between.  The service behind the client is external: it answers 503  *)
(* while it starts, and any call may fail.                                 *)
(***************************************************************************)
EXTENDS Naturals, FiniteSets

CONSTANTS
  Inputs,       \* complete inputs a rider may choose
  Compared,     \* the inputs whose run also fetches the baseline
  NoInput,      \* a marker is missing; also "no plan is shown"
  MaxChanges    \* bound on the rider's changes

ASSUME ClientAssumption ==
  /\ Compared \subseteq Inputs
  /\ NoInput \notin Inputs
  /\ MaxChanges \in Nat

VARIABLES
  service,      \* "starting" or "up"
  mounted,
  want,         \* the props and settings of the last render
  changes,
  debounce,     \* the plan timer is pending (its closure holds want)
  poll,         \* the warm-up timer is pending (its closure holds want)
  asks,         \* readyz calls in flight, by the input of their closure
  requests,     \* run calls at their await
  runs,         \* run calls so far; the last one's controller is inFlight
  status, shown, baseline,   \* PlanState
  painted       \* the run that painted the plan on the map

vars == <<service, mounted, want, changes, debounce, poll, asks, requests,
          runs, status, shown, baseline, painted>>

Request == [id : Nat, input : Inputs, aborted : BOOLEAN,
            main : {"pending", "route"}, base : {"pending", "route", "null"}]

Init ==
  /\ service = "starting"
  /\ mounted = TRUE
  /\ want = NoInput
  /\ changes = 0
  /\ debounce = FALSE
  /\ poll = FALSE
  /\ asks = [i \in Inputs |-> 0]
  /\ requests = {}
  /\ runs = 0
  /\ status = "idle"
  /\ shown = NoInput
  /\ baseline = FALSE
  /\ painted = 0

\* inFlight.current?.abort()
Aborted(qs) ==
  {IF q.id = runs THEN [q EXCEPT !.aborted = TRUE] ELSE q : q \in qs}

Settled == <<shown, baseline, painted>>

-----------------------------------------------------------------------------
(* The rider.                                                              *)

\* The effect of a missing marker without its setState.
Clear_NoIdle ==
  /\ mounted
  /\ changes < MaxChanges
  /\ changes' = changes + 1
  /\ want' = NoInput
  /\ debounce' = FALSE
  /\ poll' = FALSE
  /\ requests' = Aborted(requests)
  /\ UNCHANGED <<service, mounted, asks, runs, status, Settled>>

\* The effect's cleanup does not clear the plan timer.
Clear_TimerKept ==
  /\ mounted
  /\ changes < MaxChanges
  /\ changes' = changes + 1
  /\ want' = NoInput
  /\ poll' = FALSE
  /\ requests' = Aborted(requests)
  /\ status' = "idle"
  /\ shown' = NoInput
  /\ baseline' = FALSE
  /\ painted' = 0
  /\ UNCHANGED <<service, mounted, debounce, asks, runs>>

\* A marker goes missing: timers cleared, plan aborted, state reset.
Clear ==
  /\ mounted
  /\ changes < MaxChanges
  /\ changes' = changes + 1
  /\ want' = NoInput
  /\ debounce' = FALSE
  /\ poll' = FALSE
  /\ requests' = Aborted(requests)
  /\ status' = "idle"
  /\ shown' = NoInput
  /\ baseline' = FALSE
  /\ painted' = 0
  /\ UNCHANGED <<service, mounted, asks, runs>>

\* Moving a marker, changing settings or compare, retryWith: the timers'
\* effects clean up and run again; the plan in flight goes on.
Choose(i) ==
  /\ mounted
  /\ changes < MaxChanges
  /\ changes' = changes + 1
  /\ i # want
  /\ want' = i
  /\ debounce' = TRUE
  /\ poll' = (status = "warming-up")
  /\ UNCHANGED <<service, mounted, asks, requests, runs, status, Settled>>

Unmount ==
  /\ mounted
  /\ mounted' = FALSE
  /\ debounce' = FALSE
  /\ poll' = FALSE
  /\ requests' = Aborted(requests)
  /\ UNCHANGED <<service, want, changes, asks, runs, status, Settled>>

-----------------------------------------------------------------------------
(* run: abort the plan in flight, start another, show "loading".  The new  *)
(* status re-runs the warm-up effect, which clears its timer.              *)

NewRequest(i) ==
  [id |-> runs + 1, input |-> i, aborted |-> FALSE, main |-> "pending",
   base |-> IF i \in Compared THEN "pending" ELSE "null"]

Run(i) ==
  /\ requests' = Aborted(requests) \union {NewRequest(i)}
  /\ runs' = runs + 1
  /\ status' = IF mounted THEN "loading" ELSE status
  /\ poll' = FALSE

DebounceFires ==
  /\ debounce
  /\ debounce' = FALSE
  /\ Run(want)
  /\ UNCHANGED <<service, mounted, want, changes, asks, Settled>>

\* The baseline's failure is caught: it settles to null.  A call whose
\* signal was aborted is never fulfilled.
BaseSettles(q) ==
  /\ q.base = "pending"
  /\ \E b \in (IF q.aborted THEN {"null"} ELSE {"route", "null"}) :
       requests' = (requests \ {q}) \union {[q EXCEPT !.base = b]}
  /\ UNCHANGED <<service, mounted, want, changes, debounce, poll, asks, runs,
                 status, Settled>>

MainArrives(q) ==
  /\ q.main = "pending" /\ ~q.aborted
  /\ service = "up"
  /\ requests' = (requests \ {q}) \union {[q EXCEPT !.main = "route"]}
  /\ UNCHANGED <<service, mounted, want, changes, debounce, poll, asks, runs,
                 status, Settled>>

\* Without the test of ctrl.signal.aborted; and waiting for a baseline that
\* is not null.
Finish_Unchecked(q) ==
  /\ q.main = "route" /\ q.base # "pending"
  /\ mounted
  /\ requests' = requests \ {q}
  /\ status' = "ready"
  /\ shown' = q.input
  /\ baseline' = (q.base = "route")
  /\ painted' = q.id
  /\ UNCHANGED <<service, mounted, want, changes, debounce, poll, asks, runs>>
Finish_NeedsBase(q) ==
  /\ q.main = "route" /\ (q.base = "route" \/ q.input \notin Compared)
  /\ ~q.aborted
  /\ mounted
  /\ requests' = requests \ {q}
  /\ status' = "ready"
  /\ shown' = q.input
  /\ baseline' = (q.base = "route")
  /\ painted' = q.id
  /\ UNCHANGED <<service, mounted, want, changes, debounce, poll, asks, runs>>

\* Both promises are fulfilled.  Setting state after unmounting does nothing.
Finish(q) ==
  /\ q.main = "route" /\ q.base # "pending"
  /\ requests' = requests \ {q}
  /\ IF q.aborted \/ ~mounted THEN UNCHANGED <<status, Settled>>
     ELSE /\ status' = "ready"
          /\ shown' = q.input
          /\ baseline' = (q.base = "route")
          /\ painted' = q.id
  /\ UNCHANGED <<service, mounted, want, changes, debounce, poll, asks, runs>>

\* A baseline that fails takes the plan with it.
MainFails_OrBase(q) ==
  /\ q.main = "pending" \/ q.base = "null"
  /\ requests' = requests \ {q}
  /\ IF q.aborted \/ ~mounted THEN UNCHANGED <<status, Settled, poll>>
     ELSE /\ status' = "error"
          /\ shown' = NoInput
          /\ baseline' = FALSE
          /\ painted' = 0
          /\ poll' = FALSE
  /\ UNCHANGED <<service, mounted, want, changes, debounce, asks, runs>>

\* The plan's promise rejects, which rejects Promise.all at once: 503 while
\* the service starts, otherwise an error answer, a network failure or the
\* 60 s timeout.  "warming-up" sets the warm-up timer.
MainFails(q) ==
  /\ q.main = "pending"
  /\ requests' = requests \ {q}
  /\ IF q.aborted \/ ~mounted THEN UNCHANGED <<status, Settled, poll>>
     ELSE /\ \/ status' = "error"
             \/ service = "starting" /\ status' = "warming-up"
          /\ shown' = NoInput
          /\ baseline' = FALSE
          /\ painted' = 0
          /\ poll' = (status' = "warming-up" /\ want # NoInput)
  /\ UNCHANGED <<service, mounted, want, changes, debounce, asks, runs>>

-----------------------------------------------------------------------------
(* The warm-up poll.  Clearing the timer does not recall a readyz call that*)
(* has gone out: its continuation still holds the inputs of its render.    *)

PollFires ==
  /\ poll
  /\ poll' = FALSE
  /\ asks' = [asks EXCEPT ![want] = @ + 1]
  /\ UNCHANGED <<service, mounted, want, changes, debounce, requests, runs,
                 status, Settled>>

\* readyz says the graph is loaded.
AskReady(i) ==
  /\ asks[i] > 0
  /\ service = "up"
  /\ asks' = [asks EXCEPT ![i] = @ - 1]
  /\ Run(i)
  /\ UNCHANGED <<service, mounted, want, changes, debounce, Settled>>

\* readyz throws (503 or no answer): the catch block is empty.
AskFails(i) ==
  /\ asks[i] > 0
  /\ asks' = [asks EXCEPT ![i] = @ - 1]
  /\ UNCHANGED <<service, mounted, want, changes, debounce, poll, requests,
                 runs, status, Settled>>

ServiceUp ==
  /\ service = "starting"
  /\ service' = "up"
  /\ UNCHANGED <<mounted, want, changes, debounce, poll, asks, requests, runs,
                 status, Settled>>

-----------------------------------------------------------------------------
Rider == Clear \/ Unmount \/ \E i \in Inputs : Choose(i)

\* Timers and calls that are under way.
Timers == DebounceFires \/ PollFires
Asks == \E i \in Inputs : AskReady(i) \/ AskFails(i)
Answers == \E q \in requests :
             BaseSettles(q) \/ MainArrives(q) \/ Finish(q) \/ MainFails(q)

Next == Rider \/ Timers \/ Asks \/ Answers \/ ServiceUp

\* A timer that is not cleared fires; every call settles, because client.ts
\* gives it 60 s; the service comes up.  Nothing is promised of the rider.
Spec == /\ Init /\ [][Next]_vars
        /\ WF_vars(Timers) /\ WF_vars(Asks) /\ WF_vars(Answers)
        /\ WF_vars(ServiceUp)

-----------------------------------------------------------------------------
(* Every variable stays within its type; in particular run ids are unique. *)
TypeOK ==
  /\ service \in {"starting", "up"}
  /\ mounted \in BOOLEAN
  /\ want \in Inputs \union {NoInput}
  /\ changes \in Nat
  /\ debounce \in BOOLEAN /\ (debounce => want # NoInput)
  /\ poll \in BOOLEAN /\ (poll => want # NoInput)
  /\ asks \in [Inputs -> Nat]
  /\ requests \subseteq Request
  /\ runs \in Nat
  /\ status \in {"idle", "loading", "ready", "error", "warming-up"}
  /\ shown \in Inputs \union {NoInput}
  /\ baseline \in BOOLEAN
  /\ painted \in Nat
  /\ \A q \in requests : q.id <= runs
  /\ \A q, p \in requests : q.id = p.id => q = p

(* "Only the last may paint": the plan on the map is the work of the run   *)
(* started last, whatever order answers come in (usePlan.ts aborts the     *)
(* previous controller and tests it after the await).                      *)
OnlyLastPaints == (mounted /\ status = "ready") => painted = runs

(* The spinner is never orphaned: "loading" is shown only while a run that *)
(* nobody aborted is at work, so some later step will replace it.          *)
LoadingIsLive ==
  (mounted /\ status = "loading") =>
     \E q \in requests : q.id = runs /\ ~q.aborted

(* "A missing comparison should never cost the rider their actual route":  *)
(* a run whose plan arrived and that was not aborted ends in "ready".      *)
BaselineNeverCosts ==
  [][\A q \in requests :
       (mounted /\ q.main = "route" /\ ~q.aborted
          /\ ~\E p \in requests' : p.id = q.id) => status' = "ready"]_vars

(* "loading" ends, through an answer, a failure or the rider.              *)
LoadingEnds == (mounted /\ status = "loading") ~>
                 (~mounted \/ status # "loading")

(* usePlan.ts:71-73 "only the last may paint, or the map briefly shows a   *)
(* route that does not connect the markers the rider is looking at": once  *)
(* nothing is pending any more, the route shown is the one asked for.      *)
SettledShowsMarkers ==
  (/\ mounted /\ requests = {} /\ ~debounce /\ ~poll
   /\ \A i \in Inputs : asks[i] = 0
   /\ status = "ready") => shown = want

(* usePlan.ts:133 "still starting; the next tick tries again": the warm-up *)
(* state resolves itself once the service is up.                           *)
WarmUpResolves ==
  (mounted /\ status = "warming-up" /\ want # NoInput) ~>
     (~mounted \/ status # "warming-up" \/ want = NoInput)

=============================================================================
