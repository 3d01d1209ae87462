----------------------------- MODULE ClientProofs -----------------------------
(***************************************************************************)
(* Proofs about PlanClient for any inputs and any number of changes, runs  *)
(* and calls in flight.                                                    *)
(***************************************************************************)
EXTENDS PlanClient, TLAPS

\* run aborts the controller in inFlight before it replaces it, so only the
\* last run's controller is ever live.
OnlyLastLive == \A q \in requests : q.aborted \/ q.id = runs

ClientInv == TypeOK /\ OnlyLastLive /\ OnlyLastPaints /\ LoadingIsLive

\* TypeOK in two halves: the timers, and everything else.
TimersOK ==
  /\ debounce \in BOOLEAN /\ (debounce => want # NoInput)
  /\ poll \in BOOLEAN /\ (poll => want # NoInput)

RestOK ==
  /\ service \in {"starting", "up"}
  /\ mounted \in BOOLEAN
  /\ want \in Inputs \union {NoInput}
  /\ changes \in Nat
  /\ asks \in [Inputs -> Nat]
  /\ requests \subseteq Request
  /\ runs \in Nat
  /\ status \in {"idle", "loading", "ready", "error", "warming-up"}
  /\ shown \in Inputs \union {NoInput}
  /\ baseline \in BOOLEAN
  /\ painted \in Nat
  /\ \A q \in requests : q.id <= runs
  /\ \A q, p \in requests : q.id = p.id => q = p

RunsInv == RestOK /\ OnlyLastLive /\ OnlyLastPaints /\ LoadingIsLive

LEMMA TypeHalves == TypeOK <=> TimersOK /\ RestOK
BY DEF TypeOK, TimersOK, RestOK

-----------------------------------------------------------------------------
(* A timer is pending only while both markers are set: run clears the      *)
(* warm-up timer, and the rider's changes start or clear both.             *)
LEMMA TimersKept ==
  ASSUME TypeOK, [Next]_vars
  PROVE  TimersOK'
<1> USE ClientAssumption DEF TypeOK, TimersOK
<1>1. CASE Clear \/ Unmount
  <2>1. debounce' = FALSE /\ poll' = FALSE
    BY <1>1 DEF Clear, Unmount
  <2> QED BY <2>1
<1>2. ASSUME NEW i \in Inputs, Choose(i) PROVE TimersOK'
  <2>1. debounce' = TRUE /\ want' # NoInput
    BY <1>2 DEF Choose
  <2>2. poll' \in BOOLEAN
    BY <1>2 DEF Choose
  <2> QED BY <2>1, <2>2
<1>3. CASE DebounceFires \/ \E i \in Inputs : AskReady(i)
  <2>1. poll' = FALSE /\ want' = want
    BY <1>3 DEF DebounceFires, AskReady, Run
  <2>2. CASE debounce' = FALSE
    BY <2>1, <2>2
  <2>3. CASE debounce' = debounce
    BY <2>1, <2>3
  <2> QED BY <1>3, <2>2, <2>3 DEF DebounceFires, AskReady
<1>4. CASE PollFires
  <2>1. poll' = FALSE /\ want' = want /\ debounce' = debounce
    BY <1>4 DEF PollFires
  <2> QED BY <2>1
<1>5. ASSUME NEW q \in requests, MainFails(q) PROVE TimersOK'
  <2>1. want' = want /\ debounce' = debounce
    BY <1>5 DEF MainFails
  <2>2. poll' = poll \/ poll' = (status' = "warming-up" /\ want # NoInput)
    BY <1>5 DEF MainFails
  <2>3. poll' \in BOOLEAN
    BY <2>2
  <2>4. poll' => want' # NoInput
    BY <2>1, <2>2
  <2>5. debounce' \in BOOLEAN /\ (debounce' => want' # NoInput)
    BY <2>1
  <2> QED BY <2>3, <2>4, <2>5
<1>6. CASE \/ ServiceUp \/ UNCHANGED vars
           \/ \E i \in Inputs : AskFails(i)
           \/ \E q \in requests :
                BaseSettles(q) \/ MainArrives(q) \/ Finish(q)
  <2>1. want' = want /\ debounce' = debounce /\ poll' = poll
    BY <1>6 DEF ServiceUp, vars, AskFails, BaseSettles, MainArrives, Finish
  <2> QED BY <2>1
<1> QED BY <1>1, <1>2, <1>3, <1>4, <1>5, <1>6
        DEF Next, Rider, Timers, Asks, Answers

(* Aborting keeps every run and its number, and leaves none of them live.  *)
LEMMA AbortedFacts ==
  ASSUME TypeOK, OnlyLastLive
  PROVE  /\ Aborted(requests) \subseteq Request
         /\ \A p \in Aborted(requests) : p.aborted /\ p.id <= runs
         /\ \A p, q \in Aborted(requests) : p.id = q.id => p = q
         /\ \A q \in requests : \E p \in Aborted(requests) : p.id = q.id
<1> DEFINE Stopped(q) == IF q.id = runs THEN [q EXCEPT !.aborted = TRUE]
                         ELSE q
<1>1. Aborted(requests) = {Stopped(q) : q \in requests}
  BY DEF Aborted
<1>2. ASSUME NEW q \in requests
      PROVE  /\ Stopped(q) \in Request
             /\ Stopped(q).id = q.id
             /\ Stopped(q).aborted = TRUE
  BY <1>2 DEF TypeOK, OnlyLastLive, Request
<1>3. \A p, q \in requests : Stopped(p).id = Stopped(q).id => p = q
  BY <1>2 DEF TypeOK
<1> HIDE DEF Stopped
<1>4. \A q \in requests : q.id <= runs
  BY DEF TypeOK
<1>5. Aborted(requests) \subseteq Request
  BY <1>1, <1>2
<1>6. \A p \in Aborted(requests) : p.aborted /\ p.id <= runs
  <2> TAKE p \in Aborted(requests)
  <2>1. PICK q \in requests : p = Stopped(q)
    BY <1>1
  <2>2. p.aborted = TRUE /\ p.id = q.id
    BY <1>2, <2>1
  <2> QED BY <1>4, <2>2
<1>7. \A q \in requests : \E p \in Aborted(requests) : p.id = q.id
  BY <1>1, <1>2
<1>8. \A p, q \in Aborted(requests) : p.id = q.id => p = q
  <2> TAKE p, q \in Aborted(requests)
  <2>1. PICK s \in requests : p = Stopped(s)
    BY <1>1
  <2>2. PICK t \in requests : q = Stopped(t)
    BY <1>1
  <2> QED BY <1>3, <2>1, <2>2
<1> QED BY <1>5, <1>6, <1>7, <1>8

(* run starts one more run: the only live one, and the one "loading" is    *)
(* about.                                                                  *)
LEMMA RunKeeps ==
  ASSUME ClientInv, NEW i \in Inputs, Run(i),
         UNCHANGED <<service, mounted, want, changes, Settled>>,
         asks' \in [Inputs -> Nat]
  PROVE  RunsInv'
<1> USE TypeHalves DEF ClientInv, RunsInv
<1>1. NewRequest(i) \in Request /\ NewRequest(i).id = runs + 1
      /\ NewRequest(i).aborted = FALSE
  BY DEF NewRequest, Request, RestOK
<1>2. requests' \subseteq Request /\ runs' \in Nat
  BY <1>1, AbortedFacts DEF Run, RestOK
<1>3. \A q \in requests' : q.id <= runs'
  BY <1>1, AbortedFacts DEF Run, RestOK, Request
<1>4. \A q, p \in requests' : q.id = p.id => q = p
  BY <1>1, AbortedFacts DEF Run, RestOK, Request
<1>5. RestOK'
  BY <1>2, <1>3, <1>4 DEF RestOK, Run, Settled
<1>6. OnlyLastLive'
  BY <1>1, AbortedFacts DEF Run, OnlyLastLive
<1>7. OnlyLastPaints'
  BY DEF Run, OnlyLastPaints
<1>8. LoadingIsLive'
  BY <1>1 DEF Run, LoadingIsLive
<1> QED BY <1>5, <1>6, <1>7, <1>8

(* The rider's changes.                                                    *)
LEMMA RiderKeeps ==
  ASSUME ClientInv, Rider
  PROVE  RunsInv'
<1> USE ClientAssumption, TypeHalves DEF ClientInv, RunsInv
<1>1. CASE Clear \/ Unmount
  <2>1. requests' = Aborted(requests) /\ runs' = runs
    BY <1>1 DEF Clear, Unmount
  <2>2. RestOK'
    <3>1. /\ requests' \subseteq Request
          /\ \A q \in requests' : q.id <= runs'
          /\ \A q, p \in requests' : q.id = p.id => q = p
      BY <2>1, AbortedFacts
    <3>2. CASE Clear
      <4>1. baseline' \in BOOLEAN /\ mounted' \in BOOLEAN
        BY <3>2 DEF Clear, RestOK
      <4>2. changes' \in Nat /\ asks' \in [Inputs -> Nat] /\ painted' \in Nat
        BY <3>2 DEF Clear, RestOK
      <4> QED BY <3>1, <3>2, <4>1, <4>2 DEF Clear, RestOK
    <3>3. CASE Unmount
      BY <3>1, <3>3 DEF Unmount, RestOK, Settled
    <3> QED BY <1>1, <3>2, <3>3
  <2>3. OnlyLastLive'
    BY <2>1, AbortedFacts DEF OnlyLastLive
  <2>4. OnlyLastPaints' /\ LoadingIsLive'
    BY <1>1 DEF Clear, Unmount, OnlyLastPaints, LoadingIsLive
  <2> QED BY <2>2, <2>3, <2>4
<1>2. ASSUME NEW i \in Inputs, Choose(i) PROVE RunsInv'
  BY <1>2 DEF Choose, Settled, RestOK, OnlyLastLive, OnlyLastPaints,
              LoadingIsLive
<1> QED BY <1>1, <1>2 DEF Rider

(* Timers and warm-up calls.                                               *)
LEMMA TimersKeep ==
  ASSUME ClientInv, Timers \/ Asks
  PROVE  RunsInv'
<1> USE ClientAssumption, TypeHalves DEF ClientInv, RunsInv
<1>a. debounce \/ poll => want \in Inputs
  BY DEF TypeOK
<1>1. CASE DebounceFires
  <2>1. asks' \in [Inputs -> Nat]
    BY <1>1 DEF DebounceFires, RestOK
  <2> QED BY <1>a, <1>1, <2>1, RunKeeps DEF DebounceFires
<1>2. CASE PollFires
  <2>1. asks' \in [Inputs -> Nat]
    BY <1>2, <1>a DEF PollFires, RestOK
  <2> QED BY <1>2, <2>1 DEF PollFires, Settled, RestOK, OnlyLastLive,
                            OnlyLastPaints, LoadingIsLive
<1>3. ASSUME NEW i \in Inputs, AskReady(i) PROVE RunsInv'
  <2>1. asks' \in [Inputs -> Nat]
    BY <1>3 DEF AskReady, RestOK
  <2> QED BY <1>3, <2>1, RunKeeps DEF AskReady
<1>4. ASSUME NEW i \in Inputs, AskFails(i) PROVE RunsInv'
  BY <1>4 DEF AskFails, Settled, RestOK, OnlyLastLive, OnlyLastPaints,
              LoadingIsLive
<1> QED BY <1>1, <1>2, <1>3, <1>4 DEF Timers, Asks

(* One promise of a run settles: the run stays, with its number and its    *)
(* controller.                                                             *)
LEMMA SettleKeeps ==
  ASSUME ClientInv, NEW q \in requests, BaseSettles(q) \/ MainArrives(q)
  PROVE  RunsInv'
<1> USE TypeHalves DEF ClientInv, RunsInv
<1>1. PICK p \in Request :
        /\ requests' = (requests \ {q}) \union {p}
        /\ p.id = q.id /\ p.aborted = q.aborted
  <2>1. q \in Request
    BY DEF RestOK
  <2>2. CASE MainArrives(q)
    <3>1. [q EXCEPT !.main = "route"] \in Request
      BY <2>1 DEF Request
    <3>2. /\ [q EXCEPT !.main = "route"].id = q.id
          /\ [q EXCEPT !.main = "route"].aborted = q.aborted
      BY <2>1 DEF Request
    <3> QED BY <2>2, <3>1, <3>2 DEF MainArrives
  <2>3. ASSUME NEW b \in {"route", "null"},
               requests' = (requests \ {q}) \union {[q EXCEPT !.base = b]}
        PROVE  \E p \in Request :
                 /\ requests' = (requests \ {q}) \union {p}
                 /\ p.id = q.id /\ p.aborted = q.aborted
    <3>1. [q EXCEPT !.base = b] \in Request
      BY <2>1, <2>3 DEF Request
    <3>2. /\ [q EXCEPT !.base = b].id = q.id
          /\ [q EXCEPT !.base = b].aborted = q.aborted
      BY <2>1 DEF Request
    <3> QED BY <2>3, <3>1, <3>2
  <2> QED BY <2>2, <2>3 DEF BaseSettles
<1>2. UNCHANGED <<service, mounted, want, changes, debounce, poll, asks, runs,
                  status, Settled>>
  BY DEF BaseSettles, MainArrives
<1>3. RestOK'
  BY <1>1, <1>2 DEF RestOK, Settled
<1>4. OnlyLastLive' /\ OnlyLastPaints'
  BY <1>1, <1>2 DEF OnlyLastLive, OnlyLastPaints, Settled
<1>5. LoadingIsLive'
  BY <1>1, <1>2 DEF LoadingIsLive, Settled
<1> QED BY <1>3, <1>4, <1>5

(* A run ends: it paints or reports only when it is the live one.          *)
LEMMA EndKeeps ==
  ASSUME ClientInv, NEW q \in requests, Finish(q) \/ MainFails(q)
  PROVE  RunsInv'
<1> USE ClientAssumption, TypeHalves DEF ClientInv, RunsInv
<1>1. /\ requests' = requests \ {q} /\ q \in Request
      /\ UNCHANGED <<service, mounted, want, changes, debounce, asks, runs>>
  BY DEF Finish, MainFails, RestOK
<1>2. RestOK'
  <2>1. /\ requests' \subseteq Request
        /\ \A p \in requests' : p.id <= runs'
        /\ \A p, r \in requests' : p.id = r.id => p = r
    BY <1>1 DEF RestOK
  <2>2. q.input \in Inputs /\ q.id \in Nat
    BY <1>1 DEF Request
  <2>3. CASE Finish(q)
    <3>1. baseline' \in BOOLEAN
      BY <2>3 DEF Finish, RestOK, Settled
    <3> QED BY <1>1, <2>1, <2>2, <2>3, <3>1 DEF Finish, RestOK, Settled
  <2>4. CASE MainFails(q)
    <3>1. baseline' \in BOOLEAN
      BY <2>4 DEF MainFails, RestOK, Settled
    <3>2. status' \in {"idle", "loading", "ready", "error", "warming-up"}
      BY <2>4 DEF MainFails, RestOK
    <3>3. shown' \in Inputs \union {NoInput} /\ painted' \in Nat
      BY <2>4 DEF MainFails, RestOK, Settled
    <3> QED BY <1>1, <2>1, <3>1, <3>2, <3>3 DEF RestOK
  <2> QED BY <2>3, <2>4
<1>3. OnlyLastLive'
  BY <1>1 DEF OnlyLastLive
<1>4. CASE q.aborted \/ ~mounted
  BY <1>1, <1>2, <1>3, <1>4
     DEF Finish, MainFails, Settled, OnlyLastPaints, LoadingIsLive
<1>5. CASE ~q.aborted /\ mounted
  BY <1>1, <1>2, <1>3, <1>5
     DEF Finish, MainFails, OnlyLastPaints, LoadingIsLive, OnlyLastLive
<1> QED BY <1>4, <1>5

LEMMA ClientInvariant == Spec => []ClientInv
<1>1. Init => ClientInv
  <2> SUFFICES ASSUME Init PROVE ClientInv
    OBVIOUS
  <2>1. TimersOK
    BY DEF Init, TimersOK
  <2>2. RestOK
    <3>1. baseline \in BOOLEAN /\ mounted \in BOOLEAN
      BY DEF Init
    <3>2. changes \in Nat /\ asks \in [Inputs -> Nat] /\ painted \in Nat
      BY DEF Init
    <3> QED BY <3>1, <3>2 DEF Init, RestOK
  <2> QED BY <2>1, <2>2, TypeHalves
          DEF Init, ClientInv, OnlyLastLive, OnlyLastPaints, LoadingIsLive
<1>2. ClientInv /\ [Next]_vars => ClientInv'
  <2> SUFFICES ASSUME ClientInv, [Next]_vars PROVE RunsInv'
    BY TimersKept DEF ClientInv, RunsInv, TypeOK, TimersOK, RestOK
  <2> USE TypeHalves
  <2>1. CASE Rider \/ Timers \/ Asks
    BY <2>1, RiderKeeps, TimersKeep
  <2>2. CASE Answers
    BY <2>2, SettleKeeps, EndKeeps DEF Answers
  <2>3. CASE ServiceUp
    BY <2>3 DEF ServiceUp, Settled, ClientInv, RunsInv, RestOK,
                OnlyLastLive, OnlyLastPaints, LoadingIsLive
  <2>4. CASE UNCHANGED vars
    BY <2>4 DEF vars, ClientInv, RunsInv, RestOK, OnlyLastLive,
                OnlyLastPaints, LoadingIsLive
  <2> QED BY <2>1, <2>2, <2>3, <2>4 DEF Next
<1> QED BY <1>1, <1>2, PTL DEF Spec

(* usePlan.ts: every state the hook reaches is of its type, and no two runs*)
(* in flight share a number.                                               *)
THEOREM TypeCorrect == Spec => []TypeOK
BY ClientInvariant, PTL DEF ClientInv

(* usePlan.ts:71-73 "only the last may paint": the plan shown is the work  *)
(* of the run started last, for any number of runs in flight.              *)
THEOREM LastPaints == Spec => []OnlyLastPaints
BY ClientInvariant, PTL DEF ClientInv

(* usePlan.ts:74-83, 113-120: every path out of run resets the status,     *)
(* except when the run was aborted, and then its successor is at work or   *)
(* the rider cleared the plan: "loading" is never left without a live run. *)
THEOREM SpinnerNotOrphaned == Spec => []LoadingIsLive
BY ClientInvariant, PTL DEF ClientInv

(* "A missing comparison should never cost the rider their actual route":  *)
(* a live run whose plan has arrived ends in no other way than by showing  *)
(* it, whatever its baseline and the runs around it do.                    *)
THEOREM BaselineIsOptional == Spec => BaselineNeverCosts
<1>1. ASSUME ClientInv, [Next]_vars, NEW q \in requests,
             mounted, q.main = "route", ~q.aborted,
             ~\E p \in requests' : p.id = q.id
      PROVE  status' = "ready"
  <2> USE <1>1
  <2>1. CASE Clear \/ Unmount \/ \E i \in Inputs : Run(i)
    BY <2>1, AbortedFacts DEF Clear, Unmount, Run, ClientInv
  <2>2. ASSUME NEW p \in requests, BaseSettles(p) \/ MainArrives(p)
        PROVE  FALSE
    <3>1. p \in Request
      BY DEF ClientInv, TypeOK
    <3>2. \E s \in requests' : s.id = p.id
      <4>1. /\ [p EXCEPT !.main = "route"].id = p.id
            /\ \A b : [p EXCEPT !.base = b].id = p.id
        BY <3>1 DEF Request
      <4> QED BY <2>2, <4>1 DEF BaseSettles, MainArrives
    <3>3. \A s \in requests \ {p} : s \in requests'
      BY <2>2 DEF BaseSettles, MainArrives
    <3> QED BY <3>2, <3>3
  <2>3. ASSUME NEW p \in requests, Finish(p) \/ MainFails(p)
        PROVE  status' = "ready"
    <3>1. p = q
      BY <2>3 DEF Finish, MainFails
    <3> QED BY <2>3, <3>1 DEF Finish, MainFails
  <2>4. CASE \/ PollFires \/ ServiceUp \/ UNCHANGED vars
             \/ \E i \in Inputs : Choose(i) \/ AskFails(i)
    BY <2>4 DEF PollFires, ServiceUp, vars, Choose, AskFails
  <2>5. DebounceFires => \E i \in Inputs : Run(i)
    BY DEF DebounceFires, ClientInv, TypeOK
  <2>6. \A i \in Inputs : AskReady(i) => Run(i)
    BY DEF AskReady
  <2> QED BY <2>1, <2>2, <2>3, <2>4, <2>5, <2>6
          DEF Next, Rider, Timers, Asks, Answers
<1>2. ClientInv /\ [Next]_vars =>
        [\A q \in requests :
           (mounted /\ q.main = "route" /\ ~q.aborted
              /\ ~\E p \in requests' : p.id = q.id) => status' = "ready"]_vars
  BY <1>1
<1> QED BY <1>2, ClientInvariant, PTL DEF Spec, BaselineNeverCosts

=============================================================================
