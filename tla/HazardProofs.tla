----------------------------- MODULE HazardProofs -----------------------------
(***************************************************************************)
(* Proofs about HazardOverlay for any number of reports, handlers, ticks,  *)
(* confirmations and crashes.                                              *)
(***************************************************************************)
EXTENDS HazardOverlay, TLAPS

(* What Refresh's SELECT returns is a view the table supports, and it shows*)
(* every report that is active when it runs.                               *)
LEMMA QueryFacts ==
  ASSUME TypeOK, CreatedPast
  PROVE  /\ ScoreQuery \in View
         /\ Supported(ScoreQuery)
         /\ \A r \in Reports : Active(r) => Steers(ScoreQuery, r)
<1> USE HazardAssumption DEF TypeOK
<1>1. ASSUME NEW r \in Reports
      PROVE  /\ ScoreQuery[r] \in [confirmations : Nat, left : Nat]
             /\ Active(r) => Steers(ScoreQuery, r)
             /\ Steers(ScoreQuery, r) =>
                  /\ r \in stored
                  /\ ScoreQuery[r].confirmations <= confirmations[r]
                  /\ ScoreQuery[r].left <= expires[r] - created[r]
  <2>1. CASE Active(r)
    BY <1>1, <2>1 DEF ScoreQuery, Active, Steers, Least, CreatedPast
  <2>2. CASE ~Active(r)
    BY <1>1, <2>2 DEF ScoreQuery, Steers
  <2> QED BY <2>1, <2>2
<1>2. ScoreQuery \in View
  BY <1>1 DEF ScoreQuery, View
<1> QED BY <1>1, <1>2 DEF Supported

(* The empty overlay of NewIndex steers nothing.                           *)
LEMMA NothingFacts ==
  /\ Nothing \in View
  /\ Supported(Nothing)
  /\ \A r \in Reports : ~Steers(Nothing, r)
BY DEF Nothing, View, Supported, Steers

\* What a step may do to the table without weakening a view taken earlier.
TableGrows ==
  /\ stored \subseteq stored'
  /\ stored' \subseteq Reports
  /\ confirmations' \in [Reports -> Nat]
  /\ created' \in [Reports -> Nat]
  /\ expires' \in [Reports -> Nat]
  /\ \A r \in stored : /\ created'[r] = created[r]
                       /\ confirmations[r] <= confirmations'[r]
                       /\ expires[r] <= expires'[r]
                       /\ ~Active(r) => expires'[r] = expires[r]
  /\ \A r \in Reports : created'[r] <= clock

(* Every statement the handlers run makes the table grow.                  *)
LEMMA StatementsGrow ==
  ASSUME TypeOK, CreatedPast, NEW r \in Reports,
         \/ r \notin stored /\ InsertReport(r)
         \/ UpdateConfirm(r)
         \/ UNCHANGED table
  PROVE  TableGrows
<1> USE HazardAssumption DEF TypeOK, CreatedPast, TableGrows
<1>1. CASE r \notin stored /\ InsertReport(r)
  BY <1>1 DEF InsertReport
<1>2. CASE UpdateConfirm(r)
  BY <1>2 DEF UpdateConfirm, Active
<1>3. CASE UNCHANGED table
  BY <1>3 DEF table
<1> QED BY <1>1, <1>2, <1>3

(* A view supported before the table grows is supported afterwards.        *)
LEMMA SupportKept ==
  ASSUME TypeOK, TableGrows, NEW view \in View, Supported(view)
  PROVE  Supported(view)'
BY DEF TypeOK, TableGrows, Supported, Steers, View

(* The request side: storing or confirming a report, answered or not.      *)
LEMMA RequestKeeps ==
  ASSUME OverlayInv, NEW h \in Handlers, NEW r \in Reports, Request(h, r)
  PROVE  OverlayInv'
<1> USE DEF OverlayInv
<1>1. /\ Arrives(h)
      /\ UNCHANGED <<Unhandled, rows, history>>
      /\ \/ r \notin stored /\ InsertReport(r)
         \/ UpdateConfirm(r)
         \/ UNCHANGED table
      /\ \/ UNCHANGED <<pc, target>>
         \/ /\ pc' = [pc EXCEPT ![h] = "stored"]
            /\ target' = [target EXCEPT ![h] = r]
            /\ r \in stored'
  BY DEF Request, Create, CreateFails, Confirm, ConfirmFails, Goto,
         InsertReport, UpdateConfirm, Active
<1>2. TableGrows
  BY <1>1, StatementsGrow
<1>3. /\ clock' = clock /\ phase' = phase /\ overlay' = overlay
      /\ startRows' = startRows /\ installer' = installer
      /\ crashes' = crashes /\ rows' = rows /\ acked' = acked
      /\ told' = told /\ known' = known /\ due' = due
      /\ phase = "up" /\ pc[h] = "idle"
  BY <1>1 DEF Unhandled, Arrives, history
<1>4. TypeOK'
  BY <1>1, <1>2, <1>3 DEF TypeOK, TableGrows
<1>5. CreatedPast'
  BY <1>2, <1>3 DEF TableGrows, CreatedPast
<1>6. OverlaySupported'
  <2>1. Supported(overlay)' /\ Supported(startRows)'
    BY <1>2, <1>3, SupportKept DEF TypeOK, OverlaySupported
  <2>2. ASSUME NEW i \in Handlers PROVE Supported(rows[i])'
    BY <1>2, <1>3, SupportKept DEF TypeOK, OverlaySupported
  <2> QED BY <2>1, <2>2 DEF OverlaySupported
<1>7. TargetsStored'
  BY <1>1, <1>2, <1>3 DEF TargetsStored, TableGrows, TypeOK
<1>8. ASSUME NEW i \in Handlers, pc'[i] \in {"queried", "refreshed"},
             Active(target[i])'
      PROVE  /\ pc'[i] = pc[i] /\ target'[i] = target[i]
             /\ Active(target[i])
  <2>1. pc'[i] = pc[i] /\ target'[i] = target[i]
    BY <1>1, <1>3, <1>8 DEF TypeOK
  <2>2. target[i] \in stored
    BY <2>1, <1>8 DEF TargetsStored
  <2> QED BY <2>1, <2>2, <1>2, <1>3, <1>8
          DEF Active, TableGrows, TypeOK
<1>9. RowsShowOwnWrite' /\ OwnWriteVisible'
  BY <1>3, <1>8 DEF RowsShowOwnWrite, OwnWriteVisible, Steers
<1>10. NothingBeforeListen' /\ StartRowsComplete'
  BY <1>3 DEF NothingBeforeListen, StartRowsComplete
<1>11. ASSUME NEW r0 \in told, Active(r0)'
       PROVE  Active(r0)
  BY <1>2, <1>3, <1>11 DEF FailedRefreshMadeGood, Active, TableGrows, TypeOK
<1>12. FailedRefreshMadeGood'
  <2>1. told' \subseteq stored'
    BY <1>2, <1>3 DEF FailedRefreshMadeGood, TableGrows
  <2>2. ASSUME NEW q \in due, Active(q)' PROVE Steers(overlay, q)
    BY <1>3, <1>11, <2>2 DEF FailedRefreshMadeGood, RowsShowTold
  <2> QED BY <1>3, <2>1, <2>2 DEF FailedRefreshMadeGood, Steers
<1>13. RowsShowTold'
  <2>1. ASSUME NEW i \in Handlers, pc'[i] = "queried", NEW q \in known[i],
               Active(q)'
        PROVE  Steers(rows[i], q)
    <3>1. pc[i] = "queried"
      BY <1>1, <1>3, <2>1 DEF TypeOK
    <3>2. q \in told /\ Active(q)
      BY <1>11, <2>1 DEF RowsShowTold
    <3> QED BY <3>1, <3>2, <2>1 DEF RowsShowTold
  <2> QED BY <1>3, <2>1 DEF RowsShowTold, Steers
<1> QED BY <1>4, <1>5, <1>6, <1>7, <1>9, <1>10, <1>12, <1>13

(* A handler that has begun: query, swap, answer, or give up; and a plan   *)
(* request taking its snapshot.  None of them touches the table.           *)
LEMMA HandlerKeeps ==
  ASSUME OverlayInv, NEW h \in Handlers, Handle(h) \/ PlanSnapshot(h)
  PROVE  OverlayInv'
<1> USE DEF OverlayInv
<1> DEFINE Still == UNCHANGED <<clock, stored, confirmations, created,
                                expires, phase, startRows, crashes>>
<1>a. ASSUME Still
      PROVE  /\ CreatedPast' /\ StartRowsComplete'
             /\ \A view : Supported(view) =>
                  \A r \in Reports : Steers(view, r) =>
                    /\ r \in stored'
                    /\ view[r].confirmations <= confirmations'[r]
                    /\ view[r].left <= expires'[r] - created'[r]
  BY <1>a DEF CreatedPast, StartRowsComplete, Active, Steers, Supported
<1>1. CASE Query(h)
  <2>1. /\ Still
        /\ UNCHANGED <<overlay, target, installer, acked, told, due>>
        /\ pc[h] = "stored" /\ pc' = [pc EXCEPT ![h] = "queried"]
        /\ rows' = [rows EXCEPT ![h] = ScoreQuery]
        /\ known' = [known EXCEPT ![h] = told]
    BY <1>1 DEF Query, Unhandled, table, Goto
  <2>2. TypeOK'
    BY <2>1, QueryFacts DEF TypeOK
  <2>3. OverlaySupported'
    BY <2>1, <1>a, QueryFacts DEF OverlaySupported, Supported, Steers, TypeOK
  <2>4. TargetsStored' /\ FailedRefreshMadeGood' /\ NothingBeforeListen'
    BY <2>1 DEF TargetsStored, FailedRefreshMadeGood, NothingBeforeListen,
                TypeOK, Active, Steers
  <2>7. RowsShowTold'
    <3>1. \A r \in told : Active(r)' => Steers(ScoreQuery, r)
      BY <2>1, QueryFacts DEF Active, TypeOK
    <3>2. ASSUME NEW i \in Handlers
          PROVE  /\ known'[i] \subseteq told'
                 /\ pc'[i] = "queried" =>
                      \A r \in known'[i] : Active(r)' => rows'[i][r].left > 0
      <4>1. CASE i = h
        BY <2>1, <3>1, <4>1 DEF TypeOK, Steers
      <4>2. CASE i # h
        BY <2>1, <4>2 DEF TypeOK, Steers, RowsShowTold, Active
      <4> QED BY <4>1, <4>2
    <3> QED BY <2>1, <3>2 DEF RowsShowTold, Steers, Active
  <2>5. RowsShowOwnWrite'
    <3>1. Active(target[h])' => Steers(ScoreQuery, target[h])
      BY <2>1, QueryFacts DEF Active, TypeOK
    <3> QED BY <2>1, <3>1 DEF RowsShowOwnWrite, Active, Steers, TypeOK
  <2>6. OwnWriteVisible'
    BY <2>1 DEF OwnWriteVisible, Active, Steers, TypeOK
  <2> QED BY <1>a, <2>1, <2>2, <2>3, <2>4, <2>5, <2>6, <2>7
<1>2. CASE \/ RefreshFails(h) \/ PlanAnswer(h) \/ Answer(h)
  <2>1. /\ Still /\ UNCHANGED <<overlay, installer, due>>
        /\ pc' = [pc EXCEPT ![h] = "idle"]
        /\ target' = [target EXCEPT ![h] = NoReport]
        /\ rows' = [rows EXCEPT ![h] = Nothing]
        /\ known' = [known EXCEPT ![h] = {}]
    BY <1>2 DEF RefreshFails, PlanAnswer, Answer, Done, Unhandled, table
  <2>2. /\ acked' \in {acked, acked \union {target[h]}}
        /\ told' \in {told, told \union {target[h]}}
        /\ \/ acked' = acked /\ told' = told
           \/ pc[h] \in {"stored", "queried", "refreshed"}
    BY <1>2 DEF RefreshFails, PlanAnswer, Answer
  <2>3. /\ told \subseteq told' /\ told' \subseteq stored
        /\ acked' \subseteq Reports
    BY <2>2 DEF FailedRefreshMadeGood, TargetsStored, TypeOK
  <2>4. TypeOK'
    <3>1. told' \subseteq Reports /\ due' \subseteq Reports
      BY <2>1, <2>3 DEF TypeOK
    <3>2. known' \in [Handlers -> SUBSET Reports]
      BY <2>1 DEF TypeOK
    <3>3. rows' \in [Handlers -> View]
      BY <2>1, NothingFacts DEF TypeOK
    <3>4. target' \in [Handlers -> Reports \union {NoReport}]
      BY <2>1 DEF TypeOK
    <3> QED BY <2>1, <2>3, <3>1, <3>2, <3>3, <3>4 DEF TypeOK
  <2>8. FailedRefreshMadeGood'
    BY <2>1, <2>3 DEF FailedRefreshMadeGood, Active, Steers
  <2>9. RowsShowTold'
    BY <2>1, <2>3 DEF RowsShowTold, Active, Steers, TypeOK
  <2>5. OverlaySupported'
    BY <2>1, <1>a, NothingFacts DEF OverlaySupported, Supported, Steers, TypeOK
  <2>6. TargetsStored' /\ NothingBeforeListen'
    BY <2>1 DEF TargetsStored, NothingBeforeListen, TypeOK
  <2>7. RowsShowOwnWrite' /\ OwnWriteVisible'
    BY <2>1 DEF RowsShowOwnWrite, OwnWriteVisible, Active, Steers, TypeOK
  <2> QED BY <1>a, <2>1, <2>4, <2>5, <2>6, <2>7, <2>8, <2>9
<1>3. CASE Replace(h)
  <2>1. /\ Still /\ UNCHANGED <<target, rows, acked, told, known>>
        /\ pc[h] = "queried" /\ pc' = [pc EXCEPT ![h] = "refreshed"]
        /\ overlay' = rows[h] /\ installer' = h /\ due' = known[h]
    BY <1>3 DEF Replace, Goto, table
  <2>2. TypeOK'
    BY <2>1 DEF TypeOK
  <2>3. OverlaySupported'
    BY <2>1, <1>a DEF OverlaySupported, Supported, Steers, TypeOK
  <2>4. TargetsStored' /\ NothingBeforeListen'
    BY <2>1 DEF TargetsStored, NothingBeforeListen, TypeOK
  <2>5. RowsShowOwnWrite'
    BY <2>1 DEF RowsShowOwnWrite, Active, Steers, TypeOK
  <2>6. OwnWriteVisible'
    BY <2>1 DEF OwnWriteVisible, RowsShowOwnWrite, Active, Steers, TypeOK
  <2>7. FailedRefreshMadeGood'
    BY <2>1 DEF FailedRefreshMadeGood, RowsShowTold, Active, Steers
  <2>8. RowsShowTold'
    BY <2>1 DEF RowsShowTold, Active, Steers, TypeOK
  <2> QED BY <1>a, <2>1, <2>2, <2>3, <2>4, <2>5, <2>6, <2>7, <2>8
<1>4. CASE PlanSnapshot(h)
  <2>1. /\ Still
        /\ UNCHANGED <<overlay, target, installer, acked, told, known, due>>
        /\ phase = "up"
        /\ pc[h] = "idle" /\ pc' = [pc EXCEPT ![h] = "planning"]
        /\ rows' = [rows EXCEPT ![h] = overlay]
    BY <1>4 DEF PlanSnapshot, Arrives, Unhandled, table, Goto, history
  <2>2. TypeOK'
    BY <2>1 DEF TypeOK
  <2>3. OverlaySupported'
    BY <2>1, <1>a DEF OverlaySupported, Supported, Steers, TypeOK
  <2>4. TargetsStored' /\ FailedRefreshMadeGood' /\ NothingBeforeListen'
    BY <2>1 DEF TargetsStored, FailedRefreshMadeGood, NothingBeforeListen,
                TypeOK, Active, Steers
  <2>5. RowsShowOwnWrite' /\ OwnWriteVisible'
    BY <2>1 DEF RowsShowOwnWrite, OwnWriteVisible, Active, Steers, TypeOK
  <2>6. RowsShowTold'
    BY <2>1 DEF RowsShowTold, Active, Steers, TypeOK
  <2> QED BY <1>a, <2>1, <2>2, <2>3, <2>4, <2>5, <2>6
<1> QED BY <1>1, <1>2, <1>3, <1>4 DEF Handle

(* Start-up, a crash and the passing of time.                              *)
LEMMA ProcessKeeps ==
  ASSUME OverlayInv, Start \/ Crash \/ Tick
  PROVE  OverlayInv'
<1> USE HazardAssumption DEF OverlayInv
<1>1. CASE StartRefresh
  <2>1. /\ UNCHANGED <<clock, stored, confirmations, created, expires, pc,
                       target, rows, installer, crashes, acked, told,
                       known, due>>
        /\ phase = "down" /\ phase' = "refreshing"
        /\ overlay' = Nothing /\ startRows' = ScoreQuery
    BY <1>1 DEF StartRefresh
  <2>2. TypeOK'
    BY <2>1, QueryFacts, NothingFacts DEF TypeOK
  <2>3. OverlaySupported'
    BY <2>1, QueryFacts, NothingFacts DEF OverlaySupported, Supported, Steers
  <2>4. CreatedPast' /\ TargetsStored' /\ NothingBeforeListen'
    BY <2>1 DEF CreatedPast, TargetsStored, NothingBeforeListen
  <2>5. RowsShowOwnWrite' /\ OwnWriteVisible'
    BY <2>1 DEF RowsShowOwnWrite, OwnWriteVisible, NothingBeforeListen
  <2>6. StartRowsComplete'
    BY <2>1, QueryFacts DEF StartRowsComplete, Active, Steers
  <2>7. FailedRefreshMadeGood' /\ RowsShowTold'
    BY <2>1 DEF FailedRefreshMadeGood, RowsShowTold, NothingBeforeListen
  <2> QED BY <2>2, <2>3, <2>4, <2>5, <2>6, <2>7
<1>2. CASE StartFails
  <2>1. /\ UNCHANGED <<clock, stored, confirmations, created, expires,
                       overlay, pc, target, rows, installer, crashes,
                       acked, told, known, due>>
        /\ phase = "refreshing" /\ phase' = "down" /\ startRows' = Nothing
    BY <1>2 DEF StartFails
  <2>2. TypeOK' /\ OverlaySupported'
    BY <2>1, NothingFacts DEF TypeOK, OverlaySupported, Supported, Steers
  <2>3. CreatedPast' /\ TargetsStored' /\ NothingBeforeListen'
    BY <2>1 DEF CreatedPast, TargetsStored, NothingBeforeListen
  <2>4. RowsShowOwnWrite' /\ OwnWriteVisible' /\ StartRowsComplete'
    BY <2>1 DEF RowsShowOwnWrite, OwnWriteVisible, NothingBeforeListen,
                StartRowsComplete
  <2>7. FailedRefreshMadeGood' /\ RowsShowTold'
    BY <2>1 DEF FailedRefreshMadeGood, RowsShowTold, NothingBeforeListen
  <2> QED BY <2>2, <2>3, <2>4, <2>7
<1>3. CASE StartListening
  <2>1. /\ UNCHANGED <<clock, stored, confirmations, created, expires, pc,
                       target, rows, crashes, acked, told, known>>
        /\ phase = "refreshing" /\ phase' = "up"
        /\ overlay' = startRows /\ startRows' = Nothing
        /\ installer' = Startup /\ due' = told
    BY <1>3 DEF StartListening
  <2>2. TypeOK'
    BY <2>1, NothingFacts DEF TypeOK
  <2>3. OverlaySupported'
    BY <2>1, NothingFacts DEF OverlaySupported, Supported, Steers
  <2>4. CreatedPast' /\ TargetsStored' /\ NothingBeforeListen'
    BY <2>1 DEF CreatedPast, TargetsStored, NothingBeforeListen
  <2>5. RowsShowOwnWrite' /\ OwnWriteVisible' /\ StartRowsComplete'
    BY <2>1 DEF RowsShowOwnWrite, OwnWriteVisible, NothingBeforeListen,
                StartRowsComplete
  <2>7. FailedRefreshMadeGood' /\ RowsShowTold'
    BY <2>1 DEF FailedRefreshMadeGood, RowsShowTold, NothingBeforeListen,
                StartRowsComplete, Active, Steers, TypeOK
  <2> QED BY <2>2, <2>3, <2>4, <2>5, <2>7
<1>4. CASE Crash
  <2>1. /\ UNCHANGED <<clock, stored, confirmations, created, expires,
                       startRows, acked, told>>
        /\ phase' = "down" /\ overlay' = Nothing /\ installer' = Startup
        /\ pc' = [h \in Handlers |-> "idle"]
        /\ target' = [h \in Handlers |-> NoReport]
        /\ rows' = [h \in Handlers |-> Nothing]
        /\ crashes' = crashes + 1
        /\ known' = [h \in Handlers |-> {}] /\ due' = {}
    BY <1>4 DEF Crash
  <2>2. TypeOK'
    BY <2>1, NothingFacts DEF TypeOK
  <2>3. OverlaySupported'
    BY <2>1, NothingFacts DEF OverlaySupported, Supported, Steers
  <2>4. CreatedPast' /\ TargetsStored' /\ NothingBeforeListen'
    BY <2>1 DEF CreatedPast, TargetsStored, NothingBeforeListen
  <2>5. RowsShowOwnWrite' /\ OwnWriteVisible' /\ StartRowsComplete'
    BY <2>1 DEF RowsShowOwnWrite, OwnWriteVisible, StartRowsComplete
  <2>7. FailedRefreshMadeGood' /\ RowsShowTold'
    BY <2>1 DEF FailedRefreshMadeGood, RowsShowTold
  <2> QED BY <2>2, <2>3, <2>4, <2>5, <2>7
<1>5. CASE Tick
  <2>1. /\ UNCHANGED <<stored, confirmations, created, expires, phase,
                       overlay, startRows, pc, target, rows, installer,
                       crashes, acked, told, known, due>>
        /\ clock' = clock + 1
    BY <1>5 DEF Tick, table
  <2>2. TypeOK' /\ CreatedPast'
    BY <2>1 DEF TypeOK, CreatedPast
  <2>3. OverlaySupported' /\ TargetsStored' /\ NothingBeforeListen'
    BY <2>1 DEF OverlaySupported, Supported, Steers, TargetsStored,
                NothingBeforeListen
  <2>4. \A r \in stored : Active(r)' => Active(r)
    BY <2>1 DEF Active, TypeOK
  <2>5. StartRowsComplete'
    BY <2>1, <2>4 DEF StartRowsComplete, Steers, Active
  <2>6. RowsShowOwnWrite' /\ OwnWriteVisible'
    BY <2>1, <2>4 DEF RowsShowOwnWrite, OwnWriteVisible, TargetsStored,
                      Steers, Active
  <2>7. FailedRefreshMadeGood' /\ RowsShowTold'
    <3>1. \A r \in told : Active(r)' => Active(r)
      BY <2>4 DEF FailedRefreshMadeGood
    <3> QED BY <2>1, <3>1 DEF FailedRefreshMadeGood, RowsShowTold, Steers
  <2> QED BY <2>2, <2>3, <2>5, <2>6, <2>7
<1> QED BY <1>1, <1>2, <1>3, <1>4, <1>5 DEF Start

(* OverlayInv is inductive, whatever the numbers of reports, concurrent    *)
(* handlers and crashes.                                                   *)
THEOREM OverlayInvariant == Spec => []OverlayInv
<1>1. Init => OverlayInv
  <2> SUFFICES ASSUME Init PROVE OverlayInv
    OBVIOUS
  <2> USE HazardAssumption DEF Init
  <2>1. TypeOK
    BY NothingFacts DEF TypeOK
  <2>2. OverlaySupported
    BY NothingFacts DEF OverlaySupported
  <2> QED BY <2>1, <2>2
          DEF OverlayInv, CreatedPast, TargetsStored, RowsShowTold,
              FailedRefreshMadeGood, RowsShowOwnWrite, OwnWriteVisible, NothingBeforeListen,
              StartRowsComplete
<1>2. OverlayInv /\ [Next]_vars => OverlayInv'
  <2> SUFFICES ASSUME OverlayInv, [Next]_vars PROVE OverlayInv'
    OBVIOUS
  <2>1. CASE Start \/ Crash \/ Tick
    BY <2>1, ProcessKeeps
  <2>2. CASE \E h \in Handlers : PlanSnapshot(h) \/ Handle(h)
    BY <2>2, HandlerKeeps
  <2>3. CASE \E h \in Handlers : \E r \in Reports : Request(h, r)
    BY <2>3, RequestKeeps
  <2>4. CASE UNCHANGED vars
    BY <2>4 DEF vars, OverlayInv, TypeOK, CreatedPast, OverlaySupported,
                Supported, TargetsStored, RowsShowTold,
                FailedRefreshMadeGood, RowsShowOwnWrite, OwnWriteVisible, NothingBeforeListen, StartRowsComplete,
                Active, Steers
  <2> QED BY <2>1, <2>2, <2>3, <2>4 DEF Next
<1> QED BY <1>1, <1>2, PTL DEF Spec

(* hazard.go and its handlers: table, overlay, requests and clock stay of  *)
(* their types; a report has at most one row.                              *)
THEOREM TypeCorrect == Spec => []TypeOK
<1>1. OverlayInv => TypeOK
  BY DEF OverlayInv
<1> QED BY <1>1, OverlayInvariant, PTL

(* The overlay, and every refresh on its way into it, only ever says what  *)
(* the table supports.                                                     *)
THEOREM OverlayAlwaysSupported == Spec => []OverlaySupported
<1>1. OverlayInv => OverlaySupported
  BY DEF OverlayInv
<1> QED BY <1>1, OverlayInvariant, PTL

(* A report answered 201 or 200 is stored, whatever crashes, and every     *)
(* refresh installed that queried after the answer shows it, also when the *)
(* refresh behind the answer itself failed.                                *)
THEOREM EveryRefreshMakesGood == Spec => []FailedRefreshMadeGood
<1>1. OverlayInv => FailedRefreshMadeGood
  BY DEF OverlayInv
<1> QED BY <1>1, OverlayInvariant, PTL

(* A handler's refresh shows the handler's own write.                      *)
THEOREM OwnWriteInOverlay == Spec => []OwnWriteVisible
<1>1. OverlayInv => OwnWriteVisible
  BY DEF OverlayInv
<1> QED BY <1>1, OverlayInvariant, PTL

(* The listener never opens before every active report steers routes.      *)
THEOREM ListenAfterRefresh == Spec => RestartAvoidsKnown
<1>1. OverlayInv /\ [Next]_vars =>
        [(phase # "up" /\ phase' = "up") =>
           \A r \in Reports : Active(r) => Steers(overlay', r)]_vars
  <2> SUFFICES ASSUME OverlayInv, Next, phase # "up", phase' = "up",
                      NEW r \in Reports, Active(r)
               PROVE  Steers(overlay', r)
    BY DEF vars
  <2>1. StartListening
    BY DEF Next, Start, StartRefresh, StartFails, Crash, Tick, PlanSnapshot,
           Handle, Query, RefreshFails, Replace, Answer, PlanAnswer, Request,
           Create, CreateFails, Confirm, ConfirmFails, Unhandled
  <2> QED BY <2>1 DEF StartListening, OverlayInv, StartRowsComplete, Steers
<1> QED BY <1>1, OverlayInvariant, PTL DEF Spec, RestartAvoidsKnown

(* No step revives a lapsed report: time only runs forward and Confirm's   *)
(* UPDATE extends active reports only.                                     *)
THEOREM LapsedNeverRevived == Spec => LapsedStaysLapsed
<1>1. OverlayInv /\ [Next]_vars =>
        [\A r \in Reports : (r \in stored /\ ~Active(r)) => ~Active(r)']_vars
  <2> SUFFICES ASSUME OverlayInv, Next, NEW r \in Reports,
                      r \in stored, ~Active(r)
               PROVE  ~Active(r)'
    BY DEF vars
  <2>1. expires'[r] = expires[r]
    <3>1. CASE Start \/ Crash \/ Tick
      BY <3>1 DEF Start, StartRefresh, StartFails, StartListening, Crash,
                  Tick, table
    <3>2. CASE \E h \in Handlers : PlanSnapshot(h) \/ Handle(h)
      BY <3>2 DEF PlanSnapshot, Handle, Query, RefreshFails, Replace, Answer,
                  PlanAnswer, table
    <3>3. CASE \E h \in Handlers : \E q \in Reports : Request(h, q)
      BY <3>3 DEF Request, Create, CreateFails, Confirm, ConfirmFails,
                  InsertReport, UpdateConfirm, table, OverlayInv, TypeOK
    <3> QED BY <3>1, <3>2, <3>3 DEF Next
  <2>2. clock' \in Nat /\ clock' >= clock
    <3>1. CASE Tick
      BY <3>1 DEF Tick, OverlayInv, TypeOK
    <3>2. CASE ~Tick
      <4>1. clock' = clock
        BY <3>2 DEF Next, Start, StartRefresh, StartFails, StartListening,
             Crash, PlanSnapshot, Handle, Query, RefreshFails, Replace,
             Answer, PlanAnswer, Request, Create, CreateFails, Confirm,
             ConfirmFails, Unhandled
      <4> QED BY <4>1 DEF OverlayInv, TypeOK
    <3> QED BY <3>1, <3>2
  <2> QED BY <2>1, <2>2 DEF Active, OverlayInv, TypeOK
<1> QED BY <1>1, OverlayInvariant, PTL DEF Spec, LapsedStaysLapsed
=============================================================================
