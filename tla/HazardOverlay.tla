---------------------------- MODULE HazardOverlay ----------------------------
(***************************************************************************)
(* Rider-reported hazards: the hazard_report table, the in-memory overlay  *)
(* of scores that routing reads (internal/hazard), the handlers that write *)
(* both (internal/httpapi/hazard_handler.go), the snapshot a plan request  *)
(* takes, and the refresh at start-up (cmd/api/main.go).                   *)
(*                                                                         *)
(* Handlers run concurrently; each database statement is one step, and so  *)
(* is the atomic swap of the overlay's pointer.  A score is kept per report*)
(* as the two numbers it is computed from: confirmations (capped) and time *)
(* left.  The sum over nearby reports and the saturation curve are strictly*)
(* increasing, so a report steers routes exactly while its time left is    *)
(* positive.                                                               *)
(***************************************************************************)
EXTENDS Integers

CONSTANTS
  Reports,        \* identities a submitted report may get (bound)
  Handlers,       \* concurrent request slots (bound)
  Startup,        \* the start-up code, as an author of a refresh
  NoReport,       \* the target of a handler that has none
  LifetimeD,      \* expires_at - created_at of a new report
  ExtensionD,     \* what a confirmation adds to expires_at
  ConfirmCap,     \* LEAST(confirmations, 8)
  MaxTime,        \* bound on the clock
  MaxConfirms,    \* bound on the confirmations of one report
  MaxCrashes      \* bound on process restarts

ASSUME HazardAssumption ==
  /\ LifetimeD \in Nat \ {0} /\ ExtensionD \in Nat \ {0}
  /\ ConfirmCap \in Nat /\ MaxTime \in Nat /\ MaxConfirms \in Nat
  /\ MaxCrashes \in Nat
  /\ Startup \notin Handlers /\ NoReport \notin Reports

VARIABLES
  clock,                                  \* now()
  stored, confirmations, created, expires,  \* hazard_report
  phase,                                  \* "down", "refreshing", "up"
  overlay,                                \* Index.scores
  startRows,                              \* rows the start-up refresh read
  pc, target, rows,                       \* the handlers
  installer,                              \* whose refresh is in the overlay
  crashes,
  (* What riders were told, kept to state the properties:                  *)
  acked,                                  \* answered after a refresh that
                                          \* did not fail
  told,                                   \* answered 2xx, that or not
  known,                                  \* told when the handler's query ran
  due                                     \* told when the query of the
                                          \* refresh in the overlay ran

table == <<stored, confirmations, created, expires>>
history == <<acked, told, known, due>>
vars == <<clock, stored, confirmations, created, expires, phase, overlay,
          startRows, pc, target, rows, installer, crashes, acked, told, known,
          due>>

Active(r) == r \in stored /\ expires[r] > clock

Nothing == [r \in Reports |-> [confirmations |-> 0, left |-> 0]]

Steers(view, r) == view[r].left > 0

Least(a, b) == IF a <= b THEN a ELSE b

\* The one SELECT of Refresh: unexpired reports, weighted as of now.
ScoreQuery ==
  [r \in Reports |->
     IF Active(r) THEN [confirmations |-> Least(confirmations[r], ConfirmCap),
                        left |-> expires[r] - clock]
     ELSE [confirmations |-> 0, left |-> 0]]

Init ==
  /\ clock = 0
  /\ stored = {}
  /\ confirmations = [r \in Reports |-> 0]
  /\ created = [r \in Reports |-> 0]
  /\ expires = [r \in Reports |-> 0]
  /\ phase = "down"
  /\ overlay = Nothing
  /\ startRows = Nothing
  /\ pc = [h \in Handlers |-> "idle"]
  /\ target = [h \in Handlers |-> NoReport]
  /\ rows = [h \in Handlers |-> Nothing]
  /\ installer = Startup
  /\ crashes = 0
  /\ acked = {}
  /\ told = {}
  /\ known = [h \in Handlers |-> {}]
  /\ due = {}

-----------------------------------------------------------------------------
(* Start-up and failure of the API process.                                *)

\* NewServer's empty index, then the query of the first Refresh.
StartRefresh ==
  /\ phase = "down"
  /\ phase' = "refreshing"
  /\ overlay' = Nothing
  /\ startRows' = ScoreQuery
  /\ UNCHANGED <<clock, stored, confirmations, created, expires, pc, target,
                 rows, installer, crashes, acked, told, known, due>>

\* A start-up refresh whose error is only logged, as the handlers' is.
StartFails_Logged ==
  /\ phase = "refreshing"
  /\ phase' = "up"
  /\ installer' = Startup
  /\ UNCHANGED <<clock, stored, confirmations, created, expires, overlay,
                 startRows, pc, target, rows, crashes, acked, told, known,
                 due>>

\* run returns the error, and the process exits.
StartFails ==
  /\ phase = "refreshing"
  /\ phase' = "down"
  /\ startRows' = Nothing
  /\ UNCHANGED <<clock, stored, confirmations, created, expires, overlay, pc,
                 target, rows, installer, crashes, acked, told, known, due>>

\* The refresh is installed, and only then does the listener open.
StartListening ==
  /\ phase = "refreshing"
  /\ phase' = "up"
  /\ overlay' = startRows
  /\ startRows' = Nothing
  /\ installer' = Startup
  /\ due' = told
  /\ UNCHANGED <<clock, stored, confirmations, created, expires, pc, target,
                 rows, crashes, acked, told, known>>

\* The process dies: requests in flight and the overlay are gone.
Crash ==
  /\ phase = "up"
  /\ crashes < MaxCrashes
  /\ crashes' = crashes + 1
  /\ phase' = "down"
  /\ overlay' = Nothing
  /\ pc' = [h \in Handlers |-> "idle"]
  /\ target' = [h \in Handlers |-> NoReport]
  /\ rows' = [h \in Handlers |-> Nothing]
  /\ installer' = Startup
  /\ known' = [h \in Handlers |-> {}]
  /\ due' = {}
  /\ UNCHANGED <<clock, stored, confirmations, created, expires, startRows,
                 acked, told>>

-----------------------------------------------------------------------------
(* handleReportHazard and handleConfirmHazard.                             *)

Goto(h, l) == pc' = [pc EXCEPT ![h] = l]

\* The handler returns and its locals are gone.
Done(h) ==
  /\ pc' = [pc EXCEPT ![h] = "idle"]
  /\ target' = [target EXCEPT ![h] = NoReport]
  /\ rows' = [rows EXCEPT ![h] = Nothing]
  /\ known' = [known EXCEPT ![h] = {}]

\* A new row: confirmations 0, expires_at from the column default.
InsertReport(r) ==
  /\ stored' = stored \union {r}
  /\ confirmations' = [confirmations EXCEPT ![r] = 0]
  /\ created' = [created EXCEPT ![r] = clock]
  /\ expires' = [expires EXCEPT ![r] = clock + LifetimeD]

\* Counting down instead of up; extending from now; and reviving a report
\* that has lapsed.
UpdateConfirm_Down(r) ==
  /\ Active(r)
  /\ confirmations' = [confirmations EXCEPT ![r] = @ - 1]
  /\ expires' = [expires EXCEPT ![r] = @ + ExtensionD]
  /\ UNCHANGED <<stored, created>>
UpdateConfirm_FromNow(r) ==
  /\ Active(r)
  /\ confirmations' = [confirmations EXCEPT ![r] = @ + 1]
  /\ expires' = [expires EXCEPT ![r] = clock + ExtensionD]
  /\ UNCHANGED <<stored, created>>
UpdateConfirm_Lapsed(r) ==
  /\ r \in stored
  /\ confirmations' = [confirmations EXCEPT ![r] = @ + 1]
  /\ expires' = [expires EXCEPT ![r] = @ + ExtensionD]
  /\ UNCHANGED <<stored, created>>

\* hazard.Confirm's single UPDATE ... WHERE expires_at > now().
UpdateConfirm(r) ==
  /\ Active(r)
  /\ confirmations' = [confirmations EXCEPT ![r] = @ + 1]
  /\ expires' = [expires EXCEPT ![r] = @ + ExtensionD]
  /\ UNCHANGED <<stored, created>>

Unhandled == <<clock, phase, overlay, startRows, installer, crashes>>

Arrives(h) == phase = "up" /\ pc[h] = "idle"

\* Refreshing first and storing afterwards.
Create_RefreshFirst(h, r) ==
  /\ Arrives(h)
  /\ r \notin stored
  /\ InsertReport(r)
  /\ target' = [target EXCEPT ![h] = r]
  /\ rows' = [rows EXCEPT ![h] = ScoreQuery]
  /\ Goto(h, "queried")
  /\ UNCHANGED <<Unhandled, history>>

\* Create succeeded.
Create(h, r) ==
  /\ Arrives(h)
  /\ r \notin stored
  /\ InsertReport(r)
  /\ target' = [target EXCEPT ![h] = r]
  /\ Goto(h, "stored")
  /\ UNCHANGED <<Unhandled, rows, history>>

\* Create returned an error, so the handler answers 500 and stops.  The
\* connection may have broken after the INSERT committed.
CreateFails(h, r) ==
  /\ Arrives(h)
  /\ r \notin stored
  /\ InsertReport(r) \/ UNCHANGED table
  /\ UNCHANGED <<Unhandled, pc, target, rows, history>>

Confirm(h, r) ==
  /\ Arrives(h)
  /\ confirmations[r] < MaxConfirms
  /\ UpdateConfirm(r)
  /\ target' = [target EXCEPT ![h] = r]
  /\ Goto(h, "stored")
  /\ UNCHANGED <<Unhandled, rows, history>>

\* Any error of Confirm, "no row" included, is answered 404.
ConfirmFails(h, r) ==
  /\ Arrives(h)
  /\ \/ UNCHANGED table
     \/ confirmations[r] < MaxConfirms /\ UpdateConfirm(r)
  /\ UNCHANGED <<Unhandled, pc, target, rows, history>>

\* Reading the handler's own report only and patching the overlay with it.
Query_Patch(h) ==
  /\ pc[h] = "stored"
  /\ rows' = [rows EXCEPT ![h] =
                [overlay EXCEPT ![target[h]] = ScoreQuery[target[h]]]]
  /\ known' = [known EXCEPT ![h] = told]
  /\ Goto(h, "queried")
  /\ UNCHANGED <<Unhandled, table, target, acked, told, due>>

\* Refresh, first half: the query and the scan of its rows.
Query(h) ==
  /\ pc[h] = "stored"
  /\ rows' = [rows EXCEPT ![h] = ScoreQuery]
  /\ known' = [known EXCEPT ![h] = told]
  /\ Goto(h, "queried")
  /\ UNCHANGED <<Unhandled, table, target, acked, told, due>>

\* Refresh failed (or the client went away): logged, and answered 2xx.
RefreshFails(h) ==
  /\ pc[h] \in {"stored", "queried"}
  /\ told' = told \union {target[h]}
  /\ Done(h)
  /\ UNCHANGED <<Unhandled, table, acked, due>>

\* Refresh, second half: swap the pointer.
Replace(h) ==
  /\ pc[h] = "queried"
  /\ overlay' = rows[h]
  /\ installer' = h
  /\ due' = known[h]
  /\ Goto(h, "refreshed")
  /\ UNCHANGED <<clock, phase, startRows, crashes, table, target, rows,
                 acked, told, known>>

\* 201 or 200.
Answer(h) ==
  /\ pc[h] = "refreshed"
  /\ acked' = acked \union {target[h]}
  /\ told' = told \union {target[h]}
  /\ Done(h)
  /\ UNCHANGED <<Unhandled, table, due>>

-----------------------------------------------------------------------------
(* handleRoutePlan: one snapshot, used until the answer is written.        *)

PlanSnapshot(h) ==
  /\ Arrives(h)
  /\ rows' = [rows EXCEPT ![h] = overlay]
  /\ Goto(h, "planning")
  /\ UNCHANGED <<Unhandled, table, target, history>>

PlanAnswer(h) ==
  /\ pc[h] = "planning"
  /\ Done(h)
  /\ UNCHANGED <<Unhandled, table, acked, told, due>>

\* Time passes; nothing in the process runs on a timer.
Tick ==
  /\ clock < MaxTime
  /\ clock' = clock + 1
  /\ UNCHANGED <<table, phase, overlay, startRows, pc, target, rows,
                 installer, crashes, acked, told, known, due>>

-----------------------------------------------------------------------------
Start == StartRefresh \/ StartFails \/ StartListening

Request(h, r) == \/ Create(h, r) \/ CreateFails(h, r)
                 \/ Confirm(h, r) \/ ConfirmFails(h, r)

\* A handler that has begun.
Handle(h) == \/ Query(h) \/ RefreshFails(h) \/ Replace(h) \/ Answer(h)
             \/ PlanAnswer(h)

Next == \/ Start \/ Crash \/ Tick
        \/ \E h \in Handlers : \/ PlanSnapshot(h)
                               \/ Handle(h)
                               \/ \E r \in Reports : Request(h, r)

Spec == Init /\ [][Next]_vars

-----------------------------------------------------------------------------
View == [Reports -> [confirmations : Nat, left : Nat]]

(* Every variable stays within its type.                                   *)
TypeOK ==
  /\ clock \in Nat
  /\ stored \subseteq Reports
  /\ confirmations \in [Reports -> Nat]
  /\ created \in [Reports -> Nat]
  /\ expires \in [Reports -> Nat]
  /\ phase \in {"down", "refreshing", "up"}
  /\ overlay \in View
  /\ startRows \in View
  /\ pc \in [Handlers ->
               {"idle", "stored", "queried", "refreshed", "planning"}]
  /\ target \in [Handlers -> Reports \union {NoReport}]
  /\ rows \in [Handlers -> View]
  /\ installer \in Handlers \union {Startup}
  /\ crashes \in Nat
  /\ acked \subseteq Reports
  /\ told \subseteq Reports
  /\ known \in [Handlers -> SUBSET Reports]
  /\ due \subseteq Reports

\* A view that claims no more than the table could once have said.
Supported(view) ==
  \A r \in Reports : Steers(view, r) =>
    /\ r \in stored
    /\ view[r].confirmations <= confirmations[r]
    /\ view[r].left <= expires[r] - created[r]

(* However refreshes interleave and whatever crashes, the overlay routing  *)
(* reads, and every result still on its way into it, never invents a report*)
(* nor credits one with more confirmations or more life than the table has *)
(* (Refresh derives every score from stored rows).                         *)
OverlaySupported ==
  /\ Supported(overlay)
  /\ Supported(startRows)
  /\ \A h \in Handlers : Supported(rows[h])

(* A rider answered 201 or 200 can rely on the report, also when the       *)
(* refresh behind that answer failed and the overlay does not show it      *)
(* (hazard_handler.go:47 only logs that error): the report is stored, also *)
(* after a crash, and whichever refresh whose query ran after the answer   *)
(* comes to be installed, another rider's or the start-up's, shows it for  *)
(* as long as it is active.  Refresh rebuilds the overlay from every stored*)
(* report, and never patches in only the one being handled.                *)
FailedRefreshMadeGood ==
  /\ told \subseteq stored
  /\ phase = "up" => \A r \in due : Active(r) => Steers(overlay, r)

(* A handler's own write is in the overlay it installs: between its swap   *)
(* and its answer, unless another refresh was installed on top, its report *)
(* steers routes or has lapsed since (hazard_handler.go refreshes after    *)
(* storing, never before).                                                 *)
OwnWriteVisible ==
  \A h \in Handlers :
    (pc[h] = "refreshed" /\ installer = h /\ Active(target[h])) =>
       Steers(overlay, target[h])

\* What makes the invariants above inductive: reports are from the past,
\* handlers work on stored reports and hold rows that show their own write,
\* nothing runs before the listener opens, and the rows a refresh read show
\* every report told when it read them, or, at start-up, every active one.
CreatedPast == \A r \in Reports : created[r] <= clock
TargetsStored ==
  \A h \in Handlers : pc[h] \in {"stored", "queried", "refreshed"} =>
                         target[h] \in stored
RowsShowOwnWrite ==
  \A h \in Handlers : (pc[h] = "queried" /\ Active(target[h])) =>
                         Steers(rows[h], target[h])
RowsShowTold ==
  /\ due \subseteq told
  /\ \A h \in Handlers :
       /\ known[h] \subseteq told
       /\ pc[h] = "queried" =>
            \A r \in known[h] : Active(r) => Steers(rows[h], r)
NothingBeforeListen == phase # "up" => \A h \in Handlers : pc[h] = "idle"
StartRowsComplete ==
  phase = "refreshing" =>
    \A r \in Reports : Active(r) => Steers(startRows, r)

OverlayInv ==
  /\ TypeOK /\ CreatedPast /\ OverlaySupported /\ TargetsStored
  /\ RowsShowTold /\ FailedRefreshMadeGood
  /\ RowsShowOwnWrite /\ OwnWriteVisible
  /\ NothingBeforeListen /\ StartRowsComplete

(* The listener opens on an overlay with every report that is still active *)
(* (main.go "so a restart does not silently un-avoid known problems").     *)
RestartAvoidsKnown ==
  [][(phase # "up" /\ phase' = "up") =>
       \A r \in Reports : Active(r) => Steers(overlay', r)]_vars

(* A report that has lapsed is never revived: the UPDATE tests expiry and  *)
(* extends in one statement, so a late confirmation cannot slip past it.   *)
LapsedStaysLapsed ==
  [][\A r \in Reports : (r \in stored /\ ~Active(r)) => ~Active(r)']_vars

(* hazard_handler.go:44 "Rebuild the routing overlay so the next request   *)
(* already avoids this": once a report was answered after a successful     *)
(* refresh, plans avoid it for as long as it is active.                    *)
NextRequestAvoids ==
  phase = "up" => \A r \in acked : Active(r) => Steers(overlay, r)

=============================================================================
