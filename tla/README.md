# A TLA+ development for viatuta

viatuta plans bicycle routes that respect a rider's tolerance for traffic
stress. An operator CLI (`cmd/viatuta`) builds a routable network in PostGIS
from OpenStreetMap, crash records and elevation; an API server (`cmd/api`)
loads that network into memory and answers plan requests; a React client
(`web/src`) draws them. These modules model the parts of it that carry state
across steps, check them with TLC on small instances, and prove the central
invariants with TLAPS for every instance.

## Inventory

| Part | State | Operations | What is hard | What makes it correct |
|---|---|---|---|---|
| Route search (`routing/search.go`, `workspace.go`) | labels per (edge, budget bucket), queue, heuristic cache; pooled between calls | `Search`, `getWorkspace`, `release` | reuse of dirty arrays, stale queue entries, bucket boundaries, termination | the route returned is a real one, within the budget, and no comfortable one is lost |
| Alternatives (`routing/alternatives.go`) | penalised edges, accepted routes | `Alternatives` | stopping rule, overlap test | distinct, true costs, bounded ratio |
| Geometry (`routing/geometry.go`, `buildSegments`) | none | `assemble`, `buildSegments` | shared vertices, empty shapes | ranges tile the line |
| Plan handler (`httpapi/route_handler.go`) | per request | snap, legs, baseline, alternatives | budget per leg, partial failure, snapshot of hazards | answer consistent with its inputs |
| Hazards (`hazard/`, `httpapi/hazard_handler.go`) | table `hazard_report`, in-memory overlay | report, confirm, refresh, snapshot | overlapping refreshes, expiry, crash, failing refresh | the overlay says what the table says |
| API start-up (`cmd/api/main.go`) | process phase | load, refresh, listen, shut down | order of refresh and listen | no request before the overlay is loaded |
| Graph (`graph/`) | CSR arrays, id index, components | load, snap | two queries without a transaction, id translation | every index refers to its own road |
| OSM ingest (`osm/`) | tables `routing_node`, `routing_edge` | scan, build, load | reload under a running server | a network of one generation |
| Safety model (`safety/`) | `lts` column | classify, score, persist | unscored edges, re-scoring races | threshold and budget agree with the search |
| Crash records (`crash/`), grades (`elevation/ingest.go`) | tables | replace, match, apply | order of commands | scores belong to current edges |
| Elevation tiles (`elevation/terrain.go`) | cache directory, tile map | `Cover`, `fetchTile` | worker pool, errors, kill mid-write | returns, and nil means covered |
| Accounts, tokens, saved routes (`auth/`, `savedroute/`) | tables | register, log in, save, list, delete | registration race, byte/rune limits | one account per address, owners only |
| Planning hook (`web/src/state/usePlan.ts`) | React state, timers, abort controllers | choose, clear, run, poll | answers out of order, stale closures, retries | the route shown is the one asked for |
| Hazard hook (`useHazards.ts`) and views | fetched box, list | load, refresh | swallowed failures | the map agrees with the server |
| HTTP plumbing, config, pool, geodesy | none of their own | | | |

The parts meet at four places: a plan request calls the search with cost and
budget functions of the safety model over the loaded graph; it takes one
snapshot of the hazard overlay, which the hazard handlers replace; the CLI
rewrites tables that running servers have already loaded; and the client sends
plan, hazard and readiness calls whose answers come back in any order.
`PROJECT.json` lists every part with its status, and under `hazards` each
place where one of them can go wrong unobserved by a test.

## Modules

### `RoadGraph`, `Walks` - the network and what an answer may be

`RoadGraph` holds what every routing module needs: the loaded graph, the
fields of a request (`Options`) and of an answer (`Path`). `Walks` defines by
enumeration the walks that answer a request, and from them what a search may
return: a sound path within the budget, no dearer than any route that stays
within the rider's threshold. Start and goal that differ may also be answered
"unroutable", since `defaultMaxExpansions` cuts a search off on a network
larger than it.

### `Search` - one route search on a pooled workspace

State: the five arrays and the queue of `workspace`, the request being served,
the expansion counter and the last result. `ReturnEarly` and `Begin` are the
code before the main loop (trivial requests, `validate`, `getWorkspace`, the
seed loop); `PopStale`, `PopOverLimit`, `PopGoal`, `PopExpand` are the ways an
iteration of the loop ends, each with all the writes of that iteration;
`Exhausted` is the return below the loop. The binary heap is represented by
what it guarantees, that `pop` yields some entry of least priority; every
choice among equals is explored. `usedM` is not reset between calls, as in
the code.

Costs and lengths are naturals. `HeuristicAssumption` states what the comments
above `Search` rely on: straight-line distance obeys the triangle inequality
along an edge and no edge costs less than its length. `CostAssumption` is the
multiplier's floor again, which holds with the heuristic switched off too:
metres over the threshold are never free. `float32` rounding of cached
heuristics is not represented. `CacheCorrect`, `QueueSound` and
`SearchInv` are the inductive strengthening.

`SearchContract` is what a caller of `Search` may rely on, with three
variables: a request is refused at once, or answered once with an answer of
`Walks` or "unroutable", and it is answered in the end. `SearchReference`
instantiates it with `Search`'s own state (`asked <- req`, `phase <- status`,
`reply <-` the result without its count of expansions); run `search` checks
that `Search` implements it, and the safety half (`Promise!Safety`) is proved.
`MCSearch` and `MCSearchLadder` give `Search` graphs and requests.

### `PlanHandler` - one plan request from body to answer

State: where the handler is, what it has computed so far (snapped nodes, hazard
snapshot, legs, baseline, geometry), the loop of `Alternatives`, the response,
and the live overlay that other requests replace meanwhile (`ReportLands`).
`Receive` is the decoding and validation; `SnapNext`/`SnapFails` a snap query;
`TakeSnapshot` the read of the overlay; `RouteLeg`/`RouteLegFails` and
`RouteBaseline`/`RouteBaselineFails` an iteration of `routeLegs`;
`FetchGeometry`/`FetchGeometryFails` the geometry query; `Respond` the assembly
of the response; `BeginAlternatives`, `Attempt`, `AttemptTooDear`,
`AttemptFails`, `Enough` the loop of `Alternatives`; `Attach`/`AttachFails` the
loop of `addAlternatives`; `Answer` the 200. The algorithms in between are
operators: `LargestComponent` and `Snap`, the cost model (`Multiplier`, `Over`,
`Allow`, `Summarise`), `assemble`, `buildSegments`, `Marked`, `isDistinct`.

A search is one step that returns any of the `Answers` of `Walks`: what
`SearchContract` promises, and run `search` shows `Search` to keep.
`Alternatives` searches for the primary route again; the search is
deterministic on an immutable graph and the same options, so the model reuses
the first answer. Ratios are in hundredths, and the multiplier's crash,
surface, grade and light terms are one surcharge per edge in the profile. The
rounding of the numbers in the response to one decimal is left out (lengths are
whole metres); that of the detour ratio is kept, because a warning depends on
it. `ShapeAssumption` is what `osm/build.go` stores: polylines of at least two
points that meet at their nodes.

### `HazardOverlay` - reports, confirmations and the overlay routing reads

State: the table, the clock, the overlay (`Index.scores`), the process phase,
and per handler its position and the rows it holds. `Create`/`CreateFails`,
`Confirm`/`ConfirmFails`, `Query`, `Replace`, `RefreshFails`, `Answer` are the
statements of the two handlers, separate because other handlers run between
them; a failed statement may nevertheless have committed. `StartRefresh`,
`StartFails`, `StartListening` are start-up, `Crash` loses everything but the
table, `PlanSnapshot`/`PlanAnswer` is a plan request. `installer`, `acked`,
`told`, `known` and `due` are history: whose refresh is in the overlay; which
reports were answered after a refresh that did not fail, and which at all; which
had been answered when a handler's query ran, and when that of the refresh in
the overlay did. A report's weight is kept as capped
confirmations and time left; which edges lie near it is not modelled, so
"steers" means positive weight.

### `PlanClient` - the planning hook of the web client

State: the rendered inputs, the two timers, the `readyz` calls in flight with
the inputs their closures hold, the `run` calls at their `await`, and the
hook's state. A React state change and the effects it re-runs are one step.
`Choose`, `Clear`, `Unmount` are the rider; `DebounceFires`, `PollFires` the
timers; `MainArrives`, `BaseSettles`, `Finish`, `MainFails` the settling of a
`run`; `AskReady`, `AskFails` the continuation of a poll. The service is
external: `cmd/api` listens only after the graph is loaded, so a 503 while it
starts comes from whatever stands in front of it, and the client treats every
503 alike.

### `TileCover` - downloading elevation tiles

State: the cache directory, which survives runs; where `Cover` is; each
worker's position, job and bytes; the tile map and the number of errors
reported. One action per blocking point of `Cover` and per stage of
`fetchTile`; `ReadFails` is a cached file that cannot be read, after which the
code downloads whatever the error was, and `unread` remembers those tiles.
`RunAgain` is a new run of the command after a failure or a kill;
a file that was being written is then left damaged. Tile contents are reduced
to whether they decode.

### `StressRubric` - how stressful a road is

The classifier of `safety/lts.go` on a road's facts (facility, street class,
surface, speed, lanes), with its defaults for unknown speed and lanes and its
tables for mixed traffic and painted lanes.

### `OsmBuild` - from ways to rows

The algorithms of `osm/` as operators: which ways are `Routable`, in which
directions (`Forward`, `Backward`), how often a node is used (`NodeUse`, over
the `Visits` of ways to nodes), where a way is cut (`IsSplitPoint`, `cutAt`),
which runs are dropped (`Representable`), and the numbered rows that `Build`
hands to `Load`. The two loops of `Build`, over the ways (`addWay`) and along
each of them (`cutAt`), are recursive functions. A way's
tags are the handful that these decisions read; its facts, as parsed by
`osm/infra.go`, are given.

### `NetworkRefresh` - the network's tables, the commands and the server's copy

State: `routing_node`, `routing_edge`, `crash_record` and `crash_edge`; what
each operator's command and the server hold between two statements; the hazard
scores indexed by graph edge; one plan between snap, route and drawing.
`LoadTables`, `StoreCrashes` and `MatchToEdges` are transactions;
`SampleNodes`/`WriteHeights`/`ApplyGrades`/`ZeroGrades` and
`CountNodes`/`ReadNodes`/`ReadEdges` are statements that share none, so that
anything may happen in between; `PersistLTS` writes back what was loaded
before. `Abort` is an error, an interrupt or a kill at any of these points,
`StopServer` the end of the server. `GraphOf` builds the CSR offsets, the
database-id index and the junction stress that `ScoreGraph` recomputes.

A crash pressure is the set of crashes it sums up and a grade the pair of
heights it comes from, so that a value on the wrong road is recognised as such.
Four history variables make that precise: `gen` counts the networks, `source`
is the extract of the present one, `matched` says that scores and `crash_edge`
should agree, and `raced` names the columns that a command has written from
another network's data. `gens`, on processes and plans, are the networks their
data came from. A route is represented by its first edge, since it is as
faithful as each of its edges. Where two transactions would deadlock, one of
them is aborted.

What the model shows beside its properties: after a reload, a running server
snaps, joins hazards and draws by ids of the new tables and routes by its old
copy, so until its restart a rider may be shown the line of another road. The
condition `OneNetwork` of `PlanFaithful` is therefore necessary, and the
statement of `cmd/viatuta/main.go:5-7` that a refresh does not affect live
routing holds of the process and of its memory, not of what it draws.

### `Accounts` - registration, tokens, saved routes, authors of reports

State: the tables, every token ever issued, the clock, whether a signing secret
is configured, and per request its position. One action per statement:
`Register`/`InsertAccount`/`IssueToken`, `Login`/`Lookup`, `Me`/`ByID`,
`SaveRoute`/`Replan`/`CreateRoute`, `ListRoutes`/`List`, `GetRoute`/`Get`,
`DeleteRoute`/`Delete`, `ReportHazard`/`CreateReport`. Arrival runs the
middleware and the checks that need no database. `QueryFails` is a statement
that did nothing and was answered with an error (for `handleMe` a 401, for `Get`
and `Delete` a 404, whatever the error was), `AnswerLost` one that committed
and was answered with an error all the same: a route may be gone although its
owner's DELETE was answered 404. `DeleteAccount` is done by hand
and cascades; tokens outlive it, and a report or a saved route under such a
token is refused by the foreign key with a 500. An address is a mail box and
how it is spelled, a password its lengths and the 72 bytes bcrypt compares.

## Runs

| Run | Result | Question |
|---|---|---|
| `search` | passes | Does `Search`, over two calls on one workspace, implement its contract, down to returning, and miss no better comfortable route? |
| `search_ladder` | violated | Is the bucketed search conservative by at most one bucket, as its comment says? |
| `hazard` | passes | What do overlapping handlers, failures, expiry and crashes leave intact, and does a refresh make good what a failed one left out? |
| `hazard_lost` | violated | Does the next request avoid a report that was answered? |
| `plan_handler` | passes | Is the answer to a plan request one truthful route, with comparable baseline and genuine alternatives, and does it always come? |
| `network` | passes | Do the tables fit together, do derived values stand on their own roads, is every crash score explained, can a loaded graph be searched, and does the rider see the road that was routed, whichever commands, aborts and restarts run into each other? |
| `accounts` | passes | Has every address one account that no password with other first 72 bytes opens, and do riders see and delete their own routes, and only those? |
| `plan_client` | passes | Do answers in any order, aborts, baselines and polls leave the client consistent? |
| `plan_stale` | violated | Once everything has settled, does the route belong to the markers? |
| `plan_warmup` | violated | Does "warming-up" resolve itself? |
| `tiles` | passes | Does `Cover` tell the truth when it returns, is what runs have cached kept, and when does `Cover` not return? |
| `tiles_hang` | violated | Does `Cover` always return? |

**Bounds.** `search`: graphs of a few edges containing a cycle, parallel edges
and a dead end; requests with and without heuristic, budget, filter and
expansion limit; two calls, because the second is the first to meet a used
workspace, and a third meets nothing new. `search_ladder`: the smallest ladder
found on which dominance in one bucket repeats. `hazard`: two handlers and two
reports are what an overwritten refresh needs; two ticks let a report lapse
after its two-tick life, one confirmation exceeds neither cap nor bound, one
crash puts every state before a restart. `plan_handler`: two corridors, a link
between them, a parallel street and its reverse, and an island make routes,
baselines and alternatives differ; profiles whose budget excludes the stressful
road, allows it once, or does not bind; a waypoint twice, on the island, too far
from any road, and unreachable; a street whose only alternative is too dear for
the search to leave it; one report, on a road of either corridor,
because the request takes one snapshot and is before or after it. `plan_client`: two inputs, one of
them compared with a baseline, and three changes allow leaving an input and
coming back. `tiles`: three tiles and two workers leave a tile unsent when
both workers fail; two runs give the second a cache the first left.
`network`: two operators are what it takes to change the network
inside another's command, and three commands let a third read what the two left;
the three extracts number different roads alike, one of them refers to nodes the
others lack, one has a crossing in the middle of two ways, and one builds no
edges and is refused; crash feeds replace each other; one server start and one
plan meet every state the commands leave. `accounts`: two handlers are what a
race needs; three requests allow to register, to log in and to use the token;
one tick expires the tokens; the table begins with an account, a route and a
token, and a second address is free to be fought over in two spellings.

Operators and handlers are interchangeable in `network` and `accounts`, which
check no liveness, and are declared symmetric there; the other runs use no
symmetry, and liveness is checked on the full graphs.

**Deadlock** is checked in `search`, `hazard` and `plan_handler` (whose
answered request rests in an explicit stutter). A settled page and a command
that has returned rest, so `plan_client` and `tiles` do not check it;
`network` and `accounts` rest when their operators and riders have done what the
bounds allow.

**Fairness.** A search's loop runs on one goroutine that nothing blocks. A
plan handler that has begun continues, since every database call returns or
fails and its searches return (`Contract`); nobody is obliged to ask for a plan.
`HazardOverlay`, `NetworkRefresh` and `Accounts` assume no fairness: nobody is
obliged to report, and nothing that a rider waits for depends on another. Browser timers fire and every
client call settles, because `client.ts` gives each one 60 seconds; the service
eventually comes up. Workers and `Cover` proceed when they can; downloads are
bounded by the client's 60 s timeout. Interrupting and re-running are never
assumed.

## What the violations show

* **Bucket dominance** (`search.go:125`). Keeping the cheapest label per
  bucket can discard the thriftier one at each step, so the loss accumulates:
  a route that uses 5 m of a 16 m budget, in buckets of 4 m, is reported
  unroutable.
* **Lost overlay update** (`hazard.go:94-148`). Query and swap are not ordered
  between handlers; the older result may be installed last and stays until
  somebody reports or confirms again.
* **Stale poll** (`usePlan.ts:131`). A readiness call in flight keeps the
  inputs of an old render, aborts the current plan and paints the old one.
* **Polling stops** (`usePlan.ts:133`). A failed poll changes no state, so the
  effect that would schedule the next one does not run.
* **Sender without receivers** (`terrain.go:108`). Workers leave at their first
  error; with none left the hand-over blocks. `StuckOnlyWithoutWorkers` shows
  that this is the only way to hang.

## Proofs

`SearchProofs` proves, for every finite or infinite graph satisfying the
assumptions, every set of requests and every number of calls, that `SearchInv`
is inductive, and from it `TypeOK`, `LabelsConsistent`, `SettledRelaxed`,
`SettledFrozen` and `RouteWithinBudget`. Neither of the two label invariants is
inductive alone. A settled state stays relaxed only if its label never
improves again, which holds because states are settled in order of
cost-plus-estimate (`QueueSound`), which in turn needs the cached estimate to
be the true one (`CacheCorrect`) and the heuristic to be consistent
(`HeuristicAssumption`). `LabelsConsistent` then survives because predecessors
are settled and frozen. The assumptions on constants are named in `Search` and
evaluated by TLC in every search run.

On top of `SearchInv` stand two more invariants. With `Frontier` (seeds are
labelled no dearer than their edge, no settled state is at the goal) the first
unsettled edge of a comfortable walk is always queued no dearer than the walk
(`Promising`), so whatever is popped at the goal costs no more:
`NoComfortableRouteLost`. Following `prev` from a label is following data, and
`Traced` therefore says that every labelled state has a ghost path of settled
predecessors behind it (`Trail`) that grows by one state where a label is
improved. The path adds up to the label (`TrailAddsUp`), is what `buildPath`
walks (`ChainFollows`), and repeats no edge (`EdgesDiffer`): of two states of
one edge along it, the earlier was settled and is no dearer, lies in a lower
bucket, and the popping order then contradicts that the later one was reached
through it. Hence `KeepsItsPromise`: every step of `Search` maps to a step of
`SearchContract` or to a stutter. These two theorems need finitely many edges
(`FiniteAssumption`), since the walks of `Walks` are counted; `KeepsItsPromise`
needs `CostAssumption` too.

`WalkProofs` holds what the search and the handler share: set induction over
the naturals, sums of sequences, and that the enumerated walks are connected,
repeat no edge and have natural totals.

`HandlerProofs` proves `PlanInv` inductive for any finite graph, snap rows,
plans and number of reports, and from it all five safety properties of
`PlanHandler`. `Shapes` and `Progress` say how far each phase has got, `Hunting`
where the loop of `Alternatives` stands; `LegsFound` and `BaseFound` that every
leg is an answer to its own request, `Drawn` that the line is drawn from the
legs, `Hunted` that each accepted route was `Genuine` when it was accepted and
stays so, `Reported` that the response describes what was found. What a 200
promises then follows by induction over its legs (budgets, totals, connection
at the snapped nodes) and over the edges of its route: `assemble` by an
invariant of its loop (`DrawnUpto`), `buildSegments` by one of its own
(`CutUpto`). A negative number of alternatives is no request for any, as in the
code. The assumptions say that snap rows are on the graph (`NearAssumption`),
that a plan's fields have their types (`PlansAssumption`) and what shapes are
stored (`ShapeAssumption`).

`HazardProofs` proves `OverlayInv` inductive for any numbers of reports,
handlers, ticks, confirmations and crashes, and from it `TypeOK`,
`OverlaySupported`, `FailedRefreshMadeGood`, `OwnWriteVisible`,
`RestartAvoidsKnown` and `LapsedStaysLapsed`. The strengthening says that
reports lie in the past, that a handler at work has stored its report and holds
rows that show it, that these rows also show every report that had been answered
when they were read (`RowsShowTold`), that no handler runs before the listener
opens, and that the rows the start-up refresh read show every active report. The key lemma, `SupportKept`, is that the table
only grows: no statement takes back what an earlier query could have seen.

`NetworkProofs` has three invariants, for any numbers of operators, commands,
starts and plans and any extracts, feeds and heights.

* `NetworkInv` gives `ScoresBelong` and `CrashExplained`, the latter by `scored`,
  the import the network was last matched with, which only the match and a
  reload change. The strengthening
  (`Rows`, `Held`) says that statements keep the columns of the rows and the
  ends of the edges, and that what a process holds from an earlier statement
  fits the tables as long as they are of the network it was read from: sampled
  heights are those of the nodes, and the rows of a loaded graph, looked up by
  database id, have the facts of the edges with these ids (`IndexFindsRow`,
  `LoadedFits`). Once the network is replaced, `gens` can no longer name the
  present one (`HeldOutdated`), which is what `raced` records.
* `LoadedInv` gives `TypeOK`, `GraphWellFormed` and `PlanFaithful`. Any graph
  that `Load` accepts is well formed, even one read from two networks:
  `Ranking` and `EdgeOrderFacts` show that ordering rows by counting the rows
  before them is a bijection, `OffsetsCut` that the offsets cut it at the nodes,
  `GraphBuilt` puts them together. Only a copy of one network names the present
  roads, so the loaded graph is compared with the tables as long as `gens` is
  the present network alone; that is where `OneNetwork` comes from.
* `OfSource` (the tables' shapes and ends are those of the extract loaded last)
  gives `JunctionsJoined`, with what `Build` makes of any extract
  (`NetworkBuilt`): while it goes through the ways (`SoFar`) and along one of
  them (`WalkedTo`), rows are numbered densely, edges follow ways and cross no
  split point, and what has been ridden of a whole way is covered;
  `SegmentAdded` is the step of that loop, and `CrossingsSplit` the fact about
  `NodeUse` it rests on. The proof needs that neighbouring nodes of a way lie
  apart: `Build` drops a run without length, and a way with one cannot be
  ridden from end to end.

They assume that ways are sequences of located nodes with facts of the right
types (`ExtractAssumption`) and feeds sequences (`FeedAssumption`); nothing is
assumed of `Build`.

The same module proves facts about the rubric for every road rather than of a
behaviour: it is total (`ClassificationTotal`), more speed or more lanes never
lower the stress (`FasterNeverCalmer`, `WiderNeverCalmer`), and a buffered lane
is never rated worse than mixed traffic (`BufferNeverWorse`). The exceptions in
their statements are the rubric's own: a two-lane service road limited to 20 mph
is level 2 and at 25 mph level 1, since slow service roads have a level of
their own, and a living street is level 1 for its class, which a lane on it can
only raise. A painted lane has no such guarantee: on two lanes at 40 mph it is
level 4 and mixed traffic level 3.

`AccountsProofs` proves three invariants for any handlers, requests, spellings
and passwords. `AccountsInv` gives `TypeOK`, `OneAccountPerAddress` and
`OwnerDeletes`: ids are given out once, stored addresses are in normal form
(`StoredEmails`), every position of a handler implies what its earlier checks
established, and a token still to be issued is for the account that the
registration opened. `LoginInv` gives `RightPasswordAdmitted`: a row does not
change and its id is not given out again, so the accounts a login remembers
from its arrival (`before`) stay distinguishable from those opened meanwhile,
whatever is deleted in between. `AnswersInv` gives the rest of `RoutesPrivate`:
answers show routes of the token's rider, and a page is the newest of them, by
counting newer rows (`NewerNumbers`, `NewestPage`), which are finitely many
because their ids are; and no route that was the rider's all along and still is
was answered 404 by a query that worked (`NotDenied`). The assumptions are that an earlier life of the tables
kept the same constraints (`DatabaseAssumption`), that all spellings of an
address are well formed or none is (`SpellingAssumption`), and that limits are
integers.

`TileProofs` proves `CoverInv` inductive for any number of tiles, workers and
runs, and from it `TypeOK` and `NilMeansCovered`. It is an
account of the keys handed out: each is decoded, known to be absent, in the
hands of exactly one worker, or failed, and there are as many errors as failed
keys (`KeysAccounted`), so that no error and no worker at work leaves no key
out. `CacheHeld` adds that a tile being written was not in the cache or could
not be read, that a tile being decoded is in the cache as it was read, and that
tiles in memory are whole in the cache. So no write replaces a tile that can be
read, and a damaged one is among the errors: `CacheKept`.

`ClientProofs` proves `ClientInv` inductive for any inputs, changes and calls in
flight, and from it `TypeOK`, `OnlyLastPaints`, `LoadingIsLive` and
`BaselineNeverCosts`. Since `run` aborts the controller it replaces, only the
last run's is ever live (`OnlyLastLive`), and nothing else paints or ends the
loading.

Only model-checked is what speaks of the future or of `ENABLED`, which the
provers do not reach: `LoadingEnds`, `PlanAnswered`,
`RouteSurvivesExtras`, `StuckOnlyWithoutWorkers`, and the liveness half of
`Contract`. Every other property of a passing run is stated by a theorem.

## Left to do

1. Proofs of the refinements under 2, once TLC agrees with them; of the present
   runs only what speaks of the future is left to TLC.
2. An abstract overlay (some past query of the table) implemented by
   `HazardOverlay`; "the last request wins" implemented by `PlanClient` without
   the poll.
3. `useHazards` beside `PlanClient`; the widths of cached heuristics in
   `Search`.

## Not modelled

Floating-point cost curves, geodesy, bearings and with them the values of
turn penalties, interpolation;
SQL spatial joins beyond which rows they read; the parsing of OSM tag values
into facts; severity weights and decay of crashes; the migrations; JSON,
headers, logging and rendering, and the components and `useHazards` hook that
only show or fetch what they are told; configuration and the connection pool;
the vendored client libraries. Two crash imports at once are excluded: they
would read each other's rows in the middle of a transaction. Alternatives stop
at the first candidate that is too dear although a later one may qualify
(`alternatives.go:70`); the model does so too, and no property speaks of what is
not offered. `PROJECT.json` gives the reason part by part.

## Running

`tlc -config Search.cfg MCSearch`, `tlc -config HazardOverlay.cfg
HazardOverlay` and so on, with the module and configuration of each run in
`PROJECT.json`; `tlapm` with each of the modules whose names
end in `Proofs`.
Operators whose names carry an underscore and a word (`Finish_Unchecked`) are
faulty variants of the definition after them: replacing the definition by the
variant must make the property listed beside it in `PROJECT.json` fail.
