------------------------------- MODULE Accounts -------------------------------
(***************************************************************************)
(* Riders' accounts and what hangs on them: registration and login         *)
(* (internal/auth), the token middleware, saved routes and the author of a *)
(* hazard report.  Handlers run concurrently and share the database only;  *)
(* one action is one SQL statement, a token check or the end of a handler. *)
(* Accounts vanish by hand: no handler deletes one, every handler expects  *)
(* it (handleMe: "a valid token for a deleted account").                   *)
(*                                                                         *)
(* A spelling of an address says whose it is and how it is written, a      *)
(* password how long it is and which 72 bytes it starts with (all that     *)
(* bcrypt compares); a time is a natural number.                           *)
(***************************************************************************)
EXTENDS Integers, FiniteSets, Sequences, SequencesExt

CONSTANTS
  Handlers,             \* requests being served at one time
  Addresses,            \* mail boxes
  Spellings,            \* what riders type as their email
  Passwords,            \* what they type as their password
  Limits,               \* what they ask List for, -1 standing for nothing
  Databases,            \* what an earlier life of the service left behind
  NoToken,              \* a request without a token this server issued
  Nobody,               \* the author of an anonymous request
  TokenTTL,             \* in ticks of the clock
  MaxRequests, MaxClock \* bounds

MinPasswordLen == 10
MaxPasswordLen == 200
BcryptMaxLen == 72

ASSUME BoundsAssumption ==
  MaxRequests \in Nat /\ MaxClock \in Nat /\ TokenTTL \in Nat /\ Limits \subseteq Int

\* An address is well formed or not, in whichever case or between whichever
\* blanks it is written.
ASSUME SpellingAssumption ==
  /\ Spellings \subseteq [address : Addresses, upper : BOOLEAN, padded : BOOLEAN,
                         wellFormed : BOOLEAN]
  /\ \A e, f \in Spellings : e.address = f.address => e.wellFormed = f.wellFormed

\* What Register stores: in lower case, without blanks, well formed.
StoredEmails == [address : Addresses, upper : {FALSE}, padded : {FALSE},
                 wellFormed : {TRUE}]

\* The tables' constraints hold of what was there before.
ASSUME DatabaseAssumption ==
  \A d \in Databases :
    /\ d.ids \in Nat
    /\ \A a \in d.accounts :
         /\ a.id \in 1 .. d.ids /\ a.email \in StoredEmails
         /\ \A e \in Spellings : e.address = a.email.address => e.wellFormed
    /\ \A a, b \in d.accounts : a.email.address = b.email.address => a = b
    /\ \A r \in d.routes : /\ r.id \in 1 .. d.ids
                          /\ \E a \in d.accounts : r.owner = a.id
    /\ \A x, y \in d.accounts \union d.routes : x.id = y.id => x = y
    /\ \A t \in d.tokens : t.sub \in 1 .. d.ids /\ t.expires \in 0 .. MaxClock + TokenTTL

VARIABLES
  accounts, routes, reports,   \* the tables
  tokens,                      \* every token ever issued
  signer,                      \* whether the server has a secret
  clock,
  req,                         \* per handler, the request it serves or served
  ids, requests                \* the last id given out; counted against bounds

tables == <<accounts, routes, reports>>
vars == <<tables, tokens, signer, clock, req, ids, requests>>

-----------------------------------------------------------------------------
(* Addresses and passwords.                                                *)

\* Upper case is kept: lookups by lower(email) = $1 then miss.
NormaliseEmail_TrimOnly(e) == [e EXCEPT !.padded = FALSE]
NormaliseEmail(e) == [e EXCEPT !.padded = FALSE, !.upper = FALSE]

ValidEmail(e) == e.wellFormed /\ ~e.padded

\* lower(email), as the index and the lookup compute it.
Lower(e) == [e EXCEPT !.upper = FALSE]

\* Characters have a minimum, bytes a maximum.
ValidPassword(p) == p.runes >= MinPasswordLen /\ p.bytes <= MaxPasswordLen
Hashable(p) == p.bytes <= BcryptMaxLen
CheckPassword(hash, p) == hash = p.head

IdsOf(rows) == {r.id : r \in rows}

\* The rows an address selects.
Holders(email) == {a \in accounts : Lower(a.email) = email}

-----------------------------------------------------------------------------
(* Requests.  before is history: the rows a request asks about, as they    *)
(* were when it arrived.                                                   *)

Idle == [at |-> "idle", op |-> "none", in |-> <<>>, sub |-> Nobody,
         before |-> {}, status |-> 0, body |-> <<>>]

AskedAbout(op) == CASE op = "login" -> accounts
                    [] op \in {"list", "get", "delete"} -> routes
                    [] OTHER -> {}

Init ==
  /\ \E d \in Databases :
       accounts = d.accounts /\ routes = d.routes /\ tokens = d.tokens /\ ids = d.ids
  /\ reports = {}
  /\ signer \in BOOLEAN
  /\ clock = 0
  /\ req = [h \in Handlers |-> Idle]
  /\ requests = 0

\* A token this server issued, and its time has not come.
Verify(t) == t \in tokens /\ clock < t.expires

\* A request reaches its handler, which takes it to its first step, or
\* answers at once when refusal is a status.
Arrive(h, op, in, sub, step, refusal) ==
  /\ req[h].at \in {"idle", "answered"}
  /\ requests < MaxRequests
  /\ requests' = requests + 1
  /\ req' = [req EXCEPT ![h] =
               IF refusal = 0
               THEN [Idle EXCEPT !.at = step, !.op = op, !.in = in, !.sub = sub,
                                 !.before = AskedAbout(op)]
               ELSE [Idle EXCEPT !.at = "answered", !.op = op, !.status = refusal]]
  /\ UNCHANGED <<tables, tokens, signer, clock, ids>>

Answer(h, status, body) ==
  req' = [req EXCEPT ![h].at = "answered", ![h].status = status, ![h].body = body]

\* An error says no more than its status.
Refuse(h, status) ==
  req' = [req EXCEPT ![h] = [Idle EXCEPT !.at = "answered", !.op = req[h].op,
                                         !.status = status]]

MoveOn(h, step, sub) == req' = [req EXCEPT ![h].at = step, ![h].sub = sub]

NewId == ids' = ids + 1

-----------------------------------------------------------------------------
(* Register and login.                                                     *)

RefuseRegister(email, p) ==
  IF ~signer THEN 503
  ELSE IF ~ValidEmail(NormaliseEmail(email)) \/ ~ValidPassword(p) THEN 400
  ELSE IF ~Hashable(p) THEN 500
  ELSE 0

Register(h) ==
  \E email \in Spellings, p \in Passwords :
    Arrive(h, "register", [email |-> email, password |-> p], Nobody, "insert",
           RefuseRegister(email, p))

NewAccount(in) ==
  [id |-> ids + 1, email |-> NormaliseEmail(in.email), hash |-> in.password.head]

\* Without the unique index: what checking first would come to.
InsertAccount_Any(h) ==
  /\ req[h].at = "insert"
  /\ accounts' = accounts \union {NewAccount(req[h].in)}
  /\ NewId
  /\ MoveOn(h, "issue", ids + 1)
  /\ UNCHANGED <<routes, reports, tokens, signer, clock, requests>>

\* The unique index on lower(email) arbitrates.
InsertAccount(h) ==
  LET new == NewAccount(req[h].in)
      taken == Holders(Lower(new.email)) # {}
  IN  /\ req[h].at = "insert"
      /\ \/ taken /\ Refuse(h, 409) /\ UNCHANGED <<accounts, ids>>
         \/ ~taken /\ accounts' = accounts \union {new} /\ NewId /\ MoveOn(h, "issue", new.id)
      /\ UNCHANGED <<routes, reports, tokens, signer, clock, requests>>

Login(h) ==
  \E email \in Spellings, p \in Passwords :
    Arrive(h, "login", [email |-> email, password |-> p], Nobody, "lookup",
           IF signer THEN 0 ELSE 503)

\* One answer for an unknown address and for a wrong password.
Lookup(h) ==
  LET in == req[h].in
      admitted == {a \in Holders(NormaliseEmail(in.email)) :
                     CheckPassword(a.hash, in.password)}
  IN  /\ req[h].at = "lookup"
      /\ \/ admitted = {} /\ Answer(h, 401, <<>>)
         \/ \E a \in admitted : MoveOn(h, "issue", a.id)
      /\ UNCHANGED <<tables, tokens, signer, clock, ids, requests>>

IssueToken(h) ==
  LET t == [sub |-> req[h].sub, expires |-> clock + TokenTTL]
  IN  /\ req[h].at = "issue"
      /\ tokens' = tokens \union {t}
      /\ Answer(h, IF req[h].op = "register" THEN 201 ELSE 200, <<t>>)
      /\ UNCHANGED <<tables, signer, clock, ids, requests>>

-----------------------------------------------------------------------------
(* Requests that need a token.                                             *)

requireAuth(h, op, in, t, step) ==
  Arrive(h, op, in, IF Verify(t) THEN t.sub ELSE Nobody, step,
         IF ~signer THEN 503 ELSE IF ~Verify(t) THEN 401 ELSE 0)

Presented == tokens \union {NoToken}

Me(h) == \E t \in Presented : requireAuth(h, "me", <<>>, t, "me")

ByID(h) ==
  LET found == {a \in accounts : a.id = req[h].sub}
  IN  /\ req[h].at = "me"
      /\ \/ found = {} /\ Refuse(h, 401)
         \/ \E a \in found : Answer(h, 200, <<a>>)
      /\ UNCHANGED <<tables, tokens, signer, clock, ids, requests>>

\* The name, the profile and the way points are checked and the route is
\* searched again (PlanHandler); any of it may be refused, and all of it is
\* while the graph is not loaded.
SaveRoute(h) == \E t \in Presented : requireAuth(h, "save", <<>>, t, "plan")

Replan(h) ==
  /\ req[h].at = "plan"
  /\ \/ MoveOn(h, "create", req[h].sub)
     \/ \E s \in {400, 422, 500, 503} : Refuse(h, s)
  /\ UNCHANGED <<tables, tokens, signer, clock, ids, requests>>

\* A table without REFERENCES user_account.
CreateRoute_NoReference(h) ==
  LET r == [id |-> ids + 1, owner |-> req[h].sub]
  IN  /\ req[h].at = "create"
      /\ routes' = routes \union {r} /\ NewId /\ Answer(h, 201, <<r>>)
      /\ UNCHANGED <<accounts, reports, tokens, signer, clock, requests>>

\* Ids are given out in the order of created_at.
CreateRoute(h) ==
  LET r == [id |-> ids + 1, owner |-> req[h].sub]
      exists == req[h].sub \in IdsOf(accounts)
  IN  /\ req[h].at = "create"
      /\ \/ exists /\ routes' = routes \union {r} /\ NewId /\ Answer(h, 201, <<r>>)
         \/ ~exists /\ Refuse(h, 500) /\ UNCHANGED <<routes, ids>>
      /\ UNCHANGED <<accounts, reports, tokens, signer, clock, requests>>

ListRoutes(h) ==
  \E t \in Presented, l \in Limits : requireAuth(h, "list", [limit |-> l], t, "list")

Limit(l) == IF l <= 0 \/ l > 200 THEN 50 ELSE l

\* ORDER BY created_at DESC LIMIT n: each row after those that are newer.
Newest(rows, n) ==
  LET newer == [r \in rows |-> Cardinality({s \in rows : s.id > r.id})]
  IN  [i \in 1 .. Min({n, Cardinality(rows)}) |-> CHOOSE r \in rows : newer[r] = i - 1]

\* LIMIT without the WHERE clause.
Visible_All(sub) == routes
Visible(sub) == {r \in routes : r.owner = sub}

List(h) ==
  /\ req[h].at = "list"
  /\ Answer(h, 200, Newest(Visible(req[h].sub), Limit(req[h].in.limit)))
  /\ UNCHANGED <<tables, tokens, signer, clock, ids, requests>>

\* A rider may name any route, also another's, and one that never was.
Named == IdsOf(routes) \union {0}

GetRoute(h) ==
  \E t \in Presented, id \in Named : requireAuth(h, "get", [id |-> id], t, "get")

Get(h) ==
  LET found == {r \in Visible(req[h].sub) : r.id = req[h].in.id}
  IN  /\ req[h].at = "get"
      /\ \/ found = {} /\ Answer(h, 404, <<>>)
         \/ \E r \in found : Answer(h, 200, <<r>>)
      /\ UNCHANGED <<tables, tokens, signer, clock, ids, requests>>

DeleteRoute(h) ==
  \E t \in Presented, id \in Named : requireAuth(h, "delete", [id |-> id], t, "delete")

Delete(h) ==
  LET found == {r \in Visible(req[h].sub) : r.id = req[h].in.id}
  IN  /\ req[h].at = "delete"
      /\ routes' = routes \ found
      /\ Answer(h, IF found = {} THEN 404 ELSE 204, <<>>)
      /\ UNCHANGED <<accounts, reports, tokens, signer, clock, ids, requests>>

-----------------------------------------------------------------------------
(* Hazard reports: a bad token is no token.  What a report does to routes  *)
(* is HazardOverlay's.                                                     *)

optionalAuth(t) == IF signer /\ Verify(t) THEN t.sub ELSE Nobody

ReportHazard(h) ==
  \E t \in Presented : Arrive(h, "report", <<>>, optionalAuth(t), "report", 0)

CreateReport(h) ==
  LET r == [id |-> ids + 1, author |-> req[h].sub]
      accepted == req[h].sub \in IdsOf(accounts) \union {Nobody}
  IN  /\ req[h].at = "report"
      /\ \/ accepted /\ reports' = reports \union {r} /\ NewId /\ Answer(h, 201, <<r>>)
         \/ ~accepted /\ Refuse(h, 500) /\ UNCHANGED <<reports, ids>>
      /\ UNCHANGED <<accounts, routes, tokens, signer, clock, requests>>

-----------------------------------------------------------------------------
(* What befalls a handler and its database.                                *)

\* The status a handler makes of a query that failed.
OnError(op) == IF op = "me" THEN 401 ELSE IF op \in {"get", "delete"} THEN 404 ELSE 500

Querying == {"insert", "lookup", "me", "create", "list", "get", "delete", "report"}

\* The query fails, or the client has gone and cancels it.
QueryFails(h) ==
  /\ req[h].at \in Querying
  /\ Refuse(h, OnError(req[h].op))
  /\ UNCHANGED <<tables, tokens, signer, clock, ids, requests>>

\* The statement is committed, the connection breaks before the answer.
AnswerLost(h) ==
  LET sub == req[h].sub
      exists == sub \in IdsOf(accounts)
      found == {r \in Visible(sub) : r.id = req[h].in.id}
  IN  /\ \/ /\ req[h].at = "insert"
            /\ Holders(Lower(NewAccount(req[h].in).email)) = {}
            /\ accounts' = accounts \union {NewAccount(req[h].in)} /\ NewId
            /\ UNCHANGED <<routes, reports>>
         \/ /\ req[h].at = "create" /\ exists
            /\ routes' = routes \union {[id |-> ids + 1, owner |-> sub]} /\ NewId
            /\ UNCHANGED <<accounts, reports>>
         \/ /\ req[h].at = "delete" /\ found # {}
            /\ routes' = routes \ found
            /\ UNCHANGED <<accounts, reports, ids>>
         \/ /\ req[h].at = "report" /\ (exists \/ sub = Nobody)
            /\ reports' = reports \union {[id |-> ids + 1, author |-> sub]} /\ NewId
            /\ UNCHANGED <<accounts, routes>>
      /\ Refuse(h, OnError(req[h].op))
      /\ UNCHANGED <<tokens, signer, clock, requests>>

\* Someone with access to the database: routes go with their owner, reports
\* stay without an author.
DeleteAccount ==
  \E a \in accounts :
    /\ accounts' = accounts \ {a}
    /\ routes' = {r \in routes : r.owner # a.id}
    /\ reports' = {[r EXCEPT !.author = IF @ = a.id THEN Nobody ELSE @] : r \in reports}
    /\ UNCHANGED <<tokens, signer, clock, req, ids, requests>>

Tick ==
  /\ clock < MaxClock
  /\ clock' = clock + 1
  /\ UNCHANGED <<tables, tokens, signer, req, ids, requests>>

Arrives(h) == Register(h) \/ Login(h) \/ Me(h) \/ SaveRoute(h) \/ ListRoutes(h)
              \/ GetRoute(h) \/ DeleteRoute(h) \/ ReportHazard(h)

Proceeds(h) == InsertAccount(h) \/ Lookup(h) \/ IssueToken(h) \/ ByID(h) \/ Replan(h)
               \/ CreateRoute(h) \/ List(h) \/ Get(h) \/ Delete(h) \/ CreateReport(h)

Next ==
  \/ \E h \in Handlers : Arrives(h) \/ Proceeds(h) \/ QueryFails(h) \/ AnswerLost(h)
  \/ DeleteAccount \/ Tick

Spec == Init /\ [][Next]_vars

-----------------------------------------------------------------------------
Answered(h, op, status) ==
  req[h].at = "answered" /\ req[h].op = op /\ req[h].status = status

(* The references of the tables hold, and every id is given out once,      *)
(* whatever requests and deletions run into each other: a route belongs to *)
(* an account, a report to one or to nobody (00004_accounts_and_routes).   *)
TypeOK ==
  /\ \A x, y \in accounts \union routes \union reports : x.id = y.id => x = y
  /\ IdsOf(accounts) \union IdsOf(routes) \union IdsOf(reports) \subseteq 1 .. ids
  /\ \A r \in routes : r.owner \in IdsOf(accounts)
  /\ \A r \in reports : r.author \in IdsOf(accounts) \union {Nobody}
  /\ \A t \in tokens : t.sub \in 1 .. ids /\ t.expires \in 0 .. MaxClock + TokenTTL
  /\ \A h \in Handlers :
       /\ req[h].status = 0 <=> req[h].at # "answered"
       /\ req[h].sub \in (1 .. ids) \union {Nobody}

(* However an address is spelled and however many riders register it at    *)
(* once, it has one account, whose password is that of the registration    *)
(* that won: a rider whose registration was answered with a token never    *)
(* holds a token for an account that a password with other first 72 bytes, *)
(* which is all bcrypt compares, opens.                                    *)
OneAccountPerAddress ==
  /\ \A a, b \in accounts : a.email.address = b.email.address => a = b
  /\ \A h \in Handlers : Answered(h, "register", 201) =>
       \A a \in accounts : a.id = req[h].body[1].sub =>
         /\ a.email.address = req[h].in.email.address
         /\ a.hash = req[h].in.password.head

(* Whoever has an account gets in with the first 72 bytes of its password, *)
(* whatever follows them and however they spell the address, and nobody    *)
(* gets in otherwise: a 401 is not given to a rider whose account was there*)
(* all along, and a token is for an account of that address and of those   *)
(* 72 bytes, as far as it existed when the rider came.                     *)
RightPasswordAdmitted ==
  \A h \in Handlers :
    LET r == req[h]
        own == {a \in r.before : /\ a.email.address = r.in.email.address
                                 /\ a.hash = r.in.password.head}
    IN  /\ Answered(h, "login", 401) => own \intersect accounts = {}
        /\ (Answered(h, "login", 200) /\ r.body[1].sub \in IdsOf(r.before)) =>
             r.body[1].sub \in IdsOf(own)

\* Strictly newest first.
Descending(rs) == \A i, j \in DOMAIN rs : i < j => rs[i].id > rs[j].id

(* An answer shows a rider the routes of the token they presented, newest  *)
(* first, none left out that was there all along unless newer ones fill    *)
(* the page; and a route that was theirs when they came and still is, is   *)
(* not answered "not found", unless a failing database stands behind that *)
(* answer (such a 404 forgets the request).                                *)
AnswersOwn ==
  \A h \in Handlers :
    LET r == req[h]
        own == {x \in r.before \intersect routes : x.owner = r.sub}
    IN  /\ (r.op \in {"list", "get", "save"} /\ r.at = "answered") =>
             \A i \in DOMAIN r.body : r.body[i].owner = r.sub
        /\ Answered(h, "me", 200) => r.body[1].id = r.sub
        /\ Answered(h, "list", 200) =>
             /\ Descending(r.body)
             /\ \A x \in own \ Range(r.body) :
                  /\ Len(r.body) = Limit(r.in.limit)
                  /\ \A i \in DOMAIN r.body : r.body[i].id > x.id
        /\ \A op \in {"get", "delete"} : Answered(h, op, 404) =>
             \A x \in own : x.id # r.in.id
        /\ Answered(h, "delete", 204) => r.in.id \notin IdsOf(routes)

\* A route goes with its owner or by its owner's wish, though the owner is
\* told 404 when the connection broke behind the DELETE.
OwnerDeletes ==
  \A r \in routes \ routes' :
    \/ r.owner \notin IdsOf(accounts')
    \/ \E h \in Handlers : /\ req[h].at = "delete" /\ req'[h].status \in {204, 404}
                           /\ req[h].in.id = r.id /\ req[h].sub = r.owner

(* Ownership is part of every statement (savedroute.go: "there is no code  *)
(* path in which another user's route is loaded at all"), also when a      *)
(* token outlives its account, and no step removes another rider's route.  *)
RoutesPrivate == [][AnswersOwn' /\ OwnerDeletes]_vars

=============================================================================
