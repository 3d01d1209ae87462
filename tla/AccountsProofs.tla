---------------------------- MODULE AccountsProofs ----------------------------
(***************************************************************************)
(* For any number of concurrent requests, riders and spellings, and however*)
(* often accounts are deleted, queries fail and answers are lost: the      *)
(* tables' references hold, one address has one account, which only the    *)
(* first 72 bytes of its registration's password open, whoever knows these *)
(* gets in and nobody else, a rider is shown their own routes only, none of*)
(* which is called not found while it is there, and only they delete one.  *)
(***************************************************************************)
EXTENDS Accounts, FiniteSetTheorems, TLAPS

(***************************************************************************)
(* The inductive invariant: what the tables hold, and what a handler knows *)
(* at each of its steps.                                                   *)
(***************************************************************************)
Fields == {"at", "op", "in", "sub", "before", "status", "body"}

ReqShape == DOMAIN req = Handlers /\ \A h \in Handlers : DOMAIN req[h] = Fields

Counting == ids \in Nat /\ clock \in 0 .. MaxClock

RowIds ==
  /\ \A x, y \in accounts \union routes \union reports : x.id = y.id => x = y
  /\ \A x \in accounts \union routes \union reports : x.id \in 1 .. ids
  /\ \A r \in reports, x \in accounts \union routes : r.id # x.id

References ==
  /\ \A r \in routes : r.owner \in IdsOf(accounts)
  /\ \A r \in reports : r.author \in IdsOf(accounts) \union {Nobody}
  /\ \A r \in reports : r = [id |-> r.id, author |-> r.author]

TokensInRange ==
  \A t \in tokens : t.sub \in 1 .. ids /\ t.expires \in 0 .. MaxClock + TokenTTL

EmailsStored ==
  /\ \A a \in accounts : a.email \in StoredEmails
  /\ \A a, b \in accounts : a.email.address = b.email.address => a = b

\* An account numbered id is the one this handler's registration asked for.
Opened(h, id) ==
  \A a \in accounts : a.id = id =>
    /\ a.email.address = req[h].in.email.address
    /\ a.hash = req[h].in.password.head

HandlerInv(h) ==
  /\ req[h].status = 0 <=> req[h].at # "answered"
  /\ req[h].sub \in (1 .. ids) \union {Nobody}
  /\ req[h].at = "insert" =>
       /\ req[h].op = "register"
       /\ req[h].in.email \in Spellings
       /\ ValidEmail(NormaliseEmail(req[h].in.email))
  /\ req[h].at = "lookup" => req[h].op = "login"
  /\ req[h].at \in {"plan", "create"} => req[h].op = "save"
  /\ req[h].at = "list" => req[h].op = "list"
  /\ req[h].at = "report" => req[h].op = "report"
  /\ req[h].at \in {"me", "get", "delete"} => req[h].op = req[h].at
  /\ req[h].at = "issue" =>
       /\ req[h].op \in {"register", "login"}
       /\ req[h].sub \in 1 .. ids
       /\ req[h].op = "register" => Opened(h, req[h].sub)
  /\ Answered(h, "register", 201) =>
       req[h].body[1].sub \in 1 .. ids /\ Opened(h, req[h].body[1].sub)

AccountsInv ==
  /\ ReqShape /\ Counting /\ RowIds /\ References /\ TokensInRange /\ EmailsStored
  /\ \A h \in Handlers : HandlerInv(h)

-----------------------------------------------------------------------------
(* What the helpers of an action do to the handlers.                       *)

LEMMA AnswerFacts ==
  ASSUME ReqShape, NEW h \in Handlers, NEW status, NEW body, Answer(h, status, body)
  PROVE  /\ ReqShape'
         /\ req'[h].at = "answered" /\ req'[h].status = status /\ req'[h].body = body
         /\ req'[h].op = req[h].op /\ req'[h].in = req[h].in /\ req'[h].sub = req[h].sub
         /\ \A g \in Handlers \ {h} : req'[g] = req[g]
BY DEF Answer, ReqShape, Fields

LEMMA RefuseFacts ==
  ASSUME ReqShape, NEW h \in Handlers, NEW status, Refuse(h, status)
  PROVE  /\ ReqShape'
         /\ req'[h].at = "answered" /\ req'[h].status = status
         /\ req'[h].op = req[h].op /\ req'[h].sub = Nobody
         /\ \A g \in Handlers \ {h} : req'[g] = req[g]
BY DEF Refuse, Idle, ReqShape, Fields

LEMMA MoveOnFacts ==
  ASSUME ReqShape, NEW h \in Handlers, NEW step, NEW sub, MoveOn(h, step, sub)
  PROVE  /\ ReqShape'
         /\ req'[h].at = step /\ req'[h].sub = sub /\ req'[h].status = req[h].status
         /\ req'[h].op = req[h].op /\ req'[h].in = req[h].in
         /\ \A g \in Handlers \ {h} : req'[g] = req[g]
BY DEF MoveOn, ReqShape, Fields

\* A handler that took no step keeps its invariant while ids grow and
\* accounts are added above them or removed.
LEMMA OthersKeep ==
  ASSUME Counting, Counting', ids <= ids', NEW g \in Handlers, HandlerInv(g),
         req'[g] = req[g],
         \A a \in accounts' : a \in accounts \/ a.id > ids
  PROVE  HandlerInv(g)'
<1>1. ASSUME NEW id \in 1 .. ids, Opened(g, id)
      PROVE  Opened(g, id)'
  BY <1>1 DEF Opened, Counting
<1>2. \A id \in 1 .. ids : id \in 1 .. ids'
  BY DEF Counting
<1> QED
  BY <1>1, <1>2 DEF HandlerInv, Answered

\* A refusal of any status but a registration's 201 is a sound rest.
LEMMA RefusedRests ==
  ASSUME ReqShape, NEW h \in Handlers, NEW status \in {400, 401, 404, 409, 422, 500, 503},
         Refuse(h, status)
  PROVE  HandlerInv(h)'
BY RefuseFacts DEF HandlerInv, Answered

\* Normalising keeps whose address it is and yields the stored form.
LEMMA NormalForm ==
  ASSUME NEW e \in Spellings, ValidEmail(NormaliseEmail(e))
  PROVE  NormaliseEmail(e) \in StoredEmails /\ NormaliseEmail(e).address = e.address
BY SpellingAssumption DEF ValidEmail, NormaliseEmail, StoredEmails

\* In stored form, one address has one spelling.
LEMMA OneSpelling ==
  ASSUME NEW a \in StoredEmails, NEW b \in StoredEmails, a.address = b.address
  PROVE  Lower(a) = Lower(b)
BY DEF StoredEmails, Lower

-----------------------------------------------------------------------------
LEMMA InitInv == Init => AccountsInv
<1> SUFFICES ASSUME Init PROVE AccountsInv
  OBVIOUS
<1>1. PICK d \in Databases :
        accounts = d.accounts /\ routes = d.routes /\ tokens = d.tokens /\ ids = d.ids
  BY DEF Init
<1>2. reports = {} /\ clock = 0 /\ req = [h \in Handlers |-> Idle]
  BY DEF Init
<1>3. ReqShape
  BY <1>2 DEF ReqShape, Idle, Fields
<1>4. Counting
  BY <1>1, <1>2, DatabaseAssumption, BoundsAssumption DEF Counting
<1>5. RowIds
  BY <1>1, <1>2, DatabaseAssumption DEF RowIds
<1>6. References
  BY <1>1, <1>2, DatabaseAssumption DEF References, IdsOf
<1>7. TokensInRange
  BY <1>1, DatabaseAssumption DEF TokensInRange
<1>8. EmailsStored
  BY <1>1, DatabaseAssumption DEF EmailsStored
<1>9. ASSUME NEW h \in Handlers PROVE HandlerInv(h)
  BY <1>2 DEF HandlerInv, Idle, Answered
<1> QED
  BY <1>3, <1>4, <1>5, <1>6, <1>7, <1>8, <1>9 DEF AccountsInv

-----------------------------------------------------------------------------
(* Steps that add no row.                                                  *)

DataInv == Counting /\ RowIds /\ References /\ TokensInRange /\ EmailsStored

LEMMA QuietData ==
  ASSUME AccountsInv, accounts' = accounts, reports' = reports, routes' \subseteq routes,
         UNCHANGED <<tokens, clock, ids>>
  PROVE  DataInv'
<1>1. Counting'  BY DEF AccountsInv, Counting
<1>2. RowIds'  BY DEF AccountsInv, RowIds
<1>3. References'  BY DEF AccountsInv, References, IdsOf
<1>4. TokensInRange'  BY DEF AccountsInv, TokensInRange
<1>5. EmailsStored'  BY DEF AccountsInv, EmailsStored
<1> QED  BY <1>1, <1>2, <1>3, <1>4, <1>5 DEF DataInv

\* The step of one handler, once the tables and that handler are accounted for.
LEMMA OneHandlerMoves ==
  ASSUME AccountsInv, DataInv', ids <= ids',
         \A a \in accounts' : a \in accounts \/ a.id > ids,
         NEW h \in Handlers, ReqShape', HandlerInv(h)',
         \A g \in Handlers \ {h} : req'[g] = req[g]
  PROVE  AccountsInv'
<1>1. ASSUME NEW g \in Handlers PROVE HandlerInv(g)'
  <2>1. CASE g = h  BY <2>1
  <2>2. CASE g # h
    BY <2>2, OthersKeep DEF AccountsInv, DataInv
  <2> QED  BY <2>1, <2>2
<1> QED  BY <1>1 DEF AccountsInv, DataInv

LEMMA QuietStep ==
  ASSUME AccountsInv, accounts' = accounts, reports' = reports, routes' \subseteq routes,
         UNCHANGED <<tokens, clock, ids>>,
         NEW h \in Handlers, ReqShape', HandlerInv(h)',
         \A g \in Handlers \ {h} : req'[g] = req[g]
  PROVE  AccountsInv'
<1>1. DataInv'  BY QuietData
<1>2. ids <= ids' /\ \A a \in accounts' : a \in accounts \/ a.id > ids
  BY DEF AccountsInv, Counting
<1> QED  BY <1>1, <1>2, OneHandlerMoves

LEMMA QuietRefusal ==
  ASSUME AccountsInv, UNCHANGED <<tables, tokens, clock, ids>>, NEW h \in Handlers,
         NEW status \in {400, 401, 404, 409, 422, 500, 503}, Refuse(h, status)
  PROVE  AccountsInv'
<1>1. ReqShape  BY DEF AccountsInv
<1>2. ReqShape' /\ \A g \in Handlers \ {h} : req'[g] = req[g]
  BY <1>1, RefuseFacts
<1>3. HandlerInv(h)'  BY <1>1, RefusedRests
<1> QED  BY <1>2, <1>3, QuietStep DEF tables

\* An answer to anything but a registration.
LEMMA QuietAnswer ==
  ASSUME AccountsInv, accounts' = accounts, reports' = reports, routes' \subseteq routes,
         UNCHANGED <<tokens, clock, ids>>, NEW h \in Handlers,
         NEW status \in {200, 201, 204, 401, 404}, NEW body, Answer(h, status, body),
         status # 201 \/ req[h].op # "register"
  PROVE  AccountsInv'
<1>1. ReqShape  BY DEF AccountsInv
<1>2. /\ ReqShape' /\ \A g \in Handlers \ {h} : req'[g] = req[g]
      /\ req'[h].at = "answered" /\ req'[h].status = status
      /\ req'[h].op = req[h].op /\ req'[h].sub = req[h].sub
  BY <1>1, AnswerFacts
<1>3. HandlerInv(h)'
  BY <1>2 DEF AccountsInv, HandlerInv, Answered
<1> QED  BY <1>2, <1>3, QuietStep

LEMMA ArrivalInv ==
  ASSUME AccountsInv, NEW h \in Handlers, NEW op, NEW in, NEW step, NEW refusal,
         NEW sub \in (1 .. ids) \union {Nobody},
         Arrive(h, op, in, sub, step, refusal),
         refusal \in {0, 400, 401, 500, 503},
         step \in {"insert", "lookup", "me", "plan", "list", "get", "delete", "report"},
         refusal = 0 =>
           /\ step = "insert" => /\ op = "register" /\ in.email \in Spellings
                                 /\ ValidEmail(NormaliseEmail(in.email))
           /\ step = "lookup" => op = "login"
           /\ step = "plan" => op = "save"
           /\ step = "list" => op = "list"
           /\ step = "report" => op = "report"
           /\ step \in {"me", "get", "delete"} => op = step
  PROVE  AccountsInv'
<1>1. ReqShape /\ UNCHANGED <<tables, tokens, clock, ids>>
  BY DEF AccountsInv, Arrive
<1>2. ReqShape' /\ \A g \in Handlers \ {h} : req'[g] = req[g]
  BY <1>1 DEF Arrive, Idle, ReqShape, Fields
<1>3. HandlerInv(h)'
  <2>1. CASE refusal = 0
    <3>1. /\ req'[h].at = step /\ req'[h].op = op /\ req'[h].in = in
          /\ req'[h].sub = sub /\ req'[h].status = 0
      BY <1>1, <2>1 DEF Arrive, Idle, ReqShape, Fields
    <3> QED  BY <1>1, <2>1, <3>1 DEF HandlerInv, Answered
  <2>2. CASE refusal # 0
    <3>1. /\ req'[h].at = "answered" /\ req'[h].op = op
          /\ req'[h].sub = Nobody /\ req'[h].status = refusal
      BY <1>1, <2>2 DEF Arrive, Idle, ReqShape, Fields
    <3> QED  BY <2>2, <3>1 DEF HandlerInv, Answered
  <2> QED  BY <2>1, <2>2
<1> QED  BY <1>1, <1>2, <1>3, QuietStep DEF tables

LEMMA AuthInv ==
  ASSUME AccountsInv, NEW h \in Handlers, NEW op, NEW in, NEW t, NEW step,
         requireAuth(h, op, in, t, step),
         <<op, step>> \in {<<"me", "me">>, <<"save", "plan">>, <<"list", "list">>,
                           <<"get", "get">>, <<"delete", "delete">>}
  PROVE  AccountsInv'
<1> DEFINE sub == IF Verify(t) THEN t.sub ELSE Nobody
           refusal == IF ~signer THEN 503 ELSE IF ~Verify(t) THEN 401 ELSE 0
<1>1. sub \in (1 .. ids) \union {Nobody}
  BY DEF AccountsInv, TokensInRange, Verify
<1>2. refusal \in {0, 400, 401, 500, 503}
  OBVIOUS
<1>3. Arrive(h, op, in, sub, step, refusal)
  BY DEF requireAuth
<1>4. /\ step \in {"insert", "lookup", "me", "plan", "list", "get", "delete", "report"}
      /\ step # "insert" /\ step # "lookup" /\ step # "report"
      /\ step = "plan" => op = "save"
      /\ step = "list" => op = "list"
      /\ step \in {"me", "get", "delete"} => op = step
  OBVIOUS
<1> HIDE DEF sub, refusal
<1> QED  BY <1>1, <1>2, <1>3, <1>4, ArrivalInv

LEMMA ArrivesInv ==
  ASSUME AccountsInv, NEW h \in Handlers, Arrives(h)
  PROVE  AccountsInv'
<1>1. CASE Register(h)
  <2>1. PICK email \in Spellings, p \in Passwords :
          Arrive(h, "register", [email |-> email, password |-> p], Nobody, "insert",
                 RefuseRegister(email, p))
    BY <1>1 DEF Register
  <2>2. RefuseRegister(email, p) \in {0, 400, 401, 500, 503}
    BY DEF RefuseRegister
  <2>3. RefuseRegister(email, p) = 0 => ValidEmail(NormaliseEmail(email))
    BY DEF RefuseRegister
  <2> DEFINE in == [email |-> email, password |-> p]
  <2>4. in.email = email  OBVIOUS
  <2> HIDE DEF in
  <2>5. Arrive(h, "register", in, Nobody, "insert", RefuseRegister(email, p))
    BY <2>1 DEF in
  <2> QED  BY ZenonT(30), <2>2, <2>3, <2>4, <2>5, ArrivalInv
<1>2. CASE Login(h)
  <2>1. PICK in, refusal :
          /\ Arrive(h, "login", in, Nobody, "lookup", refusal)
          /\ refusal \in {0, 503}
    BY <1>2 DEF Login
  <2> QED  BY ZenonT(30), <2>1, ArrivalInv
<1>3. CASE Me(h)  BY <1>3, AuthInv DEF Me
<1>4. CASE SaveRoute(h)  BY <1>4, AuthInv DEF SaveRoute
<1>5. CASE ListRoutes(h)
  <2>1. PICK in, t : requireAuth(h, "list", in, t, "list")
    BY <1>5 DEF ListRoutes
  <2> QED  BY <2>1, AuthInv
<1>6. CASE GetRoute(h)
  <2>1. PICK in, t : requireAuth(h, "get", in, t, "get")
    BY <1>6 DEF GetRoute
  <2> QED  BY <2>1, AuthInv
<1>7. CASE DeleteRoute(h)
  <2>1. PICK in, t : requireAuth(h, "delete", in, t, "delete")
    BY <1>7 DEF DeleteRoute
  <2> QED  BY <2>1, AuthInv
<1>8. CASE ReportHazard(h)
  <2>1. PICK t \in Presented : Arrive(h, "report", <<>>, optionalAuth(t), "report", 0)
    BY <1>8 DEF ReportHazard
  <2>2. optionalAuth(t) \in (1 .. ids) \union {Nobody}
    BY DEF AccountsInv, TokensInRange, optionalAuth, Verify
  <2> QED  BY <2>1, <2>2, ArrivalInv
<1> QED  BY <1>1, <1>2, <1>3, <1>4, <1>5, <1>6, <1>7, <1>8 DEF Arrives

-----------------------------------------------------------------------------
(* Steps that add a row, or take an account with what hangs on it.         *)

LEMMA AccountAdded ==
  ASSUME AccountsInv, NEW new, accounts' = accounts \union {new}, new.id = ids + 1,
         new.email \in StoredEmails, Holders(Lower(new.email)) = {}, NewId,
         UNCHANGED <<routes, reports, tokens, clock>>
  PROVE  DataInv'
<1>1. Counting'  BY DEF AccountsInv, Counting, NewId
<1>2. RowIds'  BY DEF AccountsInv, RowIds, Counting, NewId
<1>3. References'  BY DEF AccountsInv, References, IdsOf
<1>4. TokensInRange'  BY DEF AccountsInv, TokensInRange, Counting, NewId
<1>5. ASSUME NEW a \in accounts PROVE a.email.address # new.email.address
  <2>1. Lower(a.email) # Lower(new.email)  BY DEF Holders
  <2> QED  BY <2>1, OneSpelling DEF AccountsInv, EmailsStored
<1>6. EmailsStored'  BY <1>5 DEF AccountsInv, EmailsStored
<1> QED  BY <1>1, <1>2, <1>3, <1>4, <1>6 DEF DataInv

LEMMA RouteAdded ==
  ASSUME AccountsInv, NEW owner \in IdsOf(accounts), NewId,
         routes' = routes \union {[id |-> ids + 1, owner |-> owner]},
         UNCHANGED <<accounts, reports, tokens, clock>>
  PROVE  DataInv'
<1>1. Counting'  BY DEF AccountsInv, Counting, NewId
<1>2. RowIds'  BY DEF AccountsInv, RowIds, Counting, NewId
<1>3. References'  BY DEF AccountsInv, References
<1>4. TokensInRange'  BY DEF AccountsInv, TokensInRange, Counting, NewId
<1>5. EmailsStored'  BY DEF AccountsInv, EmailsStored
<1> QED  BY <1>1, <1>2, <1>3, <1>4, <1>5 DEF DataInv

LEMMA ReportAdded ==
  ASSUME AccountsInv, NEW author \in IdsOf(accounts) \union {Nobody}, NewId,
         reports' = reports \union {[id |-> ids + 1, author |-> author]},
         UNCHANGED <<accounts, routes, tokens, clock>>
  PROVE  DataInv'
<1>1. Counting'  BY DEF AccountsInv, Counting, NewId
<1>2. RowIds'  BY DEF AccountsInv, RowIds, Counting, NewId
<1>3. References'  BY DEF AccountsInv, References
<1>4. TokensInRange'  BY DEF AccountsInv, TokensInRange, Counting, NewId
<1>5. EmailsStored'  BY DEF AccountsInv, EmailsStored
<1> QED  BY <1>1, <1>2, <1>3, <1>4, <1>5 DEF DataInv

\* Ids grow, and what is added to the accounts lies above them.
LEMMA NewAbove ==
  ASSUME AccountsInv, NewId,
         accounts' = accounts \/ \E new : new.id = ids + 1 /\ accounts' = accounts \union {new}
  PROVE  ids <= ids' /\ \A a \in accounts' : a \in accounts \/ a.id > ids
BY DEF AccountsInv, Counting, NewId

LEMMA NewAccountFacts ==
  ASSUME AccountsInv, NEW h \in Handlers, req[h].at = "insert"
  PROVE  LET new == NewAccount(req[h].in)
         IN  /\ new.id = ids + 1 /\ new.email \in StoredEmails
             /\ new.email.address = req[h].in.email.address
             /\ new.hash = req[h].in.password.head
<1>1. req[h].in.email \in Spellings /\ ValidEmail(NormaliseEmail(req[h].in.email))
  BY DEF AccountsInv, HandlerInv
<1> QED  BY <1>1, NormalForm DEF NewAccount

LEMMA InsertAccountInv ==
  ASSUME AccountsInv, NEW h \in Handlers, InsertAccount(h)
  PROVE  AccountsInv'
<1> DEFINE new == NewAccount(req[h].in)
<1>1. /\ new.id = ids + 1 /\ new.email \in StoredEmails
      /\ new.email.address = req[h].in.email.address
      /\ new.hash = req[h].in.password.head
      /\ req[h].at = "insert"
  BY NewAccountFacts DEF InsertAccount
<1> HIDE DEF new
<1>2. CASE Refuse(h, 409) /\ UNCHANGED <<accounts, ids>>
  BY <1>2, QuietRefusal DEF InsertAccount, tables
<1>3. CASE /\ Holders(Lower(new.email)) = {} /\ accounts' = accounts \union {new}
           /\ NewId /\ MoveOn(h, "issue", new.id)
  <2>1. UNCHANGED <<routes, reports, tokens, clock>>  BY DEF InsertAccount
  <2>2. DataInv'  BY <1>1, <1>3, <2>1, AccountAdded
  <2>3. ids <= ids' /\ \A a \in accounts' : a \in accounts \/ a.id > ids
    BY <1>1, <1>3, NewAbove
  <2>4. /\ ReqShape' /\ \A g \in Handlers \ {h} : req'[g] = req[g]
        /\ req'[h].at = "issue" /\ req'[h].sub = ids + 1 /\ req'[h].status = req[h].status
        /\ req'[h].op = req[h].op /\ req'[h].in = req[h].in
    BY <1>1, <1>3, MoveOnFacts DEF AccountsInv
  <2>5. ASSUME NEW a \in accounts', a.id = ids + 1 PROVE a = new
    BY <1>3, <2>5 DEF AccountsInv, RowIds, Counting
  <2>6. HandlerInv(h)'
    <3>1. ids + 1 \in 1 .. ids'  BY <1>3 DEF NewId, AccountsInv, Counting
    <3>2. req[h].status = 0 /\ req[h].op = "register"
      BY <1>1 DEF AccountsInv, HandlerInv
    <3>3. \A a \in accounts' : a.id = req'[h].sub => a = new
      BY <2>4, <2>5
    <3>4. Opened(h, req[h].sub)'
      BY <1>1, <2>4, <3>3 DEF Opened
    <3>5. req'[h].sub \in 1 .. ids'  BY <2>4, <3>1
    <3> QED  BY <1>1, <2>4, <3>2, <3>4, <3>5 DEF HandlerInv, Answered
  <2> QED  BY <2>2, <2>3, <2>4, <2>6, OneHandlerMoves
<1> QED  BY <1>2, <1>3 DEF InsertAccount, new

LEMMA LookupInv ==
  ASSUME AccountsInv, NEW h \in Handlers, Lookup(h)
  PROVE  AccountsInv'
<1>1. req[h].at = "lookup" /\ req[h].op = "login" /\ req[h].status = 0
  BY DEF Lookup, AccountsInv, HandlerInv
<1>2. CASE Answer(h, 401, <<>>)
  BY <1>2, QuietAnswer DEF Lookup, tables
<1>3. ASSUME NEW a \in accounts, MoveOn(h, "issue", a.id) PROVE AccountsInv'
  <2>1. UNCHANGED <<tables, tokens, clock, ids>>  BY DEF Lookup
  <2>2. a.id \in 1 .. ids  BY DEF AccountsInv, RowIds
  <2>3. /\ ReqShape' /\ \A g \in Handlers \ {h} : req'[g] = req[g]
        /\ req'[h].at = "issue" /\ req'[h].sub = a.id /\ req'[h].status = req[h].status
        /\ req'[h].op = req[h].op
    BY <1>3, MoveOnFacts DEF AccountsInv
  <2>4. HandlerInv(h)'  BY <1>1, <2>1, <2>2, <2>3 DEF HandlerInv, Answered
  <2> QED  BY <2>1, <2>3, <2>4, QuietStep DEF tables
<1> QED  BY <1>2, <1>3 DEF Lookup, Holders

LEMMA IssueTokenInv ==
  ASSUME AccountsInv, NEW h \in Handlers, IssueToken(h)
  PROVE  AccountsInv'
<1> DEFINE t == [sub |-> req[h].sub, expires |-> clock + TokenTTL]
           status == IF req[h].op = "register" THEN 201 ELSE 200
<1>1. /\ req[h].at = "issue" /\ tokens' = tokens \union {t} /\ Answer(h, status, <<t>>)
      /\ UNCHANGED <<tables, signer, clock, ids, requests>>
  BY DEF IssueToken
<1>2. /\ req[h].sub \in 1 .. ids
      /\ req[h].op = "register" => Opened(h, req[h].sub)
  BY <1>1 DEF AccountsInv, HandlerInv
<1>3. /\ ReqShape' /\ \A g \in Handlers \ {h} : req'[g] = req[g]
      /\ req'[h].at = "answered" /\ req'[h].status = status /\ req'[h].body = <<t>>
      /\ req'[h].op = req[h].op /\ req'[h].in = req[h].in /\ req'[h].sub = req[h].sub
  BY <1>1, AnswerFacts DEF AccountsInv
<1>4. DataInv'
  <2>1. TokensInRange'
    <3>1. t.sub \in 1 .. ids /\ t.expires \in 0 .. MaxClock + TokenTTL
      BY <1>2, BoundsAssumption DEF AccountsInv, Counting
    <3> QED  BY <1>1, <3>1 DEF AccountsInv, TokensInRange
  <2>2. Counting' /\ RowIds' /\ References' /\ EmailsStored'
    BY <1>1 DEF AccountsInv, Counting, RowIds, References, EmailsStored, tables, IdsOf
  <2> QED  BY <2>1, <2>2 DEF DataInv
<1>5. HandlerInv(h)'
  <2>1. req[h].op = "register" => Opened(h, req[h].sub)'
    BY <1>1, <1>2, <1>3 DEF Opened, tables
  <2>2. <<t>>[1].sub = req[h].sub  OBVIOUS
  <2>3. req'[h].body[1].sub = req[h].sub  BY <1>3, <2>2
  <2>4. req[h].op = "register" => Opened(h, req[h].body[1].sub)'
    BY <1>3, <2>1, <2>3 DEF Opened
  <2>5. status \in {200, 201}  OBVIOUS
  <2>6. req'[h].body[1].sub \in 1 .. ids'  BY <1>1, <1>2, <2>3
  <2>7. req'[h].sub \in (1 .. ids') \union {Nobody}  BY <1>1, <1>2, <1>3
  <2> HIDE DEF t, status
  <2> QED  BY <1>3, <2>4, <2>5, <2>6, <2>7 DEF HandlerInv, Answered
<1>6. ids <= ids' /\ \A a \in accounts' : a \in accounts \/ a.id > ids
  BY <1>1 DEF AccountsInv, Counting, tables
<1> QED  BY <1>3, <1>4, <1>5, <1>6, OneHandlerMoves

\* What is known of a handler that stores a route or a report.
LEMMA CreatorFacts ==
  ASSUME AccountsInv, NEW h \in Handlers
  PROVE  /\ req[h].at = "create" => req[h].op # "register"
         /\ req[h].at = "report" => req[h].op # "register"
BY DEF AccountsInv, HandlerInv

\* An answer of a handler whose statement has stored a row.
LEMMA StoredAnswer ==
  ASSUME AccountsInv, DataInv', accounts' = accounts, NewId, NEW h \in Handlers,
         NEW body, Answer(h, 201, body), req[h].op # "register"
  PROVE  AccountsInv'
<1>1. /\ ReqShape' /\ \A g \in Handlers \ {h} : req'[g] = req[g]
      /\ req'[h].at = "answered" /\ req'[h].status = 201
      /\ req'[h].op = req[h].op /\ req'[h].sub = req[h].sub
  BY AnswerFacts DEF AccountsInv
<1>2. ids <= ids' /\ \A a \in accounts' : a \in accounts \/ a.id > ids
  BY NewAbove
<1>3. req'[h].sub \in (1 .. ids') \union {Nobody}
  <2>1. req[h].sub \in (1 .. ids) \union {Nobody}  BY DEF AccountsInv, HandlerInv
  <2> QED  BY <1>1, <2>1 DEF NewId, AccountsInv, Counting
<1>4. HandlerInv(h)'  BY <1>1, <1>3 DEF HandlerInv, Answered
<1> QED  BY <1>1, <1>2, <1>4, OneHandlerMoves

LEMMA CreateRouteInv ==
  ASSUME AccountsInv, NEW h \in Handlers, CreateRoute(h)
  PROVE  AccountsInv'
<1> DEFINE r == [id |-> ids + 1, owner |-> req[h].sub]
<1>1. CASE /\ req[h].sub \in IdsOf(accounts) /\ routes' = routes \union {r}
           /\ NewId /\ Answer(h, 201, <<r>>)
  <2>1. UNCHANGED <<accounts, reports, tokens, clock>>  BY DEF CreateRoute
  <2>2. DataInv'  BY <1>1, <2>1, RouteAdded
  <2>3. req[h].op # "register"  BY CreatorFacts DEF CreateRoute
  <2> HIDE DEF r
  <2> QED  BY <1>1, <2>1, <2>2, <2>3, StoredAnswer
<1>2. CASE Refuse(h, 500) /\ UNCHANGED <<routes, ids>>
  BY <1>2, QuietRefusal DEF CreateRoute, tables
<1> QED  BY <1>1, <1>2 DEF CreateRoute

LEMMA CreateReportInv ==
  ASSUME AccountsInv, NEW h \in Handlers, CreateReport(h)
  PROVE  AccountsInv'
<1> DEFINE r == [id |-> ids + 1, author |-> req[h].sub]
<1>1. CASE /\ req[h].sub \in IdsOf(accounts) \union {Nobody}
           /\ reports' = reports \union {r} /\ NewId /\ Answer(h, 201, <<r>>)
  <2>1. UNCHANGED <<accounts, routes, tokens, clock>>  BY DEF CreateReport
  <2>2. DataInv'  BY <1>1, <2>1, ReportAdded
  <2>3. req[h].op # "register"  BY CreatorFacts DEF CreateReport
  <2> HIDE DEF r
  <2> QED  BY <1>1, <2>1, <2>2, <2>3, StoredAnswer
<1>2. CASE Refuse(h, 500) /\ UNCHANGED <<reports, ids>>
  BY <1>2, QuietRefusal DEF CreateReport, tables
<1> QED  BY <1>1, <1>2 DEF CreateReport

LEMMA AnswerLostInv ==
  ASSUME AccountsInv, NEW h \in Handlers, AnswerLost(h)
  PROVE  AccountsInv'
<1>1. /\ Refuse(h, OnError(req[h].op)) /\ UNCHANGED <<tokens, clock>>
      /\ OnError(req[h].op) \in {401, 404, 500}
  BY DEF AnswerLost, OnError
<1>2. ReqShape' /\ \A g \in Handlers \ {h} : req'[g] = req[g]
  BY <1>1, RefuseFacts DEF AccountsInv
<1>3. HandlerInv(h)'  BY <1>1, RefusedRests DEF AccountsInv
<1>4. DataInv' /\ ids <= ids' /\ \A a \in accounts' : a \in accounts \/ a.id > ids
  <2>1. CASE /\ req[h].at = "insert"
             /\ Holders(Lower(NewAccount(req[h].in).email)) = {}
             /\ accounts' = accounts \union {NewAccount(req[h].in)} /\ NewId
             /\ UNCHANGED <<routes, reports>>
    <3> DEFINE new == NewAccount(req[h].in)
    <3>1. new.id = ids + 1 /\ new.email \in StoredEmails
      BY <2>1, NewAccountFacts
    <3> HIDE DEF new
    <3>2. Holders(Lower(new.email)) = {} /\ accounts' = accounts \union {new}
      BY <2>1 DEF new
    <3> QED  BY <1>1, <2>1, <3>1, <3>2, AccountAdded, NewAbove
  <2>2. CASE /\ req[h].sub \in IdsOf(accounts)
             /\ routes' = routes \union {[id |-> ids + 1, owner |-> req[h].sub]}
             /\ NewId /\ UNCHANGED <<accounts, reports>>
    BY <1>1, <2>2, RouteAdded, NewAbove
  <2>3. CASE /\ req[h].sub \in IdsOf(accounts) \union {Nobody}
             /\ reports' = reports \union {[id |-> ids + 1, author |-> req[h].sub]}
             /\ NewId /\ UNCHANGED <<accounts, routes>>
    BY <1>1, <2>3, ReportAdded, NewAbove
  <2>4. CASE routes' \subseteq routes /\ UNCHANGED <<accounts, reports, ids>>
    <3>1. DataInv'  BY <1>1, <2>4, QuietData
    <3> QED  BY <2>4, <3>1 DEF AccountsInv, Counting
  <2> QED  BY <2>1, <2>2, <2>3, <2>4 DEF AnswerLost
<1> QED  BY <1>2, <1>3, <1>4, OneHandlerMoves

LEMMA ProceedsInv ==
  ASSUME AccountsInv, NEW h \in Handlers, Proceeds(h)
  PROVE  AccountsInv'
<1>1. CASE ByID(h)
  <2>1. PICK body : Answer(h, 200, body) \/ Refuse(h, 401)
    BY <1>1 DEF ByID
  <2> QED  BY <1>1, <2>1, QuietAnswer, QuietRefusal DEF ByID, tables
<1>2. CASE Replan(h)
  <2>1. CASE MoveOn(h, "create", req[h].sub)
    <3>1. UNCHANGED <<tables, tokens, clock, ids>> /\ req[h].at = "plan"
      BY <1>2 DEF Replan
    <3>2. /\ ReqShape' /\ \A g \in Handlers \ {h} : req'[g] = req[g]
          /\ req'[h].at = "create" /\ req'[h].sub = req[h].sub
          /\ req'[h].status = req[h].status /\ req'[h].op = req[h].op
      BY <2>1, MoveOnFacts DEF AccountsInv
    <3>3. HandlerInv(h)'  BY <3>1, <3>2 DEF AccountsInv, HandlerInv, Answered
    <3> QED  BY <3>1, <3>2, <3>3, QuietStep DEF tables
  <2>2. CASE \E s \in {400, 422, 500, 503} : Refuse(h, s)
    BY <1>2, <2>2, QuietRefusal DEF Replan
  <2> QED  BY <1>2, <2>1, <2>2 DEF Replan
<1>3. CASE List(h)
  <2>1. PICK body : Answer(h, 200, body)  BY <1>3 DEF List
  <2> QED  BY <1>3, <2>1, QuietAnswer DEF List, tables
<1>4. CASE Get(h)
  <2>1. PICK body : Answer(h, 200, body) \/ Answer(h, 404, body)
    BY <1>4 DEF Get
  <2> QED  BY <1>4, <2>1, QuietAnswer DEF Get, tables
<1>5. CASE Delete(h)
  <2>1. /\ accounts' = accounts /\ reports' = reports /\ routes' \subseteq routes
        /\ UNCHANGED <<tokens, clock, ids>>
    BY <1>5 DEF Delete
  <2>2. PICK status \in {204, 404} : Answer(h, status, <<>>)
    BY <1>5 DEF Delete
  <2> QED  BY <2>1, <2>2, QuietAnswer
<1> QED
  BY <1>1, <1>2, <1>3, <1>4, <1>5, InsertAccountInv, LookupInv, IssueTokenInv,
     CreateRouteInv, CreateReportInv
  DEF Proceeds

LEMMA QueryFailsInv ==
  ASSUME AccountsInv, NEW h \in Handlers, QueryFails(h)
  PROVE  AccountsInv'
<1>1. OnError(req[h].op) \in {401, 404, 500}
  BY DEF OnError
<1> QED  BY <1>1, QuietRefusal DEF QueryFails

LEMMA DeleteAccountInv ==
  ASSUME AccountsInv, DeleteAccount
  PROVE  AccountsInv'
<1>1. PICK a \in accounts :
        /\ accounts' = accounts \ {a}
        /\ routes' = {r \in routes : r.owner # a.id}
        /\ reports' = {[r EXCEPT !.author = IF @ = a.id THEN Nobody ELSE @] : r \in reports}
        /\ UNCHANGED <<tokens, signer, clock, req, ids, requests>>
  BY DEF DeleteAccount
<1>2. Counting' /\ TokensInRange' /\ EmailsStored' /\ ReqShape'
  BY <1>1 DEF AccountsInv, Counting, TokensInRange, EmailsStored, ReqShape
<1>3. ASSUME NEW r \in reports'
      PROVE  \E s \in reports : /\ r.id = s.id
                                /\ r.author = (IF s.author = a.id THEN Nobody ELSE s.author)
                                /\ r = [id |-> r.id, author |-> r.author]
  <2>1. PICK s \in reports : r = [s EXCEPT !.author = IF @ = a.id THEN Nobody ELSE @]
    BY <1>1
  <2>2. s = [id |-> s.id, author |-> s.author]  BY DEF AccountsInv, References
  <2>3. r = [id |-> s.id, author |-> IF s.author = a.id THEN Nobody ELSE s.author]
    BY <2>1, <2>2
  <2> QED  BY <2>3
<1>4. References'
  <2>1. \A o \in IdsOf(accounts) : o # a.id => o \in IdsOf(accounts')
    BY <1>1 DEF IdsOf
  <2>2. ASSUME NEW r \in routes' PROVE r.owner \in IdsOf(accounts')
    BY <1>1, <2>1 DEF AccountsInv, References
  <2>3. ASSUME NEW r \in reports'
        PROVE  /\ r.author \in IdsOf(accounts') \union {Nobody}
               /\ r = [id |-> r.id, author |-> r.author]
    BY <1>3, <2>1 DEF AccountsInv, References
  <2> QED  BY <2>2, <2>3 DEF References
<1>5. RowIds'
  <2>1. \A r \in reports' : \E s \in reports : r.id = s.id
    BY <1>3
  <2>2. \A x \in accounts' \union routes' \union reports' : x.id \in 1 .. ids'
    BY <1>1, <2>1 DEF AccountsInv, RowIds
  <2>4. \A r \in reports', x \in accounts' \union routes' : r.id # x.id
    BY <1>1, <2>1 DEF AccountsInv, RowIds
  <2>3. ASSUME NEW x \in accounts' \union routes' \union reports',
               NEW y \in accounts' \union routes' \union reports', x.id = y.id
        PROVE  x = y
    <3>1. CASE x \in reports' /\ y \in reports'
      <4>1. PICK s \in reports :
              /\ x.id = s.id /\ x = [id |-> x.id, author |-> x.author]
              /\ x.author = (IF s.author = a.id THEN Nobody ELSE s.author)
        BY <1>3, <3>1
      <4>2. PICK t \in reports :
              /\ y.id = t.id /\ y = [id |-> y.id, author |-> y.author]
              /\ y.author = (IF t.author = a.id THEN Nobody ELSE t.author)
        BY <1>3, <3>1
      <4>3. s = t  BY <2>3, <4>1, <4>2 DEF AccountsInv, RowIds
      <4> QED  BY <4>1, <4>2, <4>3
    <3>2. CASE x \notin reports' /\ y \notin reports'
      BY <1>1, <2>3, <3>2 DEF AccountsInv, RowIds
    <3>3. x \in reports' <=> y \in reports'  BY <2>3, <2>4
    <3> QED  BY <3>1, <3>2, <3>3
  <2> QED  BY <2>2, <2>3, <2>4 DEF RowIds
<1>6. ASSUME NEW h \in Handlers PROVE HandlerInv(h)'
  BY <1>1, <1>2, OthersKeep DEF AccountsInv, Counting
<1> QED  BY <1>2, <1>4, <1>5, <1>6 DEF AccountsInv

LEMMA TickInv ==
  ASSUME AccountsInv, Tick
  PROVE  AccountsInv'
<1>1. Counting'  BY BoundsAssumption DEF AccountsInv, Counting, Tick
<1>2. RowIds' /\ References' /\ TokensInRange' /\ EmailsStored' /\ ReqShape'
  BY DEF AccountsInv, RowIds, References, TokensInRange, EmailsStored, ReqShape, Tick,
         tables, IdsOf
<1>3. ASSUME NEW h \in Handlers PROVE HandlerInv(h)'
  BY <1>1, OthersKeep DEF AccountsInv, Counting, Tick, tables
<1> QED  BY <1>1, <1>2, <1>3 DEF AccountsInv

LEMMA StutterInv ==
  ASSUME AccountsInv, UNCHANGED vars
  PROVE  AccountsInv'
<1>1. DataInv' /\ ReqShape'
  BY DEF AccountsInv, DataInv, Counting, RowIds, References, TokensInRange, EmailsStored,
         ReqShape, vars, tables, IdsOf
<1>2. ASSUME NEW h \in Handlers PROVE HandlerInv(h)'
  BY OthersKeep DEF AccountsInv, Counting, vars, tables
<1> QED  BY <1>1, <1>2 DEF AccountsInv, DataInv

LEMMA NextInv ==
  ASSUME AccountsInv, [Next]_vars
  PROVE  AccountsInv'
<1>1. ASSUME NEW h \in Handlers, Arrives(h) PROVE AccountsInv'  BY <1>1, ArrivesInv
<1>2. ASSUME NEW h \in Handlers, Proceeds(h) PROVE AccountsInv'  BY <1>2, ProceedsInv
<1>3. ASSUME NEW h \in Handlers, QueryFails(h) PROVE AccountsInv'  BY <1>3, QueryFailsInv
<1>4. ASSUME NEW h \in Handlers, AnswerLost(h) PROVE AccountsInv'  BY <1>4, AnswerLostInv
<1>5. CASE DeleteAccount  BY <1>5, DeleteAccountInv
<1>6. CASE Tick  BY <1>6, TickInv
<1>7. CASE UNCHANGED vars  BY <1>7, StutterInv
<1> QED  BY <1>1, <1>2, <1>3, <1>4, <1>5, <1>6, <1>7 DEF Next

\* The tables' references and the progress of every handler, whatever the
\* requests and deletions do to each other: the invariant is inductive.
THEOREM AccountsInvariant == Spec => []AccountsInv
<1>1. Init => AccountsInv  BY InitInv
<1>2. AccountsInv /\ [Next]_vars => AccountsInv'  BY NextInv
<1> QED  BY <1>1, <1>2, PTL DEF Spec

(* The references of the tables hold: a route belongs to an account and a  *)
(* report to one or to nobody, although tokens outlive accounts and a      *)
(* deletion may fall between the check of a token and the INSERT.          *)
THEOREM ReferencesHold == Spec => []TypeOK
<1>1. AccountsInv => TypeOK
  BY DEF AccountsInv, TypeOK, RowIds, References, TokensInRange, HandlerInv, IdsOf
<1> QED  BY <1>1, AccountsInvariant, PTL

(* One address has one account, and a rider whose registration was answered*)
(* with a token holds it for an account that the first 72 bytes of their   *)
(* own password open, however many registrations of that address were under*)
(* way (the unique index on lower(email), Register's normalisation before  *)
(* it).                                                                    *)
THEOREM OneAccountEach == Spec => []OneAccountPerAddress
<1>1. AccountsInv => OneAccountPerAddress
  BY DEF AccountsInv, OneAccountPerAddress, EmailsStored, HandlerInv, Opened
<1> QED  BY <1>1, AccountsInvariant, PTL

\* A route disappears with its owner's account, or on its owner's request,
\* answered 204 or, if the connection broke behind the DELETE, 404: a step of
\* any other rider, an orphaned token included, leaves it alone.
THEOREM OnlyOwnersDelete == Spec => [][OwnerDeletes]_vars
<1>1. AccountsInv /\ [Next]_vars => [OwnerDeletes]_vars
  <2> SUFFICES ASSUME AccountsInv, Next, NEW r \in routes \ routes'
               PROVE  \/ r.owner \notin IdsOf(accounts')
                      \/ \E h \in Handlers : /\ req[h].at = "delete"
                                             /\ req'[h].status \in {204, 404}
                                             /\ req[h].in.id = r.id
                                             /\ req[h].sub = r.owner
    BY DEF OwnerDeletes
  <2>1. ASSUME NEW h \in Handlers, Arrives(h) PROVE routes' = routes
    BY <2>1 DEF Arrives, Register, Login, Me, SaveRoute, ListRoutes, GetRoute,
                DeleteRoute, ReportHazard, requireAuth, Arrive, tables
  <2>2. ASSUME NEW h \in Handlers, Proceeds(h), ~Delete(h) PROVE routes \subseteq routes'
    BY <2>2 DEF Proceeds, InsertAccount, Lookup, IssueToken, ByID, Replan, CreateRoute,
                List, Get, CreateReport, tables
  <2>3. ASSUME NEW h \in Handlers, Delete(h)
        PROVE  /\ req[h].at = "delete" /\ req'[h].status \in {204, 404}
               /\ req[h].in.id = r.id /\ req[h].sub = r.owner
    <3> DEFINE found == {x \in Visible(req[h].sub) : x.id = req[h].in.id}
    <3>1. r \in found  BY <2>3 DEF Delete
    <3>2. Answer(h, 204, <<>>)  BY <2>3, <3>1 DEF Delete
    <3> QED  BY <2>3, <3>1, <3>2, AnswerFacts DEF Delete, Visible, AccountsInv
  <2>4. ASSUME NEW h \in Handlers, QueryFails(h) PROVE routes' = routes
    BY <2>4 DEF QueryFails, tables
  <2>5. ASSUME NEW h \in Handlers, AnswerLost(h)
        PROVE  /\ req[h].at = "delete" /\ req'[h].status \in {204, 404}
               /\ req[h].in.id = r.id /\ req[h].sub = r.owner
    <3> DEFINE found == {x \in Visible(req[h].sub) : x.id = req[h].in.id}
    <3>1. r \in found /\ req[h].at = "delete"  BY <2>5 DEF AnswerLost
    <3>2. Refuse(h, 404)
      BY <2>5, <3>1 DEF AnswerLost, OnError, AccountsInv, HandlerInv
    <3> QED  BY <3>1, <3>2, RefuseFacts DEF Visible, AccountsInv
  <2>6. CASE DeleteAccount
    <3>1. PICK a \in accounts : /\ accounts' = accounts \ {a}
                                /\ routes' = {x \in routes : x.owner # a.id}
      BY <2>6 DEF DeleteAccount
    <3>2. r.owner = a.id  BY <3>1
    <3> QED  BY <3>1, <3>2 DEF AccountsInv, RowIds, IdsOf
  <2>7. CASE Tick  BY <2>7 DEF Tick, tables
  <2> QED  BY <2>1, <2>2, <2>3, <2>4, <2>5, <2>6, <2>7 DEF Next
<1> QED  BY <1>1, AccountsInvariant, PTL DEF Spec

-----------------------------------------------------------------------------
(***************************************************************************)
(* Logins.  What a login remembers of the accounts it found on arrival, on *)
(* top of AccountsInv: rows do not change and their ids are not given out  *)
(* again, so a row of before that is in the table has stayed what it was.  *)
(***************************************************************************)
OwnBefore(h) ==
  {a \in req[h].before : /\ a.email.address = req[h].in.email.address
                         /\ a.hash = req[h].in.password.head}

\* No rider's spelling turns a stored address into an ill-formed one.
WellFormedStays ==
  \A a \in accounts, e \in Spellings : e.address = a.email.address => e.wellFormed

\* before still tells the accounts apart from those that came since.
Remembers(h) ==
  /\ req[h].in.email \in Spellings
  /\ \A a \in req[h].before : a.id \in 1 .. ids
  /\ \A a, b \in req[h].before \union accounts : a.id = b.id => a = b

\* An account numbered id that was there on arrival is one the rider owns.
Opens(h, id) == id \in IdsOf(req[h].before) => id \in IdsOf(OwnBefore(h))

LoginOf(h) ==
  /\ req[h].op = "login" =>
       /\ req[h].at \in {"lookup", "issue"} => Remembers(h)
       /\ req[h].at = "issue" => Opens(h, req[h].sub)
  /\ Answered(h, "login", 200) => Opens(h, req[h].body[1].sub)
  /\ Answered(h, "login", 401) =>
       /\ \A a \in OwnBefore(h) : a.id \in 1 .. ids
       /\ OwnBefore(h) \intersect accounts = {}

LoginInv == WellFormedStays /\ \A h \in Handlers : LoginOf(h)

LEMMA LoginInit == Init => LoginInv
<1> SUFFICES ASSUME Init PROVE LoginInv
  OBVIOUS
<1>1. PICK d \in Databases : accounts = d.accounts
  BY DEF Init
<1>2. WellFormedStays
  BY <1>1, DatabaseAssumption DEF WellFormedStays
<1>3. ASSUME NEW h \in Handlers PROVE LoginOf(h)
  BY DEF Init, Idle, LoginOf, Answered
<1> QED
  BY <1>2, <1>3 DEF LoginInv

\* A login that takes no step remembers as well as before: accounts go, and
\* those that come are numbered above every one it knows.
LEMMA OthersRemember ==
  ASSUME AccountsInv, AccountsInv', ids <= ids', NEW g \in Handlers, LoginOf(g),
         req'[g] = req[g],
         \A a \in accounts' : a \in accounts \/ a.id > ids
  PROVE  LoginOf(g)'
<1> DEFINE before == req[g].before
<1>1. ids \in Nat /\ ids' \in Nat
  BY DEF AccountsInv, Counting
<1>2. /\ \A a \in accounts : a.id \in 1 .. ids
      /\ \A a \in accounts' : a.id \in 1 .. ids'
      /\ \A a, b \in accounts' : a.id = b.id => a = b
  BY DEF AccountsInv, RowIds
<1>3. OwnBefore(g)' = OwnBefore(g) /\ OwnBefore(g) \subseteq before
  BY DEF OwnBefore
<1>4. ASSUME \A a \in before : a.id \in 1 .. ids,
             \A a, b \in before \union accounts : a.id = b.id => a = b,
             NEW a \in before \union accounts', NEW b \in before \union accounts',
             a.id = b.id
      PROVE  a = b
  <2>1. CASE a \in accounts' /\ b \in accounts'  BY <1>2, <1>4, <2>1
  <2>2. CASE a \in before /\ b \in before  BY <1>4, <2>2
  <2>3. CASE a \in before /\ b \in accounts'  BY <1>1, <1>4, <2>3
  <2>4. CASE a \in accounts' /\ b \in before  BY <1>1, <1>4, <2>4
  <2> QED  BY <2>1, <2>2, <2>3, <2>4
<1>5. \A i \in 1 .. ids : i \in 1 .. ids'
  BY <1>1
<1>6. Remembers(g) => Remembers(g)'
  BY <1>4, <1>5 DEF Remembers
<1>7. Answered(g, "login", 401) =>
        /\ \A a \in OwnBefore(g)' : a.id \in 1 .. ids'
        /\ OwnBefore(g)' \intersect accounts' = {}
  BY <1>1, <1>3, <1>5 DEF LoginOf
<1>8. \A id : Opens(g, id)' <=> Opens(g, id)
  BY <1>3 DEF Opens
<1> HIDE DEF before
<1> QED
  BY <1>6, <1>7, <1>8 DEF LoginOf, Answered

\* The step of one handler, once its login and the addresses are accounted for.
LEMMA OneLoginMoves ==
  ASSUME AccountsInv, AccountsInv', LoginInv, ids <= ids', WellFormedStays',
         \A a \in accounts' : a \in accounts \/ a.id > ids,
         NEW h \in Handlers, LoginOf(h)',
         \A g \in Handlers \ {h} : req'[g] = req[g]
  PROVE  LoginInv'
<1>1. ASSUME NEW g \in Handlers PROVE LoginOf(g)'
  <2>1. CASE g = h  BY <2>1
  <2>2. CASE g # h  BY <2>2, OthersRemember DEF LoginInv
  <2> QED  BY <2>1, <2>2
<1> QED  BY <1>1 DEF LoginInv

\* The same of a step that leaves the accounts and the ids alone or grows the
\* ids for a row of another table.
LEMMA AccountsStay ==
  ASSUME AccountsInv, AccountsInv', LoginInv, accounts' = accounts, ids' = ids \/ NewId,
         NEW h \in Handlers, LoginOf(h)',
         \A g \in Handlers \ {h} : req'[g] = req[g]
  PROVE  LoginInv'
<1>1. ids <= ids'  BY DEF AccountsInv, Counting, NewId
<1>2. WellFormedStays'  BY DEF LoginInv, WellFormedStays
<1> QED  BY <1>1, <1>2, OneLoginMoves

\* Nothing is claimed of a handler at rest that did not answer a login, or
\* that answered it neither with a token nor with a 401.
LEMMA OtherAnswer ==
  ASSUME NEW h \in Handlers, req'[h].at = "answered",
         req'[h].op # "login" \/ req'[h].status \notin {200, 401}
  PROVE  LoginOf(h)'
BY DEF LoginOf, Answered

LEMMA LoginArrives ==
  ASSUME AccountsInv, AccountsInv', LoginInv, NEW h \in Handlers, Arrives(h)
  PROVE  LoginInv'
<1>1. ASSUME NEW op, NEW in, NEW sub, NEW step, NEW refusal,
             Arrive(h, op, in, sub, step, refusal),
             op = "login" => /\ step = "lookup" /\ refusal \in {0, 503}
                             /\ in.email \in Spellings
      PROVE  LoginInv'
  <2>1. ReqShape /\ UNCHANGED <<tables, tokens, clock, ids>>
    BY <1>1 DEF AccountsInv, Arrive
  <2>2. \A g \in Handlers \ {h} : req'[g] = req[g]
    BY <1>1, <2>1 DEF Arrive, ReqShape
  <2>3. LoginOf(h)'
    <3>1. CASE refusal = 0
      <4>1. /\ req'[h].at = step /\ req'[h].op = op /\ req'[h].in = in
            /\ req'[h].sub = sub /\ req'[h].before = AskedAbout(op) /\ req'[h].status = 0
        BY <1>1, <2>1, <3>1 DEF Arrive, Idle, ReqShape
      <4>2. op = "login" => Remembers(h)'
        <5>1. op = "login" => req'[h].before = accounts
          BY <4>1 DEF AskedAbout
        <5>2. /\ \A a \in accounts : a.id \in 1 .. ids
              /\ \A a, b \in accounts : a.id = b.id => a = b
          BY DEF AccountsInv, RowIds
        <5> QED  BY <1>1, <2>1, <4>1, <5>1, <5>2 DEF Remembers, tables
      <4> QED  BY <1>1, <4>1, <4>2 DEF LoginOf, Answered
    <3>2. CASE refusal # 0
      <4>1. req'[h].at = "answered" /\ req'[h].op = op /\ req'[h].status = refusal
        BY <1>1, <2>1, <3>2 DEF Arrive, Idle, ReqShape
      <4> QED  BY <1>1, <4>1, OtherAnswer
    <3> QED  BY <3>1, <3>2
  <2> QED  BY <2>1, <2>2, <2>3, AccountsStay DEF tables
<1>2. CASE Login(h)
  <2>1. PICK email \in Spellings, p \in Passwords :
          Arrive(h, "login", [email |-> email, password |-> p], Nobody, "lookup",
                 IF signer THEN 0 ELSE 503)
    BY <1>2 DEF Login
  <2> DEFINE in == [email |-> email, password |-> p]
             refusal == IF signer THEN 0 ELSE 503
  <2>2. in.email \in Spellings /\ refusal \in {0, 503}  OBVIOUS
  <2>3. Arrive(h, "login", in, Nobody, "lookup", refusal)  BY <2>1
  <2> HIDE DEF in, refusal
  <2> QED  BY <1>1, <2>2, <2>3
<1>3. CASE ~Login(h)
  <2>1. PICK op, in, sub, step, refusal :
          Arrive(h, op, in, sub, step, refusal) /\ op # "login"
    <3>1. CASE Register(h)  BY <3>1 DEF Register
    <3>2. CASE Me(h)  BY <3>2 DEF Me, requireAuth
    <3>3. CASE SaveRoute(h)  BY <3>3 DEF SaveRoute, requireAuth
    <3>4. CASE ListRoutes(h)  BY <3>4 DEF ListRoutes, requireAuth
    <3>5. CASE GetRoute(h)  BY <3>5 DEF GetRoute, requireAuth
    <3>6. CASE DeleteRoute(h)  BY <3>6 DEF DeleteRoute, requireAuth
    <3>7. CASE ReportHazard(h)  BY <3>7 DEF ReportHazard
    <3> QED  BY <1>3, <3>1, <3>2, <3>3, <3>4, <3>5, <3>6, <3>7 DEF Arrives
  <2> QED  BY <1>1, <2>1
<1> QED  BY <1>2, <1>3

\* A step that ends a handler without touching accounts, other than the answer
\* to a login.
LEMMA Ends ==
  ASSUME AccountsInv, AccountsInv', LoginInv, accounts' = accounts, ids' = ids \/ NewId,
         NEW h \in Handlers, NEW status, NEW body,
         \/ Refuse(h, status) /\ (status \notin {200, 401} \/ req[h].op # "login")
         \/ Answer(h, status, body) /\ req[h].op # "login"
  PROVE  LoginInv'
<1>1. ReqShape  BY DEF AccountsInv
<1>2. /\ req'[h].at = "answered" /\ req'[h].op = req[h].op /\ req'[h].status = status
      /\ \A g \in Handlers \ {h} : req'[g] = req[g]
  BY <1>1, AnswerFacts, RefuseFacts
<1>3. LoginOf(h)'  BY <1>2, OtherAnswer
<1> QED  BY <1>2, <1>3, AccountsStay

LEMMA LoginAccount ==
  ASSUME AccountsInv, AccountsInv', LoginInv, NEW h \in Handlers, req[h].at = "insert",
         accounts' = accounts \union {NewAccount(req[h].in)}, NewId, LoginOf(h)',
         \A g \in Handlers \ {h} : req'[g] = req[g]
  PROVE  LoginInv'
<1> DEFINE new == NewAccount(req[h].in)
<1>1. /\ new.id = ids + 1
      /\ new.email.address = req[h].in.email.address
  BY NewAccountFacts
<1>2. req[h].in.email \in Spellings /\ ValidEmail(NormaliseEmail(req[h].in.email))
  BY DEF AccountsInv, HandlerInv
<1>3. req[h].in.email.wellFormed
  BY <1>2, SpellingAssumption DEF ValidEmail, NormaliseEmail
<1> HIDE DEF new
<1>4. accounts' = accounts \union {new}  BY DEF new
<1>5. WellFormedStays'
  BY <1>1, <1>2, <1>3, <1>4, SpellingAssumption DEF LoginInv, WellFormedStays
<1>6. ids <= ids' /\ \A a \in accounts' : a \in accounts \/ a.id > ids
  BY <1>1, <1>4, NewAbove
<1> QED  BY <1>5, <1>6, OneLoginMoves

LEMMA LoginLookup ==
  ASSUME AccountsInv, AccountsInv', LoginInv, NEW h \in Handlers, Lookup(h)
  PROVE  LoginInv'
<1> DEFINE in == req[h].in
           admitted == {a \in Holders(NormaliseEmail(in.email)) :
                          CheckPassword(a.hash, in.password)}
<1>1. req[h].at = "lookup" /\ req[h].op = "login" /\ req[h].status = 0
  BY DEF Lookup, AccountsInv, HandlerInv
<1>2. Remembers(h)  BY <1>1 DEF LoginInv, LoginOf
<1>3. ReqShape /\ UNCHANGED <<tables, tokens, clock, ids>>
  BY DEF Lookup, AccountsInv
<1>4. ASSUME NEW a \in accounts
      PROVE  a \in admitted <=> /\ a.email.address = in.email.address
                                /\ a.hash = in.password.head
  <2>1. a.email \in StoredEmails  BY DEF AccountsInv, EmailsStored
  <2>2. in.email \in [address : Addresses, upper : BOOLEAN, padded : BOOLEAN,
                      wellFormed : BOOLEAN]
    BY <1>2, SpellingAssumption DEF Remembers
  <2>3. a.email.address = in.email.address => in.email.wellFormed
    BY <1>2 DEF LoginInv, WellFormedStays, Remembers
  <2>4. Lower(a.email) = NormaliseEmail(in.email) <=> a.email.address = in.email.address
    BY <2>1, <2>2, <2>3 DEF Lower, NormaliseEmail, StoredEmails
  <2> QED  BY <2>4 DEF Holders, CheckPassword
<1>5. ASSUME Answer(h, 401, <<>>), admitted = {}  PROVE LoginInv'
  <2>1. /\ req'[h].at = "answered" /\ req'[h].op = "login" /\ req'[h].status = 401
        /\ req'[h].in = req[h].in /\ req'[h].before = req[h].before
        /\ \A g \in Handlers \ {h} : req'[g] = req[g]
    BY <1>1, <1>3, <1>5 DEF Answer, ReqShape, Fields
  <2>2. OwnBefore(h)' = OwnBefore(h) /\ OwnBefore(h) \subseteq req[h].before
    BY <2>1 DEF OwnBefore
  <2>3. OwnBefore(h) \intersect accounts = {}
    BY <1>4, <1>5 DEF OwnBefore
  <2>4. LoginOf(h)'
    BY <1>2, <1>3, <2>1, <2>2, <2>3 DEF LoginOf, Answered, Remembers, tables
  <2> QED  BY <1>3, <2>1, <2>4, AccountsStay DEF tables
<1>6. ASSUME NEW a \in admitted, MoveOn(h, "issue", a.id)  PROVE LoginInv'
  <2>1. /\ req'[h].at = "issue" /\ req'[h].op = "login" /\ req'[h].sub = a.id
        /\ req'[h].in = req[h].in /\ req'[h].before = req[h].before
        /\ req'[h].status = 0
        /\ \A g \in Handlers \ {h} : req'[g] = req[g]
    BY <1>1, <1>3, <1>6 DEF MoveOn, ReqShape, Fields
  <2>2. OwnBefore(h)' = OwnBefore(h)
    BY <2>1 DEF OwnBefore
  <2>3. a \in accounts  BY DEF Holders
  <2>4. a.email.address = in.email.address /\ a.hash = in.password.head
    BY <1>4, <2>3
  <2>5. a.id \in IdsOf(req[h].before) => a.id \in IdsOf(OwnBefore(h))
    <3>1. \A b \in req[h].before : a.id = b.id => a = b
      BY <1>2, <2>3 DEF Remembers
    <3> QED  BY <2>4, <3>1 DEF IdsOf, OwnBefore
  <2>6. Opens(h, req[h].sub)'
    BY <2>1, <2>2, <2>5 DEF Opens
  <2>7. Remembers(h)'
    BY <1>2, <1>3, <2>1 DEF Remembers, tables
  <2>8. LoginOf(h)'
    BY <2>1, <2>6, <2>7 DEF LoginOf, Answered
  <2> QED  BY <1>3, <2>1, <2>8, AccountsStay DEF tables
<1> QED  BY <1>5, <1>6 DEF Lookup

LEMMA LoginIssue ==
  ASSUME AccountsInv, AccountsInv', LoginInv, NEW h \in Handlers, IssueToken(h)
  PROVE  LoginInv'
<1> DEFINE t == [sub |-> req[h].sub, expires |-> clock + TokenTTL]
           status == IF req[h].op = "register" THEN 201 ELSE 200
<1>1. /\ req[h].at = "issue" /\ Answer(h, status, <<t>>) /\ ReqShape
      /\ accounts' = accounts /\ ids' = ids
  BY DEF IssueToken, AccountsInv, tables
<1>2. /\ req'[h].at = "answered" /\ req'[h].status = status /\ req'[h].body = <<t>>
      /\ req'[h].op = req[h].op /\ req'[h].in = req[h].in
      /\ req'[h].before = req[h].before
      /\ \A g \in Handlers \ {h} : req'[g] = req[g]
  BY <1>1 DEF Answer, ReqShape, Fields
<1>3. req[h].op = "login" => Opens(h, req[h].sub)
  BY <1>1 DEF LoginInv, LoginOf
<1>4. <<t>>[1].sub = req[h].sub  OBVIOUS
<1>5. req'[h].body[1].sub = req[h].sub  BY <1>2, <1>4
<1>6. status \in {200, 201}  OBVIOUS
<1> HIDE DEF t, status
<1>7. req[h].op = "login" => Opens(h, req[h].body[1].sub)'
  <2>1. OwnBefore(h)' = OwnBefore(h)  BY <1>2 DEF OwnBefore
  <2> QED  BY <1>2, <1>3, <1>5, <2>1 DEF Opens
<1>8. LoginOf(h)'  BY <1>2, <1>6, <1>7 DEF LoginOf, Answered
<1> QED  BY <1>1, <1>2, <1>8, AccountsStay

LEMMA LoginProceeds ==
  ASSUME AccountsInv, AccountsInv', LoginInv, NEW h \in Handlers, Proceeds(h)
  PROVE  LoginInv'
<1>1. CASE InsertAccount(h)
  <2> DEFINE new == NewAccount(req[h].in)
  <2>1. req[h].at = "insert" /\ req[h].op = "register"
    BY <1>1 DEF InsertAccount, AccountsInv, HandlerInv
  <2>2. CASE Refuse(h, 409) /\ UNCHANGED <<accounts, ids>>
    BY <2>1, <2>2, Ends
  <2>3. CASE accounts' = accounts \union {new} /\ NewId /\ MoveOn(h, "issue", new.id)
    <3>1. /\ req'[h].at = "issue" /\ req'[h].op = "register"
          /\ \A g \in Handlers \ {h} : req'[g] = req[g]
      BY <2>1, <2>3, MoveOnFacts DEF AccountsInv
    <3>2. LoginOf(h)'  BY <3>1 DEF LoginOf, Answered
    <3> QED  BY <2>1, <2>3, <3>1, <3>2, LoginAccount
  <2> QED  BY <1>1, <2>2, <2>3 DEF InsertAccount
<1>2. CASE ByID(h)
  <2>1. PICK body : Answer(h, 200, body) \/ Refuse(h, 401)
    BY <1>2 DEF ByID
  <2>2. req[h].op # "login"  BY <1>2 DEF ByID, AccountsInv, HandlerInv
  <2> QED  BY SMTT(30), <1>2, <2>1, <2>2, Ends DEF ByID, tables
<1>3. CASE Replan(h)
  <2>1. req[h].op = "save" /\ accounts' = accounts /\ ids' = ids
    BY <1>3 DEF Replan, AccountsInv, HandlerInv, tables
  <2>2. CASE MoveOn(h, "create", req[h].sub)
    <3>1. /\ req'[h].at = "create" /\ req'[h].op = "save"
          /\ \A g \in Handlers \ {h} : req'[g] = req[g]
      BY <2>1, <2>2, MoveOnFacts DEF AccountsInv
    <3>2. LoginOf(h)'  BY <3>1 DEF LoginOf, Answered
    <3> QED  BY <2>1, <3>1, <3>2, AccountsStay
  <2>3. CASE \E s \in {400, 422, 500, 503} : Refuse(h, s)
    BY <2>1, <2>3, Ends
  <2> QED  BY <1>3, <2>2, <2>3 DEF Replan
<1>4. CASE CreateRoute(h)
  <2>1. req[h].op = "save" /\ accounts' = accounts
    BY <1>4 DEF CreateRoute, AccountsInv, HandlerInv
  <2>2. PICK body : (NewId /\ Answer(h, 201, body)) \/ (ids' = ids /\ Refuse(h, 500))
    BY <1>4 DEF CreateRoute
  <2> QED  BY <2>1, <2>2, Ends
<1>5. CASE List(h)
  <2>1. PICK body : Answer(h, 200, body)  BY <1>5 DEF List
  <2>2. req[h].op # "login" /\ accounts' = accounts /\ ids' = ids
    BY <1>5 DEF List, AccountsInv, HandlerInv, tables
  <2> QED  BY <2>1, <2>2, Ends
<1>6. CASE Get(h)
  <2>1. PICK body : Answer(h, 200, body) \/ Answer(h, 404, body)
    BY <1>6 DEF Get
  <2>2. req[h].op # "login" /\ accounts' = accounts /\ ids' = ids
    BY <1>6 DEF Get, AccountsInv, HandlerInv, tables
  <2> QED  BY <2>1, <2>2, Ends
<1>7. CASE Delete(h)
  <2>1. accounts' = accounts /\ ids' = ids  BY <1>7 DEF Delete
  <2>2. PICK status \in {204, 404} : Answer(h, status, <<>>)
    BY <1>7 DEF Delete
  <2>3. req[h].op # "login"  BY <1>7 DEF Delete, AccountsInv, HandlerInv
  <2> QED  BY <2>1, <2>2, <2>3, Ends
<1>8. CASE CreateReport(h)
  <2>1. req[h].op = "report" /\ accounts' = accounts
    BY <1>8 DEF CreateReport, AccountsInv, HandlerInv
  <2>2. PICK body : (NewId /\ Answer(h, 201, body)) \/ (ids' = ids /\ Refuse(h, 500))
    BY <1>8 DEF CreateReport
  <2> QED  BY <2>1, <2>2, Ends
<1> QED
  BY <1>1, <1>2, <1>3, <1>4, <1>5, <1>6, <1>7, <1>8, LoginLookup, LoginIssue DEF Proceeds

LEMMA LoginQueryFails ==
  ASSUME AccountsInv, AccountsInv', LoginInv, NEW h \in Handlers, QueryFails(h)
  PROVE  LoginInv'
<1>1. OnError(req[h].op) # 401 \/ req[h].op # "login"
  BY DEF OnError
<1>2. OnError(req[h].op) # 200
  BY DEF OnError
<1> QED  BY <1>1, <1>2, Ends DEF QueryFails, tables

LEMMA LoginAnswerLost ==
  ASSUME AccountsInv, AccountsInv', LoginInv, NEW h \in Handlers, AnswerLost(h)
  PROVE  LoginInv'
<1>1. /\ ids' = ids \/ NewId
      /\ Refuse(h, OnError(req[h].op))
      /\ OnError(req[h].op) # 401 \/ req[h].op # "login"
      /\ OnError(req[h].op) # 200
  BY DEF AnswerLost, OnError
<1>2. CASE accounts' = accounts
  BY <1>1, <1>2, Ends
<1>3. CASE /\ req[h].at = "insert" /\ NewId
           /\ accounts' = accounts \union {NewAccount(req[h].in)}
  <2>1. /\ req'[h].at = "answered" /\ req'[h].status = 500
        /\ \A g \in Handlers \ {h} : req'[g] = req[g]
    <3>1. OnError(req[h].op) = 500
      BY <1>3 DEF OnError, AccountsInv, HandlerInv
    <3> QED  BY <1>1, <3>1, RefuseFacts DEF AccountsInv
  <2>2. LoginOf(h)'  BY <2>1, OtherAnswer
  <2> QED  BY <1>3, <2>1, <2>2, LoginAccount
<1> QED  BY <1>2, <1>3 DEF AnswerLost

LEMMA LoginNext ==
  ASSUME AccountsInv, AccountsInv', LoginInv, [Next]_vars
  PROVE  LoginInv'
<1>1. ASSUME NEW h \in Handlers, Arrives(h) PROVE LoginInv'  BY <1>1, LoginArrives
<1>2. ASSUME NEW h \in Handlers, Proceeds(h) PROVE LoginInv'  BY <1>2, LoginProceeds
<1>3. ASSUME NEW h \in Handlers, QueryFails(h) PROVE LoginInv'  BY <1>3, LoginQueryFails
<1>4. ASSUME NEW h \in Handlers, AnswerLost(h) PROVE LoginInv'  BY <1>4, LoginAnswerLost
<1>5. ASSUME req' = req, ids' = ids, accounts' \subseteq accounts  PROVE LoginInv'
  <2>1. WellFormedStays'  BY <1>5 DEF LoginInv, WellFormedStays
  <2>2. ASSUME NEW h \in Handlers PROVE LoginOf(h)'
    BY <1>5, OthersRemember DEF LoginInv, AccountsInv, Counting
  <2> QED  BY <2>1, <2>2 DEF LoginInv
<1>6. CASE DeleteAccount  BY <1>5, <1>6 DEF DeleteAccount
<1>7. CASE Tick  BY <1>5, <1>7 DEF Tick, tables
<1>8. CASE UNCHANGED vars  BY <1>5, <1>8 DEF vars, tables
<1> QED  BY <1>1, <1>2, <1>3, <1>4, <1>6, <1>7, <1>8 DEF Next

(* Whoever has an account gets in with the first 72 bytes of its password, *)
(* however they spell the address (Login normalises it as Register did),   *)
(* and nobody else does, whatever registers or is deleted between the      *)
(* request, the query and the token: a 401 is never given to a rider whose *)
(* account stays, a token is for an account of that address and those 72   *)
(* bytes.                                                                  *)
THEOREM LoginsRight == Spec => []RightPasswordAdmitted
<1>1. Init => LoginInv  BY LoginInit
<1>2. LoginInv /\ AccountsInv /\ AccountsInv' /\ [Next]_vars => LoginInv'
  BY LoginNext
<1>3. LoginInv => RightPasswordAdmitted
  BY DEF LoginInv, LoginOf, RightPasswordAdmitted, Opens, OwnBefore
<1> QED  BY <1>1, <1>2, <1>3, AccountsInvariant, PTL DEF Spec

-----------------------------------------------------------------------------
(***************************************************************************)
(* Answers about routes.  What an answered handler holds, on top of        *)
(* AccountsInv; a request also remembers the routes there were on arrival. *)
(***************************************************************************)
RoutesBefore(h) == \A x \in req[h].before : x.id \in 1 .. ids

\* The routes that were the rider's on arrival and still are.
StillOwn(h) == {x \in req[h].before \intersect routes : x.owner = req[h].sub}

PageOf(h) ==
  /\ Descending(req[h].body)
  /\ \A x \in StillOwn(h) \ Range(req[h].body) :
       /\ Len(req[h].body) = Limit(req[h].in.limit)
       /\ \A i \in DOMAIN req[h].body : req[h].body[i].id > x.id

\* No route that was the rider's on arrival and still is, is the one named.
NotDenied(h) == \A x \in StillOwn(h) : x.id # req[h].in.id

RouteAnswer(h) ==
  /\ req[h].at = "list" => req[h].in.limit \in Limits
  /\ req[h].at \in {"list", "get", "delete"} => RoutesBefore(h)
  /\ (req[h].at = "answered" /\ req[h].op \in {"list", "get", "save"}) =>
       \A i \in DOMAIN req[h].body : req[h].body[i].owner = req[h].sub
  /\ Answered(h, "me", 200) => req[h].body[1].id = req[h].sub
  /\ Answered(h, "list", 200) => RoutesBefore(h) /\ PageOf(h)
  /\ \A op \in {"get", "delete"} :
       Answered(h, op, 404) => RoutesBefore(h) /\ NotDenied(h)
  /\ Answered(h, "delete", 204) =>
       /\ req[h].in.id \in 1 .. ids
       /\ req[h].in.id \notin IdsOf(routes)

AnswersInv == \A h \in Handlers : RouteAnswer(h)

\* Rows numbered 1 to n, each number once, are finitely many.
LEMMA NumberedFinite ==
  ASSUME NEW rows, NEW n \in Nat, \A r \in rows : r.id \in 1 .. n,
         \A r, s \in rows : r.id = s.id => r = s
  PROVE  IsFiniteSet(rows)
<1> DEFINE f == [r \in rows |-> r.id]
<1>1. IsFiniteSet(1 .. n)  BY FS_Interval
<1>2. f \in Injection(rows, 1 .. n)
  <2>1. f \in [rows -> 1 .. n]  OBVIOUS
  <2> QED  BY <2>1 DEF Injection, IsInjective
<1> QED  BY <1>1, <1>2, FS_Injection

\* Counting the newer rows numbers the rows from zero, newest first.
Newer(rows) == [r \in rows |-> Cardinality({s \in rows : s.id > r.id})]

LEMMA NewerNumbers ==
  ASSUME NEW rows, IsFiniteSet(rows), \A r \in rows : r.id \in Int,
         \A r, s \in rows : r.id = s.id => r = s
  PROVE  LET newer == Newer(rows)
         IN  /\ Cardinality(rows) \in Nat
             /\ \A r \in rows : newer[r] \in 0 .. Cardinality(rows) - 1
             /\ \A r, s \in rows : newer[r] < newer[s] => r.id > s.id
             /\ \A r, s \in rows : newer[r] = newer[s] => r = s
             /\ \A k \in 0 .. Cardinality(rows) - 1 : \E r \in rows : newer[r] = k
<1> DEFINE newer == Newer(rows)
           Above(r) == {s \in rows : s.id > r.id}
           K == Cardinality(rows)
<1>1. K \in Nat  BY FS_CardinalityType
<1>2. ASSUME NEW r \in rows
      PROVE  /\ IsFiniteSet(Above(r)) /\ newer[r] = Cardinality(Above(r))
             /\ newer[r] \in 0 .. K - 1
  <2>1. Above(r) \subseteq rows \ {r}  OBVIOUS
  <2>2. IsFiniteSet(rows \ {r}) /\ Cardinality(rows \ {r}) = K - 1
    BY FS_RemoveElement
  <2>3. IsFiniteSet(Above(r)) /\ Cardinality(Above(r)) <= Cardinality(rows \ {r})
    BY <2>1, <2>2, FS_Subset
  <2>4. Cardinality(Above(r)) \in Nat  BY <2>3, FS_CardinalityType
  <2>5. newer[r] = Cardinality(Above(r))  BY DEF Newer
  <2> HIDE DEF Above, newer, K
  <2> QED  BY <1>1, <2>2, <2>3, <2>4, <2>5
<1> HIDE DEF newer
<1>3. \A r \in rows : newer[r] \in 0 .. K - 1 /\ newer[r] \in Nat
  <2> TAKE r \in rows
  <2>1. newer[r] \in 0 .. K - 1  BY <1>2
  <2> QED  BY <1>1, <2>1
<1>4. ASSUME NEW r \in rows, NEW s \in rows, r.id > s.id
      PROVE  newer[r] < newer[s]
  <2>1. Above(r) \subseteq Above(s)  BY <1>4
  <2>2. r \in Above(s) /\ r \notin Above(r)  BY <1>4
  <2>3. Cardinality(Above(r)) <= Cardinality(Above(s))
        /\ (Cardinality(Above(s)) = Cardinality(Above(r)) => Above(s) = Above(r))
    BY <1>2, <2>1, FS_Subset
  <2>4. newer[r] # newer[s] /\ newer[r] <= newer[s]  BY <1>2, <2>2, <2>3
  <2> QED  BY <1>3, <2>4
<1>5. \A r, s \in rows : newer[r] < newer[s] => r.id > s.id
  <2> SUFFICES ASSUME NEW r \in rows, NEW s \in rows, newer[r] < newer[s]
               PROVE  r.id > s.id
    OBVIOUS
  <2>1. r # s /\ ~(s.id > r.id)  BY <1>3, <1>4
  <2> QED  BY <2>1
<1>6. \A r, s \in rows : newer[r] = newer[s] => r = s
  <2> TAKE r, s \in rows
  <2>1. newer[r] \in Nat /\ newer[s] \in Nat  BY <1>3
  <2>2. r.id > s.id => newer[r] < newer[s]  BY <1>4
  <2>3. s.id > r.id => newer[s] < newer[r]  BY <1>4
  <2> QED  BY <2>1, <2>2, <2>3
<1>7. \A k \in 0 .. K - 1 : \E r \in rows : newer[r] = k
  <2> DEFINE places == 0 .. K - 1
  <2>1. IsFiniteSet(places) /\ Cardinality(places) = K
    <3>1. 0 \in Int /\ K - 1 \in Int  BY <1>1
    <3>2. IsFiniteSet(0 .. K - 1)
          /\ Cardinality(0 .. K - 1) = IF 0 > K - 1 THEN 0 ELSE (K - 1) - 0 + 1
      BY <3>1, FS_Interval
    <3> HIDE DEF K
    <3> QED  BY <1>1, <3>2
  <2>2. newer \in [rows -> places]
    <3>1. newer = [r \in rows |-> newer[r]]  BY DEF newer, Newer
    <3> HIDE DEF K
    <3> QED  BY <1>3, <3>1
  <2>3. newer \in Injection(rows, places)
    BY <1>6, <2>2 DEF Injection, IsInjective
  <2>4. newer \in Surjection(rows, places)
    BY <2>1, <2>3, FS_Injection
  <2> QED  BY <2>4 DEF Surjection
<1>8. newer = Newer(rows)  BY DEF newer
<1> HIDE DEF K
<1>9. K = Cardinality(rows)  BY DEF K
<1> QED  BY <1>1, <1>3, <1>5, <1>6, <1>7, <1>8, <1>9

\* The smaller of two numbers.
LEMMA MinOfTwo ==
  ASSUME NEW a \in Int, NEW b \in Int
  PROVE  Min({a, b}) = IF a <= b THEN a ELSE b
BY DEF Min

(* LIMIT and ORDER BY: a page lists rows, newest first, and leaves one out *)
(* only when it is full of newer ones.                                     *)
LEMMA NewestPage ==
  ASSUME NEW rows, IsFiniteSet(rows), \A r \in rows : r.id \in Int,
         \A r, s \in rows : r.id = s.id => r = s, NEW n \in Nat
  PROVE  LET page == Newest(rows, n)
         IN  /\ \A i \in DOMAIN page : page[i] \in rows
             /\ Descending(page)
             /\ \A x \in rows \ Range(page) :
                  /\ Len(page) = n
                  /\ \A i \in DOMAIN page : page[i].id > x.id
<1> DEFINE newer == Newer(rows)
           K == Cardinality(rows)
           page == Newest(rows, n)
           m == Min({n, K})
<1>1. /\ K \in Nat
      /\ \A r \in rows : newer[r] \in 0 .. K - 1
      /\ \A r, s \in rows : newer[r] < newer[s] => r.id > s.id
      /\ \A r, s \in rows : newer[r] = newer[s] => r = s
      /\ \A k \in 0 .. K - 1 : \E r \in rows : newer[r] = k
  BY NewerNumbers
<1>2. m \in Nat /\ m <= n /\ m <= K /\ (m = n \/ m = K)
  BY <1>1, MinOfTwo
<1>3. page = [i \in 1 .. m |-> CHOOSE r \in rows : newer[r] = i - 1]
  BY DEF Newest, Newer
<1> HIDE DEF newer, K, page, m
<1>4. ASSUME NEW i \in 1 .. m
      PROVE  page[i] \in rows /\ newer[page[i]] = i - 1
  <2>1. i - 1 \in 0 .. K - 1  BY <1>1, <1>2
  <2>2. \E r \in rows : newer[r] = i - 1  BY <1>1, <2>1
  <2> QED  BY <1>3, <2>2
<1>5. DOMAIN page = 1 .. m /\ Len(page) = m
  BY <1>2, <1>3
<1>6. Descending(page)
  <2> SUFFICES ASSUME NEW i \in 1 .. m, NEW j \in 1 .. m, i < j
               PROVE  page[i].id > page[j].id
    BY <1>5 DEF Descending
  <2>1. newer[page[i]] < newer[page[j]]  BY <1>2, <1>4
  <2> QED  BY <1>1, <1>4, <2>1
<1>7. ASSUME NEW x \in rows \ Range(page)
      PROVE  Len(page) = n /\ \A i \in DOMAIN page : page[i].id > x.id
  <2>1. newer[x] \in 0 .. K - 1  BY <1>1
  <2>2. newer[x] >= m
    <3> SUFFICES ASSUME newer[x] < m PROVE FALSE
      BY <1>2, <2>1
    <3>1. newer[x] + 1 \in 1 .. m  BY <1>2, <2>1
    <3>2. page[newer[x] + 1] = x  BY <1>1, <1>4, <2>1, <3>1
    <3> QED  BY <1>5, <3>1, <3>2 DEF Range
  <2>3. m = n  BY <1>1, <1>2, <2>1, <2>2
  <2>4. ASSUME NEW i \in DOMAIN page PROVE page[i].id > x.id
    <3>1. newer[page[i]] < newer[x]  BY <1>2, <1>4, <1>5, <2>1, <2>2, <2>4
    <3> QED  BY <1>1, <1>4, <1>5, <3>1
  <2> QED  BY <1>5, <2>3, <2>4
<1> QED  BY <1>4, <1>5, <1>6, <1>7 DEF page

-----------------------------------------------------------------------------
LEMMA AnswersInit == Init => AnswersInv
BY DEF Init, Idle, AnswersInv, RouteAnswer, Answered

\* An answer stays right: routes go, and those that come are numbered above
\* every one it was about.
LEMMA OthersStayRight ==
  ASSUME Counting, Counting', ids <= ids', NEW g \in Handlers, RouteAnswer(g),
         req'[g] = req[g],
         \A r \in routes' : r \in routes \/ r.id > ids
  PROVE  RouteAnswer(g)'
<1>1. ids \in Nat /\ \A i \in 1 .. ids : i \in 1 .. ids' /\ ~(i > ids)
  BY DEF Counting
<1>2. RoutesBefore(g) => RoutesBefore(g)'
  BY <1>1 DEF RoutesBefore
<1>3. RoutesBefore(g) => StillOwn(g)' \subseteq StillOwn(g)
  BY <1>1 DEF RoutesBefore, StillOwn
<1>4. RoutesBefore(g) /\ PageOf(g) => PageOf(g)'
  BY <1>3 DEF PageOf, Descending
<1>5. ASSUME NEW id \in 1 .. ids, id \notin IdsOf(routes)
      PROVE  id \notin IdsOf(routes')
  BY <1>1, <1>5 DEF IdsOf
<1>6. Answered(g, "delete", 204) =>
        req[g].in.id \in 1 .. ids' /\ req[g].in.id \notin IdsOf(routes')
  BY <1>1, <1>5 DEF RouteAnswer
<1>7. Answered(g, "list", 200) => RoutesBefore(g)' /\ PageOf(g)'
  BY <1>2, <1>4 DEF RouteAnswer
<1>8. \A op \in {"get", "delete"} :
        Answered(g, op, 404) => RoutesBefore(g)' /\ NotDenied(g)'
  <2>1. RoutesBefore(g) /\ NotDenied(g) => NotDenied(g)'
    BY <1>3 DEF NotDenied
  <2> QED  BY <1>2, <2>1 DEF RouteAnswer
<1> QED
  BY <1>2, <1>6, <1>7, <1>8 DEF RouteAnswer, Answered

\* The step of one handler, once its own answer is accounted for.
LEMMA OneAnswers ==
  ASSUME AccountsInv, AccountsInv', AnswersInv, ids <= ids',
         \A r \in routes' : r \in routes \/ r.id > ids,
         NEW h \in Handlers, RouteAnswer(h)',
         \A g \in Handlers \ {h} : req'[g] = req[g]
  PROVE  AnswersInv'
<1>1. ASSUME NEW g \in Handlers PROVE RouteAnswer(g)'
  <2>1. CASE g = h  BY <2>1
  <2>2. CASE g # h
    BY <2>2, OthersStayRight DEF AnswersInv, AccountsInv
  <2> QED  BY <2>1, <2>2
<1> QED  BY <1>1 DEF AnswersInv

\* What a step does to the routes and the ids, whoever takes it.
LEMMA RoutesNumbered ==
  ASSUME AccountsInv, ids' = ids \/ NewId,
         \/ routes' \subseteq routes
         \/ \E r : r.id = ids + 1 /\ routes' = routes \union {r}
  PROVE  ids <= ids' /\ \A r \in routes' : r \in routes \/ r.id > ids
BY DEF AccountsInv, Counting, NewId

\* A handler that ends with an error says nothing about routes.
LEMMA RefusalSilent ==
  ASSUME AccountsInv, AccountsInv', AnswersInv, ids' = ids \/ NewId,
         \/ routes' \subseteq routes
         \/ \E r : r.id = ids + 1 /\ routes' = routes \union {r},
         NEW h \in Handlers, NEW status, status \notin {200, 204}, Refuse(h, status)
  PROVE  AnswersInv'
<1>1. /\ req'[h].at = "answered" /\ req'[h].status = status /\ req'[h].body = <<>>
      /\ req'[h].before = {}
      /\ \A g \in Handlers \ {h} : req'[g] = req[g]
  BY DEF Refuse, Idle, AccountsInv, ReqShape, Fields
<1>2. RoutesBefore(h)' /\ NotDenied(h)'
  BY <1>1 DEF RoutesBefore, NotDenied, StillOwn
<1>3. RouteAnswer(h)'  BY <1>1, <1>2 DEF RouteAnswer, Answered
<1> QED  BY <1>1, <1>3, RoutesNumbered, OneAnswers

\* Between two steps there is no answer.
LEMMA OnTheWay ==
  ASSUME AccountsInv, AccountsInv', AnswersInv, routes' = routes, ids' = ids \/ NewId,
         NEW h \in Handlers, NEW step \in {"issue", "create"}, NEW sub,
         MoveOn(h, step, sub)
  PROVE  AnswersInv'
<1>1. req'[h].at = step /\ \A g \in Handlers \ {h} : req'[g] = req[g]
  BY MoveOnFacts DEF AccountsInv
<1>2. RouteAnswer(h)'  BY <1>1 DEF RouteAnswer, Answered
<1> QED  BY <1>1, <1>2, RoutesNumbered, OneAnswers

\* An answer, once it is known to be right.
LEMMA AnswerGiven ==
  ASSUME AccountsInv, AccountsInv', AnswersInv, ids' = ids \/ NewId,
         \/ routes' \subseteq routes
         \/ \E r : r.id = ids + 1 /\ routes' = routes \union {r},
         NEW h \in Handlers, NEW status, NEW body, Answer(h, status, body),
         req[h].op \in {"list", "get", "save"} =>
           \A i \in DOMAIN body : body[i].owner = req[h].sub,
         req[h].op = "me" /\ status = 200 => body[1].id = req[h].sub,
         req[h].op = "list" /\ status = 200 =>
           /\ RoutesBefore(h)'
           /\ Descending(body)
           /\ \A x \in {r \in req[h].before \intersect routes' : r.owner = req[h].sub}
                         \ Range(body) :
                /\ Len(body) = Limit(req[h].in.limit)
                /\ \A i \in DOMAIN body : body[i].id > x.id,
         req[h].op \in {"get", "delete"} /\ status = 404 =>
           /\ RoutesBefore(h)'
           /\ \A x \in {r \in req[h].before \intersect routes' : r.owner = req[h].sub} :
                x.id # req[h].in.id,
         req[h].op = "delete" /\ status = 204 =>
           req[h].in.id \in 1 .. ids' /\ req[h].in.id \notin IdsOf(routes')
  PROVE  AnswersInv'
<1>1. /\ req'[h].at = "answered" /\ req'[h].status = status /\ req'[h].body = body
      /\ req'[h].op = req[h].op /\ req'[h].in = req[h].in /\ req'[h].sub = req[h].sub
      /\ req'[h].before = req[h].before
      /\ \A g \in Handlers \ {h} : req'[g] = req[g]
  BY DEF Answer, AccountsInv, ReqShape, Fields
<1>2. StillOwn(h)' = {r \in req[h].before \intersect routes' : r.owner = req[h].sub}
  BY <1>1 DEF StillOwn
<1>3. req[h].op = "list" /\ status = 200 => PageOf(h)'
  BY <1>1, <1>2 DEF PageOf
<1>5. req[h].op \in {"get", "delete"} /\ status = 404 => NotDenied(h)'
  BY <1>1, <1>2 DEF NotDenied
<1>4. RouteAnswer(h)'  BY <1>1, <1>3, <1>5 DEF RouteAnswer, Answered
<1> QED  BY <1>1, <1>4, RoutesNumbered, OneAnswers

\* A route is gone once its removal was answered.
LEMMA RemovalGiven ==
  ASSUME AccountsInv, AccountsInv', AnswersInv, ids' = ids, routes' \subseteq routes,
         NEW h \in Handlers, NEW status, NEW body, Answer(h, status, body),
         req[h].op = "delete", status = 204,
         req[h].in.id \in 1 .. ids', req[h].in.id \notin IdsOf(routes')
  PROVE  AnswersInv'
<1>1. /\ req[h].op \notin {"list", "get", "save"} /\ req[h].op # "me"
      /\ status # 404
  OBVIOUS
<1> QED  BY <1>1, AnswerGiven

LEMMA AnswersArrive ==
  ASSUME AccountsInv, AccountsInv', AnswersInv, NEW h \in Handlers, Arrives(h)
  PROVE  AnswersInv'
<1>1. ASSUME NEW op, NEW in, NEW sub, NEW step, NEW refusal,
             Arrive(h, op, in, sub, step, refusal), refusal \notin {200, 204},
             step # "answered", step = "list" => in.limit \in Limits,
             step \in {"list", "get", "delete"} => op = step
      PROVE  AnswersInv'
  <2>1. ReqShape /\ UNCHANGED <<tables, tokens, clock, ids>>
    BY <1>1 DEF AccountsInv, Arrive
  <2>2. \A g \in Handlers \ {h} : req'[g] = req[g]
    BY <1>1, <2>1 DEF Arrive, ReqShape
  <2>3. RouteAnswer(h)'
    <3>1. CASE refusal = 0
      <4>1. /\ req'[h].at = step /\ req'[h].in = in /\ req'[h].before = AskedAbout(op)
        BY <1>1, <2>1, <3>1 DEF Arrive, Idle, ReqShape
      <4>2. step \in {"list", "get", "delete"} => RoutesBefore(h)'
        BY <1>1, <2>1, <4>1 DEF RoutesBefore, AskedAbout, AccountsInv, RowIds
      <4> QED  BY <1>1, <4>1, <4>2 DEF RouteAnswer, Answered
    <3>2. CASE refusal # 0
      <4>1. /\ req'[h].at = "answered" /\ req'[h].status = refusal /\ req'[h].body = <<>>
            /\ req'[h].before = {}
        BY <1>1, <2>1, <3>2 DEF Arrive, Idle, ReqShape
      <4>2. RoutesBefore(h)' /\ NotDenied(h)'
        BY <4>1 DEF RoutesBefore, NotDenied, StillOwn
      <4> QED  BY <1>1, <4>1, <4>2 DEF RouteAnswer, Answered
    <3> QED  BY <3>1, <3>2
  <2> QED  BY <2>1, <2>2, <2>3, RoutesNumbered, OneAnswers DEF tables
<1>2. ASSUME NEW op, NEW in, NEW t, NEW step, requireAuth(h, op, in, t, step),
             step # "answered", step = "list" => in.limit \in Limits,
             step \in {"list", "get", "delete"} => op = step
      PROVE  AnswersInv'
  <2>1. PICK sub, refusal : /\ Arrive(h, op, in, sub, step, refusal)
                            /\ refusal \notin {200, 204}
    BY <1>2 DEF requireAuth
  <2> QED  BY <1>1, <1>2, <2>1
<1>3. CASE Register(h)
  <2>1. PICK in, refusal : /\ Arrive(h, "register", in, Nobody, "insert", refusal)
                           /\ refusal \notin {200, 204}
    BY <1>3 DEF Register, RefuseRegister
  <2> QED  BY <1>1, <2>1
<1>4. CASE Login(h)
  <2>1. PICK in, refusal : /\ Arrive(h, "login", in, Nobody, "lookup", refusal)
                           /\ refusal \notin {200, 204}
    BY <1>4 DEF Login
  <2> QED  BY <1>1, <2>1
<1>5. CASE Me(h)  BY <1>2, <1>5 DEF Me
<1>6. CASE SaveRoute(h)  BY <1>2, <1>6 DEF SaveRoute
<1>7. CASE ListRoutes(h)
  <2>1. PICK t \in Presented, l \in Limits : requireAuth(h, "list", [limit |-> l], t, "list")
    BY <1>7 DEF ListRoutes
  <2>2. [limit |-> l].limit \in Limits  OBVIOUS
  <2> QED  BY <1>2, <2>1, <2>2
<1>8. CASE GetRoute(h)
  <2>1. PICK in, t : requireAuth(h, "get", in, t, "get")  BY <1>8 DEF GetRoute
  <2> QED  BY <1>2, <2>1
<1>9. CASE DeleteRoute(h)
  <2>1. PICK in, t : requireAuth(h, "delete", in, t, "delete")  BY <1>9 DEF DeleteRoute
  <2> QED  BY <1>2, <2>1
<1>10. CASE ReportHazard(h)  BY <1>1, <1>10 DEF ReportHazard
<1> QED  BY <1>3, <1>4, <1>5, <1>6, <1>7, <1>8, <1>9, <1>10 DEF Arrives

\* The routes a rider may see are finitely many and told apart by their ids.
LEMMA VisibleRows ==
  ASSUME AccountsInv, NEW sub
  PROVE  /\ IsFiniteSet(Visible(sub))
         /\ \A r \in Visible(sub) : r.id \in Int /\ r.owner = sub /\ r \in routes
         /\ \A r, s \in Visible(sub) : r.id = s.id => r = s
<1>1. /\ ids \in Nat
      /\ \A r \in Visible(sub) : r.id \in 1 .. ids /\ r.owner = sub /\ r \in routes
      /\ \A r, s \in Visible(sub) : r.id = s.id => r = s
  BY DEF AccountsInv, RowIds, Counting, Visible
<1>2. IsFiniteSet(Visible(sub))  BY <1>1, NumberedFinite
<1> QED  BY <1>1, <1>2

LEMMA AnswersList ==
  ASSUME AccountsInv, AccountsInv', AnswersInv, NEW h \in Handlers, List(h)
  PROVE  AnswersInv'
<1> DEFINE rows == Visible(req[h].sub)
           n == Limit(req[h].in.limit)
           page == Newest(rows, n)
<1>1. /\ req[h].at = "list" /\ Answer(h, 200, page)
      /\ routes' = routes /\ ids' = ids
  BY DEF List, tables
<1>2. req[h].op = "list" /\ req[h].in.limit \in Limits /\ RoutesBefore(h)
  BY <1>1 DEF AccountsInv, HandlerInv, AnswersInv, RouteAnswer
<1>3. n \in Nat
  <2>1. \A l \in Int : Limit(l) \in Nat  BY DEF Limit
  <2>2. req[h].in.limit \in Int  BY <1>2, BoundsAssumption
  <2> QED  BY <2>1, <2>2
<1>4. /\ IsFiniteSet(rows)
      /\ \A r \in rows : r.id \in Int /\ r.owner = req[h].sub /\ r \in routes
      /\ \A r, s \in rows : r.id = s.id => r = s
  BY VisibleRows
<1> HIDE DEF rows, n
<1>5. /\ \A i \in DOMAIN page : page[i] \in rows
      /\ Descending(page)
      /\ \A x \in rows \ Range(page) :
           Len(page) = n /\ \A i \in DOMAIN page : page[i].id > x.id
  BY <1>3, <1>4, NewestPage
<1>6. {r \in req[h].before \intersect routes' : r.owner = req[h].sub} \subseteq rows
  BY <1>1 DEF rows, Visible
<1>7. RoutesBefore(h)'
  <2>1. req'[h].before = req[h].before
    BY <1>1 DEF Answer, AccountsInv, ReqShape, Fields
  <2> QED  BY <1>1, <1>2, <2>1 DEF RoutesBefore
<1> HIDE DEF page
<1>8. \A i \in DOMAIN page : page[i].owner = req[h].sub  BY <1>4, <1>5
<1>9. \A x \in {r \in req[h].before \intersect routes' : r.owner = req[h].sub}
                 \ Range(page) :
         /\ Len(page) = Limit(req[h].in.limit)
         /\ \A i \in DOMAIN page : page[i].id > x.id
  BY <1>5, <1>6 DEF n
<1> QED  BY <1>1, <1>2, <1>5, <1>7, <1>8, <1>9, AnswerGiven

\* What a request remembers outlives its answer.
LEMMA BeforeKept ==
  ASSUME AccountsInv, AnswersInv, NEW h \in Handlers, ids' = ids,
         req[h].at \in {"list", "get", "delete"},
         NEW status, NEW body, Answer(h, status, body)
  PROVE  RoutesBefore(h)'
<1>1. req'[h].before = req[h].before
  BY DEF Answer, AccountsInv, ReqShape, Fields
<1> QED  BY <1>1 DEF AnswersInv, RouteAnswer, RoutesBefore

LEMMA AnswersProceed ==
  ASSUME AccountsInv, AccountsInv', AnswersInv, NEW h \in Handlers, Proceeds(h)
  PROVE  AnswersInv'
<1>0. /\ req[h].at = "insert" => req[h].op = "register"
      /\ req[h].at = "lookup" => req[h].op = "login"
      /\ req[h].at = "issue" => req[h].op \in {"register", "login"}
      /\ req[h].at \in {"plan", "create"} => req[h].op = "save"
      /\ req[h].at = "report" => req[h].op = "report"
      /\ req[h].at \in {"me", "get", "delete"} => req[h].op = req[h].at
  BY DEF AccountsInv, HandlerInv
<1>1. CASE InsertAccount(h)
  <2>1. routes' = routes  BY <1>1 DEF InsertAccount
  <2>2. PICK id : \/ Refuse(h, 409) /\ ids' = ids
                  \/ NewId /\ MoveOn(h, "issue", id)
    BY <1>1 DEF InsertAccount
  <2> QED  BY <2>1, <2>2, RefusalSilent, OnTheWay
<1>2. CASE Lookup(h)
  <2>1. routes' = routes /\ ids' = ids /\ req[h].op = "login"
    BY <1>0, <1>2 DEF Lookup, tables
  <2>2. PICK id : Answer(h, 401, <<>>) \/ MoveOn(h, "issue", id)
    BY <1>2 DEF Lookup
  <2>3. CASE Answer(h, 401, <<>>)  BY <2>1, <2>3, AnswerGiven
  <2> QED  BY <2>1, <2>2, <2>3, OnTheWay
<1>3. CASE IssueToken(h)
  <2>1. routes' = routes /\ ids' = ids /\ req[h].op \in {"register", "login"}
    BY <1>0, <1>3 DEF IssueToken, tables
  <2>2. PICK status, body : Answer(h, status, body)  BY <1>3 DEF IssueToken
  <2> QED  BY <2>1, <2>2, AnswerGiven
<1>4. CASE ByID(h)
  <2>1. routes' = routes /\ ids' = ids /\ req[h].op = "me"
    BY <1>0, <1>4 DEF ByID, tables
  <2>2. CASE Refuse(h, 401)  BY <2>1, <2>2, RefusalSilent
  <2>3. ASSUME NEW a, a.id = req[h].sub, Answer(h, 200, <<a>>) PROVE AnswersInv'
    <3> DEFINE body == <<a>>
    <3>1. body[1].id = req[h].sub  BY <2>3
    <3>2. Answer(h, 200, body)  BY <2>3
    <3> HIDE DEF body
    <3> QED  BY <2>1, <3>1, <3>2, AnswerGiven
  <2> QED  BY <1>4, <2>2, <2>3 DEF ByID
<1>5. CASE Replan(h)
  <2>1. routes' = routes /\ ids' = ids  BY <1>5 DEF Replan, tables
  <2>2. CASE MoveOn(h, "create", req[h].sub)  BY <2>1, <2>2, OnTheWay
  <2>3. ASSUME NEW s \in {400, 422, 500, 503}, Refuse(h, s) PROVE AnswersInv'
    BY <2>1, <2>3, RefusalSilent
  <2> QED  BY <1>5, <2>2, <2>3 DEF Replan
<1>6. CASE CreateRoute(h)
  <2> DEFINE r == [id |-> ids + 1, owner |-> req[h].sub]
             body == <<r>>
  <2>1. req[h].op = "save"  BY <1>0, <1>6 DEF CreateRoute
  <2>2. CASE Refuse(h, 500) /\ UNCHANGED <<routes, ids>>
    BY <2>2, RefusalSilent
  <2>3. CASE routes' = routes \union {r} /\ NewId /\ Answer(h, 201, body)
    <3>1. r.id = ids + 1 /\ DOMAIN body = {1} /\ body[1].owner = req[h].sub
      OBVIOUS
    <3> HIDE DEF r, body
    <3> QED  BY <2>1, <2>3, <3>1, AnswerGiven
  <2> QED  BY <1>6, <2>2, <2>3 DEF CreateRoute
<1>7. CASE List(h)  BY <1>7, AnswersList
<1>8. CASE Get(h)
  <2>1. routes' = routes /\ ids' = ids /\ req[h].op = "get"
    BY <1>0, <1>8 DEF Get, tables
  <2>2. CASE /\ {r \in Visible(req[h].sub) : r.id = req[h].in.id} = {}
             /\ Answer(h, 404, <<>>)
    <3>1. RoutesBefore(h)'
      BY <1>8, <2>1, <2>2, BeforeKept DEF Get
    <3>2. \A x \in {r \in req[h].before \intersect routes' : r.owner = req[h].sub} :
            x.id # req[h].in.id
      BY <2>1, <2>2 DEF Visible
    <3> QED  BY <2>1, <2>2, <3>1, <3>2, AnswerGiven
  <2>3. ASSUME NEW r \in Visible(req[h].sub), Answer(h, 200, <<r>>) PROVE AnswersInv'
    <3> DEFINE body == <<r>>
    <3>1. DOMAIN body = {1} /\ body[1].owner = req[h].sub  BY <2>3 DEF Visible
    <3>2. Answer(h, 200, body)  BY <2>3
    <3> HIDE DEF body
    <3> QED  BY <2>1, <3>1, <3>2, AnswerGiven
  <2> QED  BY <1>8, <2>2, <2>3 DEF Get
<1>9. CASE Delete(h)
  <2> DEFINE found == {r \in Visible(req[h].sub) : r.id = req[h].in.id}
  <2>1. /\ routes' = routes \ found /\ ids' = ids /\ req[h].op = "delete"
        /\ Answer(h, IF found = {} THEN 404 ELSE 204, <<>>)
    BY <1>0, <1>9 DEF Delete
  <2>2. CASE found = {}
    <3>1. Answer(h, 404, <<>>) /\ routes' \subseteq routes  BY <2>1, <2>2
    <3>2. RoutesBefore(h)'
      BY <1>9, <2>1, <3>1, BeforeKept DEF Delete
    <3>3. \A x \in {r \in req[h].before \intersect routes' : r.owner = req[h].sub} :
            x.id # req[h].in.id
      BY <2>1, <2>2 DEF Visible
    <3> HIDE DEF found
    <3> QED  BY <2>1, <3>1, <3>2, <3>3, AnswerGiven
  <2>3. CASE found # {}
    <3>1. PICK r \in found : TRUE  BY <2>3
    <3>2. r \in routes /\ r.id = req[h].in.id  BY DEF Visible
    <3>3. \A x \in routes : x.id = r.id => x = r
      BY <3>2 DEF AccountsInv, RowIds
    <3>4. req[h].in.id \in 1 .. ids'  BY <2>1, <3>2 DEF AccountsInv, RowIds
    <3>5. req[h].in.id \notin IdsOf(routes')  BY <2>1, <3>1, <3>2, <3>3 DEF IdsOf
    <3>6. Answer(h, 204, <<>>) /\ routes' \subseteq routes  BY <2>1, <2>3
    <3>7. ids' = ids /\ req[h].op = "delete"  BY <2>1
    <3> DEFINE status == 204
    <3>8. Answer(h, status, <<>>) /\ status = 204  BY <3>6
    <3> HIDE DEF found, status
    <3> QED  BY <3>4, <3>5, <3>6, <3>7, <3>8, RemovalGiven
  <2> QED  BY <2>2, <2>3
<1>10. CASE CreateReport(h)
  <2>1. routes' = routes /\ req[h].op = "report"
    BY <1>0, <1>10 DEF CreateReport
  <2>2. PICK body : \/ NewId /\ Answer(h, 201, body)
                    \/ ids' = ids /\ Refuse(h, 500)
    BY <1>10 DEF CreateReport
  <2>3. CASE NewId /\ Answer(h, 201, body)  BY <2>1, <2>3, AnswerGiven
  <2> QED  BY <2>1, <2>2, <2>3, RefusalSilent
<1> QED
  BY <1>1, <1>2, <1>3, <1>4, <1>5, <1>6, <1>7, <1>8, <1>9, <1>10 DEF Proceeds

LEMMA AnswersNext ==
  ASSUME AccountsInv, AccountsInv', AnswersInv, [Next]_vars
  PROVE  AnswersInv'
<1>1. ASSUME NEW h \in Handlers, Arrives(h) PROVE AnswersInv'  BY <1>1, AnswersArrive
<1>2. ASSUME NEW h \in Handlers, Proceeds(h) PROVE AnswersInv'  BY <1>2, AnswersProceed
<1>3. ASSUME NEW h \in Handlers, QueryFails(h) PROVE AnswersInv'
  <2>1. OnError(req[h].op) \notin {200, 204}  BY DEF OnError
  <2> QED  BY <1>3, <2>1, RefusalSilent DEF QueryFails, tables
<1>4. ASSUME NEW h \in Handlers, AnswerLost(h) PROVE AnswersInv'
  <2>1. /\ ids' = ids \/ NewId
        /\ Refuse(h, OnError(req[h].op)) /\ OnError(req[h].op) \notin {200, 204}
    BY <1>4 DEF AnswerLost, OnError
  <2>2. \/ routes' \subseteq routes
        \/ \E r : r.id = ids + 1 /\ routes' = routes \union {r}
    BY <1>4 DEF AnswerLost
  <2> QED  BY <2>1, <2>2, RefusalSilent
<1>5. ASSUME req' = req, ids' = ids, routes' \subseteq routes  PROVE AnswersInv'
  BY <1>5, OthersStayRight DEF AnswersInv, AccountsInv, Counting
<1>6. CASE DeleteAccount  BY <1>5, <1>6 DEF DeleteAccount
<1>7. CASE Tick  BY <1>5, <1>7 DEF Tick, tables
<1>8. CASE UNCHANGED vars  BY <1>5, <1>8 DEF vars, tables
<1> QED  BY <1>1, <1>2, <1>3, <1>4, <1>6, <1>7, <1>8 DEF Next

(* Ownership is part of every statement: whatever is stored, deleted or    *)
(* orphaned while requests are under way, an answer shows routes of the    *)
(* rider of the token only, a list shows them newest first and leaves none *)
(* out that was there all along but for a full page of newer ones, a route *)
(* of the rider's own is called not found by a failing database only, what *)
(* was deleted with a 204 is gone, and only its owner (told 204, or 404    *)
(* when the connection broke behind the DELETE) or whoever removes their   *)
(* account takes a route away (savedroute.go's List, Get and Delete).      *)
THEOREM RoutesStayPrivate == Spec => RoutesPrivate
<1>1. Init => AnswersInv  BY AnswersInit
<1>2. AnswersInv /\ AccountsInv /\ AccountsInv' /\ [Next]_vars => AnswersInv'
  BY AnswersNext
<1>3. AnswersInv => AnswersOwn
  BY DEF AnswersInv, RouteAnswer, PageOf, NotDenied, StillOwn, AnswersOwn
<1>4. Spec => []AnswersOwn
  BY <1>1, <1>2, <1>3, AccountsInvariant, PTL DEF Spec
<1>5. Spec => [][OwnerDeletes]_vars  BY OnlyOwnersDelete
<1> QED  BY <1>4, <1>5, PTL DEF RoutesPrivate

=============================================================================
