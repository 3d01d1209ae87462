------------------------------ MODULE TileProofs ------------------------------
(***************************************************************************)
(* Proofs about TileCover for any number of tiles, workers and runs.       *)
(*                                                                         *)
(* The argument is an account of the keys Cover has handed out: each of    *)
(* them is decoded, known to be absent, in the hands of exactly one worker *)
(* or failed, and the error channel holds one error per failed key.        *)
(***************************************************************************)
EXTENDS TileCover, FiniteSets, FiniteSetTheorems, TLAPS

Busy(w) == worker[w] \in {"reading", "fetching", "writing", "decoding"}

\* Keys handed out, and keys a worker is at work on.
Taken == 1 .. next - 1
InHand == {job[w] : w \in {v \in Workers : Busy(v)}}
Failed == Taken \ (tiles \union absent \union InHand)

OneWorkerPerKey ==
  \A v, w \in Workers : Busy(v) /\ Busy(w) /\ job[v] = job[w] => v = w

KeysAccounted ==
  /\ tiles \union absent \union InHand \subseteq Taken
  /\ (tiles \union absent) \intersect InHand = {}
  /\ OneWorkerPerKey
  /\ errs = Cardinality(Failed)

Phases ==
  /\ main = "waiting" => next = NumKeys + 1
  /\ result = "none" <=> main # "returned"
  /\ result = "nil" => errs = 0 /\ next = NumKeys + 1

\* wg.Wait: whoever returned has no worker left to write t.tiles.
Joined == main = "returned" => \A w \in Workers : worker[w] = "exited"

CoverInv == TypeOK /\ KeysAccounted /\ Phases /\ Joined

\* What the workers and the results of this call say of the cache.
CacheHeld ==
  /\ \A w \in Workers :
       /\ worker[w] = "fetching" => job[w] \in unread
       /\ worker[w] = "writing" =>
            cache[job[w]] = "none" \/ job[w] \in unread
       /\ worker[w] = "decoding" => cache[job[w]] = data[w]
  /\ \A k \in tiles : cache[k] = "good"
  /\ \A k \in absent : cache[k] = "none" \/ k \in unread

-----------------------------------------------------------------------------
(* A set of keys handed out is finite, and no larger than all of them.     *)
LEMMA TakenBounded ==
  ASSUME NEW n \in 1 .. NumKeys + 1, NEW S, S \subseteq 1 .. n - 1
  PROVE  /\ IsFiniteSet(S)
         /\ Cardinality(S) \in 0 .. NumKeys
         /\ Cardinality(S) = 0 => S = {}
<1> USE CoverAssumption
<1>1. IsFiniteSet(1 .. n - 1) /\ Cardinality(1 .. n - 1) <= NumKeys
  BY FS_Interval
<1>2. IsFiniteSet(S) /\ Cardinality(S) <= Cardinality(1 .. n - 1)
  BY <1>1, FS_Subset
<1>3. Cardinality(S) \in Nat /\ Cardinality(1 .. n - 1) \in Nat
  BY <1>1, <1>2, FS_CardinalityType
<1> QED BY <1>1, <1>2, <1>3, FS_EmptySet

(* A fresh call has handed out nothing.                                    *)
LEMMA FreshAccounted ==
  ASSUME next = 1, tiles = {}, absent = {}, errs = 0,
         worker = [w \in Workers |-> "receiving"]
  PROVE  KeysAccounted
<1>1. InHand = {} /\ Taken = {}
  BY DEF InHand, Busy, Taken
<1>2. Failed = {}
  BY <1>1 DEF Failed
<1> QED BY <1>1, <1>2, FS_EmptySet DEF KeysAccounted, OneWorkerPerKey, Busy

\* A step that leaves the account of the keys as it is.
SameAccount ==
  /\ UNCHANGED <<next, job, tiles, absent, errs>>
  /\ \A w \in Workers : Busy(w)' <=> Busy(w)

LEMMA SameAccountKeeps ==
  ASSUME KeysAccounted, SameAccount
  PROVE  KeysAccounted'
<1>1. InHand' = InHand
  BY DEF InHand, SameAccount
<1>2. Failed' = Failed /\ Taken' = Taken
  BY <1>1 DEF Failed, Taken, SameAccount
<1> QED BY <1>1, <1>2 DEF KeysAccounted, OneWorkerPerKey, SameAccount

(* Handing a key to a worker moves it from "not taken" to "in hand".       *)
LEMMA SendKeeps ==
  ASSUME TypeOK, KeysAccounted, NEW w \in Workers, Send(w)
  PROVE  KeysAccounted'
<1> USE CoverAssumption
<1>1. Busy(w)' /\ ~Busy(w) /\ job'[w] = next
  BY DEF Send, TypeOK, Busy
<1>2. \A v \in Workers \ {w} : (Busy(v)' <=> Busy(v)) /\ job'[v] = job[v]
  BY DEF Send, TypeOK, Busy
<1>3. InHand' = InHand \union {next}
  BY <1>1, <1>2 DEF InHand
<1>4. Taken' = Taken \union {next} /\ next \notin Taken
  BY DEF Taken, Send, TypeOK
<1>5. Failed' = Failed
  BY <1>3, <1>4 DEF Failed, Send, KeysAccounted
<1>6. \A v \in Workers \ {w} : Busy(v) => job[v] # next
  BY <1>4 DEF KeysAccounted, InHand
<1>7. OneWorkerPerKey'
  BY <1>1, <1>2, <1>6 DEF KeysAccounted, OneWorkerPerKey
<1>8. (tiles' \union absent') \intersect InHand' = {}
  BY <1>3, <1>4 DEF KeysAccounted, Send
<1> QED BY <1>3, <1>4, <1>5, <1>7, <1>8 DEF KeysAccounted, Send

\* Worker w is done with its key, for better or worse.
LetsGo(w) ==
  /\ Busy(w) /\ ~Busy(w)'
  /\ UNCHANGED <<next, job>>
  /\ \A v \in Workers \ {w} : Busy(v)' <=> Busy(v)

LEMMA LetsGoFacts ==
  ASSUME TypeOK, KeysAccounted, NEW w \in Workers, LetsGo(w)
  PROVE  /\ InHand' = InHand \ {job[w]}
         /\ job[w] \in InHand /\ job[w] \in Taken /\ Taken' = Taken
         /\ job[w] \notin Failed
         /\ OneWorkerPerKey'
<1>1. \A v \in Workers \ {w} : Busy(v) => job[v] # job[w]
  BY DEF KeysAccounted, OneWorkerPerKey, LetsGo
<1>2. InHand' = InHand \ {job[w]}
  BY <1>1 DEF LetsGo, InHand
<1>3. job[w] \in InHand
  BY DEF LetsGo, InHand
<1>4. Taken' = Taken
  BY DEF LetsGo, Taken
<1> QED BY <1>2, <1>3, <1>4
        DEF KeysAccounted, Failed, OneWorkerPerKey, LetsGo

(* A decoded or absent key leaves the hands of its worker for the result.  *)
LEMMA DoneKeeps ==
  ASSUME TypeOK, KeysAccounted, NEW w \in Workers, LetsGo(w), errs' = errs,
         tiles' \union absent' = (tiles \union absent) \union {job[w]}
  PROVE  KeysAccounted'
<1>1. Failed' = Failed
  BY LetsGoFacts DEF Failed
<1> QED BY <1>1, LetsGoFacts DEF KeysAccounted

(* A worker that exits with an error adds one failed key and one error.    *)
LEMMA FailKeeps ==
  ASSUME TypeOK, KeysAccounted, NEW w \in Workers, LetsGo(w),
         errs' = errs + 1, UNCHANGED <<tiles, absent>>
  PROVE  KeysAccounted'
<1>1. Failed' = Failed \union {job[w]}
  BY LetsGoFacts DEF Failed, KeysAccounted
<1>2. Cardinality(Failed') = Cardinality(Failed) + 1
  <2>1. IsFiniteSet(Failed)
    BY TakenBounded DEF TypeOK, Failed, Taken
  <2> QED BY <1>1, <2>1, LetsGoFacts, FS_AddElement
<1> QED BY <1>2, LetsGoFacts DEF KeysAccounted

-----------------------------------------------------------------------------
(* Cover's own steps.                                                      *)
LEMMA CoverKeeps ==
  ASSUME CoverInv, Cover \/ Interrupt
  PROVE  CoverInv'
<1> USE CoverAssumption DEF CoverInv
<1>1. ASSUME NEW w \in Workers, Send(w) PROVE CoverInv'
  <2>1. KeysAccounted'
    BY <1>1, SendKeeps
  <2>2. TypeOK'
    BY <1>1 DEF Send, TypeOK
  <2> QED BY <1>1, <2>1, <2>2 DEF Send, Phases, Joined
<1>2. CASE SendCancelled \/ Close \/ Interrupt
  <2>1. SameAccount
    BY <1>2 DEF SendCancelled, Close, Interrupt, SameAccount, Busy
  <2>2. CASE SendCancelled
    BY <2>1, <2>2, SameAccountKeeps
       DEF SendCancelled, TypeOK, Phases, Joined
  <2>3. CASE Close
    <3>1. next = NumKeys + 1
      BY <2>3 DEF Close, TypeOK
    <3> QED BY <2>1, <2>3, <3>1, SameAccountKeeps
            DEF Close, TypeOK, Phases, Joined
  <2>4. CASE Interrupt
    BY <2>1, <2>4, SameAccountKeeps
       DEF Interrupt, TypeOK, Phases, Joined
  <2> QED BY <1>2, <2>2, <2>3, <2>4
<1>3. CASE Return
  <2>1. SameAccount
    BY <1>3 DEF Return, SameAccount, Busy
  <2>2. TypeOK' /\ Phases' /\ Joined'
    BY <1>3 DEF Return, TypeOK, Phases, Joined
  <2> QED BY <2>1, <2>2, SameAccountKeeps
<1> QED BY <1>1, <1>2, <1>3 DEF Cover

(* A worker's steps.                                                       *)
LEMMA WorkKeeps ==
  ASSUME CoverInv, NEW w \in Workers, Work(w)
  PROVE  CoverInv'
<1> USE CoverAssumption DEF CoverInv
<1>1. Busy(w) => job[w] \in Keys
  BY DEF KeysAccounted, InHand, Taken, TypeOK, Keys
<1> USE DEF Others, Process, Fetches
<1>2. worker[w] # "exited" /\ main # "returned"
  BY DEF Work, Drain, ReadCache, ReadFails, Download, NotFound, DownloadFails,
         WriteCache, WriteFails, Decode, Joined
<1>3. CASE \/ Drain(w) \/ ReadCache(w) \/ ReadFails(w) \/ Download(w)
           \/ WriteCache(w)
  <2>1. SameAccount
    BY <1>3 DEF Drain, ReadCache, ReadFails, Download, WriteCache,
                SameAccount, Busy, TypeOK
  <2>2. TypeOK'
    BY <1>1, <1>3 DEF Drain, ReadCache, ReadFails, Download, WriteCache,
                      TypeOK, Busy
  <2>3. UNCHANGED <<main, result, next, errs>>
    BY <1>3 DEF Drain, ReadCache, ReadFails, Download, WriteCache
  <2> QED BY <1>2, <2>1, <2>2, <2>3, SameAccountKeeps DEF Phases, Joined
<1>4. CASE NotFound(w) \/ (Decode(w) /\ data[w] = "good")
  <2>1. /\ LetsGo(w)
        /\ errs' = errs
        /\ tiles' \union absent' = (tiles \union absent) \union {job[w]}
    BY <1>4 DEF NotFound, Decode, LetsGo, Busy, TypeOK
  <2>2. KeysAccounted'
    BY <2>1, DoneKeeps
  <2>3. TypeOK'
    BY <1>1, <1>4 DEF NotFound, Decode, TypeOK, Busy
  <2>4. UNCHANGED <<main, result, next, errs>>
    BY <1>4 DEF NotFound, Decode
  <2> QED BY <1>2, <2>2, <2>3, <2>4 DEF Phases, Joined
<1>5. CASE \/ DownloadFails(w) \/ WriteFails(w)
           \/ (Decode(w) /\ data[w] # "good")
  <2>1. /\ LetsGo(w)
        /\ errs' = errs + 1
        /\ UNCHANGED <<tiles, absent>>
    BY <1>5 DEF DownloadFails, WriteFails, Decode, Fail, LetsGo, Busy,
                TypeOK
  <2>2. KeysAccounted'
    BY <2>1, FailKeeps
  <2>3. UNCHANGED <<main, result, next>>
    BY <1>5 DEF DownloadFails, WriteFails, Decode
  <2>4. errs' \in 0 .. NumKeys
    <3>1. next' \in 1 .. NumKeys + 1
      BY <2>3 DEF TypeOK
    <3>2. Cardinality(Failed') \in 0 .. NumKeys
      BY <3>1, TakenBounded DEF Failed, Taken
    <3> QED BY <2>2, <3>2 DEF KeysAccounted
  <2>5. TypeOK'
    BY <1>1, <1>5, <2>4 DEF DownloadFails, WriteFails, Decode, Fail, Others,
                            TypeOK, Busy
  <2> QED BY <1>2, <2>2, <2>3, <2>5 DEF Phases, Joined
<1> QED BY <1>3, <1>4, <1>5 DEF Work

(* A fresh call, the first or a later one, starts the account anew.        *)
LEMMA FreshKeeps == Init => CoverInv
<1> SUFFICES ASSUME Init PROVE CoverInv
  OBVIOUS
<1> USE CoverAssumption DEF Init, Fresh
<1>1. KeysAccounted
  BY FreshAccounted
<1>2. TypeOK
  <2>1. /\ worker \in [Workers -> {"receiving", "reading", "fetching",
                                   "writing", "decoding", "exited"}]
        /\ job \in [Workers -> 0 .. NumKeys]
        /\ data \in [Workers -> {"none", "good", "bad"}]
        /\ cache \in [Keys -> {"none", "good", "bad"}]
    OBVIOUS
  <2>2. next \in 1 .. NumKeys + 1 /\ errs \in 0 .. NumKeys
    OBVIOUS
  <2> QED BY <2>1, <2>2 DEF TypeOK
<1> QED BY <1>1, <1>2 DEF CoverInv, Phases, Joined

LEMMA RunAgainKeeps == CoverInv /\ RunAgain => CoverInv'
<1> SUFFICES ASSUME CoverInv, RunAgain PROVE CoverInv'
  OBVIOUS
<1> USE CoverAssumption DEF RunAgain
<1>1. KeysAccounted'
  <2>1. InHand' = {} /\ Taken' = {}
    BY DEF InHand, Busy, Taken
  <2>2. Failed' = {}
    BY <2>1 DEF Failed
  <2> QED BY <2>1, <2>2, FS_EmptySet DEF KeysAccounted, OneWorkerPerKey, Busy
<1>2. cache' \in [Keys -> {"none", "good", "bad"}]
  BY DEF CoverInv, TypeOK
<1>3. TypeOK'
  <2>1. /\ worker' \in [Workers -> {"receiving", "reading", "fetching",
                                    "writing", "decoding", "exited"}]
        /\ job' \in [Workers -> 0 .. NumKeys]
        /\ data' \in [Workers -> {"none", "good", "bad"}]
    OBVIOUS
  <2>2. next' \in 1 .. NumKeys + 1 /\ errs' \in 0 .. NumKeys /\ runs' \in Nat
        /\ unread' \subseteq Keys
    BY DEF CoverInv, TypeOK
  <2> QED BY <1>2, <2>1, <2>2 DEF TypeOK
<1> QED BY <1>1, <1>3 DEF CoverInv, Phases, Joined

LEMMA CoverInvariant == Spec => []CoverInv
<1>1. CoverInv /\ [Next]_vars => CoverInv'
  <2> SUFFICES ASSUME CoverInv, [Next]_vars PROVE CoverInv'
    OBVIOUS
  <2>1. CASE Cover \/ Interrupt
    BY <2>1, CoverKeeps
  <2>2. CASE RunAgain
    BY <2>2, RunAgainKeeps
  <2>3. ASSUME NEW w \in Workers, Work(w) PROVE CoverInv'
    BY <2>3, WorkKeeps
  <2>4. CASE UNCHANGED vars
    <3>1. SameAccount
      BY <2>4 DEF vars, SameAccount, Busy
    <3> QED BY <2>4, <3>1, SameAccountKeeps
            DEF vars, CoverInv, TypeOK, Phases, Joined, Keys
  <2> QED BY <2>1, <2>2, <2>3, <2>4 DEF Next
<1> QED BY <1>1, FreshKeeps, PTL DEF Spec

(* terrain.go:61-121: the indices Cover and its workers use stay within the*)
(* keys, and the error channel, made with room for len(keys) errors, is    *)
(* never full: a worker that reports an error cannot block on it.          *)
THEOREM TypeCorrect == Spec => []TypeOK
BY CoverInvariant, PTL DEF CoverInv

LEMMA NilCovered == CoverInv => NilMeansCovered
<1> SUFFICES ASSUME CoverInv, result = "nil"
             PROVE  Keys = tiles \union absent
  BY DEF NilMeansCovered
<1> USE CoverAssumption
<1>1. main = "returned" /\ errs = 0 /\ next = NumKeys + 1
  BY DEF CoverInv, Phases
<1>2. InHand = {}
  BY <1>1 DEF CoverInv, Joined, InHand, Busy
<1>3. Failed = {}
  BY <1>1, TakenBounded DEF CoverInv, KeysAccounted, TypeOK, Failed, Taken
<1>4. Taken = Keys
  BY <1>1 DEF Taken, Keys
<1> QED BY <1>2, <1>3, <1>4 DEF Failed, CoverInv, TypeOK

(* terrain.go:61 "Cover downloads every tile": nil is returned only when   *)
(* each key is in t.tiles or was answered 404, whatever the interleaving of*)
(* the workers, the failures, the interruptions and the cache left behind. *)
THEOREM NilIsCovered == Spec => []NilMeansCovered
BY NilCovered, CoverInvariant, PTL

-----------------------------------------------------------------------------
\* What a step does to the cache, as CacheKept states it.
Keeps ==
  /\ \A k \in Keys \ unread : cache[k] # "none" => cache'[k] = cache[k]
  /\ \A k \in tiles' : cache'[k] = "good"
  /\ result' = "nil" => \A k \in Keys \ unread : cache'[k] # "bad"

(* Steps that touch neither the cache nor what is known of it.             *)
LEMMA OtherStepsHold ==
  ASSUME CoverInv, CacheHeld,
         Cover \/ Interrupt \/ \E w \in Workers : Drain(w)
  PROVE  CacheHeld' /\ UNCHANGED <<cache, tiles, absent, unread>>
<1>1. UNCHANGED <<cache, tiles, absent, unread, data>>
  BY DEF Cover, Interrupt, Drain, Send, SendCancelled, Close, Return, Others
<1>2. ASSUME NEW w \in Workers
      PROVE  \/ worker'[w] = worker[w] /\ job'[w] = job[w]
             \/ worker'[w] \in {"reading", "exited"}
  BY DEF Cover, Interrupt, Drain, Send, SendCancelled, Close, Return, Others,
         Process, CoverInv, TypeOK
<1> QED BY <1>1, <1>2 DEF CacheHeld

(* A worker at work on a key: nobody else is, and it writes the file only  *)
(* when it found none or could not read it.                                *)
LEMMA WorkHolds ==
  ASSUME CoverInv, CacheHeld, NEW w \in Workers, Work(w), ~Drain(w)
  PROVE  /\ CacheHeld'
         /\ \A k \in Keys \ unread : cache[k] # "none" => cache'[k] = cache[k]
<1> USE DEF CoverInv, TypeOK, Fetches
<1>1. /\ Busy(w)
      /\ \A v \in Workers \ {w} : /\ worker'[v] = worker[v]
                                   /\ data'[v] = data[v]
      /\ job' = job
      /\ unread \subseteq unread'
  BY DEF Work, ReadCache, ReadFails, Download, NotFound, DownloadFails,
         WriteCache, WriteFails, Decode, Fail, Others, Process, Busy
<1>2. /\ job[w] \in InHand /\ job[w] \in Keys
      /\ job[w] \notin tiles /\ job[w] \notin absent
  <2>1. job[w] \in InHand
    BY <1>1 DEF InHand
  <2> QED BY <2>1, CoverAssumption DEF KeysAccounted, Taken, Keys
<1>3. \A v \in Workers \ {w} : Busy(v) => job[v] # job[w]
  BY <1>1 DEF KeysAccounted, OneWorkerPerKey
<1>4. \A k \in Keys \ {job[w]} : cache'[k] = cache[k]
  BY <1>2 DEF Work, ReadCache, ReadFails, Download, NotFound, DownloadFails,
         WriteCache, WriteFails, Decode, Others
<1>5. cache'[job[w]] # cache[job[w]] =>
        cache[job[w]] = "none" \/ job[w] \in unread
  BY <1>2 DEF Work, ReadCache, ReadFails, Download, NotFound, DownloadFails,
         WriteCache, WriteFails, Decode, Others, CacheHeld
<1>6. \A v \in Workers \ {w} :
        Busy(v) => job[v] \in Keys /\ cache'[job[v]] = cache[job[v]]
  <2>1. \A v \in Workers : Busy(v) => job[v] \in Keys
    BY CoverAssumption DEF KeysAccounted, InHand, Taken, Keys
  <2> QED BY <2>1, <1>3, <1>4
<1>7. /\ worker'[w] = "fetching" => job'[w] \in unread'
      /\ worker'[w] = "writing" =>
           cache'[job'[w]] = "none" \/ job'[w] \in unread'
      /\ worker'[w] = "decoding" => cache'[job'[w]] = data'[w]
  BY <1>1, <1>2 DEF Work, ReadCache, ReadFails, Download, NotFound,
         DownloadFails, WriteCache, WriteFails, Decode, Fail, Others,
         CacheHeld
<1>8. \A v \in Workers \ {w} :
        /\ worker'[v] = "fetching" => job'[v] \in unread'
        /\ worker'[v] = "writing" =>
             cache'[job'[v]] = "none" \/ job'[v] \in unread'
        /\ worker'[v] = "decoding" => cache'[job'[v]] = data'[v]
  BY <1>1, <1>6 DEF CacheHeld, Busy
<1>9. \A k \in tiles' : cache'[k] = "good"
  <2>1. \A k \in tiles : cache'[k] = "good"
    BY <1>2, <1>4 DEF CacheHeld
  <2>2. tiles' = tiles \/ (/\ tiles' = tiles \union {job[w]}
                          /\ cache' = cache /\ cache[job[w]] = "good")
    BY DEF Work, ReadCache, ReadFails, Download, NotFound, DownloadFails,
         WriteCache, WriteFails, Decode, Others, CacheHeld
  <2> QED BY <2>1, <2>2
<1>10. \A k \in absent' : cache'[k] = "none" \/ k \in unread'
  <2>1. \A k \in absent : cache'[k] = "none" \/ k \in unread'
    BY <1>1, <1>2, <1>4 DEF CacheHeld
  <2>2. absent' = absent \/ (/\ absent' = absent \union {job[w]}
                            /\ cache' = cache /\ Fetches(w))
    BY DEF Work, ReadCache, ReadFails, Download, NotFound, DownloadFails,
         WriteCache, WriteFails, Decode, Others
  <2> QED BY <1>1, <2>1, <2>2 DEF CacheHeld
<1>11. CacheHeld'
  BY <1>7, <1>8, <1>9, <1>10 DEF CacheHeld
<1> QED BY <1>4, <1>5, <1>11

(* A new run: a kill tears only files that were being written, none of     *)
(* which was there and readable before.                                    *)
LEMMA RunAgainHolds ==
  ASSUME CoverInv, CacheHeld, RunAgain
  PROVE  CacheHeld' /\ Keeps
<1>1. /\ worker' = [w \in Workers |-> "receiving"]
      /\ tiles' = {} /\ absent' = {} /\ result' = "none"
  BY DEF RunAgain
<1>2. PICK cut \in SUBSET {job[w] : w \in {v \in Workers :
                                            worker[v] = "writing"}} :
        cache' = [k \in Keys |-> IF k \in cut THEN "bad" ELSE cache[k]]
  BY DEF RunAgain
<1>3. \A k \in cut : cache[k] = "none" \/ k \in unread
  BY DEF CacheHeld
<1> QED BY <1>1, <1>2, <1>3 DEF CacheHeld, Keeps

(* nil is returned only when no readable tile of the box is damaged.       *)
NilUndamaged == result = "nil" => \A k \in Keys \ unread : cache[k] # "bad"

LEMMA DamageReported == CoverInv /\ CacheHeld => NilUndamaged
BY NilCovered DEF NilMeansCovered, CacheHeld, NilUndamaged

LEMMA CacheInvariant == Spec => [](CoverInv /\ CacheHeld /\ NilUndamaged)
<1>1. Init => CacheHeld
  BY DEF Init, Fresh, CacheHeld
<1>2. CoverInv /\ CacheHeld /\ [Next]_vars => CacheHeld'
  <2> SUFFICES ASSUME CoverInv, CacheHeld, [Next]_vars PROVE CacheHeld'
    OBVIOUS
  <2>1. CASE UNCHANGED vars
    BY <2>1 DEF vars, CacheHeld
  <2> QED BY <2>1, OtherStepsHold, WorkHolds, RunAgainHolds DEF Next
<1> QED BY <1>1, <1>2, CoverInvariant, DamageReported, PTL DEF Spec

(* terrain.go:126-210: what the cache holds of a tile, whole or damaged, is*)
(* what later runs read for as long as the file can be read; t.tiles takes *)
(* whole ones only, so a damaged one keeps every run from returning nil.   *)
THEOREM CacheStaysKept == Spec => CacheKept
<1>1. CoverInv /\ CacheHeld /\ CacheHeld' /\ NilUndamaged' /\ [Next]_vars
        => [Keeps]_vars
  <2> SUFFICES ASSUME CoverInv, CacheHeld, CacheHeld', NilUndamaged', Next
               PROVE  Keeps
    BY DEF vars
  <2>1. CASE RunAgain
    BY <2>1, RunAgainHolds
  <2>2. CASE ~RunAgain
    <3>1. \A k \in Keys \ unread : cache[k] # "none" => cache'[k] = cache[k]
      BY <2>2, OtherStepsHold, WorkHolds DEF Next
    <3>2. \A k \in tiles' : cache'[k] = "good"
      BY DEF CacheHeld
    <3>3. result' = "nil" => \A k \in Keys \ unread : cache'[k] # "bad"
      <4>1. CASE \E w \in Workers : ReadFails(w)
        <5>1. result' = "none"
          BY <4>1 DEF ReadFails, Process, CoverInv, Phases, Joined
        <5> QED BY <5>1
      <4>2. CASE ~\E w \in Workers : ReadFails(w)
        <5>1. unread' = unread
          BY <2>2, <4>2
             DEF Next, Cover, Interrupt, Send, SendCancelled, Close, Return,
                 Work, Drain, ReadCache, Download, NotFound, DownloadFails,
                 WriteCache, WriteFails, Decode, Others
        <5> QED BY <5>1 DEF NilUndamaged
      <4> QED BY <4>1, <4>2
    <3> QED BY <3>1, <3>2, <3>3 DEF Keeps
  <2> QED BY <2>1, <2>2
<1> QED BY <1>1, CacheInvariant, PTL DEF Spec, CacheKept, Keeps
=============================================================================
