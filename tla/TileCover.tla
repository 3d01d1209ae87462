------------------------------ MODULE TileCover ------------------------------
(***************************************************************************)
(* Downloading elevation tiles (internal/elevation/terrain.go): Cover hands*)
(* the tiles of a bounding box over an unbuffered channel to a fixed pool  *)
(* of workers, each of which reads its tile from the cache directory or    *)
(* fetches, caches, decodes and stores it.  The operator may interrupt the *)
(* run, the process may be killed, and the command may be run again on the *)
(* cache directory it left behind.                                         *)
(*                                                                         *)
(* A tile's bytes are "good" when they decode to a 256x256 image and "bad" *)
(* otherwise.                                                              *)
(***************************************************************************)
EXTENDS Naturals

CONSTANTS
  NumKeys,      \* tiles of the bounding box, in the order of keys
  Workers,      \* the worker goroutines (8 in the code)
  MaxRuns       \* bound on the runs of the command

ASSUME CoverAssumption == NumKeys \in Nat /\ MaxRuns \in Nat

Keys == 1 .. NumKeys

VARIABLES
  cache,        \* the files of the cache directory
  runs,         \* runs of the command so far
  cancelled,    \* ctx is done
  main,         \* where Cover is
  result,       \* what it returned
  next,         \* the key it sends next
  worker,       \* where each worker is
  job,          \* the key it received
  data,         \* the bytes it holds
  errs,         \* errors in the buffered channel
  tiles,        \* t.tiles
  absent,       \* keys answered 404
  unread        \* history: cached tiles that could not be read once

vars == <<cache, runs, cancelled, main, result, next, worker, job, data, errs,
          tiles, absent, unread>>

\* A fresh call of Cover.
Fresh ==
  /\ cancelled = FALSE
  /\ main = "sending"
  /\ result = "none"
  /\ next = 1
  /\ worker = [w \in Workers |-> "receiving"]
  /\ job = [w \in Workers |-> 0]
  /\ data = [w \in Workers |-> "none"]
  /\ errs = 0
  /\ tiles = {}
  /\ absent = {}

Init == cache = [k \in Keys |-> "none"] /\ runs = 1 /\ unread = {} /\ Fresh

-----------------------------------------------------------------------------
(* Cover.                                                                  *)

\* One key too many.
Send_Past(w) ==
  /\ main = "sending" /\ next <= NumKeys + 1
  /\ worker[w] = "receiving"
  /\ worker' = [worker EXCEPT ![w] = "reading"]
  /\ job' = [job EXCEPT ![w] = next]
  /\ next' = next + 1
  /\ UNCHANGED <<cache, runs, cancelled, main, result, data, errs, tiles,
                 absent, unread>>

\* case jobs <- k: a worker that is ranging over the channel takes it.
Send(w) ==
  /\ main = "sending" /\ next <= NumKeys
  /\ worker[w] = "receiving"
  /\ worker' = [worker EXCEPT ![w] = "reading"]
  /\ job' = [job EXCEPT ![w] = next]
  /\ next' = next + 1
  /\ UNCHANGED <<cache, runs, cancelled, main, result, data, errs, tiles,
                 absent, unread>>

\* case <-ctx.Done(): close(jobs), then wait.
SendCancelled ==
  /\ main = "sending" /\ next <= NumKeys
  /\ cancelled
  /\ main' = "cancelling"
  /\ UNCHANGED <<cache, runs, cancelled, result, next, worker, job, data, errs,
                 tiles, absent, unread>>

\* Every key was handed over: close(jobs), then wait.
Close ==
  /\ main = "sending" /\ next > NumKeys
  /\ main' = "waiting"
  /\ UNCHANGED <<cache, runs, cancelled, result, next, worker, job, data, errs,
                 tiles, absent, unread>>

\* wg.Wait, then the first error of the closed channel, if any.
Return ==
  /\ main \in {"waiting", "cancelling"}
  /\ \A w \in Workers : worker[w] = "exited"
  /\ main' = "returned"
  /\ result' = IF main = "cancelling" THEN "cancelled"
               ELSE IF errs > 0 THEN "error" ELSE "nil"
  /\ UNCHANGED <<cache, runs, cancelled, next, worker, job, data, errs, tiles,
                 absent, unread>>

-----------------------------------------------------------------------------
(* A worker.                                                               *)

Process == <<cancelled, main, result, next, runs>>
Others == <<Process, unread>>

\* close(jobs) is missing after the loop.
Drain_NotClosed(w) ==
  /\ worker[w] = "receiving"
  /\ main = "cancelling"
  /\ worker' = [worker EXCEPT ![w] = "exited"]
  /\ UNCHANGED <<Others, cache, job, data, errs, tiles, absent>>

\* range ends on the closed channel.
Drain(w) ==
  /\ worker[w] = "receiving"
  /\ main # "sending"
  /\ worker' = [worker EXCEPT ![w] = "exited"]
  /\ UNCHANGED <<Others, cache, job, data, errs, tiles, absent>>

\* The worker stops without reporting.
Fail_Silent(w) ==
  /\ worker' = [worker EXCEPT ![w] = "exited"]
  /\ errs' = errs

\* errs <- err; return
Fail(w) ==
  /\ worker' = [worker EXCEPT ![w] = "exited"]
  /\ errs' = errs + 1

\* os.ReadFile found the tile.
ReadCache(w) ==
  /\ worker[w] = "reading"
  /\ cache[job[w]] # "none"
  /\ data' = [data EXCEPT ![w] = cache[job[w]]]
  /\ worker' = [worker EXCEPT ![w] = "decoding"]
  /\ UNCHANGED <<Others, cache, job, errs, tiles, absent>>

\* os.ReadFile failed though the tile is there (too many open files, a
\* failing disk): whatever the error, the code fetches the tile.
ReadFails(w) ==
  /\ worker[w] = "reading"
  /\ cache[job[w]] # "none"
  /\ unread' = unread \union {job[w]}
  /\ worker' = [worker EXCEPT ![w] = "fetching"]
  /\ UNCHANGED <<Process, cache, job, data, errs, tiles, absent>>

\* os.ReadFile gave no bytes.
Fetches(w) == \/ worker[w] = "reading" /\ cache[job[w]] = "none"
              \/ worker[w] = "fetching"

\* Fetching without looking into the cache first.
Download_Always(w) ==
  /\ worker[w] \in {"reading", "fetching"}
  /\ \E bytes \in {"good", "bad"} : data' = [data EXCEPT ![w] = bytes]
  /\ worker' = [worker EXCEPT ![w] = "writing"]
  /\ UNCHANGED <<Others, cache, job, errs, tiles, absent>>

\* The whole body arrived with status 200.
Download(w) ==
  /\ Fetches(w)
  /\ \E bytes \in {"good", "bad"} : data' = [data EXCEPT ![w] = bytes]
  /\ worker' = [worker EXCEPT ![w] = "writing"]
  /\ UNCHANGED <<Others, cache, job, errs, tiles, absent>>

\* 404: no such tile, which is not an error.
NotFound(w) ==
  /\ Fetches(w)
  /\ absent' = absent \union {job[w]}
  /\ worker' = [worker EXCEPT ![w] = "receiving"]
  /\ UNCHANGED <<Others, cache, job, data, errs, tiles>>

\* No answer, another status, a body cut short, or ctx done.
DownloadFails(w) ==
  /\ Fetches(w)
  /\ Fail(w)
  /\ UNCHANGED <<Others, cache, job, data, tiles, absent>>

WriteCache(w) ==
  /\ worker[w] = "writing"
  /\ cache' = [cache EXCEPT ![job[w]] = data[w]]
  /\ worker' = [worker EXCEPT ![w] = "decoding"]
  /\ UNCHANGED <<Others, job, data, errs, tiles, absent>>

\* os.WriteFile failed, perhaps after creating or truncating the file.
WriteFails(w) ==
  /\ worker[w] = "writing"
  /\ \E left \in {cache[job[w]], "bad"} :
       cache' = [cache EXCEPT ![job[w]] = left]
  /\ Fail(w)
  /\ UNCHANGED <<Others, job, data, tiles, absent>>

Decode(w) ==
  /\ worker[w] = "decoding"
  /\ IF data[w] = "good"
     THEN /\ tiles' = tiles \union {job[w]}
          /\ worker' = [worker EXCEPT ![w] = "receiving"]
          /\ UNCHANGED errs
     ELSE Fail(w) /\ UNCHANGED tiles
  /\ UNCHANGED <<Others, cache, job, data, absent>>

-----------------------------------------------------------------------------
(* The operator and the machine.                                           *)

Interrupt ==
  /\ main # "returned" /\ ~cancelled
  /\ cancelled' = TRUE
  /\ UNCHANGED <<cache, runs, main, result, next, worker, job, data, errs,
                 tiles, absent, unread>>

\* The command is run again, after a failure or after the process was
\* killed: a file being written then is left empty or cut short.
RunAgain ==
  /\ runs < MaxRuns
  /\ result # "nil"
  /\ runs' = runs + 1
  /\ \E cut \in SUBSET {job[w] : w \in {v \in Workers :
                                           worker[v] = "writing"}} :
       cache' = [k \in Keys |-> IF k \in cut THEN "bad" ELSE cache[k]]
  /\ cancelled' = FALSE
  /\ main' = "sending"
  /\ result' = "none"
  /\ next' = 1
  /\ worker' = [w \in Workers |-> "receiving"]
  /\ job' = [w \in Workers |-> 0]
  /\ data' = [w \in Workers |-> "none"]
  /\ errs' = 0
  /\ tiles' = {}
  /\ absent' = {}
  /\ UNCHANGED unread

-----------------------------------------------------------------------------
Cover == SendCancelled \/ Close \/ Return \/ \E w \in Workers : Send(w)

Work(w) == \/ Drain(w) \/ ReadCache(w) \/ ReadFails(w)
           \/ Download(w) \/ NotFound(w) \/ DownloadFails(w)
           \/ WriteCache(w) \/ WriteFails(w) \/ Decode(w)

Next == Cover \/ Interrupt \/ RunAgain \/ \E w \in Workers : Work(w)

\* Goroutines that can go on do; the HTTP client gives up after 60 s.  The
\* operator need not interrupt or repeat anything.
Spec == /\ Init /\ [][Next]_vars
        /\ WF_vars(Cover)
        /\ \A w \in Workers : WF_vars(Work(w))

-----------------------------------------------------------------------------
(* Every variable stays within its type; the error channel, whose capacity *)
(* is the number of keys, never overflows.                                 *)
TypeOK ==
  /\ cache \in [Keys -> {"none", "good", "bad"}]
  /\ runs \in Nat
  /\ cancelled \in BOOLEAN
  /\ main \in {"sending", "waiting", "cancelling", "returned"}
  /\ result \in {"none", "nil", "error", "cancelled"}
  /\ next \in 1 .. NumKeys + 1
  /\ worker \in [Workers -> {"receiving", "reading", "fetching", "writing",
                             "decoding", "exited"}]
  /\ job \in [Workers -> 0 .. NumKeys]
  /\ data \in [Workers -> {"none", "good", "bad"}]
  /\ errs \in 0 .. NumKeys
  /\ tiles \subseteq Keys
  /\ absent \subseteq Keys
  /\ unread \subseteq Keys

(* "Cover downloads every tile": when it returns nil, every tile of the box*)
(* is in memory or does not exist, whatever failed, was interrupted or was *)
(* left in the cache by runs that were killed.                             *)
NilMeansCovered == result = "nil" => Keys = tiles \union absent

(* A tile once in the cache is what every later run reads: as long as it   *)
(* can be read at all, no run fetches it again, and none that fails, is    *)
(* interrupted or is killed halfway through a write cuts it short          *)
(* (terrain.go:128 "re-downloading hundreds of tiles each time would be    *)
(* rude").  The other side of this is that a damaged tile is never replaced*)
(* either: t.tiles takes only whole ones, and while the damaged one can be *)
(* read no run returns nil.                                                *)
CacheKept ==
  [][/\ \A k \in Keys \ unread : cache[k] # "none" => cache'[k] = cache[k]
     /\ \A k \in tiles' : cache'[k] = "good"
     /\ result' = "nil" => \A k \in Keys \ unread : cache'[k] # "bad"]_vars

(* The only way for Cover not to return is to run out of workers: each of  *)
(* them met an error while tiles were still to be handed out.              *)
StuckOnlyWithoutWorkers ==
  (main = "sending") ~> \/ main = "returned"
                        \/ /\ next <= NumKeys
                           /\ \A w \in Workers : worker[w] = "exited"

(* terrain.go:62 "Cover downloads every tile needed for a bounding box",   *)
(* returning the first error otherwise (terrain.go:119): it returns.       *)
CoverReturns == (main = "sending") ~> (main = "returned")

=============================================================================
